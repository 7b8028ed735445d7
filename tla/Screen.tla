------------------------------- MODULE Screen -------------------------------
(***************************************************************************)
(* From a message of the host to the callbacks of the application: the     *)
(* host writes messages (Codec), the handler corrects the length of a      *)
(* record that came with a wrong one and passes it on (GdsRepair), the     *)
(* decoder takes it apart (Decoder), and an application that keeps one     *)
(* message object reads each record into it (Codec again).  That the       *)
(* handler passes on whole records in order is what Session shows.         *)
(*                                                                         *)
(* The session implements RecordChannel, where a record sent is the list   *)
(* of callbacks its message stands for.                                    *)
(***************************************************************************)
EXTENDS Reader

CONSTANTS
  MessageMenu,    \* the messages the host may write
  WrongLengths,   \* what it may put into the length field instead
  MaxMessages     \* bound: messages written

VARIABLES
  sentMessages,   \* the messages written
  meant,          \* what they stand for
  message,        \* the message object the application reads records into
  unread          \* the application's last reading failed

screenVars == <<vars, sentMessages, meant, message, unread>>

-----------------------------------------------------------------------------
(* What a message stands for. *)

\* A start of header shows in a callback of its own, the other orders in the
\* display bytes.
SohEventsOf(orders) ==
  FlattenSeq([n \in DOMAIN orders |->
    IF orders[n].code = SOH THEN <<<<"Soh", SubSeq(orders[n].operands, 5, 8)>>>> ELSE <<>>])

DisplayBytes(orders) ==
  FlattenSeq([n \in DOMAIN orders |->
    IF orders[n].code = SOH THEN <<>> ELSE MarshalOrder(orders[n])])

UnlockEvents(command) ==
  IF command.code = CcWriteToDisplay /\ UnlockBit(command.control[2])
  THEN <<<<"KeyboardUnlock">>>> ELSE <<>>

EventsOf(command) ==
  <<CommandEvent(command)>> \o UnlockEvents(command) \o SohEventsOf(command.orders)

OpcodeIn(m) == m.variable[3]

Meaning(m) ==
  LET commands == m.commands
      saved    == IF OpcodeIn(m) = OpSaveScreen THEN <<<<"SaveScreen">>>> ELSE <<>>
      shown    == FlattenSeq([n \in DOMAIN commands |-> DisplayBytes(commands[n].orders)])
  IN  IF OpcodeIn(m) \in SignalOpcodes THEN <<<<SignalOf(OpcodeIn(m))>>>>
      ELSE IF OpcodeIn(m) \notin DisplayOpcodes THEN <<>>
      ELSE (saved \o FlattenSeq([n \in DOMAIN commands |-> EventsOf(commands[n])]))
             \o <<<<"RawScreenData", shown>>>>

Meanings == {Meaning(m) : m \in MessageMenu}

-----------------------------------------------------------------------------
ScreenInit ==
  /\ Init
  /\ sentMessages = <<>> /\ meant = <<>> /\ message = NewMessage /\ unread = FALSE

\* The handler hands over the record at IAC EOR: to the decoder, and to the
\* application's message object.
HandOver(rec) ==
  LET reading == Unmarshal(message, rec)
  IN  /\ calls' = Append(calls, rec)
      /\ message' = reading.message
      /\ unread' = (reading.read = 0)
      /\ UNCHANGED <<fed, buffer, mode, reported, resets, walk>>

HostSends(m, rec) ==
  /\ Len(sentMessages) < MaxMessages
  /\ sentMessages' = Append(sentMessages, m)
  /\ meant' = Append(meant, Meaning(m))
  /\ HandOver(RepairGdsRecordLength(rec))

HostSendsMessage == \E m \in MessageMenu : HostSends(m, Marshal(m))

HostSendsWrongLength ==
  \E m \in MessageMenu, len \in WrongLengths :
    HostSends(m, WithLength(Marshal(m), 0, len))

ScreenNext ==
  \/ HostSendsMessage \/ HostSendsWrongLength
  \/ (Step \/ Feed) /\ UNCHANGED <<sentMessages, meant, message, unread>>

\* The handler calls the decoder with each record at once, and the call goes
\* on to its end.
ScreenSpec ==
  ScreenInit /\ [][ScreenNext]_screenVars /\ WF_vars(Step) /\ WF_vars(Feed)

-----------------------------------------------------------------------------
(* Properties. *)

Channel == INSTANCE RecordChannel WITH
             Records <- Meanings,
             sent <- meant,
             delivered <- [n \in DOMAIN reported |-> reported[n].events]

\* The application's callbacks are, record by record and in order, those the
\* host's messages stand for, whatever length they came with: nothing of a
\* message is lost, added, or read as something else on the way through
\* marshal, repair and decoder (message.cpp:95-159,
\* protocol_handler.cpp:193-236, decoder.cpp:29-411).
ScreenIsTheMessages == Channel!Safety

\* And every message written comes to the application in the end: no record
\* the host writes stays in the decoder's buffer (decoder.cpp:29-46).
EveryMessageShows == Channel!Liveness

\* The host writes messages that are read as they were written.
MenuIsReadable == \A m \in MessageMenu : m \in ReadableMessages /\ Marshal(m) # <<>>

\* Text holds no byte at which the decoder begins something else.
TextBytes ==
  Byte \ {ESC, SOH, OrderSBA, OrderSF, OrderRA, OrderEA, OrderIC, OrderMC, OrderTD,
          OrderWDSF, StrpccmdTrigger}

\* The decoder takes an order for the one it was written as.
IsShown(order) ==
  /\ order.code # CodecIC
  /\ order.code = SOH => order.operands[1] = 7
  /\ \A n \in 1..Len(order.data) : order.data[n] \in TextBytes

\* The host writes data records that are not empty, of orders like these.
MenuIsShown ==
  \A m \in MessageMenu :
    /\ m.header[1] = GdsTypeHi /\ m.header[2] = GdsTypeLo /\ m.commands # <<>>
    /\ \A c \in 1..Len(m.commands) : \A n \in 1..Len(m.commands[c].orders) :
         IsShown(m.commands[c].orders[n])

\* None of these lengths ends inside of a record.
EndOutside(lengths) ==
  \A m \in MessageMenu, len \in lengths :
    len \in 0..GdsMaxRecordLen /\ len \notin GdsMinRecordLen..(Len(Marshal(m)) - 1)

\* A message object that is used again gives the header of the last record
\* and the commands of all of them: reading does not clear the list
\* (message.cpp:71-90).
ReadingAddsUp ==
  sentMessages # <<>> =>
    /\ ~unread
    /\ message.variable = sentMessages[Len(sentMessages)].variable
    /\ message.commands = FlattenSeq([n \in DOMAIN sentMessages |-> sentMessages[n].commands])
=============================================================================
