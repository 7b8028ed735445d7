------------------------------ MODULE Decoder ------------------------------
(***************************************************************************)
(* Decoder::parseData (src/tn5250/client/decoder.cpp): the buffer of bytes *)
(* the handler passed on, the records taken from it by their length field, *)
(* and the walk over the commands and orders of one record.  One action is *)
(* one turn of a loop of the code.                                         *)
(*                                                                         *)
(* Positions in the record count from 1; the payload is its rest from      *)
(* PayloadStart on.  A callback is an event: a tuple that begins with the  *)
(* callback's name.                                                        *)
(***************************************************************************)
EXTENDS DataStream

CONSTANTS
  Streams,       \* what a connection may carry: the pieces of data, in order
  NextStreams,   \* the same, for a connection after a reset
  MaxResets      \* bound: calls of reset

ASSUME StreamsAssumption ==
  Streams \subseteq Seq(Seq(Byte)) /\ NextStreams \subseteq Seq(Seq(Byte))

ASSUME ResetsAssumption == MaxResets \in Nat

VARIABLES
  calls,      \* the pieces that are still to be passed on
  fed,        \* every byte that was passed on
  buffer,     \* m_buffer
  mode,       \* where parseData is: "idle" outside of it
  record,     \* rec, the record taken last
  at,         \* i, and j inside a Write To Display
  display,    \* the display bytes of the record so far
  events,     \* the callbacks for the record so far
  reported,   \* every record dispatched, with its callbacks
  resets      \* how often reset was called

vars == <<calls, fed, buffer, mode, record, at, display, events, reported, resets>>

framing == <<calls, fed, buffer, reported, resets>>
walk    == <<record, at, display, events>>

Modes == {"idle", "framing", "commands", "display"}

ParseError == <<"ParseError">>

Init ==
  /\ calls \in Streams
  /\ fed = <<>> /\ buffer = <<>> /\ mode = "idle"
  /\ record = <<>> /\ at = 1 /\ display = <<>> /\ events = <<>>
  /\ reported = <<>> /\ resets = 0

-----------------------------------------------------------------------------
(* Framing: records by their length field. *)

\* parseData is called with the next piece.
Feed ==
  /\ mode = "idle" /\ mode' = "framing"
  /\ calls # <<>> /\ calls' = Tail(calls)
  /\ buffer' = buffer \o Head(calls)
  /\ fed' = fed \o Head(calls)
  /\ UNCHANGED <<walk, reported, resets>>

HasLength == Len(buffer) >= GdsMinRecordLen
RecordLength == Length16(buffer, 0)

\* Mutant: the byte is not given up.
SkipNoByte ==
  /\ mode = "framing" /\ HasLength
  /\ RecordLength \notin GdsMinRecordLen..GdsMaxRecordLen
  /\ UNCHANGED vars

\* A length no record has: the first byte is given up.
SkipByte ==
  /\ mode = "framing" /\ HasLength
  /\ RecordLength \notin GdsMinRecordLen..GdsMaxRecordLen
  /\ buffer' = Tail(buffer)
  /\ UNCHANGED <<calls, fed, reported, resets, mode, walk>>

HasRecord ==
  /\ HasLength
  /\ RecordLength \in GdsMinRecordLen..GdsMaxRecordLen
  /\ RecordLength <= Len(buffer)

NextRecord == SubSeq(buffer, 1, RecordLength)

IsDataRecord(rec) == rec[3] = GdsTypeHi /\ rec[4] = GdsTypeLo

HeaderIsBad(rec) ==
  \/ Len(rec) < 7
  \/ /\ Len(rec) >= 7 /\ IsDataRecord(rec)
     /\ rec[7] < 4 \/ Len(rec) < 7 + rec[7]

OpcodeOf(rec) == rec[10]

PayloadStart(rec) == 7 + rec[7]

DisplayOpcodes == {OpOutputOnly, OpPutGet, OpRestore, OpSaveScreen, OpReadScreen}

SignalOf(opcode) ==
  CASE opcode = OpInvite       -> "Invite"
    [] opcode = OpCancelInvite -> "CancelInvite"
    [] opcode = OpMsgLightOn   -> "MessageLightOn"
    [] opcode = OpMsgLightOff  -> "MessageLightOff"

SignalOpcodes == {OpInvite, OpCancelInvite, OpMsgLightOn, OpMsgLightOff}

TakeRecord ==
  /\ mode = "framing" /\ HasRecord
  /\ buffer' = SubSeq(buffer, RecordLength + 1, Len(buffer))
  /\ UNCHANGED <<calls, fed, resets>>

\* A record that needs no walk is done with at once.
Dispatch(callbacks) ==
  /\ TakeRecord
  /\ reported' = Append(reported, [record |-> NextRecord, events |-> callbacks])
  /\ UNCHANGED <<mode, walk>>

RejectRecord ==
  HasRecord /\ HeaderIsBad(NextRecord) /\ Dispatch(<<ParseError>>)

PassThrough ==
  /\ HasRecord /\ ~HeaderIsBad(NextRecord) /\ ~IsDataRecord(NextRecord)
  /\ Dispatch(<<<<"RawScreenData", NextRecord>>>>)

HasOpcodeIn(opcodes) ==
  /\ HasRecord /\ ~HeaderIsBad(NextRecord) /\ IsDataRecord(NextRecord)
  /\ OpcodeOf(NextRecord) \in opcodes

Signal ==
  /\ HasOpcodeIn(SignalOpcodes)
  /\ Dispatch(<<<<SignalOf(OpcodeOf(NextRecord))>>>>)

IgnoreRecord ==
  HasOpcodeIn(Byte \ (SignalOpcodes \cup DisplayOpcodes)) /\ Dispatch(<<>>)

\* Mutant: the display bytes of the record before are kept.
BeginWalkOnOldDisplay ==
  /\ HasOpcodeIn(DisplayOpcodes) /\ TakeRecord
  /\ mode' = "commands"
  /\ record' = NextRecord
  /\ at' = PayloadStart(NextRecord)
  /\ events' = IF OpcodeOf(NextRecord) = OpSaveScreen THEN <<<<"SaveScreen">>>> ELSE <<>>
  /\ UNCHANGED <<display, reported>>

\* A display record: its payload is walked from the start, and a Save Screen
\* is reported before anything in it.
BeginWalk ==
  /\ HasOpcodeIn(DisplayOpcodes) /\ TakeRecord
  /\ mode' = "commands"
  /\ record' = NextRecord
  /\ at' = PayloadStart(NextRecord)
  /\ display' = <<>>
  /\ events' = IF OpcodeOf(NextRecord) = OpSaveScreen THEN <<<<"SaveScreen">>>> ELSE <<>>
  /\ UNCHANGED reported

\* Mutant: a record that ends with the buffer is taken for an incomplete one.
ReturnTooEarly ==
  /\ mode = "framing" /\ mode' = "idle"
  /\ HasLength => /\ RecordLength \in GdsMinRecordLen..GdsMaxRecordLen
                  /\ RecordLength >= Len(buffer)
  /\ UNCHANGED <<framing, walk>>

\* parseData returns: what is left is no whole record.
Return ==
  /\ mode = "framing" /\ mode' = "idle"
  /\ HasLength => /\ RecordLength \in GdsMinRecordLen..GdsMaxRecordLen
                  /\ RecordLength > Len(buffer)
  /\ UNCHANGED <<framing, walk>>

-----------------------------------------------------------------------------
(* The walk over commands. *)

Here == record[at]

AtCommand(codes) ==
  /\ mode = "commands" /\ Left(record, at) >= 2
  /\ Here = ESC /\ record[at + 1] \in codes

\* Mutant: the position may leave the record.
GoOnPastTheEnd(k, callbacks) ==
  /\ at' = k
  /\ events' = events \o callbacks
  /\ UNCHANGED <<framing, record>>

\* Go on at position k, with these callbacks.
GoOn(k, callbacks) ==
  /\ at' = Clamp(record, k)
  /\ events' = events \o callbacks
  /\ UNCHANGED <<framing, record>>

\* A command that adds nothing to the display bytes.
Command(k, callbacks) == GoOn(k, callbacks) /\ UNCHANGED <<mode, display>>

ClearScreen ==
  \/ AtCommand({CcClearUnit}) /\ Command(at + 2, <<<<"ClearScreen">>>>)
  \/ AtCommand({CcClearUnitAlternate}) /\ Command(at + 2, <<<<"ClearScreenAlternate">>>>)
  \/ AtCommand({CcClearFormatTable}) /\ Command(at + 2, <<<<"ClearFormatTable">>>>)

\* Mutant: the control characters of a read are taken for a command.
ReadCommandShort ==
  AtCommand(CcReadCommands) /\ Command(at + 2, <<<<"Read", record[at + 1]>>>>)

ReadCommand ==
  AtCommand(CcReadCommands) /\ Command(at + 4, <<<<"Read", record[at + 1]>>>>)

WriteErrorCode ==
  /\ AtCommand(CcWriteErrorCodes)
  /\ LET end == Until(record, at + 2, {ESC})
     IN  Command(end, <<<<"WriteErrorCode", SubSeq(record, at + 2, end - 1)>>>>)

\* The rows count from 0 in the callback, as a byte: row 0 of the host wraps.
RowBefore(row) == (row + 255) % 256

RollOf(rows) ==
  <<"Roll", rows, record[at + 3] % 32, record[at + 2] >= 128>>

Roll ==
  /\ AtCommand({CcRoll})
  /\ CASE Left(record, at) >= 6 ->
            Command(at + 6, <<RollOf(<<RowBefore(record[at + 4]), RowBefore(record[at + 5])>>)>>)
       [] Left(record, at) \in 4..5 -> Command(at + 4, <<RollOf(<<0, 0>>)>>)
       [] OTHER -> Command(at + 4, <<>>)

\* The structured fields are reported as far as their lengths hold, and what
\* follows a bad length with them.
WriteStructuredField ==
  /\ AtCommand({CcWriteStructuredField})
  /\ LET fields == StructuredFields(record, at + 2)
     IN  Command(fields.end,
           (IF fields.good THEN <<>> ELSE <<ParseError>>)
             \o <<<<"WriteStructuredField", SubSeq(record, at + 2, fields.end - 1)>>>>)

KnownCommands ==
  {CcClearUnit, CcClearUnitAlternate, CcClearFormatTable, CcRoll,
   CcWriteStructuredField, CcWriteToDisplay} \cup CcReadCommands \cup CcWriteErrorCodes

UnknownCommand ==
  /\ AtCommand(Byte \ KnownCommands)
  /\ Command(Until(record, at + 2, {ESC}), <<ParseError>>)

SohEvents(j) ==
  IF record[j + 1] >= 4 THEN <<<<"Soh", SohFields(record, j)>>>> ELSE <<>>

TopSoh ==
  /\ mode = "commands" /\ Left(record, at) >= 2 /\ Here = SOH
  /\ Command(SohEnd(record, at), SohEvents(at))

StrayByte ==
  /\ mode = "commands" /\ Left(record, at) >= 1
  /\ Here \notin {ESC, SOH}
  /\ Command(at + 1, <<ParseError>>)

UnlockBit(ctrl) == (ctrl \div 8) % 2 = 1

OpenWtd ==
  /\ AtCommand({CcWriteToDisplay}) /\ Left(record, at) >= 4
  /\ GoOn(at + 4,
       <<<<"ControlCharacters", record[at + 2], record[at + 3]>>>>
         \o IF UnlockBit(record[at + 3]) THEN <<<<"KeyboardUnlock">>>> ELSE <<>>)
  /\ mode' = "display"
  /\ UNCHANGED display

\* The payload is used up, or ends inside a command, an SOH or the control
\* characters of a Write To Display.  The display bytes are handed over even
\* when there are none.
WalkIsOver ==
  \/ Left(record, at) = 0
  \/ Left(record, at) = 1 /\ Here \in {ESC, SOH}
  \/ AtCommand({CcWriteToDisplay}) /\ Left(record, at) < 4

\* Mutant: without display bytes there is no update.
EndWalkInSilence ==
  /\ mode = "commands" /\ WalkIsOver
  /\ mode' = "framing"
  /\ reported' = Append(reported,
       [record |-> record,
        events |-> IF display = <<>> THEN events
                   ELSE Append(events, <<"RawScreenData", display>>)])
  /\ UNCHANGED <<calls, fed, buffer, resets, walk>>

EndWalk ==
  /\ mode = "commands" /\ WalkIsOver
  /\ mode' = "framing"
  /\ reported' = Append(reported,
       [record |-> record, events |-> Append(events, <<"RawScreenData", display>>)])
  /\ UNCHANGED <<calls, fed, buffer, resets, walk>>

-----------------------------------------------------------------------------
(* The walk over the orders and text of a Write To Display. *)

InDisplay == mode = "display" /\ Left(record, at) >= 1

CloseWtd ==
  /\ mode = "display" /\ (Left(record, at) >= 1 => Here = ESC)
  /\ mode' = "commands"
  /\ UNCHANGED <<framing, walk>>

\* An order or structured field that the screen does not get.
Skip(k, callbacks) == GoOn(k, callbacks) /\ UNCHANGED <<mode, display>>

WtdSoh ==
  /\ InDisplay /\ Here = SOH
  /\ Skip(SohEnd(record, at), IF Left(record, at) >= 2 THEN SohEvents(at) ELSE <<>>)

SkipWdsf == InDisplay /\ Here = OrderWDSF /\ Skip(WdsfEnd(record, at), <<>>)

Strpccmd ==
  /\ InDisplay /\ IsStrpccmd(record, at)
  /\ LET flag == at + StrpccmdMarkerLen
         end  == StrpccmdEnd(record, at)
     IN  Skip(end, <<<<"StrpccmdRequested", end > flag /\ record[flag] = 129,
                       SubSeq(record, flag + 1, end - 1)>>>>)

\* Mutant: a window structured field is taken for text.
IsCopiedOrField(s, j) == s[j] \notin {ESC, SOH} /\ ~IsStrpccmd(s, j)

IsCopied(s, j) == s[j] \notin {ESC, SOH, OrderWDSF} /\ ~IsStrpccmd(s, j)

\* Every other order is copied with its operands, and a text byte alone.
CopyOrder ==
  /\ InDisplay /\ IsCopied(record, at)
  /\ display' = display \o SubSeq(record, at, OrderEnd(record, at) - 1)
  /\ GoOn(OrderEnd(record, at), <<>>)
  /\ UNCHANGED mode

-----------------------------------------------------------------------------
\* The application calls reset when a connection is lost; the next one has a
\* stream of its own.  reset sets m_state alone, which never has another
\* value.  Bound: only resets that meet bytes in the buffer are looked at.
Reset ==
  /\ mode = "idle" /\ buffer # <<>>
  /\ resets < MaxResets /\ resets' = resets + 1
  /\ calls' \in NextStreams
  /\ UNCHANGED <<fed, buffer, mode, reported, walk>>

\* A turn of one of parseData's loops.
Step ==
  \/ SkipByte \/ RejectRecord \/ PassThrough \/ Signal \/ IgnoreRecord
  \/ BeginWalk \/ Return
  \/ ClearScreen \/ ReadCommand \/ WriteErrorCode \/ Roll \/ WriteStructuredField
  \/ UnknownCommand \/ TopSoh \/ StrayByte \/ OpenWtd \/ EndWalk
  \/ CloseWtd \/ WtdSoh \/ SkipWdsf \/ Strpccmd \/ CopyOrder

Next == Step \/ Feed \/ Reset

\* parseData is a plain call: it goes on to its end.
Spec == Init /\ [][Next]_vars /\ WF_vars(Step)

-----------------------------------------------------------------------------
(* Properties. *)

EventKinds == {
  "ParseError", "RawScreenData", "Invite", "CancelInvite", "MessageLightOn",
  "MessageLightOff", "SaveScreen", "ClearScreen", "ClearScreenAlternate",
  "ClearFormatTable", "Read", "WriteErrorCode", "Roll", "WriteStructuredField",
  "Soh", "ControlCharacters", "KeyboardUnlock", "StrpccmdRequested" }

IsDisplayRecord(rec) ==
  ~HeaderIsBad(rec) /\ IsDataRecord(rec) /\ OpcodeOf(rec) \in DisplayOpcodes

AreEvents(callbacks) == \A k \in DOMAIN callbacks : callbacks[k][1] \in EventKinds

\* The types of the variables, and that a walk is inside its record.
TypeOK ==
  /\ fed \in Seq(Byte) /\ buffer \in Seq(Byte) /\ display \in Seq(Byte)
  /\ calls \in Seq(Seq(Byte)) /\ mode \in Modes /\ resets \in 0..MaxResets
  /\ record \in Seq(Byte) /\ at \in 1..EndOf(record)
  /\ AreEvents(events)
  /\ \A k \in DOMAIN reported : AreEvents(reported[k].events)

\* The records a stream holds when it is read as a whole: where a length is
\* below the smallest one a byte is left out, and the rest is no record.
RecordsOf(s) ==
  LET recordsFrom[k \in 1..EndOf(s)] ==
        IF Left(s, k) < GdsMinRecordLen THEN <<>>
        ELSE LET len == 256 * s[k] + s[k + 1]
             IN  IF len < GdsMinRecordLen THEN recordsFrom[k + 1]
                 ELSE IF len > Left(s, k) THEN <<>>
                 ELSE <<SubSeq(s, k, k + len - 1)>> \o recordsFrom[k + len]
  IN  recordsFrom[1]

\* Whatever the pieces were, the records dispatched are those of the stream
\* read as a whole; that includes the bytes of a connection before a reset,
\* which reset keeps (decoder.cpp:29-46, 409).
FramedAsAWhole ==
  mode = "idle" => [k \in DOMAIN reported |-> reported[k].record] = RecordsOf(fed)

\* What a record gives depends on that record alone: nothing of an earlier
\* one, its display bytes or its open Write To Display, is left in the next.
NothingCarriesOver ==
  \A j, k \in DOMAIN reported :
    reported[j].record = reported[k].record => reported[j].events = reported[k].events

\* A display record ends with exactly one screen update, which may be empty:
\* the application acts on the control characters then, and without it an
\* unlock would leave the keyboard locked (decoder.cpp:399-403).
ScreenUpdateComesLast ==
  \A k \in DOMAIN reported : IsDisplayRecord(reported[k].record) =>
    LET happened == reported[k].events
    IN  {n \in DOMAIN happened : happened[n][1] = "RawScreenData"} = {Len(happened)}

\* The bytes at which an order or a text byte begins when the screen's owner
\* reads the display bytes.
OrdersOf(bytes) ==
  LET ordersFrom[k \in 1..EndOf(bytes)] ==
        IF k = EndOf(bytes) THEN {}
        ELSE {bytes[k]} \cup ordersFrom[OrderEnd(bytes, k)]
  IN  ordersFrom[1]

\* Bytes of commands, of structured fields and of what follows an unknown
\* command are not read as orders by the screen's owner: it finds no byte
\* that begins one of them where an order begins (decoder.cpp:350-356,
\* 385-389).
NothingLeaksToTheScreen ==
  \A k \in DOMAIN reported : IsDataRecord(reported[k].record) =>
    \A n \in DOMAIN reported[k].events :
      reported[k].events[n][1] = "RawScreenData" =>
        OrdersOf(reported[k].events[n][2]) \cap {ESC, SOH, OrderWDSF} = {}

\* parseData returns, whatever the bytes are: no length of zero and no order
\* cut off at the end holds up one of its loops.
CallsReturn == (mode # "idle") ~> (mode = "idle")
=============================================================================
