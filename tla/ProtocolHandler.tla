------------------------- MODULE ProtocolHandler -------------------------
(***************************************************************************)
(* The client's telnet layer: class ProtocolHandler of                     *)
(* src/tn5250/client/protocol_handler.{h,cpp}.                             *)
(*                                                                         *)
(* The handler is fed by whatever reads the socket.  One call of           *)
(* onBytesReceived is the action Read followed by one action per iteration *)
(* of the loop of processTelnetData and by the action FinishRead, its      *)
(* tail.  The bytes come from a TCP stream (wire) that is cut into reads   *)
(* at arbitrary places; the host writes segments of the menu Segments.     *)
(* Variables carry the source's member names without the m_ prefix;        *)
(* processed is the local of processTelnetData.  The index i of the loop   *)
(* is not kept: receiveBuffer is what lies at and after i, which is what   *)
(* the erase at the end of the call leaves.                                *)
(*                                                                         *)
(* The callbacks are taken not to call back into the handler.              *)
(***************************************************************************)
EXTENDS Telnet, Sequences, GdsRepair

CONSTANTS
  Segments,        \* byte sequences the host may write in one go
  MaxSegments,     \* bound: segments written over the whole behaviour
  MaxConnections,  \* bound: TCP connections made with the one handler object
  SeedTag,         \* stands for the bytes of the variable name "IBMRSEED"
  SeedLength,      \* stands for the 8 bytes of a server seed
  Credentials      \* whether Config has a user name and a password

ASSUME SegmentsAssumption == Segments \subseteq Seq(Byte)
ASSUME BoundsAssumption   == MaxSegments \in Nat /\ MaxConnections \in Nat
ASSUME SeedAssumption     == SeedTag \in Seq(Byte) /\ SeedLength \in Nat
ASSUME CredentialsAssumption == Credentials \in BOOLEAN

-----------------------------------------------------------------------------
\* A message handed to onSendBytes: a three-byte command, or the answer to a
\* subnegotiation without and with an encrypted password.
Message == [verb : {"DO", "DONT", "WILL", "WONT", "IS", "IS_ENCRYPTED"},
            opt  : Byte]
Msg(verb, opt) == [verb |-> verb, opt |-> opt]

-----------------------------------------------------------------------------
VARIABLES
  (* the handler *)
  state, handshakeComplete, handshakeBuffer,
  binaryNegotiated, eorNegotiated, terminalTypeSent,
  inSubnegotiation, currentSubnegotiation, subnegotiationBuffer, serverSeed,
  receiveBuffer, processed, recordBuffer,
  reading,      \* inside a call of onBytesReceived
  (* its surroundings *)
  link,         \* the TCP connection is up
  wire,         \* bytes the host wrote that were not read yet
  written,      \* number of segments written
  connections,  \* number of connections made
  toHost,       \* messages given to onSendBytes
  delivered,    \* the arguments of onDataReceived, in order
  (* history *)
  extracted,    \* the application bytes taken out of the stream, in order
  handed        \* those of them given to the application, before any repair

status  == <<state, handshakeComplete, handshakeBuffer,
             binaryNegotiated, eorNegotiated, terminalTypeSent>>
subneg  == <<inSubnegotiation, currentSubnegotiation, subnegotiationBuffer,
             serverSeed>>
records == <<processed, recordBuffer, extracted>>
app     == <<delivered, handed>>
network == <<link, wire, written, connections>>

handlerVars == <<status, subneg, records, app, receiveBuffer, reading, toHost>>
vars        == <<handlerVars, network>>

Init ==
  /\ state = "Disconnected" /\ handshakeComplete = FALSE /\ handshakeBuffer = <<>>
  /\ binaryNegotiated = FALSE /\ eorNegotiated = FALSE /\ terminalTypeSent = FALSE
  /\ inSubnegotiation = FALSE /\ currentSubnegotiation = TransmitBinary
  /\ subnegotiationBuffer = <<>> /\ serverSeed = <<>>
  /\ receiveBuffer = <<>> /\ processed = <<>> /\ recordBuffer = <<>>
  /\ reading = FALSE
  /\ link = FALSE /\ wire = <<>> /\ written = 0 /\ connections = 0
  /\ toHost = <<>> /\ delivered = <<>> /\ extracted = <<>> /\ handed = <<>>

-----------------------------------------------------------------------------
(* Handing data to the application. *)

\* framing(): application bytes are collected into records.
Framing == handshakeComplete /\ eorNegotiated

\* Mutant: bytes kept from before framing go behind the new one.
AppendDataSwapped(b) ==
  /\ extracted' = Append(extracted, b)
  /\ IF Framing
     THEN recordBuffer' = <<b>> \o recordBuffer \o processed /\ processed' = <<>>
     ELSE processed' = Append(processed, b) /\ UNCHANGED recordBuffer

\* Mutant: records are not collected.
AppendDataUnframed(b) ==
  /\ extracted' = Append(extracted, b)
  /\ processed' = Append(processed, b)
  /\ UNCHANGED recordBuffer

\* appendData(b)
AppendData(b) ==
  /\ extracted' = Append(extracted, b)
  /\ IF Framing
     THEN /\ recordBuffer' = Append(recordBuffer \o processed, b)
          /\ processed' = <<>>
     ELSE /\ processed' = Append(processed, b)
          /\ UNCHANGED recordBuffer

\* onDataReceived(data), where raw is data before the length repair.
HandOver(raw, data) ==
  /\ delivered' = Append(delivered, data)
  /\ handed' = handed \o raw

\* IAC EOR while framing: the bytes that were extracted in this read before
\* framing began go in front, then flushRecord.
FlushRecord ==
  LET record == processed \o recordBuffer
  IN  /\ processed' = <<>>
      /\ recordBuffer' = <<>>
      /\ IF record # <<>> THEN HandOver(record, RepairGdsRecordLength(record))
                          ELSE UNCHANGED app
      /\ UNCHANGED extracted

\* Mutant: pending data does not complete the handshake.
CheckTypeOnly(binary, typeSent, pending) ==
  IF ~handshakeComplete /\ binary /\ typeSent
  THEN /\ handshakeComplete' = TRUE
       /\ state' = "Connected"
       /\ handshakeBuffer' = <<>>
       /\ IF pending # <<>> THEN HandOver(pending, pending) ELSE UNCHANGED app
  ELSE /\ handshakeBuffer' = pending
       /\ UNCHANGED <<handshakeComplete, state, app>>

\* checkHandshakeComplete(), called with these flags and pending handshake
\* data.  It assigns every variable of status but the three flags.
CheckHandshakeComplete(binary, typeSent, pending) ==
  IF ~handshakeComplete /\ binary /\ (typeSent \/ pending # <<>>)
  THEN /\ handshakeComplete' = TRUE
       /\ state' = "Connected"
       /\ handshakeBuffer' = <<>>
       /\ IF pending # <<>> THEN HandOver(pending, pending) ELSE UNCHANGED app
  ELSE /\ handshakeBuffer' = pending
       /\ UNCHANGED <<handshakeComplete, state, app>>

-----------------------------------------------------------------------------
(* The loop of processTelnetData: what stands at the head of receiveBuffer. *)

Consume(n) == receiveBuffer' = SubSeq(receiveBuffer, n + 1, Len(receiveBuffer))

HasByte == reading /\ receiveBuffer # <<>>
HasPair == reading /\ Len(receiveBuffer) >= 2 /\ receiveBuffer[1] = IAC
Second  == receiveBuffer[2]
Third   == receiveBuffer[3]

\* Inside a record only IAC IAC and IAC EOR are special.
MidRecord == Framing /\ recordBuffer # <<>>

\* Mutant: inside a record too, any telnet command is taken for one.
IsUnescapedLow == Second < EOR /\ ~inSubnegotiation

\* An IAC that the host failed to double.
IsUnescaped ==
  /\ Second # IAC
  /\ ~inSubnegotiation
  /\ Second < EOR \/ (MidRecord /\ Second # EOR)

EscapedIac ==
  /\ HasPair /\ Second = IAC
  /\ AppendData(IAC)
  /\ Consume(2)
  /\ UNCHANGED <<status, subneg, app, reading, toHost>>

UnescapedIac ==
  /\ HasPair /\ IsUnescaped
  /\ AppendData(IAC)
  /\ Consume(1)
  /\ UNCHANGED <<status, subneg, app, reading, toHost>>

\* A byte that is not IAC.
DataByte ==
  /\ HasByte /\ receiveBuffer[1] # IAC /\ ~inSubnegotiation
  /\ AppendData(receiveBuffer[1])
  /\ Consume(1)
  /\ UNCHANGED <<status, subneg, app, reading, toHost>>

SubnegotiationByte ==
  /\ HasByte /\ receiveBuffer[1] # IAC /\ inSubnegotiation
  /\ subnegotiationBuffer' = Append(subnegotiationBuffer, receiveBuffer[1])
  /\ Consume(1)
  /\ UNCHANGED <<status, inSubnegotiation, currentSubnegotiation, serverSeed,
                 records, app, reading, toHost>>

\* A two-byte command: IAC EOR, or one that is dropped.
StandaloneCommand ==
  /\ HasPair /\ ~IsUnescaped /\ Second \in Standalone
  /\ Consume(2)
  /\ UNCHANGED <<status, reading, toHost>>

EndRecord ==
  /\ StandaloneCommand
  /\ Second = EOR /\ Framing
  /\ FlushRecord
  /\ UNCHANGED subneg

DropStandalone ==
  /\ StandaloneCommand
  /\ Second # SE \/ ~inSubnegotiation
  /\ Second # EOR \/ ~Framing
  /\ UNCHANGED <<subneg, records, app>>

-----------------------------------------------------------------------------
(* The end of a subnegotiation: handleSubnegotiation. *)

EndSubnegotiation ==
  /\ HasPair /\ Second = SE /\ inSubnegotiation
  /\ Consume(2)
  /\ inSubnegotiation' = FALSE
  /\ subnegotiationBuffer' = <<>>
  /\ UNCHANGED <<currentSubnegotiation, records, reading>>

\* Mutant: the check runs before the terminal type is marked sent.
EndTerminalTypeEarly ==
  /\ EndSubnegotiation
  /\ currentSubnegotiation = TerminalType
  /\ toHost' = Append(toHost, Msg("IS", TerminalType))
  /\ terminalTypeSent' = TRUE
  /\ binaryNegotiated' = TRUE
  /\ CheckHandshakeComplete(TRUE, terminalTypeSent, handshakeBuffer)
  /\ UNCHANGED <<eorNegotiated, serverSeed>>

\* sendDeviceName, whatever the subnegotiation says.
EndTerminalType ==
  /\ EndSubnegotiation
  /\ currentSubnegotiation = TerminalType
  /\ toHost' = Append(toHost, Msg("IS", TerminalType))
  /\ terminalTypeSent' = TRUE
  /\ binaryNegotiated' = TRUE
  /\ CheckHandshakeComplete(TRUE, TRUE, handshakeBuffer)
  /\ UNCHANGED <<eorNegotiated, serverSeed>>

\* Where a name that starts with "IBMRSEED" and goes on lies in a request: it
\* follows a VAR (0) or USERVAR (3) mark and ends before the next mark or
\* VALUE (1).
SeedNames(data) ==
  {name \in (DOMAIN data) \X (DOMAIN data) :
     LET first == name[1]  last == name[2]
     IN  /\ first > 2 /\ data[first - 1] \in {0, 3}
         /\ \A i \in first..last : data[i] \notin {0, 1, 3}
         /\ last < Len(data) => data[last + 1] \in {0, 1, 3}
         /\ last - first >= Len(SeedTag)
         /\ SubSeq(data, first, first + Len(SeedTag) - 1) = SeedTag}

\* A SEND request (1) replaces the seed by what follows "IBMRSEED" in the
\* last such name, and by nothing when there is none.
ReadServerSeed(data) ==
  IF data = <<>> \/ data[1] # 1
  THEN UNCHANGED serverSeed
  ELSE \/ SeedNames(data) = {} /\ serverSeed' = <<>>
       \/ \E name \in SeedNames(data) :
            /\ \A other \in SeedNames(data) : other[1] <= name[1]
            /\ serverSeed' = SubSeq(data, name[1] + Len(SeedTag), name[2])

\* The encryption (an external cipher) may fail, then none is sent.
EndNewEnviron ==
  /\ EndSubnegotiation
  /\ currentSubnegotiation = NewEnviron
  /\ ReadServerSeed(subnegotiationBuffer)
  /\ \/ toHost' = Append(toHost, Msg("IS", NewEnviron))
     \/ /\ Len(serverSeed') = SeedLength /\ Credentials
        /\ toHost' = Append(toHost, Msg("IS_ENCRYPTED", NewEnviron))
  /\ UNCHANGED <<status, app>>

EndOtherSubnegotiation ==
  /\ EndSubnegotiation
  /\ currentSubnegotiation \notin {TerminalType, NewEnviron}
  /\ UNCHANGED <<status, serverSeed, app, toHost>>

-----------------------------------------------------------------------------
(* Three-byte commands: handleTelnetCommand. *)

ThreeByteCommand(cmds) ==
  /\ HasPair /\ ~IsUnescaped
  /\ Second \in cmds \ (Standalone \cup {IAC})
  /\ Len(receiveBuffer) >= 3
  /\ Consume(3)
  /\ UNCHANGED <<records, reading>>

WillAnswer(opt) ==
  IF opt \in {TransmitBinary, EndOfRecord, Echo, SuppressGoAhead}
  THEN Msg("DO", opt) ELSE Msg("DONT", opt)

DoAnswer(opt) ==
  IF opt \in {TransmitBinary, EndOfRecord, TerminalType, NewEnviron}
  THEN Msg("WILL", opt) ELSE Msg("WONT", opt)

\* Mutant: an option that is not wanted is passed over in silence.
NegotiateWanted(opt, answer) ==
  /\ toHost' = IF answer.verb \in {"DO", "WILL"} THEN Append(toHost, answer) ELSE toHost
  /\ binaryNegotiated' = (binaryNegotiated \/ opt = TransmitBinary)
  /\ eorNegotiated' = (eorNegotiated \/ opt = EndOfRecord)
  /\ IF opt \in {TransmitBinary, EndOfRecord}
     THEN CheckHandshakeComplete(binaryNegotiated', terminalTypeSent, handshakeBuffer)
     ELSE UNCHANGED <<handshakeComplete, state, handshakeBuffer, app>>
  /\ UNCHANGED <<terminalTypeSent, subneg>>

\* The host offers or asks for an option; every request is answered.
Negotiate(opt, answer) ==
  /\ toHost' = Append(toHost, answer)
  /\ binaryNegotiated' = (binaryNegotiated \/ opt = TransmitBinary)
  /\ eorNegotiated' = (eorNegotiated \/ opt = EndOfRecord)
  /\ IF opt \in {TransmitBinary, EndOfRecord}
     THEN CheckHandshakeComplete(binaryNegotiated', terminalTypeSent, handshakeBuffer)
     ELSE UNCHANGED <<handshakeComplete, state, handshakeBuffer, app>>
  /\ UNCHANGED <<terminalTypeSent, subneg>>

Will == ThreeByteCommand({WILL}) /\ Negotiate(Third, WillAnswer(Third))
Do   == ThreeByteCommand({DO}) /\ Negotiate(Third, DoAnswer(Third))

BeginSubnegotiation ==
  /\ ThreeByteCommand({SB})
  /\ inSubnegotiation' = TRUE
  /\ currentSubnegotiation' = Third
  /\ subnegotiationBuffer' = <<>>
  /\ UNCHANGED <<status, serverSeed, app, toHost>>

\* WONT, DONT and, inside a subnegotiation, IAC and any byte below EOR.
IgnoreCommand ==
  /\ ThreeByteCommand(Byte \ {WILL, DO, SB})
  /\ UNCHANGED <<status, subneg, app, toHost>>

-----------------------------------------------------------------------------
(* The tail of processTelnetData, when the loop is over or breaks. *)

\* Mutant: the loop stops inside a subnegotiation and waits for its end.
IsIncompleteSubnegotiation == inSubnegotiation

\* Mutant: every command is taken to have three bytes.
IsIncompleteShort == Len(receiveBuffer) \in 1..2 /\ receiveBuffer[1] = IAC

\* The head of the buffer is a command whose end was not read yet.
IsIncomplete ==
  \/ receiveBuffer = <<IAC>>
  \/ /\ Len(receiveBuffer) = 2 /\ receiveBuffer[1] = IAC
     /\ Second \notin Standalone \cup {IAC}
     /\ ~IsUnescaped

\* Mutant: data is handed over before the handshake is complete.
FinishReadAtOnce ==
  /\ reading /\ (receiveBuffer = <<>> \/ IsIncomplete)
  /\ reading' = FALSE
  /\ processed' = <<>>
  /\ IF processed = <<>> THEN UNCHANGED app ELSE HandOver(processed, processed)
  /\ UNCHANGED <<status, subneg, recordBuffer, extracted, receiveBuffer, toHost>>

FinishRead ==
  /\ reading /\ (receiveBuffer = <<>> \/ IsIncomplete)
  /\ reading' = FALSE
  /\ processed' = <<>>
  /\ IF processed = <<>>
     THEN UNCHANGED <<status, app>>
     ELSE IF handshakeComplete
     THEN HandOver(processed, processed) /\ UNCHANGED status
     ELSE \* early data stands in for the BINARY option: processHandshakeData
          /\ binaryNegotiated' = TRUE
          /\ CheckHandshakeComplete(TRUE, terminalTypeSent, handshakeBuffer \o processed)
          /\ UNCHANGED <<eorNegotiated, terminalTypeSent>>
  /\ UNCHANGED <<subneg, recordBuffer, extracted, receiveBuffer, toHost>>

LoopStep ==
  \/ EscapedIac \/ UnescapedIac \/ DataByte \/ SubnegotiationByte
  \/ EndRecord \/ DropStandalone
  \/ EndTerminalType \/ EndNewEnviron \/ EndOtherSubnegotiation
  \/ Will \/ Do \/ BeginSubnegotiation \/ IgnoreCommand

HandlerStep == (LoopStep \/ FinishRead) /\ UNCHANGED network

-----------------------------------------------------------------------------
(* The calls made into the handler, and the network. *)

\* onBytesReceived: the first n bytes of the stream.
Read(n) ==
  /\ link /\ ~reading /\ n \in 1..Len(wire)
  /\ reading' = TRUE
  /\ receiveBuffer' = receiveBuffer \o SubSeq(wire, 1, n)
  /\ wire' = SubSeq(wire, n + 1, Len(wire))
  /\ UNCHANGED <<status, subneg, records, app, toHost, link, written, connections>>

\* Mutant: the state waits for the first answer of the host.
SocketConnecting ==
  /\ ~link /\ connections < MaxConnections
  /\ link' = TRUE
  /\ connections' = connections + 1
  /\ state' = "Connecting"
  /\ UNCHANGED <<handshakeComplete, handshakeBuffer, binaryNegotiated, eorNegotiated,
                 terminalTypeSent, subneg, records, app, receiveBuffer, reading,
                 toHost, wire, written>>

\* onSocketConnected and performHandshake.
SocketConnected ==
  /\ ~link /\ connections < MaxConnections
  /\ link' = TRUE
  /\ connections' = connections + 1
  /\ state' = "Negotiating"
  /\ toHost' = toHost \o << Msg("DO", TransmitBinary), Msg("WILL", TransmitBinary),
                            Msg("DO", EndOfRecord), Msg("WILL", EndOfRecord) >>
  /\ UNCHANGED <<handshakeComplete, handshakeBuffer, binaryNegotiated, eorNegotiated,
                 terminalTypeSent, subneg, records, app, receiveBuffer, reading,
                 wire, written>>

\* onSocketDisconnected: nothing but the state is reset.  What the host wrote
\* and nobody read is lost.
SocketDisconnected ==
  /\ link /\ ~reading
  /\ link' = FALSE
  /\ wire' = <<>>
  /\ state' = "Disconnected"
  /\ UNCHANGED <<handshakeComplete, handshakeBuffer, binaryNegotiated, eorNegotiated,
                 terminalTypeSent, subneg, records, app, receiveBuffer, reading,
                 toHost, written, connections>>

\* The host writes between two calls of the handler: a write during a call
\* commutes with every step of the call.
HostWrites(segment) ==
  /\ link /\ ~reading /\ written < MaxSegments
  /\ wire' = wire \o segment
  /\ written' = written + 1
  /\ UNCHANGED <<handlerVars, link, connections>>

ReadSome == \E n \in 1..Len(wire) : Read(n)

Next ==
  \/ HandlerStep
  \/ ReadSome
  \/ SocketConnected
  \/ SocketDisconnected
  \/ \E segment \in Segments : HostWrites(segment)

Spec == Init /\ [][Next]_vars

-----------------------------------------------------------------------------
(* Properties. *)

TypeOK ==
  /\ state \in {"Disconnected", "Negotiating", "Connected"}
  /\ handshakeComplete \in BOOLEAN /\ binaryNegotiated \in BOOLEAN
  /\ eorNegotiated \in BOOLEAN /\ terminalTypeSent \in BOOLEAN
  /\ inSubnegotiation \in BOOLEAN /\ reading \in BOOLEAN /\ link \in BOOLEAN
  /\ currentSubnegotiation \in Byte
  /\ subnegotiationBuffer \in Seq(Byte) /\ serverSeed \in Seq(Byte)
  /\ receiveBuffer \in Seq(Byte) /\ wire \in Seq(Byte)
  /\ handshakeBuffer \in Seq(Byte) /\ processed \in Seq(Byte)
  /\ recordBuffer \in Seq(Byte)
  /\ extracted \in Seq(Byte) /\ handed \in Seq(Byte)
  /\ delivered \in Seq(Seq(Byte))
  /\ toHost \in Seq(Message)
  /\ written \in Nat /\ connections \in Nat

\* Every application byte is in exactly one place, and the places are in
\* order: given to the application, held for the handshake, collected in this
\* call, or held for its record.  In particular the bytes that IAC EOR puts in
\* front of the record buffer do belong in front of it.
InOrder == extracted = handed \o handshakeBuffer \o processed \o recordBuffer

\* Between two reads a byte is held back for one reason only: its record has
\* not ended.  Nothing stays in the handshake buffer or in the local buffer,
\* and a record is held only once EOR is in force.
HeldForRecordOnly ==
  /\ ~reading => processed = <<>> /\ handshakeBuffer = <<>>
  /\ recordBuffer # <<>> => Framing

\* What the application or the host knows a connection by: the application was
\* given data, or the host the terminal type.
Begun == delivered # <<>> \/ terminalTypeSent

\* The application is told that it is connected exactly once in the life of the
\* handler, in the step that gives it the first data or sends the first
\* terminal type, in whatever order the host negotiates, sends and is lost in
\* between: never before, not in a later step, and not again
\* (protocol_handler.cpp:159-165, 481-498).  So a later connection of the same
\* handler is not reported, and its data comes without: see HandlerClaims.
ReportedWithTheFirst ==
  state # "Connected" /\ state' = "Connected" <=> ~Begun /\ Begun'

ReportedOnce == [][ReportedWithTheFirst]_vars

AtEor == HasPair /\ Second = EOR

\* Once records are framed and nothing from before is left over, data is
\* handed over by IAC EOR alone, and nothing escapes the record buffer.
HandsOverRecords ==
  Framing /\ processed = <<>> =>
    /\ processed' = <<>>
    /\ delivered' # delivered => AtEor /\ recordBuffer' = <<>>

FramedDelivery == [][HandsOverRecords]_vars

\* The step reads a WILL or DO with its option off the stream.
ReadsRequest ==
  /\ Len(receiveBuffer) >= 3 /\ receiveBuffer[1] = IAC /\ Second \in {WILL, DO}
  /\ receiveBuffer' = SubSeq(receiveBuffer, 4, Len(receiveBuffer))

\* The step reads the end of a subnegotiation about the terminal.
ReadsQuestion ==
  /\ inSubnegotiation /\ ~inSubnegotiation'
  /\ currentSubnegotiation \in {TerminalType, NewEnviron}

IsSent(verbs, opt) == \E verb \in verbs : toHost' = Append(toHost, Msg(verb, opt))

\* Each request the host makes is answered by one message of its kind and about
\* its option in the step that reads it, be it known or not, repeated, cut by
\* a read, inside of a subnegotiation or on a later connection; the client
\* sends nothing else while the connection lasts
\* (protocol_handler.cpp:221-268, 277-311).
AnswersTheRequest ==
  /\ ReadsRequest => IsSent(IF Second = WILL THEN {"DO", "DONT"} ELSE {"WILL", "WONT"}, Third)
  /\ ReadsQuestion => IsSent({"IS", "IS_ENCRYPTED"}, currentSubnegotiation)
  /\ ~ReadsRequest /\ ~ReadsQuestion /\ link' = link => toHost' = toHost

RequestsAreAnswered == [][AnswersTheRequest]_vars

===========================================================================
