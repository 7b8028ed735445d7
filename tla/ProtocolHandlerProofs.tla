---------------------- MODULE ProtocolHandlerProofs ----------------------
(***************************************************************************)
(* Theorems about the handler, for every menu of segments, every way TCP   *)
(* cuts the stream and any number of segments and connections.             *)
(***************************************************************************)
EXTENDS ProtocolHandler, SequenceTheorems, TLAPS

-----------------------------------------------------------------------------
(* Lemmas about the operators. *)

\* Two bytes are enough for a length that is rewritten.
LEMMA WithLengthType ==
  ASSUME NEW record \in Seq(Byte), NEW pos, NEW len \in Nat
  PROVE  /\ WithLength(record, pos, len) \in Seq(Byte)
         /\ Len(WithLength(record, pos, len)) = Len(record)
<1> DEFINE n == Len(record)
           hi == (len \div 256) % 256
           lo == len % 256
<1>1. hi \in Byte /\ lo \in Byte
  BY DEF Byte
<1>2. record \in [1..n -> Byte] /\ n \in Nat
  BY LenProperties
<1> HIDE DEF hi, lo, n
<1>3. [record EXCEPT ![pos + 1] = hi, ![pos + 2] = lo] \in [1..n -> Byte]
  BY <1>1, <1>2
<1>4. WithLength(record, pos, len) \in [1..n -> Byte]
  BY <1>3 DEF WithLength, hi, lo
<1> QED
  BY <1>2, <1>4 DEF n

\* A repaired record is a sequence of bytes as long as the original.
LEMMA RepairType ==
  ASSUME NEW record \in Seq(Byte)
  PROVE  /\ RepairGdsRecordLength(record) \in Seq(Byte)
         /\ Len(RepairGdsRecordLength(record)) = Len(record)
<1> DEFINE pos == WalkEnd(record)
           len == Len(record) - pos
<1>1. CASE ~(pos # Len(record) /\ IsRepairable(record, pos))
  BY <1>1 DEF RepairGdsRecordLength
<1>2. CASE pos # Len(record) /\ IsRepairable(record, pos)
  <2> HIDE DEF pos
  <2>1. len \in GdsHeaderSize..GdsMaxRecordLen
    BY <1>2 DEF IsRepairable
  <2> HIDE DEF len
  <2>2. len \in Nat
    <3>1. GdsHeaderSize \in Nat /\ GdsMaxRecordLen \in Int
      BY DEF GdsHeaderSize, GdsMaxRecordLen
    <3> QED
      BY <2>1, <3>1
  <2>3. /\ WithLength(record, pos, len) \in Seq(Byte)
        /\ Len(WithLength(record, pos, len)) = Len(record)
    BY <2>2, WithLengthType, Zenon
  <2>4. RepairGdsRecordLength(record) = WithLength(record, pos, len)
    BY <1>2 DEF RepairGdsRecordLength, pos, len
  <2> QED
    BY <2>3, <2>4
<1> QED
  BY <1>1, <1>2

\* What is left of the buffer after some of its bytes is a buffer.
LEMMA ConsumeType ==
  ASSUME TypeOK, NEW n \in Nat, Consume(n)
  PROVE  receiveBuffer' \in Seq(Byte)
BY SubSeqProperties DEF TypeOK, Consume

LEMMA AppendDataType ==
  ASSUME TypeOK, NEW b \in Byte, AppendData(b)
  PROVE  /\ processed' \in Seq(Byte)
         /\ recordBuffer' \in Seq(Byte)
         /\ extracted' \in Seq(Byte)
<1>1. recordBuffer \o processed \in Seq(Byte)
  BY ConcatProperties DEF TypeOK
<1>2. \A s \in Seq(Byte) : Append(s, b) \in Seq(Byte)
  BY AppendProperties
<1> QED
  BY <1>1, <1>2, EmptySeq DEF TypeOK, AppendData

LEMMA HandOverType ==
  ASSUME TypeOK, NEW raw \in Seq(Byte), NEW data \in Seq(Byte), HandOver(raw, data)
  PROVE  delivered' \in Seq(Seq(Byte)) /\ handed' \in Seq(Byte)
BY ConcatProperties DEF TypeOK, HandOver

LEMMA FlushRecordType ==
  ASSUME TypeOK, FlushRecord
  PROVE  /\ processed' \in Seq(Byte) /\ recordBuffer' \in Seq(Byte)
         /\ extracted' \in Seq(Byte)
         /\ delivered' \in Seq(Seq(Byte)) /\ handed' \in Seq(Byte)
<1> DEFINE record == processed \o recordBuffer
<1>1. record \in Seq(Byte)
  BY ConcatProperties DEF TypeOK
<1>2. RepairGdsRecordLength(record) \in Seq(Byte)
  BY <1>1, RepairType
<1>3. delivered' \in Seq(Seq(Byte)) /\ handed' \in Seq(Byte)
  <2>1. CASE record # <<>>
    BY <1>1, <1>2, <2>1, HandOverType DEF FlushRecord
  <2>2. CASE record = <<>>
    BY <2>2 DEF FlushRecord, TypeOK, app
  <2> QED
    BY <2>1, <2>2
<1>4. processed' \in Seq(Byte) /\ recordBuffer' \in Seq(Byte) /\ extracted' \in Seq(Byte)
  BY EmptySeq DEF FlushRecord, TypeOK
<1> QED
  BY <1>3, <1>4

LEMMA CheckType ==
  ASSUME TypeOK, NEW binary \in BOOLEAN, NEW typeSent \in BOOLEAN,
         NEW pending \in Seq(Byte),
         CheckHandshakeComplete(binary, typeSent, pending)
  PROVE  /\ handshakeComplete' \in BOOLEAN
         /\ state' \in {"Disconnected", "Negotiating", "Connected"}
         /\ handshakeBuffer' \in Seq(Byte)
         /\ delivered' \in Seq(Seq(Byte)) /\ handed' \in Seq(Byte)
<1>1. UNCHANGED app => delivered' \in Seq(Seq(Byte)) /\ handed' \in Seq(Byte)
  BY DEF TypeOK, app
<1>2. HandOver(pending, pending) => delivered' \in Seq(Seq(Byte)) /\ handed' \in Seq(Byte)
  BY HandOverType
<1>3. CASE ~handshakeComplete /\ binary /\ (typeSent \/ pending # <<>>)
  <2>1. handshakeComplete' = TRUE /\ state' = "Connected" /\ handshakeBuffer' = <<>>
    BY <1>3 DEF CheckHandshakeComplete
  <2>2. UNCHANGED app \/ HandOver(pending, pending)
    BY <1>3 DEF CheckHandshakeComplete
  <2> QED
    BY <1>1, <1>2, <2>1, <2>2, EmptySeq
<1>4. CASE ~(~handshakeComplete /\ binary /\ (typeSent \/ pending # <<>>))
  <2>1. /\ handshakeComplete' = handshakeComplete /\ state' = state
        /\ handshakeBuffer' = pending /\ UNCHANGED app
    BY <1>4 DEF CheckHandshakeComplete
  <2> QED
    BY <1>1, <2>1 DEF TypeOK
<1> QED
  BY <1>3, <1>4

LEMMA SeedNamesType ==
  ASSUME NEW data \in Seq(Byte), NEW name \in SeedNames(data)
  PROVE  name[1] \in 1..Len(data) /\ name[2] \in 1..Len(data)
<1>1. name \in (DOMAIN data) \X (DOMAIN data)
  BY DEF SeedNames
<1>2. name[1] \in DOMAIN data /\ name[2] \in DOMAIN data
  BY <1>1
<1>3. DOMAIN data = 1..Len(data)
  BY LenProperties
<1> QED
  BY <1>2, <1>3

\* The seed read from a subnegotiation is a piece of it.
LEMMA SeedType ==
  ASSUME TypeOK, ReadServerSeed(subnegotiationBuffer)
  PROVE  serverSeed' \in Seq(Byte)
<1> DEFINE data == subnegotiationBuffer
<1>1. data \in Seq(Byte)
  BY DEF TypeOK
<1>2. CASE UNCHANGED serverSeed
  BY <1>2 DEF TypeOK
<1>3. CASE serverSeed' = <<>>
  BY <1>3, EmptySeq
<1>4. ASSUME NEW name \in SeedNames(data),
             serverSeed' = SubSeq(data, name[1] + Len(SeedTag), name[2])
      PROVE  serverSeed' \in Seq(Byte)
  <2>1. name[1] \in 1..Len(data) /\ name[2] \in 1..Len(data)
    BY <1>1, SeedNamesType
  <2>2. Len(SeedTag) \in Nat
    BY SeedAssumption
  <2> DEFINE from == name[1] + Len(SeedTag)
             to   == name[2]
  <2>3. from \in Int /\ to \in Int /\ \A i \in from..to : data[i] \in Byte
    BY <1>1, <2>1, <2>2
  <2> HIDE DEF from, to, data
  <2>4. SubSeq(data, from, to) \in Seq(Byte)
    BY <2>3, SubSeqProperties
  <2> QED
    BY <1>4, <2>4 DEF from, to
<1> QED
  BY <1>2, <1>3, <1>4 DEF ReadServerSeed

-----------------------------------------------------------------------------
(* Type correctness. *)

LEMMA InitType == Init => TypeOK
<1> SUFFICES ASSUME Init PROVE TypeOK
  OBVIOUS
<1>1. \A S : <<>> \in Seq(S)
  BY EmptySeq
<1>2. 0 \in Byte /\ 0 \in Nat
  BY DEF Byte
<1> QED
  BY <1>1, <1>2, Zenon DEF Init, TypeOK, TransmitBinary

\* The variables a step of the loop and the end of a call leave alone.
LEMMA NetworkType ==
  ASSUME TypeOK, UNCHANGED network
  PROVE  /\ link' \in BOOLEAN /\ wire' \in Seq(Byte)
         /\ written' \in Nat /\ connections' \in Nat
BY DEF TypeOK, network

\* The bytes at the head of the buffer are bytes.
LEMMA HeadBytes ==
  ASSUME TypeOK
  PROVE  /\ HasByte => receiveBuffer[1] \in Byte
         /\ HasPair => Second \in Byte
         /\ Len(receiveBuffer) >= 3 => Third \in Byte
<1>1. receiveBuffer \in Seq(Byte) /\ Len(receiveBuffer) \in Nat
  BY LenProperties DEF TypeOK
<1>2. \A i \in 1..Len(receiveBuffer) : receiveBuffer[i] \in Byte
  BY <1>1, ElementOfSeq
<1>3. receiveBuffer # <<>> => Len(receiveBuffer) >= 1
  BY <1>1, EmptySeq
<1> QED
  BY <1>1, <1>2, <1>3 DEF HasByte, HasPair, Second, Third

LEMMA AppendDataStepType ==
  ASSUME TypeOK, NEW b \in Byte, AppendData(b), NEW n \in Nat, Consume(n),
         UNCHANGED <<status, subneg, app, reading, toHost>>, UNCHANGED network
  PROVE  TypeOK'
<1>1. /\ processed' \in Seq(Byte) /\ recordBuffer' \in Seq(Byte)
      /\ extracted' \in Seq(Byte)
  BY AppendDataType
<1>2. receiveBuffer' \in Seq(Byte)
  BY ConsumeType
<1> QED
  BY <1>1, <1>2, NetworkType DEF TypeOK, status, subneg, app

\* The messages the handler sends.
LEMMA MsgType ==
  ASSUME NEW opt \in Byte
  PROVE  \A verb \in {"DO", "DONT", "WILL", "WONT", "IS", "IS_ENCRYPTED"} :
           Msg(verb, opt) \in Message
BY DEF Msg, Message

LEMMA EndRecordType ==
  ASSUME TypeOK, EndRecord, UNCHANGED network
  PROVE  TypeOK'
<1>1. receiveBuffer' \in Seq(Byte)
  BY ConsumeType DEF EndRecord, StandaloneCommand
<1>2. /\ processed' \in Seq(Byte) /\ recordBuffer' \in Seq(Byte)
      /\ extracted' \in Seq(Byte)
      /\ delivered' \in Seq(Seq(Byte)) /\ handed' \in Seq(Byte)
  BY FlushRecordType DEF EndRecord
<1> QED
  BY <1>1, <1>2, NetworkType DEF TypeOK, EndRecord, StandaloneCommand, status, subneg

\* What every end of a subnegotiation leaves well typed.
LEMMA EndSubnegotiationType ==
  ASSUME TypeOK, EndSubnegotiation
  PROVE  /\ receiveBuffer' \in Seq(Byte)
         /\ inSubnegotiation' \in BOOLEAN /\ currentSubnegotiation' \in Byte
         /\ subnegotiationBuffer' \in Seq(Byte)
         /\ processed' \in Seq(Byte) /\ recordBuffer' \in Seq(Byte)
         /\ extracted' \in Seq(Byte) /\ reading' \in BOOLEAN
<1>1. receiveBuffer' \in Seq(Byte)
  BY ConsumeType DEF EndSubnegotiation
<1> QED
  BY <1>1, EmptySeq DEF TypeOK, EndSubnegotiation, records

LEMMA EndTerminalTypeType ==
  ASSUME TypeOK, EndTerminalType, UNCHANGED network
  PROVE  TypeOK'
<1>1. CheckHandshakeComplete(TRUE, TRUE, handshakeBuffer) /\ handshakeBuffer \in Seq(Byte)
  BY DEF TypeOK, EndTerminalType
<1>2. /\ handshakeComplete' \in BOOLEAN
      /\ state' \in {"Disconnected", "Negotiating", "Connected"}
      /\ handshakeBuffer' \in Seq(Byte)
      /\ delivered' \in Seq(Seq(Byte)) /\ handed' \in Seq(Byte)
  BY <1>1, CheckType
<1>3. toHost' \in Seq(Message)
  <2>1. TerminalType \in Byte
    BY DEF TerminalType, Byte
  <2>2. Msg("IS", TerminalType) \in Message
    BY <2>1, MsgType
  <2> QED
    BY <2>2, AppendProperties DEF TypeOK, EndTerminalType
<1>4. EndSubnegotiation
  BY DEF EndTerminalType
<1> QED
  BY <1>2, <1>3, <1>4, EndSubnegotiationType, NetworkType DEF TypeOK, EndTerminalType

LEMMA EndNewEnvironType ==
  ASSUME TypeOK, EndNewEnviron, UNCHANGED network
  PROVE  TypeOK'
<1>1. serverSeed' \in Seq(Byte)
  BY SeedType DEF EndNewEnviron
<1>2. toHost' \in Seq(Message)
  <2>1. NewEnviron \in Byte
    BY DEF NewEnviron, Byte
  <2>2. Msg("IS", NewEnviron) \in Message /\ Msg("IS_ENCRYPTED", NewEnviron) \in Message
    BY <2>1, MsgType
  <2>3. \/ toHost' = Append(toHost, Msg("IS", NewEnviron))
        \/ toHost' = Append(toHost, Msg("IS_ENCRYPTED", NewEnviron))
    BY DEF EndNewEnviron
  <2>4. \A m \in Message : Append(toHost, m) \in Seq(Message)
    BY AppendProperties DEF TypeOK
  <2> QED
    BY <2>2, <2>3, <2>4
<1>3. EndSubnegotiation
  BY DEF EndNewEnviron
<1> QED
  BY <1>1, <1>2, <1>3, EndSubnegotiationType, NetworkType
     DEF TypeOK, EndNewEnviron, status, app

LEMMA EndOtherSubnegotiationType ==
  ASSUME TypeOK, EndOtherSubnegotiation, UNCHANGED network
  PROVE  TypeOK'
<1>1. EndSubnegotiation
  BY DEF EndOtherSubnegotiation
<1> QED
  BY <1>1, EndSubnegotiationType, NetworkType
     DEF TypeOK, EndOtherSubnegotiation, status, app

\* What every three-byte command leaves well typed.
LEMMA ThreeByteCommandType ==
  ASSUME TypeOK, NEW cmds, ThreeByteCommand(cmds)
  PROVE  /\ receiveBuffer' \in Seq(Byte) /\ reading' \in BOOLEAN
         /\ processed' \in Seq(Byte) /\ recordBuffer' \in Seq(Byte)
         /\ extracted' \in Seq(Byte)
         /\ Third \in Byte
<1>1. receiveBuffer' \in Seq(Byte)
  BY ConsumeType DEF ThreeByteCommand
<1>2. Third \in Byte
  BY HeadBytes DEF ThreeByteCommand
<1> QED
  BY <1>1, <1>2 DEF TypeOK, ThreeByteCommand, records

LEMMA NegotiateType ==
  ASSUME TypeOK, NEW cmds, ThreeByteCommand(cmds), NEW answer \in Message,
         Negotiate(Third, answer), UNCHANGED network
  PROVE  TypeOK'
<1>1. binaryNegotiated' \in BOOLEAN /\ eorNegotiated' \in BOOLEAN
  BY DEF TypeOK, Negotiate
<1>2. /\ handshakeComplete' \in BOOLEAN
      /\ state' \in {"Disconnected", "Negotiating", "Connected"}
      /\ handshakeBuffer' \in Seq(Byte)
      /\ delivered' \in Seq(Seq(Byte)) /\ handed' \in Seq(Byte)
  <2>1. CASE Third \in {TransmitBinary, EndOfRecord}
    <3>1. CheckHandshakeComplete(binaryNegotiated', terminalTypeSent, handshakeBuffer)
      BY <2>1 DEF Negotiate
    <3> QED
      BY <3>1, <1>1, CheckType DEF TypeOK
  <2>2. CASE Third \notin {TransmitBinary, EndOfRecord}
    BY <2>2 DEF Negotiate, TypeOK, app
  <2> QED
    BY <2>1, <2>2
<1>3. toHost' \in Seq(Message)
  BY AppendProperties DEF TypeOK, Negotiate
<1> QED
  BY <1>1, <1>2, <1>3, ThreeByteCommandType, NetworkType DEF TypeOK, Negotiate, subneg

LEMMA WillType ==
  ASSUME TypeOK, Will, UNCHANGED network
  PROVE  TypeOK'
<1>1. ThreeByteCommand({WILL}) /\ Negotiate(Third, WillAnswer(Third))
  BY DEF Will
<1>2. WillAnswer(Third) \in Message
  BY <1>1, ThreeByteCommandType, MsgType DEF WillAnswer
<1> QED
  BY <1>1, <1>2, NegotiateType

LEMMA DoType ==
  ASSUME TypeOK, Do, UNCHANGED network
  PROVE  TypeOK'
<1>1. ThreeByteCommand({DO}) /\ Negotiate(Third, DoAnswer(Third))
  BY DEF Do
<1>2. DoAnswer(Third) \in Message
  BY <1>1, ThreeByteCommandType, MsgType DEF DoAnswer
<1> QED
  BY <1>1, <1>2, NegotiateType

LEMMA FinishReadType ==
  ASSUME TypeOK, FinishRead, UNCHANGED network
  PROVE  TypeOK'
<1>1. /\ handshakeComplete' \in BOOLEAN /\ binaryNegotiated' \in BOOLEAN
      /\ eorNegotiated' \in BOOLEAN /\ terminalTypeSent' \in BOOLEAN
      /\ state' \in {"Disconnected", "Negotiating", "Connected"}
      /\ handshakeBuffer' \in Seq(Byte)
      /\ delivered' \in Seq(Seq(Byte)) /\ handed' \in Seq(Byte)
  <2>1. CASE processed = <<>>
    BY <2>1 DEF FinishRead, TypeOK, status, app
  <2>2. CASE processed # <<>> /\ handshakeComplete
    <3>1. HandOver(processed, processed) /\ UNCHANGED status
      BY <2>2 DEF FinishRead
    <3>2. delivered' \in Seq(Seq(Byte)) /\ handed' \in Seq(Byte)
      BY <3>1, HandOverType DEF TypeOK
    <3> QED
      BY <3>1, <3>2 DEF TypeOK, status
  <2>3. CASE processed # <<>> /\ ~handshakeComplete
    <3>1. /\ binaryNegotiated' = TRUE
          /\ CheckHandshakeComplete(TRUE, terminalTypeSent, handshakeBuffer \o processed)
          /\ UNCHANGED <<eorNegotiated, terminalTypeSent>>
      BY <2>3 DEF FinishRead
    <3>2. handshakeBuffer \o processed \in Seq(Byte)
      BY ConcatProperties DEF TypeOK
    <3>3. terminalTypeSent \in BOOLEAN
      BY DEF TypeOK
    <3> QED
      BY <3>1, <3>2, <3>3, CheckType DEF TypeOK
  <2> QED
    BY <2>1, <2>2, <2>3
<1>2. processed' \in Seq(Byte)
  BY EmptySeq DEF FinishRead
<1> QED
  BY <1>1, <1>2, NetworkType DEF TypeOK, FinishRead, subneg

\* A step of the handler: one case for each action of the loop, and the tail.
LEMMA HandlerStepType ==
  ASSUME TypeOK, HandlerStep
  PROVE  TypeOK'
<1>0. UNCHANGED network
  BY DEF HandlerStep
<1>1. CASE EscapedIac
  <2>1. IAC \in Byte /\ 2 \in Nat
    BY DEF IAC, Byte
  <2> QED
    BY <1>0, <1>1, <2>1, AppendDataStepType DEF EscapedIac
<1>2. CASE UnescapedIac
  <2>1. IAC \in Byte /\ 1 \in Nat
    BY DEF IAC, Byte
  <2> QED
    BY <1>0, <1>2, <2>1, AppendDataStepType DEF UnescapedIac
<1>3. CASE DataByte
  <2>1. receiveBuffer[1] \in Byte /\ 1 \in Nat
    BY <1>3, HeadBytes DEF DataByte
  <2> QED
    BY <1>0, <1>3, <2>1, AppendDataStepType DEF DataByte
<1>4. CASE SubnegotiationByte
  <2>1. receiveBuffer' \in Seq(Byte)
    BY <1>4, ConsumeType DEF SubnegotiationByte
  <2>2. receiveBuffer[1] \in Byte
    BY <1>4, HeadBytes DEF SubnegotiationByte
  <2>3. subnegotiationBuffer' \in Seq(Byte)
    BY <1>4, <2>2, AppendProperties DEF TypeOK, SubnegotiationByte
  <2> QED
    BY <1>0, <1>4, <2>1, <2>3, NetworkType
       DEF TypeOK, SubnegotiationByte, status, records, app
<1>5. CASE EndRecord
  BY <1>0, <1>5, EndRecordType
<1>6. CASE DropStandalone
  <2>1. receiveBuffer' \in Seq(Byte)
    BY <1>6, ConsumeType DEF DropStandalone, StandaloneCommand
  <2> QED
    BY <1>0, <1>6, <2>1, NetworkType
       DEF TypeOK, DropStandalone, StandaloneCommand, status, subneg, records, app
<1>7. CASE EndTerminalType
  BY <1>0, <1>7, EndTerminalTypeType
<1>8. CASE EndNewEnviron
  BY <1>0, <1>8, EndNewEnvironType
<1>9. CASE EndOtherSubnegotiation
  BY <1>0, <1>9, EndOtherSubnegotiationType
<1>10. CASE Will
  BY <1>0, <1>10, WillType
<1>11. CASE Do
  BY <1>0, <1>11, DoType
<1>12. CASE BeginSubnegotiation
  <2>1. ThreeByteCommand({SB})
    BY <1>12 DEF BeginSubnegotiation
  <2> QED
    BY <1>0, <1>12, <2>1, ThreeByteCommandType, NetworkType, EmptySeq
       DEF TypeOK, BeginSubnegotiation, status, app
<1>13. CASE IgnoreCommand
  <2>1. ThreeByteCommand(Byte \ {WILL, DO, SB})
    BY <1>13 DEF IgnoreCommand
  <2> QED
    BY <1>0, <1>13, <2>1, ThreeByteCommandType, NetworkType
       DEF TypeOK, IgnoreCommand, status, subneg, app
<1>14. CASE FinishRead
  BY <1>0, <1>14, FinishReadType
<1> QED
  BY <1>1, <1>2, <1>3, <1>4, <1>5, <1>6, <1>7, <1>8, <1>9, <1>10, <1>11, <1>12,
     <1>13, <1>14 DEF HandlerStep, LoopStep

LEMMA ReadType ==
  ASSUME TypeOK, ReadSome
  PROVE  TypeOK'
<1>1. PICK n \in 1..Len(wire) : Read(n)
  BY DEF ReadSome
<1>2. wire \in Seq(Byte) /\ Len(wire) \in Nat
  BY LenProperties DEF TypeOK
<1>3. \A i \in 1..Len(wire) : wire[i] \in Byte
  BY <1>2, ElementOfSeq
<1>4. SubSeq(wire, 1, n) \in Seq(Byte) /\ SubSeq(wire, n + 1, Len(wire)) \in Seq(Byte)
  BY <1>2, <1>3, SubSeqProperties
<1>5. receiveBuffer \o SubSeq(wire, 1, n) \in Seq(Byte)
  BY <1>4, ConcatProperties DEF TypeOK
<1> QED
  BY <1>1, <1>4, <1>5 DEF TypeOK, Read, status, subneg, records, app

LEMMA SocketConnectedType ==
  ASSUME TypeOK, SocketConnected
  PROVE  TypeOK'
<1> DEFINE offers == << Msg("DO", TransmitBinary), Msg("WILL", TransmitBinary),
                        Msg("DO", EndOfRecord), Msg("WILL", EndOfRecord) >>
<1>1. TransmitBinary \in Byte /\ EndOfRecord \in Byte
  BY DEF TransmitBinary, EndOfRecord, Byte
<1>2. /\ Msg("DO", TransmitBinary) \in Message /\ Msg("WILL", TransmitBinary) \in Message
      /\ Msg("DO", EndOfRecord) \in Message /\ Msg("WILL", EndOfRecord) \in Message
  BY <1>1, MsgType
<1>3. offers \in Seq(Message)
  BY <1>2
<1> HIDE DEF offers
<1>4. toHost \o offers \in Seq(Message)
  BY <1>3, ConcatProperties DEF TypeOK
<1>5. toHost' \in Seq(Message)
  BY <1>4 DEF SocketConnected, offers
<1>6. connections' \in Nat
  BY DEF TypeOK, SocketConnected
<1> QED
  BY <1>5, <1>6 DEF TypeOK, SocketConnected, subneg, records, app

LEMMA HostWritesType ==
  ASSUME TypeOK, NEW segment \in Seq(Byte), HostWrites(segment)
  PROVE  TypeOK'
<1>1. wire \o segment \in Seq(Byte)
  BY ConcatProperties DEF TypeOK
<1>2. wire' \in Seq(Byte) /\ written' \in Nat
  BY <1>1 DEF TypeOK, HostWrites
<1> QED
  BY <1>2 DEF TypeOK, HostWrites, handlerVars, status, subneg, records, app

\* TypeOK is inductive.
LEMMA NextType == TypeOK /\ [Next]_vars => TypeOK'
<1> SUFFICES ASSUME TypeOK, [Next]_vars PROVE TypeOK'
  OBVIOUS
<1>1. CASE HandlerStep
  BY <1>1, HandlerStepType
<1>2. CASE ReadSome
  BY <1>2, ReadType
<1>3. CASE SocketConnected
  BY <1>3, SocketConnectedType
<1>4. CASE SocketDisconnected
  BY <1>4, EmptySeq DEF TypeOK, SocketDisconnected, subneg, records, app
<1>5. ASSUME NEW segment \in Segments, HostWrites(segment) PROVE TypeOK'
  BY <1>5, HostWritesType, SegmentsAssumption
<1>6. CASE UNCHANGED vars
  BY <1>6 DEF TypeOK, vars, handlerVars, status, subneg, records, app, network
<1> QED
  BY <1>1, <1>2, <1>3, <1>4, <1>5, <1>6 DEF Next

\* Every variable keeps its type: every byte handed on is a byte, the state is
\* never Connecting or Error, and a repaired record is still one.
THEOREM TypeCorrect == Spec => []TypeOK
BY InitType, NextType, PTL DEF Spec

-----------------------------------------------------------------------------
(* What single steps of the handler may do, whatever came before. *)

\* While records are framed and nothing is left over from before, a step of
\* the loop or the tail hands data over at IAC EOR alone.
LEMMA FramedStep ==
  ASSUME Framing, processed = <<>>, HandlerStep
  PROVE  /\ processed' = <<>>
         /\ delivered' # delivered => AtEor /\ recordBuffer' = <<>>
<1>1. CASE EscapedIac \/ UnescapedIac \/ DataByte
  BY <1>1 DEF EscapedIac, UnescapedIac, DataByte, AppendData, app
<1>2. CASE EndRecord
  BY <1>2 DEF EndRecord, StandaloneCommand, FlushRecord, AtEor
<1>3. CASE SubnegotiationByte \/ DropStandalone
  BY <1>3 DEF SubnegotiationByte, DropStandalone, records, app
<1>4. CASE EndTerminalType
  BY <1>4 DEF EndTerminalType, EndSubnegotiation, CheckHandshakeComplete, Framing,
              records, app
<1>5. CASE EndNewEnviron \/ EndOtherSubnegotiation
  BY <1>5 DEF EndNewEnviron, EndOtherSubnegotiation, EndSubnegotiation, records, app
<1>6. CASE Will \/ Do
  BY <1>6 DEF Will, Do, ThreeByteCommand, Negotiate, CheckHandshakeComplete, Framing,
              records, app
<1>7. CASE BeginSubnegotiation \/ IgnoreCommand
  BY <1>7 DEF BeginSubnegotiation, IgnoreCommand, ThreeByteCommand, records, app
<1>8. CASE FinishRead
  BY <1>8 DEF FinishRead, app
<1> QED
  BY <1>1, <1>2, <1>3, <1>4, <1>5, <1>6, <1>7, <1>8 DEF HandlerStep, LoopStep

\* Once EOR is in force every hand-over is that of a whole record.
THEOREM Framed == Spec => FramedDelivery
<1>1. [Next]_vars => [HandsOverRecords]_vars
  <2> SUFFICES ASSUME Next, Framing, processed = <<>>
               PROVE  /\ processed' = <<>>
                      /\ delivered' # delivered => AtEor /\ recordBuffer' = <<>>
    BY DEF HandsOverRecords
  <2>1. CASE HandlerStep
    BY <2>1, FramedStep
  <2>2. CASE ReadSome
    BY <2>2 DEF ReadSome, Read, records, app
  <2>3. CASE SocketConnected \/ SocketDisconnected
    BY <2>3 DEF SocketConnected, SocketDisconnected, records, app
  <2>4. ASSUME NEW segment \in Segments, HostWrites(segment)
        PROVE  processed' = processed /\ delivered' = delivered
    BY <2>4 DEF HostWrites, handlerVars, records, app
  <2> QED
    BY <2>1, <2>2, <2>3, <2>4 DEF Next
<1> QED
  BY <1>1, PTL DEF Spec, FramedDelivery

-----------------------------------------------------------------------------
(* Requests and their answers. *)

LEMMA ShorterBy ==
  ASSUME NEW s \in Seq(Byte), NEW n \in Nat, n <= Len(s)
  PROVE  Len(SubSeq(s, n + 1, Len(s))) = Len(s) - n
<1>1. Len(s) \in Nat /\ n + 1 \in 1..(Len(s) + 1)
  BY LenProperties
<1> QED
  BY <1>1, SubSeqProperties

\* What a request takes off the buffer.
LEMMA RequestHasThree ==
  ASSUME TypeOK, ReadsRequest
  PROVE  Len(receiveBuffer') = Len(receiveBuffer) - 3
<1>1. receiveBuffer \in Seq(Byte) /\ 3 \in Nat /\ 3 <= Len(receiveBuffer) /\ 3 + 1 = 4
  BY LenProperties DEF TypeOK, ReadsRequest
<1> QED
  BY <1>1, ShorterBy DEF ReadsRequest

\* A step that takes fewer than three bytes off the buffer reads no WILL or DO.
LEMMA NoRequestInTwoBytes ==
  ASSUME TypeOK, NEW n \in {1, 2}, n <= Len(receiveBuffer), Consume(n)
  PROVE  ~ReadsRequest
<1>1. receiveBuffer \in Seq(Byte) /\ Len(receiveBuffer) \in Nat
  BY LenProperties DEF TypeOK
<1>2. Len(receiveBuffer') = Len(receiveBuffer) - n
  BY <1>1, ShorterBy DEF Consume
<1>3. ReadsRequest => Len(receiveBuffer') = Len(receiveBuffer) - 3
  BY RequestHasThree
<1> QED
  BY <1>1, <1>2, <1>3

\* Nor does one that takes none.
LEMMA NoRequestInNone ==
  ASSUME TypeOK, NEW more \in Seq(Byte), receiveBuffer' = receiveBuffer \o more
  PROVE  ~ReadsRequest
<1>1. receiveBuffer \in Seq(Byte) /\ Len(receiveBuffer) \in Nat /\ Len(more) \in Nat
  BY LenProperties DEF TypeOK
<1>2. Len(receiveBuffer') = Len(receiveBuffer) + Len(more)
  BY <1>1, ConcatProperties
<1>3. ReadsRequest => Len(receiveBuffer') = Len(receiveBuffer) - 3
  BY RequestHasThree
<1> QED
  BY <1>1, <1>2, <1>3

\* A step that reads no request and sends nothing.
LEMMA SilentStep ==
  ASSUME ~ReadsRequest, toHost' = toHost,
         inSubnegotiation' = inSubnegotiation \/ currentSubnegotiation \notin {TerminalType, NewEnviron}
  PROVE  AnswersTheRequest
BY DEF AnswersTheRequest, ReadsQuestion

LEMMA OptionIsAnswered ==
  ASSUME TypeOK, Will \/ Do
  PROVE  AnswersTheRequest
<1>1. /\ HasPair /\ Second \in {WILL, DO} /\ Len(receiveBuffer) >= 3 /\ Consume(3)
      /\ inSubnegotiation' = inSubnegotiation
  BY DEF Will, Do, ThreeByteCommand, Negotiate, subneg
<1>2. ReadsRequest /\ ~ReadsQuestion
  BY <1>1 DEF ReadsRequest, ReadsQuestion, HasPair, Consume
<1>3. WILL # DO
  BY DEF WILL, DO
<1>4. CASE Will
  <2>1. Second = WILL /\ toHost' = Append(toHost, WillAnswer(Third))
    BY <1>4 DEF Will, ThreeByteCommand, Negotiate
  <2>2. WillAnswer(Third) = Msg("DO", Third) \/ WillAnswer(Third) = Msg("DONT", Third)
    BY DEF WillAnswer
  <2>3. IsSent({"DO", "DONT"}, Third)
    BY <2>1, <2>2 DEF IsSent
  <2> QED
    BY <1>2, <2>1, <2>3 DEF AnswersTheRequest
<1>5. CASE Do
  <2>1. Second = DO /\ toHost' = Append(toHost, DoAnswer(Third))
    BY <1>5 DEF Do, ThreeByteCommand, Negotiate
  <2>2. DoAnswer(Third) = Msg("WILL", Third) \/ DoAnswer(Third) = Msg("WONT", Third)
    BY DEF DoAnswer
  <2>3. IsSent({"WILL", "WONT"}, Third)
    BY <2>1, <2>2 DEF IsSent
  <2> QED
    BY <1>2, <1>3, <2>1, <2>3 DEF AnswersTheRequest
<1> QED
  BY <1>4, <1>5

LEMMA QuestionIsAnswered ==
  ASSUME TypeOK, EndTerminalType \/ EndNewEnviron
  PROVE  AnswersTheRequest
<1>1. EndSubnegotiation
  BY DEF EndTerminalType, EndNewEnviron
<1>2. Consume(2) /\ 2 <= Len(receiveBuffer)
  BY <1>1 DEF EndSubnegotiation, HasPair
<1>3. ~ReadsRequest
  BY <1>2, NoRequestInTwoBytes
<1>4. currentSubnegotiation \in {TerminalType, NewEnviron} /\ ReadsQuestion
  BY <1>1 DEF EndTerminalType, EndNewEnviron, EndSubnegotiation, ReadsQuestion
<1>5. IsSent({"IS", "IS_ENCRYPTED"}, currentSubnegotiation)
  BY DEF EndTerminalType, EndNewEnviron, IsSent
<1> QED
  BY <1>3, <1>4, <1>5 DEF AnswersTheRequest

\* Every turn of the loop: all but four actions read no request.
LEMMA LoopStepAnswers ==
  ASSUME TypeOK, LoopStep
  PROVE  AnswersTheRequest
<1>0. Len(receiveBuffer) \in Nat /\ (receiveBuffer # <<>> => 1 <= Len(receiveBuffer))
  BY LenProperties, EmptySeq DEF TypeOK
<1>1. CASE EscapedIac \/ EndRecord \/ DropStandalone
  <2>1. Consume(2) /\ 2 <= Len(receiveBuffer) /\ toHost' = toHost /\ UNCHANGED subneg
    BY <1>1 DEF EscapedIac, EndRecord, DropStandalone, StandaloneCommand, HasPair
  <2> QED
    BY <2>1, NoRequestInTwoBytes, SilentStep DEF subneg
<1>2. CASE UnescapedIac \/ DataByte \/ SubnegotiationByte
  <2>1. /\ Consume(1) /\ 1 <= Len(receiveBuffer) /\ toHost' = toHost
        /\ inSubnegotiation' = inSubnegotiation
    BY <1>0, <1>2 DEF UnescapedIac, DataByte, SubnegotiationByte, HasPair, HasByte, subneg
  <2> QED
    BY <2>1, NoRequestInTwoBytes, SilentStep
<1>3. CASE EndOtherSubnegotiation
  <2>1. /\ Consume(2) /\ 2 <= Len(receiveBuffer) /\ toHost' = toHost
        /\ currentSubnegotiation \notin {TerminalType, NewEnviron}
    BY <1>3 DEF EndOtherSubnegotiation, EndSubnegotiation, HasPair
  <2> QED
    BY <2>1, NoRequestInTwoBytes, SilentStep
<1>4. CASE BeginSubnegotiation
  <2>1. /\ Second = SB /\ toHost' = toHost /\ inSubnegotiation'
    BY <1>4 DEF BeginSubnegotiation, ThreeByteCommand
  <2>2. ~ReadsRequest
    BY <2>1 DEF ReadsRequest, SB, WILL, DO
  <2> QED
    BY <2>1, <2>2 DEF AnswersTheRequest, ReadsQuestion
<1>5. CASE IgnoreCommand
  <2>1. Second \notin {WILL, DO} /\ toHost' = toHost /\ inSubnegotiation' = inSubnegotiation
    BY <1>5 DEF IgnoreCommand, ThreeByteCommand, subneg
  <2> QED
    BY <2>1, SilentStep DEF ReadsRequest
<1> QED
  BY <1>1, <1>2, <1>3, <1>4, <1>5, OptionIsAnswered, QuestionIsAnswered DEF LoopStep

\* The client answers each request it reads, by one message of its kind, and
\* sends nothing else while a connection lasts, for every stream and cut.
THEOREM EveryRequestIsAnswered == Spec => RequestsAreAnswered
<1>1. TypeOK /\ [Next]_vars => [AnswersTheRequest]_vars
  <2> SUFFICES ASSUME TypeOK, Next PROVE AnswersTheRequest
    OBVIOUS
  <2>0. receiveBuffer \in Seq(Byte) /\ receiveBuffer = receiveBuffer \o <<>> /\ <<>> \in Seq(Byte)
    BY ConcatEmptySeq, EmptySeq DEF TypeOK
  <2>1. CASE LoopStep
    BY <2>1, LoopStepAnswers
  <2>2. CASE FinishRead
    <3>1. receiveBuffer' = receiveBuffer /\ toHost' = toHost /\ UNCHANGED subneg
      BY <2>2 DEF FinishRead
    <3> QED
      BY <2>0, <3>1, NoRequestInNone, SilentStep DEF subneg
  <2>3. CASE ReadSome
    <3>1. PICK n \in 1..Len(wire) : Read(n)
      BY <2>3 DEF ReadSome
    <3>2. SubSeq(wire, 1, n) \in Seq(Byte)
      BY <3>1, SubSeqProperties DEF TypeOK
    <3>3. receiveBuffer' = receiveBuffer \o SubSeq(wire, 1, n) /\ toHost' = toHost /\ UNCHANGED subneg
      BY <3>1 DEF Read
    <3> QED
      BY <3>2, <3>3, NoRequestInNone, SilentStep DEF subneg
  <2>4. CASE SocketConnected \/ SocketDisconnected
    <3>1. receiveBuffer' = receiveBuffer /\ link' # link /\ UNCHANGED subneg
      BY <2>4 DEF SocketConnected, SocketDisconnected, TypeOK
    <3>2. ~ReadsRequest
      BY <2>0, <3>1, NoRequestInNone
    <3> QED
      BY <3>1, <3>2 DEF AnswersTheRequest, ReadsQuestion, subneg
  <2>5. ASSUME NEW segment \in Segments, HostWrites(segment)
        PROVE  AnswersTheRequest
    <3>1. receiveBuffer' = receiveBuffer /\ toHost' = toHost /\ UNCHANGED subneg
      BY <2>5 DEF HostWrites, handlerVars
    <3> QED
      BY <2>0, <3>1, NoRequestInNone, SilentStep DEF subneg
  <2> QED
    BY <2>1, <2>2, <2>3, <2>4, <2>5 DEF Next, HandlerStep
<1> QED
  BY <1>1, TypeCorrect, PTL DEF Spec, RequestsAreAnswered

-----------------------------------------------------------------------------
(* No application byte is lost, duplicated or reordered by the handler, and *)
(* none is held back but for its record.                                   *)

\* The inductive invariant.  InOrder alone is not inductive: a byte appended
\* to the record buffer passes those in processed unless one of the two is
\* empty, and FinishRead hands processed over ahead of the record buffer.
\* One of them is empty because nothing is collected before framing begins
\* and framing, once begun, never ends.  The last four conjuncts say when the
\* handshake is complete: from the first data or terminal type on.
Held ==
  /\ InOrder
  /\ handshakeBuffer = <<>>
  /\ processed = <<>> \/ recordBuffer = <<>>
  /\ recordBuffer # <<>> => Framing
  /\ ~reading => processed = <<>>
  /\ delivered # <<>> => handshakeComplete
  /\ terminalTypeSent => handshakeComplete
  /\ handshakeComplete => Begun
  /\ state = "Connected" => handshakeComplete

IInv == TypeOK /\ Held

-----------------------------------------------------------------------------
(* Lemmas about the order of the buffers. *)

LEMMA AppendNotEmpty ==
  ASSUME NEW s \in Seq(Seq(Byte)), NEW data
  PROVE  Append(s, data) # <<>>
BY LenProperties, EmptySeq

LEMMA JoinEmpty ==
  ASSUME NEW h \in Seq(Byte), NEW s \in Seq(Byte)
  PROVE  /\ h \o <<>> \o s \o <<>> = h \o s
         /\ h \o <<>> \o <<>> \o s = h \o s
         /\ h \o <<>> \o <<>> \o <<>> = h
<1>1. h \o <<>> = h /\ <<>> \in Seq(Byte)
  BY ConcatEmptySeq, EmptySeq
<1>2. h \o s \in Seq(Byte)
  BY ConcatProperties
<1>3. (h \o s) \o <<>> = h \o s
  BY <1>2, ConcatEmptySeq
<1> QED
  BY <1>1, <1>3

\* With nothing held for the handshake, the bytes not handed over yet are
\* those of whichever buffer is not empty.
LEMMA OneBuffer ==
  ASSUME IInv
  PROVE  extracted = handed \o (processed \o recordBuffer)
         /\ processed \o recordBuffer = recordBuffer \o processed
<1>1. /\ handed \in Seq(Byte) /\ processed \in Seq(Byte) /\ recordBuffer \in Seq(Byte)
      /\ handshakeBuffer = <<>>
      /\ extracted = handed \o handshakeBuffer \o processed \o recordBuffer
  BY DEF IInv, Held, TypeOK, InOrder
<1>2. CASE processed = <<>>
  <2>1. processed \o recordBuffer = recordBuffer /\ recordBuffer \o processed = recordBuffer
    BY <1>1, <1>2, ConcatEmptySeq
  <2> QED
    BY <1>1, <1>2, <2>1, JoinEmpty
<1>3. CASE recordBuffer = <<>>
  <2>1. processed \o recordBuffer = processed /\ recordBuffer \o processed = processed
    BY <1>1, <1>3, ConcatEmptySeq
  <2> QED
    BY <1>1, <1>3, <2>1, JoinEmpty
<1> QED
  BY <1>2, <1>3 DEF IInv, Held

\* appendData puts the byte behind every other.
LEMMA AppendDataOrder ==
  ASSUME IInv, NEW b \in Byte, AppendData(b), UNCHANGED <<status, app>>, reading, reading'
  PROVE  Held'
<1>1. /\ handed \in Seq(Byte) /\ processed \in Seq(Byte) /\ recordBuffer \in Seq(Byte)
      /\ <<b>> \in Seq(Byte) /\ extracted \in Seq(Byte)
  BY DEF IInv, TypeOK
<1>2. /\ handed' = handed /\ delivered' = delivered /\ handshakeBuffer' = <<>>
      /\ handshakeComplete' = handshakeComplete /\ terminalTypeSent' = terminalTypeSent
      /\ eorNegotiated' = eorNegotiated /\ state' = state
  BY DEF IInv, Held, status, app
<1> DEFINE held == processed \o recordBuffer
<1>3. held \in Seq(Byte) /\ extracted = handed \o held
  BY <1>1, OneBuffer, ConcatProperties
<1>4. extracted' = handed \o Append(held, b) /\ Append(held, b) \in Seq(Byte)
  <2>1. extracted' = extracted \o <<b>> /\ Append(held, b) = held \o <<b>>
    BY <1>1, <1>3, AppendIsConcat DEF AppendData
  <2>2. (handed \o held) \o <<b>> = handed \o (held \o <<b>>)
    BY <1>1, <1>3, ConcatAssociative
  <2> QED
    BY <1>3, <2>1, <2>2, AppendProperties
<1>5. InOrder' /\ (processed' = <<>> \/ recordBuffer' = <<>>)
  <2>1. CASE Framing
    <3>1. processed' = <<>> /\ recordBuffer' = Append(held, b)
      BY <2>1, OneBuffer DEF AppendData
    <3> QED
      BY <1>1, <1>2, <1>4, <3>1, JoinEmpty DEF InOrder
  <2>2. CASE ~Framing
    <3>1. recordBuffer = <<>> /\ recordBuffer' = <<>> /\ processed' = Append(processed, b)
      BY <2>2 DEF AppendData, IInv, Held
    <3>2. held = processed
      BY <1>1, <3>1, ConcatEmptySeq
    <3> QED
      BY <1>1, <1>2, <1>4, <3>1, <3>2, JoinEmpty DEF InOrder
  <2> QED
    BY <2>1, <2>2
<1>6. recordBuffer' # <<>> => Framing'
  BY <1>2 DEF AppendData, Framing, IInv, Held
<1> QED
  BY <1>2, <1>5, <1>6 DEF IInv, Held, Begun

\* IAC EOR hands over everything that was extracted.
LEMMA EndRecordOrder ==
  ASSUME IInv, EndRecord
  PROVE  Held'
<1> DEFINE record == processed \o recordBuffer
<1>1. /\ handed \in Seq(Byte) /\ processed \in Seq(Byte) /\ recordBuffer \in Seq(Byte)
      /\ <<>> \in Seq(Byte)
  BY EmptySeq DEF IInv, TypeOK
<1>2. /\ handshakeBuffer' = <<>> /\ processed' = <<>> /\ recordBuffer' = <<>>
      /\ extracted' = extracted
      /\ handshakeComplete' = handshakeComplete /\ handshakeComplete
      /\ terminalTypeSent' = terminalTypeSent /\ state' = state
  BY DEF IInv, Held, EndRecord, StandaloneCommand, FlushRecord, status, Framing
<1>6. Begun'
  <2>1. CASE terminalTypeSent
    BY <1>2, <2>1 DEF Begun
  <2>2. CASE delivered # <<>>
    <3>1. delivered' = delivered \/ \E data : delivered' = Append(delivered, data)
      BY DEF EndRecord, FlushRecord, HandOver, app
    <3>2. \A data : Append(delivered, data) # <<>>
      BY AppendNotEmpty DEF IInv, TypeOK
    <3> QED
      BY <2>2, <3>1, <3>2 DEF Begun
  <2> QED
    BY <1>2, <2>1, <2>2 DEF IInv, Held, Begun
<1>3. record \in Seq(Byte) /\ extracted = handed \o record
  BY <1>1, OneBuffer, ConcatProperties
<1>4. handed' = handed \o record /\ handed' \in Seq(Byte)
  <2>1. CASE record # <<>>
    BY <1>1, <1>3, <2>1, ConcatProperties DEF EndRecord, FlushRecord, HandOver
  <2>2. CASE record = <<>>
    BY <1>1, <1>3, <2>2, ConcatEmptySeq DEF EndRecord, FlushRecord, app
  <2> QED
    BY <2>1, <2>2
<1>5. InOrder'
  BY <1>2, <1>3, <1>4, JoinEmpty, <1>1 DEF InOrder
<1> QED
  BY <1>2, <1>5, <1>6 DEF Held, IInv

\* A step that neither extracts nor hands over a byte and ends no framing.
LEMMA KeepOrder ==
  ASSUME IInv, UNCHANGED records, UNCHANGED app, handshakeBuffer' = <<>>,
         handshakeComplete => handshakeComplete', eorNegotiated => eorNegotiated',
         terminalTypeSent' => handshakeComplete', reading' = reading \/ processed = <<>>,
         handshakeComplete' => handshakeComplete \/ terminalTypeSent',
         terminalTypeSent => terminalTypeSent', state' = "Connected" => handshakeComplete'
  PROVE  Held'
BY DEF IInv, Held, InOrder, Framing, Begun, records, app

\* With no early data pending, completing the handshake delivers nothing.
LEMMA CheckNothingPending ==
  ASSUME IInv, NEW binary \in BOOLEAN, NEW typeSent \in BOOLEAN,
         CheckHandshakeComplete(binary, typeSent, handshakeBuffer)
  PROVE  /\ UNCHANGED app /\ handshakeBuffer' = <<>>
         /\ handshakeComplete => handshakeComplete'
         /\ binary /\ typeSent => handshakeComplete'
         /\ handshakeComplete' => handshakeComplete \/ typeSent
         /\ state' = "Connected" => handshakeComplete'
<1>1. /\ handshakeBuffer = <<>> /\ handshakeComplete \in BOOLEAN
      /\ state = "Connected" => handshakeComplete
  BY DEF IInv, Held, TypeOK
<1>2. CASE handshakeComplete
  BY <1>1, <1>2 DEF CheckHandshakeComplete
<1>3. CASE ~handshakeComplete /\ binary /\ typeSent
  BY <1>1, <1>3 DEF CheckHandshakeComplete
<1>4. CASE ~handshakeComplete /\ ~(binary /\ typeSent)
  BY <1>1, <1>4 DEF CheckHandshakeComplete
<1> QED
  BY <1>1, <1>2, <1>3, <1>4

LEMMA EndTerminalTypeOrder ==
  ASSUME IInv, EndTerminalType
  PROVE  Held'
<1>1. CheckHandshakeComplete(TRUE, TRUE, handshakeBuffer)
  BY DEF EndTerminalType
<1>2. /\ UNCHANGED app /\ handshakeBuffer' = <<>>
      /\ handshakeComplete => handshakeComplete'
      /\ terminalTypeSent' => handshakeComplete'
      /\ state' = "Connected" => handshakeComplete'
  BY <1>1, CheckNothingPending
<1>3. /\ UNCHANGED records /\ reading' = reading /\ (eorNegotiated => eorNegotiated')
      /\ terminalTypeSent'
  BY DEF EndTerminalType, EndSubnegotiation
<1> QED
  BY <1>2, <1>3, KeepOrder

LEMMA NegotiateOrder ==
  ASSUME IInv, NEW cmds, ThreeByteCommand(cmds), NEW answer, Negotiate(Third, answer)
  PROVE  Held'
<1>1. /\ binaryNegotiated' \in BOOLEAN
      /\ eorNegotiated => eorNegotiated'
      /\ terminalTypeSent' = terminalTypeSent
  BY DEF IInv, TypeOK, Negotiate
<1>2. /\ UNCHANGED app /\ handshakeBuffer' = <<>>
      /\ handshakeComplete => handshakeComplete'
      /\ handshakeComplete' => handshakeComplete \/ terminalTypeSent
      /\ state' = "Connected" => handshakeComplete'
  <2>1. CASE Third \in {TransmitBinary, EndOfRecord}
    <3>1. CheckHandshakeComplete(binaryNegotiated', terminalTypeSent, handshakeBuffer)
      BY <2>1 DEF Negotiate
    <3>2. terminalTypeSent \in BOOLEAN /\ binaryNegotiated' \in BOOLEAN
      BY <1>1 DEF IInv, TypeOK
    <3> QED
      BY <3>1, <3>2, CheckNothingPending, Zenon
  <2>2. CASE Third \notin {TransmitBinary, EndOfRecord}
    BY <2>2 DEF Negotiate, IInv, Held
  <2> QED
    BY <2>1, <2>2
<1>3. UNCHANGED records /\ reading' = reading
  BY DEF ThreeByteCommand
<1>4. terminalTypeSent' => handshakeComplete'
  BY <1>1, <1>2 DEF IInv, Held
<1> QED
  BY <1>1, <1>2, <1>3, <1>4, KeepOrder

\* The tail hands over what the call collected outside of records.
LEMMA FinishReadOrder ==
  ASSUME IInv, FinishRead
  PROVE  Held'
<1>1. /\ handed \in Seq(Byte) /\ processed \in Seq(Byte) /\ recordBuffer \in Seq(Byte)
      /\ handshakeBuffer = <<>>
      /\ recordBuffer' = recordBuffer /\ processed' = <<>> /\ extracted' = extracted
  BY DEF IInv, Held, TypeOK, FinishRead
<1>2. CASE processed = <<>>
  <2>1. UNCHANGED records /\ UNCHANGED app /\ UNCHANGED status
    BY <1>1, <1>2 DEF FinishRead, records
  <2> QED
    BY <1>1, <1>2, <2>1, KeepOrder DEF status, IInv, Held, Begun
<1>3. ASSUME processed # <<>>, HandOver(processed, processed), handshakeBuffer' = <<>>,
             handshakeComplete'
      PROVE  Held'
  <2>1. recordBuffer = <<>> /\ processed \o recordBuffer = processed
    BY <1>1, <1>3, ConcatEmptySeq DEF IInv, Held
  <2>2. extracted = handed \o processed
    BY <2>1, OneBuffer
  <2>3. handed' = handed \o processed /\ handed' \in Seq(Byte)
    BY <1>1, <1>3, ConcatProperties DEF HandOver
  <2>4. InOrder'
    BY <1>1, <1>3, <2>1, <2>2, <2>3, JoinEmpty DEF InOrder
  <2>5. Begun'
    <3>1. Append(delivered, processed) # <<>>
      BY AppendNotEmpty DEF IInv, TypeOK
    <3> QED
      BY <1>3, <3>1 DEF HandOver, Begun
  <2> QED
    BY <1>1, <1>3, <2>1, <2>4, <2>5 DEF Held
<1>4. CASE processed # <<>> /\ handshakeComplete
  BY <1>1, <1>3, <1>4 DEF FinishRead, status
<1>5. CASE processed # <<>> /\ ~handshakeComplete
  <2>1. handshakeBuffer \o processed = processed
    BY <1>1, ConcatEmptySeq
  <2>2. CheckHandshakeComplete(TRUE, terminalTypeSent, processed)
    BY <1>5, <2>1 DEF FinishRead
  <2>3. HandOver(processed, processed) /\ handshakeBuffer' = <<>> /\ handshakeComplete'
    BY <1>5, <2>2 DEF CheckHandshakeComplete
  <2> QED
    BY <1>3, <1>5, <2>3
<1> QED
  BY <1>2, <1>4, <1>5 DEF IInv, TypeOK

LEMMA HandlerStepOrder ==
  ASSUME IInv, HandlerStep
  PROVE  Held'
<1>1. CASE EscapedIac
  <2>1. IAC \in Byte
    BY DEF IAC, Byte
  <2> QED
    BY <1>1, <2>1, AppendDataOrder DEF EscapedIac, HasPair
<1>2. CASE UnescapedIac
  <2>1. IAC \in Byte
    BY DEF IAC, Byte
  <2> QED
    BY <1>2, <2>1, AppendDataOrder DEF UnescapedIac, HasPair
<1>3. CASE DataByte
  <2>1. receiveBuffer[1] \in Byte
    BY <1>3, HeadBytes DEF DataByte, IInv
  <2> QED
    BY <1>3, <2>1, AppendDataOrder DEF DataByte, HasByte
<1>4. CASE EndRecord
  BY <1>4, EndRecordOrder
<1>5. CASE EndTerminalType
  BY <1>5, EndTerminalTypeOrder
<1>6. CASE Will
  BY <1>6, NegotiateOrder DEF Will
<1>7. CASE Do
  BY <1>7, NegotiateOrder DEF Do
<1>8. CASE FinishRead
  BY <1>8, FinishReadOrder
<1>9. CASE SubnegotiationByte \/ DropStandalone
  BY <1>9, KeepOrder
     DEF SubnegotiationByte, DropStandalone, StandaloneCommand, status, IInv, Held, Begun
<1>10. CASE EndNewEnviron \/ EndOtherSubnegotiation
  BY <1>10, KeepOrder
     DEF EndNewEnviron, EndOtherSubnegotiation, EndSubnegotiation, status, IInv, Held, Begun
<1>11. CASE BeginSubnegotiation \/ IgnoreCommand
  BY <1>11, KeepOrder
     DEF BeginSubnegotiation, IgnoreCommand, ThreeByteCommand, status, IInv, Held, Begun
<1> QED
  BY <1>1, <1>2, <1>3, <1>4, <1>5, <1>6, <1>7, <1>8, <1>9, <1>10, <1>11
     DEF HandlerStep, LoopStep

LEMMA HostWritesOrder ==
  ASSUME IInv, NEW segment, HostWrites(segment)
  PROVE  Held'
BY KeepOrder DEF HostWrites, handlerVars, status, IInv, Held, Begun

\* IInv is inductive.
LEMMA NextIInv == IInv /\ [Next]_vars => IInv'
<1> SUFFICES ASSUME IInv, [Next]_vars PROVE Held'
  BY NextType DEF IInv
<1>1. CASE HandlerStep
  BY <1>1, HandlerStepOrder
<1>2. CASE ReadSome
  BY <1>2, KeepOrder DEF ReadSome, Read, status, IInv, Held, Begun
<1>3. CASE SocketConnected
  BY <1>3, KeepOrder DEF SocketConnected, IInv, Held, Begun
<1>4. CASE SocketDisconnected
  BY <1>4, KeepOrder DEF SocketDisconnected, IInv, Held, Begun
<1>5. ASSUME NEW segment \in Segments, HostWrites(segment) PROVE Held'
  BY <1>5, HostWritesOrder
<1>6. CASE UNCHANGED vars
  BY <1>6, KeepOrder DEF vars, handlerVars, status, IInv, Held, Begun
<1> QED
  BY <1>1, <1>2, <1>3, <1>4, <1>5, <1>6 DEF Next

LEMMA InitIInv == Init => IInv
<1> SUFFICES ASSUME Init PROVE Held
  BY InitType DEF IInv
<1>1. <<>> \in Seq(Byte)
  BY EmptySeq
<1>2. <<>> \o <<>> \o <<>> \o <<>> = <<>>
  BY <1>1, JoinEmpty, ConcatEmptySeq
<1> QED
  BY <1>2 DEF Init, Held, InOrder

-----------------------------------------------------------------------------
(* The theorems. *)

THEOREM Invariant == Spec => []IInv
BY InitIInv, NextIInv, PTL DEF Spec

\* Every application byte is in one place and the places are in order, for
\* every stream and every way it is cut, over any number of connections.
THEOREM OrderKept == Spec => []InOrder
<1>1. IInv => InOrder
  BY DEF IInv, Held
<1> QED
  BY <1>1, Invariant, PTL

\* Between two reads nothing is held back but the bytes of a record.
THEOREM OnlyRecordsHeld == Spec => []HeldForRecordOnly
<1>1. IInv => HeldForRecordOnly
  BY DEF IInv, Held, HeldForRecordOnly
<1> QED
  BY <1>1, Invariant, PTL

\* The check reports the connection when it completes the handshake.
LEMMA CheckReports ==
  ASSUME IInv, NEW binary, NEW typeSent, NEW pending,
         CheckHandshakeComplete(binary, typeSent, pending)
  PROVE  state # "Connected" /\ state' = "Connected" <=> ~handshakeComplete /\ handshakeComplete'
<1>1. handshakeComplete \in BOOLEAN /\ (state = "Connected" => handshakeComplete)
  BY DEF IInv, Held, TypeOK
<1>2. CASE ~handshakeComplete /\ binary /\ (typeSent \/ pending # <<>>)
  BY <1>1, <1>2 DEF CheckHandshakeComplete
<1>3. CASE ~(~handshakeComplete /\ binary /\ (typeSent \/ pending # <<>>))
  BY <1>3 DEF CheckHandshakeComplete
<1> QED
  BY <1>2, <1>3

\* So does every step, as none but those that check touches either.
LEMMA StepReports ==
  ASSUME IInv, Next
  PROVE  state # "Connected" /\ state' = "Connected" <=> ~handshakeComplete /\ handshakeComplete'
<1>1. CASE EndTerminalType
  BY <1>1, CheckReports DEF EndTerminalType
<1>2. CASE Will \/ Do
  <2>1. \/ CheckHandshakeComplete(binaryNegotiated', terminalTypeSent, handshakeBuffer)
        \/ state' = state /\ handshakeComplete' = handshakeComplete
    BY <1>2 DEF Will, Do, Negotiate
  <2>2. CASE CheckHandshakeComplete(binaryNegotiated', terminalTypeSent, handshakeBuffer)
    BY <2>2, CheckReports, Zenon
  <2> QED
    BY <2>1, <2>2
<1>3. CASE FinishRead
  <2>1. \/ CheckHandshakeComplete(TRUE, terminalTypeSent, handshakeBuffer \o processed)
        \/ state' = state /\ handshakeComplete' = handshakeComplete
    BY <1>3 DEF FinishRead, status
  <2>2. CASE CheckHandshakeComplete(TRUE, terminalTypeSent, handshakeBuffer \o processed)
    BY <2>2, CheckReports, Zenon
  <2>3. CASE state' = state /\ handshakeComplete' = handshakeComplete
    BY <2>3
  <2> QED
    BY <2>1, <2>2, <2>3, Zenon
<1>4. CASE LoopStep /\ UNCHANGED status
  BY <1>4 DEF status
<1>5. CASE ReadSome \/ SocketConnected \/ SocketDisconnected
  BY <1>5 DEF ReadSome, Read, SocketConnected, SocketDisconnected, status
<1>6. ASSUME NEW segment \in Segments, HostWrites(segment)
      PROVE  UNCHANGED status
  BY <1>6 DEF HostWrites, handlerVars
<1>7. LoopStep => EndTerminalType \/ Will \/ Do \/ UNCHANGED status
  BY DEF LoopStep, EscapedIac, UnescapedIac, DataByte, SubnegotiationByte, EndRecord,
         DropStandalone, StandaloneCommand, EndNewEnviron, EndOtherSubnegotiation,
         BeginSubnegotiation, IgnoreCommand
<1> QED
  BY <1>1, <1>2, <1>3, <1>4, <1>5, <1>6, <1>7 DEF Next, HandlerStep, status

\* The connection is reported once in the life of the handler: in the step that
\* gives the application the first data or the host the terminal type.  The
\* invariant has it that the handshake is complete exactly from then on.
THEOREM ReportedWhenItBegins == Spec => ReportedOnce
<1>1. IInv /\ IInv' /\ [Next]_vars => [ReportedWithTheFirst]_vars
  <2> SUFFICES ASSUME IInv, IInv', Next PROVE ReportedWithTheFirst
    OBVIOUS
  <2>1. (Begun <=> handshakeComplete) /\ (Begun <=> handshakeComplete)'
    BY DEF IInv, Held, Begun
  <2> QED
    BY <2>1, StepReports DEF ReportedWithTheFirst
<1> QED
  BY <1>1, Invariant, PTL DEF Spec, ReportedOnce

=============================================================================
