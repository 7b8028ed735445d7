----------------------------- MODULE Session -----------------------------
(***************************************************************************)
(* One TCP connection between the handler and a host that speaks TN5250:   *)
(* it negotiates first, in any order, and then sends records, each closed  *)
(* by IAC EOR, with keep-alives (IAC NOP) between them.  Nothing restricts *)
(* how TCP cuts the stream into reads, and the host does not wait for the  *)
(* handler.                                                                *)
(*                                                                         *)
(* A host writes a record with every 0xFF doubled, or, as Host Integration *)
(* Server 2000 does, without doubling any; the second only for records     *)
(* whose bytes the handler can tell from commands (IsRecoverable).         *)
(*                                                                         *)
(* The session implements RecordChannel.                                   *)
(***************************************************************************)
EXTENDS ProtocolHandler, SequencesExt

CONSTANTS
  Handshake,    \* the segments of the host's side of the negotiation
  RecordMenu,   \* the records the host may send
  MaxRecords    \* bound: records sent

ASSUME RecordsAssumption == RecordMenu \subseteq Seq(Byte) \ {<<>>}

VARIABLES
  negotiating,  \* the segments of Handshake that were not written yet
  sentRecords   \* the records written, with the length the handler owes them

NOP == 241

\* sendRawData, whose encoding the host uses as well.
EncodeRecord(record) ==
  FlattenSeq([i \in DOMAIN record |->
                IF record[i] = IAC THEN <<IAC, IAC>> ELSE <<record[i]>>])
    \o <<IAC, EOR>>

\* Written without doubling, every 0xFF of the record is followed by a byte
\* that neither IAC IAC nor IAC EOR could have put there, and a leading 0xFF
\* also by a byte below the telnet commands.
IsRecoverable(record) ==
  \A i \in DOMAIN record : record[i] = IAC =>
    /\ i < Len(record)
    /\ record[i + 1] \notin {IAC, EOR}
    /\ i = 1 => record[2] < EOR

SessionInit ==
  /\ Init
  /\ negotiating = Handshake
  /\ sentRecords = <<>>

HostNegotiates ==
  \E segment \in negotiating :
    /\ HostWrites(segment)
    /\ negotiating' = negotiating \ {segment}
    /\ UNCHANGED sentRecords

SendRecord(record, encoded) ==
  /\ negotiating = {} /\ Len(sentRecords) < MaxRecords
  /\ HostWrites(encoded)
  /\ sentRecords' = Append(sentRecords, RepairGdsRecordLength(record))
  /\ UNCHANGED negotiating

HostSendsRecord ==
  \E record \in RecordMenu : SendRecord(record, EncodeRecord(record))

HostSendsUnescaped ==
  \E record \in RecordMenu :
    IsRecoverable(record) /\ SendRecord(record, record \o <<IAC, EOR>>)

HostSendsNop ==
  /\ negotiating = {}
  /\ HostWrites(<<IAC, NOP>>)
  /\ UNCHANGED <<negotiating, sentRecords>>

SessionNext ==
  \/ HostNegotiates \/ HostSendsRecord \/ HostSendsUnescaped \/ HostSendsNop
  \/ (HandlerStep \/ ReadSome \/ SocketConnected)
       /\ UNCHANGED <<negotiating, sentRecords>>

sessionVars == <<vars, negotiating, sentRecords>>

\* The handler never blocks, so a call of it goes on to its end; the
\* application keeps reading the socket; and the host goes through with the
\* negotiation it began.  Nothing obliges the host to send a record.
SessionSpec ==
  /\ SessionInit /\ [][SessionNext]_sessionVars
  /\ WF_vars(HandlerStep) /\ WF_vars(ReadSome) /\ WF_vars(SocketConnected)
  /\ WF_sessionVars(HostNegotiates)

-----------------------------------------------------------------------------
(* Properties. *)

\* Each record reaches the application at most once, whole and in order,
\* however the stream is cut and whichever way its 0xFF bytes were written.
Channel == INSTANCE RecordChannel WITH
             Records <- {RepairGdsRecordLength(r) : r \in RecordMenu},
             sent <- sentRecords, delivered <- delivered
ImplementsRecordChannel == Channel!Safety

\* Each record that was sent does reach it, even when nothing follows.
EveryRecordArrives == Channel!Liveness

\* The handler reports the connection, whatever the order of the host's
\* requests, and never leaves that state.
HandshakeCompletes == <>[](state = "Connected")

\* Every byte written is eventually consumed: no complete command or record
\* is left behind at the end of a read.
EverythingIsConsumed == <>[](wire = <<>> /\ ~reading /\ receiveBuffer = <<>>)
==========================================================================
