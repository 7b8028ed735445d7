--------------------------- MODULE SessionProofs ---------------------------
(***************************************************************************)
(* A session delivers the host's records for every menu of records, every  *)
(* negotiation the host may lead, every way TCP cuts the stream and every  *)
(* bound: each step of it is a step of RecordChannel or none.              *)
(***************************************************************************)
EXTENDS Session, Recursion, ProtocolHandlerProofs

-----------------------------------------------------------------------------
(* The handler without its buffers: where it stands between two bytes,     *)
(* where a byte takes it and which record it hands over then.  A reader    *)
(* also stands behind an IAC, and behind the two bytes of a command; the   *)
(* handler keeps those bytes in its receive buffer instead.                *)

Standings == [complete : BOOLEAN, eor : BOOLEAN, sub : BOOLEAN, cur : Byte, rec : Seq(Byte)]

Readers == [at : {"Data", "IAC", "Command"}, cmd : Byte, q : Standings]

Plain(q)        == [at |-> "Data", cmd |-> 0, q |-> q]
BehindIac(q)    == [at |-> "IAC", cmd |-> 0, q |-> q]
Behind(cmd, q)  == [at |-> "Command", cmd |-> cmd, q |-> q]

Collects(q) == q.complete /\ q.eor

\* A byte of data.
Takes(q, b) == IF Collects(q) THEN [q EXCEPT !.rec = Append(q.rec, b)] ELSE q

\* Behind an IAC: the IAC was data, and so is this byte.
IsData(q, b) ==
  ~q.sub /\ (b < EOR \/ (Collects(q) /\ q.rec # <<>> /\ b # EOR))

\* A two-byte command.
Ends(q, b) ==
  IF b = EOR /\ Collects(q) THEN [q EXCEPT !.rec = <<>>]
  ELSE IF b = SE /\ q.sub
  THEN [q EXCEPT !.sub = FALSE, !.complete = (q.complete \/ q.cur = TerminalType)]
  ELSE q

\* A three-byte command.
Obeys(q, cmd, b) ==
  IF cmd \in {WILL, DO} THEN [q EXCEPT !.eor = (q.eor \/ b = EndOfRecord)]
  ELSE IF cmd = SB THEN [q EXCEPT !.sub = TRUE, !.cur = b]
  ELSE q

Goes(p, b) ==
  IF p.at = "Data" THEN
    IF b = IAC THEN BehindIac(p.q) ELSE Plain(IF p.q.sub THEN p.q ELSE Takes(p.q, b))
  ELSE IF p.at = "IAC" THEN
    IF b = IAC THEN Plain(Takes(p.q, IAC))
    ELSE IF IsData(p.q, b) THEN Plain(Takes(Takes(p.q, IAC), b))
    ELSE IF b \in Standalone THEN Plain(Ends(p.q, b))
    ELSE Behind(b, p.q)
  ELSE Plain(Obeys(p.q, p.cmd, b))

\* Data outside of records does not become one: Broken stands for it.
Broken == <<256>>

Says(p, b) ==
  IF \/ p.at = "Data" /\ b # IAC /\ ~p.q.sub /\ ~Collects(p.q)
     \/ p.at = "IAC" /\ (b = IAC \/ IsData(p.q, b)) /\ ~Collects(p.q)
  THEN <<Broken>>
  ELSE IF p.at = "IAC" /\ b = EOR /\ Collects(p.q) /\ p.q.rec # <<>>
  THEN <<RepairGdsRecordLength(p.q.rec)>>
  ELSE <<>>

Results == Seq(Byte) \cup {Broken}

Reader ==
  [states |-> Readers, reads |-> Byte, tells |-> Results,
   goes |-> [p \in Readers |-> [b \in Byte |-> Goes(p, b)]],
   says |-> [p \in Readers |-> [b \in Byte |-> Says(p, b)]]]

LEMMA CodesAreBytes ==
  /\ {EOR, SE, NOP, SB, WILL, WONT, DO, DONT, IAC, TerminalType, EndOfRecord} \subseteq Byte
  /\ 0 \in Byte /\ Byte \subseteq Nat
BY DEF EOR, SE, NOP, SB, WILL, WONT, DO, DONT, IAC, TerminalType, EndOfRecord, Byte

LEMMA PlainIsReader ==
  \A q \in Standings : /\ Plain(q) \in Readers /\ BehindIac(q) \in Readers
                       /\ \A cmd \in Byte : Behind(cmd, q) \in Readers
BY CodesAreBytes DEF Plain, BehindIac, Behind, Readers

LEMMA TakesStands ==
  ASSUME NEW q \in Standings, NEW b \in Byte
  PROVE  Takes(q, b) \in Standings
<1>1. Append(q.rec, b) \in Seq(Byte)
  BY AppendProperties DEF Standings
<1> QED
  BY <1>1 DEF Takes, Standings

LEMMA EndsStands ==
  ASSUME NEW q \in Standings, NEW b \in Byte
  PROVE  Ends(q, b) \in Standings
<1>1. <<>> \in Seq(Byte)
  BY EmptySeq
<1> QED
  BY <1>1 DEF Ends, Standings

LEMMA ObeysStands ==
  ASSUME NEW q \in Standings, NEW cmd \in Byte, NEW b \in Byte
  PROVE  Obeys(q, cmd, b) \in Standings
BY DEF Obeys, Standings

LEMMA GoesToAReader ==
  ASSUME NEW p \in Readers, NEW b \in Byte
  PROVE  Goes(p, b) \in Readers
<1>1. p.q \in Standings /\ p.cmd \in Byte /\ IAC \in Byte
  BY CodesAreBytes DEF Readers
<1>2. /\ Takes(p.q, b) \in Standings /\ Takes(p.q, IAC) \in Standings
      /\ Ends(p.q, b) \in Standings /\ Obeys(p.q, p.cmd, b) \in Standings
  BY <1>1, TakesStands, EndsStands, ObeysStands
<1>3. Takes(Takes(p.q, IAC), b) \in Standings
  BY <1>2, TakesStands
<1> QED
  BY <1>1, <1>2, <1>3, PlainIsReader DEF Goes

LEMMA SaysRecords ==
  ASSUME NEW p \in Readers, NEW b \in Byte
  PROVE  Says(p, b) \in Seq(Results)
<1>1. RepairGdsRecordLength(p.q.rec) \in Results /\ Broken \in Results
  <2>1. p.q.rec \in Seq(Byte)
    BY DEF Readers, Standings
  <2> QED
    BY <2>1, RepairType DEF Results
<1>2. \A r \in Results : <<r>> \in Seq(Results)
  BY Alone
<1>3. <<>> \in Seq(Results)
  BY EmptySeq
<1> QED
  BY <1>1, <1>2, <1>3, Zenon DEF Says

LEMMA ReaderIsMachine == IsMachine(Reader)
<1>1. /\ [p \in Readers |-> [b \in Byte |-> Goes(p, b)]] \in [Readers -> [Byte -> Readers]]
      /\ [p \in Readers |-> [b \in Byte |-> Says(p, b)]] \in [Readers -> [Byte -> Seq(Results)]]
  BY GoesToAReader, SaysRecords
<1> QED
  BY <1>1 DEF IsMachine, Reader

LEMMA ReaderIs ==
  /\ Reader.states = Readers /\ Reader.reads = Byte /\ Reader.tells = Results
  /\ \A p \in Readers, b \in Byte :
       Reader.goes[p][b] = Goes(p, b) /\ Reader.says[p][b] = Says(p, b)
BY DEF Reader

-----------------------------------------------------------------------------
(* From one place between commands to another. *)

ReadsTo(q, bytes, results, r) == Leads(Reader, Plain(q), bytes, results, Plain(r))

LEMMA ReadsOn ==
  ASSUME NEW q \in Standings, NEW p \in Standings, NEW r \in Standings,
         NEW s, NEW t, NEW u, NEW v, ReadsTo(q, s, u, p), ReadsTo(p, t, v, r)
  PROVE  ReadsTo(q, s \o t, u \o v, r)
<1>1. Plain(q) \in Reader.states /\ Plain(p) \in Reader.states /\ Plain(r) \in Reader.states
  BY PlainIsReader, ReaderIs
<1> QED
  BY <1>1, ReaderIsMachine, LeadsOn DEF ReadsTo

LEMMA QuietlyReadsOn ==
  ASSUME NEW q \in Standings, NEW p \in Standings, NEW r \in Standings,
         NEW s, NEW t, NEW v, ReadsTo(q, s, <<>>, p), ReadsTo(p, t, v, r)
  PROVE  ReadsTo(q, s \o t, v, r)
<1>1. Plain(q) \in Reader.states /\ Plain(p) \in Reader.states /\ Plain(r) \in Reader.states
  BY PlainIsReader, ReaderIs
<1> QED
  BY <1>1, ReaderIsMachine, QuietlyLeadsOn DEF ReadsTo

LEMMA ReadsNothing == \A q \in Standings : ReadsTo(q, <<>>, <<>>, q)
BY PlainIsReader, ReaderIs, ReaderIsMachine, NothingLeads DEF ReadsTo

\* A byte that is not IAC.
LEMMA ByteRead ==
  ASSUME NEW q \in Standings, NEW b \in Byte, b # IAC
  PROVE  ReadsTo(q, <<b>>, IF q.sub \/ Collects(q) THEN <<>> ELSE <<Broken>>,
                 IF q.sub THEN q ELSE Takes(q, b))
<1>1. Plain(q) \in Readers /\ Plain(q).at = "Data" /\ Plain(q).q = q
  BY PlainIsReader DEF Plain
<1>2. Goes(Plain(q), b) = Plain(IF q.sub THEN q ELSE Takes(q, b))
  BY <1>1 DEF Goes
<1>3. Says(Plain(q), b) = IF q.sub \/ Collects(q) THEN <<>> ELSE <<Broken>>
  BY <1>1 DEF Says
<1>4. Leads(Reader, Plain(q), <<b>>, Says(Plain(q), b), Goes(Plain(q), b))
  <2>1. Leads(Reader, Plain(q), <<b>>, Reader.says[Plain(q)][b], Reader.goes[Plain(q)][b])
    BY <1>1, ReaderIs, ReaderIsMachine, OneLeads
  <2> QED
    BY <1>1, <2>1, ReaderIs
<1> QED
  BY <1>2, <1>3, <1>4, Zenon DEF ReadsTo

\* An IAC is kept in mind.
LEMMA IacRead ==
  ASSUME NEW q \in Standings
  PROVE  /\ Plain(q) \in Readers /\ BehindIac(q) \in Readers /\ IAC \in Byte
         /\ Goes(Plain(q), IAC) = BehindIac(q) /\ Says(Plain(q), IAC) = <<>>
<1>1. Plain(q) \in Readers /\ Plain(q).at = "Data" /\ Plain(q).q = q
  BY PlainIsReader DEF Plain
<1>2. BehindIac(q) \in Readers /\ IAC \in Byte /\ IAC # EOR
  BY PlainIsReader, CodesAreBytes DEF IAC, EOR
<1> QED
  BY <1>1, <1>2 DEF Goes, Says

LEMMA TwoRead ==
  ASSUME NEW q \in Standings, NEW b \in Byte, NEW r \in Standings, NEW u,
         Goes(BehindIac(q), b) = Plain(r), Says(BehindIac(q), b) = u
  PROVE  ReadsTo(q, <<IAC, b>>, u, r)
<1> DEFINE s == Plain(q)
           p == BehindIac(q)
<1>1. /\ s \in Readers /\ p \in Readers /\ IAC \in Byte
      /\ Goes(s, IAC) = p /\ Says(s, IAC) = <<>>
  BY IacRead
<1> HIDE DEF s, p
<1>2. Reader.goes[s][IAC] = p /\ Reader.says[s][IAC] = <<>>
  BY <1>1, ReaderIs
<1>3. Leads(Reader, s, <<IAC, b>>, Reader.says[p][b], Reader.goes[p][b])
  BY <1>1, <1>2, ReaderIs, ReaderIsMachine, TwoLead
<1>4. Reader.goes[p][b] = Plain(r) /\ Reader.says[p][b] = u
  BY <1>1, ReaderIs DEF p
<1> QED
  BY <1>3, <1>4 DEF ReadsTo, s

\* Two bytes: an IAC that was doubled, one that should have been, and a
\* command.
LEMMA EscapedRead ==
  ASSUME NEW q \in Standings, Collects(q)
  PROVE  ReadsTo(q, <<IAC, IAC>>, <<>>, Takes(q, IAC))
<1>1. BehindIac(q).at = "IAC" /\ BehindIac(q).q = q /\ IAC \in Byte /\ IAC # EOR
  BY CodesAreBytes DEF BehindIac, IAC, EOR
<1>2. Goes(BehindIac(q), IAC) = Plain(Takes(q, IAC)) /\ Says(BehindIac(q), IAC) = <<>>
  BY <1>1 DEF Goes, Says
<1> QED
  BY <1>1, <1>2, TwoRead, TakesStands

LEMMA UndoubledRead ==
  ASSUME NEW q \in Standings, NEW b \in Byte, b # IAC, IsData(q, b), Collects(q)
  PROVE  ReadsTo(q, <<IAC, b>>, <<>>, Takes(Takes(q, IAC), b))
<1>1. BehindIac(q).at = "IAC" /\ BehindIac(q).q = q /\ IAC \in Byte
  BY CodesAreBytes DEF BehindIac
<1>2. b # EOR
  BY DEF IsData, EOR
<1>3. Goes(BehindIac(q), b) = Plain(Takes(Takes(q, IAC), b)) /\ Says(BehindIac(q), b) = <<>>
  BY <1>1, <1>2 DEF Goes, Says
<1>4. Takes(Takes(q, IAC), b) \in Standings
  BY <1>1, TakesStands
<1> QED
  BY <1>3, <1>4, TwoRead

LEMMA StandaloneRead ==
  ASSUME NEW q \in Standings, NEW b \in Standalone, ~IsData(q, b)
  PROVE  ReadsTo(q, <<IAC, b>>,
                 IF b = EOR /\ Collects(q) /\ q.rec # <<>>
                 THEN <<RepairGdsRecordLength(q.rec)>> ELSE <<>>,
                 Ends(q, b))
<1>1. /\ BehindIac(q).at = "IAC" /\ BehindIac(q).q = q /\ b \in Byte /\ b # IAC
  BY DEF BehindIac, Standalone, EOR, GA, IAC, Byte
<1>2. Goes(BehindIac(q), b) = Plain(Ends(q, b))
  BY <1>1 DEF Goes
<1>3. Says(BehindIac(q), b) = IF b = EOR /\ Collects(q) /\ q.rec # <<>>
                              THEN <<RepairGdsRecordLength(q.rec)>> ELSE <<>>
  BY <1>1 DEF Says
<1>4. Ends(q, b) \in Standings
  BY <1>1, EndsStands
<1> QED
  BY <1>1, <1>2, <1>3, <1>4, TwoRead

\* Three bytes.
LEMMA ThreeRead ==
  ASSUME NEW q \in Standings, NEW b \in Byte, NEW c \in Byte,
         b \notin Standalone \cup {IAC}, ~IsData(q, b)
  PROVE  ReadsTo(q, <<IAC, b, c>>, <<>>, Obeys(q, b, c))
<1> DEFINE s == Plain(q)
           p == BehindIac(q)
           r == Behind(b, q)
<1>1. /\ s \in Readers /\ p \in Readers /\ IAC \in Byte
      /\ Goes(s, IAC) = p /\ Says(s, IAC) = <<>>
  BY IacRead
<1>2. /\ r \in Readers /\ r.at = "Command" /\ r.cmd = b /\ r.q = q
      /\ p.at = "IAC" /\ p.q = q
  BY PlainIsReader DEF Behind, BehindIac
<1>3. b # EOR
  BY DEF Standalone, EOR, GA
<1>4. Goes(p, b) = r /\ Says(p, b) = <<>>
  <2>1. Goes(p, b) = r
    BY <1>2 DEF Goes
  <2>2. Says(p, b) = <<>>
    BY <1>2, <1>3 DEF Says
  <2> QED
    BY <2>1, <2>2
<1>5. Goes(r, c) = Plain(Obeys(q, b, c)) /\ Says(r, c) = <<>>
  BY <1>2 DEF Goes, Says
<1> HIDE DEF s, p, r
<1>6. /\ Reader.goes[s][IAC] = p /\ Reader.says[s][IAC] = <<>>
      /\ Reader.goes[p][b] = r /\ Reader.says[p][b] = <<>>
      /\ Reader.goes[r][c] = Plain(Obeys(q, b, c)) /\ Reader.says[r][c] = <<>>
  BY <1>1, <1>2, <1>4, <1>5, ReaderIs
<1>7. Leads(Reader, s, <<IAC, b, c>>, Reader.says[r][c], Reader.goes[r][c])
  BY <1>1, <1>2, <1>6, ReaderIs, ReaderIsMachine, ThreeLead
<1> QED
  BY <1>6, <1>7 DEF ReadsTo, s

-----------------------------------------------------------------------------
(* A record is read, whichever way its 0xFF bytes were written. *)

\* Between records, and in one of which this was read.
Quiet == {q \in Standings : ~q.sub /\ q.rec = <<>>}

Within(q, record) == [q EXCEPT !.rec = record]

LEMMA WithinStands ==
  ASSUME NEW q \in Quiet, NEW record \in Seq(Byte)
  PROVE  /\ Within(q, record) \in Standings /\ Within(q, record).rec = record
         /\ ~Within(q, record).sub /\ Collects(Within(q, record)) = Collects(q)
BY DEF Within, Quiet, Standings, Collects

LEMMA WithinTakes ==
  ASSUME NEW q \in Quiet, Collects(q), NEW record \in Seq(Byte), NEW b \in Byte
  PROVE  Takes(Within(q, record), b) = Within(q, Append(record, b))
BY WithinStands DEF Takes, Within, Quiet, Standings

LEMMA WithinNothing == \A q \in Quiet : Within(q, <<>>) = q /\ q \in Standings
BY DEF Within, Quiet, Standings

\* One more byte of the record.
LEMMA NextByteRead ==
  ASSUME NEW q \in Quiet, Collects(q), NEW record \in Seq(Byte), NEW b \in Byte, NEW s,
         s = IF b = IAC THEN <<IAC, IAC>> ELSE <<b>>
  PROVE  ReadsTo(Within(q, record), s, <<>>, Within(q, Append(record, b)))
<1>1. /\ Within(q, record) \in Standings /\ ~Within(q, record).sub /\ Collects(Within(q, record))
      /\ Takes(Within(q, record), b) = Within(q, Append(record, b))
  BY WithinStands, WithinTakes
<1>2. CASE b = IAC
  BY <1>1, <1>2, EscapedRead
<1>3. CASE b # IAC
  <2>1. ReadsTo(Within(q, record), <<b>>,
                IF Within(q, record).sub \/ Collects(Within(q, record)) THEN <<>> ELSE <<Broken>>,
                IF Within(q, record).sub THEN Within(q, record) ELSE Takes(Within(q, record), b))
    BY <1>1, <1>3, ByteRead
  <2> QED
    BY <1>1, <1>3, <2>1, Zenon
<1> QED
  BY <1>2, <1>3

Doubled == [b \in Byte |-> IF b = IAC THEN <<IAC, IAC>> ELSE <<b>>]

LEMMA DoubledMaps == MapsInto(Doubled, Byte, Seq(Byte))
<1>1. \A b \in Byte : Doubled[b] \in Seq(Byte)
  BY CodesAreBytes DEF Doubled
<1> QED
  BY <1>1 DEF Doubled, MapsInto

LEMMA DoubledRead ==
  ASSUME NEW q \in Quiet, Collects(q), NEW record \in Seq(Byte)
  PROVE  ReadsTo(q, All(Doubled, record), <<>>, Within(q, record))
<1> DEFINE T == {r \in Seq(Byte) : ReadsTo(q, All(Doubled, r), <<>>, Within(q, r))}
<1>1. <<>> \in T
  <2>1. All(Doubled, <<>>) = <<>> /\ <<>> \in Seq(Byte)
    BY DoubledMaps, AllGrows, EmptySeq
  <2> QED
    BY <2>1, ReadsNothing, WithinNothing
<1>2. ASSUME NEW r \in Seq(Byte), NEW b \in Byte, r \in T
      PROVE  Append(r, b) \in T
  <2>1. All(Doubled, Append(r, b)) = All(Doubled, r) \o Doubled[b]
    BY DoubledMaps, AllGrows
  <2>2. ReadsTo(Within(q, r), Doubled[b], <<>>, Within(q, Append(r, b)))
    BY NextByteRead DEF Doubled
  <2>3. Append(r, b) \in Seq(Byte)
    BY AppendProperties
  <2>4. q \in Standings /\ Within(q, r) \in Standings /\ Within(q, Append(r, b)) \in Standings
    BY <2>3, WithinStands, WithinNothing
  <2>5. ReadsTo(q, All(Doubled, r), <<>>, Within(q, r))
    BY <1>2
  <2>6. ReadsTo(q, All(Doubled, r) \o Doubled[b], <<>>, Within(q, Append(r, b)))
    BY <2>2, <2>4, <2>5, QuietlyReadsOn
  <2> QED
    BY <2>1, <2>3, <2>6
<1>3. Seq(Byte) \subseteq T
  <2> HIDE DEF T
  <2> QED BY <1>1, <1>2, AppendInduction
<1> QED
  BY <1>3

\* What IsRecoverable asks for, of the beginning of a record.
IsReadable(record) ==
  \A i \in 1..(Len(record) - 1) : record[i] = IAC =>
    record[i + 1] \notin {IAC, EOR} /\ (i = 1 => record[2] < EOR)

EndsInIac(record) == record # <<>> /\ record[Len(record)] = IAC

LEMMA ReadableGrows ==
  ASSUME NEW r \in Seq(Byte), NEW b \in Byte, IsReadable(Append(r, b))
  PROVE  /\ IsReadable(r)
         /\ EndsInIac(r) => b \notin {IAC, EOR} /\ (Len(r) = 1 => b < EOR)
<1> DEFINE t == Append(r, b)
<1>1. /\ Len(t) = Len(r) + 1 /\ Len(r) \in Nat /\ t[Len(r) + 1] = b
      /\ \A i \in 1..Len(r) : t[i] = r[i]
  BY AppendProperties, LenProperties
<1>2. \A i \in 1..Len(r) : t[i] = IAC =>
        t[i + 1] \notin {IAC, EOR} /\ (i = 1 => t[2] < EOR)
  BY <1>1 DEF IsReadable
<1> HIDE DEF t
<1>3. IsReadable(r)
  BY <1>1, <1>2 DEF IsReadable
<1>4. ASSUME EndsInIac(r)
      PROVE  b \notin {IAC, EOR} /\ (Len(r) = 1 => b < EOR)
  <2>1. Len(r) \in 1..Len(r) /\ t[Len(r)] = IAC
    BY <1>1, <1>4, EmptySeq DEF EndsInIac
  <2> QED
    BY <1>1, <1>2, <2>1
<1> QED
  BY <1>3, <1>4

LEMMA UndoubledRecordRead ==
  ASSUME NEW q \in Quiet, Collects(q), NEW record \in Seq(Byte), IsReadable(record),
         ~EndsInIac(record)
  PROVE  ReadsTo(q, record, <<>>, Within(q, record))
<1> DEFINE Reached(r) == ReadsTo(q, r, <<>>, Within(q, r))
           T == {r \in Seq(Byte) : IsReadable(r) =>
                   IF EndsInIac(r) THEN \E p \in Seq(Byte) : r = Append(p, IAC) /\ Reached(p)
                   ELSE Reached(r)}
<1>1. <<>> \in T
  BY ReadsNothing, WithinNothing, EmptySeq DEF EndsInIac
<1>2. ASSUME NEW r \in Seq(Byte), NEW b \in Byte, r \in T
      PROVE  Append(r, b) \in T
  <2> DEFINE t == Append(r, b)
  <2>1. t \in Seq(Byte) /\ t # <<>> /\ t[Len(t)] = b
    <3>1. t \in Seq(Byte) /\ Len(t) = Len(r) + 1 /\ t[Len(r) + 1] = b /\ Len(r) \in Nat
      BY AppendProperties, LenProperties
    <3> HIDE DEF t
    <3> QED
      BY <3>1, EmptySeq
  <2>2. EndsInIac(t) <=> b = IAC
    <3> HIDE DEF t
    <3> QED BY <2>1 DEF EndsInIac
  <2>3. ASSUME IsReadable(t)
        PROVE  IF EndsInIac(t) THEN \E p \in Seq(Byte) : t = Append(p, IAC) /\ Reached(p)
               ELSE Reached(t)
    <3>1. /\ IsReadable(r)
          /\ EndsInIac(r) => b \notin {IAC, EOR} /\ (Len(r) = 1 => b < EOR)
      BY <2>3, ReadableGrows
    <3>2. CASE b = IAC
      <4>1. Reached(r)
        BY <1>2, <3>1, <3>2
      <4> HIDE DEF Reached
      <4> QED
        BY <2>2, <3>2, <4>1
    <3>3. CASE b # IAC /\ ~EndsInIac(r)
      <4>1. Reached(r)
        BY <1>2, <3>1, <3>3
      <4>2. ReadsTo(Within(q, r), <<b>>, <<>>, Within(q, t))
        BY <3>3, NextByteRead
      <4>3. q \in Standings /\ Within(q, r) \in Standings /\ Within(q, t) \in Standings
        BY <2>1, WithinStands, WithinNothing
      <4>4. t = r \o <<b>>
        BY AppendIsConcat
      <4> HIDE DEF t
      <4>5. ReadsTo(q, r \o <<b>>, <<>>, Within(q, t))
        BY <4>1, <4>2, <4>3, QuietlyReadsOn
      <4> QED
        BY <2>2, <3>3, <4>4, <4>5, Zenon
    <3>4. CASE b # IAC /\ EndsInIac(r)
      <4>1. PICK p \in Seq(Byte) : r = Append(p, IAC) /\ Reached(p)
        BY <1>2, <3>1, <3>4
      <4>2. Len(r) = Len(p) + 1 /\ Len(p) \in Nat /\ IAC \in Byte
        BY <4>1, CodesAreBytes, AppendProperties, LenProperties
      <4>3. /\ Within(q, p) \in Standings /\ Within(q, p).rec = p
            /\ ~Within(q, p).sub /\ Collects(Within(q, p))
        BY WithinStands
      <4>4. IsData(Within(q, p), b)
        <5>1. b \notin {IAC, EOR} /\ (p = <<>> => b < EOR)
          BY <3>1, <3>4, <4>2, EmptySeq
        <5> QED
          BY <4>3, <5>1 DEF IsData
      <4>5. Takes(Takes(Within(q, p), IAC), b) = Within(q, t)
        <5>1. Takes(Within(q, p), IAC) = Within(q, r) /\ r \in Seq(Byte)
          BY <4>1, <4>2, WithinTakes
        <5> QED
          BY <5>1, WithinTakes
      <4>6. ReadsTo(Within(q, p), <<IAC, b>>, <<>>, Within(q, t))
        BY <3>4, <4>3, <4>4, <4>5, UndoubledRead
      <4>7. q \in Standings /\ Within(q, t) \in Standings
        BY <2>1, WithinStands, WithinNothing
      <4>8. t = p \o <<IAC, b>>
        <5>1. t = r \o <<b>> /\ r = p \o <<IAC>>
          BY <4>1, <4>2, AppendIsConcat
        <5>2. <<IAC, b>> = <<IAC>> \o <<b>>
          BY <4>2, Joined
        <5>3. <<IAC>> \in Seq(Byte) /\ <<b>> \in Seq(Byte)
          BY <4>2, Alone
        <5>4. IsRegrouped(p, <<IAC>>, <<b>>)
          BY <5>3, Regroup
        <5> QED
          BY <5>1, <5>2, <5>4 DEF IsRegrouped
      <4> HIDE DEF t
      <4>9. ReadsTo(q, p \o <<IAC, b>>, <<>>, Within(q, t))
        BY <4>1, <4>3, <4>6, <4>7, QuietlyReadsOn
      <4> QED
        BY <2>2, <3>4, <4>8, <4>9, Zenon
    <3> QED
      BY <3>2, <3>3, <3>4
  <2> QED
    BY <2>1, <2>3
<1>3. Seq(Byte) \subseteq T
  <2> HIDE DEF T
  <2> QED BY <1>1, <1>2, AppendInduction
<1> QED
  BY <1>3

\* And IAC EOR ends the record.
LEMMA RecordEnds ==
  ASSUME NEW q \in Quiet, Collects(q), NEW record \in Seq(Byte), record # <<>>, NEW s,
         ReadsTo(q, s, <<>>, Within(q, record))
  PROVE  ReadsTo(q, s \o <<IAC, EOR>>, <<RepairGdsRecordLength(record)>>, q)
<1> DEFINE w == Within(q, record)
<1>1. /\ w \in Standings /\ w.rec = record /\ ~w.sub /\ Collects(w) /\ q \in Standings
  BY WithinStands, WithinNothing
<1>2. Ends(w, EOR) = q
  BY <1>1 DEF Ends, Within, Quiet, Standings
<1> HIDE DEF w
<1>3. EOR \in Standalone /\ ~IsData(w, EOR)
  BY DEF Standalone, EOR, GA, IsData
<1>4. ReadsTo(w, <<IAC, EOR>>, <<RepairGdsRecordLength(record)>>, q)
  <2>1. ReadsTo(w, <<IAC, EOR>>,
                IF EOR = EOR /\ Collects(w) /\ w.rec # <<>>
                THEN <<RepairGdsRecordLength(w.rec)>> ELSE <<>>, Ends(w, EOR))
    BY <1>1, <1>3, StandaloneRead, Zenon
  <2> QED
    BY <1>1, <1>2, <2>1, Zenon
<1>5. ReadsTo(q, s, <<>>, w)
  BY DEF w
<1> QED
  BY <1>1, <1>4, <1>5, QuietlyReadsOn

LEMMA EncodedRecordRead ==
  ASSUME NEW q \in Quiet, Collects(q), NEW record \in Seq(Byte), record # <<>>
  PROVE  ReadsTo(q, EncodeRecord(record), <<RepairGdsRecordLength(record)>>, q)
<1>1. Mapped(Doubled, record)
        = [i \in DOMAIN record |-> IF record[i] = IAC THEN <<IAC, IAC>> ELSE <<record[i]>>]
  <2>1. \A i \in DOMAIN record : record[i] \in Byte
    BY LenProperties, ElementOfSeq
  <2> QED
    BY <2>1 DEF Mapped, Doubled
<1>2. EncodeRecord(record) = All(Doubled, record) \o <<IAC, EOR>>
  BY <1>1 DEF EncodeRecord, All
<1> QED
  BY <1>2, DoubledRead, RecordEnds

LEMMA RecoverableRecordRead ==
  ASSUME NEW q \in Quiet, Collects(q), NEW record \in Seq(Byte), record # <<>>,
         IsRecoverable(record)
  PROVE  ReadsTo(q, record \o <<IAC, EOR>>, <<RepairGdsRecordLength(record)>>, q)
<1>1. Len(record) \in Nat \ {0} /\ DOMAIN record = 1..Len(record)
  BY LenProperties, EmptySeq
<1>2. \A i \in 1..Len(record) : record[i] = IAC =>
        /\ i < Len(record) /\ record[i + 1] \notin {IAC, EOR}
        /\ (i = 1 => record[2] < EOR)
  BY <1>1, Zenon DEF IsRecoverable
<1>3. IsReadable(record)
  BY <1>1, <1>2 DEF IsReadable
<1>4. ~EndsInIac(record)
  <2>1. Len(record) \in 1..Len(record) /\ ~(Len(record) < Len(record))
    BY <1>1
  <2> QED
    BY <1>2, <2>1 DEF EndsInIac
<1> QED
  BY <1>3, <1>4, UndoubledRecordRead, RecordEnds

-----------------------------------------------------------------------------
(* What a host may lead the negotiation with: requests, and                *)
(* subnegotiations without a 0xFF in them.                                 *)

Request(cmd, opt) ==
  [bytes |-> <<IAC, cmd, opt>>,
   frames |-> (cmd \in {WILL, DO} /\ opt = EndOfRecord), completes |-> FALSE]

Requests == {Request(cmd, opt) : cmd \in {WILL, WONT, DO, DONT}, opt \in Byte}

Subnegotiation(opt, body) == (<<IAC, SB, opt>> \o body) \o <<IAC, SE>>

Query(opt, body) ==
  [bytes |-> Subnegotiation(opt, body),
   frames |-> FALSE, completes |-> (opt = TerminalType)]

Queries == {Query(opt, body) : opt \in Byte, body \in Seq(Byte \ {IAC})}

Pieces == Requests \cup Queries

PieceBytes == [piece \in Pieces |-> piece.bytes]

\* What every segment of the negotiation is made of.  It puts EOR into force
\* and asks for the terminal type.
IsMadeOf(pieces) ==
  /\ pieces \in [Handshake -> Seq(Pieces)]
  /\ \A segment \in Handshake : segment = All(PieceBytes, pieces[segment])
  /\ \E segment \in Handshake : \E i \in 1..Len(pieces[segment]) : pieces[segment][i].frames
  /\ \E segment \in Handshake : \E i \in 1..Len(pieces[segment]) : pieces[segment][i].completes

Negotiates == \E pieces : IsMadeOf(pieces)

PiecesOf == CHOOSE pieces : IsMadeOf(pieces)

Frames(segment)    == \E i \in 1..Len(PiecesOf[segment]) : PiecesOf[segment][i].frames
Completes(segment) == \E i \in 1..Len(PiecesOf[segment]) : PiecesOf[segment][i].completes

\* Nothing is data between records above EOR.
LEMMA NoDataBetween ==
  ASSUME NEW q \in Quiet, NEW b \in Byte, b >= EOR
  PROVE  ~IsData(q, b)
BY CodesAreBytes DEF IsData, Quiet, EOR, Byte

LEMMA NopRead ==
  ASSUME NEW q \in Quiet
  PROVE  ReadsTo(q, <<IAC, NOP>>, <<>>, q)
<1>1. NOP \in Standalone /\ NOP \in Byte /\ NOP >= EOR /\ NOP # EOR /\ NOP # SE
  BY DEF NOP, Standalone, EOR, GA, SE, Byte
<1>2. q \in Standings /\ ~IsData(q, NOP)
  BY <1>1, NoDataBetween DEF Quiet
<1>3. Ends(q, NOP) = q
  BY <1>1 DEF Ends
<1>4. ReadsTo(q, <<IAC, NOP>>, IF NOP = EOR /\ Collects(q) /\ q.rec # <<>>
                              THEN <<RepairGdsRecordLength(q.rec)>> ELSE <<>>, Ends(q, NOP))
  BY <1>1, <1>2, StandaloneRead
<1> QED
  BY <1>1, <1>3, <1>4

LEMMA RequestRead ==
  ASSUME NEW q \in Quiet, NEW piece \in Requests
  PROVE  \E r \in Quiet : /\ ReadsTo(q, piece.bytes, <<>>, r)
                          /\ (q.eor \/ piece.frames => r.eor)
                          /\ (q.complete \/ piece.completes => r.complete)
<1>1. PICK cmd \in {WILL, WONT, DO, DONT}, opt \in Byte :
        piece = Request(cmd, opt)
  BY DEF Requests
<1>2. cmd \in Byte /\ cmd \notin Standalone \cup {IAC} /\ cmd # SB /\ cmd >= EOR
  BY DEF WILL, WONT, DO, DONT, Standalone, EOR, GA, IAC, SB, Byte
<1>3. q \in Standings /\ ~IsData(q, cmd)
  BY <1>2, NoDataBetween DEF Quiet
<1>4. ReadsTo(q, <<IAC, cmd, opt>>, <<>>, Obeys(q, cmd, opt))
  BY <1>2, <1>3, ThreeRead
<1>5. /\ Obeys(q, cmd, opt) \in Quiet /\ Obeys(q, cmd, opt).complete = q.complete
      /\ (q.eor \/ piece.frames => Obeys(q, cmd, opt).eor)
  BY <1>1, <1>2 DEF Obeys, Quiet, Standings, Request
<1>6. piece.bytes = <<IAC, cmd, opt>> /\ piece.completes = FALSE
  BY <1>1 DEF Request
<1> QED
  BY <1>4, <1>5, <1>6

LEMMA BodyRead ==
  ASSUME NEW q \in Standings, q.sub, NEW body \in Seq(Byte \ {IAC})
  PROVE  ReadsTo(q, body, <<>>, q)
<1> DEFINE T == {s \in Seq(Byte \ {IAC}) : ReadsTo(q, s, <<>>, q)}
<1>1. <<>> \in T
  BY ReadsNothing, EmptySeq
<1>2. ASSUME NEW s \in Seq(Byte \ {IAC}), NEW b \in Byte \ {IAC}, s \in T
      PROVE  Append(s, b) \in T
  <2>1. ReadsTo(q, <<b>>, IF q.sub \/ Collects(q) THEN <<>> ELSE <<Broken>>,
                IF q.sub THEN q ELSE Takes(q, b))
    BY ByteRead
  <2>2. ReadsTo(q, <<b>>, <<>>, q)
    BY <2>1, Zenon
  <2>3. ReadsTo(q, s \o <<b>>, <<>>, q)
    BY <1>2, <2>2, QuietlyReadsOn
  <2>4. Append(s, b) = s \o <<b>> /\ Append(s, b) \in Seq(Byte \ {IAC})
    BY AppendIsConcat, AppendProperties
  <2> QED
    BY <2>3, <2>4
<1>3. Seq(Byte \ {IAC}) \subseteq T
  <2> HIDE DEF T
  <2> QED BY <1>1, <1>2, AppendInduction
<1> QED
  BY <1>3

LEMMA QueryRead ==
  ASSUME NEW q \in Quiet, NEW piece \in Queries
  PROVE  \E r \in Quiet : /\ ReadsTo(q, piece.bytes, <<>>, r)
                          /\ (q.eor \/ piece.frames => r.eor)
                          /\ (q.complete \/ piece.completes => r.complete)
<1>1. PICK opt \in Byte, body \in Seq(Byte \ {IAC}) :
        piece = Query(opt, body)
  BY DEF Queries
<1> DEFINE p == Obeys(q, SB, opt)
           r == Ends(p, SE)
<1>2. /\ SB \in Byte /\ SB \notin Standalone \cup {IAC} /\ SB \notin {WILL, DO} /\ SB >= EOR
      /\ SE \in Byte /\ SE \in Standalone /\ SE # EOR
  BY DEF WILL, DO, Standalone, EOR, GA, IAC, SB, SE, Byte
<1>3. q \in Standings /\ ~IsData(q, SB)
  BY <1>2, NoDataBetween DEF Quiet
<1>4. /\ p \in Standings /\ p.sub /\ p.rec = <<>> /\ p.eor = q.eor /\ p.complete = q.complete
      /\ p.cur = opt
  BY <1>2 DEF Obeys, Quiet, Standings
<1>5. ReadsTo(q, <<IAC, SB, opt>>, <<>>, p)
  BY <1>2, <1>3, ThreeRead
<1> HIDE DEF p
<1>6. /\ r \in Quiet /\ r \in Standings /\ r.eor = q.eor
      /\ r.complete = (q.complete \/ opt = TerminalType)
  BY <1>2, <1>4 DEF Ends, Quiet, Standings
<1>7. ReadsTo(p, <<IAC, SE>>, <<>>, r)
  <2>1. ~IsData(p, SE)
    BY <1>4 DEF IsData
  <2>2. ReadsTo(p, <<IAC, SE>>, IF SE = EOR /\ Collects(p) /\ p.rec # <<>>
                              THEN <<RepairGdsRecordLength(p.rec)>> ELSE <<>>, Ends(p, SE))
    BY <1>2, <1>4, <2>1, StandaloneRead
  <2> QED
    BY <1>2, <2>2
<1> HIDE DEF r
<1>8. ReadsTo(p, body, <<>>, p)
  BY <1>4, BodyRead
<1>9. ReadsTo(q, <<IAC, SB, opt>> \o body, <<>>, p)
  BY <1>3, <1>4, <1>5, <1>8, QuietlyReadsOn
<1>10. ReadsTo(q, Subnegotiation(opt, body), <<>>, r)
  BY <1>3, <1>4, <1>6, <1>7, <1>9, QuietlyReadsOn DEF Subnegotiation
<1>11. piece.bytes = Subnegotiation(opt, body) /\ piece.frames = FALSE
       /\ piece.completes = (opt = TerminalType)
  BY <1>1 DEF Query
<1> QED
  BY <1>6, <1>10, <1>11

LEMMA PieceRead ==
  ASSUME NEW q \in Quiet, NEW piece \in Pieces
  PROVE  \E r \in Quiet : /\ ReadsTo(q, piece.bytes, <<>>, r)
                          /\ (q.eor \/ piece.frames => r.eor)
                          /\ (q.complete \/ piece.completes => r.complete)
BY RequestRead, QueryRead DEF Pieces

LEMMA PieceMaps == MapsInto(PieceBytes, Pieces, Seq(Byte))
<1>1. \A piece \in Requests : piece.bytes \in Seq(Byte)
  <2>1. IAC \in Byte /\ \A cmd \in {WILL, WONT, DO, DONT} : cmd \in Byte
    BY CodesAreBytes
  <2> QED
    BY <2>1 DEF Requests, Request
<1>2. \A piece \in Queries : piece.bytes \in Seq(Byte)
  <2>1. ASSUME NEW opt \in Byte, NEW body \in Seq(Byte \ {IAC})
        PROVE  Subnegotiation(opt, body) \in Seq(Byte)
    <3>1. body \in Seq(Byte)
      BY SeqMonotonic
    <3>2. <<IAC, SB, opt>> \in Seq(Byte) /\ <<IAC, SE>> \in Seq(Byte)
      BY CodesAreBytes
    <3> QED
      BY <3>1, <3>2, ConcatProperties DEF Subnegotiation
  <2> QED
    BY <2>1 DEF Queries, Query
<1> QED
  BY <1>1, <1>2 DEF MapsInto, PieceBytes, Pieces

LEMMA PiecesRead ==
  ASSUME NEW q \in Quiet, NEW segment, NEW ps \in Seq(Pieces), segment = All(PieceBytes, ps)
  PROVE  \E r \in Quiet : /\ ReadsTo(q, segment, <<>>, r)
                          /\ (q.eor \/ (\E i \in 1..Len(ps) : ps[i].frames)) => r.eor
                          /\ (q.complete \/ (\E i \in 1..Len(ps) : ps[i].completes)) => r.complete
<1> DEFINE Leaves(s, r) ==
             /\ ReadsTo(q, All(PieceBytes, s), <<>>, r)
             /\ (q.eor \/ (\E i \in 1..Len(s) : s[i].frames)) => r.eor
             /\ (q.complete \/ (\E i \in 1..Len(s) : s[i].completes)) => r.complete
           T == {s \in Seq(Pieces) : \E r \in Quiet : Leaves(s, r)}
<1>1. <<>> \in T
  <2>1. All(PieceBytes, <<>>) = <<>> /\ <<>> \in Seq(Pieces) /\ Len(<<>>) = 0
    BY PieceMaps, AllGrows, EmptySeq
  <2>2. ReadsTo(q, <<>>, <<>>, q)
    BY ReadsNothing DEF Quiet
  <2> QED
    BY <2>1, <2>2
<1>2. ASSUME NEW s \in Seq(Pieces), NEW piece \in Pieces, s \in T
      PROVE  Append(s, piece) \in T
  <2> DEFINE t == Append(s, piece)
  <2>1. PICK p \in Quiet : Leaves(s, p)
    BY <1>2
  <2>2. PICK r \in Quiet : /\ ReadsTo(p, piece.bytes, <<>>, r)
                           /\ (p.eor \/ piece.frames => r.eor)
                           /\ (p.complete \/ piece.completes => r.complete)
    BY PieceRead
  <2>3. /\ t \in Seq(Pieces) /\ Len(t) = Len(s) + 1 /\ Len(s) \in Nat /\ t[Len(s) + 1] = piece
        /\ \A i \in 1..Len(s) : t[i] = s[i]
    BY AppendProperties, LenProperties
  <2>4. All(PieceBytes, t) = All(PieceBytes, s) \o piece.bytes
    <3>1. All(PieceBytes, t) = All(PieceBytes, s) \o PieceBytes[piece]
      BY PieceMaps, AllGrows
    <3> QED
      BY <3>1 DEF PieceBytes
  <2> HIDE DEF t
  <2>5. ReadsTo(q, All(PieceBytes, t), <<>>, r)
    BY <2>1, <2>2, <2>4, QuietlyReadsOn DEF Quiet
  <2>6. \A i \in 1..Len(t) : i \in 1..Len(s) \/ t[i] = piece
    BY <2>3
  <2>7. (q.eor \/ (\E i \in 1..Len(t) : t[i].frames)) => r.eor
    BY <2>1, <2>2, <2>3, <2>6
  <2>8. (q.complete \/ (\E i \in 1..Len(t) : t[i].completes)) => r.complete
    BY <2>1, <2>2, <2>3, <2>6
  <2>9. \E w \in Quiet : Leaves(t, w)
    BY <2>5, <2>7, <2>8
  <2> QED
    BY <2>3, <2>9 DEF t
<1>3. Seq(Pieces) \subseteq T
  <2> HIDE DEF T
  <2> QED BY <1>1, <1>2, AppendInduction
<1> QED
  BY <1>3

LEMMA SegmentsAre ==
  ASSUME Negotiates
  PROVE  /\ \A segment \in Handshake : /\ PiecesOf[segment] \in Seq(Pieces)
                                       /\ segment = All(PieceBytes, PiecesOf[segment])
         /\ \E segment \in Handshake : Frames(segment)
         /\ \E segment \in Handshake : Completes(segment)
<1>1. IsMadeOf(PiecesOf)
  BY DEF Negotiates, PiecesOf
<1> HIDE DEF PiecesOf
<1> QED
  BY <1>1 DEF IsMadeOf, Frames, Completes

LEMMA SegmentRead ==
  ASSUME Negotiates, NEW q \in Quiet, NEW segment \in Handshake
  PROVE  /\ segment \in Seq(Byte)
         /\ \E r \in Quiet : /\ ReadsTo(q, segment, <<>>, r)
                             /\ q.eor \/ Frames(segment) => r.eor
                             /\ q.complete \/ Completes(segment) => r.complete
<1>1. PiecesOf[segment] \in Seq(Pieces) /\ segment = All(PieceBytes, PiecesOf[segment])
  BY SegmentsAre
<1>2. All(PieceBytes, PiecesOf[segment]) \in Seq(Byte)
  BY <1>1, PieceMaps, AllGrows
<1> QED
  BY <1>1, <1>2, PiecesRead DEF Frames, Completes

LEMMA PiecesHold ==
  /\ \A cmd \in {WILL, WONT, DO, DONT}, opt \in Byte : Request(cmd, opt) \in Pieces
  /\ \A opt \in Byte, body \in Seq(Byte \ {IAC}) : Query(opt, body) \in Pieces
BY DEF Pieces, Requests, Queries

LEMMA OnePiece ==
  ASSUME NEW piece \in Pieces
  PROVE  <<piece>> \in Seq(Pieces) /\ All(PieceBytes, <<piece>>) = piece.bytes
<1> DEFINE none == <<>>
<1>1. Append(none, piece) = <<piece>> /\ none \in Seq(Pieces) /\ <<piece>> \in Seq(Pieces)
  BY EmptySeq
<1> HIDE DEF none
<1>2. All(PieceBytes, Append(none, piece)) = All(PieceBytes, none) \o PieceBytes[piece]
  <2>1. ASSUME NEW s \in Seq(Pieces)
        PROVE  All(PieceBytes, Append(s, piece)) = All(PieceBytes, s) \o PieceBytes[piece]
    BY PieceMaps, AllGrows
  <2>2. none \in Seq(Pieces)
    BY <1>1
  <2> QED
    BY <2>1, <2>2
<1>3. All(PieceBytes, <<>>) = <<>>
  BY <1>1, PieceMaps, AllGrows
<1>4. PieceBytes[piece] \in Seq(Byte) /\ PieceBytes[piece] = piece.bytes
  BY PieceMaps DEF MapsInto, PieceBytes
<1>5. <<>> \o PieceBytes[piece] = PieceBytes[piece]
  BY <1>4, ConcatEmptySeq
<1> QED
  BY <1>1, <1>2, <1>3, <1>4, <1>5 DEF none

\* The hypothesis is met by what an AS/400 does, which negotiates BINARY and
\* EOR and asks for the terminal type.
LEMMA UsualNegotiation ==
  ASSUME Handshake = {<<IAC, DO, TransmitBinary>>, <<IAC, WILL, EndOfRecord>>,
                      Subnegotiation(TerminalType, << 1 >>)}
  PROVE  Negotiates
<1> DEFINE b1 == <<IAC, DO, TransmitBinary>>
           b2 == <<IAC, WILL, EndOfRecord>>
           b3 == Subnegotiation(TerminalType, <<1>>)
           p1 == Request(DO, TransmitBinary)
           p2 == Request(WILL, EndOfRecord)
           p3 == Query(TerminalType, <<1>>)
           pieces == [segment \in Handshake |-> IF segment = b1 THEN <<p1>>
                                                ELSE IF segment = b2 THEN <<p2>> ELSE <<p3>>]
<1>1. p1 \in Pieces /\ p2 \in Pieces
  <2>1. /\ DO \in {WILL, WONT, DO, DONT} /\ WILL \in {WILL, WONT, DO, DONT}
        /\ TransmitBinary \in Byte /\ EndOfRecord \in Byte
    BY DEF TransmitBinary, EndOfRecord, Byte
  <2> QED
    BY <2>1, PiecesHold, Zenon
<1>2. p3 \in Pieces
  <2>1. TerminalType \in Byte /\ 1 \in Byte \ {IAC}
    BY CodesAreBytes DEF Byte, IAC
  <2>2. <<1>> \in Seq(Byte \ {IAC})
    BY <2>1, Alone
  <2> QED
    BY <2>1, <2>2, PiecesHold, Zenon
<1>3. b1 # b2 /\ b1 # b3 /\ b2 # b3
  <2>1. b1 # b2 /\ Len(b1) = 3 /\ Len(b2) = 3
    BY DEF DO, WILL
  <2>2. Len(b3) = 6
    <3>1. /\ <<IAC, SB, TerminalType>> \in Seq(Byte) /\ <<1>> \in Seq(Byte)
          /\ <<IAC, SE>> \in Seq(Byte)
      BY CodesAreBytes DEF Byte
    <3>2. /\ Len(<<IAC, SB, TerminalType>>) = 3 /\ Len(<<1>>) = 1 /\ Len(<<IAC, SE>>) = 2
      OBVIOUS
    <3>3. /\ <<IAC, SB, TerminalType>> \o <<1>> \in Seq(Byte)
          /\ Len(<<IAC, SB, TerminalType>> \o <<1>>) = 4
      BY <3>1, <3>2, ConcatProperties
    <3>4. Len((<<IAC, SB, TerminalType>> \o <<1>>) \o <<IAC, SE>>) = 4 + 2
      BY <3>1, <3>2, <3>3, ConcatProperties
    <3> QED
      BY <3>4 DEF Subnegotiation
  <2> HIDE DEF b1, b2, b3
  <2> QED
    BY <2>1, <2>2
<1>4. Handshake = {b1, b2, b3}
  OBVIOUS
<1>5. /\ p1.bytes = b1 /\ p2.bytes = b2 /\ p3.bytes = b3 /\ p2.frames /\ p3.completes
  BY DEF Request, Query
<1> HIDE DEF b1, b2, b3, p1, p2, p3
<1>6. /\ pieces[b1] = <<p1>> /\ pieces[b2] = <<p2>> /\ pieces[b3] = <<p3>>
      /\ DOMAIN pieces = Handshake /\ pieces = [segment \in Handshake |-> pieces[segment]]
  BY <1>3, <1>4
<1>7. \A piece \in {p1, p2, p3} :
        /\ <<piece>> \in Seq(Pieces) /\ All(PieceBytes, <<piece>>) = piece.bytes
        /\ Len(<<piece>>) = 1 /\ <<piece>>[1] = piece
  BY <1>1, <1>2, OnePiece
<1> HIDE DEF pieces
<1>8. IsMadeOf(pieces)
  <2>1. pieces \in [Handshake -> Seq(Pieces)]
    BY <1>4, <1>6, <1>7
  <2>2. \A segment \in Handshake : segment = All(PieceBytes, pieces[segment])
    BY <1>4, <1>5, <1>6, <1>7
  <2>3. /\ b2 \in Handshake /\ 1 \in 1..Len(pieces[b2]) /\ pieces[b2][1].frames
        /\ b3 \in Handshake /\ 1 \in 1..Len(pieces[b3]) /\ pieces[b3][1].completes
    <3>1. pieces[b2][1] = p2 /\ Len(pieces[b2]) = 1 /\ pieces[b3][1] = p3 /\ Len(pieces[b3]) = 1
      BY <1>6, <1>7
    <3> QED
      BY <1>4, <1>5, <3>1
  <2> QED
    BY <2>1, <2>2, <2>3, Zenon DEF IsMadeOf
<1> QED
  BY <1>8 DEF Negotiates

-----------------------------------------------------------------------------
(* The invariant. *)

Standing ==
  [complete |-> handshakeComplete, eor |-> eorNegotiated, sub |-> inSubnegotiation,
   cur |-> currentSubnegotiation, rec |-> recordBuffer]

\* Where the handler will stand when it has read all that was written: what
\* was negotiated so far is in force there.
Negotiated(host) ==
  \A segment \in Handshake \ negotiating :
    (Frames(segment) => host.eor) /\ (Completes(segment) => host.complete)

\* Whatever the host goes on to write: the records it sent are those that were
\* delivered and those the handler is still going to find in the bytes that
\* are on their way.
Owes(host) ==
  \A x \in Seq(Byte) :
    sentRecords \o Told(Reader, Plain(host), x)
      = delivered \o Told(Reader, Plain(Standing), (receiveBuffer \o wire) \o x)

Serving(host) ==
  IInv /\ processed = <<>> /\ sentRecords \in Seq(Seq(Byte)) /\ host \in Quiet /\ Owes(host)

SessionInv ==
  /\ negotiating \subseteq Handshake
  /\ \E host : Serving(host) /\ Negotiated(host)

LEMMA StandingIsOne == TypeOK => Standing \in Standings
BY DEF Standing, Standings, TypeOK

\* What is at the head of the buffer is read.
LEMMA Heads ==
  ASSUME NEW S, NEW s \in Seq(S)
  PROVE  /\ Len(s) >= 1 => s = <<s[1]>> \o SubSeq(s, 2, Len(s))
         /\ Len(s) >= 2 => s = <<s[1], s[2]>> \o SubSeq(s, 3, Len(s))
         /\ Len(s) >= 3 => s = <<s[1], s[2], s[3]>> \o SubSeq(s, 4, Len(s))
<1>1. Len(s) \in Nat /\ SubSeq(s, 1, Len(s)) = s
  BY LenProperties, SubSeqFull
<1>2. ASSUME NEW k \in 1..Len(s)
      PROVE  s = SubSeq(s, 1, k) \o SubSeq(s, k + 1, Len(s))
  <2>1. 1 \in 1..(Len(s) + 1) /\ k \in (1 - 1)..Len(s) /\ Len(s) \in k..Len(s)
    BY <1>1
  <2> QED
    BY <1>1, <2>1, ConcatAdjacentSubSeq
<1>3. \A i \in 1..Len(s) : s[i] \in S
  BY ElementOfSeq
<1>4. ASSUME NEW k \in 1..Len(s)
      PROVE  /\ SubSeq(s, 1, k) \in Seq(S) /\ Len(SubSeq(s, 1, k)) = k
             /\ \A i \in 1..k : SubSeq(s, 1, k)[i] = s[i]
  <2>1. 1 \in Int /\ k \in Int /\ \A i \in 1..k : s[i] \in S
    BY <1>1, <1>3
  <2> DEFINE u == SubSeq(s, 1, k)
  <2>2. /\ u \in Seq(S) /\ Len(u) = IF 1 <= k THEN k - 1 + 1 ELSE 0
        /\ \A i \in 1..(k - 1 + 1) : u[i] = s[1 + i - 1]
    BY <2>1, SubSeqProperties
  <2> HIDE DEF u
  <2>3. \A i \in 1..k : i \in 1..(k - 1 + 1) /\ 1 + i - 1 = i
    BY <1>1
  <2>4. \A i \in 1..k : u[i] = s[i]
    BY <2>2, <2>3
  <2>5. Len(u) = k
    BY <1>1, <2>2
  <2> QED
    BY <2>2, <2>4, <2>5 DEF u
<1>5. ASSUME Len(s) >= 1
      PROVE  SubSeq(s, 1, 1) = <<s[1]>>
  <2> DEFINE u == SubSeq(s, 1, 1)
             v == <<s[1]>>
  <2>1. 1 \in 1..Len(s) /\ v \in Seq(S) /\ Len(v) = 1 /\ v[1] = s[1]
    BY <1>1, <1>3, <1>5
  <2>2. u \in Seq(S) /\ Len(u) = 1 /\ \A i \in 1..1 : u[i] = s[i]
    BY <1>4, <2>1
  <2> HIDE DEF u, v
  <2>3. \A i \in 1..Len(u) : u[i] = v[i]
    BY <2>1, <2>2
  <2>4. u = v
    BY <2>1, <2>2, <2>3, SeqEqual
  <2> QED
    BY <2>4 DEF u, v
<1>6. ASSUME Len(s) >= 2
      PROVE  SubSeq(s, 1, 2) = <<s[1], s[2]>>
  <2> DEFINE u == SubSeq(s, 1, 2)
             v == <<s[1], s[2]>>
  <2>1. 2 \in 1..Len(s) /\ v \in Seq(S) /\ Len(v) = 2 /\ v[1] = s[1] /\ v[2] = s[2]
    BY <1>1, <1>3, <1>6
  <2>2. u \in Seq(S) /\ Len(u) = 2 /\ \A i \in 1..2 : u[i] = s[i]
    BY <1>4, <2>1
  <2> HIDE DEF u, v
  <2>3. \A i \in 1..Len(u) : u[i] = v[i]
    BY <2>1, <2>2
  <2>4. u = v
    BY <2>1, <2>2, <2>3, SeqEqual
  <2> QED
    BY <2>4 DEF u, v
<1>7. ASSUME Len(s) >= 3
      PROVE  SubSeq(s, 1, 3) = <<s[1], s[2], s[3]>>
  <2> DEFINE u == SubSeq(s, 1, 3)
             v == <<s[1], s[2], s[3]>>
  <2>1. /\ 3 \in 1..Len(s) /\ v \in Seq(S) /\ Len(v) = 3
        /\ v[1] = s[1] /\ v[2] = s[2] /\ v[3] = s[3]
    BY <1>1, <1>3, <1>7
  <2>2. u \in Seq(S) /\ Len(u) = 3 /\ \A i \in 1..3 : u[i] = s[i]
    BY <1>4, <2>1
  <2> HIDE DEF u, v
  <2>3. \A i \in 1..Len(u) : u[i] = v[i]
    BY <2>1, <2>2
  <2>4. u = v
    BY <2>1, <2>2, <2>3, SeqEqual
  <2> QED
    BY <2>4 DEF u, v
<1>8. /\ Len(s) >= 1 => s = SubSeq(s, 1, 1) \o SubSeq(s, 1 + 1, Len(s))
      /\ Len(s) >= 2 => s = SubSeq(s, 1, 2) \o SubSeq(s, 2 + 1, Len(s))
      /\ Len(s) >= 3 => s = SubSeq(s, 1, 3) \o SubSeq(s, 3 + 1, Len(s))
  <2>1. /\ Len(s) >= 1 => 1 \in 1..Len(s)
        /\ Len(s) >= 2 => 2 \in 1..Len(s)
        /\ Len(s) >= 3 => 3 \in 1..Len(s)
    BY <1>1
  <2> QED
    BY <1>2, <2>1
<1>9. 1 + 1 = 2 /\ 2 + 1 = 3 /\ 3 + 1 = 4
  OBVIOUS
<1>10. Len(s) >= 1 => s = <<s[1]>> \o SubSeq(s, 2, Len(s))
  BY <1>5, <1>8, <1>9
<1>11. Len(s) >= 2 => s = <<s[1], s[2]>> \o SubSeq(s, 3, Len(s))
  BY <1>6, <1>8, <1>9
<1>12. Len(s) >= 3 => s = <<s[1], s[2], s[3]>> \o SubSeq(s, 4, Len(s))
  BY <1>7, <1>8, <1>9
<1> QED
  BY <1>10, <1>11, <1>12

\* A step that reads bytes, as the reader does.
Reading(bytes, results) ==
  /\ bytes \in Seq(Byte) /\ receiveBuffer = bytes \o receiveBuffer'
  /\ ReadsTo(Standing, bytes, results, Standing')
  /\ delivered' = delivered \o results

LEMMA ReadingKeeps ==
  ASSUME TypeOK, TypeOK', NEW host \in Quiet, Owes(host),
         UNCHANGED <<sentRecords, wire>>, NEW bytes, NEW results, Reading(bytes, results)
  PROVE  Owes(host)'
<1>1. /\ bytes \in Seq(Byte) /\ results \in Seq(Results)
      /\ receiveBuffer' \in Seq(Byte) /\ wire \in Seq(Byte) /\ wire' = wire
      /\ Standing \in Standings /\ Standing' \in Standings
      /\ delivered \in Seq(Seq(Byte))
  <2>1. bytes \in Seq(Byte) /\ results \in Seq(Results)
    BY ReaderIs DEF Reading, ReadsTo, Leads
  <2>2. Standing \in Standings /\ Standing' \in Standings
    BY DEF Standing, Standings, TypeOK
  <2> QED
    BY <2>1, <2>2 DEF TypeOK
<1>2. delivered \in Seq(Results)
  BY <1>1, SeqMonotonic DEF Results
<1>3. ASSUME NEW x \in Seq(Byte)
      PROVE  sentRecords' \o Told(Reader, Plain(host), x)
               = delivered' \o Told(Reader, Plain(Standing'), (receiveBuffer' \o wire') \o x)
  <2> DEFINE rest == (receiveBuffer' \o wire') \o x
             after == Told(Reader, Plain(Standing'), rest)
  <2>1. receiveBuffer' \o wire' \in Seq(Byte) /\ rest \in Seq(Byte)
    BY <1>1, ConcatProperties
  <2>2. after \in Seq(Results)
    <3> HIDE DEF rest
    <3> QED BY <1>1, <2>1, PlainIsReader, ReaderIs, ReaderIsMachine, ToldOf
  <2>3. (receiveBuffer \o wire) \o x = bytes \o rest
    <3>1. /\ IsRegrouped(bytes, receiveBuffer', wire)
          /\ IsRegrouped(bytes, receiveBuffer' \o wire, x)
      BY <1>1, <2>1, Regroup
    <3>2. receiveBuffer = bytes \o receiveBuffer'
      BY DEF Reading
    <3> QED
      BY <1>1, <3>1, <3>2 DEF IsRegrouped
  <2>4. Told(Reader, Plain(Standing), bytes \o rest) = results \o after
    <3> HIDE DEF rest
    <3> QED BY <2>1, ReaderIs DEF Reading, ReadsTo, Leads
  <2>5. sentRecords \o Told(Reader, Plain(host), x)
          = delivered \o Told(Reader, Plain(Standing), (receiveBuffer \o wire) \o x)
    BY DEF Owes
  <2>6. IsRegrouped(delivered, results, after)
    BY <1>1, <1>2, <2>2, Regroup
  <2>7. delivered' = delivered \o results /\ sentRecords' = sentRecords
    BY DEF Reading
  <2> HIDE DEF rest, after
  <2>8. sentRecords' \o Told(Reader, Plain(host), x) = delivered' \o after
    BY <2>3, <2>4, <2>5, <2>6, <2>7 DEF IsRegrouped
  <2> QED
    BY <2>8 DEF after, rest
<1> QED
  BY <1>3 DEF Owes

\* The handler never finds data outside of records.
LEMMA NeverBroken ==
  ASSUME TypeOK, sentRecords \in Seq(Seq(Byte)), NEW host \in Quiet, Owes(host),
         NEW bytes \in Seq(Byte), NEW rest \in Seq(Byte), receiveBuffer = bytes \o rest,
         NEW r \in Standings
  PROVE  ~ReadsTo(Standing, bytes, <<Broken>>, r)
<1> SUFFICES ASSUME ReadsTo(Standing, bytes, <<Broken>>, r) PROVE FALSE
  OBVIOUS
<1> DEFINE after == Told(Reader, Plain(r), rest \o wire)
<1>1. wire \in Seq(Byte) /\ Standing \in Standings /\ rest \o wire \in Seq(Byte)
      /\ delivered \in Seq(Seq(Byte)) /\ host \in Standings
  BY StandingIsOne, ConcatProperties DEF TypeOK, Quiet
<1>2. after \in Seq(Results)
  BY <1>1, PlainIsReader, ReaderIs, ReaderIsMachine, ToldOf
<1>3. (receiveBuffer \o wire) \o <<>> = bytes \o (rest \o wire)
  <2>1. IsRegrouped(bytes, rest, wire)
    BY <1>1, Regroup
  <2>2. receiveBuffer \o wire \in Seq(Byte)
    BY <1>1, ConcatProperties DEF TypeOK
  <2>3. (receiveBuffer \o wire) \o <<>> = receiveBuffer \o wire
    BY <2>2, ConcatEmptySeq
  <2> QED
    BY <2>1, <2>3 DEF IsRegrouped
<1>4. Told(Reader, Plain(Standing), bytes \o (rest \o wire)) = <<Broken>> \o after
  BY <1>1, ReaderIs DEF ReadsTo, Leads
<1>5. sentRecords = delivered \o (<<Broken>> \o after)
  <2>1. sentRecords \o Told(Reader, Plain(host), <<>>)
          = delivered \o Told(Reader, Plain(Standing), (receiveBuffer \o wire) \o <<>>)
    BY EmptySeq DEF Owes
  <2>2. Told(Reader, Plain(host), <<>>) = <<>>
    BY <1>1, PlainIsReader, ReaderIs, ReaderIsMachine, ToldOf
  <2>3. sentRecords \o <<>> = sentRecords
    BY ConcatEmptySeq
  <2> HIDE DEF after
  <2> QED
    BY <1>3, <1>4, <2>1, <2>2, <2>3
<1> HIDE DEF after
<1>6. /\ delivered \in Seq(Results) /\ Broken \in Results
  BY <1>1, SeqMonotonic DEF Results
<1>7. <<Broken>> \in Seq(Results) /\ Len(<<Broken>>) = 1 /\ <<Broken>>[1] = Broken
  BY <1>6, Alone
<1> DEFINE u == <<Broken>> \o after
<1>8. u \in Seq(Results) /\ Len(u) >= 1 /\ u[1] = Broken
  BY <1>2, <1>7, ConcatProperties, LenProperties
<1> HIDE DEF u
<1>9. /\ Len(delivered) \in Nat /\ Len(delivered) + 1 \in 1..Len(sentRecords)
      /\ sentRecords[Len(delivered) + 1] = Broken
  <2>1. sentRecords = delivered \o u
    BY <1>5 DEF u
  <2>2. /\ Len(delivered \o u) = Len(delivered) + Len(u)
        /\ \A i \in 1..(Len(delivered) + Len(u)) :
             (delivered \o u)[i] = IF i <= Len(delivered) THEN delivered[i] ELSE u[i - Len(delivered)]
    BY <1>6, <1>8, ConcatProperties
  <2>3. Len(delivered) \in Nat /\ Len(u) \in Nat
    BY <1>6, <1>8, LenProperties
  <2> QED
    BY <1>8, <2>1, <2>2, <2>3
<1>10. Broken \in Seq(Byte)
  BY <1>9, ElementOfSeq
<1>11. Len(Broken) = 1 /\ Broken[1] = 256
  BY DEF Broken
<1>12. 256 \in Byte
  <2>1. \A s \in Seq(Byte) : \A i \in 1..Len(s) : s[i] \in Byte
    BY ElementOfSeq
  <2>2. 1 \in 1..Len(Broken)
    BY <1>11
  <2>3. Broken[1] \in Byte
    BY <1>10, <2>1, <2>2, Zenon
  <2> QED
    BY <1>11, <2>3, Zenon
<1> QED
  BY <1>12 DEF Byte

-----------------------------------------------------------------------------
(* Each iteration of the loop reads what the reader reads.                 *)

\* What is taken from the head of the buffer.
LEMMA OneConsumed ==
  ASSUME TypeOK, receiveBuffer # <<>>, Consume(1)
  PROVE  /\ receiveBuffer[1] \in Byte /\ receiveBuffer' \in Seq(Byte)
         /\ receiveBuffer = <<receiveBuffer[1]>> \o receiveBuffer'
<1>1. receiveBuffer \in Seq(Byte) /\ Len(receiveBuffer) >= 1 /\ receiveBuffer[1] \in Byte
  <2>1. receiveBuffer \in Seq(Byte)
    BY DEF TypeOK
  <2>2. Len(receiveBuffer) \in Nat /\ Len(receiveBuffer) # 0
    BY <2>1, LenProperties, EmptySeq
  <2>3. \A i \in 1..Len(receiveBuffer) : receiveBuffer[i] \in Byte
    BY <2>1, ElementOfSeq
  <2> QED
    BY <2>1, <2>2, <2>3
<1>2. receiveBuffer = <<receiveBuffer[1]>> \o SubSeq(receiveBuffer, 2, Len(receiveBuffer))
  BY <1>1, Heads
<1>3. 1 + 1 = 2 /\ receiveBuffer' \in Seq(Byte)
  BY ConsumeType
<1> QED
  BY <1>1, <1>2, <1>3 DEF Consume

LEMMA TwoConsumed ==
  ASSUME TypeOK, HasPair, Consume(2)
  PROVE  /\ Second \in Byte /\ receiveBuffer' \in Seq(Byte)
         /\ receiveBuffer = <<IAC, Second>> \o receiveBuffer'
<1>1. receiveBuffer \in Seq(Byte) /\ Len(receiveBuffer) >= 2 /\ receiveBuffer[1] = IAC
  BY DEF TypeOK, HasPair
<1>2. receiveBuffer = <<receiveBuffer[1], receiveBuffer[2]>>
                        \o SubSeq(receiveBuffer, 3, Len(receiveBuffer))
  BY <1>1, Heads
<1>3. 2 + 1 = 3 /\ receiveBuffer' \in Seq(Byte) /\ Second \in Byte
  BY ConsumeType, HeadBytes
<1> QED
  BY <1>1, <1>2, <1>3 DEF Consume, Second

LEMMA ThreeConsumed ==
  ASSUME TypeOK, HasPair, Len(receiveBuffer) >= 3, Consume(3)
  PROVE  /\ Second \in Byte /\ Third \in Byte /\ receiveBuffer' \in Seq(Byte)
         /\ receiveBuffer = <<IAC, Second, Third>> \o receiveBuffer'
<1>1. receiveBuffer \in Seq(Byte) /\ receiveBuffer[1] = IAC
  BY DEF TypeOK, HasPair
<1>2. receiveBuffer = <<receiveBuffer[1], receiveBuffer[2], receiveBuffer[3]>>
                        \o SubSeq(receiveBuffer, 4, Len(receiveBuffer))
  BY <1>1, Heads
<1>3. 3 + 1 = 4 /\ receiveBuffer' \in Seq(Byte) /\ Second \in Byte /\ Third \in Byte
  BY ConsumeType, HeadBytes
<1> QED
  BY <1>1, <1>2, <1>3 DEF Consume, Second, Third

\* The handler and the reader look at the same things.
LEMMA StandingIs ==
  /\ Standing.complete = handshakeComplete /\ Standing.eor = eorNegotiated
  /\ Standing.sub = inSubnegotiation /\ Standing.cur = currentSubnegotiation
  /\ Standing.rec = recordBuffer
  /\ Collects(Standing) = Framing
  /\ IsUnescaped <=> Second # IAC /\ IsData(Standing, Second)
BY DEF Standing, Collects, Framing, IsUnescaped, IsData, MidRecord

LEMMA StandingStays ==
  ASSUME UNCHANGED <<handshakeComplete, eorNegotiated, inSubnegotiation,
                     currentSubnegotiation, recordBuffer>>
  PROVE  Standing' = Standing
BY DEF Standing

LEMMA AppendDataTakes ==
  ASSUME TypeOK, processed = <<>>, Framing, NEW b \in Byte, AppendData(b),
         UNCHANGED <<status, subneg>>
  PROVE  processed' = <<>> /\ Standing' = Takes(Standing, b)
<1>1. recordBuffer \o processed = recordBuffer
  BY ConcatEmptySeq DEF TypeOK
<1>2. recordBuffer' = Append(recordBuffer, b) /\ processed' = <<>>
  BY <1>1 DEF AppendData
<1>3. /\ handshakeComplete' = handshakeComplete /\ eorNegotiated' = eorNegotiated
      /\ inSubnegotiation' = inSubnegotiation
      /\ currentSubnegotiation' = currentSubnegotiation
  BY DEF status, subneg
<1> QED
  BY <1>2, <1>3 DEF Standing, Takes, Collects, Framing

\* What a step of the loop is when all is well.
AtMostOne(results) == results = <<>> \/ \E r : results = <<r>>

Reads == /\ processed' = <<>>
         /\ \E bytes, results : Reading(bytes, results) /\ AtMostOne(results)

LEMMA ReadsQuietly ==
  ASSUME TypeOK, processed' = <<>>, UNCHANGED app, NEW bytes,
         receiveBuffer = bytes \o receiveBuffer', ReadsTo(Standing, bytes, <<>>, Standing')
  PROVE  Reads
<1>1. bytes \in Seq(Byte)
  BY ReaderIs DEF ReadsTo, Leads
<1>2. delivered' = delivered \o <<>>
  BY ConcatEmptySeq DEF TypeOK, app
<1>3. Reading(bytes, <<>>) /\ AtMostOne(<<>>)
  BY <1>1, <1>2 DEF Reading, AtMostOne
<1> QED
  BY <1>3, Zenon DEF Reads

\* Data outside of records.
LEMMA BrokenRead ==
  ASSUME NEW q \in Standings, NEW b \in Byte, b = IAC \/ IsData(q, b), ~Collects(q)
  PROVE  \E r \in Standings : ReadsTo(q, <<IAC, b>>, <<Broken>>, r)
<1>1. BehindIac(q).at = "IAC" /\ BehindIac(q).q = q /\ IAC \in Byte
  BY CodesAreBytes DEF BehindIac
<1>2. Says(BehindIac(q), b) = <<Broken>>
  BY <1>1 DEF Says
<1>3. CASE b = IAC
  <2>1. Goes(BehindIac(q), b) = Plain(Takes(q, IAC)) /\ Takes(q, IAC) \in Standings
    BY <1>1, <1>3, TakesStands DEF Goes
  <2> QED
    BY <1>2, <2>1, TwoRead
<1>4. CASE b # IAC /\ IsData(q, b)
  <2> DEFINE r == Takes(Takes(q, IAC), b)
  <2>1. Takes(q, IAC) \in Standings /\ r \in Standings
    BY <1>1, TakesStands
  <2>2. Goes(BehindIac(q), b) = Plain(r)
    BY <1>1, <1>4 DEF Goes
  <2> HIDE DEF r
  <2> QED
    BY <1>2, <2>1, <2>2, TwoRead
<1> QED
  BY <1>3, <1>4

\* Behind an IAC that is data, a record is being collected.
LEMMA IacCollects ==
  ASSUME NEW host, Serving(host), HasPair, Second = IAC \/ IsData(Standing, Second)
  PROVE  Framing
<1> SUFFICES ASSUME ~Framing PROVE FALSE
  OBVIOUS
<1>1. TypeOK /\ Standing \in Standings /\ receiveBuffer \in Seq(Byte) /\ Second \in Byte
  BY StandingIsOne, HeadBytes DEF Serving, IInv, TypeOK
<1>2. PICK r \in Standings : ReadsTo(Standing, <<IAC, Second>>, <<Broken>>, r)
  BY <1>1, BrokenRead, StandingIs
<1> DEFINE rest == SubSeq(receiveBuffer, 3, Len(receiveBuffer))
<1>3. /\ receiveBuffer = <<IAC, Second>> \o rest
  <2>1. Len(receiveBuffer) >= 2 /\ receiveBuffer[1] = IAC /\ receiveBuffer[2] = Second
    BY DEF HasPair, Second
  <2> QED
    BY <1>1, <2>1, Heads
<1>4. rest \in Seq(Byte) /\ <<IAC, Second>> \in Seq(Byte)
  <2>1. \A i \in 3..Len(receiveBuffer) : receiveBuffer[i] \in Byte
    <3>1. \A i \in 1..Len(receiveBuffer) : receiveBuffer[i] \in Byte
      BY <1>1, ElementOfSeq
    <3> QED
      BY <3>1
  <2>2. 3 \in Int /\ Len(receiveBuffer) \in Int
    BY <1>1, LenProperties
  <2>3. <<IAC, Second>> \in Seq(Byte)
    BY <1>2, ReaderIs DEF ReadsTo, Leads
  <2> QED
    BY <2>1, <2>2, <2>3, SubSeqProperties
<1> HIDE DEF rest
<1>5. sentRecords \in Seq(Seq(Byte)) /\ host \in Quiet /\ Owes(host)
  BY DEF Serving
<1> QED
  BY <1>1, <1>2, <1>3, <1>4, <1>5, NeverBroken

LEMMA EscapedIacReads ==
  ASSUME NEW host, Serving(host), EscapedIac
  PROVE  Reads
<1>1. TypeOK /\ processed = <<>> /\ Standing \in Standings /\ IAC \in Byte
  BY StandingIsOne, CodesAreBytes DEF Serving, IInv
<1>2. HasPair /\ Second = IAC /\ AppendData(IAC) /\ Consume(2) /\ UNCHANGED <<status, subneg, app>>
  BY DEF EscapedIac
<1>3. Framing
  BY <1>2, IacCollects
<1>4. receiveBuffer = <<IAC, IAC>> \o receiveBuffer'
  BY <1>1, <1>2, TwoConsumed
<1>5. processed' = <<>> /\ Standing' = Takes(Standing, IAC)
  BY <1>1, <1>2, <1>3, AppendDataTakes
<1>6. ReadsTo(Standing, <<IAC, IAC>>, <<>>, Standing')
  BY <1>1, <1>3, <1>5, EscapedRead, StandingIs
<1> QED
  BY <1>1, <1>2, <1>4, <1>5, <1>6, ReadsQuietly

LEMMA DataByteReads ==
  ASSUME NEW host, Serving(host), DataByte
  PROVE  Reads
<1> DEFINE b == receiveBuffer[1]
<1>1. TypeOK /\ processed = <<>> /\ Standing \in Standings
  BY StandingIsOne DEF Serving, IInv
<1>2. /\ receiveBuffer # <<>> /\ b # IAC /\ ~inSubnegotiation
      /\ AppendData(b) /\ Consume(1) /\ UNCHANGED <<status, subneg, app>>
  BY DEF DataByte, HasByte
<1>3. b \in Byte /\ receiveBuffer = <<b>> \o receiveBuffer' /\ receiveBuffer' \in Seq(Byte)
  BY <1>1, <1>2, OneConsumed
<1> HIDE DEF b
<1>4. Takes(Standing, b) \in Standings
  BY <1>1, <1>3, TakesStands
<1>5. ReadsTo(Standing, <<b>>, IF Framing THEN <<>> ELSE <<Broken>>, Takes(Standing, b))
  <2>1. ReadsTo(Standing, <<b>>, IF Standing.sub \/ Collects(Standing) THEN <<>> ELSE <<Broken>>,
                IF Standing.sub THEN Standing ELSE Takes(Standing, b))
    BY <1>1, <1>2, <1>3, ByteRead
  <2>2. Standing.sub = inSubnegotiation /\ Collects(Standing) = Framing
    BY StandingIs
  <2> QED
    BY <1>2, <2>1, <2>2, Zenon
<1>6. Framing
  <2> SUFFICES ASSUME ~Framing PROVE FALSE
    OBVIOUS
  <2>1. ReadsTo(Standing, <<b>>, <<Broken>>, Takes(Standing, b))
    BY <1>5, Zenon
  <2>2. <<b>> \in Seq(Byte)
    BY <1>3, Alone
  <2>3. sentRecords \in Seq(Seq(Byte)) /\ host \in Quiet /\ Owes(host)
    BY DEF Serving
  <2> QED
    BY <1>1, <1>3, <1>4, <2>1, <2>2, <2>3, NeverBroken
<1>7. processed' = <<>> /\ Standing' = Takes(Standing, b)
  BY <1>1, <1>2, <1>3, <1>6, AppendDataTakes
<1>8. ReadsTo(Standing, <<b>>, <<>>, Standing')
  BY <1>5, <1>6, <1>7, Zenon
<1> QED
  BY <1>1, <1>2, <1>3, <1>7, <1>8, ReadsQuietly

LEMMA SubnegotiationByteReads ==
  ASSUME NEW host, Serving(host), SubnegotiationByte
  PROVE  Reads
<1> DEFINE b == receiveBuffer[1]
<1>1. TypeOK /\ processed = <<>> /\ Standing \in Standings
  BY StandingIsOne DEF Serving, IInv
<1>2. /\ receiveBuffer # <<>> /\ b # IAC /\ inSubnegotiation /\ Consume(1)
      /\ UNCHANGED <<status, inSubnegotiation, currentSubnegotiation, records, app>>
  BY DEF SubnegotiationByte, HasByte
<1>3. b \in Byte /\ receiveBuffer = <<b>> \o receiveBuffer'
  BY <1>1, <1>2, OneConsumed
<1> HIDE DEF b
<1>4. Standing' = Standing /\ processed' = <<>>
  BY <1>1, <1>2, StandingStays DEF status, records
<1>5. ReadsTo(Standing, <<b>>, <<>>, Standing)
  <2>1. ReadsTo(Standing, <<b>>, IF Standing.sub \/ Collects(Standing) THEN <<>> ELSE <<Broken>>,
                IF Standing.sub THEN Standing ELSE Takes(Standing, b))
    BY <1>1, <1>2, <1>3, ByteRead
  <2>2. Standing.sub = inSubnegotiation
    BY StandingIs
  <2> QED
    BY <1>2, <2>1, <2>2, Zenon
<1> QED
  BY <1>1, <1>2, <1>3, <1>4, <1>5, ReadsQuietly

\* Two-byte commands.
LEMMA StandaloneTaken ==
  ASSUME TypeOK, StandaloneCommand
  PROVE  /\ Standing \in Standings /\ Second \in Standalone /\ Second \in Byte
         /\ receiveBuffer = <<IAC, Second>> \o receiveBuffer'
         /\ ReadsTo(Standing, <<IAC, Second>>,
                    IF Second = EOR /\ Framing /\ recordBuffer # <<>>
                    THEN <<RepairGdsRecordLength(recordBuffer)>> ELSE <<>>,
                    Ends(Standing, Second))
<1>1. HasPair /\ ~IsUnescaped /\ Second \in Standalone /\ Consume(2)
  BY DEF StandaloneCommand
<1>2. Standing \in Standings
  BY StandingIsOne
<1>3. Second \in Byte /\ receiveBuffer = <<IAC, Second>> \o receiveBuffer'
  BY <1>1, TwoConsumed
<1>4. ~IsData(Standing, Second)
  <2>1. Second # IAC
    BY <1>1 DEF Standalone, EOR, GA, IAC
  <2> QED
    BY <1>1, <2>1, StandingIs
<1>5. ReadsTo(Standing, <<IAC, Second>>,
              IF Second = EOR /\ Collects(Standing) /\ Standing.rec # <<>>
              THEN <<RepairGdsRecordLength(Standing.rec)>> ELSE <<>>,
              Ends(Standing, Second))
  BY <1>1, <1>2, <1>4, StandaloneRead
<1>6. Collects(Standing) = Framing /\ Standing.rec = recordBuffer
  BY StandingIs
<1>7. ReadsTo(Standing, <<IAC, Second>>,
              IF Second = EOR /\ Framing /\ recordBuffer # <<>>
              THEN <<RepairGdsRecordLength(recordBuffer)>> ELSE <<>>,
              Ends(Standing, Second))
  BY <1>5, <1>6, Zenon
<1> QED
  BY <1>1, <1>2, <1>3, <1>7

\* IAC EOR hands the record over.
LEMMA EndRecordReads ==
  ASSUME NEW host, Serving(host), EndRecord
  PROVE  Reads
<1>1. TypeOK /\ processed = <<>> /\ recordBuffer \in Seq(Byte) /\ delivered \in Seq(Seq(Byte))
  BY DEF Serving, IInv, TypeOK
<1>2. StandaloneCommand /\ Second = EOR /\ Framing /\ FlushRecord /\ UNCHANGED <<status, subneg>>
  BY DEF EndRecord, StandaloneCommand
<1>3. processed \o recordBuffer = recordBuffer
  BY <1>1, ConcatEmptySeq
<1>4. /\ processed' = <<>> /\ recordBuffer' = <<>>
      /\ recordBuffer # <<>> => delivered' = Append(delivered, RepairGdsRecordLength(recordBuffer))
      /\ recordBuffer = <<>> => UNCHANGED app
  BY <1>2, <1>3 DEF FlushRecord, HandOver
<1>5. Standing' = Ends(Standing, EOR)
  <2>1. Collects(Standing) /\ Standing.rec = recordBuffer
    BY <1>2, StandingIs
  <2>2. /\ handshakeComplete' = handshakeComplete /\ eorNegotiated' = eorNegotiated
        /\ inSubnegotiation' = inSubnegotiation
        /\ currentSubnegotiation' = currentSubnegotiation
    BY <1>2 DEF status, subneg
  <2>3. Ends(Standing, EOR) = [Standing EXCEPT !.rec = <<>>]
    BY <2>1 DEF Ends
  <2> QED
    BY <1>4, <2>2, <2>3 DEF Standing
<1>6. /\ receiveBuffer = <<IAC, EOR>> \o receiveBuffer'
      /\ ReadsTo(Standing, <<IAC, EOR>>,
                 IF recordBuffer # <<>> THEN <<RepairGdsRecordLength(recordBuffer)>> ELSE <<>>,
                 Standing')
  <2>1. /\ receiveBuffer = <<IAC, Second>> \o receiveBuffer'
        /\ ReadsTo(Standing, <<IAC, Second>>,
                   IF Second = EOR /\ Framing /\ recordBuffer # <<>>
                   THEN <<RepairGdsRecordLength(recordBuffer)>> ELSE <<>>,
                   Ends(Standing, Second))
    BY <1>1, <1>2, StandaloneTaken
  <2> QED
    BY <1>2, <1>5, <2>1, Zenon
<1>7. CASE recordBuffer = <<>>
  <2>1. ReadsTo(Standing, <<IAC, EOR>>, <<>>, Standing')
    BY <1>6, <1>7, Zenon
  <2> QED
    BY <1>1, <1>4, <1>6, <1>7, <2>1, ReadsQuietly
<1>8. CASE recordBuffer # <<>>
  <2> DEFINE r == RepairGdsRecordLength(recordBuffer)
  <2>1. ReadsTo(Standing, <<IAC, EOR>>, <<r>>, Standing')
    BY <1>6, <1>8, Zenon
  <2>2. delivered' = delivered \o <<r>>
    <3>1. r \in Seq(Byte)
      BY <1>1, RepairType
    <3> HIDE DEF r
    <3>2. Append(delivered, r) = delivered \o <<r>>
      BY <1>1, <3>1, AppendIsConcat
    <3> QED
      BY <1>4, <1>8, <3>2 DEF r
  <2> HIDE DEF r
  <2>3. <<IAC, EOR>> \in Seq(Byte)
    BY <2>1, ReaderIs DEF ReadsTo, Leads
  <2>4. Reading(<<IAC, EOR>>, <<r>>) /\ AtMostOne(<<r>>)
    BY <1>6, <2>1, <2>2, <2>3 DEF Reading, AtMostOne
  <2> QED
    BY <1>4, <2>4, Zenon DEF Reads
<1> QED
  BY <1>7, <1>8

LEMMA DropStandaloneReads ==
  ASSUME NEW host, Serving(host), DropStandalone
  PROVE  Reads
<1>1. TypeOK /\ processed = <<>>
  BY DEF Serving, IInv
<1>2. /\ StandaloneCommand /\ UNCHANGED <<status, subneg, records, app>>
      /\ Second # SE \/ ~inSubnegotiation
      /\ Second # EOR \/ ~Framing
  BY DEF DropStandalone, StandaloneCommand
<1>3. Standing' = Standing /\ processed' = <<>>
  BY <1>1, <1>2, StandingStays DEF status, subneg, records
<1>4. Ends(Standing, Second) = Standing
  BY <1>2, StandingIs DEF Ends
<1>5. /\ receiveBuffer = <<IAC, Second>> \o receiveBuffer'
      /\ ReadsTo(Standing, <<IAC, Second>>,
                 IF Second = EOR /\ Framing /\ recordBuffer # <<>>
                 THEN <<RepairGdsRecordLength(recordBuffer)>> ELSE <<>>,
                 Ends(Standing, Second))
  BY <1>1, <1>2, StandaloneTaken
<1>6. ReadsTo(Standing, <<IAC, Second>>, <<>>, Standing')
  BY <1>2, <1>3, <1>4, <1>5, Zenon
<1> QED
  BY <1>1, <1>2, <1>3, <1>5, <1>6, ReadsQuietly

\* The end of a subnegotiation: only the terminal type completes the handshake.
LEMMA EndSubnegotiationReads ==
  ASSUME NEW host, Serving(host), EndSubnegotiation, UNCHANGED <<eorNegotiated, app>>,
         handshakeComplete' = (handshakeComplete \/ currentSubnegotiation = TerminalType)
  PROVE  Reads
<1>1. TypeOK /\ processed = <<>> /\ Standing \in Standings
  BY StandingIsOne DEF Serving, IInv
<1>2. /\ HasPair /\ Second = SE /\ inSubnegotiation /\ Consume(2) /\ inSubnegotiation' = FALSE
      /\ UNCHANGED <<currentSubnegotiation, records>>
  BY DEF EndSubnegotiation
<1>3. receiveBuffer = <<IAC, SE>> \o receiveBuffer'
  BY <1>1, <1>2, TwoConsumed
<1>4. SE \in Standalone /\ SE # EOR
  BY DEF Standalone, SE, EOR, GA
<1>5. ~IsData(Standing, SE)
  BY <1>2, StandingIs DEF IsData
<1>6. Standing' = Ends(Standing, SE) /\ processed' = <<>>
  <2>1. recordBuffer' = recordBuffer /\ processed' = <<>>
    BY <1>1, <1>2 DEF records
  <2>2. Ends(Standing, SE)
          = [Standing EXCEPT !.sub = FALSE,
                             !.complete = (Standing.complete \/ Standing.cur = TerminalType)]
    BY <1>2, <1>4, StandingIs DEF Ends
  <2> QED
    BY <1>2, <2>1, <2>2 DEF Standing
<1>7. ReadsTo(Standing, <<IAC, SE>>, <<>>, Standing')
  <2>1. ReadsTo(Standing, <<IAC, SE>>,
                IF SE = EOR /\ Collects(Standing) /\ Standing.rec # <<>>
                THEN <<RepairGdsRecordLength(Standing.rec)>> ELSE <<>>, Ends(Standing, SE))
    BY <1>1, <1>4, <1>5, StandaloneRead
  <2> QED
    BY <1>4, <1>6, <2>1, Zenon
<1> QED
  BY <1>1, <1>3, <1>6, <1>7, ReadsQuietly

LEMMA EndsOfSubnegotiationRead ==
  ASSUME NEW host, Serving(host),
         EndTerminalType \/ EndNewEnviron \/ EndOtherSubnegotiation
  PROVE  Reads
<1>1. IInv /\ handshakeComplete \in BOOLEAN
  BY DEF Serving, IInv, TypeOK
<1>2. CASE EndTerminalType
  <2>1. /\ EndSubnegotiation /\ currentSubnegotiation = TerminalType
        /\ UNCHANGED eorNegotiated /\ CheckHandshakeComplete(TRUE, TRUE, handshakeBuffer)
    BY <1>2 DEF EndTerminalType
  <2>2. UNCHANGED app /\ handshakeComplete'
    BY <1>1, <2>1, CheckNothingPending
  <2>3. handshakeComplete' = TRUE
    BY <1>1, <2>1, <2>2 DEF CheckHandshakeComplete
  <2> QED
    BY <2>1, <2>2, <2>3, EndSubnegotiationReads
<1>3. CASE EndNewEnviron \/ EndOtherSubnegotiation
  <2>1. EndSubnegotiation /\ currentSubnegotiation # TerminalType /\ UNCHANGED <<status, app>>
    BY <1>3 DEF EndNewEnviron, EndOtherSubnegotiation, TerminalType, NewEnviron
  <2> QED
    BY <1>1, <2>1, EndSubnegotiationReads DEF status
<1> QED
  BY <1>2, <1>3

\* Three-byte commands.
LEMMA ThreeByteCommandReads ==
  ASSUME NEW host, Serving(host), NEW cmds, ThreeByteCommand(cmds), UNCHANGED app,
         Standing' = Obeys(Standing, Second, Third)
  PROVE  Reads
<1>1. TypeOK /\ processed = <<>> /\ Standing \in Standings
  BY StandingIsOne DEF Serving, IInv
<1>2. /\ HasPair /\ ~IsUnescaped /\ Second \notin Standalone \cup {IAC}
      /\ Len(receiveBuffer) >= 3 /\ Consume(3) /\ UNCHANGED records
  BY DEF ThreeByteCommand
<1>3. /\ Second \in Byte /\ Third \in Byte
      /\ receiveBuffer = <<IAC, Second, Third>> \o receiveBuffer'
  BY <1>1, <1>2, ThreeConsumed
<1>4. ~IsData(Standing, Second)
  BY <1>2, StandingIs
<1>5. ReadsTo(Standing, <<IAC, Second, Third>>, <<>>, Standing')
  BY <1>1, <1>2, <1>3, <1>4, ThreeRead
<1>6. processed' = <<>>
  BY <1>1, <1>2 DEF records
<1> QED
  BY <1>1, <1>3, <1>5, <1>6, ReadsQuietly

LEMMA NegotiateReads ==
  ASSUME NEW host, Serving(host), NEW cmds \in SUBSET {WILL, DO}, ThreeByteCommand(cmds),
         NEW answer, Negotiate(Third, answer)
  PROVE  Reads
<1>1. IInv /\ handshakeBuffer = <<>> /\ (terminalTypeSent => handshakeComplete)
      /\ terminalTypeSent \in BOOLEAN
  BY DEF Serving, IInv, Held, TypeOK
<1>2. UNCHANGED app /\ handshakeComplete' = handshakeComplete
  <2>1. CASE Third \in {TransmitBinary, EndOfRecord}
    <3>1. CheckHandshakeComplete(binaryNegotiated', terminalTypeSent, handshakeBuffer)
      BY <2>1 DEF Negotiate
    <3>2. ~(~handshakeComplete /\ binaryNegotiated'
              /\ (terminalTypeSent \/ handshakeBuffer # <<>>))
      BY <1>1
    <3> QED
      BY <3>1, <3>2, Zenon DEF CheckHandshakeComplete
  <2>2. CASE Third \notin {TransmitBinary, EndOfRecord}
    BY <2>2 DEF Negotiate
  <2> QED
    BY <2>1, <2>2
<1>3. /\ eorNegotiated' = (eorNegotiated \/ Third = EndOfRecord) /\ UNCHANGED subneg
      /\ Second \in {WILL, DO} /\ UNCHANGED records
  BY DEF Negotiate, ThreeByteCommand
<1>4. Standing' = Obeys(Standing, Second, Third)
  <2>1. Obeys(Standing, Second, Third)
          = [Standing EXCEPT !.eor = (Standing.eor \/ Third = EndOfRecord)]
    BY <1>3 DEF Obeys
  <2> QED
    BY <1>2, <1>3, <2>1 DEF Standing, subneg, records
<1> QED
  BY <1>2, <1>4, ThreeByteCommandReads

LEMMA ThreeByteCommandsRead ==
  ASSUME NEW host, Serving(host), Will \/ Do \/ BeginSubnegotiation \/ IgnoreCommand
  PROVE  Reads
<1>1. CASE Will
  <2>1. {WILL} \in SUBSET {WILL, DO}
    OBVIOUS
  <2> QED
    BY <1>1, <2>1, NegotiateReads DEF Will
<1>2. CASE Do
  <2>1. {DO} \in SUBSET {WILL, DO}
    OBVIOUS
  <2> QED
    BY <1>2, <2>1, NegotiateReads DEF Do
<1>3. CASE BeginSubnegotiation
  <2>1. /\ ThreeByteCommand({SB}) /\ inSubnegotiation' = TRUE /\ currentSubnegotiation' = Third
        /\ UNCHANGED <<status, app, records>> /\ Second = SB
    BY <1>3 DEF BeginSubnegotiation, ThreeByteCommand
  <2>2. Standing' = Obeys(Standing, Second, Third)
    <3>1. SB \notin {WILL, DO}
      BY DEF SB, WILL, DO
    <3>2. Obeys(Standing, Second, Third) = [Standing EXCEPT !.sub = TRUE, !.cur = Third]
      BY <2>1, <3>1 DEF Obeys
    <3> QED
      BY <2>1, <3>2 DEF Standing, status, records
  <2> QED
    BY <2>1, <2>2, ThreeByteCommandReads
<1>4. CASE IgnoreCommand
  <2>1. /\ ThreeByteCommand(Byte \ {WILL, DO, SB}) /\ Second \notin {WILL, DO, SB}
        /\ UNCHANGED <<status, subneg, app, records>>
    BY <1>4 DEF IgnoreCommand, ThreeByteCommand
  <2>2. Standing' = Obeys(Standing, Second, Third)
    <3>1. Obeys(Standing, Second, Third) = Standing
      BY <2>1 DEF Obeys
    <3> QED
      BY <2>1, <3>1, StandingStays DEF status, subneg, records
  <2> QED
    BY <2>1, <2>2, ThreeByteCommandReads
<1> QED
  BY <1>1, <1>2, <1>3, <1>4

-----------------------------------------------------------------------------
(* What the handler owes does not change when it reads.                    *)

\* The same bytes are still on their way, wherever they are kept.
LEMMA OwesStays ==
  ASSUME NEW host, Owes(host), UNCHANGED <<sentRecords, delivered>>, Standing' = Standing,
         receiveBuffer' \o wire' = receiveBuffer \o wire
  PROVE  Owes(host)'
BY DEF Owes

\* An IAC that was not doubled is taken before the byte behind it.
LEMMA UnescapedIacKeeps ==
  ASSUME NEW host, Serving(host), UnescapedIac, UNCHANGED <<sentRecords, wire>>
  PROVE  Owes(host)' /\ processed' = <<>> /\ delivered' = delivered
<1>1. /\ TypeOK /\ processed = <<>> /\ Standing \in Standings /\ IAC \in Byte
      /\ receiveBuffer \in Seq(Byte) /\ wire \in Seq(Byte) /\ Owes(host)
  BY StandingIsOne, CodesAreBytes DEF Serving, IInv, TypeOK
<1>2. /\ HasPair /\ IsUnescaped /\ AppendData(IAC) /\ Consume(1)
      /\ UNCHANGED <<status, subneg, app>>
  BY DEF UnescapedIac
<1> DEFINE c == Second
           rest == SubSeq(receiveBuffer, 3, Len(receiveBuffer))
<1>3. c \in Byte /\ c # IAC /\ IsData(Standing, c) /\ ~inSubnegotiation
  BY <1>1, <1>2, HeadBytes, StandingIs DEF IsUnescaped
<1>4. Framing
  BY <1>2, <1>3, IacCollects
<1>5. processed' = <<>> /\ Standing' = Takes(Standing, IAC) /\ delivered' = delivered
  BY <1>1, <1>2, <1>4, AppendDataTakes DEF app
<1>6. rest \in Seq(Byte) /\ <<c>> \in Seq(Byte) /\ <<IAC>> \in Seq(Byte)
  <2>1. \A i \in 3..Len(receiveBuffer) : receiveBuffer[i] \in Byte
    <3>1. \A i \in 1..Len(receiveBuffer) : receiveBuffer[i] \in Byte
      BY <1>1, ElementOfSeq
    <3> QED
      BY <3>1
  <2>2. 3 \in Int /\ Len(receiveBuffer) \in Int
    BY <1>1, LenProperties
  <2>3. rest \in Seq(Byte)
    BY <2>1, <2>2, SubSeqProperties
  <2> QED
    BY <1>1, <1>3, <2>3, Alone
<1>7. receiveBuffer = <<IAC, c>> \o rest
  <2>1. Len(receiveBuffer) >= 2 /\ receiveBuffer[1] = IAC /\ receiveBuffer[2] = c
    BY <1>2 DEF HasPair, Second
  <2> QED
    BY <1>1, <2>1, Heads
<1>8. receiveBuffer = <<IAC>> \o receiveBuffer' /\ receiveBuffer' \in Seq(Byte)
  <2>1. receiveBuffer # <<>> /\ receiveBuffer[1] = IAC
    BY <1>1, <1>2, EmptySeq DEF HasPair
  <2> QED
    BY <1>1, <1>2, <2>1, OneConsumed
<1> HIDE DEF c, rest
<1>9. <<c>> \o rest \in Seq(Byte)
  BY <1>6, ConcatProperties
<1>10. receiveBuffer = <<IAC>> \o (<<c>> \o rest)
  <2>1. <<IAC, c>> = <<IAC>> \o <<c>>
    BY <1>1, <1>3, Joined
  <2>2. IsRegrouped(<<IAC>>, <<c>>, rest)
    BY <1>6, Regroup
  <2> QED
    BY <1>7, <2>1, <2>2 DEF IsRegrouped
<1>11. receiveBuffer' = <<c>> \o rest
  <2>1. \A s \in Seq(Byte) : Tail(<<IAC>> \o s) = s
    BY <1>1, Prefixed DEF IsHeadAndTail
  <2> QED
    BY <1>8, <1>9, <1>10, <2>1, Zenon
<1> DEFINE r == Takes(Standing', c)
<1>12. ReadsTo(Standing, <<IAC, c>>, <<>>, r)
  BY <1>1, <1>3, <1>4, <1>5, UndoubledRead, StandingIs
<1>13. ReadsTo(Standing', <<c>>, <<>>, r)
  <2> DEFINE q == Standing'
  <2>1. q \in Standings /\ q.sub = FALSE /\ Collects(q)
    <3>1. Standing' \in Standings
      BY <1>1, <1>5, TakesStands
    <3>2. Collects(Standing) /\ Standing.sub = inSubnegotiation /\ inSubnegotiation = FALSE
      BY <1>1, <1>3, <1>4, StandingIs DEF TypeOK
    <3>3. Takes(Standing, IAC).sub = FALSE /\ Collects(Takes(Standing, IAC))
      BY <1>1, <3>2 DEF Takes, Collects, Standings
    <3> QED
      BY <1>5, <3>1, <3>3
  <2> HIDE DEF q
  <2>2. ReadsTo(q, <<c>>, IF q.sub \/ Collects(q) THEN <<>> ELSE <<Broken>>,
                IF q.sub THEN q ELSE Takes(q, c))
    BY <1>3, <2>1, ByteRead
  <2>3. ReadsTo(q, <<c>>, <<>>, Takes(q, c))
    BY <2>1, <2>2, Zenon
  <2> QED
    BY <2>3 DEF q
<1> HIDE DEF r
<1>14. ASSUME NEW x \in Seq(Byte)
       PROVE  Told(Reader, Plain(Standing'), (receiveBuffer' \o wire') \o x)
                = Told(Reader, Plain(Standing), (receiveBuffer \o wire) \o x)
  <2> DEFINE y == (rest \o wire) \o x
  <2>1. rest \o wire \in Seq(Byte) /\ y \in Seq(Byte)
    BY <1>1, <1>6, ConcatProperties
  <2>2. (receiveBuffer \o wire) \o x = <<IAC, c>> \o y
    <3>1. <<IAC, c>> \in Seq(Byte)
      BY <1>1, <1>3
    <3>2. IsRegrouped(<<IAC, c>>, rest, wire) /\ IsRegrouped(<<IAC, c>>, rest \o wire, x)
      BY <1>1, <1>6, <2>1, <3>1, Regroup
    <3> QED
      BY <1>7, <3>2 DEF IsRegrouped
  <2>3. (receiveBuffer' \o wire') \o x = <<c>> \o y
    <3>1. IsRegrouped(<<c>>, rest, wire) /\ IsRegrouped(<<c>>, rest \o wire, x)
      BY <1>1, <1>6, <2>1, Regroup
    <3> QED
      BY <1>11, <3>1 DEF IsRegrouped
  <2> HIDE DEF y
  <2>4. /\ Told(Reader, Plain(Standing), <<IAC, c>> \o y) = <<>> \o Told(Reader, Plain(r), y)
        /\ Told(Reader, Plain(Standing'), <<c>> \o y) = <<>> \o Told(Reader, Plain(r), y)
    BY <1>12, <1>13, <2>1, ReaderIs DEF ReadsTo, Leads
  <2> QED
    BY <2>2, <2>3, <2>4, Zenon
<1>15. Owes(host)'
  BY <1>1, <1>5, <1>14 DEF Owes
<1> QED
  BY <1>5, <1>15

\* The tail of a call has nothing left to do.
LEMMA FinishReadKeeps ==
  ASSUME NEW host, Serving(host), FinishRead, UNCHANGED <<sentRecords, wire>>
  PROVE  Owes(host)' /\ processed' = <<>> /\ delivered' = delivered
<1>1. processed = <<>> /\ Owes(host)
  BY DEF Serving
<1>2. /\ processed' = <<>> /\ UNCHANGED <<status, app, subneg, recordBuffer, receiveBuffer>>
  BY <1>1 DEF FinishRead
<1>3. Standing' = Standing /\ delivered' = delivered
  BY <1>2, StandingStays DEF status, subneg, app
<1> QED
  BY <1>1, <1>2, <1>3, OwesStays

LEMMA ReadSomeKeeps ==
  ASSUME NEW host, Serving(host), ReadSome, UNCHANGED sentRecords
  PROVE  Owes(host)' /\ processed' = <<>> /\ delivered' = delivered
<1>1. processed = <<>> /\ Owes(host) /\ receiveBuffer \in Seq(Byte) /\ wire \in Seq(Byte)
  BY DEF Serving, IInv, TypeOK
<1>2. PICK n \in 1..Len(wire) : Read(n)
  BY DEF ReadSome
<1>3. /\ receiveBuffer' = receiveBuffer \o SubSeq(wire, 1, n)
      /\ wire' = SubSeq(wire, n + 1, Len(wire))
      /\ UNCHANGED <<status, subneg, records, app>>
  BY <1>2 DEF Read
<1>4. Standing' = Standing /\ delivered' = delivered /\ processed' = <<>>
  BY <1>1, <1>3, StandingStays DEF status, subneg, app, records
<1>5. receiveBuffer' \o wire' = receiveBuffer \o wire
  <2> DEFINE s == SubSeq(wire, 1, n)
             t == SubSeq(wire, n + 1, Len(wire))
  <2>1. Len(wire) \in Nat /\ \A i \in 1..Len(wire) : wire[i] \in Byte
    BY <1>1, LenProperties, ElementOfSeq
  <2>2. s \in Seq(Byte) /\ t \in Seq(Byte)
    <3>1. /\ 1 \in Int /\ n \in Int /\ n + 1 \in Int /\ Len(wire) \in Int
          /\ \A i \in 1..n : wire[i] \in Byte
          /\ \A i \in (n + 1)..Len(wire) : wire[i] \in Byte
      BY <2>1
    <3> QED
      BY <3>1, SubSeqProperties
  <2>3. s \o t = wire
    <3>1. 1 \in 1..(Len(wire) + 1) /\ n \in (1 - 1)..Len(wire) /\ Len(wire) \in n..Len(wire)
      BY <2>1
    <3>2. SubSeq(wire, 1, Len(wire)) = wire
      BY <1>1, SubSeqFull
    <3> QED
      BY <1>1, <3>1, <3>2, ConcatAdjacentSubSeq
  <2> HIDE DEF s, t
  <2>4. IsRegrouped(receiveBuffer, s, t)
    BY <1>1, <2>2, Regroup
  <2> QED
    BY <1>3, <2>3, <2>4 DEF IsRegrouped, s, t
<1> QED
  BY <1>1, <1>4, <1>5, OwesStays

LEMMA SocketConnectedKeeps ==
  ASSUME NEW host, Serving(host), SocketConnected, UNCHANGED sentRecords
  PROVE  Owes(host)' /\ processed' = <<>> /\ delivered' = delivered
<1>1. processed = <<>> /\ Owes(host)
  BY DEF Serving
<1>2. /\ UNCHANGED <<handshakeComplete, eorNegotiated, subneg, records, app, receiveBuffer, wire>>
  BY DEF SocketConnected
<1>3. Standing' = Standing /\ delivered' = delivered /\ processed' = <<>>
  BY <1>1, <1>2, StandingStays DEF subneg, records, app
<1> QED
  BY <1>1, <1>2, <1>3, OwesStays

\* What the host writes is owed to it.
LEMMA HostWritesKeeps ==
  ASSUME NEW host, Serving(host), NEW after \in Quiet, NEW segment \in Seq(Byte),
         NEW told, ReadsTo(host, segment, told, after), HostWrites(segment),
         told \in Seq(Seq(Byte)), sentRecords' = sentRecords \o told
  PROVE  Serving(after)' /\ delivered' = delivered
<1>1. /\ IInv /\ processed = <<>> /\ Owes(host) /\ sentRecords \in Seq(Seq(Byte))
      /\ receiveBuffer \in Seq(Byte) /\ wire \in Seq(Byte)
  BY DEF Serving, IInv, TypeOK
<1>2. wire' = wire \o segment /\ UNCHANGED handlerVars
  BY DEF HostWrites
<1>3. /\ Standing' = Standing /\ delivered' = delivered /\ processed' = <<>>
      /\ receiveBuffer' = receiveBuffer
  BY <1>1, <1>2, StandingStays DEF handlerVars, status, subneg, records, app
<1>4. ASSUME NEW x \in Seq(Byte)
      PROVE  sentRecords' \o Told(Reader, Plain(after), x)
               = delivered' \o Told(Reader, Plain(Standing'), (receiveBuffer' \o wire') \o x)
  <2> DEFINE rest == Told(Reader, Plain(after), x)
  <2>1. segment \o x \in Seq(Byte) /\ receiveBuffer \o wire \in Seq(Byte)
    BY <1>1, ConcatProperties
  <2>2. sentRecords \o Told(Reader, Plain(host), segment \o x)
          = delivered \o Told(Reader, Plain(Standing), (receiveBuffer \o wire) \o (segment \o x))
    BY <1>1, <2>1 DEF Owes
  <2>3. Told(Reader, Plain(host), segment \o x) = told \o rest
    BY ReaderIs DEF ReadsTo, Leads
  <2>4. rest \in Seq(Results)
    <3>1. after \in Standings
      BY DEF Quiet
    <3> QED
      BY <3>1, PlainIsReader, ReaderIs, ReaderIsMachine, ToldOf
  <2> HIDE DEF rest
  <2>5. IsRegrouped(sentRecords, told, rest)
    <3>1. sentRecords \in Seq(Results) /\ told \in Seq(Results)
      BY <1>1, SeqMonotonic DEF Results
    <3> QED
      BY <2>4, <3>1, Regroup
  <2>6. (receiveBuffer' \o wire') \o x = (receiveBuffer \o wire) \o (segment \o x)
    <3>1. /\ IsRegrouped(receiveBuffer, wire, segment)
          /\ IsRegrouped(receiveBuffer \o wire, segment, x)
      BY <1>1, <2>1, Regroup
    <3> QED
      BY <1>2, <1>3, <3>1 DEF IsRegrouped
  <2>7. sentRecords' \o rest
          = delivered' \o Told(Reader, Plain(Standing'), (receiveBuffer' \o wire') \o x)
    BY <1>3, <2>2, <2>3, <2>5, <2>6 DEF IsRegrouped
  <2> QED
    BY <2>7 DEF rest
<1>5. Owes(after)'
  BY <1>4 DEF Owes
<1>6. IInv'
  BY <1>1, HostWritesType, HostWritesOrder DEF IInv
<1>7. sentRecords' \in Seq(Seq(Byte))
  BY <1>1, ConcatProperties
<1> QED
  BY <1>3, <1>5, <1>6, <1>7 DEF Serving

-----------------------------------------------------------------------------
(* The steps of a session.                                                 *)

LEMMA SessionBegins == SessionInit => SessionInv
<1> SUFFICES ASSUME SessionInit PROVE SessionInv
  OBVIOUS
<1>1. Init /\ negotiating = Handshake /\ sentRecords = <<>>
  BY DEF SessionInit
<1>2. IInv /\ TypeOK
  BY <1>1, InitIInv DEF IInv
<1>3. Standing \in Quiet
  BY <1>1, <1>2, StandingIsOne, StandingIs DEF Quiet, Init
<1>4. Owes(Standing)
  <2>1. \A x \in Seq(Byte) : (receiveBuffer \o wire) \o x = x
    BY <1>1, ConcatEmptySeq, EmptySeq DEF Init
  <2>2. sentRecords = delivered
    BY <1>1 DEF Init
  <2> QED
    BY <2>1, <2>2 DEF Owes
<1>5. sentRecords \in Seq(Seq(Byte)) /\ processed = <<>>
  BY <1>1, EmptySeq DEF Init
<1>6. Negotiated(Standing)
  BY <1>1 DEF Negotiated
<1> QED
  BY <1>1, <1>2, <1>3, <1>4, <1>5, <1>6 DEF SessionInv, Serving

\* The record that is handed over is the oldest one owed.
LEMMA OldestDelivered ==
  ASSUME NEW host, Serving(host)', TypeOK, UNCHANGED sentRecords, NEW r,
         delivered' = delivered \o <<r>>
  PROVE  Channel!Deliver
<1> DEFINE rest == Told(Reader, Plain(Standing'), (receiveBuffer' \o wire') \o <<>>)
<1>1. /\ delivered \in Seq(Seq(Byte)) /\ delivered' \in Seq(Seq(Byte))
      /\ sentRecords' \in Seq(Seq(Byte)) /\ host \in Quiet /\ Owes(host)'
      /\ receiveBuffer' \in Seq(Byte) /\ wire' \in Seq(Byte) /\ TypeOK'
  BY DEF Serving, IInv, TypeOK
<1>2. sentRecords' = delivered' \o rest
  <2>1. sentRecords' \o Told(Reader, Plain(host), <<>>) = delivered' \o rest
    BY <1>1, EmptySeq DEF Owes
  <2>2. Told(Reader, Plain(host), <<>>) = <<>>
    <3>1. host \in Standings
      BY <1>1 DEF Quiet
    <3> QED
      BY <3>1, PlainIsReader, ReaderIs, ReaderIsMachine, ToldOf
  <2>3. sentRecords' \o <<>> = sentRecords'
    BY <1>1, ConcatEmptySeq
  <2> HIDE DEF rest
  <2> QED
    BY <2>1, <2>2, <2>3
<1>3. rest \in Seq(Results)
  <2>1. Standing' \in Standings
    BY <1>1 DEF TypeOK, Standing, Standings
  <2>2. (receiveBuffer' \o wire') \o <<>> \in Seq(Byte)
    BY <1>1, ConcatProperties, EmptySeq
  <2> QED
    BY <2>1, <2>2, PlainIsReader, ReaderIs, ReaderIsMachine, ToldOf
<1> HIDE DEF rest
<1>4. Len(<<r>>) = 1 /\ <<r>>[1] = r
  OBVIOUS
<1> DEFINE u == delivered'
<1>5. /\ u \in Seq(Results) /\ Len(u) = Len(delivered) + 1 /\ u[Len(delivered) + 1] = r
      /\ Len(delivered) \in Nat /\ u = Append(delivered, r)
  <2> DEFINE S == Seq(Byte) \cup {r}
  <2>1. delivered \in Seq(S) /\ r \in S /\ <<r>> \in Seq(S)
    <3>1. r \in S /\ \A e \in S : <<e>> \in Seq(S)
      BY Alone
    <3> QED
      BY <1>1, <3>1, SeqMonotonic
  <2> HIDE DEF S
  <2>2. /\ Len(delivered \o <<r>>) = Len(delivered) + 1
        /\ \A i \in 1..(Len(delivered) + 1) :
             (delivered \o <<r>>)[i]
               = IF i <= Len(delivered) THEN delivered[i] ELSE <<r>>[i - Len(delivered)]
    BY <1>4, <2>1, ConcatProperties
  <2>3. Len(delivered) \in Nat
    BY <1>1, LenProperties
  <2>4. (delivered \o <<r>>)[Len(delivered) + 1] = r
    BY <1>4, <2>2, <2>3
  <2>5. Append(delivered, r) = delivered \o <<r>>
    BY <2>1, AppendIsConcat
  <2>6. u \in Seq(Results)
    BY <1>1, SeqMonotonic DEF Results
  <2> QED
    BY <2>2, <2>3, <2>4, <2>5, <2>6
<1> HIDE DEF u
<1>6. Len(delivered) < Len(sentRecords) /\ sentRecords[Len(delivered) + 1] = r
  <2>1. /\ Len(u \o rest) = Len(u) + Len(rest)
        /\ \A i \in 1..(Len(u) + Len(rest)) :
             (u \o rest)[i] = IF i <= Len(u) THEN u[i] ELSE rest[i - Len(u)]
    BY <1>3, <1>5, ConcatProperties
  <2>2. Len(rest) \in Nat
    BY <1>3, LenProperties
  <2>3. sentRecords = u \o rest
    BY <1>2 DEF u
  <2> QED
    BY <1>5, <2>1, <2>2, <2>3
<1> QED
  BY <1>5, <1>6 DEF Channel!Deliver, u

LEMMA ReadsOfTheLoop ==
  ASSUME NEW host, Serving(host), LoopStep, ~UnescapedIac
  PROVE  Reads
BY EscapedIacReads, DataByteReads, SubnegotiationByteReads, EndRecordReads,
   DropStandaloneReads, EndsOfSubnegotiationRead, ThreeByteCommandsRead DEF LoopStep

LEMMA HandlerKeeps ==
  ASSUME NEW host, Serving(host), HandlerStep \/ ReadSome \/ SocketConnected,
         UNCHANGED sentRecords
  PROVE  Serving(host)' /\ (Channel!Deliver \/ delivered' = delivered)
<1>1. /\ IInv /\ TypeOK /\ sentRecords \in Seq(Seq(Byte)) /\ host \in Quiet /\ Owes(host)
  BY DEF Serving, IInv
<1>2. IInv' /\ TypeOK'
  <2>1. Next
    BY DEF Next
  <2> QED
    BY <1>1, <2>1, NextIInv DEF IInv
<1>3. ASSUME Owes(host)', processed' = <<>>
      PROVE  Serving(host)'
  BY <1>1, <1>2, <1>3 DEF Serving
<1>4. CASE ReadSome
  BY <1>3, <1>4, ReadSomeKeeps
<1>5. CASE SocketConnected
  BY <1>3, <1>5, SocketConnectedKeeps
<1>6. CASE HandlerStep
  <2>1. wire' = wire /\ (LoopStep \/ FinishRead)
    BY <1>6 DEF HandlerStep, network
  <2>2. CASE FinishRead
    BY <1>3, <2>1, <2>2, FinishReadKeeps
  <2>3. CASE UnescapedIac
    BY <1>3, <2>1, <2>3, UnescapedIacKeeps
  <2>4. CASE LoopStep /\ ~UnescapedIac
    <3>1. Reads
      BY <2>4, ReadsOfTheLoop
    <3>2. PICK bytes, results : Reading(bytes, results) /\ AtMostOne(results)
      BY <3>1 DEF Reads
    <3>3. Owes(host)'
      BY <1>1, <1>2, <2>1, <3>2, ReadingKeeps
    <3>4. Serving(host)'
      BY <1>3, <3>1, <3>3 DEF Reads
    <3>5. delivered' = delivered \o results
      BY <3>2 DEF Reading
    <3>6. CASE results = <<>>
      <4>1. delivered \o <<>> = delivered
        BY <1>1, ConcatEmptySeq DEF TypeOK
      <4> QED
        BY <3>4, <3>5, <3>6, <4>1
    <3>7. ASSUME NEW r, results = <<r>>
          PROVE  Channel!Deliver
      BY <1>1, <3>4, <3>5, <3>7, OldestDelivered
    <3> QED
      BY <3>2, <3>4, <3>6, <3>7 DEF AtMostOne
  <2> QED
    BY <2>1, <2>2, <2>3, <2>4
<1> QED
  BY <1>4, <1>5, <1>6

\* The host's side.
LEMMA NegotiatedAll ==
  ASSUME Negotiates, NEW host, host \in Quiet, Negotiated(host), negotiating = {}
  PROVE  Collects(host)
BY SegmentsAre DEF Negotiated, Collects

LEMMA HostNegotiatesKeeps ==
  ASSUME Negotiates, SessionInv, HostNegotiates
  PROVE  SessionInv' /\ UNCHANGED <<sentRecords, delivered>>
<1>1. PICK host : Serving(host) /\ Negotiated(host)
  BY DEF SessionInv
<1>2. PICK segment \in negotiating :
        /\ HostWrites(segment) /\ negotiating' = negotiating \ {segment}
        /\ UNCHANGED sentRecords
  BY DEF HostNegotiates
<1>3. host \in Quiet /\ segment \in Handshake /\ sentRecords \in Seq(Seq(Byte))
  BY <1>1, <1>2 DEF SessionInv, Serving
<1>4. segment \in Seq(Byte)
  BY <1>3, SegmentRead
<1>5. PICK after \in Quiet : /\ ReadsTo(host, segment, <<>>, after)
                             /\ host.eor \/ Frames(segment) => after.eor
                             /\ host.complete \/ Completes(segment) => after.complete
  BY <1>3, SegmentRead
<1>6. Serving(after)' /\ delivered' = delivered
  <2>1. <<>> \in Seq(Seq(Byte)) /\ sentRecords' = sentRecords \o <<>>
    BY <1>2, <1>3, EmptySeq, ConcatEmptySeq
  <2> QED
    BY <1>1, <1>2, <1>4, <1>5, <2>1, HostWritesKeeps
<1>7. Negotiated(after)'
  BY <1>1, <1>2, <1>5 DEF Negotiated
<1> QED
  BY <1>2, <1>6, <1>7 DEF SessionInv

LEMMA SendRecordKeeps ==
  ASSUME Negotiates, SessionInv, NEW record \in RecordMenu, NEW encoded \in Seq(Byte),
         SendRecord(record, encoded),
         \A q \in Quiet : Collects(q) =>
           ReadsTo(q, encoded, <<RepairGdsRecordLength(record)>>, q)
  PROVE  SessionInv' /\ Channel!Send(RepairGdsRecordLength(record))
<1> DEFINE r == RepairGdsRecordLength(record)
<1>1. PICK host : Serving(host) /\ Negotiated(host)
  BY DEF SessionInv
<1>2. /\ negotiating = {} /\ HostWrites(encoded) /\ sentRecords' = Append(sentRecords, r)
      /\ negotiating' = negotiating
  BY DEF SendRecord
<1>3. host \in Quiet /\ Collects(host) /\ sentRecords \in Seq(Seq(Byte))
  BY <1>1, <1>2, NegotiatedAll DEF Serving
<1>4. ReadsTo(host, encoded, <<r>>, host)
  BY <1>3
<1>5. r \in Seq(Byte)
  BY RecordsAssumption, RepairType
<1> HIDE DEF r
<1>6. <<r>> \in Seq(Seq(Byte)) /\ sentRecords' = sentRecords \o <<r>>
  BY <1>2, <1>3, <1>5, Alone, AppendIsConcat
<1>7. Serving(host)' /\ delivered' = delivered
  BY <1>1, <1>2, <1>3, <1>4, <1>6, HostWritesKeeps
<1>8. Negotiated(host)'
  BY <1>1, <1>2 DEF Negotiated
<1>9. SessionInv'
  BY <1>2, <1>7, <1>8 DEF SessionInv
<1>10. Channel!Send(r)
  BY <1>2, <1>7 DEF Channel!Send
<1> QED
  BY <1>9, <1>10 DEF r

LEMMA EncodedType ==
  ASSUME NEW q, NEW bytes, NEW told, NEW r, ReadsTo(q, bytes, told, r)
  PROVE  bytes \in Seq(Byte)
BY ReaderIs DEF ReadsTo, Leads

LEMMA HostSendsKeeps ==
  ASSUME Negotiates, SessionInv, HostSendsRecord \/ HostSendsUnescaped
  PROVE  SessionInv' /\ \E r \in {RepairGdsRecordLength(s) : s \in RecordMenu} : Channel!Send(r)
<1>1. \A record \in RecordMenu : record \in Seq(Byte) /\ record # <<>>
  BY RecordsAssumption
<1>2. \E host \in Quiet : negotiating = {} => Collects(host)
  <2>1. PICK host : Serving(host) /\ Negotiated(host)
    BY DEF SessionInv
  <2> QED
    BY <2>1, NegotiatedAll DEF Serving
<1>3. ASSUME NEW record \in RecordMenu, SendRecord(record, EncodeRecord(record))
      PROVE  SessionInv' /\ Channel!Send(RepairGdsRecordLength(record))
  <2>1. \A q \in Quiet : Collects(q) =>
          ReadsTo(q, EncodeRecord(record), <<RepairGdsRecordLength(record)>>, q)
    BY <1>1, EncodedRecordRead
  <2>2. negotiating = {}
    BY <1>3 DEF SendRecord
  <2>3. EncodeRecord(record) \in Seq(Byte)
    BY <1>2, <2>1, <2>2, EncodedType
  <2> QED
    BY <1>3, <2>1, <2>3, SendRecordKeeps
<1>4. ASSUME NEW record \in RecordMenu, IsRecoverable(record),
             SendRecord(record, record \o <<IAC, EOR>>)
      PROVE  SessionInv' /\ Channel!Send(RepairGdsRecordLength(record))
  <2>1. \A q \in Quiet : Collects(q) =>
          ReadsTo(q, record \o <<IAC, EOR>>, <<RepairGdsRecordLength(record)>>, q)
    BY <1>1, <1>4, RecoverableRecordRead
  <2>2. negotiating = {}
    BY <1>4 DEF SendRecord
  <2>3. record \o <<IAC, EOR>> \in Seq(Byte)
    BY <1>2, <2>1, <2>2, EncodedType
  <2> QED
    BY <1>4, <2>1, <2>3, SendRecordKeeps
<1> QED
  BY <1>3, <1>4 DEF HostSendsRecord, HostSendsUnescaped

LEMMA HostSendsNopKeeps ==
  ASSUME SessionInv, HostSendsNop
  PROVE  SessionInv' /\ UNCHANGED <<sentRecords, delivered>>
<1>1. PICK host : Serving(host) /\ Negotiated(host)
  BY DEF SessionInv
<1>2. HostWrites(<<IAC, NOP>>) /\ UNCHANGED <<negotiating, sentRecords>>
  BY DEF HostSendsNop
<1>3. host \in Quiet /\ sentRecords \in Seq(Seq(Byte))
  BY <1>1 DEF Serving
<1>4. ReadsTo(host, <<IAC, NOP>>, <<>>, host)
  BY <1>3, NopRead
<1>5. <<IAC, NOP>> \in Seq(Byte)
  BY <1>4, EncodedType
<1>6. <<>> \in Seq(Seq(Byte)) /\ sentRecords' = sentRecords \o <<>>
  BY <1>2, <1>3, EmptySeq, ConcatEmptySeq
<1>7. Serving(host)' /\ delivered' = delivered
  BY <1>1, <1>2, <1>3, <1>4, <1>5, <1>6, HostWritesKeeps
<1>8. Negotiated(host)'
  BY <1>1, <1>2 DEF Negotiated
<1> QED
  BY <1>2, <1>7, <1>8 DEF SessionInv

\* Nothing happens.
LEMMA NothingKeeps ==
  ASSUME SessionInv, UNCHANGED sessionVars
  PROVE  SessionInv' /\ UNCHANGED <<sentRecords, delivered>>
<1>1. PICK host : Serving(host) /\ Negotiated(host)
  BY DEF SessionInv
<1>2. UNCHANGED vars /\ UNCHANGED <<negotiating, sentRecords>>
  BY DEF sessionVars
<1>3. /\ UNCHANGED <<status, subneg, records, app, receiveBuffer, wire>>
  BY <1>2 DEF vars, handlerVars, network
<1>4. IInv'
  <2>1. IInv
    BY <1>1 DEF Serving
  <2> QED
    BY <1>2, <2>1, NextIInv
<1>5. Standing' = Standing /\ delivered' = delivered /\ processed' = processed
  BY <1>3, StandingStays DEF status, subneg, app, records
<1>6. Owes(host)'
  BY <1>1, <1>2, <1>3, <1>5, OwesStays DEF Serving
<1>7. Serving(host)' /\ Negotiated(host)'
  BY <1>1, <1>2, <1>4, <1>5, <1>6 DEF Serving, Negotiated
<1> QED
  BY <1>2, <1>5, <1>7 DEF SessionInv

LEMMA SessionStep ==
  ASSUME Negotiates, SessionInv, [SessionNext]_sessionVars
  PROVE  SessionInv' /\ [Channel!Next]_(Channel!vars)
<1>1. CASE HostNegotiates
  BY <1>1, HostNegotiatesKeeps DEF Channel!vars
<1>2. CASE HostSendsRecord \/ HostSendsUnescaped
  BY <1>2, HostSendsKeeps DEF Channel!Next
<1>3. CASE HostSendsNop
  BY <1>3, HostSendsNopKeeps DEF Channel!vars
<1>4. CASE (HandlerStep \/ ReadSome \/ SocketConnected)
             /\ UNCHANGED <<negotiating, sentRecords>>
  <2>1. PICK host : Serving(host) /\ Negotiated(host)
    BY DEF SessionInv
  <2>2. Serving(host)' /\ (Channel!Deliver \/ delivered' = delivered)
    BY <1>4, <2>1, HandlerKeeps
  <2>3. Negotiated(host)'
    BY <1>4, <2>1 DEF Negotiated
  <2>4. SessionInv'
    BY <1>4, <2>2, <2>3 DEF SessionInv
  <2> QED
    BY <1>4, <2>2, <2>4 DEF Channel!Next, Channel!vars
<1>5. CASE UNCHANGED sessionVars
  BY <1>5, NothingKeeps DEF Channel!vars
<1> QED
  BY <1>1, <1>2, <1>3, <1>4, <1>5 DEF SessionNext

\* Whatever the records, the negotiation, the cuts TCP makes and the bounds,
\* each record reaches the application once, whole, in order and with the
\* length it is owed: the handler's loop over its receive buffer
\* (protocol_handler.cpp, processTelnetData, appendData and flushRecord) takes
\* out of the stream what the host put in, whichever way its 0xFF bytes were
\* written, and neither the negotiation nor a keep-alive ever shows up as data.
THEOREM RecordsAreWhole ==
  ASSUME Negotiates
  PROVE  SessionSpec => ImplementsRecordChannel
<1>1. SessionInit => SessionInv /\ Channel!Init
  BY SessionBegins DEF SessionInit, Init, Channel!Init
<1>2. SessionInv /\ [SessionNext]_sessionVars => SessionInv' /\ [Channel!Next]_(Channel!vars)
  BY SessionStep
<1> QED
  BY <1>1, <1>2, PTL DEF SessionSpec, ImplementsRecordChannel, Channel!Safety
==========================================================================
