---------------------------- MODULE ScreenProofs ----------------------------
(***************************************************************************)
(* From the host's messages to the application, for every menu of          *)
(* messages, every wrong length that does not end inside of a record, and  *)
(* every bound.                                                            *)
(*                                                                         *)
(* The repair of the record length changes nothing behind the length       *)
(* field, so that an application that keeps one message object has in it   *)
(* what all the messages held.                                             *)
(***************************************************************************)
EXTENDS CodecProofs, Screen

-----------------------------------------------------------------------------
(* A record that comes with a wrong length. *)

WalkStep(rec, g) ==
  [pos \in 0..Len(rec) |-> IF IsWholeAt(rec, pos) THEN g[pos + Length16(rec, pos)] ELSE pos]

WalkFrom(rec) == CHOOSE g : g = WalkStep(rec, g)

LEMMA WalkEndIsFrom == \A rec : WalkEnd(rec) = WalkFrom(rec)[0]
BY DEF WalkEnd, WalkFrom, WalkStep

LEMMA WholeGoesOn ==
  ASSUME NEW rec \in Seq(Byte), NEW pos \in 0..Len(rec), IsWholeAt(rec, pos)
  PROVE  /\ pos + Length16(rec, pos) \in 0..Len(rec) /\ Length16(rec, pos) \in Nat
         /\ Len(rec) - (pos + Length16(rec, pos)) < Len(rec) - pos
<1> DEFINE n == Length16(rec, pos)
<1>1. Len(rec) \in Nat /\ pos \in Nat /\ pos + 2 <= Len(rec)
  BY LenProperties DEF IsWholeAt
<1>2. n \in Nat
  <2>1. pos + 1 \in 1..Len(rec) /\ pos + 2 \in 1..Len(rec)
    BY <1>1
  <2>2. rec[pos + 1] \in Nat /\ rec[pos + 2] \in Nat
    BY <2>1, Payload
  <2> QED
    BY <2>2 DEF Length16
<1>3. n >= 6 /\ pos + n <= Len(rec)
  BY DEF IsWholeAt, GdsMinRecordLen
<1> HIDE DEF n
<1>4. pos + n \in 0..Len(rec) /\ Len(rec) - (pos + n) < Len(rec) - pos
  BY <1>1, <1>2, <1>3
<1> QED
  BY <1>2, <1>4 DEF n

LEMMA WalkUnrolled ==
  ASSUME NEW rec \in Seq(Byte)
  PROVE  WalkFrom(rec) = WalkStep(rec, WalkFrom(rec))
<1> DEFINE b  == Len(rec)
           D  == 0..b
           F  == [g \in [D -> D] |-> WalkStep(rec, g)]
           mu == [pos \in D |-> b - pos]
<1>1. b \in Nat /\ D # {}
  BY LenProperties
<1>2. mu \in [D -> Nat]
  BY <1>1
<1>3. ASSUME NEW g \in [D -> D]
      PROVE  WalkStep(rec, g) \in [D -> D]
  <2>1. ASSUME NEW pos \in D
        PROVE  (IF IsWholeAt(rec, pos) THEN g[pos + Length16(rec, pos)] ELSE pos) \in D
    <3>1. IsWholeAt(rec, pos) => pos + Length16(rec, pos) \in D
      BY WholeGoesOn
    <3> HIDE DEF D
    <3> QED
      BY <3>1
  <2> HIDE DEF D
  <2> QED
    BY <2>1 DEF WalkStep, D
<1>4. ASSUME NEW g \in [D -> D], NEW h \in [D -> D], NEW pos \in D,
             \A m \in D : mu[m] < mu[pos] => g[m] = h[m]
      PROVE  WalkStep(rec, g)[pos] = WalkStep(rec, h)[pos]
  <2>1. ASSUME IsWholeAt(rec, pos)
        PROVE  g[pos + Length16(rec, pos)] = h[pos + Length16(rec, pos)]
    <3> DEFINE m == pos + Length16(rec, pos)
    <3>1. m \in D /\ b - m < b - pos
      BY <2>1, WholeGoesOn
    <3> HIDE DEF m
    <3>2. mu[m] < mu[pos]
      BY <3>1
    <3> QED
      BY <1>4, <3>1, <3>2 DEF m
  <2>2. pos \in 0..Len(rec)
    OBVIOUS
  <2> HIDE DEF D
  <2> QED
    BY <2>1, <2>2 DEF WalkStep
<1>5. Descends(F, D, mu, D)
  <2>1. F \in [[D -> D] -> [D -> D]]
    <3> HIDE DEF D
    <3> QED
      BY <1>3
  <2> HIDE DEF D, mu
  <2> QED
    BY <1>2, <1>4, <2>1 DEF Descends
<1>6. \E g \in [D -> D] : F[g] = g
  <2> HIDE DEF F, D, mu
  <2>1. HasSolution(F, D, D)
    BY <1>1, <1>5, Solution, Zenon
  <2> QED
    BY <2>1 DEF HasSolution
<1>7. \E g : g = WalkStep(rec, g)
  <2> HIDE DEF D
  <2> QED
    BY <1>6
<1> QED
  BY <1>7 DEF WalkFrom

LEMMA WalkAtStart ==
  ASSUME NEW rec \in Seq(Byte)
  PROVE  /\ ~IsWholeAt(rec, 0) => WalkEnd(rec) = 0
         /\ IsWholeAt(rec, 0) /\ Length16(rec, 0) = Len(rec) => WalkEnd(rec) = Len(rec)
<1> DEFINE g == WalkFrom(rec)
           b == Len(rec)
<1>1. b \in Nat /\ 0 \in 0..b /\ b \in 0..b
  BY LenProperties
<1>2. \A pos \in 0..b : g[pos] = IF IsWholeAt(rec, pos) THEN g[pos + Length16(rec, pos)] ELSE pos
  BY WalkUnrolled DEF WalkStep
<1>3. WalkEnd(rec) = g[0]
  BY WalkEndIsFrom
<1> HIDE DEF g
<1>4. ~IsWholeAt(rec, b)
  BY <1>1 DEF IsWholeAt
<1>5. g[b] = b
  BY <1>1, <1>2, <1>4
<1>6. ~IsWholeAt(rec, 0) => g[0] = 0
  BY <1>1, <1>2
<1>7. IsWholeAt(rec, 0) /\ Length16(rec, 0) = b => g[0] = b
  <2>1. 0 + b = b
    BY <1>1
  <2> QED
    BY <1>1, <1>2, <1>5, <2>1
<1> QED
  BY <1>3, <1>6, <1>7

\* The same record with, perhaps, another length.
SameBehind(s, t) ==
  /\ t \in Seq(Byte) /\ Len(t) = Len(s)
  /\ \A i \in 3..Len(s) : t[i] = s[i]

LEMMA LengthPut ==
  ASSUME NEW s \in Seq(Byte), NEW len \in Nat, Len(s) >= 10
  PROVE  /\ SameBehind(s, WithLength(s, 0, len))
         /\ len <= GdsMaxRecordLen => Length16(WithLength(s, 0, len), 0) = len
<1> DEFINE n  == Len(s)
           hi == (len \div 256) % 256
           lo == len % 256
           t  == WithLength(s, 0, len)
<1>1. hi \in Byte /\ lo \in Byte /\ (len <= GdsMaxRecordLen => 256 * hi + lo = len)
  BY DEF Byte, GdsMaxRecordLen
<1>2. s \in [1..n -> Byte] /\ n \in Nat /\ n >= 10
  BY LenProperties
<1> HIDE DEF hi, lo, n
<1>3. t = [s EXCEPT ![1] = hi, ![2] = lo]
  <2>1. 0 + 1 = 1 /\ 0 + 2 = 2
    OBVIOUS
  <2> QED
    BY <2>1, Zenon DEF WithLength, hi, lo
<1> HIDE DEF t
<1>4. t \in [1..n -> Byte] /\ t[1] = hi /\ t[2] = lo /\ \A i \in 3..n : t[i] = s[i]
  BY <1>1, <1>2, <1>3
<1>5. t \in Seq(Byte) /\ Len(t) = n
  BY <1>2, <1>4
<1>6. SameBehind(s, t)
  BY <1>4, <1>5, Zenon DEF SameBehind, n
<1>7. Length16(t, 0) = 256 * hi + lo
  <2>1. 0 + 1 = 1 /\ 0 + 2 = 2
    OBVIOUS
  <2> QED
    BY <1>4, <2>1, Zenon DEF Length16
<1> QED
  BY <1>1, <1>6, <1>7, Zenon DEF t

LEMMA SameTwice ==
  ASSUME NEW s, NEW t, NEW u, SameBehind(s, t), SameBehind(t, u)
  PROVE  SameBehind(s, u)
BY DEF SameBehind

\* A length that is right, or does not end inside of the record, is not
\* followed: the repair changes nothing behind the length field.
LEMMA RepairKeepsTheRest ==
  ASSUME NEW s \in Seq(Byte), Len(s) >= 10,
         Length16(s, 0) = Len(s) \/ ~IsWholeAt(s, 0)
  PROVE  SameBehind(s, RepairGdsRecordLength(s))
<1> DEFINE pos == WalkEnd(s)
           n   == Len(s)
<1>1. n \in Nat
  BY LenProperties
<1>2. pos = 0 \/ pos = n
  BY WalkAtStart
<1>3. CASE pos = 0
  <2>1. n - pos = n
    BY <1>1, <1>3
  <2>2. SameBehind(s, WithLength(s, 0, n))
    BY <1>1, LengthPut
  <2>3. SameBehind(s, s)
    BY DEF SameBehind
  <2>4. RepairGdsRecordLength(s) = WithLength(s, 0, n) \/ RepairGdsRecordLength(s) = s
    BY <1>3, <2>1, Zenon DEF RepairGdsRecordLength
  <2> QED
    BY <2>2, <2>3, <2>4
<1>4. CASE pos = n
  <2>1. RepairGdsRecordLength(s) = s
    BY <1>4, Zenon DEF RepairGdsRecordLength
  <2> QED
    BY <2>1 DEF SameBehind
<1> QED
  BY <1>2, <1>3, <1>4

LEMMA SameLies ==
  ASSUME NEW s \in Seq(Byte), NEW t, SameBehind(s, t), NEW x \in Seq(Byte),
         NEW j \in Nat, j >= 3, Lies(s, j, x)
  PROVE  Lies(t, j, x)
<1> DEFINE n == Len(x)
           b == Len(s)
<1>1. n \in Nat /\ b \in Nat /\ Len(t) = b /\ EndOf(t) = EndOf(s) /\ EndOf(s) = b + 1
  <2>1. Len(t) = b
    BY DEF SameBehind
  <2> QED
    BY <2>1, LenProperties, Payload DEF EndOf
<1>2. j + n <= b + 1 /\ \A i \in 1..n : s[j + i - 1] = x[i]
  BY <1>1 DEF Lies
<1>3. \A i \in 3..b : t[i] = s[i]
  BY DEF SameBehind
<1> HIDE DEF n, b
<1>4. \A i \in 1..n : j + i - 1 \in 3..b
  BY <1>1, <1>2
<1>5. \A i \in 1..n : t[j + i - 1] = x[i]
  BY <1>2, <1>3, <1>4
<1>6. j + n <= EndOf(t)
  BY <1>1, <1>2
<1> QED
  BY <1>5, <1>6, Zenon DEF Lies, n

LEMMA SameCarries ==
  ASSUME NEW s \in Seq(Byte), NEW t, SameBehind(s, t), Len(s) >= 10,
         NEW header \in Seq(Byte), NEW varLen \in Nat, NEW variable \in Seq(Byte),
         NEW commands \in Seq(Commands), Carries(s, header, varLen, variable, commands)
  PROVE  Carries(t, header, varLen, variable, commands)
<1> DEFINE x == All(Sent, commands)
<1>1. Lies(s, 3, header) /\ s[7] = varLen /\ Lies(s, 8, variable) /\ Ends(s, 7 + varLen, x)
  BY Zenon DEF Carries
<1>2. x \in Seq(Byte)
  BY SentType, AllGrows
<1> HIDE DEF x
<1>3. Len(s) \in Nat /\ 7 \in 3..Len(s) /\ EndOf(t) = EndOf(s)
  BY LenProperties DEF EndOf, SameBehind
<1>4. t[7] = varLen
  BY <1>1, <1>3 DEF SameBehind
<1>5. Lies(t, 3, header) /\ Lies(t, 8, variable) /\ Lies(t, 7 + varLen, x)
  <2>1. 3 \in Nat /\ 8 \in Nat /\ 7 + varLen \in Nat /\ 3 >= 3 /\ 8 >= 3 /\ 7 + varLen >= 3
    OBVIOUS
  <2>2. Lies(s, 7 + varLen, x)
    BY <1>1 DEF Ends
  <2>3. \A j \in Nat, y \in Seq(Byte) : j >= 3 /\ Lies(s, j, y) => Lies(t, j, y)
    BY SameLies
  <2> QED
    BY <1>1, <1>2, <2>1, <2>2, <2>3, Zenon
<1>6. Ends(t, 7 + varLen, x)
  BY <1>1, <1>3, <1>5, Zenon DEF Ends
<1> QED
  BY <1>4, <1>5, <1>6, Zenon DEF Carries, x

\* A message that can be marshalled fits its length field.
LEMMA MarshalledFits ==
  ASSUME NEW m \in ReadableMessages, Marshal(m) # <<>>
  PROVE  Size(m) <= GdsMaxRecordLen
<1> DEFINE commands == m.commands
           varLen   == m.variableLength
           t        == All(Sent, commands)
           size     == Size(m)
<1>1. commands \in Seq(Commands) /\ varLen \in Nat /\ varLen >= 4
  <2>1. commands \in Seq(Commands) /\ varLen \in Byte /\ varLen >= 4
    BY DEF ReadableMessages, MessageShape
  <2> HIDE DEF varLen
  <2> QED
    BY <2>1 DEF Byte
<1>2. FlattenSeq([n \in DOMAIN commands |-> MarshalCommand(commands[n])]) = t
  <2> HIDE DEF commands
  <2> QED
    BY <1>1, PayloadIsAll
<1> HIDE DEF t
<1>4. (IF varLen < 4 THEN 4 ELSE varLen) = varLen
  <2> HIDE DEF varLen
  <2> QED
    BY <1>1
<1>5. size = 6 + varLen + Len(t)
  BY Zenon DEF Size, t
<1>6. size > GdsMaxRecordLen => Marshal(m) = <<>>
  BY <1>2, <1>4, <1>5, Zenon DEF Marshal, commands, varLen
<1>7. size \in Nat /\ GdsMaxRecordLen \in Nat
  BY SizeIsNat DEF GdsMaxRecordLen
<1> HIDE DEF size
<1>8. ~(size > GdsMaxRecordLen)
  BY <1>6
<1>9. \A x, y \in Nat : ~(x > y) => x <= y
  OBVIOUS
<1>10. size <= GdsMaxRecordLen
  BY <1>7, <1>8, <1>9, Zenon
<1> QED
  BY <1>10 DEF size

\* A record that holds the message.
Arrives(m, s) == s \in Seq(Byte) /\ Carries(s, m.header, m.variableLength, m.variable, m.commands)

LEMMA SameArrives ==
  ASSUME NEW m \in ReadableMessages, NEW s, Arrives(m, s), Len(s) >= 10, NEW t, SameBehind(s, t)
  PROVE  Arrives(m, t)
<1> DEFINE header   == m.header
           varLen   == m.variableLength
           variable == m.variable
           commands == m.commands
<1>1. header \in Seq(Byte) /\ varLen \in Byte /\ variable \in Seq(Byte) /\ commands \in Seq(Commands)
  BY DEF ReadableMessages, MessageShape
<1>2. s \in Seq(Byte) /\ Carries(s, header, varLen, variable, commands)
  BY Zenon DEF Arrives
<1> HIDE DEF header, varLen, variable, commands
<1>3. varLen \in Nat
  BY <1>1 DEF Byte
<1>4. Carries(t, header, varLen, variable, commands)
  BY <1>1, <1>2, <1>3, SameCarries
<1>5. t \in Seq(Byte)
  BY DEF SameBehind
<1> QED
  BY <1>4, <1>5, Zenon DEF Arrives, header, varLen, variable, commands

\* A record that the repair can put right: its length is right, or does not
\* end inside of it.
IsWritten(m, s) ==
  /\ Arrives(m, s) /\ Len(s) \in GdsHeaderSize..GdsMaxRecordLen
  /\ Length16(s, 0) = Len(s) \/ ~IsWholeAt(s, 0)

LEMMA MarshalledIsWritten ==
  ASSUME NEW m \in ReadableMessages, Marshal(m) # <<>>
  PROVE  /\ IsWritten(m, Marshal(m))
         /\ \A len \in 0..GdsMaxRecordLen :
              len \notin GdsMinRecordLen..(Len(Marshal(m)) - 1) =>
                IsWritten(m, WithLength(Marshal(m), 0, len))
<1> DEFINE s    == Marshal(m)
           size == Size(m)
<1>1. size <= GdsMaxRecordLen /\ size \in Nat /\ size >= 10
  BY MarshalledFits, SizeIsNat
<1>2. IsMarshalled(s, m)
  BY MarshalledFits, MarshalCarries
<1>3. Arrives(m, s) /\ s \in Seq(Byte) /\ Len(s) = size /\ Lies(s, 1, BigEndian16(size))
  BY <1>2, Zenon DEF IsMarshalled, Arrives
<1> HIDE DEF s, size
<1>4. Len(s) \in Nat /\ Len(s) >= 10 /\ Len(s) \in GdsHeaderSize..GdsMaxRecordLen
  BY <1>1, <1>3 DEF GdsHeaderSize, GdsMaxRecordLen
<1>5. Length16(s, 0) = Len(s)
  <2>1. 0 \in Nat /\ 1 = 0 + 1
    OBVIOUS
  <2>2. Length16(s, 0) = size
    BY <1>1, <1>3, <2>1, LengthReads
  <2> QED
    BY <1>3, <2>2
<1>6. IsWritten(m, s)
  BY <1>3, <1>4, <1>5, Zenon DEF IsWritten
<1>7. ASSUME NEW len \in 0..GdsMaxRecordLen, len \notin GdsMinRecordLen..(Len(s) - 1)
      PROVE  IsWritten(m, WithLength(s, 0, len))
  <2> DEFINE t == WithLength(s, 0, len)
  <2>1. len \in Nat /\ len <= GdsMaxRecordLen
    BY SMTT(60) DEF GdsMaxRecordLen
  <2>2. SameBehind(s, t) /\ Length16(t, 0) = len
    BY <1>3, <1>4, <2>1, LengthPut
  <2> HIDE DEF t
  <2>3. t \in Seq(Byte) /\ Len(t) = Len(s)
    BY <2>2 DEF SameBehind
  <2>4. Length16(t, 0) = Len(t) \/ ~IsWholeAt(t, 0)
    <3> DEFINE n == Len(s)
    <3>1. IsWholeAt(t, 0) => len >= GdsMinRecordLen /\ 0 + len <= n
      BY <2>2, <2>3, Zenon DEF IsWholeAt
    <3>2. GdsMinRecordLen \in Nat
      BY DEF GdsMinRecordLen
    <3> HIDE DEF n
    <3>3. n \in Nat /\ len \notin GdsMinRecordLen..(n - 1)
      BY <1>4, <1>7 DEF n
    <3>4. len >= GdsMinRecordLen /\ 0 + len <= n => len = n
      BY <2>1, <3>2, <3>3
    <3> QED
      BY <2>2, <2>3, <3>1, <3>4 DEF n
  <2>5. Arrives(m, t)
    BY <1>3, <1>4, <2>2, SameArrives
  <2>6. Len(t) \in GdsHeaderSize..GdsMaxRecordLen
    BY <1>4, <2>3, Zenon
  <2> QED
    BY <2>4, <2>5, <2>6, Zenon DEF IsWritten, t
<1> QED
  BY <1>6, <1>7 DEF s

LEMMA WrittenArrives ==
  ASSUME NEW m \in ReadableMessages, NEW s, IsWritten(m, s)
  PROVE  Arrives(m, RepairGdsRecordLength(s))
<1>1. s \in Seq(Byte) /\ Arrives(m, s) /\ (Length16(s, 0) = Len(s) \/ ~IsWholeAt(s, 0))
  BY Zenon DEF IsWritten, Arrives
<1>2. Len(s) >= 10
  <2> DEFINE n == Len(s)
  <2>1. n \in GdsHeaderSize..GdsMaxRecordLen
    BY Zenon DEF IsWritten
  <2> HIDE DEF n
  <2>2. n >= 10
    BY <2>1 DEF GdsHeaderSize, GdsMaxRecordLen
  <2> QED
    BY <2>2 DEF n
<1> QED
  BY <1>1, <1>2, RepairKeepsTheRest, SameArrives

-----------------------------------------------------------------------------
(* The message object of the application. *)

\* The commands of a message of the menu.
CommandsOf == [m \in MessageMenu |-> m.commands]

ReadingInv ==
  /\ message \in MessageShape /\ sentMessages \in Seq(MessageMenu)
  /\ message.commands = All(CommandsOf, sentMessages)
  /\ sentMessages # <<>> =>
       ~unread /\ message.variable = sentMessages[Len(sentMessages)].variable

\* A record that arrives is read into the message object.
Takes(m, rec) ==
  Unmarshal(message, rec) =
    [read |-> Len(rec),
     message |-> MessageOf(m.header, m.variableLength, m.variable, message.commands \o m.commands)]

LEMMA ArrivedIsTaken ==
  ASSUME NEW m \in ReadableMessages, NEW rec, Arrives(m, rec), message \in MessageShape
  PROVE  Takes(m, rec)
BY MarshalReads DEF Arrives, Takes

LEMMA HostSendsKeeps ==
  ASSUME MenuIsReadable, ReadingInv, NEW m \in MessageMenu, NEW rec, IsWritten(m, rec),
         HostSends(m, rec)
  PROVE  ReadingInv'
<1> DEFINE r        == RepairGdsRecordLength(rec)
           commands == m.commands
           variable == m.variable
           next     == MessageOf(m.header, m.variableLength, variable, message.commands \o commands)
<1>0. m \in ReadableMessages
  BY DEF MenuIsReadable
<1>1. Arrives(m, r)
  BY <1>0, WrittenArrives
<1>2. /\ message \in MessageShape /\ sentMessages \in Seq(MessageMenu)
      /\ message.commands = All(CommandsOf, sentMessages)
  BY DEF ReadingInv
<1>3. Unmarshal(message, r) = [read |-> Len(r), message |-> next]
  BY <1>0, <1>1, <1>2, ArrivedIsTaken, Zenon DEF Takes
<1>4. sentMessages' = Append(sentMessages, m) /\ message' = next /\ unread' = (Len(r) = 0)
  <2>1. /\ sentMessages' = Append(sentMessages, m)
        /\ message' = Unmarshal(message, r).message /\ unread' = (Unmarshal(message, r).read = 0)
    BY DEF HostSends, HandOver
  <2> HIDE DEF next
  <2>2. Unmarshal(message, r).message = next /\ Unmarshal(message, r).read = Len(r)
    BY <1>3
  <2> QED
    BY <2>1, <2>2
<1>5. Len(r) # 0
  <2>1. r \in Seq(Byte) /\ Carries(r, m.header, m.variableLength, variable, commands)
    BY <1>1, Zenon DEF Arrives
  <2>2. m.header \in Seq(Byte) /\ Len(m.header) = 4
    BY <1>0 DEF ReadableMessages, MessageShape
  <2>3. Lies(r, 3, m.header)
    BY <2>1, Zenon DEF Carries
  <2> DEFINE n == Len(r)
             h == Len(m.header)
  <2>4. n \in Nat /\ 3 + h <= n + 1 /\ h = 4
    BY <2>1, <2>2, <2>3, LenProperties DEF Lies, EndOf
  <2> HIDE DEF n, h
  <2>5. n # 0
    BY <2>4
  <2> QED
    BY <2>5 DEF n
<1>6. /\ m.header \in Seq(Byte) /\ m.variableLength \in Byte /\ variable \in Seq(Byte)
      /\ commands \in Seq(Commands)
  BY <1>0 DEF ReadableMessages, MessageShape
<1>7. message.commands \o commands \in Seq(Commands)
  <2>1. message.commands \in Seq(Commands)
    BY <1>2 DEF MessageShape
  <2> QED
    BY <1>6, <2>1, ConcatProperties
<1>8. /\ sentMessages' \in Seq(MessageMenu)
      /\ sentMessages'[Len(sentMessages')] = m
      /\ message.commands \o commands = All(CommandsOf, sentMessages')
  <2>1. MapsInto(CommandsOf, MessageMenu, Seq(Commands))
    <3>1. \A e \in MessageMenu : e.commands \in Seq(Commands)
      BY DEF MenuIsReadable, ReadableMessages, MessageShape
    <3> QED
      BY <3>1 DEF MapsInto, CommandsOf
  <2>2. All(CommandsOf, Append(sentMessages, m)) = All(CommandsOf, sentMessages) \o CommandsOf[m]
    BY <1>2, <2>1, AllGrows
  <2>3. CommandsOf[m] = commands
    BY DEF CommandsOf
  <2>4. /\ Append(sentMessages, m) \in Seq(MessageMenu)
        /\ Append(sentMessages, m)[Len(Append(sentMessages, m))] = m
    BY <1>2, AppendProperties, LenProperties
  <2> HIDE DEF commands
  <2> QED
    BY <1>2, <1>4, <2>2, <2>3, <2>4, Zenon
<1>9. next \in MessageShape /\ next.commands = message.commands \o commands /\ next.variable = variable
  <2> DEFINE h == m.header
             l == m.variableLength
             c == message.commands \o commands
  <2> HIDE DEF h, l, c, variable, commands
  <2>1. h \in Seq(Byte) /\ l \in Byte /\ variable \in Seq(Byte) /\ c \in Seq(Commands)
    BY <1>6, <1>7 DEF h, l, c
  <2>2. MessageOf(h, l, variable, c) \in MessageShape
    BY <2>1 DEF MessageOf, MessageShape
  <2>3. MessageOf(h, l, variable, c).commands = c /\ MessageOf(h, l, variable, c).variable = variable
    BY DEF MessageOf
  <2> QED
    BY <2>2, <2>3, Zenon DEF h, l, c
<1> HIDE DEF next
<1>10. /\ message' \in MessageShape /\ message'.commands = All(CommandsOf, sentMessages')
       /\ message'.variable = sentMessages'[Len(sentMessages')].variable /\ ~unread'
  BY <1>4, <1>5, <1>8, <1>9, Zenon DEF variable
<1> QED
  BY <1>8, <1>10, Zenon DEF ReadingInv

\* An application that keeps one message object finds in it, after each
\* record, the variable part of the last message and the commands of all of
\* them, in order: of any messages that are read as they were written, and
\* whatever lengths they came with that do not end inside of them
\* (message.cpp:71-90, protocol_handler.cpp:193-236).
THEOREM ReadingKeepsAll ==
  ASSUME MenuIsReadable, EndOutside(WrongLengths)
  PROVE  ScreenSpec => []ReadingAddsUp
<1>1. ScreenInit => ReadingInv
  <2> SUFFICES ASSUME ScreenInit PROVE ReadingInv
    OBVIOUS
  <2>1. sentMessages = <<>> /\ message = NewMessage
    BY DEF ScreenInit
  <2>2. NewMessage \in MessageShape /\ NewMessage.commands = <<>>
    BY NewIsEmpty
  <2>3. All(CommandsOf, <<>>) = <<>> /\ <<>> \in Seq(MessageMenu)
    <3>1. MapsInto(CommandsOf, MessageMenu, Seq(Commands))
      <4>1. \A e \in MessageMenu : e.commands \in Seq(Commands)
        BY DEF MenuIsReadable, ReadableMessages, MessageShape
      <4> QED
        BY <4>1 DEF MapsInto, CommandsOf
    <3>2. <<>> \in Seq(MessageMenu)
      BY EmptySeq
    <3> QED
      BY <3>1, <3>2, AllGrows
  <2> QED
    BY <2>1, <2>2, <2>3, Zenon DEF ReadingInv
<1>2. ReadingInv /\ [ScreenNext]_screenVars => ReadingInv'
  <2> SUFFICES ASSUME ReadingInv, [ScreenNext]_screenVars PROVE ReadingInv'
    OBVIOUS
  <2>1. CASE HostSendsMessage
    <3>1. PICK m \in MessageMenu : HostSends(m, Marshal(m))
      BY <2>1 DEF HostSendsMessage
    <3>2. m \in ReadableMessages /\ Marshal(m) # <<>>
      BY DEF MenuIsReadable
    <3>3. IsWritten(m, Marshal(m))
      BY <3>2, MarshalledIsWritten
    <3> QED
      BY <3>1, <3>3, HostSendsKeeps
  <2>2. CASE HostSendsWrongLength
    <3>1. PICK m \in MessageMenu, len \in WrongLengths : HostSends(m, WithLength(Marshal(m), 0, len))
      BY <2>2 DEF HostSendsWrongLength
    <3>2. m \in ReadableMessages /\ Marshal(m) # <<>>
      BY DEF MenuIsReadable
    <3>3. len \in 0..GdsMaxRecordLen /\ len \notin GdsMinRecordLen..(Len(Marshal(m)) - 1)
      BY DEF EndOutside
    <3>4. IsWritten(m, WithLength(Marshal(m), 0, len))
      BY <3>2, <3>3, MarshalledIsWritten
    <3> QED
      BY <3>1, <3>4, HostSendsKeeps
  <2>3. CASE UNCHANGED <<sentMessages, message, unread>>
    BY <2>3 DEF ReadingInv
  <2> QED
    BY <2>1, <2>2, <2>3 DEF ScreenNext, screenVars
<1>3. ReadingInv => ReadingAddsUp
  <2> SUFFICES ASSUME ReadingInv, sentMessages # <<>>
               PROVE  /\ ~unread
                      /\ message.variable = sentMessages[Len(sentMessages)].variable
                      /\ message.commands =
                           FlattenSeq([n \in DOMAIN sentMessages |-> sentMessages[n].commands])
    BY DEF ReadingAddsUp
  <2>1. /\ sentMessages \in Seq(MessageMenu) /\ message.commands = All(CommandsOf, sentMessages)
        /\ ~unread /\ message.variable = sentMessages[Len(sentMessages)].variable
    BY DEF ReadingInv
  <2>2. DOMAIN sentMessages = 1..Len(sentMessages)
    BY <2>1, LenProperties
  <2>3. \A n \in DOMAIN sentMessages : CommandsOf[sentMessages[n]] = sentMessages[n].commands
    BY <2>1, <2>2, ElementOfSeq DEF CommandsOf
  <2>4. Mapped(CommandsOf, sentMessages) = [n \in DOMAIN sentMessages |-> sentMessages[n].commands]
    BY <2>3 DEF Mapped
  <2> QED
    BY <2>1, <2>4, Zenon DEF All
<1> QED
  BY <1>1, <1>2, <1>3, PTL DEF ScreenSpec

-----------------------------------------------------------------------------
(* The decoder's walk over what was written. *)

\* A walk from w and one from u end in the same place.
SameEnd(w, u) == \A v : Over(v) => (Reaches(w, v) <=> Reaches(u, v))

LEMMA TurnKeepsEnd ==
  ASSUME NEW w, ~Over(w), NEW u, u = Goes(w)
  PROVE  SameEnd(w, u)
<1> SUFFICES ASSUME NEW v, Over(v)
             PROVE  Reaches(w, v) <=> Reaches(Goes(w), v)
  BY DEF SameEnd
<1>1. v # w
  OBVIOUS
<1> QED
  BY <1>1, ReachesOn

LEMMA SameEndAll ==
  /\ \A w : SameEnd(w, w)
  /\ \A w, u, x : SameEnd(w, u) /\ SameEnd(u, x) => SameEnd(w, x)
BY Zenon DEF SameEnd

InText(s, k, d, e)     == Walk("display", s, k, d, e)
InCommands(s, k, d, e) == Walk("commands", s, k, d, e)

LEMMA TextGoes ==
  ASSUME NEW s, NEW k, NEW d, NEW e
  PROVE  /\ ~Over(InText(s, k, d, e))
         /\ Goes(InText(s, k, d, e)) = DisplayTurn(s, k, d, e)
<1> DEFINE w == InText(s, k, d, e)
<1>1. w.mode = "display" /\ w.record = s /\ w.at = k /\ w.display = d /\ w.events = e
  BY DEF InText, Walk
<1> HIDE DEF w
<1>2. ~Over(w)
  BY <1>1 DEF Over, IsOver
<1>3. Goes(w) = DisplayTurn(w.record, w.at, w.display, w.events)
  BY <1>1, <1>2 DEF Goes
<1> QED
  BY <1>1, <1>2, <1>3, Zenon DEF w

LEMMA CommandsGoOn ==
  ASSUME NEW s, NEW k, NEW d, NEW e, ~IsOver("commands", s, k)
  PROVE  /\ ~Over(InCommands(s, k, d, e))
         /\ Goes(InCommands(s, k, d, e)) = CommandTurn(s, k, d, e)
<1> DEFINE w == InCommands(s, k, d, e)
<1>1. w.mode = "commands" /\ w.record = s /\ w.at = k /\ w.display = d /\ w.events = e
  BY DEF InCommands, Walk
<1> HIDE DEF w
<1>2. ~Over(w)
  BY <1>1 DEF Over
<1>3. Goes(w) = CommandTurn(w.record, w.at, w.display, w.events)
  BY <1>1, <1>2 DEF Goes
<1> QED
  BY <1>1, <1>2, <1>3, Zenon DEF w

LEMMA NothingAdded ==
  ASSUME NEW e, IsSequence(e)
  PROVE  e \o <<>> = e
<1>1. PICK S : e \in Seq(S)
  BY DEF IsSequence
<1> QED
  BY <1>1, ConcatEmptySeq

\* What is copied to the screen in one turn.
LEMMA CopyTurn ==
  ASSUME NEW s \in Seq(Byte), NEW k \in 1..EndOf(s), NEW d, NEW e, IsSequence(e),
         NEW x \in Seq(Byte), Lies(s, k, x), Len(x) >= 1, OrderEnd(s, k) = k + Len(x),
         s[k] \notin {ESC, SOH, OrderWDSF, StrpccmdTrigger}
  PROVE  SameEnd(InText(s, k, d, e), InText(s, k + Len(x), d \o x, e))
<1> DEFINE n == k + Len(x)
<1>1. /\ Len(x) \in Nat /\ Len(s) \in Nat /\ k \in Nat /\ EndOf(s) = Len(s) + 1 /\ n <= EndOf(s)
      /\ n \in Nat /\ Left(s, k) >= 1 /\ n - 1 = k + Len(x) - 1
  BY LenProperties DEF EndOf, Lies, Left
<1>2. Clamp(s, n) = n
  BY <1>1 DEF Clamp
<1>3. SubSeq(s, k, n - 1) = x
  <2>1. n - 1 \in Nat /\ n - 1 = k + Len(x) - 1
    BY <1>1
  <2>2. \A i \in Nat : i = k + Len(x) - 1 => Sits(s, k, i, x)
    BY LiesWhole
  <2> HIDE DEF n
  <2> QED
    BY <2>1, <2>2, Zenon DEF Sits
<1>4. e \o <<>> = e
  BY NothingAdded
<1>5. ~(Left(s, k) < 1) /\ s[k] # ESC /\ s[k] # SOH /\ s[k] # OrderWDSF /\ ~IsStrpccmd(s, k)
  BY <1>1 DEF IsStrpccmd, Left
<1>6. OrderEnd(s, k) = n
  OBVIOUS
<1> HIDE DEF n
<1>7. DisplayTurn(s, k, d, e) = InText(s, n, d \o x, e)
  BY <1>2, <1>3, <1>4, <1>5, <1>6, Zenon DEF DisplayTurn, InText
<1> QED
  BY <1>7, TextGoes, TurnKeepsEnd, Zenon DEF n

LEMMA TextIsText ==
  ASSUME NEW s \in Seq(Byte), NEW k \in 1..Len(s), s[k] \in TextBytes
  PROVE  /\ s[k] \notin {ESC, SOH, OrderWDSF, StrpccmdTrigger}
         /\ OrderEnd(s, k) = k + 1
<1>1. s[k] \notin {ESC, SOH, OrderWDSF, StrpccmdTrigger}
  BY DEF TextBytes
<1>2. s[k] \notin {OrderSBA, OrderIC, OrderMC, OrderRA, OrderEA, OrderTD, OrderSF}
  BY DEF TextBytes
<1>3. OrderEnd(s, k) = Clamp(s, k + 1)
  BY <1>2, OrderKinds
<1>4. Clamp(s, k + 1) = k + 1
  BY LenProperties DEF Clamp, EndOf
<1> QED
  BY <1>1, <1>3, <1>4

IsTextWalk(s, k, d, e, t) ==
  Lies(s, k, t) => SameEnd(InText(s, k, d, e), InText(s, k + Len(t), d \o t, e))

LEMMA TextWalk ==
  ASSUME NEW s \in Seq(Byte), NEW k \in 1..EndOf(s), NEW d \in Seq(Byte), NEW e, IsSequence(e)
  PROVE  \A t \in Seq(TextBytes) : IsTextWalk(s, k, d, e, t)
<1> DEFINE T == {t \in Seq(TextBytes) : IsTextWalk(s, k, d, e, t)}
<1>0. TextBytes \subseteq Byte /\ \A t \in Seq(TextBytes) : t \in Seq(Byte)
  BY SeqMonotonic DEF TextBytes
<1>1. <<>> \in T
  <2>1. <<>> \in Seq(TextBytes) /\ Len(<<>>) = 0 /\ k + 0 = k /\ d \o <<>> = d
    BY EmptySeq, ConcatEmptySeq
  <2>2. IsTextWalk(s, k, d, e, <<>>)
    BY <2>1, SameEndAll, Zenon DEF IsTextWalk
  <2> QED
    BY <2>1, <2>2
<1>2. ASSUME NEW t \in Seq(TextBytes), NEW b \in TextBytes, t \in T
      PROVE  Append(t, b) \in T
  <2> DEFINE u == Append(t, b)
             n == k + Len(t)
  <2>1. /\ t \in Seq(Byte) /\ b \in Byte /\ u \in Seq(TextBytes) /\ u \in Seq(Byte) /\ <<b>> \in Seq(Byte)
        /\ Len(u) = Len(t) + 1 /\ Len(t) \in Nat /\ Len(<<b>>) = 1
        /\ u = t \o <<b>> /\ u[Len(t) + 1] = b /\ <<b>>[1] = b
        /\ \A i \in 1..Len(t) : u[i] = t[i]
    <3>1. t \in Seq(Byte) /\ b \in Byte /\ u \in Seq(TextBytes)
      BY <1>0, AppendProperties
    <3> QED
      BY <1>0, <3>1, AppendProperties, AppendIsConcat, LenProperties
  <2>2. ASSUME Lies(s, k, u)
        PROVE  SameEnd(InText(s, k, d, e), InText(s, k + Len(u), d \o u, e))
    <3>1. Len(s) \in Nat /\ EndOf(s) = Len(s) + 1 /\ n + 1 <= EndOf(s) /\ n \in 1..Len(s)
      BY <2>1, <2>2, LenProperties DEF Lies, EndOf
    <3>2. Lies(s, k, t)
      BY <2>1, <2>2, <3>1 DEF Lies
    <3>3. s[n] = b
      <4>1. Len(t) + 1 \in 1..Len(u) /\ k + (Len(t) + 1) - 1 = n
        BY <2>1
      <4>2. s[k + (Len(t) + 1) - 1] = u[Len(t) + 1]
        BY <2>2, <4>1 DEF Lies
      <4> QED
        BY <2>1, <4>1, <4>2
    <3>4. Lies(s, n, <<b>>)
      BY <2>1, <3>1, <3>3 DEF Lies
    <3>5. SameEnd(InText(s, k, d, e), InText(s, n, d \o t, e))
      BY <1>2, <3>2, Zenon DEF IsTextWalk
    <3>6. s[n] \notin {ESC, SOH, OrderWDSF, StrpccmdTrigger} /\ OrderEnd(s, n) = n + 1
      BY <3>1, <3>3, TextIsText
    <3>7. n \in 1..EndOf(s)
      BY <3>1
    <3>8. SameEnd(InText(s, n, d \o t, e), InText(s, n + 1, (d \o t) \o <<b>>, e))
      <4> HIDE DEF n
      <4>1. OrderEnd(s, n) = n + Len(<<b>>) /\ Len(<<b>>) >= 1
        BY <2>1, <3>6
      <4>2. SameEnd(InText(s, n, d \o t, e), InText(s, n + Len(<<b>>), (d \o t) \o <<b>>, e))
        BY <2>1, <3>4, <3>6, <3>7, <4>1, CopyTurn
      <4> QED
        BY <2>1, <4>2
    <3>9. (d \o t) \o <<b>> = d \o u /\ n + 1 = k + Len(u)
      <4>1. (d \o t) \o <<b>> = d \o (t \o <<b>>)
        BY <2>1, Regroup DEF IsRegrouped
      <4> QED
        BY <2>1, <4>1
    <3> QED
      BY <3>5, <3>8, <3>9, SameEndAll, Zenon
  <2> HIDE DEF u
  <2> QED
    BY <2>1, <2>2, Zenon DEF IsTextWalk, T, u
<1> HIDE DEF T
<1>3. Seq(TextBytes) \subseteq T
  BY <1>1, <1>2, AppendInduction
<1> QED
  BY <1>3 DEF T

\* A head that is copied in one turn, and the text behind it.
LEMMA HeadAndText ==
  ASSUME NEW s \in Seq(Byte), NEW k \in 1..EndOf(s), NEW d \in Seq(Byte), NEW e, IsSequence(e),
         NEW h \in Seq(Byte), NEW t \in Seq(Byte), \A n \in 1..Len(t) : t[n] \in TextBytes,
         Lies(s, k, h \o t), Len(h) >= 1, OrderEnd(s, k) = k + Len(h),
         s[k] \notin {ESC, SOH, OrderWDSF, StrpccmdTrigger}
  PROVE  SameEnd(InText(s, k, d, e), InText(s, k + Len(h \o t), d \o (h \o t), e))
<1> DEFINE n == k + Len(h)
<1>1. Lies(s, k, h) /\ Lies(s, n, t) /\ n \in 1..EndOf(s) /\ k + Len(h \o t) = n + Len(t)
  BY LiesConcat
<1>2. t \in Seq(TextBytes)
  BY LenProperties, SeqDef
<1> HIDE DEF n
<1>3. SameEnd(InText(s, k, d, e), InText(s, n, d \o h, e))
  <2>1. SameEnd(InText(s, k, d, e), InText(s, k + Len(h), d \o h, e))
    BY <1>1, CopyTurn
  <2> QED
    BY <2>1 DEF n
<1>4. d \o h \in Seq(Byte)
  BY ConcatProperties
<1>5. SameEnd(InText(s, n, d \o h, e), InText(s, n + Len(t), (d \o h) \o t, e))
  BY <1>1, <1>2, <1>4, TextWalk DEF IsTextWalk
<1>6. (d \o h) \o t = d \o (h \o t)
  BY Regroup DEF IsRegrouped
<1> QED
  BY <1>1, <1>3, <1>5, <1>6, SameEndAll, Zenon

\* What an order shows: an event for a start of header, and its bytes for the
\* others.
Copied == [order \in Orders |-> IF order.code = SOH THEN <<>> ELSE MarshalOrder(order)]

SohShown(order) == <<<<"Soh", SubSeq(order.operands, 5, 8)>>>>

Headed == [order \in Orders |-> IF order.code = SOH THEN SohShown(order) ELSE <<>>]

\* The events a message can have in the decoder, besides the last.
ShownEvents ==
  {<<"ClearScreen">>, <<"KeyboardUnlock">>, <<"SaveScreen">>, <<"Read", CcReadMdtFields>>}
    \cup {<<"ControlCharacters", a, b>> : a \in Byte, b \in Byte}
    \cup {<<"Soh", f>> : f \in Seq(Byte)}

ShownOrders == {order \in Orders : IsShown(order)}

LEMMA OrdersShow ==
  /\ MapsInto(Copied, Orders, Seq(Byte)) /\ MapsInto(Headed, Orders, Seq(ShownEvents))
  /\ MapsInto(Written, Orders, Seq(Byte))
<1>1. \A order \in Orders : MarshalOrder(order) \in Seq(Byte) /\ order.operands \in Seq(Byte)
  BY OrderBytes DEF Orders
<1>2. <<>> \in Seq(Byte) /\ <<>> \in Seq(ShownEvents)
  BY EmptySeq
<1>3. ASSUME NEW order \in Orders, order.code = SOH PROVE SohShown(order) \in Seq(ShownEvents)
  <2> DEFINE f == SubSeq(order.operands, 5, 8)
  <2>1. order.operands \in Seq(Byte) /\ Len(order.operands) = 8
    BY <1>1, <1>3, CodecOrdersAre DEF Orders, Legible
  <2>2. f \in Seq(Byte)
    BY <2>1, SubSeqProperties
  <2> HIDE DEF f
  <2>3. <<"Soh", f>> \in ShownEvents
    BY <2>2 DEF ShownEvents
  <2> HIDE DEF ShownEvents
  <2>4. <<<<"Soh", f>>>> \in Seq(ShownEvents)
    BY <2>3, Alone
  <2> QED
    BY <2>4 DEF f, SohShown
<1> QED
  BY <1>1, <1>2, <1>3, WrittenType DEF MapsInto, Copied, Headed

LEMMA SohIsShown ==
  ASSUME NEW s \in Seq(Byte), NEW k \in 1..EndOf(s), NEW w \in Seq(Byte), Len(w) = 8, w[1] = 7,
         Lies(s, k + 1, w), s[k] = SOH
  PROVE  /\ SohEnd(s, k) = k + 9 /\ Left(s, k) >= 2
         /\ SohCallbacks(s, k) = <<<<"Soh", SubSeq(w, 5, 8)>>>>
<1>1. Len(s) \in Nat /\ EndOf(s) = Len(s) + 1 /\ k + 9 <= EndOf(s) /\ k \in Nat
  BY LenProperties DEF EndOf, Lies
<1>2. \A i \in 1..8 : s[k + i] = w[i]
  <2>1. \A i \in 1..8 : k + 1 + i - 1 = k + i
    BY <1>1
  <2>2. \A i \in 1..8 : s[k + 1 + i - 1] = w[i]
    BY DEF Lies
  <2> QED
    BY <2>1, <2>2
<1>3. s[k + 1] = 7
  BY <1>2
<1>4. Left(s, k) >= 2
  BY <1>1 DEF Left
<1>5. SohEnd(s, k) = k + 9
  BY <1>1, <1>3, <1>4 DEF SohEnd, Clamp
<1>6. SohFields(s, k) = [n \in 1..4 |-> w[n + 4]]
  <2>1. \A n \in 1..4 : /\ 7 >= 3 + n /\ k + 4 + n <= Len(s) /\ n + 4 \in 1..8
                          /\ k + 4 + n = k + (n + 4)
    BY <1>1
  <2>2. \A n \in 1..4 : s[k + 1] >= 3 + n /\ k + 4 + n <= Len(s) /\ s[k + 4 + n] = w[n + 4]
    BY <1>2, <1>3, <2>1
  <2> QED
    BY <2>2 DEF SohFields
<1>7. SubSeq(w, 5, 8) = [n \in 1..4 |-> w[n + 4]]
  <2> DEFINE f == SubSeq(w, 5, 8)
  <2>1. 5 \in 1..EndOf(w) /\ 8 \in Nat /\ 5 <= 8 + 1 /\ 8 <= Len(w) /\ 8 - 5 + 1 = 4
    BY DEF EndOf
  <2>2. f \in Seq(Byte) /\ Len(f) = 4 /\ \A i \in 1..4 : f[i] = w[5 + i - 1]
    BY <2>1, Sliced
  <2> HIDE DEF f
  <2>3. \A i \in 1..4 : 5 + i - 1 = i + 4
    OBVIOUS
  <2>4. f = [i \in 1..4 |-> f[i]]
    BY <2>2, LenProperties
  <2> QED
    BY <2>2, <2>3, <2>4 DEF f
<1>8. SohCallbacks(s, k) = <<<<"Soh", SohFields(s, k)>>>>
  BY <1>3 DEF SohCallbacks
<1> QED
  BY <1>4, <1>5, <1>6, <1>7, <1>8

IsOrderWalk(s, k, d, e, order) ==
  SameEnd(InText(s, k, d, e),
          InText(s, k + Len(MarshalOrder(order)), d \o Copied[order], e \o Headed[order]))

LEMMA SohWalk ==
  ASSUME NEW s \in Seq(Byte), NEW k \in 1..EndOf(s), NEW d \in Seq(Byte), NEW e,
         NEW order \in ShownOrders, order.code = SOH, Lies(s, k, MarshalOrder(order))
  PROVE  IsOrderWalk(s, k, d, e, order)
<1> DEFINE w == order.operands
           n == k + Len(MarshalOrder(order))
<1>1. order \in Orders /\ order \in OrderShape /\ w \in Seq(Byte) /\ Len(w) = 8 /\ w[1] = 7
  BY CodecOrdersAre DEF ShownOrders, Orders, Legible, OrderShape, IsShown
<1>2. order.data = <<>> /\ LengthOf(order) = <<>>
  BY <1>1, CodecOrdersAre DEF Orders, Legible, LengthOf
<1>3. s[k] = SOH /\ Lies(s, k + 1, w) /\ Len(MarshalOrder(order)) = 9
  <2>1. /\ s[k] = order.code /\ Lies(s, k + 1, w)
        /\ Len(MarshalOrder(order)) = 1 + Len(w) + Len(LengthOf(order)) + Len(order.data)
    BY <1>1, OrderLies
  <2> QED
    BY <1>1, <1>2, <2>1
<1>4. SohEnd(s, k) = n /\ Left(s, k) >= 2 /\ SohCallbacks(s, k) = SohShown(order)
  BY <1>1, <1>3, SohIsShown DEF SohShown
<1>5. Clamp(s, n) = n
  BY <1>3, LenProperties DEF Clamp, Lies, EndOf
<1>6. Copied[order] = <<>> /\ Headed[order] = SohShown(order) /\ d \o <<>> = d
  BY <1>1, ConcatEmptySeq DEF Copied, Headed
<1>7. ~(Left(s, k) < 1) /\ s[k] # ESC
  BY <1>3, <1>4, LenProperties DEF Left, EndOf, SOH, ESC
<1> HIDE DEF n
<1>8. DisplayTurn(s, k, d, e) = InText(s, n, d, e \o SohShown(order))
  BY <1>3, <1>4, <1>5, <1>7, Zenon DEF DisplayTurn, InText
<1>9. SameEnd(InText(s, k, d, e), InText(s, n, d, e \o SohShown(order)))
  BY <1>8, TextGoes, TurnKeepsEnd, Zenon
<1> QED
  BY <1>6, <1>9, Zenon DEF IsOrderWalk, n

\* The part of an order that the decoder copies in one turn: all but the text.
HeadLength(order) == 1 + Len(order.operands) + Len(LengthOf(order))

LEMMA HeadEnds ==
  ASSUME NEW s \in Seq(Byte), NEW k \in 1..EndOf(s), NEW order \in ShownOrders, order.code # SOH,
         Lies(s, k, MarshalOrder(order))
  PROVE  /\ OrderEnd(s, k) = k + HeadLength(order)
         /\ s[k] \notin {ESC, SOH, OrderWDSF, StrpccmdTrigger}
<1> DEFINE w == order.operands
           l == LengthOf(order)
           n == k + (1 + Len(w) + Len(l))
<1>1. /\ order \in OrderShape /\ order.code \in {OrderRA, OrderSBA, OrderSF}
      /\ Legible(order.code, w, order.data) /\ w \in Seq(Byte)
      /\ Len(l) = IF order.code = OrderSF THEN 2 ELSE 0
  <2>1. order \in OrderShape /\ order.code \in CodecOrders /\ order.code # CodecIC
        /\ Legible(order.code, w, order.data)
    BY DEF ShownOrders, Orders, OrderShape, IsShown
  <2>2. order.code \in {OrderRA, OrderSBA, OrderSF}
    BY <2>1 DEF CodecOrders
  <2> QED
    BY <2>1, <2>2, OrderBytes
<1>2. /\ s[k] = order.code /\ Lies(s, k + 1, w) /\ n <= EndOf(s) /\ n \in Nat
      /\ Len(s) \in Nat /\ EndOf(s) = Len(s) + 1 /\ Len(w) \in Nat /\ Len(l) \in Nat /\ k \in Nat /\ k >= 1
  <2> DEFINE x == order.data
  <2>1. /\ s[k] = order.code /\ Lies(s, k + 1, w) /\ Len(w) \in Nat /\ Len(l) \in Nat /\ Len(x) \in Nat
        /\ k + 1 + Len(w) + Len(l) + Len(x) <= EndOf(s)
    BY <1>1, OrderLies
  <2> HIDE DEF w, l, x
  <2> QED
    BY <2>1, LenProperties DEF EndOf
<1>3. s[k] \notin {ESC, SOH, OrderWDSF, StrpccmdTrigger}
  BY <1>1, <1>2 DEF OrderRA, OrderSBA, OrderSF, ESC, SOH, OrderWDSF, StrpccmdTrigger
<1>4. Clamp(s, n) = n
  <2> HIDE DEF n
  <2> QED
    BY <1>2 DEF Clamp
<1>5. CASE order.code = OrderRA
  <2>0. Len(w) = 3 /\ Len(l) = 0
    BY <1>1, <1>5 DEF Legible, OrderRA, OrderSF, SOH, CodecIC, OrderSBA
  <2>1. n = k + 4
    <3> HIDE DEF w, l
    <3> QED
      BY <1>2, <2>0
  <2>2. OrderEnd(s, k) = Clamp(s, k + 4)
    BY <1>2, <1>5, OrderKinds
  <2> QED
    BY <1>3, <1>4, <2>1, <2>2 DEF HeadLength
<1>6. CASE order.code = OrderSBA
  <2>0. Len(w) = 2 /\ Len(l) = 0
    BY <1>1, <1>6 DEF Legible, OrderRA, OrderSF, SOH, CodecIC, OrderSBA
  <2>1. n = k + 3
    <3> HIDE DEF w, l
    <3> QED
      BY <1>2, <2>0
  <2>2. OrderEnd(s, k) = Clamp(s, k + 3)
    BY <1>2, <1>6, OrderKinds
  <2> QED
    BY <1>3, <1>4, <2>1, <2>2 DEF HeadLength
<1>7. CASE order.code = OrderSF
  <2>1. IsField(w) /\ Len(l) = 2
    BY <1>1, <1>7 DEF Legible, OrderRA, OrderSF, SOH, CodecIC, OrderSBA
  <2>2. n = k + Len(w) + 3 /\ k + 2 + Len(w) <= EndOf(s)
    <3> HIDE DEF w, l
    <3> QED
      BY <1>2, <2>1
  <2>3. ControlWordsEnd(s, k + 3) = k + Len(w) /\ Len(w) >= 3
    BY <1>1, <1>2, <2>1, <2>2, FieldReach
  <2>4. OrderEnd(s, k) = Clamp(s, FieldEnd(s, k))
    BY <1>2, <1>7, OrderKinds
  <2> DEFINE a == k + Len(w)
  <2>5. a \in Nat /\ n = a + 3 /\ Left(s, k) >= 3 /\ a + 3 <= EndOf(s)
    BY <1>2, <2>2, <2>3 DEF Left
  <2> HIDE DEF a, n
  <2>6. Clamp(s, a + 1) = a + 1 /\ Left(s, a + 1) >= 2 /\ (a + 1) + 2 = n
    BY <1>2, <2>5 DEF Clamp, Left
  <2>7. ControlWordsEnd(s, k + 3) = a
    BY <2>3 DEF a
  <2>8. FieldEnd(s, k) = n
    BY <2>5, <2>6, <2>7, Zenon DEF FieldEnd
  <2> QED
    BY <1>3, <1>4, <2>4, <2>8 DEF HeadLength, n
<1> QED
  BY <1>1, <1>5, <1>6, <1>7

LEMMA OrderWalk ==
  ASSUME NEW s \in Seq(Byte), NEW k \in 1..EndOf(s), NEW d \in Seq(Byte), NEW e, IsSequence(e),
         NEW order \in ShownOrders, Lies(s, k, MarshalOrder(order))
  PROVE  IsOrderWalk(s, k, d, e, order)
<1>1. CASE order.code = SOH
  BY <1>1, SohWalk
<1>2. CASE order.code # SOH
  <2> DEFINE h == (<<order.code>> \o order.operands) \o LengthOf(order)
             t == order.data
  <2>1. order \in Orders /\ order \in OrderShape /\ \A n \in 1..Len(t) : t[n] \in TextBytes
    BY DEF ShownOrders, Orders, IsShown
  <2>2. /\ order.operands \in Seq(Byte) /\ t \in Seq(Byte) /\ LengthOf(order) \in Seq(Byte)
        /\ <<order.code>> \in Seq(Byte) /\ Len(<<order.code>>) = 1
        /\ MarshalOrder(order) = h \o t
    BY <2>1, OrderBytes
  <2>3. h \in Seq(Byte) /\ Len(h) = HeadLength(order) /\ Len(h) >= 1
    BY <2>2, Longer DEF HeadLength
  <2>4. OrderEnd(s, k) = k + Len(h) /\ s[k] \notin {ESC, SOH, OrderWDSF, StrpccmdTrigger}
    BY <1>2, <2>3, HeadEnds
  <2>5. Copied[order] = MarshalOrder(order) /\ Headed[order] = <<>> /\ e \o <<>> = e
    BY <1>2, <2>1, NothingAdded DEF Copied, Headed
  <2> HIDE DEF h, t
  <2>6. Lies(s, k, h \o t)
    BY <2>2
  <2>7. SameEnd(InText(s, k, d, e), InText(s, k + Len(h \o t), d \o (h \o t), e))
    BY <2>1, <2>2, <2>3, <2>4, <2>6, HeadAndText
  <2> QED
    BY <2>2, <2>5, <2>7, Zenon DEF IsOrderWalk
<1> QED
  BY <1>1, <1>2

OrdersAreShown(orders) ==
  /\ orders \in Seq(Orders)
  /\ All(Written, orders) \in Seq(Byte) /\ All(Copied, orders) \in Seq(Byte)
  /\ All(Headed, orders) \in Seq(ShownEvents)
  /\ \A order \in ShownOrders :
       /\ All(Written, Append(orders, order)) = All(Written, orders) \o MarshalOrder(order)
       /\ All(Copied, Append(orders, order)) = All(Copied, orders) \o Copied[order]
       /\ All(Headed, Append(orders, order)) = All(Headed, orders) \o Headed[order]

IsOrdersWalk(s, k, d, e, orders) ==
  Lies(s, k, All(Written, orders)) =>
    SameEnd(InText(s, k, d, e),
            InText(s, k + Len(All(Written, orders)), d \o All(Copied, orders),
                   e \o All(Headed, orders)))

LEMMA OrdersWalk ==
  ASSUME NEW s \in Seq(Byte), NEW k \in 1..EndOf(s), NEW d \in Seq(Byte), NEW e \in Seq(ShownEvents)
  PROVE  \A orders \in Seq(ShownOrders) : IsOrdersWalk(s, k, d, e, orders)
<1> DEFINE T == {orders \in Seq(ShownOrders) : IsOrdersWalk(s, k, d, e, orders)}
<1>0. \A orders \in Seq(ShownOrders) : OrdersAreShown(orders)
  <2> SUFFICES ASSUME NEW orders \in Seq(ShownOrders)
               PROVE  OrdersAreShown(orders)
    OBVIOUS
  <2>1. ShownOrders \subseteq Orders
    BY DEF ShownOrders
  <2>2. orders \in Seq(Orders)
    BY <2>1, SeqMonotonic
  <2>3. All(Written, orders) \in Seq(Byte) /\ \A order \in Orders :
          All(Written, Append(orders, order)) = All(Written, orders) \o Written[order]
    BY <2>2, OrdersShow, AllGrows
  <2>4. All(Copied, orders) \in Seq(Byte) /\ \A order \in Orders :
          All(Copied, Append(orders, order)) = All(Copied, orders) \o Copied[order]
    BY <2>2, OrdersShow, AllGrows
  <2>5. All(Headed, orders) \in Seq(ShownEvents) /\ \A order \in Orders :
          All(Headed, Append(orders, order)) = All(Headed, orders) \o Headed[order]
    BY <2>2, OrdersShow, AllGrows
  <2>6. \A order \in Orders : Written[order] = MarshalOrder(order)
    BY DEF Written
  <2> QED
    BY <2>1, <2>2, <2>3, <2>4, <2>5, <2>6, Zenon DEF OrdersAreShown
<1>1. <<>> \in T
  <2>1. <<>> \in Seq(ShownOrders) /\ <<>> \in Seq(Orders) /\ k + 0 = k /\ Len(<<>>) = 0
        /\ d \o <<>> = d /\ e \o <<>> = e
    BY EmptySeq, ConcatEmptySeq
  <2>2. All(Written, <<>>) = <<>> /\ All(Copied, <<>>) = <<>> /\ All(Headed, <<>>) = <<>>
    BY AllNone
  <2>3. IsOrdersWalk(s, k, d, e, <<>>)
    BY <2>1, <2>2, SameEndAll, Zenon DEF IsOrdersWalk
  <2> QED
    BY <2>1, <2>3
<1>2. ASSUME NEW orders \in Seq(ShownOrders), NEW order \in ShownOrders, orders \in T
      PROVE  Append(orders, order) \in T
  <2> DEFINE more == Append(orders, order)
             x    == All(Written, orders)
             y    == MarshalOrder(order)
             n    == k + Len(x)
             f    == d \o All(Copied, orders)
             g    == e \o All(Headed, orders)
  <2>1. /\ more \in Seq(ShownOrders) /\ order \in Orders
        /\ x \in Seq(Byte) /\ y \in Seq(Byte) /\ All(Written, more) = x \o y
        /\ f \in Seq(Byte) /\ g \in Seq(ShownEvents)
    BY <1>0, AppendProperties, OrdersShow, OrderBytes, ConcatProperties DEF ShownOrders, Orders, OrdersAreShown
  <2>2. f \o Copied[order] = d \o All(Copied, more) /\ g \o Headed[order] = e \o All(Headed, more)
    <3>1. Copied[order] \in Seq(Byte) /\ Headed[order] \in Seq(ShownEvents)
      BY <2>1, OrdersShow DEF MapsInto
    <3>2. (d \o All(Copied, orders)) \o Copied[order] = d \o (All(Copied, orders) \o Copied[order])
      <4>1. All(Copied, orders) \in Seq(Byte)
        BY <1>0 DEF OrdersAreShown
      <4>2. IsRegrouped(d, All(Copied, orders), Copied[order])
        BY <3>1, <4>1, Regroup, Zenon
      <4> QED
        BY <4>2, Zenon DEF IsRegrouped
    <3>3. (e \o All(Headed, orders)) \o Headed[order] = e \o (All(Headed, orders) \o Headed[order])
      <4>1. All(Headed, orders) \in Seq(ShownEvents)
        BY <1>0 DEF OrdersAreShown
      <4>2. IsRegrouped(e, All(Headed, orders), Headed[order])
        BY <3>1, <4>1, Regroup, Zenon
      <4> QED
        BY <4>2, Zenon DEF IsRegrouped
    <3> QED
      BY <1>0, <3>2, <3>3, Zenon DEF OrdersAreShown
  <2>3. IsSequence(g)
    BY <2>1 DEF IsSequence
  <2> HIDE DEF more, y, f, g
  <2>4. ASSUME Lies(s, k, x \o y)
        PROVE  SameEnd(InText(s, k, d, e),
                       InText(s, k + Len(x \o y), d \o All(Copied, more), e \o All(Headed, more)))
    <3> HIDE DEF x
    <3>1. Lies(s, k, x) /\ Lies(s, n, y) /\ n \in 1..EndOf(s) /\ k + Len(x \o y) = n + Len(y)
      BY <2>1, <2>4, LiesConcat
    <3>2. SameEnd(InText(s, k, d, e), InText(s, n, f, g))
      BY <1>2, <3>1, Zenon DEF IsOrdersWalk, x, f, g
    <3> HIDE DEF n
    <3>3. SameEnd(InText(s, n, f, g), InText(s, n + Len(y), f \o Copied[order], g \o Headed[order]))
      <4>1. IsOrderWalk(s, n, f, g, order)
        BY <2>1, <2>3, <3>1, OrderWalk DEF y
      <4> QED
        BY <4>1 DEF IsOrderWalk, y
    <3> QED
      BY <2>2, <3>1, <3>2, <3>3, SameEndAll, Zenon
  <2> HIDE DEF x, n
  <2>5. IsOrdersWalk(s, k, d, e, more)
    BY <2>1, <2>4, Zenon DEF IsOrdersWalk
  <2> QED
    BY <2>1, <2>5 DEF more
<1> HIDE DEF T
<1>3. Seq(ShownOrders) \subseteq T
  BY <1>1, <1>2, AppendInduction
<1> QED
  BY <1>3 DEF T

\* What a command shows.
Displayed == [command \in Commands |-> All(Copied, command.orders)]

Said == [command \in Commands |-> EventsOf(command)]

ShownCommands == {command \in Commands : command.orders \in Seq(ShownOrders)}

LEMMA OrdersMean ==
  ASSUME NEW orders \in Seq(Orders)
  PROVE  DisplayBytes(orders) = All(Copied, orders) /\ SohEventsOf(orders) = All(Headed, orders)
<1>1. \A n \in DOMAIN orders : orders[n] \in Orders
  BY LenProperties, ElementOfSeq
<1>2. Mapped(Copied, orders) =
        [n \in DOMAIN orders |-> IF orders[n].code = SOH THEN <<>> ELSE MarshalOrder(orders[n])]
  BY <1>1 DEF Mapped, Copied
<1>3. Mapped(Headed, orders) =
        [n \in DOMAIN orders |->
           IF orders[n].code = SOH THEN <<<<"Soh", SubSeq(orders[n].operands, 5, 8)>>>> ELSE <<>>]
  BY <1>1 DEF Mapped, Headed, SohShown
<1> QED
  BY <1>2, <1>3, Zenon DEF DisplayBytes, SohEventsOf, All

LEMMA CommandKinds ==
  ASSUME NEW command \in Commands
  PROVE  /\ command.orders \in Seq(Orders) /\ command.control \in Seq(Byte)
         /\ MarshalCommand(command) = CommandBytes(command.code, command.control, command.orders)
         /\ command.code \in {CcClearUnit, CcReadMdtFields, CcWriteToDisplay}
         /\ command.code = CcClearUnit =>
              /\ command.control = <<>> /\ command.orders = <<>>
              /\ CommandEvent(command) = <<"ClearScreen">> /\ UnlockEvents(command) = <<>>
         /\ command.code = CcReadMdtFields =>
              /\ command.control \in Pairs /\ command.orders = <<>>
              /\ CommandEvent(command) = <<"Read", CcReadMdtFields>> /\ UnlockEvents(command) = <<>>
         /\ command.code = CcWriteToDisplay =>
              /\ command.control \in Pairs
              /\ CommandEvent(command) =
                   <<"ControlCharacters", command.control[1], command.control[2]>>
              /\ UnlockEvents(command) =
                   IF UnlockBit(command.control[2]) THEN <<<<"KeyboardUnlock">>>> ELSE <<>>
<1> DEFINE code == command.code
<1>1. /\ command.orders \in Seq(Orders) /\ command.control \in Seq(Byte)
      /\ code \in {CcClearUnit, CcReadMdtFields, CcWriteToDisplay}
      /\ IsPlain(code, command.control, command.orders)
  BY DEF Commands, CommandShape
<1>2. MarshalCommand(command) = CommandBytes(code, command.control, command.orders)
  BY <1>1, CommandIsBytes
<1>3. CcClearUnit # CcReadMdtFields /\ CcClearUnit # CcWriteToDisplay /\ CcReadMdtFields # CcWriteToDisplay
  BY CodesAre
<1>4. code = CcClearUnit =>
        /\ command.control = <<>> /\ command.orders = <<>>
        /\ CommandEvent(command) = <<"ClearScreen">> /\ UnlockEvents(command) = <<>>
  BY <1>1, <1>3 DEF IsPlain, CommandEvent, UnlockEvents
<1>5. code = CcReadMdtFields =>
        /\ command.control \in Pairs /\ command.orders = <<>>
        /\ CommandEvent(command) = <<"Read", CcReadMdtFields>> /\ UnlockEvents(command) = <<>>
  BY <1>1, <1>3 DEF IsPlain, CommandEvent, UnlockEvents
<1>6. code = CcWriteToDisplay =>
        /\ command.control \in Pairs
        /\ CommandEvent(command) = <<"ControlCharacters", command.control[1], command.control[2]>>
        /\ UnlockEvents(command) =
             IF UnlockBit(command.control[2]) THEN <<<<"KeyboardUnlock">>>> ELSE <<>>
  BY <1>1, <1>3 DEF IsPlain, CommandEvent, UnlockEvents
<1> QED
  BY <1>1, <1>2, <1>4, <1>5, <1>6, Zenon

LEMMA CommandsShow ==
  /\ MapsInto(Displayed, Commands, Seq(Byte)) /\ MapsInto(Said, Commands, Seq(ShownEvents))
  /\ MapsInto(Sent, Commands, Seq(Byte))
<1>1. ASSUME NEW command \in Commands
      PROVE  /\ All(Copied, command.orders) \in Seq(Byte)
             /\ EventsOf(command) \in Seq(ShownEvents)
  <2> DEFINE orders  == command.orders
             control == command.control
             event   == CommandEvent(command)
             unlock  == UnlockEvents(command)
  <2>1. orders \in Seq(Orders)
    BY CommandKinds
  <2>2. All(Copied, orders) \in Seq(Byte) /\ All(Headed, orders) \in Seq(ShownEvents)
        /\ SohEventsOf(orders) = All(Headed, orders)
    BY <2>1, OrdersShow, AllGrows, OrdersMean
  <2>3. /\ <<"ClearScreen">> \in ShownEvents /\ <<"KeyboardUnlock">> \in ShownEvents
        /\ <<"Read", CcReadMdtFields>> \in ShownEvents
        /\ \A a, b \in Byte : <<"ControlCharacters", a, b>> \in ShownEvents
    BY DEF ShownEvents
  <2>4. command.code = CcWriteToDisplay => control[1] \in Byte /\ control[2] \in Byte
    BY CommandKinds DEF Pairs
  <2>5. event \in ShownEvents
    BY <2>3, <2>4, CommandKinds
  <2>6. unlock = <<>> \/ unlock = <<<<"KeyboardUnlock">>>>
    BY CommandKinds
  <2>7. <<event>> \in Seq(ShownEvents) /\ unlock \in Seq(ShownEvents)
    BY <2>3, <2>5, <2>6, Alone, EmptySeq
  <2>8. \A a, b, c \in Seq(ShownEvents) : (a \o b) \o c \in Seq(ShownEvents)
    BY ConcatProperties
  <2> HIDE DEF event, unlock, orders
  <2>9. (<<event>> \o unlock) \o SohEventsOf(orders) \in Seq(ShownEvents)
    BY <2>2, <2>7, <2>8
  <2> QED
    BY <2>2, <2>9, Zenon DEF EventsOf, event, unlock, orders
<1> QED
  BY <1>1, SentType DEF MapsInto, Displayed, Said

LEMMA OneCommandTurn ==
  ASSUME NEW s \in Seq(Byte), NEW k \in 1..EndOf(s), NEW d, NEW e, Left(s, k) >= 2, s[k] = ESC,
         s[k + 1] # CcWriteToDisplay, NEW n, n = CommandEnd(s, k), Clamp(s, n) = n,
         NEW callbacks, callbacks = CommandCallbacks(s, k)
  PROVE  SameEnd(InCommands(s, k, d, e), InCommands(s, n, d, e \o callbacks))
<1>1. ~IsOver("commands", s, k)
  <2>1. Left(s, k) \in Int
    BY LenProperties DEF Left, EndOf
  <2> QED
    BY <2>1 DEF IsOver
<1>2. s[k] # SOH
  BY DEF ESC, SOH
<1>3. CommandTurn(s, k, d, e) = InCommands(s, n, d, e \o callbacks)
  BY <1>2, Zenon DEF CommandTurn, InCommands
<1> QED
  BY <1>1, <1>3, CommandsGoOn, TurnKeepsEnd, Zenon

\* The Write To Display at k is opened.
LEMMA OpenTurn ==
  ASSUME NEW s \in Seq(Byte), NEW k \in 1..EndOf(s), NEW d, NEW e, Left(s, k) >= 4, s[k] = ESC,
         s[k + 1] = CcWriteToDisplay
  PROVE  SameEnd(InCommands(s, k, d, e), InText(s, k + 4, d, e \o WtdCallbacks(s, k)))
<1>1. Left(s, k) \in Int /\ Clamp(s, k + 4) = k + 4
  BY LenProperties DEF Left, EndOf, Clamp
<1>2. ~IsOver("commands", s, k)
  BY <1>1 DEF IsOver
<1>3. s[k] # SOH
  BY DEF ESC, SOH
<1>4. CommandTurn(s, k, d, e) = InText(s, k + 4, d, e \o WtdCallbacks(s, k))
  BY <1>1, <1>3, Zenon DEF CommandTurn, InText
<1> QED
  BY <1>2, <1>4, CommandsGoOn, TurnKeepsEnd, Zenon

LEMMA CloseTurn ==
  ASSUME NEW s, NEW k, Left(s, k) = 0, NEW d, NEW e
  PROVE  SameEnd(InText(s, k, d, e), InCommands(s, k, d, e))
<1>1. Left(s, k) < 1
  OBVIOUS
<1>2. DisplayTurn(s, k, d, e) = InCommands(s, k, d, e)
  BY <1>1, Zenon DEF DisplayTurn, InCommands
<1> QED
  BY <1>2, TextGoes, TurnKeepsEnd, Zenon

IsCommandWalk(s, k, d, e, command) ==
  SameEnd(InCommands(s, k, d, e),
          InCommands(s, k + Len(MarshalCommand(command)), d \o Displayed[command], e \o Said[command]))

\* A command without orders shows one event.
LEMMA PlainIsSaid ==
  ASSUME NEW command \in Commands, command.orders = <<>>, UnlockEvents(command) = <<>>, NEW d \in Seq(Byte)
  PROVE  Said[command] = <<CommandEvent(command)>> /\ d \o Displayed[command] = d
<1> DEFINE event == CommandEvent(command)
<1>1. <<>> \in Seq(Orders)
  BY EmptySeq
<1>2. SohEventsOf(<<>>) = <<>> /\ All(Copied, <<>>) = <<>>
  BY <1>1, AllNone, OrdersMean
<1>3. \A x : (<<x>> \o <<>>) \o <<>> = <<x>>
  <2> SUFFICES ASSUME NEW x PROVE (<<x>> \o <<>>) \o <<>> = <<x>>
    OBVIOUS
  <2>1. <<x>> \in Seq({x})
    BY Alone
  <2> QED
    BY <2>1, ConcatEmptySeq
<1>4. Said[command] = (<<event>> \o UnlockEvents(command)) \o SohEventsOf(command.orders)
  BY Zenon DEF Said, EventsOf
<1> HIDE DEF event
<1>5. Said[command] = <<event>>
  BY <1>2, <1>3, <1>4
<1>6. Displayed[command] = <<>>
  BY <1>2 DEF Displayed
<1>7. d \o <<>> = d
  BY ConcatEmptySeq
<1> QED
  BY <1>5, <1>6, <1>7, Zenon DEF event

LEMMA CommandWalk ==
  ASSUME NEW s \in Seq(Byte), NEW k \in 1..EndOf(s), NEW d \in Seq(Byte), NEW e \in Seq(ShownEvents),
         NEW command \in ShownCommands, Lies(s, k, MarshalCommand(command)),
         command.code = CcWriteToDisplay => k + Len(MarshalCommand(command)) = EndOf(s)
  PROVE  IsCommandWalk(s, k, d, e, command)
<1> DEFINE code    == command.code
           control == command.control
           orders  == command.orders
           bytes   == MarshalCommand(command)
           n       == k + Len(bytes)
<1>1. /\ command \in Commands /\ orders \in Seq(Orders) /\ orders \in Seq(ShownOrders)
      /\ control \in Seq(Byte) /\ bytes = CommandBytes(code, control, orders)
      /\ code \in {CcClearUnit, CcReadMdtFields, CcWriteToDisplay} /\ code \in Byte
  BY CommandKinds, CodesAre DEF ShownCommands
<1>2. /\ s[k] = ESC /\ s[k + 1] = code /\ k + 2 \in 1..EndOf(s)
      /\ Lies(s, k + 2, control) /\ k + 2 + Len(control) \in 1..EndOf(s)
      /\ Lies(s, k + 2 + Len(control), All(Written, orders))
      /\ n = (k + 2 + Len(control)) + Len(All(Written, orders))
  <2>1. Lies(s, k, CommandBytes(code, control, orders))
    BY <1>1
  <2>2. n = k + Len(CommandBytes(code, control, orders))
    BY <1>1
  <2> HIDE DEF n, bytes, code, control, orders
  <2> QED
    BY <1>1, <2>1, <2>2, CommandLies
<1>3. k \in Nat /\ EndOf(s) \in Nat /\ Left(s, k) = EndOf(s) - k /\ Left(s, k) >= 2
  BY <1>2, LenProperties DEF Left, EndOf
<1>4. CASE code = CcClearUnit
  <2>1. control = <<>> /\ orders = <<>> /\ UnlockEvents(command) = <<>>
        /\ CommandEvent(command) = <<"ClearScreen">>
    BY <1>1, <1>4, CommandKinds
  <2>2. All(Written, <<>>) = <<>>
    BY AllNone
  <2>3. n = k + 2 /\ Clamp(s, k + 2) = k + 2
    BY <1>2, <1>3, <2>1, <2>2 DEF Clamp
  <2>4. s[k + 1] = CcClearUnit /\ s[k + 1] # CcWriteToDisplay
    BY <1>2, <1>4, CodesAre
  <2>5. CommandEnd(s, k) = k + 2
    BY <2>4 DEF CommandEnd
  <2>6. CommandCallbacks(s, k) = <<<<"ClearScreen">>>>
    BY <2>4, Zenon DEF CommandCallbacks
  <2>7. SameEnd(InCommands(s, k, d, e), InCommands(s, k + 2, d, e \o <<<<"ClearScreen">>>>))
    BY <1>2, <1>3, <2>3, <2>4, <2>5, <2>6, OneCommandTurn
  <2>8. Said[command] = <<<<"ClearScreen">>>> /\ d \o Displayed[command] = d
    BY <1>1, <2>1, PlainIsSaid
  <2> QED
    BY <2>3, <2>7, <2>8, Zenon DEF IsCommandWalk, n
<1>5. CASE code = CcReadMdtFields
  <2>1. control \in Pairs /\ orders = <<>> /\ UnlockEvents(command) = <<>>
        /\ CommandEvent(command) = <<"Read", CcReadMdtFields>>
    BY <1>1, <1>5, CommandKinds
  <2>2. All(Written, <<>>) = <<>> /\ Len(control) = 2
    BY <2>1, AllNone DEF Pairs
  <2>3. n = k + 4 /\ Clamp(s, k + 4) = k + 4
    <3>1. Len(All(Written, orders)) = 0
      BY <2>1, <2>2
    <3>2. n = k + 4 /\ k + 4 <= EndOf(s)
      <4> HIDE DEF n, control, orders
      <4> QED
        BY <1>2, <1>3, <2>2, <3>1
    <3> QED
      BY <1>3, <3>2 DEF Clamp
  <2>4. s[k + 1] = CcReadMdtFields /\ s[k + 1] # CcWriteToDisplay
    BY <1>2, <1>5, CodesAre
  <2>5. /\ CcReadMdtFields \notin {CcClearUnit, CcClearUnitAlternate, CcClearFormatTable}
        /\ CcReadMdtFields \in CcReadCommands
    BY DEF CcReadMdtFields, CcClearUnit, CcClearUnitAlternate, CcClearFormatTable, CcReadCommands
  <2>6. CommandEnd(s, k) = k + 4
    BY <2>4, <2>5, Zenon DEF CommandEnd
  <2>7. CommandCallbacks(s, k) = <<<<"Read", CcReadMdtFields>>>>
    <3>1. /\ s[k + 1] # CcClearUnit /\ s[k + 1] # CcClearUnitAlternate
          /\ s[k + 1] # CcClearFormatTable /\ s[k + 1] \in CcReadCommands
      BY <2>4, <2>5
    <3> QED
      BY <2>4, <3>1, Zenon DEF CommandCallbacks
  <2>8. SameEnd(InCommands(s, k, d, e), InCommands(s, k + 4, d, e \o <<<<"Read", CcReadMdtFields>>>>))
    BY <1>2, <1>3, <2>3, <2>4, <2>6, <2>7, OneCommandTurn
  <2>9. Said[command] = <<<<"Read", CcReadMdtFields>>>> /\ d \o Displayed[command] = d
    BY <1>1, <2>1, PlainIsSaid
  <2> QED
    BY <2>3, <2>8, <2>9, Zenon DEF IsCommandWalk, n
<1>6. CASE code = CcWriteToDisplay
  <2> DEFINE x == All(Written, orders)
             c == WtdCallbacks(s, k)
  <2>1. control \in Pairs
        /\ CommandEvent(command) = <<"ControlCharacters", control[1], control[2]>>
        /\ UnlockEvents(command) = IF UnlockBit(control[2]) THEN <<<<"KeyboardUnlock">>>> ELSE <<>>
    BY <1>1, <1>6, CommandKinds
  <2>2. Len(control) = 2
    BY <2>1 DEF Pairs
  <2>3. <<s[k + 2], s[k + 3]>> = control /\ ~(Left(s, k) < 4) /\ k + 4 \in 1..EndOf(s)
    BY <1>2, <2>1, ControlReads
  <2>4. s[k + 2] = control[1] /\ s[k + 3] = control[2] /\ Left(s, k) >= 4 /\ k + 2 + Len(control) = k + 4
    <3>1. <<s[k + 2], s[k + 3]>>[1] = s[k + 2] /\ <<s[k + 2], s[k + 3]>>[2] = s[k + 3]
      OBVIOUS
    <3>2. s[k + 2] = control[1] /\ s[k + 3] = control[2]
      BY <2>3, <3>1, Zenon
    <3> HIDE DEF control
    <3> QED
      BY <1>3, <2>2, <2>3, <3>2
  <2>5. c = <<CommandEvent(command)>> \o UnlockEvents(command)
    BY <2>1, <2>4, Zenon DEF WtdCallbacks
  <2>6. SameEnd(InCommands(s, k, d, e), InText(s, k + 4, d, e \o c))
    BY <1>2, <1>3, <1>6, <2>4, OpenTurn
  <2>7. c \in Seq(ShownEvents)
    <3>1. /\ <<"KeyboardUnlock">> \in ShownEvents
          /\ \A a, b \in Byte : <<"ControlCharacters", a, b>> \in ShownEvents
      BY DEF ShownEvents
    <3>2. control[1] \in Byte /\ control[2] \in Byte
      BY <2>1 DEF Pairs
    <3>3. UnlockEvents(command) \in Seq(ShownEvents) /\ <<CommandEvent(command)>> \in Seq(ShownEvents)
      BY <2>1, <3>1, <3>2, Alone, EmptySeq
    <3> QED
      BY <2>5, <3>3, ConcatProperties
  <2> HIDE DEF c
  <2> DEFINE g == e \o c
  <2>8. g \in Seq(ShownEvents)
    BY <2>7, ConcatProperties
  <2>9. Lies(s, k + 4, x) /\ (k + 4) + Len(x) = n
    BY <1>2, <2>4
  <2> HIDE DEF g, x, n
  <2>10. SameEnd(InText(s, k + 4, d, g), InText(s, n, d \o All(Copied, orders), g \o All(Headed, orders)))
    <3>1. IsOrdersWalk(s, k + 4, d, g, orders)
      BY <1>1, <2>3, <2>8, OrdersWalk
    <3> QED
      BY <2>9, <3>1, Zenon DEF IsOrdersWalk, x
  <2>11. Left(s, n) = 0
    <3>1. n = EndOf(s)
      BY <1>6 DEF n
    <3> QED
      BY <1>3, <3>1 DEF Left
  <2>12. SameEnd(InText(s, n, d \o All(Copied, orders), g \o All(Headed, orders)),
                 InCommands(s, n, d \o All(Copied, orders), g \o All(Headed, orders)))
    BY <2>11, CloseTurn
  <2>13. g \o All(Headed, orders) = e \o Said[command] /\ All(Copied, orders) = Displayed[command]
    <3>1. All(Headed, orders) \in Seq(ShownEvents) /\ SohEventsOf(orders) = All(Headed, orders)
      BY <1>1, OrdersShow, AllGrows, OrdersMean
    <3>2. Said[command] = c \o All(Headed, orders)
      <4>1. Said[command] = (<<CommandEvent(command)>> \o UnlockEvents(command)) \o SohEventsOf(orders)
        BY <1>1, Zenon DEF Said, EventsOf
      <4> QED
        BY <2>5, <3>1, <4>1, Zenon
    <3>3. IsRegrouped(e, c, All(Headed, orders))
      BY <2>7, <3>1, Regroup, Zenon
    <3>4. All(Copied, orders) = Displayed[command]
      BY <1>1 DEF Displayed
    <3> QED
      BY <3>2, <3>3, <3>4, Zenon DEF IsRegrouped, g
  <2>14. SameEnd(InCommands(s, k, d, e), InText(s, k + 4, d, g))
    BY <2>6 DEF g
  <2> QED
    BY <2>10, <2>12, <2>13, <2>14, SameEndAll, Zenon DEF IsCommandWalk, n
<1> QED
  BY <1>1, <1>4, <1>5, <1>6

\* A Write To Display takes the rest of the record.
LastAtEnd(s, k, commands) ==
  \A n \in 1..Len(commands) : commands[n].code = CcWriteToDisplay =>
    n = Len(commands) /\ k + Len(All(Sent, commands)) = EndOf(s)

IsCommandsWalk(s, k, d, e, commands) ==
  Lies(s, k, All(Sent, commands)) /\ LastAtEnd(s, k, commands) =>
    SameEnd(InCommands(s, k, d, e),
            InCommands(s, k + Len(All(Sent, commands)),
                       d \o All(Displayed, commands), e \o All(Said, commands)))

CommandsAreShown(commands) ==
  /\ commands \in Seq(Commands)
  /\ All(Sent, commands) \in Seq(Byte) /\ All(Displayed, commands) \in Seq(Byte)
  /\ All(Said, commands) \in Seq(ShownEvents)
  /\ \A command \in ShownCommands :
       /\ All(Sent, Append(commands, command)) = All(Sent, commands) \o MarshalCommand(command)
       /\ All(Displayed, Append(commands, command)) = All(Displayed, commands) \o Displayed[command]
       /\ All(Said, Append(commands, command)) = All(Said, commands) \o Said[command]

LEMMA ShownCommandsAre ==
  ASSUME NEW commands \in Seq(ShownCommands)
  PROVE  CommandsAreShown(commands)
<1>1. ShownCommands \subseteq Commands
  BY DEF ShownCommands
<1>2. commands \in Seq(Commands)
  BY <1>1, SeqMonotonic
<1>3. All(Sent, commands) \in Seq(Byte) /\ \A command \in Commands :
        All(Sent, Append(commands, command)) = All(Sent, commands) \o Sent[command]
  BY <1>2, CommandsShow, AllGrows
<1>4. All(Displayed, commands) \in Seq(Byte) /\ \A command \in Commands :
        All(Displayed, Append(commands, command)) = All(Displayed, commands) \o Displayed[command]
  BY <1>2, CommandsShow, AllGrows
<1>5. All(Said, commands) \in Seq(ShownEvents) /\ \A command \in Commands :
        All(Said, Append(commands, command)) = All(Said, commands) \o Said[command]
  BY <1>2, CommandsShow, AllGrows
<1>6. \A command \in Commands : Sent[command] = MarshalCommand(command)
  BY DEF Sent
<1> QED
  BY <1>1, <1>2, <1>3, <1>4, <1>5, <1>6, Zenon DEF CommandsAreShown

LEMMA LastAtEndShrinks ==
  ASSUME NEW s, NEW k, NEW commands \in Seq(ShownCommands), NEW command \in ShownCommands,
         LastAtEnd(s, k, Append(commands, command))
  PROVE  /\ LastAtEnd(s, k, commands)
         /\ command.code = CcWriteToDisplay =>
              k + Len(All(Sent, Append(commands, command))) = EndOf(s)
<1> DEFINE more == Append(commands, command)
<1>1. /\ Len(commands) \in Nat /\ Len(more) = Len(commands) + 1 /\ more[Len(commands) + 1] = command
      /\ \A n \in 1..Len(commands) : more[n] = commands[n]
  BY AppendProperties, LenProperties
<1>2. \A n \in 1..Len(more) : more[n].code = CcWriteToDisplay =>
        n = Len(more) /\ k + Len(All(Sent, more)) = EndOf(s)
  BY DEF LastAtEnd
<1> HIDE DEF more
<1>3. \A n \in 1..Len(commands) : commands[n].code # CcWriteToDisplay
  <2> SUFFICES ASSUME NEW n \in 1..Len(commands), commands[n].code = CcWriteToDisplay
               PROVE  FALSE
    OBVIOUS
  <2>1. n \in 1..Len(more) /\ n # Len(more)
    BY <1>1
  <2>2. more[n].code = CcWriteToDisplay
    BY <1>1
  <2> QED
    BY <1>2, <2>1, <2>2
<1>4. Len(commands) + 1 \in 1..Len(more)
  BY <1>1
<1>5. command.code = CcWriteToDisplay => k + Len(All(Sent, more)) = EndOf(s)
  BY <1>1, <1>2, <1>4, Zenon
<1> QED
  BY <1>3, <1>5, Zenon DEF LastAtEnd, more

LEMMA CommandsWalk ==
  ASSUME NEW s \in Seq(Byte), NEW k \in 1..EndOf(s), NEW d \in Seq(Byte), NEW e \in Seq(ShownEvents)
  PROVE  \A commands \in Seq(ShownCommands) : IsCommandsWalk(s, k, d, e, commands)
<1> DEFINE T == {commands \in Seq(ShownCommands) : IsCommandsWalk(s, k, d, e, commands)}
<1>1. <<>> \in T
  <2>1. <<>> \in Seq(ShownCommands) /\ k + 0 = k /\ Len(<<>>) = 0 /\ d \o <<>> = d /\ e \o <<>> = e
    BY EmptySeq, ConcatEmptySeq
  <2>2. All(Sent, <<>>) = <<>> /\ All(Displayed, <<>>) = <<>> /\ All(Said, <<>>) = <<>>
    BY AllNone
  <2>3. IsCommandsWalk(s, k, d, e, <<>>)
    BY <2>1, <2>2, SameEndAll, Zenon DEF IsCommandsWalk
  <2> QED
    BY <2>1, <2>3
<1>2. ASSUME NEW commands \in Seq(ShownCommands), NEW command \in ShownCommands, commands \in T
      PROVE  Append(commands, command) \in T
  <2> DEFINE more == Append(commands, command)
             x    == All(Sent, commands)
             y    == MarshalCommand(command)
             n    == k + Len(x)
             f    == d \o All(Displayed, commands)
             g    == e \o All(Said, commands)
  <2>0. CommandsAreShown(commands)
    BY ShownCommandsAre
  <2>1. /\ x \in Seq(Byte) /\ All(Sent, more) = x \o y
        /\ All(Displayed, commands) \in Seq(Byte) /\ All(Said, commands) \in Seq(ShownEvents)
        /\ All(Displayed, more) = All(Displayed, commands) \o Displayed[command]
        /\ All(Said, more) = All(Said, commands) \o Said[command]
    BY <2>0, Zenon DEF CommandsAreShown
  <2>2. command \in Commands /\ y \in Seq(Byte)
        /\ Displayed[command] \in Seq(Byte) /\ Said[command] \in Seq(ShownEvents)
    <3>1. command \in Commands
      BY DEF ShownCommands
    <3>2. Sent[command] \in Seq(Byte) /\ Sent[command] = y
      BY <3>1, CommandsShow DEF MapsInto, Sent
    <3>3. Displayed[command] \in Seq(Byte) /\ Said[command] \in Seq(ShownEvents)
      BY <3>1, CommandsShow DEF MapsInto
    <3> QED
      BY <3>1, <3>2, <3>3
  <2>3. more \in Seq(ShownCommands) /\ f \in Seq(Byte) /\ g \in Seq(ShownEvents)
    BY <2>1, AppendProperties, ConcatProperties
  <2>4. f \o Displayed[command] = d \o All(Displayed, more)
    <3>1. IsRegrouped(d, All(Displayed, commands), Displayed[command])
      BY <2>1, <2>2, Regroup, Zenon
    <3> QED
      BY <2>1, <3>1, Zenon DEF IsRegrouped
  <2>5. g \o Said[command] = e \o All(Said, more)
    <3>1. IsRegrouped(e, All(Said, commands), Said[command])
      BY <2>1, <2>2, Regroup, Zenon
    <3> QED
      BY <2>1, <3>1, Zenon DEF IsRegrouped
  <2> HIDE DEF y, f, g
  <2>6. ASSUME Lies(s, k, x \o y), LastAtEnd(s, k, more)
        PROVE  SameEnd(InCommands(s, k, d, e),
                       InCommands(s, k + Len(x \o y), d \o All(Displayed, more), e \o All(Said, more)))
    <3>0. LastAtEnd(s, k, commands) /\ (command.code = CcWriteToDisplay => k + Len(x \o y) = EndOf(s))
      <4>1. LastAtEnd(s, k, Append(commands, command))
        BY <2>6
      <4>2. /\ LastAtEnd(s, k, commands)
            /\ command.code = CcWriteToDisplay =>
                 k + Len(All(Sent, Append(commands, command))) = EndOf(s)
        BY <4>1, LastAtEndShrinks, Zenon
      <4> QED
        BY <2>1, <4>2, Zenon
    <3> HIDE DEF x, more
    <3>1. Lies(s, k, x) /\ Lies(s, n, y) /\ n \in 1..EndOf(s) /\ k + Len(x \o y) = n + Len(y)
      BY <2>1, <2>2, <2>6, LiesConcat
    <3>2. SameEnd(InCommands(s, k, d, e), InCommands(s, n, f, g))
      <4>1. Lies(s, k, All(Sent, commands))
        BY <3>1 DEF x
      <4> QED
        BY <1>2, <3>0, <4>1, Zenon DEF IsCommandsWalk, x, f, g
    <3> HIDE DEF n
    <3>3. SameEnd(InCommands(s, n, f, g), InCommands(s, n + Len(y), f \o Displayed[command], g \o Said[command]))
      <4>1. command.code = CcWriteToDisplay => n + Len(MarshalCommand(command)) = EndOf(s)
        BY <3>0, <3>1 DEF y
      <4>2. Lies(s, n, MarshalCommand(command))
        BY <3>1 DEF y
      <4>3. IsCommandWalk(s, n, f, g, command)
        BY <2>3, <3>1, <4>1, <4>2, CommandWalk
      <4> QED
        BY <4>3 DEF IsCommandWalk, y
    <3> QED
      BY <2>4, <2>5, <3>1, <3>2, <3>3, SameEndAll, Zenon
  <2> HIDE DEF x, n, more
  <2>7. IsCommandsWalk(s, k, d, e, more)
    BY <2>1, <2>6, Zenon DEF IsCommandsWalk
  <2> QED
    BY <2>3, <2>7 DEF more
<1> HIDE DEF T
<1>3. Seq(ShownCommands) \subseteq T
  BY <1>1, <1>2, AppendInduction
<1> QED
  BY <1>3 DEF T

-----------------------------------------------------------------------------
(* What a message that arrives gives in the decoder. *)

\* What MenuIsShown says of one message.
IsShownMessage(m) ==
  /\ m.header[1] = GdsTypeHi /\ m.header[2] = GdsTypeLo /\ m.commands # <<>>
  /\ \A c \in 1..Len(m.commands) : \A n \in 1..Len(m.commands[c].orders) :
       IsShown(m.commands[c].orders[n])

ShownMessages == {m \in ReadableMessages : IsShownMessage(m)}

LEMMA SomethingIsSent ==
  \A commands \in Seq(Commands) :
    /\ Len(All(Sent, commands)) \in Nat
    /\ commands # <<>> => Len(All(Sent, commands)) >= 1
<1> DEFINE length(commands) == Len(All(Sent, commands))
           T == {commands \in Seq(Commands) :
                   length(commands) \in Nat /\ (commands # <<>> => length(commands) >= 1)}
<1>1. <<>> \in T
  BY AllNone, EmptySeq
<1>2. ASSUME NEW commands \in Seq(Commands), NEW command \in Commands, commands \in T
      PROVE  Append(commands, command) \in T
  <2> DEFINE x == All(Sent, commands)
             y == MarshalCommand(command)
  <2>1. x \in Seq(Byte) /\ All(Sent, Append(commands, command)) = x \o Sent[command]
    BY SentType, AllGrows
  <2>2. Sent[command] = y
    BY DEF Sent
  <2>3. y \in Seq(Byte) /\ Len(y) \in Nat /\ Len(y) >= 1
    BY CommandLength
  <2> HIDE DEF y
  <2>4. length(Append(commands, command)) = Len(x) + Len(y)
    BY <2>1, <2>2, <2>3, ConcatProperties
  <2>5. Len(x) \in Nat
    BY <1>2
  <2> HIDE DEF x
  <2>6. Append(commands, command) \in Seq(Commands)
    BY AppendProperties
  <2>7. length(Append(commands, command)) \in Nat /\ length(Append(commands, command)) >= 1
    <3> HIDE DEF length
    <3> QED
      BY <2>3, <2>4, <2>5
  <2> QED
    BY <2>6, <2>7
<1> HIDE DEF T
<1>3. Seq(Commands) \subseteq T
  BY <1>1, <1>2, AppendInduction
<1> QED
  BY <1>3 DEF T

IsHeadOf(rec, m) ==
  /\ rec \in Seq(Byte) /\ ~HeaderIsBad(rec) /\ IsDataRecord(rec)
  /\ OpcodeOf(rec) = OpcodeIn(m)
  /\ PayloadStart(rec) \in 1..EndOf(rec)
  /\ Ends(rec, PayloadStart(rec), All(Sent, m.commands))
  /\ Len(rec) \in Nat /\ Len(rec) >= 11

LEMMA ArrivedHead ==
  ASSUME NEW m \in ShownMessages, NEW rec, Arrives(m, rec)
  PROVE  IsHeadOf(rec, m)
<1> DEFINE header   == m.header
           varLen   == m.variableLength
           variable == m.variable
           commands == m.commands
           t        == All(Sent, commands)
           n        == Len(rec)
<1>1. /\ header \in Seq(Byte) /\ Len(header) = 4 /\ varLen \in Byte /\ varLen >= 4
      /\ variable \in Seq(Byte) /\ Len(variable) = 3 /\ commands \in Seq(Commands)
      /\ header[1] = GdsTypeHi /\ header[2] = GdsTypeLo /\ commands # <<>>
  BY DEF ShownMessages, IsShownMessage, ReadableMessages, MessageShape
<1>2. rec \in Seq(Byte) /\ Carries(rec, header, varLen, variable, commands)
  BY Zenon DEF Arrives
<1>3. Len(t) \in Nat /\ Len(t) >= 1
  BY <1>1, SomethingIsSent
<1> HIDE DEF header, varLen, variable, commands
<1>4. /\ Lies(rec, 3, header) /\ rec[7] = varLen /\ Lies(rec, 8, variable)
      /\ Ends(rec, 7 + varLen, t)
  BY <1>2, Zenon DEF Carries, t
<1>5. n \in Nat /\ EndOf(rec) = n + 1 /\ varLen \in Nat
  <2>1. varLen \in Nat
    BY <1>1 DEF Byte
  <2> QED
    BY <1>2, <2>1, LenProperties DEF EndOf
<1> HIDE DEF t
<1>6. 7 + varLen + Len(t) = n + 1
  BY <1>4, <1>5 DEF Ends
<1>7. rec[3] = GdsTypeHi /\ rec[4] = GdsTypeLo
  <2>1. 1 \in 1..Len(header) /\ 2 \in 1..Len(header) /\ 3 + 1 - 1 = 3 /\ 3 + 2 - 1 = 4
    BY <1>1
  <2>2. \A i \in 1..Len(header) : rec[3 + i - 1] = header[i]
    BY <1>4, Zenon DEF Lies
  <2>3. rec[3 + 1 - 1] = header[1] /\ rec[3 + 2 - 1] = header[2]
    BY <2>1, <2>2, Zenon
  <2> QED
    BY <1>1, <2>1, <2>3
<1>8. rec[10] = variable[3]
  <2>1. 3 \in 1..Len(variable) /\ 8 + 3 - 1 = 10
    BY <1>1
  <2>2. \A i \in 1..Len(variable) : rec[8 + i - 1] = variable[i]
    BY <1>4, Zenon DEF Lies
  <2>3. rec[8 + 3 - 1] = variable[3]
    BY <2>1, <2>2, Zenon
  <2> QED
    BY <2>1, <2>3
<1> HIDE DEF n
<1>9. n >= 11 /\ n >= 7 /\ ~(n < 7) /\ ~(varLen < 4) /\ ~(n < 7 + varLen)
      /\ 7 + varLen \in 1..(n + 1)
  BY <1>1, <1>3, <1>5, <1>6
<1>10. ~HeaderIsBad(rec) /\ IsDataRecord(rec)
  <2>1. IsDataRecord(rec)
    BY <1>7 DEF IsDataRecord
  <2>2. ~(Len(rec) < 7) /\ ~(rec[7] < 4) /\ ~(Len(rec) < 7 + rec[7])
    BY <1>4, <1>9, Zenon DEF n
  <2> QED
    BY <2>1, <2>2, Zenon DEF HeaderIsBad
<1>11. PayloadStart(rec) = 7 + varLen /\ OpcodeOf(rec) = OpcodeIn(m)
  BY <1>4, <1>8 DEF PayloadStart, OpcodeOf, OpcodeIn, variable
<1> QED
  BY <1>2, <1>4, <1>5, <1>9, <1>10, <1>11, Zenon DEF IsHeadOf, n, t, commands

LEMMA ShownMessageCommands ==
  ASSUME NEW m \in ShownMessages, NEW rec, Ends(rec, PayloadStart(rec), All(Sent, m.commands))
  PROVE  m.commands \in Seq(ShownCommands) /\ LastAtEnd(rec, PayloadStart(rec), m.commands)
<1> DEFINE commands == m.commands
<1>1. commands \in Seq(Commands) /\ IsLast(commands) /\ IsShownMessage(m)
  BY DEF ShownMessages, ReadableMessages, MessageShape
<1>2. Len(commands) \in Nat /\ commands \in [1..Len(commands) -> Commands]
  BY <1>1, LenProperties
<1>3. ASSUME NEW c \in 1..Len(commands)
      PROVE  commands[c] \in ShownCommands
  <2> DEFINE orders == commands[c].orders
  <2>1. commands[c] \in Commands /\ orders \in Seq(Orders)
    BY <1>2 DEF Commands, CommandShape
  <2>2. \A n \in 1..Len(orders) : orders[n] \in ShownOrders
    <3> SUFFICES ASSUME NEW n \in 1..Len(orders)
                 PROVE  orders[n] \in ShownOrders
      OBVIOUS
    <3>1. IsShown(orders[n])
      BY <1>1, <1>3, Zenon DEF IsShownMessage
    <3>2. orders[n] \in Orders
      BY <2>1, ElementOfSeq
    <3> QED
      BY <3>1, <3>2 DEF ShownOrders
  <2>3. orders \in Seq(ShownOrders)
    <3>1. Len(orders) \in Nat /\ orders \in [1..Len(orders) -> Orders]
      BY <2>1, LenProperties
    <3> HIDE DEF orders
    <3>2. orders \in [1..Len(orders) -> ShownOrders]
      BY <2>2, <3>1
    <3> QED
      BY <3>1, <3>2, SeqDef
  <2> QED
    BY <2>1, <2>3, Zenon DEF ShownCommands
<1> HIDE DEF commands
<1>4. commands \in Seq(ShownCommands)
  <2>1. commands \in [1..Len(commands) -> ShownCommands]
    BY <1>2, <1>3
  <2> QED
    BY <1>2, <2>1, SeqDef
<1>5. LastAtEnd(rec, PayloadStart(rec), commands)
  BY <1>1, Zenon DEF Ends, LastAtEnd, IsLast, commands
<1> QED
  BY <1>4, <1>5, Zenon DEF commands

SavedFirst(opcode) == IF opcode = OpSaveScreen THEN <<<<"SaveScreen">>>> ELSE <<>>

\* What a message for the screen stands for.
LEMMA DisplayMeans ==
  ASSUME NEW m \in ShownMessages, OpcodeIn(m) \in DisplayOpcodes
  PROVE  /\ SavedFirst(OpcodeIn(m)) \in Seq(ShownEvents)
         /\ Meaning(m) = Append(SavedFirst(OpcodeIn(m)) \o All(Said, m.commands),
                                <<"RawScreenData", <<>> \o All(Displayed, m.commands)>>)
<1> DEFINE commands == m.commands
           e        == SavedFirst(OpcodeIn(m))
           said     == All(Said, commands)
           shown    == All(Displayed, commands)
           update   == <<"RawScreenData", shown>>
<1>1. commands \in Seq(Commands) /\ DOMAIN commands = 1..Len(commands)
  BY LenProperties DEF ShownMessages, ReadableMessages, MessageShape
<1>2. said \in Seq(ShownEvents) /\ shown \in Seq(Byte)
  BY <1>1, CommandsShow, AllGrows
<1>3. e \in Seq(ShownEvents)
  <2>1. <<"SaveScreen">> \in ShownEvents
    BY DEF ShownEvents
  <2> QED
    BY <2>1, Alone, EmptySeq DEF SavedFirst
<1> HIDE DEF e
<1>4. FlattenSeq([n \in DOMAIN commands |-> EventsOf(commands[n])]) = said
  <2>1. \A n \in DOMAIN commands : Said[commands[n]] = EventsOf(commands[n])
    BY <1>1, ElementOfSeq DEF Said
  <2> HIDE DEF commands
  <2>2. Mapped(Said, commands) = [n \in DOMAIN commands |-> EventsOf(commands[n])]
    BY <2>1, Zenon DEF Mapped
  <2> QED
    BY <2>2, Zenon DEF All
<1>5. FlattenSeq([n \in DOMAIN commands |-> DisplayBytes(commands[n].orders)]) = shown
  <2>1. \A n \in DOMAIN commands : Displayed[commands[n]] = DisplayBytes(commands[n].orders)
    <3> SUFFICES ASSUME NEW n \in DOMAIN commands
                 PROVE  Displayed[commands[n]] = DisplayBytes(commands[n].orders)
      OBVIOUS
    <3>1. commands[n] \in Commands
      BY <1>1, ElementOfSeq
    <3>2. commands[n].orders \in Seq(Orders)
      BY <3>1 DEF Commands, CommandShape
    <3>3. DisplayBytes(commands[n].orders) = All(Copied, commands[n].orders)
      BY <3>2, OrdersMean
    <3> QED
      BY <3>1, <3>3 DEF Displayed
  <2> HIDE DEF commands
  <2>2. Mapped(Displayed, commands) = [n \in DOMAIN commands |-> DisplayBytes(commands[n].orders)]
    BY <2>1, Zenon DEF Mapped
  <2> QED
    BY <2>2, Zenon DEF All
<1>6. OpcodeIn(m) \notin SignalOpcodes
  BY OpcodesAreApart
<1> HIDE DEF said, shown
<1>7. Meaning(m) = (e \o said) \o <<update>>
  BY <1>4, <1>5, <1>6, Zenon DEF Meaning, SavedFirst, e, commands
<1>8. (e \o said) \o <<update>> = Append(e \o said, update)
  <2> DEFINE S == ShownEvents \cup {update}
  <2>1. e \in Seq(S) /\ said \in Seq(S)
    BY <1>2, <1>3, SeqMonotonic
  <2>2. e \o said \in Seq(S) /\ update \in S
    BY <2>1, ConcatProperties
  <2> HIDE DEF S, update
  <2> QED
    BY <2>2, AppendIsConcat
<1>9. <<>> \o shown = shown
  BY <1>2, ConcatEmptySeq
<1> QED
  BY <1>3, <1>7, <1>8, <1>9, Zenon DEF e, said, shown, commands, update

\* The decoder reports a message that arrives as what it stands for.
LEMMA ArrivedIsMeant ==
  ASSUME NEW m \in ShownMessages, NEW rec, Arrives(m, rec), NEW callbacks, Gives(rec, callbacks)
  PROVE  callbacks = Meaning(m)
<1> DEFINE commands == m.commands
           k        == PayloadStart(rec)
           opcode   == OpcodeIn(m)
<1>1. IsHeadOf(rec, m)
  BY ArrivedHead
<1>2. /\ rec \in Seq(Byte) /\ ~HeaderIsBad(rec) /\ IsDataRecord(rec) /\ OpcodeOf(rec) = opcode
      /\ k \in 1..EndOf(rec) /\ Ends(rec, k, All(Sent, commands))
  BY <1>1, Zenon DEF IsHeadOf
<1>3. CASE opcode \notin DisplayOpcodes
  <2> DEFINE given == IF opcode \in SignalOpcodes THEN <<<<SignalOf(opcode)>>>> ELSE <<>>
  <2>1. ~IsDisplayRecord(rec)
    BY <1>2, <1>3, Zenon DEF IsDisplayRecord
  <2>2. callbacks = AtOnce(rec)
    BY <2>1, Zenon DEF Gives
  <2>3. AtOnce(rec) = given
    BY <1>2, Zenon DEF AtOnce
  <2>4. Meaning(m) = given
    BY <1>3, Zenon DEF Meaning
  <2> HIDE DEF given
  <2> QED
    BY <2>2, <2>3, <2>4
<1>4. CASE opcode \in DisplayOpcodes
  <2> DEFINE e    == SavedFirst(opcode)
             t    == All(Sent, commands)
             said == e \o All(Said, commands)
             shown == <<>> \o All(Displayed, commands)
             w    == InCommands(rec, k + Len(t), shown, said)
  <2>1. IsDisplayRecord(rec)
    BY <1>2, <1>4, Zenon DEF IsDisplayRecord
  <2>2. commands \in Seq(ShownCommands) /\ LastAtEnd(rec, k, commands)
    BY <1>2, ShownMessageCommands
  <2>3. e \in Seq(ShownEvents) /\ Meaning(m) = Append(said, <<"RawScreenData", shown>>)
    BY <1>4, DisplayMeans
  <2>4. Start(rec) = InCommands(rec, k, <<>>, e)
    BY <1>2, Zenon DEF Start, InCommands, SavedFirst
  <2>5. Lies(rec, k, t) /\ k + Len(t) = EndOf(rec)
    BY <1>2, Zenon DEF Ends
  <2> HIDE DEF e, k, commands
  <2>6. SameEnd(InCommands(rec, k, <<>>, e), w)
    <3>1. <<>> \in Seq(Byte)
      BY EmptySeq
    <3>2. IsCommandsWalk(rec, k, <<>>, e, commands)
      BY <1>2, <2>2, <2>3, <3>1, CommandsWalk
    <3> QED
      BY <2>2, <2>5, <3>2, Zenon DEF IsCommandsWalk
  <2> HIDE DEF said, shown, t
  <2>7. w.mode = "commands" /\ w.record = rec /\ w.at = EndOf(rec) /\ w.display = shown /\ w.events = said
    BY <2>5 DEF InCommands, Walk
  <2>8. Left(rec, EndOf(rec)) = 0
    BY <1>2, LenProperties DEF Left, EndOf
  <2> HIDE DEF w
  <2>9. Over(w)
    BY <2>7, <2>8, Zenon DEF Over, IsOver
  <2>10. EndsOnlyAt(rec, w)
    <3> SUFFICES ASSUME NEW v, Over(v)
                 PROVE  Reaches(Start(rec), v) <=> v = w
      BY <2>9 DEF EndsOnlyAt
    <3>1. Reaches(Start(rec), v) <=> Reaches(w, v)
      BY <2>4, <2>6, Zenon DEF SameEnd
    <3> QED
      BY <2>9, <3>1, OverStays, Zenon
  <2>11. Gives(rec, Append(w.events, <<"RawScreenData", w.display>>))
    BY <2>1, <2>10, Zenon DEF Gives
  <2>12. callbacks = Append(w.events, <<"RawScreenData", w.display>>)
    BY <2>11, GivesOne
  <2> QED
    BY <2>3, <2>7, <2>12
<1> QED
  BY <1>3, <1>4

-----------------------------------------------------------------------------
(* The records on their way to the application. *)

LEMMA Limits ==
  /\ GdsHeaderSize \in Int /\ GdsMinRecordLen \in Int /\ GdsMaxRecordLen \in Int
  /\ GdsHeaderSize = 10 /\ GdsMinRecordLen = 6
BY DEF GdsHeaderSize, GdsMinRecordLen, GdsMaxRecordLen

LEMMA Between == \A a, b \in Int : \A n : n \in a..b <=> n \in Int /\ a <= n /\ n <= b
OBVIOUS

\* A record that holds the message, under its own length.
Comes(m, s) == Arrives(m, s) /\ Length16(s, 0) = Len(s)

\* A record with a wrong length gets its own.
LEMMA RepairPutsLength ==
  ASSUME NEW s \in Seq(Byte), Len(s) \in GdsHeaderSize..GdsMaxRecordLen, IsDataRecord(s),
         Length16(s, 0) = Len(s) \/ ~IsWholeAt(s, 0)
  PROVE  Length16(RepairGdsRecordLength(s), 0) = Len(s)
<1> DEFINE pos == WalkEnd(s)
           n   == Len(s)
<1>1. n \in Nat /\ n >= 10 /\ n <= GdsMaxRecordLen /\ n \in GdsHeaderSize..GdsMaxRecordLen
  <2>1. n \in GdsHeaderSize..GdsMaxRecordLen
    OBVIOUS
  <2> HIDE DEF n
  <2>2. n \in Int /\ GdsHeaderSize <= n /\ n <= GdsMaxRecordLen
    BY <2>1, Limits, Between, Zenon
  <2>3. n \in Nat /\ n >= 10
    BY <2>2, Limits
  <2> QED
    BY <2>1, <2>2, <2>3
<1>2. CASE IsWholeAt(s, 0)
  <2>1. Length16(s, 0) = n /\ pos = n
    BY <1>2, WalkAtStart
  <2>2. RepairGdsRecordLength(s) = s
    BY <2>1, Zenon DEF RepairGdsRecordLength
  <2> QED
    BY <2>1, <2>2
<1>3. CASE ~IsWholeAt(s, 0)
  <2>1. pos = 0
    BY <1>3, WalkAtStart
  <2>2. n - 0 = n /\ 0 + 3 = 3 /\ 0 + 4 = 4 /\ 0 # n
    <3> HIDE DEF n
    <3> QED
      BY <1>1
  <2>3. IsRepairable(s, 0)
    BY <1>1, <2>2, Zenon DEF IsRepairable, IsDataRecord
  <2>4. RepairGdsRecordLength(s) = WithLength(s, 0, n)
    BY <2>1, <2>2, <2>3, Zenon DEF RepairGdsRecordLength
  <2>5. Length16(WithLength(s, 0, n), 0) = n
    BY <1>1, LengthPut
  <2> QED
    BY <2>4, <2>5
<1> QED
  BY <1>2, <1>3

LEMMA WrittenComes ==
  ASSUME NEW m \in ShownMessages, NEW s, IsWritten(m, s)
  PROVE  Comes(m, RepairGdsRecordLength(s)) /\ RepairGdsRecordLength(s) \in Seq(Byte)
<1> DEFINE r == RepairGdsRecordLength(s)
<1>1. m \in ReadableMessages
  BY DEF ShownMessages
<1>2. /\ s \in Seq(Byte) /\ Arrives(m, s) /\ Len(s) \in GdsHeaderSize..GdsMaxRecordLen
      /\ (Length16(s, 0) = Len(s) \/ ~IsWholeAt(s, 0))
  BY Zenon DEF IsWritten, Arrives
<1>3. IsHeadOf(s, m)
  BY <1>2, ArrivedHead
<1>4. IsDataRecord(s) /\ Len(s) >= 11 /\ Len(s) \in Nat
  BY <1>3, Zenon DEF IsHeadOf
<1>5. Length16(r, 0) = Len(s)
  BY <1>2, <1>4, RepairPutsLength
<1>6. Len(r) = Len(s)
  <2>1. Len(s) >= 10
    BY <1>4
  <2>2. SameBehind(s, r)
    BY <1>2, <2>1, RepairKeepsTheRest
  <2> QED
    BY <2>2 DEF SameBehind
<1>7. Arrives(m, r)
  BY <1>1, WrittenArrives
<1> QED
  BY <1>5, <1>6, <1>7, Zenon DEF Comes, Arrives

\* A record that comes is taken from the buffer as a whole.
LEMMA ComingRecord ==
  ASSUME NEW m \in ShownMessages, NEW s, Comes(m, s)
  PROVE  /\ s \in Seq(Byte) /\ s # <<>> /\ Len(s) \in Nat /\ Len(s) >= GdsMinRecordLen
         /\ Length16(s, 0) \in GdsMinRecordLen..GdsMaxRecordLen /\ Length16(s, 0) = Len(s)
<1> DEFINE n == Len(s)
<1>1. IsHeadOf(s, m) /\ Length16(s, 0) = n
  BY ArrivedHead, Zenon DEF Comes
<1>2. s \in Seq(Byte) /\ n >= 11 /\ n \in Nat
  BY <1>1, Zenon DEF IsHeadOf
<1>3. Length16(s, 0) <= GdsMaxRecordLen
  <2>1. 1 \in 1..n /\ 2 \in 1..n
    BY <1>2
  <2>2. s[1] \in Nat /\ s[1] <= 255 /\ s[2] \in Nat /\ s[2] <= 255
    BY <1>2, <2>1, Payload
  <2>3. Length16(s, 0) = 256 * s[1] + s[2]
    BY DEF Length16
  <2> QED
    BY <2>2, <2>3 DEF GdsMaxRecordLen
<1>4. s # <<>>
  BY <1>2, EmptySeq
<1> HIDE DEF n
<1>5. n \in GdsMinRecordLen..GdsMaxRecordLen /\ n >= GdsMinRecordLen
  <2>1. n \in Int /\ GdsMinRecordLen <= n /\ n >= GdsMinRecordLen
    BY <1>2, Limits
  <2>2. n <= GdsMaxRecordLen
    BY <1>1, <1>3
  <2> QED
    BY <2>1, <2>2, Limits, Between, Zenon
<1> QED
  BY <1>1, <1>2, <1>4, <1>5 DEF n

\* The records of q are the messages of all from the one after done on.
IsQueue(done, q, all) ==
  /\ done + Len(q) = Len(all)
  /\ \A i \in 1..Len(q) : Comes(all[done + i], q[i])

LEMMA QueueGrows ==
  ASSUME NEW done \in Nat, NEW q \in Seq(Seq(Byte)), NEW all \in Seq(MessageMenu), IsQueue(done, q, all),
         NEW m \in MessageMenu, NEW s \in Seq(Byte), Comes(m, s)
  PROVE  IsQueue(done, Append(q, s), Append(all, m))
<1> DEFINE n == Len(q)
           p == Append(q, s)
           a == Append(all, m)
<1>1. /\ n \in Nat /\ Len(p) = n + 1 /\ p[n + 1] = s /\ \A i \in 1..n : p[i] = q[i]
      /\ Len(all) \in Nat /\ Len(a) = Len(all) + 1 /\ a[Len(all) + 1] = m
      /\ \A i \in 1..Len(all) : a[i] = all[i]
  BY AppendProperties, LenProperties
<1>2. done + n = Len(all) /\ \A i \in 1..n : Comes(all[done + i], q[i])
  BY DEF IsQueue
<1> HIDE DEF n, p, a
<1>3. ASSUME NEW i \in 1..(n + 1)
      PROVE  Comes(a[done + i], p[i])
  <2>1. CASE i \in 1..n
    <3>1. done + i \in 1..Len(all)
      BY <1>1, <1>2, <2>1
    <3> QED
      BY <1>1, <1>2, <2>1, <3>1
  <2>2. CASE i = n + 1
    <3>1. done + i = Len(all) + 1
      BY <1>1, <1>2, <2>2
    <3> QED
      BY <1>1, <2>2, <3>1
  <2> QED
    BY <1>1, <2>1, <2>2
<1>4. done + (n + 1) = Len(a)
  BY <1>1, <1>2
<1> QED
  BY <1>1, <1>3, <1>4 DEF IsQueue, p, a

LEMMA QueueShrinks ==
  ASSUME NEW done \in Nat, NEW q \in Seq(Seq(Byte)), NEW s \in Seq(Byte), NEW all \in Seq(MessageMenu),
         IsQueue(done, <<s>> \o q, all)
  PROVE  /\ done < Len(all) /\ done + 1 \in 1..Len(all) /\ Comes(all[done + 1], s)
         /\ IsQueue(done + 1, q, all)
<1> DEFINE p == <<s>> \o q
           n == Len(q)
<1>1. n \in Nat /\ Len(all) \in Nat /\ Len(p) = n + 1 /\ p[1] = s /\ \A i \in 1..n : p[i + 1] = q[i]
  <2>1. <<s>> \in Seq(Seq(Byte)) /\ Len(<<s>>) = 1 /\ <<s>>[1] = s
    BY Alone
  <2>2. n \in Nat /\ Len(all) \in Nat
    BY LenProperties
  <2>3. Len(p) = 1 + n /\ \A i \in 1..(1 + n) : p[i] = IF i <= 1 THEN <<s>>[i] ELSE q[i - 1]
    BY <2>1, ConcatProperties
  <2> HIDE DEF p, n
  <2>4. p[1] = s
    BY <2>1, <2>2, <2>3
  <2>5. \A i \in 1..n : p[i + 1] = q[i]
    <3> SUFFICES ASSUME NEW i \in 1..n PROVE p[i + 1] = q[i]
      OBVIOUS
    <3>1. i + 1 \in 1..(1 + n) /\ ~(i + 1 <= 1) /\ (i + 1) - 1 = i
      BY <2>2
    <3>2. p[i + 1] = q[(i + 1) - 1]
      BY <2>3, <3>1
    <3> QED
      BY <3>1, <3>2
  <2> QED
    BY <2>2, <2>3, <2>4, <2>5
<1>2. done + Len(p) = Len(all) /\ \A i \in 1..Len(p) : Comes(all[done + i], p[i])
  BY DEF IsQueue
<1> HIDE DEF p, n
<1>3. done < Len(all) /\ done + 1 \in 1..Len(all) /\ (done + 1) + n = Len(all)
  BY <1>1, <1>2
<1>4. Comes(all[done + 1], s)
  <2>1. 1 \in 1..Len(p)
    BY <1>1
  <2> QED
    BY <1>1, <1>2, <2>1
<1>5. ASSUME NEW i \in 1..n
      PROVE  Comes(all[(done + 1) + i], q[i])
  <2>1. i + 1 \in 1..Len(p) /\ done + (i + 1) = (done + 1) + i
    BY <1>1
  <2>2. Comes(all[done + (i + 1)], p[i + 1])
    BY <1>2, <2>1
  <2> QED
    BY <1>1, <2>1, <2>2
<1>6. IsQueue(done + 1, q, all)
  BY <1>3, <1>5 DEF IsQueue, n
<1> QED
  BY <1>3, <1>4, <1>6

Meant == [m \in MessageMenu |-> Meaning(m)]

\* The records the decoder has not reported yet: the one it walks or has in
\* its buffer, and those that are still to be passed on.
UnderWay ==
  (IF InWalk THEN <<record>> ELSE IF buffer # <<>> THEN <<buffer>> ELSE <<>>) \o calls

ArrivalInv ==
  /\ sentMessages \in Seq(MessageMenu) /\ meant = Mapped(Meant, sentMessages)
  /\ mode = "idle" \/ InWalk => buffer = <<>>
  /\ IsQueue(Len(reported), UnderWay, sentMessages)

Delivered == [n \in DOMAIN reported |-> reported[n].events]

LEMMA ReportedGrows ==
  ASSUME TypeInv, NEW entry, reported' = Append(reported, entry)
  PROVE  /\ Len(reported) \in Nat /\ Len(reported') = Len(reported) + 1
         /\ Len(Delivered) = Len(reported) /\ Delivered' = Append(Delivered, entry.events)
         /\ Len(reported') \in DOMAIN reported' /\ reported'[Len(reported')] = entry
<1>1. PICK S : reported \in Seq(S)
  BY DEF TypeInv, IsSequence
<1> DEFINE R == S \cup {entry}
           E == {x.events : x \in R}
           n == Len(reported)
           d == [i \in DOMAIN reported |-> reported[i].events]
           next == Append(reported, entry)
           e == [i \in DOMAIN next |-> next[i].events]
<1>2. reported \in Seq(R) /\ entry \in R
  BY <1>1
<1>3. /\ n \in Nat /\ next \in Seq(R) /\ Len(next) = n + 1 /\ next[n + 1] = entry
      /\ \A i \in 1..n : next[i] = reported[i]
      /\ DOMAIN reported = 1..n /\ DOMAIN next = 1..(n + 1)
      /\ \A i \in 1..n : reported[i] \in R
  BY <1>2, AppendProperties, LenProperties, ElementOfSeq
<1> HIDE DEF R, n, next
<1>4. d \in [1..n -> E] /\ entry.events \in E
  BY <1>2, <1>3
<1>5. d \in Seq(E) /\ Len(d) = n
  BY <1>3, <1>4
<1>6. \A i \in 1..n : d[i] = reported[i].events
  BY <1>3
<1>7. e = [i \in 1..(n + 1) |-> next[i].events]
  BY <1>3
<1>8. e \in [1..(n + 1) -> E]
  <2>1. \A i \in 1..(n + 1) : next[i] \in R
    BY <1>2, <1>3
  <2> QED
    BY <1>7, <2>1
<1>9. e \in Seq(E) /\ Len(e) = n + 1
  BY <1>3, <1>8
<1> HIDE DEF d, e, E
<1>10. Append(d, entry.events) \in Seq(E) /\ Len(Append(d, entry.events)) = n + 1
       /\ Append(d, entry.events)[n + 1] = entry.events
       /\ \A i \in 1..n : Append(d, entry.events)[i] = d[i]
  BY <1>4, <1>5, AppendProperties
<1>11. ASSUME NEW i \in 1..(n + 1)
       PROVE  e[i] = Append(d, entry.events)[i]
  <2>1. e[i] = next[i].events
    BY <1>7
  <2>2. i \in 1..n \/ i = n + 1
    BY <1>3
  <2> QED
    BY <1>3, <1>6, <1>10, <2>1, <2>2
<1>12. e = Append(d, entry.events)
  BY <1>9, <1>10, <1>11, SeqEqual
<1>13. Delivered = d /\ Delivered' = e
  BY Zenon DEF Delivered, d, e, next
<1>14. n + 1 \in DOMAIN next /\ next[n + 1] = entry
  BY <1>3
<1> QED
  BY <1>3, <1>5, <1>12, <1>13, <1>14, Zenon DEF n, next

LEMMA MeantIs ==
  ASSUME ArrivalInv
  PROVE  /\ Len(meant) = Len(sentMessages)
         /\ \A i \in 1..Len(sentMessages) :
              sentMessages[i] \in MessageMenu /\ meant[i] = Meaning(sentMessages[i])
<1>1. MapsInto(Meant, MessageMenu, Meanings)
  BY DEF MapsInto, Meant, Meanings
<1>2. sentMessages \in Seq(MessageMenu) /\ meant = Mapped(Meant, sentMessages)
  BY DEF ArrivalInv
<1>3. Len(meant) = Len(sentMessages) /\ \A i \in 1..Len(sentMessages) : meant[i] = Meant[sentMessages[i]]
  BY <1>1, <1>2, MappedSeq
<1>4. \A i \in 1..Len(sentMessages) : sentMessages[i] \in MessageMenu
  BY <1>2, ElementOfSeq
<1> QED
  BY <1>3, <1>4 DEF Meant

\* The first record under way is reported.
LEMMA ReportDelivers ==
  ASSUME MessageMenu \subseteq ShownMessages, TypeInv, AloneInv', ArrivalInv,
         NEW s \in Seq(Byte), NEW q \in Seq(Seq(Byte)), UnderWay = <<s>> \o q,
         NEW callbacks, reported' = Append(reported, [record |-> s, events |-> callbacks]),
         UNCHANGED <<sentMessages, meant>>
  PROVE  /\ Channel!Deliver
         /\ IsQueue(Len(reported'), q, sentMessages')
<1> DEFINE done  == Len(reported)
           entry == [record |-> s, events |-> callbacks]
<1>1. /\ done \in Nat /\ Len(reported') = done + 1
      /\ Len(Delivered) = done /\ Delivered' = Append(Delivered, callbacks)
      /\ Len(reported') \in DOMAIN reported' /\ reported'[Len(reported')] = entry
  <2>1. reported' = Append(reported, entry) /\ entry.events = callbacks
    OBVIOUS
  <2> HIDE DEF entry
  <2> QED
    BY <2>1, ReportedGrows
<1>2. IsQueue(done, <<s>> \o q, sentMessages) /\ sentMessages \in Seq(MessageMenu)
  BY DEF ArrivalInv
<1>3. /\ done < Len(sentMessages) /\ done + 1 \in 1..Len(sentMessages)
      /\ Comes(sentMessages[done + 1], s) /\ IsQueue(done + 1, q, sentMessages)
  BY <1>1, <1>2, QueueShrinks
<1>4. Gives(s, callbacks)
  <2>1. \A k \in DOMAIN reported' : Gives(reported'[k].record, reported'[k].events)
    BY DEF AloneInv
  <2>2. entry.record = s /\ entry.events = callbacks
    OBVIOUS
  <2>3. Gives(entry.record, entry.events)
    BY <1>1, <2>1
  <2> QED
    BY <2>2, <2>3
<1>5. /\ sentMessages[done + 1] \in ShownMessages
      /\ meant[done + 1] = Meaning(sentMessages[done + 1]) /\ Len(meant) = Len(sentMessages)
  BY <1>3, MeantIs
<1>6. callbacks = meant[done + 1]
  BY <1>3, <1>4, <1>5, ArrivedIsMeant DEF Comes
<1>7. Channel!Deliver
  <2>1. Len(Delivered) < Len(meant) /\ Delivered' = Append(Delivered, meant[Len(Delivered) + 1])
    BY <1>1, <1>3, <1>5, <1>6
  <2> QED
    BY <2>1 DEF Channel!Deliver, Delivered
<1> QED
  BY <1>1, <1>3, <1>7

LEMMA MenuShows ==
  ASSUME MenuIsReadable, MenuIsShown
  PROVE  MessageMenu \subseteq ShownMessages /\ \A m \in MessageMenu : Marshal(m) # <<>>
<1> SUFFICES ASSUME NEW m \in MessageMenu
             PROVE  m \in ShownMessages /\ Marshal(m) # <<>>
  OBVIOUS
<1>1. m \in ReadableMessages /\ Marshal(m) # <<>>
  BY DEF MenuIsReadable
<1>2. IsShownMessage(m)
  BY Zenon DEF MenuIsShown, IsShownMessage
<1> QED
  BY <1>1, <1>2 DEF ShownMessages

\* What is in the buffer is one record.
LEMMA BufferComes ==
  ASSUME MessageMenu \subseteq ShownMessages, TypeInv, ArrivalInv, buffer # <<>>
  PROVE  /\ UnderWay = <<buffer>> \o calls /\ HasLength
         /\ RecordLength \in GdsMinRecordLen..GdsMaxRecordLen /\ RecordLength = Len(buffer)
         /\ NextRecord = buffer /\ SubSeq(buffer, RecordLength + 1, Len(buffer)) = <<>>
<1>1. mode # "idle" /\ ~InWalk
  BY DEF ArrivalInv
<1>2. UnderWay = <<buffer>> \o calls
  BY <1>1, Zenon DEF UnderWay
<1>3. /\ buffer \in Seq(Byte) /\ calls \in Seq(Seq(Byte)) /\ sentMessages \in Seq(MessageMenu)
      /\ Len(reported) \in Nat /\ IsQueue(Len(reported), <<buffer>> \o calls, sentMessages)
  <2>1. IsQueue(Len(reported), <<buffer>> \o calls, sentMessages) /\ sentMessages \in Seq(MessageMenu)
    BY <1>2 DEF ArrivalInv
  <2>2. PICK S : reported \in Seq(S)
    BY DEF TypeInv, IsSequence
  <2>3. Len(reported) \in Nat
    BY <2>2, LenProperties
  <2> QED
    BY <2>1, <2>3 DEF TypeInv
<1> DEFINE k == Len(reported) + 1
<1>4. k \in 1..Len(sentMessages) /\ Comes(sentMessages[k], buffer)
  BY <1>3, QueueShrinks
<1> HIDE DEF k
<1>5. sentMessages[k] \in ShownMessages
  BY <1>3, <1>4, ElementOfSeq
<1>6. /\ Len(buffer) \in Nat /\ Len(buffer) >= GdsMinRecordLen
      /\ RecordLength \in GdsMinRecordLen..GdsMaxRecordLen /\ RecordLength = Len(buffer)
  BY <1>4, <1>5, ComingRecord, Zenon DEF RecordLength
<1>7. NextRecord = buffer
  BY <1>3, <1>6, SubSeqFull DEF NextRecord
<1>8. SubSeq(buffer, RecordLength + 1, Len(buffer)) = <<>>
  <2>1. RecordLength + 1 \in Int /\ Len(buffer) \in Int /\ Len(buffer) < RecordLength + 1
    BY <1>6
  <2> QED
    BY <2>1, SubSeqEmpty, Zenon
<1> QED
  BY <1>2, <1>6, <1>7, <1>8, Zenon DEF HasLength

First == IF InWalk THEN <<record>> ELSE IF buffer # <<>> THEN <<buffer>> ELSE <<>>

LEMMA UnderWayType ==
  ASSUME TypeInv
  PROVE  /\ First \in Seq(Seq(Byte)) /\ calls \in Seq(Seq(Byte)) /\ UnderWay = First \o calls
         /\ Len(reported) \in Nat
<1>1. First \in Seq(Seq(Byte)) /\ calls \in Seq(Seq(Byte))
  <2>1. record \in Seq(Byte) /\ buffer \in Seq(Byte) /\ calls \in Seq(Seq(Byte))
    BY DEF TypeInv
  <2>2. <<record>> \in Seq(Seq(Byte)) /\ <<buffer>> \in Seq(Seq(Byte)) /\ <<>> \in Seq(Seq(Byte))
    BY <2>1, Alone, EmptySeq
  <2> QED
    BY <2>1, <2>2 DEF First
<1>2. UnderWay = First \o calls
  BY DEF UnderWay, First
<1>3. PICK S : reported \in Seq(S)
  BY DEF TypeInv, IsSequence
<1> QED
  BY <1>1, <1>2, <1>3, LenProperties

LEMMA SendingKeeps ==
  ASSUME MessageMenu \subseteq ShownMessages, TypeInv, AloneInv, ArrivalInv,
         NEW m \in MessageMenu, NEW s, IsWritten(m, s), HostSends(m, s)
  PROVE  TypeInv' /\ AloneInv' /\ ArrivalInv' /\ Channel!Send(Meaning(m))
<1> DEFINE r == RepairGdsRecordLength(s)
<1>1. Comes(m, r) /\ r \in Seq(Byte)
  BY WrittenComes
<1> HIDE DEF r
<1>2. /\ calls' = Append(calls, r) /\ sentMessages' = Append(sentMessages, m)
      /\ meant' = Append(meant, Meaning(m))
      /\ UNCHANGED <<fed, buffer, mode, reported, resets, record, at, display, events>>
  BY DEF HostSends, HandOver, walk, r
<1>3. TypeInv'
  <2>1. calls' \in Seq(Seq(Byte))
    BY <1>1, <1>2, AppendProperties DEF TypeInv
  <2> QED
    BY <1>2, <2>1 DEF TypeInv, Happened, AreEvents
<1>4. AloneInv'
  BY <1>2 DEF AloneInv, InWalk, Now
<1>5. sentMessages \in Seq(MessageMenu) /\ meant = Mapped(Meant, sentMessages)
      /\ (mode = "idle" \/ InWalk => buffer = <<>>)
      /\ IsQueue(Len(reported), UnderWay, sentMessages)
  BY DEF ArrivalInv
<1>6. UnderWay' = Append(UnderWay, r) /\ UnderWay \in Seq(Seq(Byte)) /\ Len(reported) \in Nat
  <2>1. /\ First \in Seq(Seq(Byte)) /\ calls \in Seq(Seq(Byte)) /\ UnderWay = First \o calls
        /\ Len(reported) \in Nat
    BY UnderWayType
  <2>2. UnderWay' = First \o Append(calls, r)
    BY <1>2 DEF UnderWay, First, InWalk
  <2>3. <<r>> \in Seq(Seq(Byte)) /\ Append(calls, r) = calls \o <<r>>
    BY <1>1, <2>1, Alone, AppendIsConcat
  <2>4. UnderWay \in Seq(Seq(Byte))
    BY <2>1, ConcatProperties
  <2>5. Append(UnderWay, r) = UnderWay \o <<r>>
    BY <1>1, <2>4, AppendIsConcat
  <2>6. (First \o calls) \o <<r>> = First \o (calls \o <<r>>)
    BY <2>1, <2>3, Regroup DEF IsRegrouped
  <2> QED
    BY <2>1, <2>2, <2>3, <2>4, <2>5, <2>6
<1>7. IsQueue(Len(reported), UnderWay', sentMessages')
  BY <1>1, <1>2, <1>5, <1>6, QueueGrows
<1>8. sentMessages' \in Seq(MessageMenu) /\ meant' = Mapped(Meant, sentMessages')
  <2>1. MapsInto(Meant, MessageMenu, Meanings)
    BY DEF MapsInto, Meant, Meanings
  <2>2. Mapped(Meant, Append(sentMessages, m)) = Append(Mapped(Meant, sentMessages), Meant[m])
    BY <1>5, <2>1, MappedAppend
  <2>3. Meant[m] = Meaning(m)
    BY DEF Meant
  <2>4. Append(sentMessages, m) \in Seq(MessageMenu)
    BY <1>5, AppendProperties
  <2> QED
    BY <1>2, <1>5, <2>2, <2>3, <2>4, Zenon
<1>9. reported' = reported /\ (mode' = "idle" \/ InWalk' => buffer' = <<>>)
  BY <1>2, <1>5 DEF InWalk
<1>10. ArrivalInv'
  BY <1>7, <1>8, <1>9 DEF ArrivalInv
<1>11. Channel!Send(Meaning(m))
  BY <1>2 DEF Channel!Send
<1> QED
  BY <1>3, <1>4, <1>10, <1>11

LEMMA WalkGoesOn ==
  ASSUME TypeInv,
         \/ ClearScreen \/ ReadCommand \/ WriteErrorCode \/ Roll \/ WriteStructuredField
         \/ UnknownCommand \/ TopSoh \/ StrayByte \/ OpenWtd
         \/ CloseWtd \/ WtdSoh \/ SkipWdsf \/ Strpccmd \/ CopyOrder
  PROVE  InWalk /\ InWalk' /\ UNCHANGED <<calls, buffer, reported, record>>
<1>1. CASE CloseWtd
  BY <1>1 DEF CloseWtd, framing, walk, InWalk
<1>2. CASE ~CloseWtd
  <2>1. (\E k, callbacks : Advance(k, callbacks)) /\ (mode' = mode \/ mode' = "display")
    BY <1>2, CommandsAdvance, OpenAdvances, DisplayAdvances
  <2>2. PICK k, callbacks : Advance(k, callbacks)
    BY <2>1
  <2> QED
    BY <2>1, <2>2 DEF Advance, GoOn, framing, InWalk
<1> QED
  BY <1>1, <1>2

LEMMA NothingArrives ==
  ASSUME ArrivalInv, UNCHANGED <<sentMessages, meant, reported>>, UnderWay' = UnderWay,
         mode' = "idle" \/ InWalk' => buffer' = <<>>
  PROVE  ArrivalInv' /\ UNCHANGED Channel!vars
BY DEF ArrivalInv, Channel!vars

\* A record that needs no walk is reported.
LEMMA DispatchDelivers ==
  ASSUME MessageMenu \subseteq ShownMessages, TypeInv, AloneInv', ArrivalInv,
         NEW callbacks, Dispatch(callbacks), UNCHANGED <<sentMessages, meant>>
  PROVE  ArrivalInv' /\ Channel!Deliver
<1>1. /\ mode = "framing" /\ HasRecord /\ mode' = mode
      /\ buffer' = SubSeq(buffer, RecordLength + 1, Len(buffer)) /\ calls' = calls
      /\ reported' = Append(reported, [record |-> NextRecord, events |-> callbacks])
  BY DEF Dispatch, TakeRecord
<1>2. buffer # <<>> /\ buffer \in Seq(Byte) /\ calls \in Seq(Seq(Byte))
  <2>1. Len(buffer) >= GdsMinRecordLen
    BY <1>1 DEF HasRecord, HasLength
  <2>2. Len(buffer) # 0
    BY <2>1 DEF GdsMinRecordLen
  <2> QED
    BY <2>2, EmptySeq DEF TypeInv
<1>3. UnderWay = <<buffer>> \o calls /\ NextRecord = buffer
      /\ SubSeq(buffer, RecordLength + 1, Len(buffer)) = <<>>
  BY <1>2, BufferComes
<1>4. reported' = Append(reported, [record |-> buffer, events |-> callbacks]) /\ buffer' = <<>>
  BY <1>1, <1>3
<1>5. Channel!Deliver /\ IsQueue(Len(reported'), calls, sentMessages')
  BY <1>2, <1>3, <1>4, ReportDelivers
<1>6. UnderWay' = calls
  <2>1. UnderWay' = <<>> \o calls
    BY <1>1, <1>4 DEF UnderWay, InWalk
  <2> QED
    BY <1>2, <2>1, ConcatEmptySeq
<1> QED
  BY <1>4, <1>5, <1>6 DEF ArrivalInv

LEMMA EndWalkDelivers ==
  ASSUME MessageMenu \subseteq ShownMessages, TypeInv, AloneInv', ArrivalInv,
         EndWalk, UNCHANGED <<sentMessages, meant>>
  PROVE  ArrivalInv' /\ Channel!Deliver
<1> DEFINE callbacks == Append(events, <<"RawScreenData", display>>)
<1>1. /\ mode = "commands" /\ mode' = "framing" /\ UNCHANGED <<calls, buffer, record>>
      /\ reported' = Append(reported, [record |-> record, events |-> callbacks])
  BY DEF EndWalk, walk
<1> HIDE DEF callbacks
<1>2. UnderWay = <<record>> \o calls /\ buffer = <<>>
  BY <1>1 DEF UnderWay, InWalk, ArrivalInv
<1>3. record \in Seq(Byte) /\ calls \in Seq(Seq(Byte))
  BY DEF TypeInv
<1>4. Channel!Deliver /\ IsQueue(Len(reported'), calls, sentMessages')
  BY <1>1, <1>2, <1>3, ReportDelivers
<1>5. UnderWay' = calls
  <2>1. UnderWay' = <<>> \o calls
    BY <1>1, <1>2 DEF UnderWay, InWalk
  <2> QED
    BY <1>3, <2>1, ConcatEmptySeq
<1> QED
  BY <1>1, <1>2, <1>4, <1>5 DEF ArrivalInv, InWalk

LEMMA BeginWalkArrives ==
  ASSUME MessageMenu \subseteq ShownMessages, TypeInv, ArrivalInv,
         BeginWalk, UNCHANGED <<sentMessages, meant>>
  PROVE  ArrivalInv' /\ UNCHANGED Channel!vars
<1>1. /\ mode = "framing" /\ HasRecord /\ mode' = "commands" /\ record' = NextRecord
      /\ buffer' = SubSeq(buffer, RecordLength + 1, Len(buffer)) /\ UNCHANGED <<calls, reported>>
  BY DEF BeginWalk, TakeRecord
<1>2. buffer # <<>>
  <2>1. Len(buffer) >= GdsMinRecordLen
    BY <1>1 DEF HasRecord, HasLength
  <2>2. Len(buffer) # 0
    BY <2>1 DEF GdsMinRecordLen
  <2> QED
    BY <2>2, EmptySeq
<1>3. UnderWay = <<buffer>> \o calls /\ NextRecord = buffer
      /\ SubSeq(buffer, RecordLength + 1, Len(buffer)) = <<>>
  BY <1>2, BufferComes
<1>4. UnderWay' = <<buffer>> \o calls /\ buffer' = <<>>
  BY <1>1, <1>3 DEF UnderWay, InWalk
<1> QED
  BY <1>1, <1>3, <1>4, NothingArrives

LEMMA WalkingArrives ==
  ASSUME TypeInv, ArrivalInv, UNCHANGED <<sentMessages, meant>>,
         \/ ClearScreen \/ ReadCommand \/ WriteErrorCode \/ Roll \/ WriteStructuredField
         \/ UnknownCommand \/ TopSoh \/ StrayByte \/ OpenWtd
         \/ CloseWtd \/ WtdSoh \/ SkipWdsf \/ Strpccmd \/ CopyOrder
  PROVE  ArrivalInv' /\ UNCHANGED Channel!vars
<1>1. InWalk /\ InWalk' /\ UNCHANGED <<calls, buffer, reported, record>>
  BY WalkGoesOn
<1>2. UnderWay' = UnderWay
  BY <1>1 DEF UnderWay
<1>3. buffer' = <<>>
  BY <1>1 DEF ArrivalInv
<1> QED
  BY <1>1, <1>2, <1>3, NothingArrives

LEMMA FramingArrives ==
  ASSUME MessageMenu \subseteq ShownMessages, TypeInv, ArrivalInv,
         SkipByte \/ Return, UNCHANGED <<sentMessages, meant>>
  PROVE  ArrivalInv' /\ UNCHANGED Channel!vars
<1>1. mode = "framing"
  BY DEF SkipByte, Return
<1>2. buffer # <<>> => /\ HasLength /\ RecordLength \in GdsMinRecordLen..GdsMaxRecordLen
                       /\ RecordLength = Len(buffer) /\ Len(buffer) \in Nat
  <2>1. Len(buffer) \in Nat
    BY LenProperties DEF TypeInv
  <2> QED
    BY <2>1, BufferComes
<1>3. CASE SkipByte
  <2>1. HasLength /\ RecordLength \notin GdsMinRecordLen..GdsMaxRecordLen
    BY <1>3 DEF SkipByte
  <2>2. buffer # <<>>
    <3>1. Len(buffer) # 0
      BY <2>1 DEF HasLength, GdsMinRecordLen
    <3> QED
      BY <3>1, EmptySeq
  <2> QED
    BY <1>2, <2>1, <2>2
<1>4. CASE Return
  <2>1. mode' = "idle" /\ UNCHANGED <<calls, buffer, reported, record>>
        /\ (HasLength => RecordLength > Len(buffer))
    BY <1>4 DEF Return, framing, walk
  <2>2. buffer = <<>>
    <3>1. ASSUME buffer # <<>> PROVE FALSE
      <4>1. RecordLength > Len(buffer) /\ RecordLength = Len(buffer) /\ Len(buffer) \in Nat
        BY <1>2, <2>1, <3>1
      <4> QED
        BY <4>1
    <3> QED
      BY <3>1
  <2>3. UnderWay' = UnderWay
    BY <1>1, <2>1 DEF UnderWay, InWalk
  <2> QED
    BY <2>1, <2>2, <2>3, NothingArrives
<1> QED
  BY <1>3, <1>4

LEMMA FeedArrives ==
  ASSUME MessageMenu \subseteq ShownMessages, TypeInv, ArrivalInv,
         Feed, UNCHANGED <<sentMessages, meant>>
  PROVE  ArrivalInv' /\ UNCHANGED Channel!vars
<1>1. /\ mode = "idle" /\ mode' = "framing" /\ calls # <<>> /\ calls' = Tail(calls)
      /\ buffer' = buffer \o Head(calls) /\ reported' = reported
  BY DEF Feed
<1>2. buffer = <<>> /\ ~InWalk /\ ~InWalk'
  BY <1>1 DEF ArrivalInv, InWalk
<1>3. /\ calls \in Seq(Seq(Byte)) /\ Head(calls) \in Seq(Byte) /\ Tail(calls) \in Seq(Seq(Byte))
      /\ calls = <<Head(calls)>> \o Tail(calls)
  <2>1. calls \in Seq(Seq(Byte))
    BY DEF TypeInv
  <2>2. calls = <<Head(calls)>> \o Tail(calls)
    BY <1>1, <2>1
  <2> QED
    BY <1>1, <2>1, <2>2, HeadTailProperties
<1>4. UnderWay = calls
  <2>1. UnderWay = <<>> \o calls
    BY <1>2 DEF UnderWay
  <2> QED
    BY <1>3, <2>1, ConcatEmptySeq
<1>5. buffer' = Head(calls)
  BY <1>1, <1>2, <1>3, ConcatEmptySeq
<1>6. Head(calls) # <<>>
  <2>1. IsQueue(Len(reported), <<Head(calls)>> \o Tail(calls), sentMessages)
        /\ sentMessages \in Seq(MessageMenu)
    BY <1>3, <1>4 DEF ArrivalInv
  <2>2. Len(reported) \in Nat
    BY UnderWayType
  <2> DEFINE k == Len(reported) + 1
  <2>3. k \in 1..Len(sentMessages) /\ Comes(sentMessages[k], Head(calls))
    BY <1>3, <2>1, <2>2, QueueShrinks
  <2> HIDE DEF k
  <2>4. sentMessages[k] \in ShownMessages
    BY <2>1, <2>3, ElementOfSeq
  <2> QED
    BY <2>3, <2>4, ComingRecord
<1>7. UnderWay' = <<Head(calls)>> \o Tail(calls)
  BY <1>1, <1>2, <1>5, <1>6 DEF UnderWay
<1> QED
  BY <1>1, <1>2, <1>3, <1>4, <1>7, NothingArrives

\* A turn of the decoder.
LEMMA StepDelivers ==
  ASSUME MessageMenu \subseteq ShownMessages, TypeInv, AloneInv', ArrivalInv,
         Step, UNCHANGED <<sentMessages, meant>>
  PROVE  ArrivalInv' /\ [Channel!Next]_(Channel!vars)
<1>1. CASE SkipByte \/ Return
  BY <1>1, FramingArrives
<1>2. CASE RejectRecord \/ PassThrough \/ Signal \/ IgnoreRecord
  <2>1. PICK callbacks : Dispatch(callbacks)
    BY <1>2 DEF RejectRecord, PassThrough, Signal, IgnoreRecord
  <2>2. ArrivalInv' /\ Channel!Deliver
    BY <2>1, DispatchDelivers
  <2> QED
    BY <2>2 DEF Channel!Next
<1>3. CASE BeginWalk
  BY <1>3, BeginWalkArrives
<1>4. CASE EndWalk
  <2>1. ArrivalInv' /\ Channel!Deliver
    BY <1>4, EndWalkDelivers
  <2> QED
    BY <2>1 DEF Channel!Next
<1>5. CASE \/ ClearScreen \/ ReadCommand \/ WriteErrorCode \/ Roll \/ WriteStructuredField
           \/ UnknownCommand \/ TopSoh \/ StrayByte \/ OpenWtd
           \/ CloseWtd \/ WtdSoh \/ SkipWdsf \/ Strpccmd \/ CopyOrder
  BY <1>5, WalkingArrives
<1> QED
  BY <1>1, <1>2, <1>3, <1>4, <1>5 DEF Step

LEMMA ScreenStep ==
  ASSUME MenuIsReadable, MenuIsShown, EndOutside(WrongLengths),
         TypeInv, AloneInv, ArrivalInv, [ScreenNext]_screenVars
  PROVE  TypeInv' /\ AloneInv' /\ ArrivalInv' /\ [Channel!Next]_(Channel!vars)
<1>1. MessageMenu \subseteq ShownMessages /\ \A m \in MessageMenu : Marshal(m) # <<>>
  BY MenuShows
<1>2. ASSUME NEW m \in MessageMenu, NEW s, IsWritten(m, s), HostSends(m, s)
      PROVE  TypeInv' /\ AloneInv' /\ ArrivalInv' /\ [Channel!Next]_(Channel!vars)
  <2>1. TypeInv' /\ AloneInv' /\ ArrivalInv' /\ Channel!Send(Meaning(m))
    BY <1>1, <1>2, SendingKeeps
  <2>2. Meaning(m) \in Meanings
    BY DEF Meanings
  <2> QED
    BY <2>1, <2>2 DEF Channel!Next
<1>3. CASE HostSendsMessage
  <2>1. PICK m \in MessageMenu : HostSends(m, Marshal(m))
    BY <1>3 DEF HostSendsMessage
  <2>2. m \in ReadableMessages /\ Marshal(m) # <<>>
    BY DEF MenuIsReadable
  <2>3. IsWritten(m, Marshal(m))
    BY <2>2, MarshalledIsWritten
  <2> QED
    BY <1>2, <2>1, <2>3
<1>4. CASE HostSendsWrongLength
  <2>1. PICK m \in MessageMenu, len \in WrongLengths : HostSends(m, WithLength(Marshal(m), 0, len))
    BY <1>4 DEF HostSendsWrongLength
  <2>2. m \in ReadableMessages /\ Marshal(m) # <<>>
    BY DEF MenuIsReadable
  <2>3. len \in 0..GdsMaxRecordLen /\ len \notin GdsMinRecordLen..(Len(Marshal(m)) - 1)
    BY DEF EndOutside
  <2>4. IsWritten(m, WithLength(Marshal(m), 0, len))
    BY <2>2, <2>3, MarshalledIsWritten
  <2> QED
    BY <1>2, <2>1, <2>4
<1>5. CASE (Step \/ Feed) /\ UNCHANGED <<sentMessages, meant, message, unread>>
  <2>1. [Next]_vars
    BY <1>5 DEF Next
  <2>2. TypeInv' /\ AloneInv'
    BY <2>1, TypesKeep, AloneKeeps
  <2>3. CASE Step
    BY <1>1, <1>5, <2>2, <2>3, StepDelivers
  <2>4. CASE Feed
    BY <1>1, <1>5, <2>2, <2>4, FeedArrives
  <2> QED
    BY <1>5, <2>2, <2>3, <2>4
<1>6. CASE UNCHANGED screenVars
  <2>1. UNCHANGED vars /\ UNCHANGED <<sentMessages, meant>>
    BY <1>6 DEF screenVars
  <2>2. TypeInv' /\ AloneInv'
    BY <2>1, TypesKeep, AloneKeeps
  <2>3. /\ UNCHANGED <<mode, buffer, calls, record, reported>>
        /\ UnderWay' = UnderWay
    BY <2>1 DEF vars, walk, UnderWay, InWalk
  <2>4. ArrivalInv' /\ UNCHANGED Channel!vars
    BY <2>1, <2>3 DEF ArrivalInv, InWalk, Channel!vars
  <2> QED
    BY <2>2, <2>4
<1> QED
  BY <1>3, <1>4, <1>5, <1>6 DEF ScreenNext

LEMMA ScreenBegins ==
  ASSUME Streams = {<<>>}, ScreenInit
  PROVE  TypeInv /\ AloneInv /\ ArrivalInv /\ Channel!Init
<1>1. /\ Init /\ calls = <<>> /\ buffer = <<>> /\ mode = "idle" /\ reported = <<>>
      /\ sentMessages = <<>> /\ meant = <<>>
  BY DEF ScreenInit, Init
<1>2. TypeInv /\ AloneInv
  BY <1>1, TypesBegin, AloneBegins
<1>3. DOMAIN <<>> = {} /\ Len(<<>>) = 0
  BY EmptySeq
<1>4. [n \in DOMAIN reported |-> reported[n].events] = <<>>
  BY <1>1, <1>3, EmptySeq
<1>5. Mapped(Meant, <<>>) = <<>>
  BY <1>3 DEF Mapped
<1>6. UnderWay = <<>>
  <2>1. UnderWay = <<>> \o <<>>
    BY <1>1 DEF UnderWay, InWalk
  <2> QED
    BY <2>1
<1>7. IsQueue(Len(reported), UnderWay, sentMessages)
  BY <1>1, <1>3, <1>6 DEF IsQueue
<1>8. sentMessages \in Seq(MessageMenu)
  BY <1>1, EmptySeq
<1> QED
  BY <1>1, <1>2, <1>4, <1>5, <1>7, <1>8 DEF ArrivalInv, Channel!Init

\* An application that is called back for what the host writes sees, record
\* by record and in order, what each message stands for, whatever messages of
\* this kind the host writes and whatever wrong lengths they come with
\* (message.cpp:95-159, protocol_handler.cpp:193-236, decoder.cpp:29-411).
THEOREM MessagesShow ==
  ASSUME MenuIsReadable, MenuIsShown, EndOutside(WrongLengths), Streams = {<<>>}
  PROVE  ScreenSpec => ScreenIsTheMessages
<1>1. ScreenInit => TypeInv /\ AloneInv /\ ArrivalInv /\ Channel!Init
  BY ScreenBegins
<1>2. TypeInv /\ AloneInv /\ ArrivalInv /\ [ScreenNext]_screenVars
        => TypeInv' /\ AloneInv' /\ ArrivalInv' /\ [Channel!Next]_(Channel!vars)
  BY ScreenStep
<1> QED
  BY <1>1, <1>2, PTL DEF ScreenSpec, ScreenIsTheMessages, Channel!Safety
=============================================================================
