---------------------------- MODULE CodecProofs ----------------------------
(***************************************************************************)
(* The message object for every message and every record.                  *)
(*                                                                         *)
(* A readable message (Codec) that is written is read as itself, and what  *)
(* is read of any record is a readable message: so what was read once is   *)
(* stable.  Both directions go from the inside out: an order, the orders   *)
(* of a Write To Display, a command, the commands of a message, a message. *)
(* Forward, the reader is followed over the bytes that were written, from  *)
(* wherever they lie in a payload (Lies, Ends) to its end, which the last  *)
(* command reads up to.  Backward, what each reader takes is well formed   *)
(* and needs no more bytes to write than it took, so that it fits the      *)
(* length field again.  The readers of lists are recursive functions over  *)
(* the positions; their lists are followed from the first element on.      *)
(***************************************************************************)
EXTENDS DecoderProofs, Reader

-----------------------------------------------------------------------------
(* Sequences that lie in a payload. *)

\* The bytes t are those of s from position j on.
Lies(s, j, t) ==
  j + Len(t) <= EndOf(s) /\ \A i \in 1..Len(t) : s[j + i - 1] = t[i]

LEMMA LiesSlice ==
  ASSUME NEW s \in Seq(Byte), NEW j \in 1..EndOf(s), NEW t \in Seq(Byte), Lies(s, j, t),
         NEW a \in 1..(Len(t) + 1), NEW n \in 0..Len(t), a <= n + 1
  PROVE  SubSeq(s, j + a - 1, j + n - 1) = SubSeq(t, a, n)
<1> DEFINE u == SubSeq(s, j + a - 1, j + n - 1)
           w == SubSeq(t, a, n)
<1>1. Len(t) \in Nat /\ Len(s) \in Nat /\ EndOf(s) = Len(s) + 1 /\ j \in Nat /\ a \in Nat /\ n \in Nat
      /\ j + Len(t) <= EndOf(s)
  BY Payload, LenProperties DEF Lies
<1>2. /\ u \in Seq(Byte) /\ Len(u) = n - a + 1
      /\ \A i \in 1..(n - a + 1) : u[i] = s[j + a - 1 + i - 1]
  <2>1. j + a - 1 \in 1..(Len(s) + 1) /\ j + n - 1 \in (j + a - 2)..Len(s)
    BY <1>1
  <2>2. \A i \in (j + a - 1)..(j + n - 1) : s[i] \in Byte
    BY <1>1, <2>1, ElementOfSeq
  <2> QED
    BY <1>1, <2>1, <2>2, SubSeqProperties
<1>3. /\ w \in Seq(Byte) /\ Len(w) = n - a + 1
      /\ \A i \in 1..(n - a + 1) : w[i] = t[a + i - 1]
  <2>1. \A i \in a..n : t[i] \in Byte
    BY <1>1, ElementOfSeq
  <2> QED
    BY <1>1, <2>1, SubSeqProperties, SMTT(60)
<1>4. \A i \in 1..(n - a + 1) : s[j + a - 1 + i - 1] = t[a + i - 1]
  <2>1. \A i \in 1..(n - a + 1) : a + i - 1 \in 1..Len(t) /\ j + a - 1 + i - 1 = j + (a + i - 1) - 1
    BY <1>1
  <2> QED
    BY <2>1 DEF Lies
<1> HIDE DEF u, w
<1>5. \A i \in 1..Len(u) : u[i] = w[i]
  BY <1>2, <1>3, <1>4
<1>6. u = w
  BY <1>2, <1>3, <1>5, SeqEqual
<1> QED
  BY <1>6 DEF u, w

LEMMA LiesConcat ==
  ASSUME NEW s \in Seq(Byte), NEW j \in 1..EndOf(s), NEW t \in Seq(Byte), NEW u \in Seq(Byte),
         Lies(s, j, t \o u)
  PROVE  /\ Lies(s, j, t) /\ Lies(s, j + Len(t), u)
         /\ j + Len(t) \in 1..EndOf(s) /\ j + Len(t \o u) = (j + Len(t)) + Len(u)
<1>1. /\ Len(t) \in Nat /\ Len(u) \in Nat /\ EndOf(s) \in Nat /\ j \in Nat
      /\ Len(t \o u) = Len(t) + Len(u)
      /\ \A i \in 1..Len(t) : (t \o u)[i] = t[i]
      /\ \A i \in 1..Len(u) : (t \o u)[Len(t) + i] = u[i]
  BY Payload, LenProperties, ConcatProperties
<1>2. j + Len(t) + Len(u) <= EndOf(s)
  BY <1>1 DEF Lies
<1>3. \A i \in 1..Len(t) : s[j + i - 1] = t[i]
  <2>1. \A i \in 1..Len(t) : i \in 1..Len(t \o u)
    BY <1>1
  <2> QED
    BY <1>1, <2>1 DEF Lies
<1>4. \A i \in 1..Len(u) : s[(j + Len(t)) + i - 1] = u[i]
  <2>1. \A i \in 1..Len(u) : Len(t) + i \in 1..Len(t \o u) /\ (j + Len(t)) + i - 1 = j + (Len(t) + i) - 1
    BY <1>1
  <2> QED
    BY <1>1, <2>1 DEF Lies
<1> QED
  BY <1>1, <1>2, <1>3, <1>4 DEF Lies

-----------------------------------------------------------------------------
(* The walk over the control words, with its pairs. *)

LEMMA ControlWordsArePairs ==
  ASSUME NEW s \in Seq(Byte), NEW k \in 1..EndOf(s)
  PROVE  \E p \in Nat :
           /\ ControlWordsEnd(s, k) = k + 2 * p
           /\ \A i \in 0..(p - 1) : ~IsAttribute(s[k + 2 * i])
<1> DEFINE b == EndOf(s)
           Paired(n, p) == /\ ControlWordsEnd(s, n) = n + 2 * p
                          /\ \A i \in 0..(p - 1) : ~IsAttribute(s[n + 2 * i])
           S == {n \in 1..b : \E p \in Nat : Paired(n, p)}
<1>1. b \in Nat
  BY Payload
<1>2. ASSUME NEW n \in 1..b, \A m \in (n + 1)..b : m \in S
      PROVE  n \in S
  <2>1. CASE Left(s, n) >= 2 /\ ~IsAttribute(s[n])
    <3>1. n + 2 \in (n + 1)..b
      BY <1>1, <2>1 DEF Left
    <3>2. PICK p \in Nat : Paired(n + 2, p)
      BY <1>2, <3>1
    <3>3. ControlWordsEnd(s, n) = n + 2 * (p + 1)
      BY <2>1, <3>2, ControlWords
    <3>4. ASSUME NEW i \in 0..p
          PROVE  ~IsAttribute(s[n + 2 * i])
      <4>1. CASE i = 0
        BY <2>1, <4>1
      <4>2. CASE i # 0
        <5>1. i - 1 \in 0..(p - 1) /\ n + 2 + 2 * (i - 1) = n + 2 * i
          BY <4>2
        <5> QED
          BY <3>2, <5>1
      <4> QED
        BY <4>1, <4>2
    <3>5. p + 1 \in Nat /\ (p + 1) - 1 = p
      OBVIOUS
    <3> QED
      BY <3>3, <3>4, <3>5
  <2>2. CASE ~(Left(s, n) >= 2 /\ ~IsAttribute(s[n]))
    <3>1. ControlWordsEnd(s, n) = n
      BY <2>2, ControlWords
    <3>2. Paired(n, 0)
      BY <3>1
    <3> QED
      BY <3>2
  <2> QED
    BY <2>1, <2>2
<1>3. 1..b \subseteq S
  <2> HIDE DEF S, b
  <2> QED BY <1>1, <1>2, Backwards
<1> QED
  BY <1>3

LEMMA ControlWordsStop ==
  ASSUME NEW s \in Seq(Byte), NEW k \in 1..EndOf(s)
  PROVE  LET a == ControlWordsEnd(s, k) IN Left(s, a) < 2 \/ IsAttribute(s[a])
<1> DEFINE b == EndOf(s)
           Stops(a) == Left(s, a) < 2 \/ IsAttribute(s[a])
           S == {n \in 1..b : Stops(ControlWordsEnd(s, n))}
<1>1. b \in Nat
  BY Payload
<1>2. ASSUME NEW n \in 1..b, \A m \in (n + 1)..b : m \in S
      PROVE  n \in S
  <2>1. CASE Left(s, n) >= 2 /\ ~IsAttribute(s[n])
    <3>1. n + 2 \in (n + 1)..b
      BY <1>1, <2>1 DEF Left
    <3>2. ControlWordsEnd(s, n) = ControlWordsEnd(s, n + 2)
      BY <2>1, ControlWords
    <3> QED
      BY <1>2, <3>1, <3>2
  <2>2. CASE ~(Left(s, n) >= 2 /\ ~IsAttribute(s[n]))
    <3>1. ControlWordsEnd(s, n) = n
      BY <2>2, ControlWords
    <3>2. Left(s, n) \in Int
      BY <1>1 DEF Left
    <3> QED
      BY <2>2, <3>1, <3>2
  <2> QED
    BY <2>1, <2>2
<1>3. 1..b \subseteq S
  <2> HIDE DEF S, b
  <2> QED BY <1>1, <1>2, Backwards
<1> QED
  BY <1>3

\* Pairs in front of an attribute are all walked over.
LEMMA ControlWordsReach ==
  ASSUME NEW s \in Seq(Byte)
  PROVE  \A p \in Nat : \A k \in 1..EndOf(s) :
           (/\ k + 2 * p + 1 <= Len(s) + 1
            /\ \A i \in 0..(p - 1) : ~IsAttribute(s[k + 2 * i])
            /\ IsAttribute(s[k + 2 * p])) => ControlWordsEnd(s, k) = k + 2 * p
<1> DEFINE Walked(p) == \A k \in 1..EndOf(s) :
             (/\ k + 2 * p + 1 <= Len(s) + 1
              /\ \A i \in 0..(p - 1) : ~IsAttribute(s[k + 2 * i])
              /\ IsAttribute(s[k + 2 * p])) => ControlWordsEnd(s, k) = k + 2 * p
           S == {p \in Nat : Walked(p)}
<1>1. Len(s) \in Nat /\ EndOf(s) = Len(s) + 1
  BY Payload
<1>2. 0 \in S
  <2>1. ASSUME NEW k \in 1..EndOf(s), IsAttribute(s[k + 2 * 0])
        PROVE  ControlWordsEnd(s, k) = k + 2 * 0
    <3>1. k + 2 * 0 = k
      OBVIOUS
    <3> QED
      BY <2>1, <3>1, ControlWords
  <2> QED
    BY <2>1
<1>3. ASSUME NEW p \in Nat, p \in S
      PROVE  p + 1 \in S
  <2>1. ASSUME NEW k \in 1..EndOf(s), k + 2 * (p + 1) + 1 <= Len(s) + 1,
               \A i \in 0..p : ~IsAttribute(s[k + 2 * i]), IsAttribute(s[k + 2 * (p + 1)])
        PROVE  ControlWordsEnd(s, k) = k + 2 * (p + 1)
    <3>1. k + 2 \in 1..EndOf(s) /\ Left(s, k) >= 2
      BY <1>1, <2>1 DEF Left
    <3>2. ~IsAttribute(s[k])
      <4>1. 0 \in 0..p /\ k + 2 * 0 = k
        OBVIOUS
      <4> QED
        BY <2>1, <4>1
    <3>3. ControlWordsEnd(s, k) = ControlWordsEnd(s, k + 2)
      BY <3>1, <3>2, ControlWords
    <3>4. \A i \in 0..(p - 1) : ~IsAttribute(s[k + 2 + 2 * i])
      <4>1. \A i \in 0..(p - 1) : i + 1 \in 0..p /\ k + 2 * (i + 1) = k + 2 + 2 * i
        OBVIOUS
      <4> QED
        BY <2>1, <4>1
    <3>5. k + 2 + 2 * p = k + 2 * (p + 1)
      OBVIOUS
    <3>6. ControlWordsEnd(s, k + 2) = k + 2 + 2 * p
      <4>1. Walked(p)
        BY <1>3
      <4>2. k + 2 + 2 * p + 1 <= Len(s) + 1 /\ IsAttribute(s[k + 2 + 2 * p])
        BY <2>1, <3>5
      <4> QED
        BY <3>1, <3>4, <4>1, <4>2
    <3> QED
      BY <3>3, <3>5, <3>6
  <2>2. (p + 1) - 1 = p /\ p + 1 \in Nat
    OBVIOUS
  <2> QED
    BY <2>1, <2>2
<1>4. Nat \subseteq S
  <2> HIDE DEF S
  <2> QED BY <1>2, <1>3, Induction
<1> QED
  BY <1>4

\* The first stop is the only one.
LEMMA UntilIs ==
  ASSUME NEW s \in Seq(Byte), NEW k \in 1..EndOf(s), NEW stop, NEW n \in k..EndOf(s),
         n = EndOf(s) \/ s[n] \in stop, \A m \in k..(n - 1) : s[m] \notin stop
  PROVE  Until(s, k, stop) = n
<1> DEFINE u == Until(s, k, stop)
<1>1. /\ u \in k..EndOf(s) /\ EndOf(s) \in Nat
      /\ u = EndOf(s) \/ s[u] \in stop
      /\ \A m \in k..(u - 1) : s[m] \notin stop
  BY UntilStops, Payload
<1> HIDE DEF u
<1>2. ~(u < n)
  <2>1. u < n => u \in k..(n - 1) /\ u # EndOf(s)
    BY <1>1
  <2> QED
    BY <1>1, <2>1
<1>3. ~(n < u)
  <2>1. n < u => n \in k..(u - 1) /\ n # EndOf(s)
    BY <1>1
  <2> QED
    BY <1>1, <2>1
<1>4. u = n
  BY <1>1, <1>2, <1>3
<1> QED
  BY <1>4 DEF u
-----------------------------------------------------------------------------
(* Orders that are read as they were written. *)

LEMMA CodecOrdersAre ==
  /\ CodecOrders = {1, 2, 3, 17, 29} /\ CodecOrders \subseteq Byte
  /\ SOH = 1 /\ OrderRA = 2 /\ CodecIC = 3 /\ OrderSBA = 17 /\ OrderSF = 29
BY DEF CodecOrders, SOH, OrderRA, CodecIC, OrderSBA, OrderSF, Byte

LEMMA TwoBytes ==
  ASSUME NEW n \in Nat
  PROVE  /\ BigEndian16(n) \in Seq(Byte) /\ Len(BigEndian16(n)) = 2
         /\ BigEndian16(n)[1] = (n \div 256) % 256 /\ BigEndian16(n)[2] = n % 256
         /\ n <= GdsMaxRecordLen => 256 * BigEndian16(n)[1] + BigEndian16(n)[2] = n
<1> DEFINE hi == (n \div 256) % 256
           lo == n % 256
<1>1. n \div 256 \in Nat /\ n = 256 * (n \div 256) + lo /\ lo \in 0..255
  OBVIOUS
<1>2. hi \in 0..255 /\ (n <= 65535 => hi = n \div 256)
  BY <1>1
<1>3. hi \in Byte /\ lo \in Byte
  BY <1>1, <1>2 DEF Byte
<1>4. BigEndian16(n) = <<hi, lo>>
  BY DEF BigEndian16
<1>5. n <= 65535 => 256 * hi + lo = n
  BY <1>1, <1>2
<1> HIDE DEF hi, lo
<1>6. <<hi, lo>> \in Seq(Byte) /\ Len(<<hi, lo>>) = 2 /\ <<hi, lo>>[1] = hi /\ <<hi, lo>>[2] = lo
  BY <1>3
<1>7. GdsMaxRecordLen = 65535
  BY DEF GdsMaxRecordLen
<1> QED
  BY <1>4, <1>5, <1>6, <1>7 DEF hi, lo

\* What lies behind a sequence.
LEMMA Longer ==
  ASSUME NEW u \in Seq(Byte), NEW v \in Seq(Byte)
  PROVE  /\ u \o v \in Seq(Byte) /\ Len(u \o v) = Len(u) + Len(v)
         /\ Len(u) \in Nat /\ Len(v) \in Nat
         /\ Len(u) >= 1 => (u \o v)[1] = u[1]
<1>1. /\ u \o v \in Seq(Byte) /\ Len(u \o v) = Len(u) + Len(v)
      /\ Len(u) \in Nat /\ Len(v) \in Nat
      /\ \A i \in 1..Len(u) : (u \o v)[i] = u[i]
  BY ConcatProperties, LenProperties
<1> QED
  BY <1>1

\* The parts of a written order.
LengthOf(order) == IF order.code = OrderSF THEN BigEndian16(Len(order.data)) ELSE <<>>

LEMMA OrderBytes ==
  ASSUME NEW order \in OrderShape
  PROVE  /\ order.operands \in Seq(Byte) /\ order.data \in Seq(Byte) /\ LengthOf(order) \in Seq(Byte)
         /\ Len(LengthOf(order)) = IF order.code = OrderSF THEN 2 ELSE 0
         /\ <<order.code>> \in Seq(Byte) /\ Len(<<order.code>>) = 1
         /\ MarshalOrder(order) = ((<<order.code>> \o order.operands) \o LengthOf(order)) \o order.data
         /\ MarshalOrder(order) \in Seq(Byte)
         /\ MarshalOrder(order)[1] = order.code
         /\ Len(MarshalOrder(order)) =
              1 + Len(order.operands) + Len(LengthOf(order)) + Len(order.data)
<1> DEFINE field == LengthOf(order)
           t == <<order.code>> \o order.operands
           w == t \o field
           m == w \o order.data
<1>1. /\ order.operands \in Seq(Byte) /\ order.data \in Seq(Byte) /\ order.code \in Byte
      /\ Len(order.operands) \in Nat /\ Len(order.data) \in Nat
  BY CodecOrdersAre, LenProperties DEF OrderShape
<1>2. field \in Seq(Byte) /\ Len(field) = IF order.code = OrderSF THEN 2 ELSE 0
  <2>1. BigEndian16(Len(order.data)) \in Seq(Byte) /\ Len(BigEndian16(Len(order.data))) = 2
    <3> DEFINE n == Len(order.data)
    <3>1. n \in Nat
      BY <1>1
    <3> HIDE DEF n
    <3>2. BigEndian16(n) \in Seq(Byte) /\ Len(BigEndian16(n)) = 2
      BY <3>1, TwoBytes
    <3> QED
      BY <3>2 DEF n
  <2>2. <<>> \in Seq(Byte) /\ Len(<<>>) = 0
    BY EmptySeq
  <2>3. CASE order.code = OrderSF
    BY <2>1, <2>3 DEF LengthOf
  <2>4. CASE order.code # OrderSF
    BY <2>2, <2>4 DEF LengthOf
  <2> QED
    BY <2>3, <2>4
<1>3. MarshalOrder(order) = m
  BY DEF MarshalOrder, LengthOf
<1> HIDE DEF field
<1>4. <<order.code>> \in Seq(Byte) /\ Len(<<order.code>>) = 1 /\ <<order.code>>[1] = order.code
  BY <1>1
<1>5. t \in Seq(Byte) /\ Len(t) = 1 + Len(order.operands) /\ t[1] = order.code
  BY <1>1, <1>4, Longer
<1> HIDE DEF t
<1>6. w \in Seq(Byte) /\ Len(w) = Len(t) + Len(field) /\ w[1] = t[1] /\ Len(w) >= 1
  <2>1. Len(t) >= 1 /\ Len(t) \in Nat
    BY <1>1, <1>5
  <2>2. t \in Seq(Byte) /\ field \in Seq(Byte)
    BY <1>2, <1>5
  <2>3. w \in Seq(Byte) /\ Len(w) = Len(t) + Len(field) /\ Len(field) \in Nat /\ w[1] = t[1]
    BY <2>1, <2>2, Longer
  <2> QED
    BY <2>1, <2>3
<1> HIDE DEF w
<1>7. m \in Seq(Byte) /\ Len(m) = Len(w) + Len(order.data) /\ m[1] = w[1]
  BY <1>1, <1>6, Longer
<1> QED
  BY <1>1, <1>2, <1>3, <1>4, <1>5, <1>6, <1>7 DEF field, w, t


-----------------------------------------------------------------------------
(* What is read of an order is an order, and no longer. *)

\* What reading at k may give.
OrderResults(s, k) ==
  {this \in [read : Nat, order : Orders] :
     this.read \in 1..Left(s, k) /\ Len(MarshalOrder(this.order)) <= this.read}

LEMMA Sliced ==
  ASSUME NEW s \in Seq(Byte), NEW a \in 1..EndOf(s), NEW n \in Nat, a <= n + 1, n <= Len(s)
  PROVE  /\ SubSeq(s, a, n) \in Seq(Byte) /\ Len(SubSeq(s, a, n)) = n - a + 1
         /\ \A i \in 1..(n - a + 1) : SubSeq(s, a, n)[i] = s[a + i - 1]
<1>1. Len(s) \in Nat /\ EndOf(s) = Len(s) + 1
  BY Payload
<1>2. a \in 1..(Len(s) + 1) /\ n \in (a - 1)..Len(s)
  BY <1>1
<1>3. \A i \in a..n : s[i] \in Byte
  BY <1>1, <1>2, ElementOfSeq
<1> QED
  BY <1>1, <1>2, <1>3, SubSeqProperties

\* An order that was made of legible parts.
LEMMA Result ==
  ASSUME NEW s \in Seq(Byte), NEW k \in 1..Len(s), NEW code \in CodecOrders,
         NEW w \in Seq(Byte), NEW data \in Seq(Byte), Legible(code, w, data),
         NEW n \in 1..Left(s, k), 1 + Len(w) + (IF code = OrderSF THEN 2 ELSE 0) + Len(data) <= n
  PROVE  [read |-> n, order |-> [code |-> code, operands |-> w, data |-> data]] \in OrderResults(s, k)
<1> DEFINE order == [code |-> code, operands |-> w, data |-> data]
           this == [read |-> n, order |-> order]
<1>1. /\ order \in OrderShape /\ order.code = code /\ order.operands = w /\ order.data = data
  BY DEF OrderShape
<1> HIDE DEF order
<1>2. order \in Orders
  BY <1>1 DEF Orders
<1>3. Len(MarshalOrder(order)) = 1 + Len(w) + (IF code = OrderSF THEN 2 ELSE 0) + Len(data)
  BY <1>1, OrderBytes
<1>4. n \in Nat
  BY Payload DEF Left
<1>5. this \in [read : Nat, order : Orders] /\ this.read = n /\ this.order = order
  BY <1>2, <1>4
<1> HIDE DEF this
<1>6. this \in OrderResults(s, k)
  BY <1>3, <1>5 DEF OrderResults
<1> QED
  BY <1>6 DEF this, order

LEMMA FixedOrderRead ==
  ASSUME NEW s \in Seq(Byte), NEW k \in 1..Len(s), NEW size \in Nat,
         \/ s[k] = SOH /\ size = 9
         \/ s[k] = OrderRA /\ size = 4
         \/ s[k] = CodecIC /\ size = 3
  PROVE  FixedOrder(s, k, size) \subseteq OrderResults(s, k)
<1> DEFINE w == SubSeq(s, k + 1, k + size - 1)
           data == SubSeq(s, k + size, k + size - 1)
<1>1. Len(s) \in Nat /\ EndOf(s) = Len(s) + 1 /\ k \in Nat /\ Left(s, k) = Len(s) + 1 - k
  BY Payload DEF Left
<1>2. SUFFICES ASSUME Left(s, k) >= size
               PROVE  [read |-> size, order |-> OrderOf(s, k, k + size, k + size)] \in OrderResults(s, k)
  BY <1>1 DEF FixedOrder
<1>3. k + size <= Len(s) + 1 /\ size >= 1
  BY <1>1, <1>2
<1>4. w \in Seq(Byte) /\ Len(w) = size - 1
  <2>1. k + 1 \in 1..EndOf(s) /\ k + size - 1 \in Nat /\ k + 1 <= (k + size - 1) + 1 /\ k + size - 1 <= Len(s)
    BY <1>1, <1>3
  <2>2. (k + size - 1) - (k + 1) + 1 = size - 1
    BY <1>1
  <2> QED
    BY <2>1, <2>2, Sliced
<1>5. data \in Seq(Byte) /\ data = <<>> /\ Len(data) = 0
  <2>1. k + size \in 1..EndOf(s) /\ k + size - 1 \in Nat /\ k + size <= (k + size - 1) + 1 /\ k + size - 1 <= Len(s)
    BY <1>1, <1>3
  <2>2. (k + size - 1) - (k + size) + 1 = 0
    BY <1>1
  <2>3. data \in Seq(Byte) /\ Len(data) = 0
    BY <2>1, <2>2, Sliced
  <2> QED
    BY <2>3, EmptySeq
<1>6. OrderOf(s, k, k + size, k + size) = [code |-> s[k], operands |-> w, data |-> data]
  BY DEF OrderOf
<1> HIDE DEF w, data
<1>7. s[k] \in CodecOrders /\ s[k] # OrderSF
  BY CodecOrdersAre
<1>8. Legible(s[k], w, data)
  BY <1>4, <1>5 DEF Legible
<1>9. size \in 1..Left(s, k) /\ 1 + Len(w) + (IF s[k] = OrderSF THEN 2 ELSE 0) + Len(data) <= size
  BY <1>1, <1>2, <1>3, <1>4, <1>5, <1>7
<1> QED
  BY <1>4, <1>5, <1>6, <1>7, <1>8, <1>9, Result

LEMMA SbaRead ==
  ASSUME NEW s \in Seq(Byte), NEW k \in 1..Len(s), s[k] = OrderSBA
  PROVE  UnmarshalSba(s, k) \subseteq OrderResults(s, k)
<1> DEFINE end == Until(s, k + 3, CodecOrders)
           w == SubSeq(s, k + 1, (k + 3) - 1)
           data == SubSeq(s, k + 3, end - 1)
<1>1. Len(s) \in Nat /\ EndOf(s) = Len(s) + 1 /\ k \in Nat /\ Left(s, k) = Len(s) + 1 - k
  BY Payload DEF Left
<1>2. SUFFICES ASSUME Left(s, k) >= 3
               PROVE  [read |-> end - k, order |-> OrderOf(s, k, k + 3, end)] \in OrderResults(s, k)
  BY <1>1 DEF UnmarshalSba
<1>3. k + 3 \in 1..EndOf(s) /\ k + 3 <= Len(s) + 1
  BY <1>1, <1>2
<1>4. /\ end \in (k + 3)..EndOf(s)
      /\ \A m \in (k + 3)..(end - 1) : s[m] \notin CodecOrders
  BY <1>3, UntilStops
<1> HIDE DEF end
<1>5. OrderOf(s, k, k + 3, end) = [code |-> s[k], operands |-> w, data |-> data]
  BY Zenon DEF OrderOf
<1>6. w \in Seq(Byte) /\ Len(w) = 2
  <2>1. k + 1 \in 1..EndOf(s) /\ (k + 3) - 1 \in Nat /\ k + 1 <= ((k + 3) - 1) + 1 /\ (k + 3) - 1 <= Len(s)
        /\ ((k + 3) - 1) - (k + 1) + 1 = 2
    BY <1>1, <1>3
  <2> QED
    BY <2>1, Sliced
<1>7. /\ data \in Seq(Byte) /\ Len(data) = end - (k + 3)
      /\ \A i \in 1..(end - (k + 3)) : data[i] = s[k + 3 + i - 1]
  <2>1. end - 1 \in Nat /\ k + 3 <= (end - 1) + 1 /\ end - 1 <= Len(s)
        /\ (end - 1) - (k + 3) + 1 = end - (k + 3)
    BY <1>1, <1>3, <1>4
  <2> QED
    BY <1>3, <2>1, Sliced
<1> HIDE DEF w, data
<1>8. \A n \in 1..Len(data) : data[n] \notin CodecOrders
  <2>1. \A n \in 1..(end - (k + 3)) : k + 3 + n - 1 \in (k + 3)..(end - 1)
    BY <1>1, <1>4
  <2> QED
    BY <1>4, <1>7, <2>1
<1>9. Legible(s[k], w, data)
  BY <1>6, <1>8 DEF Legible
<1>10. s[k] \in CodecOrders /\ s[k] # OrderSF
  BY CodecOrdersAre
<1>11. end - k \in 1..Left(s, k) /\ 1 + Len(w) + (IF s[k] = OrderSF THEN 2 ELSE 0) + Len(data) <= end - k
  BY <1>1, <1>4, <1>6, <1>7, <1>10
<1> QED
  BY <1>5, <1>6, <1>7, <1>9, <1>10, <1>11, Result, ZenonT(60)

LEMMA SfRead ==
  ASSUME NEW s \in Seq(Byte), NEW k \in 1..Len(s), s[k] = OrderSF
  PROVE  UnmarshalSf(s, k) \subseteq OrderResults(s, k)
<1> DEFINE a == ControlWordsEnd(s, k + 3)
           end == SfDataEnd(s, a)
           w == SubSeq(s, k + 1, a)
           data == SubSeq(s, a + 3, end - 1)
           this == [read |-> end - k, order |-> [code |-> OrderSF, operands |-> w, data |-> data]]
<1>1. Len(s) \in Nat /\ EndOf(s) = Len(s) + 1 /\ k \in Nat /\ Left(s, k) = Len(s) + 1 - k
  BY Payload DEF Left
<1>2. SUFFICES ASSUME Left(s, k) >= 5, Left(s, a) >= 3
               PROVE  this \in OrderResults(s, k)
  <2>1. CASE Left(s, k) < 5
    BY <2>1 DEF UnmarshalSf
  <2>2. CASE ~(Left(s, a) >= 3)
    BY <2>2 DEF UnmarshalSf
  <2>3. CASE Left(s, k) >= 5 /\ Left(s, a) >= 3
    <3>1. this \in OrderResults(s, k)
      BY <1>2, <2>3
    <3>2. UnmarshalSf(s, k) \subseteq {this}
      BY Zenon DEF UnmarshalSf
    <3> QED
      BY <3>1, <3>2, Zenon
  <2> QED
    BY <1>1, <2>1, <2>2, <2>3
<1>3. k + 3 \in 1..EndOf(s)
  BY <1>1, <1>2
<1>4. PICK p \in Nat : a = k + 3 + 2 * p /\ \A i \in 0..(p - 1) : ~IsAttribute(s[k + 3 + 2 * i])
  BY <1>3, ControlWordsArePairs
<1>5. IsAttribute(s[a])
  <2>1. Left(s, a) < 2 \/ IsAttribute(s[a])
    BY <1>3, ControlWordsStop
  <2>2. Left(s, a) \in Int
    BY <1>1, <1>4 DEF Left
  <2> QED
    BY <1>2, <2>1, <2>2
<1>6. a \in Nat /\ a + 3 <= Len(s) + 1 /\ a + 2 <= Len(s)
  BY <1>1, <1>2, <1>4 DEF Left
<1>7. /\ end \in Nat /\ end >= a + 3 /\ end <= EndOf(s) /\ end <= a + 3 + 65535
  <2>1. s[a + 1] \in Nat /\ s[a + 1] <= 255 /\ s[a + 2] \in Nat /\ s[a + 2] <= 255
    BY <1>1, <1>6, Payload
  <2>2. Length16(s, a) \in Nat /\ Length16(s, a) <= 65535
    BY <2>1, SMTT(60) DEF Length16
  <2>3. end = IF a + 3 + Length16(s, a) > EndOf(s) THEN EndOf(s) ELSE a + 3 + Length16(s, a)
    BY DEF SfDataEnd, Clamp
  <2> HIDE DEF end
  <2> QED
    BY <1>1, <1>6, <2>2, <2>3
<1> HIDE DEF end, a
<1>8. /\ w \in Seq(Byte) /\ Len(w) = a - k
      /\ \A i \in 1..(a - k) : w[i] = s[k + i]
  <2>1. k + 1 \in 1..EndOf(s) /\ a \in Nat /\ k + 1 <= a + 1 /\ a <= Len(s) /\ a - (k + 1) + 1 = a - k
        /\ \A i \in 1..(a - k) : (k + 1) + i - 1 = k + i
    BY <1>1, <1>4, <1>6
  <2> QED
    BY <2>1, Sliced
<1>9. data \in Seq(Byte) /\ Len(data) = end - (a + 3)
  <2>1. a + 3 \in 1..EndOf(s) /\ end - 1 \in Nat /\ a + 3 <= (end - 1) + 1 /\ end - 1 <= Len(s)
        /\ (end - 1) - (a + 3) + 1 = end - (a + 3)
    BY <1>1, <1>6, <1>7
  <2> QED
    BY <2>1, Sliced
<1> HIDE DEF w, data
<1>10. IsField(w)
  <2>1. Len(w) = 3 + 2 * p
    BY <1>1, <1>4, <1>8
  <2>2. IsAttribute(w[3 + 2 * p])
    <3>1. 3 + 2 * p \in 1..(a - k) /\ k + (3 + 2 * p) = a
      BY <1>1, <1>4
    <3> QED
      BY <1>5, <1>8, <3>1
  <2>3. ASSUME NEW i \in 0..(p - 1)
        PROVE  ~IsAttribute(w[3 + 2 * i])
    <3>1. 3 + 2 * i \in 1..(a - k) /\ k + (3 + 2 * i) = k + 3 + 2 * i
      BY <1>1, <1>4
    <3> QED
      BY <1>4, <1>8, <3>1
  <2> QED
    <3>1. p \in 0..Len(w)
      BY <2>1
    <3> QED
      BY <2>1, <2>2, <2>3, <3>1 DEF IsField
<1>11. Legible(OrderSF, w, data)
  <2>1. Len(data) <= GdsMaxRecordLen
    BY <1>6, <1>7, <1>9 DEF GdsMaxRecordLen
  <2> QED
    BY <1>10, <2>1 DEF Legible
<1>12. end - k \in 1..Left(s, k) /\ 1 + Len(w) + 2 + Len(data) <= end - k
  BY <1>1, <1>4, <1>6, <1>7, <1>8, <1>9
<1>13. OrderSF \in CodecOrders
  BY CodecOrdersAre
<1> QED
  BY <1>8, <1>9, <1>11, <1>12, <1>13, Result

LEMMA OrderRead ==
  ASSUME NEW s \in Seq(Byte), NEW k \in 1..Len(s), s[k] \in CodecOrders
  PROVE  UnmarshalOrder(s, k) \subseteq OrderResults(s, k)
<1>1. CASE s[k] = SOH
  <2>1. UnmarshalOrder(s, k) = FixedOrder(s, k, 9)
    BY <1>1, CodecOrdersAre DEF UnmarshalOrder, UnmarshalSoh
  <2> QED
    BY <1>1, <2>1, FixedOrderRead
<1>2. CASE s[k] = OrderRA
  <2>1. UnmarshalOrder(s, k) = FixedOrder(s, k, 4)
    BY <1>2, CodecOrdersAre DEF UnmarshalOrder, UnmarshalRa
  <2> QED
    BY <1>2, <2>1, FixedOrderRead
<1>3. CASE s[k] = CodecIC
  <2>1. UnmarshalOrder(s, k) = FixedOrder(s, k, 3)
    BY <1>3, CodecOrdersAre DEF UnmarshalOrder, UnmarshalIc
  <2> QED
    BY <1>3, <2>1, FixedOrderRead
<1>4. CASE s[k] = OrderSBA
  <2>1. UnmarshalOrder(s, k) = UnmarshalSba(s, k)
    BY <1>4, CodecOrdersAre DEF UnmarshalOrder
  <2> QED
    BY <1>4, <2>1, SbaRead
<1>5. CASE s[k] = OrderSF
  <2>1. UnmarshalOrder(s, k) = UnmarshalSf(s, k)
    BY <1>5, CodecOrdersAre DEF UnmarshalOrder
  <2> QED
    BY <1>5, <2>1, SfRead
<1> QED
  BY <1>1, <1>2, <1>3, <1>4, <1>5 DEF CodecOrders

-----------------------------------------------------------------------------
(* The orders of a Write To Display, read and written. *)

Written == [order \in Orders |-> MarshalOrder(order)]

LEMMA WrittenType == MapsInto(Written, Orders, Seq(Byte))
<1>1. \A order \in Orders : MarshalOrder(order) \in Seq(Byte)
  BY OrderBytes DEF Orders
<1> QED
  BY <1>1 DEF MapsInto, Written

\* One turn of the reading of orders.
OrdersStep(s, j, g) ==
  [k \in j..EndOf(s) |->
     IF k = EndOf(s) THEN {<<>>}
     ELSE IF s[k] \notin CodecOrders THEN g[k + 1]
     ELSE UNION {{<<this.order>> \o rest : rest \in g[k + this.read]} :
                   this \in UnmarshalOrder(s, k)}]

OrdersFrom(s, j) == CHOOSE g : g = OrdersStep(s, j, g)

LEMMA OrdersAreFrom == \A s, j : UnmarshalOrders(s, j) = OrdersFrom(s, j)[j]
BY DEF UnmarshalOrders, OrdersFrom, OrdersStep

LEMMA OrdersUnrolled ==
  ASSUME NEW s \in Seq(Byte), NEW j \in 1..EndOf(s)
  PROVE  /\ OrdersFrom(s, j) \in [j..EndOf(s) -> SUBSET Seq(Orders)]
         /\ OrdersFrom(s, j) = OrdersStep(s, j, OrdersFrom(s, j))
<1> DEFINE b == EndOf(s)
           D == j..b
           X == SUBSET Seq(Orders)
           F == [g \in [D -> X] |-> OrdersStep(s, j, g)]
           mu == [k \in D |-> b - k]
<1>1. b \in Nat /\ b = Len(s) + 1 /\ j \in Nat /\ Len(s) \in Nat
  BY Payload
<1>2. ASSUME NEW k \in D, k # b
      PROVE  k \in 1..Len(s) /\ k + 1 \in D /\ mu[k + 1] < mu[k]
  BY <1>1, <1>2
<1>3. ASSUME NEW k \in D, k # b, s[k] \in CodecOrders, NEW this \in UnmarshalOrder(s, k)
      PROVE  k + this.read \in D /\ mu[k + this.read] < mu[k] /\ this.order \in Orders
  <2>1. this \in OrderResults(s, k)
    BY <1>2, <1>3, OrderRead
  <2>2. this.read \in 1..Left(s, k) /\ this.order \in Orders
    BY <2>1 DEF OrderResults
  <2> QED
    BY <1>1, <2>2 DEF Left
<1>4. ASSUME NEW g, NEW k \in D, \A m \in D : mu[m] < mu[k] => g[m] \in X
      PROVE  OrdersStep(s, j, g)[k] \in X
  <2>1. CASE k = b
    <3>1. {<<>>} \in X
      BY EmptySeq
    <3> QED
      BY <2>1, <3>1 DEF OrdersStep
  <2>2. CASE k # b /\ s[k] \notin CodecOrders
    <3>1. g[k + 1] \in X
      BY <1>2, <1>4, <2>2
    <3> QED
      BY <2>2, <3>1 DEF OrdersStep
  <2>3. CASE k # b /\ s[k] \in CodecOrders
    <3>1. ASSUME NEW this \in UnmarshalOrder(s, k), NEW rest \in g[k + this.read]
          PROVE  <<this.order>> \o rest \in Seq(Orders)
      <4>1. k + this.read \in D /\ this.order \in Orders
        BY <1>3, <2>3
      <4>2. rest \in Seq(Orders)
        BY <1>3, <1>4, <2>3, <3>1
      <4> QED
        BY <4>1, <4>2, Prefixed
    <3>2. OrdersStep(s, j, g)[k] =
            UNION {{<<this.order>> \o rest : rest \in g[k + this.read]} : this \in UnmarshalOrder(s, k)}
      BY <2>3, Zenon DEF OrdersStep
    <3>3. UNION {{<<this.order>> \o rest : rest \in g[k + this.read]} : this \in UnmarshalOrder(s, k)}
            \subseteq Seq(Orders)
      <4> DEFINE A(this) == {<<this.order>> \o rest : rest \in g[k + this.read]}
      <4>1. \A this \in UnmarshalOrder(s, k) : A(this) \subseteq Seq(Orders)
        BY <3>1
      <4> HIDE DEF A
      <4>2. UNION {A(this) : this \in UnmarshalOrder(s, k)} \subseteq Seq(Orders)
        BY <4>1
      <4> QED
        BY <4>2, Zenon DEF A
    <3> QED
      BY <3>2, <3>3, Zenon
  <2> QED
    BY <2>1, <2>2, <2>3
<1>5. ASSUME NEW g \in [D -> X], NEW h \in [D -> X], NEW k \in D,
             \A e \in D : mu[e] < mu[k] => g[e] = h[e]
      PROVE  OrdersStep(s, j, g)[k] = OrdersStep(s, j, h)[k]
  <2>1. CASE k = b
    BY <2>1, Zenon DEF OrdersStep
  <2>2. CASE k # b /\ s[k] \notin CodecOrders
    <3>1. g[k + 1] = h[k + 1]
      BY <1>2, <1>5, <2>2
    <3> QED
      BY <2>2, <3>1, Zenon DEF OrdersStep
  <2>3. CASE k # b /\ s[k] \in CodecOrders
    <3>1. \A this \in UnmarshalOrder(s, k) : g[k + this.read] = h[k + this.read]
      BY <1>3, <1>5, <2>3
    <3>2. UNION {{<<this.order>> \o rest : rest \in g[k + this.read]} : this \in UnmarshalOrder(s, k)} =
          UNION {{<<this.order>> \o rest : rest \in h[k + this.read]} : this \in UnmarshalOrder(s, k)}
      <4> DEFINE A(f, this) == {<<this.order>> \o rest : rest \in f[k + this.read]}
      <4>1. \A this \in UnmarshalOrder(s, k) : A(g, this) = A(h, this)
        BY <3>1
      <4> HIDE DEF A
      <4>2. {A(g, this) : this \in UnmarshalOrder(s, k)} = {A(h, this) : this \in UnmarshalOrder(s, k)}
        BY <4>1
      <4>3. UNION {A(g, this) : this \in UnmarshalOrder(s, k)} = UNION {A(h, this) : this \in UnmarshalOrder(s, k)}
        BY <4>2
      <4> QED
        BY <4>3, Zenon DEF A
    <3> QED
      BY <2>3, <3>2, Zenon DEF OrdersStep
  <2> QED
    BY <2>1, <2>2, <2>3
<1>6. Descends(F, D, mu, X)
  <2>1. mu \in [D -> Nat]
    BY <1>1
  <2>2. F \in [[D -> X] -> [D -> X]]
    <3>1. \A g : OrdersStep(s, j, g) = [k \in D |-> OrdersStep(s, j, g)[k]]
      BY Zenon DEF OrdersStep
    <3>2. \A g \in [D -> X] : OrdersStep(s, j, g) \in [D -> X]
      BY <1>4, <3>1
    <3> QED
      BY <3>2
  <2>3. \A g, h \in [D -> X], k \in D :
          (\A e \in D : mu[e] < mu[k] => g[e] = h[e]) => F[g][k] = F[h][k]
    BY <1>5
  <2> HIDE DEF F, D, mu, X
  <2> QED
    BY <2>1, <2>2, <2>3 DEF Descends
<1>7. \E g \in [D -> X] : F[g] = g
  <2>1. X # {}
    BY EmptySeq
  <2> HIDE DEF F, D, mu, X
  <2>2. HasSolution(F, D, X)
    BY <1>6, <2>1, Solution, Zenon
  <2> QED
    BY <2>2 DEF HasSolution
<1>8. \E g : g = OrdersStep(s, j, g)
  BY <1>7
<1>9. OrdersFrom(s, j) = OrdersStep(s, j, OrdersFrom(s, j))
  BY <1>8, Zenon DEF OrdersFrom
<1> DEFINE g == OrdersFrom(s, j)
           S == {k \in 1..b : k \in D => g[k] \in X}
<1>10. g = OrdersStep(s, j, g)
  BY <1>9
<1> HIDE DEF g
<1>11. ASSUME NEW k \in 1..b, \A m \in (k + 1)..b : m \in S
       PROVE  k \in S
  <2>1. SUFFICES ASSUME k \in D
                 PROVE  g[k] \in X
    OBVIOUS
  <2>2. ASSUME NEW m \in D, mu[m] < mu[k]
        PROVE  g[m] \in X
    <3>1. m \in (k + 1)..b
      BY <1>1, <2>1, <2>2
    <3> QED
      BY <1>11, <2>2, <3>1
  <2>3. OrdersStep(s, j, g)[k] \in X
    <3> HIDE DEF mu, X
    <3> QED BY <1>4, <2>1, <2>2
  <2> QED
    BY <1>10, <2>3, Zenon
<1>12. 1..b \subseteq S
  <2> HIDE DEF S, b
  <2> QED BY <1>1, <1>11, Backwards
<1>13. \A k \in D : g[k] \in X
  <2>1. D \subseteq 1..b
    BY <1>1
  <2> QED
    BY <1>12, <2>1
<1>14. g = [k \in D |-> g[k]]
  <2>1. OrdersStep(s, j, g) = [k \in D |-> OrdersStep(s, j, g)[k]]
    BY Zenon DEF OrdersStep
  <2> QED
    BY <1>10, <2>1, Zenon
<1>15. g \in [D -> X]
  <2> HIDE DEF D, X
  <2> QED BY <1>13, <1>14
<1> QED
  BY <1>10, <1>15 DEF g

LEMMA OrdersShort ==
  ASSUME NEW s \in Seq(Byte), NEW j \in 1..EndOf(s)
  PROVE  \A k \in j..EndOf(s) : \A orders \in OrdersFrom(s, j)[k] :
           /\ orders \in Seq(Orders)
           /\ Len(All(Written, orders)) <= EndOf(s) - k
<1> DEFINE b == EndOf(s)
           g == OrdersFrom(s, j)
           Short(k) == \A orders \in g[k] : Len(All(Written, orders)) <= b - k
           S == {k \in 1..b : k \in j..b => Short(k)}
<1>1. b \in Nat /\ b = Len(s) + 1 /\ j \in Nat /\ Len(s) \in Nat
  BY Payload
<1>2. g \in [j..b -> SUBSET Seq(Orders)] /\ g = OrdersStep(s, j, g)
  BY OrdersUnrolled
<1> HIDE DEF g
<1>3. All(Written, <<>>) = <<>>
  BY WrittenType, AllGrows, EmptySeq
<1>4. ASSUME NEW k \in 1..b, \A m \in (k + 1)..b : m \in S, k \in j..b
      PROVE  Short(k)
  <2>1. CASE k = b
    <3>1. OrdersStep(s, j, g)[k] = {<<>>}
      BY <1>4, <2>1, Zenon DEF OrdersStep
    <3>2. g[k] = {<<>>}
      BY <1>2, <3>1, Zenon
    <3>3. Len(<<>>) = 0
      BY EmptySeq
    <3> QED
      BY <1>1, <1>3, <2>1, <3>2, <3>3
  <2>2. CASE k # b /\ s[k] \notin CodecOrders
    <3>1. OrdersStep(s, j, g)[k] = g[k + 1]
      BY <1>4, <2>2, Zenon DEF OrdersStep
    <3>2. g[k] = g[k + 1]
      BY <1>2, <3>1, Zenon
    <3>3. k + 1 \in (k + 1)..b /\ k + 1 \in j..b
      BY <1>1, <1>4, <2>2
    <3>4. Short(k + 1)
      BY <1>4, <3>3
    <3>5. ASSUME NEW orders \in g[k]
          PROVE  Len(All(Written, orders)) <= b - k
      <4>1. Len(All(Written, orders)) <= b - (k + 1)
        BY <3>2, <3>4, <3>5
      <4>2. orders \in Seq(Orders)
        BY <1>2, <3>5, <1>4
      <4>3. Len(All(Written, orders)) \in Nat
        BY <4>2, WrittenType, AllGrows, LenProperties
      <4> QED
        BY <1>1, <4>1, <4>3
    <3> QED
      BY <3>5
  <2>3. CASE k # b /\ s[k] \in CodecOrders
    <3>1. OrdersStep(s, j, g)[k] =
            UNION {{<<this.order>> \o rest : rest \in g[k + this.read]} : this \in UnmarshalOrder(s, k)}
      BY <1>4, <2>3, Zenon DEF OrdersStep
    <3>2. g[k] = UNION {{<<this.order>> \o rest : rest \in g[k + this.read]} : this \in UnmarshalOrder(s, k)}
      BY <1>2, <3>1, Zenon
    <3>3. ASSUME NEW orders \in g[k]
          PROVE  Len(All(Written, orders)) <= b - k
      <4>1. PICK this \in UnmarshalOrder(s, k) : \E rest \in g[k + this.read] : orders = <<this.order>> \o rest
        BY <3>2, <3>3, Zenon
      <4>2. PICK rest \in g[k + this.read] : orders = <<this.order>> \o rest
        BY <4>1
      <4> DEFINE n == this.read
                 order == this.order
      <4>3. n \in 1..Left(s, k) /\ order \in Orders /\ Len(MarshalOrder(order)) <= n
        <5>1. k \in 1..Len(s)
          BY <1>1, <1>4, <2>3
        <5>2. this \in OrderResults(s, k)
          BY <2>3, <5>1, OrderRead
        <5> QED
          BY <5>2 DEF OrderResults
      <4>4. rest \in g[k + n]
        OBVIOUS
      <4>5. orders = <<order>> \o rest
        BY <4>2
      <4> HIDE DEF n, order
      <4>6. k + n \in (k + 1)..b /\ k + n \in j..b /\ n \in Nat /\ k \in Nat
        BY <1>1, <1>4, <4>3 DEF Left
      <4>7. rest \in Seq(Orders)
        BY <1>2, <4>4, <4>6
      <4>8. Len(All(Written, rest)) <= b - (k + n)
        BY <1>4, <4>4, <4>6
      <4>9. All(Written, orders) = MarshalOrder(order) \o All(Written, rest)
        <5>1. AllFirstIs(Written, order, rest)
          BY <4>3, <4>7, WrittenType, AllFirst
        <5>2. Written[order] = MarshalOrder(order)
          BY <4>3 DEF Written
        <5> QED
          BY <4>5, <5>1, <5>2, Zenon DEF AllFirstIs
      <4>10. MarshalOrder(order) \in Seq(Byte) /\ All(Written, rest) \in Seq(Byte)
        BY <4>3, <4>7, OrderBytes, WrittenType, AllGrows DEF Orders
      <4>11. /\ Len(All(Written, orders)) = Len(MarshalOrder(order)) + Len(All(Written, rest))
             /\ Len(MarshalOrder(order)) \in Nat /\ Len(All(Written, rest)) \in Nat
        BY <4>9, <4>10, Longer
      <4> QED
        BY <1>1, <4>3, <4>6, <4>8, <4>11
    <3> QED
      BY <3>3
  <2> QED
    BY <2>1, <2>2, <2>3
<1>5. \A k \in 1..b : (\A m \in (k + 1)..b : m \in S) => k \in S
  BY <1>4
<1>6. 1..b \subseteq S
  <2> HIDE DEF S, b
  <2> QED BY <1>1, <1>5, Backwards
<1>7. ASSUME NEW k \in j..b, NEW orders \in g[k]
      PROVE  orders \in Seq(Orders) /\ Len(All(Written, orders)) <= b - k
  <2>1. k \in 1..b
    BY <1>1
  <2>2. Short(k)
    BY <1>6, <2>1
  <2> QED
    BY <1>2, <2>2
<1> QED
  BY <1>7 DEF g

-----------------------------------------------------------------------------
(* An order that was written is read. *)

\* The bytes of s from j to n are t.
Sits(s, j, n, t) == SubSeq(s, j, n) = t

LEMMA LiesWhole ==
  ASSUME NEW s \in Seq(Byte), NEW j \in 1..EndOf(s), NEW t \in Seq(Byte), Lies(s, j, t)
  PROVE  \A n \in Nat : n = j + Len(t) - 1 => Sits(s, j, n, t)
<1> SUFFICES ASSUME NEW n \in Nat, n = j + Len(t) - 1
             PROVE  SubSeq(s, j, n) = t
  BY DEF Sits
<1>1. Len(t) \in Nat /\ j \in Nat
  BY Payload, LenProperties
<1>2. SubSeq(s, j + 1 - 1, j + Len(t) - 1) = SubSeq(t, 1, Len(t))
  BY <1>1, LiesSlice
<1>3. j + 1 - 1 = j
  BY <1>1
<1>4. SubSeq(t, 1, Len(t)) = t
  BY SubSeqFull
<1> QED
  BY <1>2, <1>3, <1>4, Zenon

\* Where the parts of an order lie.
LEMMA OrderLies ==
  ASSUME NEW s \in Seq(Byte), NEW k \in 1..EndOf(s), NEW order \in OrderShape,
         Lies(s, k, MarshalOrder(order))
  PROVE  LET w == order.operands
             l == LengthOf(order)
             d == order.data
         IN  /\ s[k] = order.code /\ Len(w) \in Nat /\ Len(l) \in Nat /\ Len(d) \in Nat
             /\ k + 1 + Len(w) + Len(l) + Len(d) <= EndOf(s)
             /\ Len(MarshalOrder(order)) = 1 + Len(w) + Len(l) + Len(d)
             /\ Lies(s, k + 1, w)
             /\ Lies(s, k + 1 + Len(w), l)
             /\ Lies(s, k + 1 + Len(w) + Len(l), d)
<1> DEFINE w == order.operands
           l == LengthOf(order)
           d == order.data
           c == <<order.code>>
           t == (c \o w) \o l
<1>1. /\ w \in Seq(Byte) /\ l \in Seq(Byte) /\ d \in Seq(Byte) /\ c \in Seq(Byte) /\ Len(c) = 1
      /\ MarshalOrder(order) = t \o d /\ MarshalOrder(order)[1] = order.code
      /\ Len(MarshalOrder(order)) = 1 + Len(w) + Len(l) + Len(d)
  BY OrderBytes
<1> HIDE DEF w, l, d, c
<1>2. /\ c \o w \in Seq(Byte) /\ Len(c \o w) = 1 + Len(w)
      /\ t \in Seq(Byte) /\ Len(t) = 1 + Len(w) + Len(l)
      /\ Len(w) \in Nat /\ Len(l) \in Nat /\ Len(d) \in Nat
  <2>1. c \o w \in Seq(Byte) /\ Len(c \o w) = 1 + Len(w)
    BY <1>1, Longer
  <2> QED
    BY <1>1, <2>1, Longer
<1>3. k \in Nat /\ EndOf(s) \in Nat
  BY Payload
<1> HIDE DEF t
<1>4. Lies(s, k, t) /\ Lies(s, k + Len(t), d)
  <2>1. Lies(s, k, t \o d)
    BY <1>1, Zenon
  <2> QED
    BY <1>1, <1>2, <2>1, LiesConcat
<1>5. Lies(s, k, c \o w) /\ Lies(s, k + Len(c \o w), l)
  BY <1>1, <1>2, <1>4, LiesConcat DEF t
<1>6. Lies(s, k + Len(c), w)
  BY <1>1, <1>2, <1>5, LiesConcat
<1>7. s[k] = order.code
  <2>1. 1 \in 1..Len(MarshalOrder(order)) /\ k + 1 - 1 = k
    BY <1>1, <1>2, <1>3
  <2> QED
    BY <1>1, <2>1 DEF Lies
<1>8. k + Len(c) = k + 1 /\ k + Len(c \o w) = k + 1 + Len(w) /\ k + Len(t) = k + 1 + Len(w) + Len(l)
  BY <1>1, <1>2, <1>3
<1>9. k + 1 + Len(w) + Len(l) + Len(d) <= EndOf(s)
  BY <1>1, <1>2, <1>3 DEF Lies
<1> HIDE DEF t
<1>10. Lies(s, k + 1, w) /\ Lies(s, k + 1 + Len(w), l) /\ Lies(s, k + 1 + Len(w) + Len(l), d)
  BY <1>4, <1>5, <1>6, <1>8
<1> QED
  BY <1>1, <1>2, <1>7, <1>9, <1>10 DEF w, l, d

\* What was read is one order, of n bytes and of these parts.
Reads(results, n, code, w, d) ==
  results = {[read |-> n, order |-> [code |-> code, operands |-> w, data |-> d]]}

LEMMA FixedParts ==
  ASSUME NEW s \in Seq(Byte), NEW k \in 1..EndOf(s), NEW w \in Seq(Byte), Lies(s, k + 1, w),
         NEW size \in Nat, size = 1 + Len(w), k + size <= EndOf(s)
  PROVE  Reads(FixedOrder(s, k, size), size, s[k], w, <<>>)
<1>1. k \in Nat /\ EndOf(s) = Len(s) + 1 /\ Len(s) \in Nat /\ Len(w) \in Nat
  BY Payload, LenProperties
<1>2. ~(Left(s, k) < size)
  BY <1>1 DEF Left
<1>3. Sits(s, k + 1, (k + size) - 1, w)
  <2>1. k + 1 \in 1..EndOf(s) /\ (k + size) - 1 \in Nat /\ (k + size) - 1 = k + 1 + Len(w) - 1
    BY <1>1
  <2> QED
    BY <1>1, <2>1, LiesWhole
<1>4. SubSeq(s, k + size, (k + size) - 1) = <<>>
  <2>1. k + size \in 1..EndOf(s) /\ (k + size) - 1 \in Nat /\ k + size <= ((k + size) - 1) + 1
        /\ (k + size) - 1 <= Len(s) /\ ((k + size) - 1) - (k + size) + 1 = 0
    BY <1>1
  <2>2. /\ SubSeq(s, k + size, (k + size) - 1) \in Seq(Byte)
        /\ Len(SubSeq(s, k + size, (k + size) - 1)) = 0
    BY <2>1, Sliced
  <2> QED
    BY <2>2, EmptySeq
<1>5. OrderOf(s, k, k + size, k + size) =
        [code |-> s[k], operands |-> SubSeq(s, k + 1, (k + size) - 1),
         data |-> SubSeq(s, k + size, (k + size) - 1)]
  BY Zenon DEF OrderOf
<1>6. OrderOf(s, k, k + size, k + size) = [code |-> s[k], operands |-> w, data |-> <<>>]
  BY <1>3, <1>4, <1>5, Zenon DEF Sits
<1>7. FixedOrder(s, k, size) = {[read |-> size, order |-> OrderOf(s, k, k + size, k + size)]}
  BY <1>2, Zenon DEF FixedOrder
<1> QED
  BY <1>6, <1>7, Zenon DEF Reads

LEMMA SbaParts ==
  ASSUME NEW s \in Seq(Byte), NEW k \in 1..EndOf(s), NEW w \in Seq(Byte), Len(w) = 2, Lies(s, k + 1, w),
         NEW d \in Seq(Byte), Lies(s, k + 3, d), \A n \in 1..Len(d) : d[n] \notin CodecOrders,
         NEW size \in Nat, size = 3 + Len(d), k + size <= EndOf(s),
         k + size = EndOf(s) \/ s[k + size] \in CodecOrders
  PROVE  Reads(UnmarshalSba(s, k), size, s[k], w, d)
<1> DEFINE end == k + size
<1>1. k \in Nat /\ EndOf(s) = Len(s) + 1 /\ Len(s) \in Nat /\ Len(d) \in Nat
  BY Payload, LenProperties
<1>2. /\ ~(Left(s, k) < 3) /\ k + 3 \in 1..EndOf(s) /\ end \in (k + 3)..EndOf(s)
      /\ end - k = size /\ end = k + 3 + Len(d)
  BY <1>1 DEF Left
<1>3. \A m \in (k + 3)..(end - 1) : s[m] \notin CodecOrders
  <2>1. ASSUME NEW m \in (k + 3)..(end - 1)
        PROVE  s[m] \notin CodecOrders
    <3>1. m - k - 2 \in 1..Len(d) /\ (k + 3) + (m - k - 2) - 1 = m
      BY <1>1
    <3> QED
      BY <3>1 DEF Lies
  <2> QED
    BY <2>1
<1>4. end = EndOf(s) \/ s[end] \in CodecOrders
  OBVIOUS
<1> HIDE DEF end
<1>5. Until(s, k + 3, CodecOrders) = end
  BY <1>2, <1>3, <1>4, UntilIs
<1>6. Sits(s, k + 1, (k + 3) - 1, w)
  <2>1. k + 1 \in 1..EndOf(s) /\ (k + 3) - 1 \in Nat /\ (k + 3) - 1 = k + 1 + Len(w) - 1
    BY <1>1, <1>2
  <2> QED
    BY <1>1, <2>1, LiesWhole
<1>7. Sits(s, k + 3, end - 1, d)
  <2>1. end - 1 \in Nat /\ end - 1 = k + 3 + Len(d) - 1
    BY <1>1, <1>2, SMTT(60)
  <2> QED
    BY <1>1, <1>2, <2>1, LiesWhole
<1>8. OrderOf(s, k, k + 3, end) =
        [code |-> s[k], operands |-> SubSeq(s, k + 1, (k + 3) - 1), data |-> SubSeq(s, k + 3, end - 1)]
  BY Zenon DEF OrderOf
<1>9. OrderOf(s, k, k + 3, end) = [code |-> s[k], operands |-> w, data |-> d]
  BY <1>6, <1>7, <1>8, Zenon DEF Sits
<1>10. UnmarshalSba(s, k) = {[read |-> e - k, order |-> OrderOf(s, k, k + 3, e)] : e \in {end}}
  BY <1>2, <1>5, Zenon DEF UnmarshalSba
<1>11. UnmarshalSba(s, k) = {[read |-> end - k, order |-> OrderOf(s, k, k + 3, end)]}
  BY <1>10, Zenon
<1> QED
  BY <1>2, <1>9, <1>11, Zenon DEF Reads

\* Over the control words of a field the walk comes to its attribute.
LEMMA FieldReach ==
  ASSUME NEW s \in Seq(Byte), NEW k \in 1..EndOf(s), NEW w \in Seq(Byte), IsField(w),
         Lies(s, k + 1, w), k + 2 + Len(w) <= EndOf(s)
  PROVE  ControlWordsEnd(s, k + 3) = k + Len(w) /\ Len(w) >= 3
<1>1. k \in Nat /\ EndOf(s) = Len(s) + 1 /\ Len(s) \in Nat /\ Len(w) \in Nat
  BY Payload, LenProperties
<1>2. PICK p \in Nat : /\ Len(w) = 3 + 2 * p /\ IsAttribute(w[3 + 2 * p])
                       /\ \A i \in 0..(p - 1) : ~IsAttribute(w[3 + 2 * i])
  <2>1. PICK p \in 0..Len(w) : /\ Len(w) = 3 + 2 * p /\ IsAttribute(w[3 + 2 * p])
                               /\ \A i \in 0..(p - 1) : ~IsAttribute(w[3 + 2 * i])
    BY DEF IsField
  <2>2. p \in Nat
    BY <1>1
  <2> QED
    BY <2>1, <2>2
<1>3. /\ k + 3 \in 1..EndOf(s) /\ (k + 3) + 2 * p + 1 <= Len(s) + 1 /\ k + Len(w) = (k + 3) + 2 * p
  BY <1>1, <1>2
<1>4. ASSUME NEW i \in 0..p
      PROVE  s[(k + 3) + 2 * i] = w[3 + 2 * i]
  <2>1. 3 + 2 * i \in 1..Len(w) /\ (k + 1) + (3 + 2 * i) - 1 = (k + 3) + 2 * i
    BY <1>1, <1>2
  <2>2. \A n \in 1..Len(w) : s[(k + 1) + n - 1] = w[n]
    BY Zenon DEF Lies
  <2>3. s[(k + 1) + (3 + 2 * i) - 1] = w[3 + 2 * i]
    BY <2>1, <2>2, Zenon
  <2> QED
    BY <2>1, <2>3
<1>5. IsAttribute(s[(k + 3) + 2 * p])
  <2>1. p \in 0..p
    OBVIOUS
  <2> QED
    BY <1>2, <1>4, <2>1
<1>6. \A i \in 0..(p - 1) : ~IsAttribute(s[(k + 3) + 2 * i])
  <2>1. \A i \in 0..(p - 1) : i \in 0..p
    OBVIOUS
  <2> QED
    BY <1>2, <1>4, <2>1
<1>7. ControlWordsEnd(s, k + 3) = (k + 3) + 2 * p
  BY <1>3, <1>5, <1>6, ControlWordsReach
<1> QED
  BY <1>1, <1>2, <1>3, <1>7

\* A length that was written is read.
LEMMA LengthReads ==
  ASSUME NEW s \in Seq(Byte), NEW j \in Nat, NEW n \in Nat, n <= GdsMaxRecordLen,
         NEW i, i = j + 1, Lies(s, i, BigEndian16(n))
  PROVE  Length16(s, j) = n
<1> DEFINE f == BigEndian16(n)
<1>1. f \in Seq(Byte) /\ Len(f) = 2 /\ 256 * f[1] + f[2] = n
  BY TwoBytes
<1>2. \A m \in 1..Len(f) : s[i + m - 1] = f[m]
  BY Zenon DEF Lies
<1> HIDE DEF f
<1>3. s[i + 1 - 1] = f[1] /\ s[i + 2 - 1] = f[2]
  <2>1. 1 \in 1..Len(f) /\ 2 \in 1..Len(f)
    BY <1>1
  <2> QED
    BY <1>2, <2>1, Zenon
<1>4. i + 1 - 1 = j + 1 /\ i + 2 - 1 = j + 2
  OBVIOUS
<1>5. s[j + 1] = f[1] /\ s[j + 2] = f[2]
  BY <1>3, <1>4, Zenon
<1>6. Length16(s, j) = 256 * f[1] + f[2]
  BY <1>5, Zenon DEF Length16
<1> QED
  BY <1>1, <1>6, Zenon

LEMMA SfMade ==
  ASSUME NEW s \in Seq(Byte), NEW k \in 1..EndOf(s), s[k] = OrderSF, NEW w, NEW d, NEW size,
         NEW a, a = ControlWordsEnd(s, k + 3), ~(Left(s, k) < 5),
         Left(s, a) >= 3, SfDataEnd(s, a) = k + size, (k + size) - k = size,
         Sits(s, k + 1, a, w), Sits(s, a + 3, (k + size) - 1, d)
  PROVE  Reads(UnmarshalSf(s, k), size, s[k], w, d)
<1> DEFINE Read(x) == [read  |-> SfDataEnd(s, x) - k,
                       order |-> [code     |-> OrderSF,
                                  operands |-> SubSeq(s, k + 1, x),
                                  data     |-> SubSeq(s, x + 3, SfDataEnd(s, x) - 1)]]
           A == {x \in {ControlWordsEnd(s, k + 3)} : Left(s, x) >= 3}
<1>1. A = {a}
  BY Zenon
<1>2. UnmarshalSf(s, k) = {Read(x) : x \in A}
  BY Zenon DEF UnmarshalSf
<1>3. Read(a) = [read |-> size, order |-> [code |-> s[k], operands |-> w, data |-> d]]
  BY Zenon DEF Sits
<1> HIDE DEF Read, A
<1>4. UnmarshalSf(s, k) = {Read(a)}
  BY <1>1, <1>2, Zenon
<1> QED
  BY <1>3, <1>4, Zenon DEF Reads

LEMMA SfPlaces ==
  ASSUME NEW k \in Nat, NEW b \in Nat, k >= 1, NEW m \in Nat, m >= 3, NEW l \in Nat,
         k + (3 + m + l) <= b
  PROVE  /\ ~(b - k < 5) /\ b - (k + m) >= 3 /\ k + m \in Nat /\ (k + m) + 3 + l = k + (3 + m + l)
         /\ (k + (3 + m + l)) - k = 3 + m + l
         /\ k + 1 + m = (k + m) + 1 /\ (k + m) + 3 = k + 3 + m /\ k + m = k + 1 + m - 1
         /\ k + 1 \in 1..b /\ (k + m) + 3 \in 1..b
         /\ (k + (3 + m + l)) - 1 \in Nat /\ (k + (3 + m + l)) - 1 = ((k + m) + 3) + l - 1
OBVIOUS

LEMMA SfParts ==
  ASSUME NEW s \in Seq(Byte), NEW k \in 1..EndOf(s), s[k] = OrderSF,
         NEW w \in Seq(Byte), IsField(w), Lies(s, k + 1, w),
         NEW d \in Seq(Byte), Len(d) <= GdsMaxRecordLen,
         Lies(s, k + 1 + Len(w), BigEndian16(Len(d))), Lies(s, k + 3 + Len(w), d),
         NEW size \in Nat, size = 3 + Len(w) + Len(d), k + size <= EndOf(s)
  PROVE  Reads(UnmarshalSf(s, k), size, s[k], w, d)
<1> DEFINE m == Len(w)
           l == Len(d)
           b == EndOf(s)
           a == k + m
           end == k + size
<1>1. k \in Nat /\ k >= 1 /\ b \in Nat /\ m \in Nat /\ l \in Nat
  BY Payload, LenProperties
<1>2. ControlWordsEnd(s, k + 3) = a /\ m >= 3
  <2>1. k + 2 + Len(w) <= EndOf(s)
    BY <1>1
  <2> QED
    BY <2>1, FieldReach
<1>3. size = 3 + m + l /\ k + (3 + m + l) <= b
  OBVIOUS
<1>4. /\ ~(b - k < 5) /\ b - (k + m) >= 3 /\ k + m \in Nat /\ (k + m) + 3 + l = k + (3 + m + l)
      /\ (k + (3 + m + l)) - k = 3 + m + l
      /\ k + 1 + m = (k + m) + 1 /\ (k + m) + 3 = k + 3 + m /\ k + m = k + 1 + m - 1
      /\ k + 1 \in 1..b /\ (k + m) + 3 \in 1..b
      /\ (k + (3 + m + l)) - 1 \in Nat /\ (k + (3 + m + l)) - 1 = ((k + m) + 3) + l - 1
  <2> HIDE DEF m, l, b
  <2> QED
    BY <1>1, <1>2, <1>3, SfPlaces
<1>5. /\ ~(Left(s, k) < 5) /\ Left(s, a) >= 3 /\ a \in Nat /\ a + 3 + l = end
      /\ end - k = size /\ k + 1 + m = a + 1 /\ a + 3 = k + 3 + m /\ a = k + 1 + m - 1
      /\ k + 1 \in 1..b /\ a + 3 \in 1..b /\ end - 1 \in Nat /\ end - 1 = (a + 3) + l - 1
  BY <1>3, <1>4, Zenon DEF Left
<1>6. end <= b
  OBVIOUS
<1>7. Length16(s, a) = l
  <2>1. Lies(s, k + 1 + m, BigEndian16(l)) /\ l <= GdsMaxRecordLen
    OBVIOUS
  <2> HIDE DEF m, l, a
  <2> QED
    BY <1>1, <1>5, <2>1, LengthReads
<1>8. SfDataEnd(s, a) = end
  <2>1. SfDataEnd(s, a) = Clamp(s, end)
    BY <1>5, <1>7, Zenon DEF SfDataEnd
  <2>2. Clamp(s, end) = end
    <3>1. end \in Int /\ b \in Int
      BY <1>1
    <3>2. ~(end > b)
      <4> HIDE DEF end, b
      <4> QED BY <1>6, <3>1
    <3> QED
      BY <3>2, Zenon DEF Clamp
  <2> QED
    BY <2>1, <2>2, Zenon
<1>9. Sits(s, k + 1, a, w)
  <2>1. a = k + 1 + Len(w) - 1
    BY <1>5
  <2> HIDE DEF a
  <2> QED
    BY <1>5, <2>1, LiesWhole
<1>10. Sits(s, a + 3, end - 1, d)
  <2>1. Lies(s, a + 3, d)
    BY <1>5, Zenon
  <2>2. end - 1 = (a + 3) + Len(d) - 1
    BY <1>5
  <2> HIDE DEF a, end
  <2> QED
    BY <1>5, <2>1, <2>2, LiesWhole
<1> HIDE DEF a, m, l, b
<1> QED
  BY <1>2, <1>5, <1>8, <1>9, <1>10, SfMade

IsRead(s, k, order) ==
  UnmarshalOrder(s, k) = {[read |-> Len(MarshalOrder(order)), order |-> order]}

\* An order is read as what it was written from.
LEMMA OrderReads ==
  ASSUME NEW s \in Seq(Byte), NEW k \in 1..EndOf(s), NEW order \in Orders,
         Lies(s, k, MarshalOrder(order)),
         NEW end \in Nat, end = k + Len(MarshalOrder(order)),
         end = EndOf(s) \/ s[end] \in CodecOrders
  PROVE  IsRead(s, k, order)
<1> DEFINE c == order.code
           w == order.operands
           d == order.data
           l == LengthOf(order)
           n == Len(MarshalOrder(order))
<1>1. order \in OrderShape /\ Legible(c, w, d) /\ c \in CodecOrders
  BY DEF Orders, OrderShape
<1>2. /\ w \in Seq(Byte) /\ d \in Seq(Byte) /\ l \in Seq(Byte)
      /\ Len(l) = IF c = OrderSF THEN 2 ELSE 0
  BY <1>1, OrderBytes
<1>3. /\ s[k] = c /\ Len(w) \in Nat /\ Len(l) \in Nat /\ Len(d) \in Nat
      /\ k + 1 + Len(w) + Len(l) + Len(d) <= EndOf(s)
      /\ n = 1 + Len(w) + Len(l) + Len(d)
      /\ Lies(s, k + 1, w)
      /\ Lies(s, k + 1 + Len(w), l)
      /\ Lies(s, k + 1 + Len(w) + Len(l), d)
  BY <1>1, OrderLies
<1>4. order = [code |-> c, operands |-> w, data |-> d]
  BY <1>1 DEF OrderShape
<1>5. c = OrderSF => l = BigEndian16(Len(d))
  BY DEF LengthOf
<1>6. end = k + n
  OBVIOUS
<1>7. SUFFICES Reads(UnmarshalOrder(s, k), n, s[k], w, d)
  BY <1>3, <1>4, Zenon DEF IsRead, Reads
<1> HIDE DEF c, w, d, l, n
<1>8. k \in Nat /\ EndOf(s) \in Nat /\ n \in Nat /\ k + n <= EndOf(s)
  BY <1>3, Payload
<1>9. d = <<>> => Len(d) = 0
  BY EmptySeq
<1>10. ASSUME c # OrderSF, d = <<>>, NEW size \in Nat, Len(w) = size - 1
       PROVE  Reads(FixedOrder(s, k, size), n, s[k], w, d)
  <2>1. n = size /\ size = 1 + Len(w)
    BY <1>2, <1>3, <1>9, <1>10
  <2> QED
    BY <1>2, <1>3, <1>8, <1>10, <2>1, FixedParts
<1>11. CASE c = SOH /\ Len(w) = 8 /\ d = <<>>
  <2>1. UnmarshalOrder(s, k) = FixedOrder(s, k, 9)
    BY <1>3, <1>11, CodecOrdersAre DEF UnmarshalOrder, UnmarshalSoh
  <2>2. c # OrderSF /\ 9 \in Nat /\ Len(w) = 9 - 1
    BY <1>11, CodecOrdersAre
  <2> QED
    BY <1>10, <1>11, <2>1, <2>2
<1>12. CASE c = OrderRA /\ Len(w) = 3 /\ d = <<>>
  <2>1. UnmarshalOrder(s, k) = FixedOrder(s, k, 4)
    BY <1>3, <1>12, CodecOrdersAre DEF UnmarshalOrder, UnmarshalRa
  <2>2. c # OrderSF /\ 4 \in Nat /\ Len(w) = 4 - 1
    BY <1>12, CodecOrdersAre
  <2> QED
    BY <1>10, <1>12, <2>1, <2>2
<1>13. CASE c = CodecIC /\ Len(w) = 2 /\ d = <<>>
  <2>1. UnmarshalOrder(s, k) = FixedOrder(s, k, 3)
    BY <1>3, <1>13, CodecOrdersAre DEF UnmarshalOrder, UnmarshalIc
  <2>2. c # OrderSF /\ 3 \in Nat /\ Len(w) = 3 - 1
    BY <1>13, CodecOrdersAre
  <2> QED
    BY <1>10, <1>13, <2>1, <2>2
<1>14. CASE c = OrderSBA /\ Len(w) = 2 /\ \A i \in 1..Len(d) : d[i] \notin CodecOrders
  <2>1. UnmarshalOrder(s, k) = UnmarshalSba(s, k)
    BY <1>3, <1>14, CodecOrdersAre DEF UnmarshalOrder
  <2>2. c # OrderSF
    BY <1>14, CodecOrdersAre
  <2>3. n = 3 + Len(d) /\ k + 1 + Len(w) + Len(l) = k + 3
    BY <1>2, <1>3, <1>8, <1>14, <2>2
  <2>4. Lies(s, k + 3, d)
    BY <1>3, <2>3
  <2>5. k + n = EndOf(s) \/ s[k + n] \in CodecOrders
    BY <1>6
  <2>6. Reads(UnmarshalSba(s, k), n, s[k], w, d)
    BY <1>2, <1>3, <1>8, <1>14, <2>3, <2>4, <2>5, SbaParts
  <2> QED
    BY <2>1, <2>6, Zenon
<1>15. CASE c = OrderSF /\ IsField(w) /\ Len(d) <= GdsMaxRecordLen
  <2>1. UnmarshalOrder(s, k) = UnmarshalSf(s, k)
    BY <1>3, <1>15, CodecOrdersAre DEF UnmarshalOrder
  <2>2. n = 3 + Len(w) + Len(d) /\ k + 1 + Len(w) + Len(l) = k + 3 + Len(w)
    BY <1>2, <1>3, <1>8, <1>15
  <2>3. Lies(s, k + 3 + Len(w), d) /\ Lies(s, k + 1 + Len(w), BigEndian16(Len(d)))
    BY <1>3, <1>5, <1>15, <2>2
  <2>4. Reads(UnmarshalSf(s, k), n, s[k], w, d)
    BY <1>2, <1>3, <1>8, <1>15, <2>2, <2>3, SfParts
  <2> QED
    BY <2>1, <2>4, Zenon
<1> QED
  BY <1>1, <1>11, <1>12, <1>13, <1>14, <1>15 DEF Legible

-----------------------------------------------------------------------------
(* Orders that were written are read. *)

\* Where the orders lie up to the end of a record.
Ends(s, k, t) == Lies(s, k, t) /\ k + Len(t) = EndOf(s)

LEMMA EndsConcat ==
  ASSUME NEW s \in Seq(Byte), NEW k \in 1..EndOf(s), NEW t \in Seq(Byte), NEW u \in Seq(Byte),
         Ends(s, k, t \o u)
  PROVE  /\ Lies(s, k, t) /\ Ends(s, k + Len(t), u)
         /\ k + Len(t) \in 1..EndOf(s)
<1>1. Lies(s, k, t \o u) /\ k + Len(t \o u) = EndOf(s)
  BY DEF Ends
<1>2. /\ Lies(s, k, t) /\ Lies(s, k + Len(t), u)
      /\ k + Len(t) \in 1..EndOf(s) /\ k + Len(t \o u) = (k + Len(t)) + Len(u)
  BY <1>1, LiesConcat
<1> QED
  BY <1>1, <1>2, Zenon DEF Ends

\* What one order read gives to the orders.
IsStep(s, j, g, k, order, rest) == OrdersStep(s, j, g)[k] = {<<order>> \o rest}

LEMMA OneOrder ==
  ASSUME NEW s, NEW j, NEW g, NEW k \in j..EndOf(s), k # EndOf(s), s[k] \in CodecOrders,
         NEW order, IsRead(s, k, order), NEW rest, g[k + Len(MarshalOrder(order))] = {rest}
  PROVE  IsStep(s, j, g, k, order, rest)
<1> DEFINE n == Len(MarshalOrder(order))
           this == [read |-> n, order |-> order]
           A(x) == {<<x.order>> \o r : r \in g[k + x.read]}
<1>1. UnmarshalOrder(s, k) = {this}
  BY Zenon DEF IsRead
<1>2. this.read = n /\ this.order = order
  OBVIOUS
<1>3. OrdersStep(s, j, g)[k] = UNION {A(x) : x \in UnmarshalOrder(s, k)}
  BY Zenon DEF OrdersStep
<1> HIDE DEF this
<1>4. A(this) = {<<order>> \o rest}
  BY <1>2, Zenon
<1> HIDE DEF A
<1>5. UNION {A(x) : x \in {this}} = A(this)
  BY Zenon
<1> QED
  BY <1>1, <1>3, <1>4, <1>5, Zenon DEF IsStep

ReadsBack(s, j, orders) ==
  \A k \in j..EndOf(s) :
    Ends(s, k, All(Written, orders)) =>
      /\ OrdersFrom(s, j)[k] = {orders}
      /\ k = EndOf(s) \/ s[k] \in CodecOrders

LEMMA OrdersRead ==
  ASSUME NEW s \in Seq(Byte), NEW j \in 1..EndOf(s)
  PROVE  \A orders \in Seq(Orders) : ReadsBack(s, j, orders)
<1> DEFINE g == OrdersFrom(s, j)
           T == {orders \in Seq(Orders) : ReadsBack(s, j, orders)}
<1>1. EndOf(s) \in Nat /\ j \in Nat /\ j >= 1 /\ EndOf(s) = Len(s) + 1 /\ Len(s) \in Nat
  BY Payload
<1>2. g = OrdersStep(s, j, g)
  BY OrdersUnrolled
<1>3. <<>> \in T
  <2>1. All(Written, <<>>) = <<>>
    BY WrittenType, AllGrows, EmptySeq
  <2>2. ASSUME NEW k \in j..EndOf(s), Ends(s, k, <<>>)
        PROVE  g[k] = {<<>>} /\ k = EndOf(s)
    <3>1. k = EndOf(s)
      <4>1. k + Len(<<>>) = EndOf(s) /\ Len(<<>>) = 0
        BY <2>2, EmptySeq DEF Ends
      <4> QED
        BY <1>1, <4>1
    <3>2. OrdersStep(s, j, g)[k] = {<<>>}
      BY <3>1, Zenon DEF OrdersStep
    <3> QED
      BY <1>2, <3>1, <3>2, Zenon
  <2>3. <<>> \in Seq(Orders)
    BY EmptySeq
  <2> QED
    BY <2>1, <2>2, <2>3, Zenon DEF ReadsBack
<1>4. ASSUME NEW rest \in Seq(Orders), NEW order \in Orders, rest \in T
      PROVE  <<order>> \o rest \in T
  <2> DEFINE u == MarshalOrder(order)
             v == All(Written, rest)
  <2>1. All(Written, <<order>> \o rest) = u \o v
    <3>1. AllFirstIs(Written, order, rest)
      BY WrittenType, AllFirst
    <3>2. Written[order] = u
      BY DEF Written
    <3> QED
      BY <3>1, <3>2, Zenon DEF AllFirstIs
  <2>2. u \in Seq(Byte) /\ v \in Seq(Byte) /\ Len(u) \in Nat /\ Len(u) >= 1
    <3>1. order \in OrderShape
      BY DEF Orders
    <3>2. /\ u \in Seq(Byte) /\ Len(u) = 1 + Len(order.operands) + Len(LengthOf(order)) + Len(order.data)
          /\ order.operands \in Seq(Byte) /\ LengthOf(order) \in Seq(Byte) /\ order.data \in Seq(Byte)
      BY <3>1, OrderBytes
    <3>3. Len(order.operands) \in Nat /\ Len(LengthOf(order)) \in Nat /\ Len(order.data) \in Nat
      BY <3>2, LenProperties
    <3>4. v \in Seq(Byte)
      BY WrittenType, AllGrows
    <3>5. \A a, b, c \in Nat : 1 + a + b + c \in Nat /\ 1 + a + b + c >= 1
      OBVIOUS
    <3> HIDE DEF u, v
    <3> QED
      BY <3>2, <3>3, <3>4, <3>5, Zenon
  <2>3. ASSUME NEW k \in j..EndOf(s), Ends(s, k, u \o v)
        PROVE  g[k] = {<<order>> \o rest} /\ s[k] \in CodecOrders
    <3> DEFINE end == k + Len(u)
    <3>1. k \in 1..EndOf(s) /\ k \in Nat
      BY <1>1
    <3>2. Lies(s, k, u) /\ Ends(s, end, v) /\ end \in 1..EndOf(s)
      <4> HIDE DEF u, v
      <4> QED
        BY <2>2, <2>3, <3>1, EndsConcat
    <3>3. end \in Nat /\ end \in j..EndOf(s) /\ k # EndOf(s)
      <4> HIDE DEF u, v
      <4> QED
        BY <1>1, <2>2, <3>1, <3>2
    <3>4. g[end] = {rest} /\ (end = EndOf(s) \/ s[end] \in CodecOrders)
      <4>1. ReadsBack(s, j, rest)
        BY <1>4
      <4> HIDE DEF end, v
      <4> QED
        BY <3>2, <3>3, <4>1, Zenon DEF ReadsBack, v
    <3>5. IsRead(s, k, order)
      BY <3>1, <3>2, <3>3, <3>4, OrderReads
    <3>6. s[k] \in CodecOrders
      <4>1. order \in OrderShape /\ order.code \in CodecOrders
        BY DEF Orders, OrderShape
      <4>2. s[k] = order.code
        BY <3>1, <3>2, <4>1, OrderLies
      <4> QED
        BY <4>1, <4>2
    <3>7. OrdersStep(s, j, g)[k] = {<<order>> \o rest}
      <4>1. g[k + Len(MarshalOrder(order))] = {rest} /\ k # EndOf(s)
        BY <3>3, <3>4
      <4> HIDE DEF g
      <4>2. IsStep(s, j, g, k, order, rest)
        BY <3>5, <3>6, <4>1, OneOrder
      <4> QED
        BY <4>2 DEF IsStep
    <3> QED
      BY <1>2, <3>6, <3>7, Zenon
  <2>4. <<order>> \o rest \in Seq(Orders)
    BY Prefixed
  <2> HIDE DEF u, v, g
  <2>5. ReadsBack(s, j, <<order>> \o rest)
    BY <2>1, <2>3, Zenon DEF ReadsBack, g
  <2> QED
    BY <2>4, <2>5, Zenon
<1>5. Seq(Orders) \subseteq T
  <2> HIDE DEF T
  <2> QED BY <1>3, <1>4, PrependInduction
<1> QED
  BY <1>5

-----------------------------------------------------------------------------
(* Commands that are read as they were written. *)

LEMMA CodesAre ==
  /\ ESC = 4 /\ CcClearUnit = 64 /\ CcReadMdtFields = 82 /\ CcWriteToDisplay = 17
  /\ ESC \in Byte /\ CcClearUnit \in Byte /\ CcReadMdtFields \in Byte /\ CcWriteToDisplay \in Byte
BY DEF ESC, CcClearUnit, CcReadMdtFields, CcWriteToDisplay, Byte

\* A command as its three parts.
CommandBytes(code, control, orders) == (<<ESC, code>> \o control) \o All(Written, orders)

LEMMA CommandIsBytes ==
  ASSUME NEW command, command.orders \in Seq(Orders)
  PROVE  MarshalCommand(command) = CommandBytes(command.code, command.control, command.orders)
<1> DEFINE orders == command.orders
<1>1. \A n \in DOMAIN orders : orders[n] \in Orders
  <2>1. DOMAIN orders = 1..Len(orders)
    BY LenProperties
  <2> QED
    BY <2>1, ElementOfSeq
<1>2. \A n \in DOMAIN orders : Written[orders[n]] = MarshalOrder(orders[n])
  BY <1>1 DEF Written
<1> HIDE DEF orders
<1>3. [n \in DOMAIN orders |-> MarshalOrder(orders[n])] = Mapped(Written, orders)
  BY <1>2 DEF Mapped
<1>4. MarshalCommand(command) =
        (<<ESC, command.code>> \o command.control) \o FlattenSeq([n \in DOMAIN orders |-> MarshalOrder(orders[n])])
  BY Zenon DEF MarshalCommand, orders
<1> QED
  BY <1>3, <1>4, Zenon DEF CommandBytes, All, orders

LEMMA CommandBytesType ==
  ASSUME NEW code \in Byte, NEW control \in Seq(Byte), NEW orders \in Seq(Orders)
  PROVE  /\ <<ESC, code>> \in Seq(Byte) /\ Len(<<ESC, code>>) = 2
         /\ <<ESC, code>>[1] = ESC /\ <<ESC, code>>[2] = code
         /\ <<ESC, code>> \o control \in Seq(Byte) /\ Len(<<ESC, code>> \o control) = 2 + Len(control)
         /\ All(Written, orders) \in Seq(Byte)
         /\ CommandBytes(code, control, orders) \in Seq(Byte)
         /\ Len(CommandBytes(code, control, orders)) = 2 + Len(control) + Len(All(Written, orders))
         /\ Len(control) \in Nat /\ Len(All(Written, orders)) \in Nat
<1> DEFINE h == <<ESC, code>>
           t == h \o control
           v == All(Written, orders)
<1>1. h \in Seq(Byte) /\ Len(h) = 2 /\ h[1] = ESC /\ h[2] = code
  BY CodesAre
<1>2. v \in Seq(Byte)
  BY WrittenType, AllGrows
<1> HIDE DEF h, v
<1>3. t \in Seq(Byte) /\ Len(t) = 2 + Len(control) /\ Len(control) \in Nat
  BY <1>1, Longer
<1> HIDE DEF t
<1>4. t \o v \in Seq(Byte) /\ Len(t \o v) = Len(t) + Len(v) /\ Len(v) \in Nat
  BY <1>2, <1>3, Longer
<1>5. Len(t \o v) = 2 + Len(control) + Len(v)
  BY <1>3, <1>4
<1> QED
  BY <1>1, <1>2, <1>3, <1>4, <1>5, Zenon DEF CommandBytes, h, t, v

\* Where the parts of a command lie.
LEMMA CommandLies ==
  ASSUME NEW s \in Seq(Byte), NEW k \in 1..EndOf(s), NEW code \in Byte, NEW control \in Seq(Byte),
         NEW orders \in Seq(Orders), Lies(s, k, CommandBytes(code, control, orders))
  PROVE  /\ s[k] = ESC /\ s[k + 1] = code /\ k + 2 \in 1..EndOf(s)
         /\ Lies(s, k + 2, control) /\ k + 2 + Len(control) \in 1..EndOf(s)
         /\ Lies(s, k + 2 + Len(control), All(Written, orders))
         /\ k + Len(CommandBytes(code, control, orders)) =
              (k + 2 + Len(control)) + Len(All(Written, orders))
<1> DEFINE h == <<ESC, code>>
           t == h \o control
           v == All(Written, orders)
<1>1. /\ h \in Seq(Byte) /\ Len(h) = 2 /\ h[1] = ESC /\ h[2] = code
      /\ t \in Seq(Byte) /\ Len(t) = 2 + Len(control) /\ v \in Seq(Byte) /\ Len(control) \in Nat
  BY CommandBytesType
<1>0. CommandBytes(code, control, orders) = t \o v
  BY DEF CommandBytes
<1>2. Lies(s, k, t \o v)
  BY <1>0, Zenon
<1> HIDE DEF h, v
<1>3. k \in Nat /\ EndOf(s) \in Nat
  BY Payload
<1>4. Lies(s, k, t) /\ Lies(s, k + Len(t), v) /\ k + Len(t) \in 1..EndOf(s)
      /\ k + Len(t \o v) = (k + Len(t)) + Len(v)
  <2> HIDE DEF t
  <2> QED BY <1>1, <1>2, LiesConcat, ZenonT(60)
<1>5. Lies(s, k, h) /\ Lies(s, k + Len(h), control) /\ k + Len(h) \in 1..EndOf(s)
  BY <1>1, <1>4, LiesConcat
<1>6. k + Len(h) = k + 2 /\ k + Len(t) = k + 2 + Len(control)
  BY <1>1, <1>3
<1>7. s[k] = ESC /\ s[k + 1] = code
  <2>1. 1 \in 1..Len(h) /\ 2 \in 1..Len(h) /\ k + 1 - 1 = k /\ k + 2 - 1 = k + 1
    BY <1>1, <1>3
  <2>2. s[k + 1 - 1] = h[1] /\ s[k + 2 - 1] = h[2]
    BY <1>5, <2>1, Zenon DEF Lies
  <2> QED
    BY <1>1, <2>1, <2>2
<1> QED
  BY <1>0, <1>4, <1>5, <1>6, <1>7, Zenon DEF v

-----------------------------------------------------------------------------
(* What is read of a command is a command, and no longer. *)

CommandOf(code, control, orders) == [code |-> code, control |-> control, orders |-> orders]

\* What reading at k may give.
CommandResults(s, k) ==
  {this \in [read : Nat, command : Commands] :
     /\ this.read \in 1..Left(s, k) /\ Len(MarshalCommand(this.command)) <= this.read
     /\ this.command.code = CcWriteToDisplay => this.read = Left(s, k)}

IsResult(s, k, n, code, control, orders) ==
  [read |-> n, command |-> CommandOf(code, control, orders)] \in CommandResults(s, k)

LEMMA CommandResult ==
  ASSUME NEW s \in Seq(Byte), NEW k \in 1..Len(s), NEW code, NEW control \in Seq(Byte),
         NEW orders \in Seq(Orders), IsPlain(code, control, orders),
         NEW n \in 1..Left(s, k), 2 + Len(control) + Len(All(Written, orders)) <= n,
         code = CcWriteToDisplay => n = Left(s, k)
  PROVE  IsResult(s, k, n, code, control, orders)
<1> DEFINE command == CommandOf(code, control, orders)
           this == [read |-> n, command |-> command]
<1>1. /\ command \in CommandShape /\ command.code = code /\ command.control = control
      /\ command.orders = orders /\ code \in Byte
  BY CodesAre DEF CommandShape, CommandOf, IsPlain
<1> HIDE DEF command
<1>2. command \in Commands
  BY <1>1 DEF Commands
<1>3. Len(MarshalCommand(command)) <= n
  <2>1. MarshalCommand(command) = CommandBytes(code, control, orders)
    BY <1>1, CommandIsBytes
  <2>2. Len(CommandBytes(code, control, orders)) = 2 + Len(control) + Len(All(Written, orders))
    BY <1>1, CommandBytesType
  <2> QED
    BY <2>1, <2>2
<1>4. n \in Nat
  BY Payload DEF Left
<1>5. this \in [read : Nat, command : Commands] /\ this.read = n /\ this.command = command
  BY <1>2, <1>4
<1> HIDE DEF this
<1>6. this \in CommandResults(s, k)
  BY <1>1, <1>3, <1>5 DEF CommandResults
<1> QED
  BY <1>6 DEF this, command, IsResult

LEMMA ClearUnitRead ==
  ASSUME NEW s \in Seq(Byte), NEW k \in 1..Len(s), NEW n \in 2..Left(s, k)
  PROVE  [read |-> n, command |-> ClearUnit] \in CommandResults(s, k)
<1>1. All(Written, <<>>) = <<>> /\ <<>> \in Seq(Orders) /\ <<>> \in Seq(Byte) /\ Len(<<>>) = 0
  BY EmptySeq, WrittenType, AllGrows
<1>2. IsPlain(CcClearUnit, <<>>, <<>>) /\ CcClearUnit # CcWriteToDisplay
  BY CodesAre DEF IsPlain
<1>3. n \in 1..Left(s, k) /\ 2 + Len(<<>>) + Len(All(Written, <<>>)) <= n
  <2>1. Left(s, k) \in Int
    BY Payload DEF Left
  <2>2. 2 + 0 + 0 <= n /\ n \in 1..Left(s, k)
    BY <2>1
  <2> QED
    BY <1>1, <2>2
<1>4. IsResult(s, k, n, CcClearUnit, <<>>, <<>>)
  BY <1>1, <1>2, <1>3, CommandResult
<1>5. ClearUnit = CommandOf(CcClearUnit, <<>>, <<>>)
  BY Zenon DEF ClearUnit, CommandOf
<1> QED
  BY <1>4, <1>5, Zenon DEF IsResult

\* The two control bytes of a command.
LEMMA ControlRead ==
  ASSUME NEW s \in Seq(Byte), NEW k \in 1..Len(s), Left(s, k) >= 4
  PROVE  /\ <<s[k + 2], s[k + 3]>> \in Seq(Byte) /\ Len(<<s[k + 2], s[k + 3]>>) = 2
         /\ <<s[k + 2], s[k + 3]>> \in Pairs /\ k + 4 \in 1..EndOf(s)
<1>1. k + 2 \in 1..Len(s) /\ k + 3 \in 1..Len(s) /\ k + 4 \in 1..EndOf(s)
  BY Payload DEF Left
<1>2. s[k + 2] \in Byte /\ s[k + 3] \in Byte
  BY <1>1, ElementOfSeq
<1>3. \A a, b \in Byte : <<a, b>> \in Seq(Byte) /\ Len(<<a, b>>) = 2
  OBVIOUS
<1>4. <<s[k + 2], s[k + 3]>> \in Seq(Byte) /\ Len(<<s[k + 2], s[k + 3]>>) = 2
  BY <1>2, <1>3, Zenon
<1> QED
  BY <1>1, <1>4, Zenon DEF Pairs

LEMMA RmfRead ==
  ASSUME NEW s \in Seq(Byte), NEW k \in 1..Len(s)
  PROVE  UnmarshalRmf(s, k) \subseteq CommandResults(s, k)
<1> DEFINE c == <<s[k + 2], s[k + 3]>>
<1>1. Left(s, k) \in Int
  BY Payload DEF Left
<1>2. CASE Left(s, k) < 4
  BY <1>2 DEF UnmarshalRmf
<1>3. CASE ~(Left(s, k) < 4)
  <2>1. Left(s, k) >= 4
    BY <1>1, <1>3
  <2>2. c \in Seq(Byte) /\ Len(c) = 2 /\ c \in Pairs
    BY <2>1, ControlRead
  <2>3. UnmarshalRmf(s, k) = {[read |-> 4, command |-> CommandOf(CcReadMdtFields, c, <<>>)]}
    BY <1>3, Zenon DEF UnmarshalRmf, CommandOf
  <2>4. All(Written, <<>>) = <<>> /\ <<>> \in Seq(Orders) /\ Len(<<>>) = 0
    BY EmptySeq, WrittenType, AllGrows
  <2> HIDE DEF c
  <2>5. IsPlain(CcReadMdtFields, c, <<>>) /\ CcReadMdtFields # CcWriteToDisplay
    BY <2>2, CodesAre DEF IsPlain
  <2>6. 4 \in 1..Left(s, k) /\ 2 + Len(c) + Len(All(Written, <<>>)) <= 4
    <3>1. 2 + 2 + 0 <= 4 /\ 4 \in 1..Left(s, k)
      BY <1>1, <2>1
    <3> QED
      BY <2>2, <2>4, <3>1
  <2>7. IsResult(s, k, 4, CcReadMdtFields, c, <<>>)
    BY <2>2, <2>4, <2>5, <2>6, CommandResult
  <2> QED
    BY <2>3, <2>7, Zenon DEF IsResult
<1> QED
  BY <1>2, <1>3

LEMMA WtdRead ==
  ASSUME NEW s \in Seq(Byte), NEW k \in 1..Len(s)
  PROVE  UnmarshalWtd(s, k) \subseteq CommandResults(s, k)
<1> DEFINE c == <<s[k + 2], s[k + 3]>>
           n == Left(s, k)
           A == {o \in UnmarshalOrders(s, k + 4) : o = <<>> => n = 4}
<1>1. n \in Int /\ EndOf(s) \in Nat /\ k \in Nat
  BY Payload DEF Left
<1>2. CASE n < 4
  BY <1>2 DEF UnmarshalWtd
<1>3. CASE ~(n < 4)
  <2>1. n >= 4
    BY <1>1, <1>3
  <2>2. c \in Seq(Byte) /\ Len(c) = 2 /\ c \in Pairs /\ k + 4 \in 1..EndOf(s)
    BY <2>1, ControlRead
  <2>3. UnmarshalWtd(s, k) = {[read |-> n, command |-> CommandOf(CcWriteToDisplay, c, o)] : o \in A}
    BY <1>3, Zenon DEF UnmarshalWtd, CommandOf
  <2> HIDE DEF c
  <2>4. ASSUME NEW o \in A
        PROVE  IsResult(s, k, n, CcWriteToDisplay, c, o)
    <3>1. o \in OrdersFrom(s, k + 4)[k + 4]
      BY OrdersAreFrom, Zenon
    <3>2. k + 4 \in (k + 4)..EndOf(s)
      BY <1>1, <2>2
    <3>3. o \in Seq(Orders) /\ Len(All(Written, o)) <= EndOf(s) - (k + 4)
      BY <2>2, <3>1, <3>2, OrdersShort
    <3>4. Len(All(Written, o)) \in Nat
      BY <3>3, WrittenType, AllGrows, LenProperties
    <3>5. n = EndOf(s) - k
      BY DEF Left
    <3> HIDE DEF A
    <3>6. 2 + Len(c) + Len(All(Written, o)) <= n /\ n \in 1..Left(s, k)
      <4> DEFINE m == Len(All(Written, o))
      <4>1. m \in Nat /\ m <= EndOf(s) - (k + 4)
        BY <3>3, <3>4
      <4>2. n \in 1..Left(s, k)
        BY <1>1, <2>1
      <4> HIDE DEF m
      <4>3. 2 + 2 + m <= n
        BY <1>1, <3>5, <4>1
      <4> QED
        BY <2>2, <4>2, <4>3 DEF m
    <3> HIDE DEF n
    <3>7. IsPlain(CcWriteToDisplay, c, o)
      BY <2>2, Zenon DEF IsPlain
    <3>8. n = Left(s, k)
      BY DEF n
    <3> QED
      BY <2>2, <3>3, <3>6, <3>7, <3>8, CommandResult
  <2> QED
    BY <2>3, <2>4, Zenon DEF IsResult
<1> QED
  BY <1>2, <1>3

LEMMA CommandRead ==
  ASSUME NEW s \in Seq(Byte), NEW k \in 1..Len(s)
  PROVE  UnmarshalCommand(s, k) \subseteq CommandResults(s, k)
<1>1. Left(s, k) \in Int
  BY Payload DEF Left
<1>2. CASE Left(s, k) < 2 \/ s[k] # ESC
  <2>1. UnmarshalCommand(s, k) = {}
    BY <1>2 DEF UnmarshalCommand
  <2> QED
    BY <2>1
<1>3. CASE ~(Left(s, k) < 2 \/ s[k] # ESC)
  <2>1. 2 \in 2..Left(s, k) /\ Left(s, k) \in 2..Left(s, k)
    BY <1>1, <1>3
  <2>2. CASE s[k + 1] = CcClearUnit
    <3>1. UnmarshalCommand(s, k) = UnmarshalCs
      BY <1>3, <2>2, CodesAre DEF UnmarshalCommand
    <3> QED
      BY <2>1, <3>1, ClearUnitRead DEF UnmarshalCs
  <2>3. CASE s[k + 1] = CcWriteToDisplay
    <3>1. UnmarshalCommand(s, k) = UnmarshalWtd(s, k)
      BY <1>3, <2>3, CodesAre DEF UnmarshalCommand
    <3> QED
      BY <3>1, WtdRead
  <2>4. CASE s[k + 1] = CcReadMdtFields
    <3>1. UnmarshalCommand(s, k) = UnmarshalRmf(s, k)
      BY <1>3, <2>4, CodesAre DEF UnmarshalCommand
    <3> QED
      BY <3>1, RmfRead
  <2>5. CASE s[k + 1] \notin {CcClearUnit, CcWriteToDisplay, CcReadMdtFields}
    <3>1. UnmarshalCommand(s, k) = {[read |-> Left(s, k), command |-> ClearUnit]}
      BY <1>3, <2>5 DEF UnmarshalCommand
    <3> QED
      BY <2>1, <3>1, ClearUnitRead
  <2> QED
    BY <2>2, <2>3, <2>4, <2>5
<1> QED
  BY <1>2, <1>3

-----------------------------------------------------------------------------
(* The commands of a record, as far as they are read. *)

Sent == [command \in Commands |-> MarshalCommand(command)]

LEMMA SentType == MapsInto(Sent, Commands, Seq(Byte))
<1>1. ASSUME NEW command \in Commands
      PROVE  MarshalCommand(command) \in Seq(Byte)
  <2>1. command.code \in Byte /\ command.control \in Seq(Byte) /\ command.orders \in Seq(Orders)
    BY CodesAre DEF Commands, CommandShape
  <2>2. MarshalCommand(command) = CommandBytes(command.code, command.control, command.orders)
    BY <2>1, CommandIsBytes
  <2>3. CommandBytes(command.code, command.control, command.orders) \in Seq(Byte)
    BY <2>1, CommandBytesType
  <2> QED
    BY <2>2, <2>3, Zenon
<1> QED
  BY <1>1 DEF MapsInto, Sent

Readings == [end : Nat, commands : Seq(Commands)]

Behind(command, rest) == [rest EXCEPT !.commands = <<command>> \o @]

LEMMA BehindIs ==
  ASSUME NEW command \in Commands, NEW rest \in Readings
  PROVE  /\ Behind(command, rest) \in Readings /\ Behind(command, rest).end = rest.end
         /\ Behind(command, rest).commands = <<command>> \o rest.commands
         /\ Behind(command, rest) = [end |-> rest.end, commands |-> <<command>> \o rest.commands]
<1>1. rest.commands \in Seq(Commands) /\ rest.end \in Nat
  BY DEF Readings
<1>2. <<command>> \o rest.commands \in Seq(Commands)
  BY <1>1, Prefixed
<1> DEFINE u == <<command>> \o rest.commands
<1>4. Behind(command, rest) = [rest EXCEPT !.commands = u]
  BY Zenon DEF Behind
<1> HIDE DEF u
<1>3. Behind(command, rest) = [end |-> rest.end, commands |-> u]
  <2>1. \A r \in Readings : \A v : [r EXCEPT !.commands = v] = [end |-> r.end, commands |-> v]
    BY DEF Readings
  <2> QED
    BY <1>4, <2>1, Zenon
<1> QED
  BY <1>1, <1>2, <1>3 DEF Readings, u

Nothing(k) == [end |-> k, commands |-> <<>>]

\* One turn of the reading of commands.
CommandsStep(s, j, g) ==
  [k \in j..EndOf(s) |->
     IF k = EndOf(s) \/ UnmarshalCommand(s, k) = {} THEN {Nothing(k)}
     ELSE UNION {{Behind(this.command, rest) : rest \in g[k + this.read]} :
                   this \in UnmarshalCommand(s, k)}]

CommandsFrom(s, j) == CHOOSE g : g = CommandsStep(s, j, g)

LEMMA CommandsAreFrom ==
  \A s, j : UnmarshalCommands(s, j) = CHOOSE all \in CommandsFrom(s, j)[j] : TRUE
BY DEF UnmarshalCommands, CommandsFrom, CommandsStep, Behind, Nothing

LEMMA CommandsUnrolled ==
  ASSUME NEW s \in Seq(Byte), NEW j \in 1..EndOf(s)
  PROVE  /\ CommandsFrom(s, j) \in [j..EndOf(s) -> SUBSET Readings]
         /\ CommandsFrom(s, j) = CommandsStep(s, j, CommandsFrom(s, j))
<1> DEFINE b == EndOf(s)
           D == j..b
           X == SUBSET Readings
           F == [g \in [D -> X] |-> CommandsStep(s, j, g)]
           mu == [k \in D |-> b - k]
<1>1. b \in Nat /\ b = Len(s) + 1 /\ j \in Nat /\ Len(s) \in Nat
  BY Payload
<1>3. ASSUME NEW k \in D, k # b, NEW this \in UnmarshalCommand(s, k)
      PROVE  k + this.read \in D /\ mu[k + this.read] < mu[k] /\ this.command \in Commands
  <2>1. k \in 1..Len(s)
    BY <1>1, <1>3
  <2>2. this \in CommandResults(s, k)
    BY <1>3, <2>1, CommandRead
  <2>3. this.read \in 1..Left(s, k) /\ this.command \in Commands
    BY <2>2 DEF CommandResults
  <2> QED
    BY <1>1, <2>3 DEF Left
<1>4. ASSUME NEW g, NEW k \in D, \A m \in D : mu[m] < mu[k] => g[m] \in X
      PROVE  CommandsStep(s, j, g)[k] \in X
  <2>1. CASE k = b \/ UnmarshalCommand(s, k) = {}
    <3>1. {Nothing(k)} \in X
      <4>1. k \in Nat /\ <<>> \in Seq(Commands)
        BY <1>1, EmptySeq
      <4> QED
        BY <4>1 DEF Nothing, Readings
    <3>2. CommandsStep(s, j, g)[k] = {Nothing(k)}
      BY <2>1, Zenon DEF CommandsStep
    <3> QED
      BY <3>1, <3>2, Zenon
  <2>2. CASE k # b /\ UnmarshalCommand(s, k) # {}
    <3>1. ASSUME NEW this \in UnmarshalCommand(s, k), NEW rest \in g[k + this.read]
          PROVE  Behind(this.command, rest) \in Readings
      <4>1. k + this.read \in D /\ mu[k + this.read] < mu[k] /\ this.command \in Commands
        BY <1>3, <2>2
      <4>2. rest \in Readings
        BY <1>4, <3>1, <4>1
      <4> QED
        BY <4>1, <4>2, BehindIs
    <3>2. CommandsStep(s, j, g)[k] =
            UNION {{Behind(this.command, rest) : rest \in g[k + this.read]} : this \in UnmarshalCommand(s, k)}
      BY <2>2, Zenon DEF CommandsStep
    <3>3. UNION {{Behind(this.command, rest) : rest \in g[k + this.read]} : this \in UnmarshalCommand(s, k)}
            \subseteq Readings
      <4> DEFINE A(this) == {Behind(this.command, rest) : rest \in g[k + this.read]}
      <4>1. \A this \in UnmarshalCommand(s, k) : A(this) \subseteq Readings
        BY <3>1
      <4> HIDE DEF A
      <4>2. UNION {A(this) : this \in UnmarshalCommand(s, k)} \subseteq Readings
        BY <4>1
      <4> QED
        BY <4>2, Zenon DEF A
    <3> QED
      BY <3>2, <3>3, Zenon
  <2> QED
    BY <2>1, <2>2
<1>5. ASSUME NEW g \in [D -> X], NEW h \in [D -> X], NEW k \in D,
             \A e \in D : mu[e] < mu[k] => g[e] = h[e]
      PROVE  CommandsStep(s, j, g)[k] = CommandsStep(s, j, h)[k]
  <2>1. CASE k = b \/ UnmarshalCommand(s, k) = {}
    BY <2>1, Zenon DEF CommandsStep
  <2>2. CASE k # b /\ UnmarshalCommand(s, k) # {}
    <3>1. \A this \in UnmarshalCommand(s, k) : g[k + this.read] = h[k + this.read]
      BY <1>3, <1>5, <2>2
    <3>2. UNION {{Behind(this.command, rest) : rest \in g[k + this.read]} : this \in UnmarshalCommand(s, k)} =
          UNION {{Behind(this.command, rest) : rest \in h[k + this.read]} : this \in UnmarshalCommand(s, k)}
      <4> DEFINE A(f, this) == {Behind(this.command, rest) : rest \in f[k + this.read]}
      <4>1. \A this \in UnmarshalCommand(s, k) : A(g, this) = A(h, this)
        BY <3>1
      <4> HIDE DEF A
      <4>2. {A(g, this) : this \in UnmarshalCommand(s, k)} = {A(h, this) : this \in UnmarshalCommand(s, k)}
        BY <4>1
      <4>3. UNION {A(g, this) : this \in UnmarshalCommand(s, k)} = UNION {A(h, this) : this \in UnmarshalCommand(s, k)}
        BY <4>2
      <4> QED
        BY <4>3, Zenon DEF A
    <3> QED
      BY <2>2, <3>2, Zenon DEF CommandsStep
  <2> QED
    BY <2>1, <2>2
<1>6. Descends(F, D, mu, X)
  <2>1. mu \in [D -> Nat]
    BY <1>1
  <2>2. F \in [[D -> X] -> [D -> X]]
    <3>1. \A g : CommandsStep(s, j, g) = [k \in D |-> CommandsStep(s, j, g)[k]]
      BY Zenon DEF CommandsStep
    <3>2. \A g \in [D -> X] : CommandsStep(s, j, g) \in [D -> X]
      BY <1>4, <3>1
    <3> QED
      BY <3>2
  <2>3. \A g, h \in [D -> X], k \in D :
          (\A e \in D : mu[e] < mu[k] => g[e] = h[e]) => F[g][k] = F[h][k]
    BY <1>5
  <2> HIDE DEF F, D, mu, X
  <2> QED
    BY <2>1, <2>2, <2>3 DEF Descends
<1>7. \E g \in [D -> X] : F[g] = g
  <2>1. X # {}
    OBVIOUS
  <2> HIDE DEF F, D, mu, X
  <2>2. HasSolution(F, D, X)
    BY <1>6, <2>1, Solution, Zenon
  <2> QED
    BY <2>2 DEF HasSolution
<1>8. \E g : g = CommandsStep(s, j, g)
  BY <1>7
<1>9. CommandsFrom(s, j) = CommandsStep(s, j, CommandsFrom(s, j))
  BY <1>8, Zenon DEF CommandsFrom
<1> DEFINE g == CommandsFrom(s, j)
           S == {k \in 1..b : k \in D => g[k] \in X}
<1>10. g = CommandsStep(s, j, g)
  BY <1>9
<1> HIDE DEF g
<1>11. ASSUME NEW k \in 1..b, \A m \in (k + 1)..b : m \in S
       PROVE  k \in S
  <2>1. SUFFICES ASSUME k \in D
                 PROVE  g[k] \in X
    OBVIOUS
  <2>2. ASSUME NEW m \in D, mu[m] < mu[k]
        PROVE  g[m] \in X
    <3>1. m \in (k + 1)..b
      BY <1>1, <2>1, <2>2
    <3> QED
      BY <1>11, <2>2, <3>1
  <2>3. CommandsStep(s, j, g)[k] \in X
    <3> HIDE DEF mu, X
    <3> QED BY <1>4, <2>1, <2>2
  <2> QED
    BY <1>10, <2>3, Zenon
<1>12. 1..b \subseteq S
  <2> HIDE DEF S, b
  <2> QED BY <1>1, <1>11, Backwards
<1>13. \A k \in D : g[k] \in X
  <2>1. D \subseteq 1..b
    BY <1>1
  <2> QED
    BY <1>12, <2>1
<1>14. g = [k \in D |-> g[k]]
  <2>1. CommandsStep(s, j, g) = [k \in D |-> CommandsStep(s, j, g)[k]]
    BY Zenon DEF CommandsStep
  <2> QED
    BY <1>10, <2>1, Zenon
<1>15. g \in [D -> X]
  <2> HIDE DEF D, X
  <2> QED BY <1>13, <1>14
<1> QED
  BY <1>10, <1>15 DEF g

LEMMA LastBehind ==
  ASSUME NEW command \in Commands, NEW rest \in Seq(Commands)
  PROVE  IsLast(<<command>> \o rest) <=>
           IsLast(rest) /\ (command.code = CcWriteToDisplay => rest = <<>>)
<1> DEFINE t == <<command>> \o rest
<1>1. /\ Len(rest) \in Nat /\ Len(t) = 1 + Len(rest) /\ t[1] = command
      /\ \A n \in 1..Len(rest) : t[1 + n] = rest[n]
  <2>1. <<command>> \in Seq(Commands) /\ Len(<<command>>) = 1 /\ <<command>>[1] = command
    OBVIOUS
  <2> QED
    BY <2>1, ConcatProperties, LenProperties
<1>2. rest = <<>> <=> Len(rest) = 0
  BY EmptySeq
<1> HIDE DEF t
<1>3. \A n \in 1..Len(t) : n = 1 \/ (n - 1 \in 1..Len(rest) /\ 1 + (n - 1) = n)
  BY <1>1
<1>4. \A n \in 1..Len(rest) : 1 + n \in 1..Len(t) /\ (1 + n = Len(t) <=> n = Len(rest))
  BY <1>1
<1>5. 1 \in 1..Len(t) /\ (1 = Len(t) <=> Len(rest) = 0)
  BY <1>1
<1>6. ASSUME IsLast(t)
      PROVE  IsLast(rest) /\ (command.code = CcWriteToDisplay => rest = <<>>)
  BY <1>1, <1>2, <1>4, <1>5, <1>6 DEF IsLast
<1>7. ASSUME IsLast(rest), command.code = CcWriteToDisplay => rest = <<>>
      PROVE  IsLast(t)
  <2>1. ASSUME NEW n \in 1..Len(t), t[n].code = CcWriteToDisplay
        PROVE  n = Len(t)
    <3>1. CASE n = 1
      BY <1>1, <1>2, <1>5, <1>7, <2>1, <3>1
    <3>2. CASE n # 1
      <4>1. n - 1 \in 1..Len(rest) /\ 1 + (n - 1) = n
        BY <1>3, <3>2
      <4>2. t[n] = rest[n - 1]
        BY <1>1, <4>1
      <4>3. n - 1 = Len(rest)
        BY <1>7, <2>1, <4>1, <4>2 DEF IsLast
      <4> QED
        BY <1>4, <4>1, <4>3
    <3> QED
      BY <3>1, <3>2
  <2> QED
    BY <2>1 DEF IsLast
<1> QED
  BY <1>6, <1>7 DEF t

LEMMA NoneIsLast == IsLast(<<>>)
<1>1. Len(<<>>) = 0
  BY EmptySeq
<1> QED
  BY <1>1 DEF IsLast

\* What is read from k on: commands that take no more than is there.
WellRead(s, k, all) ==
  /\ all \in Readings /\ all.end <= EndOf(s)
  /\ IsLast(all.commands) /\ Len(All(Sent, all.commands)) <= EndOf(s) - k
  /\ k = EndOf(s) => all.commands = <<>>

LEMMA NothingIsWell ==
  ASSUME NEW s \in Seq(Byte), NEW k \in 1..EndOf(s)
  PROVE  WellRead(s, k, Nothing(k))
<1>1. k \in Nat /\ EndOf(s) \in Nat /\ 0 <= EndOf(s) - k /\ k <= EndOf(s)
  BY Payload
<1>2. <<>> \in Seq(Commands) /\ All(Sent, <<>>) = <<>> /\ Len(<<>>) = 0
  BY EmptySeq, SentType, AllGrows
<1>3. Nothing(k) \in Readings /\ Nothing(k).end = k /\ Nothing(k).commands = <<>>
  BY <1>1, <1>2 DEF Nothing, Readings
<1> QED
  BY <1>1, <1>2, <1>3, NoneIsLast DEF WellRead

LEMMA BehindIsWell ==
  ASSUME NEW s \in Seq(Byte), NEW k \in 1..Len(s), NEW this \in CommandResults(s, k),
         NEW m, m = k + this.read, NEW rest, WellRead(s, m, rest)
  PROVE  WellRead(s, k, Behind(this.command, rest))
<1> DEFINE n == this.read
           command == this.command
           all == Behind(command, rest)
           u == MarshalCommand(command)
           v == All(Sent, rest.commands)
<1>1. /\ n \in 1..Left(s, k) /\ command \in Commands /\ Len(u) <= n
      /\ command.code = CcWriteToDisplay => n = Left(s, k)
  BY DEF CommandResults
<1>2. /\ rest \in Readings /\ rest.end <= EndOf(s) /\ IsLast(rest.commands)
      /\ Len(v) <= EndOf(s) - m /\ (m = EndOf(s) => rest.commands = <<>>)
  BY DEF WellRead
<1>3. /\ all \in Readings /\ all.end = rest.end /\ all.commands = <<command>> \o rest.commands
      /\ rest.commands \in Seq(Commands)
  BY <1>1, <1>2, BehindIs DEF Readings
<1>4. m = k + n
  OBVIOUS
<1> HIDE DEF n, command, all
<1>5. k \in Nat /\ EndOf(s) \in Nat /\ n \in Nat /\ k # EndOf(s) /\ (n = Left(s, k) => m = EndOf(s))
  <2>1. k \in Nat /\ EndOf(s) \in Nat /\ k # EndOf(s) /\ Left(s, k) = EndOf(s) - k
    BY Payload DEF Left
  <2>2. \A a, b \in Nat : \A i \in 1..(b - a) : i \in Nat /\ (i = b - a => a + i = b)
    OBVIOUS
  <2>3. n \in 1..(EndOf(s) - k)
    BY <1>1, <2>1, Zenon
  <2>4. n \in Nat /\ (n = EndOf(s) - k => k + n = EndOf(s))
    BY <2>1, <2>2, <2>3, ZenonT(60)
  <2> QED
    BY <1>4, <2>1, <2>4, Zenon
<1>6. IsLast(all.commands)
  <2>1. command.code = CcWriteToDisplay => rest.commands = <<>>
    BY <1>1, <1>2, <1>5
  <2>2. IsLast(<<command>> \o rest.commands)
    BY <1>1, <1>2, <1>3, <2>1, LastBehind
  <2> QED
    BY <1>3, <2>2, Zenon
<1>7. All(Sent, all.commands) = u \o v
  <2>1. AllFirstIs(Sent, command, rest.commands)
    BY <1>1, <1>3, SentType, AllFirst
  <2>2. Sent[command] = u
    BY <1>1 DEF Sent
  <2> QED
    BY <1>3, <2>1, <2>2, Zenon DEF AllFirstIs
<1>8. u \in Seq(Byte) /\ v \in Seq(Byte)
  <2>1. Sent[command] = u
    BY <1>1 DEF Sent
  <2>2. Sent[command] \in Seq(Byte)
    BY <1>1, SentType DEF MapsInto
  <2>3. v \in Seq(Byte)
    BY <1>3, SentType, AllGrows
  <2> QED
    BY <2>1, <2>2, <2>3
<1> HIDE DEF u, v
<1>9. Len(u \o v) = Len(u) + Len(v) /\ Len(u) \in Nat /\ Len(v) \in Nat
  BY <1>8, Longer
<1>10. Len(All(Sent, all.commands)) <= EndOf(s) - k
  <2> DEFINE a == Len(u)
             b == Len(v)
             e == EndOf(s)
  <2>1. a \in Nat /\ b \in Nat /\ a <= n /\ b <= e - m /\ m = k + n /\ e \in Nat
    BY <1>1, <1>2, <1>4, <1>5, <1>9
  <2> HIDE DEF a, b, e
  <2>2. a + b <= e - k
    BY <1>5, <2>1
  <2> QED
    BY <1>7, <1>9, <2>2, Zenon DEF a, b, e
<1> QED
  BY <1>2, <1>3, <1>5, <1>6, <1>10 DEF WellRead, all, command

LEMMA CommandsShort ==
  ASSUME NEW s \in Seq(Byte), NEW j \in 1..EndOf(s)
  PROVE  \A k \in j..EndOf(s) :
           /\ CommandsFrom(s, j)[k] # {}
           /\ \A all \in CommandsFrom(s, j)[k] : WellRead(s, k, all)
<1> DEFINE b == EndOf(s)
           g == CommandsFrom(s, j)
           Well(k) == g[k] # {} /\ \A all \in g[k] : WellRead(s, k, all)
           S == {k \in 1..b : k \in j..b => Well(k)}
<1>1. b \in Nat /\ b = Len(s) + 1 /\ j \in Nat /\ Len(s) \in Nat
  BY Payload
<1>2. g = CommandsStep(s, j, g)
  BY CommandsUnrolled
<1> HIDE DEF g
<1>3. ASSUME NEW k \in 1..b, \A m \in (k + 1)..b : m \in S, k \in j..b
      PROVE  Well(k)
  <2>1. CASE k = b \/ UnmarshalCommand(s, k) = {}
    <3>1. CommandsStep(s, j, g)[k] = {Nothing(k)}
      BY <1>3, <2>1, Zenon DEF CommandsStep
    <3>2. g[k] = {Nothing(k)}
      BY <1>2, <3>1, Zenon
    <3> QED
      BY <3>2, NothingIsWell
  <2>2. CASE k # b /\ UnmarshalCommand(s, k) # {}
    <3>1. CommandsStep(s, j, g)[k] =
            UNION {{Behind(this.command, rest) : rest \in g[k + this.read]} : this \in UnmarshalCommand(s, k)}
      BY <1>3, <2>2, Zenon DEF CommandsStep
    <3>2. g[k] = UNION {{Behind(this.command, rest) : rest \in g[k + this.read]} : this \in UnmarshalCommand(s, k)}
      BY <1>2, <3>1, Zenon
    <3>3. k \in 1..Len(s)
      BY <1>1, <1>3, <2>2
    <3>4. ASSUME NEW this \in UnmarshalCommand(s, k)
          PROVE  this \in CommandResults(s, k) /\ Well(k + this.read)
      <4>1. this \in CommandResults(s, k)
        BY <3>3, CommandRead
      <4>2. this.read \in 1..Left(s, k)
        BY <4>1 DEF CommandResults
      <4>3. k + this.read \in (k + 1)..b /\ k + this.read \in j..b
        BY <1>1, <1>3, <4>2 DEF Left
      <4> QED
        BY <1>3, <4>1, <4>3
    <3>5. g[k] # {}
      <4>1. PICK this \in UnmarshalCommand(s, k) : TRUE
        BY <2>2
      <4>2. PICK rest \in g[k + this.read] : TRUE
        BY <3>4
      <4> DEFINE A(x) == {Behind(x.command, r) : r \in g[k + x.read]}
      <4>3. Behind(this.command, rest) \in A(this)
        BY Zenon
      <4>4. g[k] = UNION {A(x) : x \in UnmarshalCommand(s, k)}
        BY <3>2, Zenon
      <4> HIDE DEF A
      <4>5. Behind(this.command, rest) \in g[k]
        BY <4>3, <4>4, Zenon
      <4> QED
        BY <4>5
    <3>6. ASSUME NEW all \in g[k]
          PROVE  WellRead(s, k, all)
      <4>1. PICK this \in UnmarshalCommand(s, k) : \E rest \in g[k + this.read] : all = Behind(this.command, rest)
        BY <3>2, <3>6, Zenon
      <4>2. PICK rest \in g[k + this.read] : all = Behind(this.command, rest)
        BY <4>1
      <4>3. this \in CommandResults(s, k) /\ WellRead(s, k + this.read, rest)
        BY <3>4
      <4>4. WellRead(s, k, Behind(this.command, rest))
        BY <3>3, <4>3, BehindIsWell
      <4> QED
        BY <4>2, <4>4, Zenon
    <3> QED
      BY <3>5, <3>6
  <2> QED
    BY <2>1, <2>2
<1>4. \A k \in 1..b : (\A m \in (k + 1)..b : m \in S) => k \in S
  BY <1>3
<1>5. 1..b \subseteq S
  <2> HIDE DEF S, b
  <2> QED BY <1>1, <1>4, Backwards
<1>6. ASSUME NEW k \in j..b
      PROVE  Well(k)
  <2>1. k \in 1..b
    BY <1>1
  <2> QED
    BY <1>5, <2>1
<1> QED
  BY <1>6 DEF g

-----------------------------------------------------------------------------
(* Commands that were written are read. *)

ReadsCommand(s, k, n, code, control, orders) ==
  UnmarshalCommand(s, k) = {[read |-> n, command |-> CommandOf(code, control, orders)]}

\* The control bytes where they lie.
LEMMA ControlReads ==
  ASSUME NEW s \in Seq(Byte), NEW k \in 1..EndOf(s), NEW c \in Pairs, Lies(s, k + 2, c)
  PROVE  <<s[k + 2], s[k + 3]>> = c /\ ~(Left(s, k) < 4) /\ k + 4 \in 1..EndOf(s)
<1>1. k \in Nat /\ EndOf(s) \in Nat /\ c \in Seq(Byte) /\ Len(c) = 2
  BY Payload DEF Pairs
<1>2. \A i \in 1..Len(c) : s[(k + 2) + i - 1] = c[i]
  BY Zenon DEF Lies
<1>3. (k + 2) + Len(c) <= EndOf(s)
  BY DEF Lies
<1>4. 1 \in 1..Len(c) /\ 2 \in 1..Len(c) /\ (k + 2) + 1 - 1 = k + 2 /\ (k + 2) + 2 - 1 = k + 3
  BY <1>1
<1>5. s[k + 2] = c[1] /\ s[k + 3] = c[2]
  <2>1. s[(k + 2) + 1 - 1] = c[1] /\ s[(k + 2) + 2 - 1] = c[2]
    BY <1>2, <1>4, Zenon
  <2> QED
    BY <1>4, <2>1, Zenon
<1>6. <<c[1], c[2]>> = c
  <2> DEFINE t == <<c[1], c[2]>>
  <2>1. c[1] \in Byte /\ c[2] \in Byte
    BY <1>1, <1>4, ElementOfSeq
  <2>2. t \in Seq(Byte) /\ Len(t) = 2 /\ t[1] = c[1] /\ t[2] = c[2]
    BY <2>1
  <2> HIDE DEF t
  <2>3. \A i \in 1..Len(t) : t[i] = c[i]
    BY <2>2
  <2>4. t = c
    BY <1>1, <2>2, <2>3, SeqEqual
  <2> QED
    BY <2>4 DEF t
<1>7. ~(Left(s, k) < 4) /\ k + 4 \in 1..EndOf(s)
  BY <1>1, <1>3 DEF Left
<1> QED
  BY <1>5, <1>6, <1>7, Zenon

LEMMA WtdReads ==
  ASSUME NEW s \in Seq(Byte), NEW k \in 1..EndOf(s), NEW c \in Pairs, Lies(s, k + 2, c),
         NEW orders \in Seq(Orders), Ends(s, k + 4, All(Written, orders))
  PROVE  UnmarshalWtd(s, k) = {[read |-> Left(s, k), command |-> CommandOf(CcWriteToDisplay, c, orders)]}
<1> DEFINE n == Left(s, k)
           A == {o \in UnmarshalOrders(s, k + 4) : o = <<>> => n = 4}
<1>1. <<s[k + 2], s[k + 3]>> = c /\ ~(n < 4) /\ k + 4 \in 1..EndOf(s)
  BY ControlReads
<1>2. k \in Nat /\ EndOf(s) \in Nat /\ k + 4 \in (k + 4)..EndOf(s)
  BY <1>1, Payload
<1>3. UnmarshalOrders(s, k + 4) = {orders}
  <2>1. ReadsBack(s, k + 4, orders)
    BY <1>1, OrdersRead
  <2>2. OrdersFrom(s, k + 4)[k + 4] = {orders}
    BY <1>2, <2>1, Zenon DEF ReadsBack
  <2> QED
    BY <2>2, OrdersAreFrom, Zenon
<1>4. orders = <<>> => n = 4
  <2>1. SUFFICES ASSUME orders = <<>>
                 PROVE  n = 4
    OBVIOUS
  <2>2. All(Written, orders) = <<>>
    BY <2>1, WrittenType, AllGrows, EmptySeq
  <2>3. (k + 4) + Len(<<>>) = EndOf(s) /\ Len(<<>>) = 0
    BY <2>2, EmptySeq DEF Ends
  <2> QED
    BY <1>2, <2>3 DEF Left
<1>5. A = {orders}
  BY <1>3, <1>4, Zenon
<1>6. UnmarshalWtd(s, k) =
        {[read |-> n, command |-> CommandOf(CcWriteToDisplay, <<s[k + 2], s[k + 3]>>, o)] : o \in A}
  BY <1>1, Zenon DEF UnmarshalWtd, CommandOf
<1> HIDE DEF A
<1>7. UnmarshalWtd(s, k) = {[read |-> n, command |-> CommandOf(CcWriteToDisplay, c, o)] : o \in {orders}}
  BY <1>1, <1>5, <1>6, Zenon
<1> QED
  BY <1>7, Zenon

LEMMA CommandReads ==
  ASSUME NEW s \in Seq(Byte), NEW k \in 1..EndOf(s), NEW code, NEW control \in Seq(Byte),
         NEW orders \in Seq(Orders), IsPlain(code, control, orders),
         Lies(s, k, CommandBytes(code, control, orders)),
         NEW n \in Nat, n = Len(CommandBytes(code, control, orders)),
         code = CcWriteToDisplay => k + n = EndOf(s)
  PROVE  ReadsCommand(s, k, n, code, control, orders)
<1> DEFINE v == All(Written, orders)
           m == Len(control)
<1>1. code \in Byte /\ (control = <<>> => Len(control) = 0)
  BY CodesAre, EmptySeq DEF IsPlain
<1>2. /\ s[k] = ESC /\ s[k + 1] = code /\ k + 2 \in 1..EndOf(s)
      /\ Lies(s, k + 2, control) /\ k + 2 + m \in 1..EndOf(s)
      /\ Lies(s, k + 2 + m, v) /\ k + n = (k + 2 + m) + Len(v)
  BY <1>1, CommandLies
<1>3. v \in Seq(Byte) /\ Len(v) \in Nat /\ m \in Nat /\ n = 2 + m + Len(v)
  BY <1>1, CommandBytesType
<1>4. k \in Nat /\ EndOf(s) \in Nat
  BY Payload
<1>5. ~(Left(s, k) < 2 \/ s[k] # ESC)
  <2>1. ~(Left(s, k) < 2)
    BY <1>2, <1>4 DEF Left
  <2> QED
    BY <1>2, <2>1
<1>6. orders = <<>> => Len(v) = 0
  <2>1. All(Written, <<>>) = <<>> /\ Len(<<>>) = 0
    BY WrittenType, AllGrows, EmptySeq
  <2> QED
    BY <2>1
<1> HIDE DEF v, m
<1>7. CASE code = CcClearUnit /\ control = <<>> /\ orders = <<>>
  <2>1. m = 0 /\ Len(v) = 0
    BY <1>1, <1>6, <1>7 DEF m
  <2>2. n = 2
    BY <1>3, <2>1
  <2>3. UnmarshalCommand(s, k) = UnmarshalCs
    BY <1>2, <1>5, <1>7, CodesAre DEF UnmarshalCommand
  <2> QED
    BY <1>7, <2>2, <2>3, Zenon DEF UnmarshalCs, ClearUnit, CommandOf, ReadsCommand
<1>8. CASE code = CcReadMdtFields /\ control \in Pairs /\ orders = <<>>
  <2>1. m = 2 /\ Len(v) = 0
    BY <1>6, <1>8 DEF m, Pairs
  <2>2. n = 4
    BY <1>3, <2>1
  <2>3. UnmarshalCommand(s, k) = UnmarshalRmf(s, k)
    BY <1>2, <1>5, <1>8, CodesAre DEF UnmarshalCommand
  <2>4. <<s[k + 2], s[k + 3]>> = control /\ ~(Left(s, k) < 4)
    BY <1>2, <1>8, ControlReads
  <2>5. UnmarshalRmf(s, k) = {[read |-> 4, command |-> CommandOf(CcReadMdtFields, control, <<>>)]}
    BY <2>4, Zenon DEF UnmarshalRmf, CommandOf
  <2> QED
    BY <1>8, <2>2, <2>3, <2>5, Zenon DEF ReadsCommand
<1>9. CASE code = CcWriteToDisplay /\ control \in Pairs
  <2>1. m = 2
    BY <1>9 DEF m, Pairs
  <2>2. k + 2 + m = k + 4 /\ k + n = (k + 4) + Len(v) /\ k + n = EndOf(s) /\ Left(s, k) = n
    BY <1>2, <1>3, <1>4, <1>9, <2>1 DEF Left
  <2>3. Ends(s, k + 4, v)
    BY <1>2, <2>2 DEF Ends
  <2>4. UnmarshalCommand(s, k) = UnmarshalWtd(s, k)
    BY <1>2, <1>5, <1>9, CodesAre DEF UnmarshalCommand
  <2>5. UnmarshalWtd(s, k) = {[read |-> Left(s, k), command |-> CommandOf(CcWriteToDisplay, control, orders)]}
    BY <1>2, <1>9, <2>3, WtdReads DEF v
  <2> QED
    BY <1>9, <2>2, <2>4, <2>5, Zenon DEF ReadsCommand
<1> QED
  BY <1>7, <1>8, <1>9 DEF IsPlain

IsReadCommand(s, k, command) ==
  UnmarshalCommand(s, k) = {[read |-> Len(MarshalCommand(command)), command |-> command]}

LEMMA OneCommand ==
  ASSUME NEW s \in Seq(Byte), NEW k \in 1..EndOf(s), NEW command \in Commands,
         Lies(s, k, MarshalCommand(command)),
         command.code = CcWriteToDisplay => k + Len(MarshalCommand(command)) = EndOf(s)
  PROVE  IsReadCommand(s, k, command)
<1> DEFINE code == command.code
           control == command.control
           orders == command.orders
           n == Len(MarshalCommand(command))
<1>1. /\ code \in Byte /\ control \in Seq(Byte) /\ orders \in Seq(Orders)
      /\ IsPlain(code, control, orders) /\ command = CommandOf(code, control, orders)
  BY CodesAre DEF Commands, CommandShape, CommandOf
<1>2. MarshalCommand(command) = CommandBytes(code, control, orders)
  BY <1>1, CommandIsBytes
<1>3. CommandBytes(code, control, orders) \in Seq(Byte)
  BY <1>1, CommandBytesType
<1>4. n \in Nat /\ n = Len(CommandBytes(code, control, orders))
  BY <1>2, <1>3, LenProperties
<1>5. Lies(s, k, CommandBytes(code, control, orders)) /\ (code = CcWriteToDisplay => k + n = EndOf(s))
  BY <1>2, Zenon
<1> HIDE DEF code, control, orders, n
<1>6. ReadsCommand(s, k, n, code, control, orders)
  BY <1>1, <1>4, <1>5, CommandReads
<1> QED
  BY <1>1, <1>6, Zenon DEF ReadsCommand, IsReadCommand, n

\* What one command read gives to the commands.
IsCommandStep(s, j, g, k, command, rest) == CommandsStep(s, j, g)[k] = {Behind(command, rest)}

LEMMA OneCommandStep ==
  ASSUME NEW s, NEW j, NEW g, NEW k \in j..EndOf(s), k # EndOf(s),
         NEW command, IsReadCommand(s, k, command),
         NEW rest, g[k + Len(MarshalCommand(command))] = {rest}
  PROVE  IsCommandStep(s, j, g, k, command, rest)
<1> DEFINE n == Len(MarshalCommand(command))
           this == [read |-> n, command |-> command]
           A(x) == {Behind(x.command, r) : r \in g[k + x.read]}
<1>1. UnmarshalCommand(s, k) = {this}
  BY Zenon DEF IsReadCommand
<1>2. this.read = n /\ this.command = command
  OBVIOUS
<1> HIDE DEF this
<1>3. CommandsStep(s, j, g)[k] = UNION {A(x) : x \in UnmarshalCommand(s, k)}
  <2>1. UnmarshalCommand(s, k) # {}
    BY <1>1
  <2> QED
    BY <2>1, Zenon DEF CommandsStep
<1>4. A(this) = {Behind(command, rest)}
  BY <1>2, Zenon
<1> HIDE DEF A
<1>5. UNION {A(x) : x \in {this}} = A(this)
  BY Zenon
<1> QED
  BY <1>1, <1>3, <1>4, <1>5, Zenon DEF IsCommandStep

LEMMA CommandLength ==
  ASSUME NEW command \in Commands
  PROVE  /\ MarshalCommand(command) \in Seq(Byte)
         /\ Len(MarshalCommand(command)) \in Nat /\ Len(MarshalCommand(command)) >= 1
<1> DEFINE code    == command.code
           control == command.control
           orders  == command.orders
           bytes   == CommandBytes(code, control, orders)
           m       == Len(control)
           n       == Len(All(Written, orders))
<1>1. code \in Byte /\ control \in Seq(Byte) /\ orders \in Seq(Orders)
  BY CodesAre DEF Commands, CommandShape
<1>2. MarshalCommand(command) = bytes
  BY <1>1, CommandIsBytes
<1> HIDE DEF code, control, orders
<1>3. bytes \in Seq(Byte) /\ Len(bytes) = 2 + m + n
  BY <1>1, CommandBytesType
<1>4. n \in Nat /\ m \in Nat
  <2>1. All(Written, orders) \in Seq(Byte)
    BY <1>1, WrittenType, AllGrows
  <2> HIDE DEF orders
  <2> QED
    BY <1>1, <2>1, LenProperties
<1> HIDE DEF bytes, m, n
<1>5. 2 + m + n \in Nat /\ 2 + m + n >= 1
  BY <1>4
<1> QED
  BY <1>2, <1>3, <1>5, Zenon

CommandsBack(s, j, commands) ==
  \A k \in j..EndOf(s) :
    Ends(s, k, All(Sent, commands)) =>
      CommandsFrom(s, j)[k] = {[end |-> EndOf(s), commands |-> commands]}

LEMMA CommandsRead ==
  ASSUME NEW s \in Seq(Byte), NEW j \in 1..EndOf(s)
  PROVE  \A commands \in Seq(Commands) : IsLast(commands) => CommandsBack(s, j, commands)
<1> DEFINE g == CommandsFrom(s, j)
           b == EndOf(s)
           T == {commands \in Seq(Commands) : IsLast(commands) => CommandsBack(s, j, commands)}
<1>1. b \in Nat /\ j \in Nat /\ j >= 1 /\ b = Len(s) + 1 /\ Len(s) \in Nat
  BY Payload
<1>2. g = CommandsStep(s, j, g)
  BY CommandsUnrolled
<1>3. <<>> \in T
  <2>1. All(Sent, <<>>) = <<>>
    BY SentType, AllGrows, EmptySeq
  <2>2. ASSUME NEW k \in j..b, Ends(s, k, <<>>)
        PROVE  g[k] = {[end |-> b, commands |-> <<>>]}
    <3>1. k = b
      <4>1. k + Len(<<>>) = b /\ Len(<<>>) = 0
        BY <2>2, EmptySeq DEF Ends
      <4> QED
        BY <1>1, <4>1
    <3>2. CommandsStep(s, j, g)[k] = {Nothing(k)}
      BY <3>1, Zenon DEF CommandsStep
    <3> QED
      BY <1>2, <3>1, <3>2, Zenon DEF Nothing
  <2>3. <<>> \in Seq(Commands)
    BY EmptySeq
  <2> QED
    BY <2>1, <2>2, <2>3, Zenon DEF CommandsBack
<1>4. ASSUME NEW rest \in Seq(Commands), NEW command \in Commands, rest \in T
      PROVE  <<command>> \o rest \in T
  <2> DEFINE u == MarshalCommand(command)
             v == All(Sent, rest)
             all == <<command>> \o rest
  <2>1. All(Sent, all) = u \o v
    <3>1. AllFirstIs(Sent, command, rest)
      BY SentType, AllFirst
    <3>2. Sent[command] = u
      BY DEF Sent
    <3> QED
      BY <3>1, <3>2, Zenon DEF AllFirstIs
  <2>2. u \in Seq(Byte) /\ v \in Seq(Byte) /\ Len(u) \in Nat /\ Len(u) >= 1
    <3>1. u \in Seq(Byte) /\ Len(u) \in Nat /\ Len(u) >= 1
      BY CommandLength
    <3>2. v \in Seq(Byte)
      BY SentType, AllGrows
    <3> HIDE DEF u, v
    <3> QED
      BY <3>1, <3>2, Zenon
  <2>3. all \in Seq(Commands)
    BY Prefixed
  <2>4. SUFFICES ASSUME IsLast(all)
                 PROVE  CommandsBack(s, j, all)
    BY <2>3
  <2>5. CommandsBack(s, j, rest) /\ (command.code = CcWriteToDisplay => rest = <<>>)
    <3>1. IsLast(rest) /\ (command.code = CcWriteToDisplay => rest = <<>>)
      BY <2>4, LastBehind
    <3> QED
      BY <1>4, <3>1
  <2>6. ASSUME NEW k \in j..b, Ends(s, k, u \o v)
        PROVE  g[k] = {[end |-> b, commands |-> all]}
    <3> DEFINE end == k + Len(u)
               other == [end |-> b, commands |-> rest]
    <3>1. k \in 1..b /\ k \in Nat
      BY <1>1
    <3>2. Lies(s, k, u) /\ Ends(s, end, v) /\ end \in 1..b
      <4> HIDE DEF u, v
      <4> QED
        BY <2>2, <2>6, <3>1, EndsConcat
    <3>3. end \in Nat /\ end \in j..b /\ k # b
      <4> HIDE DEF u, v
      <4> QED
        BY <1>1, <2>2, <3>1, <3>2
    <3>4. g[end] = {other}
      <4> HIDE DEF end, v
      <4> QED
        BY <2>5, <3>2, <3>3, Zenon DEF CommandsBack, v
    <3>5. command.code = CcWriteToDisplay => end = b
      <4>1. SUFFICES ASSUME rest = <<>>
                     PROVE  end = b
        BY <2>5
      <4>2. v = <<>> /\ Len(<<>>) = 0
        BY <4>1, SentType, AllGrows, EmptySeq
      <4>3. end + Len(v) = b
        BY <3>2 DEF Ends
      <4> HIDE DEF end, v
      <4> QED
        BY <3>3, <4>2, <4>3
    <3>6. IsReadCommand(s, k, command)
      BY <3>1, <3>2, <3>5, OneCommand
    <3>7. Behind(command, other) = [end |-> b, commands |-> all]
      <4>1. other \in Readings /\ other.end = b /\ other.commands = rest
        BY <1>1 DEF Readings
      <4> HIDE DEF other
      <4> QED
        BY <4>1, BehindIs
    <3>8. CommandsStep(s, j, g)[k] = {Behind(command, other)}
      <4>1. g[k + Len(MarshalCommand(command))] = {other} /\ k # EndOf(s)
        BY <3>3, <3>4
      <4> HIDE DEF g, other
      <4>2. IsCommandStep(s, j, g, k, command, other)
        BY <3>6, <4>1, OneCommandStep
      <4> QED
        BY <4>2 DEF IsCommandStep
    <3> QED
      BY <1>2, <3>7, <3>8, Zenon
  <2> HIDE DEF u, v, g, all
  <2> QED
    BY <2>1, <2>6, Zenon DEF CommandsBack, g
<1>5. Seq(Commands) \subseteq T
  <2> HIDE DEF T
  <2> QED BY <1>3, <1>4, PrependInduction
<1> QED
  BY <1>5

-----------------------------------------------------------------------------
(* Messages. *)

Size(m) == 6 + m.variableLength + Len(All(Sent, m.commands))

MessageOf(header, varLen, variable, commands) ==
  [header |-> header, variableLength |-> varLen, variable |-> variable, commands |-> commands]

\* A record with the bytes of a message behind its length field.
Carries(s, header, varLen, variable, commands) ==
  /\ Lies(s, 3, header) /\ s[7] = varLen /\ Lies(s, 8, variable)
  /\ Ends(s, 7 + varLen, All(Sent, commands))

HasVariable(s) == Len(s) > 6 /\ s[7] >= 4 /\ Len(s) >= 6 + s[7]

ReadingOf(before, s, all) ==
  [read |-> IF all.end = EndOf(s) THEN Len(s) ELSE 0,
   message |-> MessageOf(HeaderOf(s), s[7], SubSeq(s, 8, 10), before.commands \o all.commands)]

LEMMA AddsCommands ==
  ASSUME NEW a, NEW b, NEW c, NEW d, NEW x
  PROVE  [MessageOf(a, b, c, d) EXCEPT !.commands = @ \o x] = MessageOf(a, b, c, d \o x)
<1> DEFINE y == d \o x
<1>1. MessageOf(a, b, c, d).commands = d
  BY DEF MessageOf
<1> HIDE DEF y
<1>2. [MessageOf(a, b, c, d) EXCEPT !.commands = y] = MessageOf(a, b, c, y)
  BY DEF MessageOf
<1> QED
  BY <1>1, <1>2, Zenon DEF y

LEMMA MessageWhole ==
  ASSUME NEW m \in MessageShape
  PROVE  m = MessageOf(m.header, m.variableLength, m.variable, m.commands)
BY DEF MessageShape, MessageOf

LEMMA ReadsVariable ==
  ASSUME NEW s \in Seq(Byte), HasVariable(s), NEW before \in MessageShape
  PROVE  Unmarshal(before, s) = ReadingOf(before, s, UnmarshalCommands(s, 7 + s[7]))
<1> DEFINE n   == s[7]
           all == UnmarshalCommands(s, 7 + n)
           h   == HeaderOf(s)
           v   == SubSeq(s, 8, 10)
           c   == all.commands
<1>1. Len(s) \in Nat /\ 7 \in 1..Len(s)
  BY LenProperties DEF HasVariable
<1>2. n \in Nat
  <2>1. n \in Byte
    BY <1>1, ElementOfSeq
  <2> HIDE DEF n
  <2> QED
    BY <2>1 DEF Byte
<1>3. ~(Len(s) < 6) /\ ~(Len(s) = 6) /\ ~(Len(s) > 6 /\ (n < 4 \/ Len(s) < 6 + n))
  <2>1. Len(s) > 6 /\ n >= 4 /\ Len(s) >= 6 + n
    BY DEF HasVariable
  <2> HIDE DEF n
  <2>2. \A x, y \in Nat : x > 6 /\ y >= 4 /\ x >= 6 + y =>
          ~(x < 6) /\ ~(x = 6) /\ ~(x > 6 /\ (y < 4 \/ x < 6 + y))
    OBVIOUS
  <2> QED
    BY <1>1, <1>2, <2>1, <2>2, Zenon
<1> HIDE DEF all, h, v, c
<1>4. [[[[before EXCEPT !.header = h] EXCEPT !.variableLength = n]
          EXCEPT !.variable = v] EXCEPT !.commands = @ \o c]
        = MessageOf(h, n, v, before.commands \o c)
  <2> HIDE DEF n
  <2> DEFINE b1 == before.header
             b2 == before.variableLength
             b3 == before.variable
             b4 == before.commands
             w1 == [before EXCEPT !.header = h]
             w2 == [w1 EXCEPT !.variableLength = n]
             w3 == [w2 EXCEPT !.variable = v]
             w4 == [w3 EXCEPT !.commands = @ \o c]
  <2>1. before = MessageOf(b1, b2, b3, b4)
    BY MessageWhole
  <2> HIDE DEF b1, b2, b3, b4
  <2>2. w1 = MessageOf(h, b2, b3, b4)
    BY <2>1 DEF MessageOf
  <2> HIDE DEF w1
  <2>3. w2 = MessageOf(h, n, b3, b4)
    BY <2>2 DEF MessageOf
  <2> HIDE DEF w2
  <2>4. w3 = MessageOf(h, n, v, b4)
    BY <2>3 DEF MessageOf
  <2> HIDE DEF w3
  <2>5. w4 = MessageOf(h, n, v, b4 \o c)
    BY <2>4, AddsCommands
  <2> QED
    BY <2>5, Zenon DEF w1, w2, w3, w4, b4
<1> QED
  BY <1>3, <1>4 DEF Unmarshal, ReadingOf, all, h, v, c

LEMMA ReadsNothing ==
  ASSUME NEW s \in Seq(Byte), NEW before
  PROVE  Unmarshal(before, s).read # 0 => HasVariable(s)
<1> DEFINE n    == s[7]
           read == Unmarshal(before, s).read
<1>1. Len(s) \in Nat
  BY LenProperties
<1>2. Len(s) < 6 => read = 0
  BY DEF Unmarshal
<1>3. Len(s) = 6 => read = 0
  BY DEF Unmarshal
<1>4. ~(Len(s) < 6) /\ ~(Len(s) = 6) /\ Len(s) > 6 /\ (n < 4 \/ Len(s) < 6 + n) => read = 0
  BY DEF Unmarshal
<1> HIDE DEF read
<1>5. Len(s) > 6 => n \in Byte
  <2> SUFFICES ASSUME Len(s) > 6 PROVE n \in Byte
    OBVIOUS
  <2>1. 7 \in 1..Len(s)
    BY <1>1
  <2> QED
    BY <2>1, ElementOfSeq
<1> HIDE DEF n
<1>6. ~(Len(s) < 6) /\ ~(Len(s) = 6) => Len(s) > 6
  <2>1. \A x \in Nat : ~(x < 6) /\ ~(x = 6) => x > 6
    OBVIOUS
  <2> QED
    BY <1>1, <2>1, Zenon
<1>7. n \in Byte /\ ~(n < 4 \/ Len(s) < 6 + n) => n >= 4 /\ Len(s) >= 6 + n
  BY <1>1 DEF Byte
<1> QED
  BY <1>2, <1>3, <1>4, <1>5, <1>6, <1>7, Zenon DEF HasVariable, read, n

LEMMA CarriedIsRead ==
  ASSUME NEW s \in Seq(Byte), NEW header \in Seq(Byte), Len(header) = 4,
         NEW varLen \in Byte, varLen >= 4, NEW variable \in Seq(Byte), Len(variable) = 3,
         NEW commands \in Seq(Commands), IsLast(commands),
         Carries(s, header, varLen, variable, commands), NEW before \in MessageShape
  PROVE  Unmarshal(before, s) =
           [read |-> Len(s),
            message |-> MessageOf(header, varLen, variable, before.commands \o commands)]
<1> DEFINE n   == Len(s)
           j   == 7 + varLen
           t   == All(Sent, commands)
           all == [end |-> EndOf(s), commands |-> commands]
<1>1. n \in Nat /\ EndOf(s) = n + 1 /\ EndOf(s) \in Nat /\ varLen \in Nat
  BY Payload DEF Byte
<1>2. Lies(s, 3, header) /\ s[7] = varLen /\ Lies(s, 8, variable) /\ Ends(s, j, t)
  BY Zenon DEF Carries
<1>3. t \in Seq(Byte) /\ Len(t) \in Nat /\ j + Len(t) = EndOf(s)
  <2>1. t \in Seq(Byte)
    BY SentType, AllGrows
  <2> HIDE DEF t
  <2> QED
    BY <1>2, <2>1, LenProperties DEF Ends
<1>4. j \in 1..EndOf(s) /\ j \in j..EndOf(s) /\ n >= 10
  <2> HIDE DEF t
  <2> QED
    BY <1>1, <1>3
<1>5. HasVariable(s)
  <2> HIDE DEF t, n
  <2>1. n > 6 /\ n >= 6 + varLen
    BY <1>1, <1>3
  <2> QED
    BY <1>2, <2>1, Zenon DEF HasVariable, n
<1>6. HeaderOf(s) = header
  <2>1. Sits(s, 3, 6, header)
    <3>1. 3 \in 1..EndOf(s) /\ 6 \in Nat /\ 6 = 3 + Len(header) - 1
      BY <1>1, <1>4
    <3> QED
      BY <1>2, <3>1, LiesWhole
  <2> QED
    BY <2>1 DEF HeaderOf, Sits
<1>7. SubSeq(s, 8, 10) = variable
  <2>1. Sits(s, 8, 10, variable)
    <3>1. 8 \in 1..EndOf(s) /\ 10 \in Nat /\ 10 = 8 + Len(variable) - 1
      BY <1>1, <1>4
    <3> QED
      BY <1>2, <3>1, LiesWhole
  <2> QED
    BY <2>1 DEF Sits
<1>8. UnmarshalCommands(s, j) = all
  <2>1. CommandsBack(s, j, commands)
    BY <1>4, CommandsRead
  <2>2. CommandsFrom(s, j)[j] = {all}
    BY <1>2, <1>4, <2>1, Zenon DEF CommandsBack
  <2> HIDE DEF all
  <2>3. (CHOOSE x \in {all} : TRUE) = all
    OBVIOUS
  <2> QED
    BY <2>2, <2>3, CommandsAreFrom, Zenon
<1>9. Unmarshal(before, s) = ReadingOf(before, s, all)
  <2> HIDE DEF all
  <2> QED
    BY <1>2, <1>5, <1>8, ReadsVariable, Zenon
<1>10. all.end = EndOf(s) /\ all.commands = commands
  OBVIOUS
<1> HIDE DEF all
<1>11. ReadingOf(before, s, all) =
         [read |-> n, message |-> MessageOf(header, varLen, variable, before.commands \o commands)]
  BY <1>2, <1>6, <1>7, <1>10, Zenon DEF ReadingOf
<1> QED
  BY <1>9, <1>11, Zenon

Zeros(n) == [i \in 1..n |-> 0]

\* The bytes of a record before its commands, and all of them.
HeadBytes(l, header, varLen, variable) ==
  (((l \o header) \o <<varLen>>) \o variable) \o Zeros(varLen - 4)

RecordBytes(l, header, varLen, variable, t) == HeadBytes(l, header, varLen, variable) \o t

LEMMA ZerosAre ==
  ASSUME NEW n \in Nat
  PROVE  Zeros(n) \in Seq(Byte) /\ Len(Zeros(n)) = n
<1>1. Zeros(n) \in [1..n -> Byte]
  BY DEF Zeros, Byte
<1> HIDE DEF Zeros
<1> QED
  BY <1>1

\* Where the parts of a record lie.
LiesInParts(s, l, header, varLen, variable, t) ==
  /\ s \in Seq(Byte) /\ Len(s) = 6 + varLen + Len(t)
  /\ Lies(s, 1, l) /\ Lies(s, 3, header) /\ s[7] = varLen /\ Lies(s, 8, variable)
  /\ Ends(s, 7 + varLen, t)

LEMMA RecordParts ==
  ASSUME NEW l \in Seq(Byte), Len(l) = 2, NEW header \in Seq(Byte), Len(header) = 4,
         NEW varLen \in Byte, varLen >= 4, NEW variable \in Seq(Byte), Len(variable) = 3,
         NEW t \in Seq(Byte)
  PROVE  LiesInParts(RecordBytes(l, header, varLen, variable, t), l, header, varLen, variable, t)
<1> DEFINE w  == <<varLen>>
           z  == Zeros(varLen - 4)
           u1 == l \o header
           u2 == u1 \o w
           u3 == u2 \o variable
           u4 == u3 \o z
           s  == u4 \o t
<1>1. varLen \in Nat /\ Len(t) \in Nat
  BY LenProperties DEF Byte
<1>2. w \in Seq(Byte) /\ Len(w) = 1 /\ w[1] = varLen
  OBVIOUS
<1>3. z \in Seq(Byte) /\ Len(z) = varLen - 4
  <2>1. varLen - 4 \in Nat /\ 0 \in Byte
    BY <1>1 DEF Byte
  <2> QED
    BY <2>1, ZerosAre
<1> HIDE DEF w, z
<1>4. u1 \in Seq(Byte) /\ Len(u1) = 6
  <2>1. u1 \in Seq(Byte) /\ Len(u1) = Len(l) + Len(header)
    BY ConcatProperties
  <2> QED
    BY <2>1
<1> HIDE DEF u1
<1>5. u2 \in Seq(Byte) /\ Len(u2) = 7
  <2>1. u2 \in Seq(Byte) /\ Len(u2) = Len(u1) + Len(w)
    BY <1>2, <1>4, ConcatProperties
  <2> QED
    BY <1>2, <1>4, <2>1
<1> HIDE DEF u2
<1>6. u3 \in Seq(Byte) /\ Len(u3) = 10
  <2>1. u3 \in Seq(Byte) /\ Len(u3) = Len(u2) + Len(variable)
    BY <1>5, ConcatProperties
  <2> QED
    BY <1>5, <2>1
<1> HIDE DEF u3
<1>7. u4 \in Seq(Byte) /\ Len(u4) = 6 + varLen
  <2>1. u4 \in Seq(Byte) /\ Len(u4) = Len(u3) + Len(z)
    BY <1>3, <1>6, ConcatProperties
  <2> QED
    BY <1>1, <1>3, <1>6, <2>1
<1> HIDE DEF u4
<1>8. s = RecordBytes(l, header, varLen, variable, t)
  BY Zenon DEF RecordBytes, HeadBytes, u1, u2, u3, u4, w, z
<1>9. s \in Seq(Byte) /\ Len(s) = 6 + varLen + Len(t)
  <2>1. s \in Seq(Byte) /\ Len(s) = Len(u4) + Len(t)
    BY <1>7, ConcatProperties
  <2> QED
    BY <1>7, <2>1
<1> HIDE DEF s
<1>10. 1 \in 1..EndOf(s) /\ Len(s) \in Nat /\ EndOf(s) = Len(s) + 1
  <2>1. Len(s) \in Nat /\ EndOf(s) \in Nat /\ EndOf(s) = Len(s) + 1
    BY <1>9, Payload
  <2>2. \A n \in Nat : 1 \in 1..(n + 1)
    OBVIOUS
  <2> QED
    BY <2>1, <2>2, Zenon
<1>11. Lies(s, 1, s)
  BY <1>10 DEF Lies
<1>12. Lies(s, 1, u4) /\ Lies(s, 1 + Len(u4), t)
  BY <1>7, <1>9, <1>10, <1>11, LiesConcat DEF s
<1>13. Lies(s, 1, u3)
  BY <1>3, <1>6, <1>9, <1>10, <1>12, LiesConcat DEF u4
<1>14. Lies(s, 1, u2) /\ Lies(s, 1 + Len(u2), variable)
  BY <1>5, <1>9, <1>10, <1>13, LiesConcat DEF u3
<1>15. Lies(s, 1, u1) /\ Lies(s, 1 + Len(u1), w)
  BY <1>2, <1>4, <1>9, <1>10, <1>14, LiesConcat DEF u2
<1>16. Lies(s, 1, l) /\ Lies(s, 1 + Len(l), header)
  BY <1>9, <1>10, <1>15, LiesConcat DEF u1
<1>17. s[7] = varLen
  <2>1. 1 \in 1..Len(w) /\ 1 + Len(u1) + 1 - 1 = 7
    BY <1>2, <1>4
  <2> QED
    BY <1>2, <1>15, <2>1, Zenon DEF Lies
<1>18. 1 + Len(u4) = 7 + varLen /\ 1 + Len(u2) = 8 /\ 1 + Len(l) = 3
  BY <1>1, <1>5, <1>7
<1>19. Ends(s, 7 + varLen, t)
  <2>1. 7 + varLen + Len(t) = EndOf(s)
    BY <1>1, <1>9, <1>10
  <2> QED
    BY <1>12, <1>18, <2>1, Zenon DEF Ends
<1> QED
  BY <1>8, <1>9, <1>12, <1>14, <1>16, <1>17, <1>18, <1>19, Zenon DEF LiesInParts

\* The payload of a message, as Marshal writes it.
LEMMA PayloadIsAll ==
  ASSUME NEW commands \in Seq(Commands)
  PROVE  FlattenSeq([n \in DOMAIN commands |-> MarshalCommand(commands[n])]) = All(Sent, commands)
<1>1. DOMAIN commands = 1..Len(commands)
  BY LenProperties
<1>2. \A n \in DOMAIN commands : Sent[commands[n]] = MarshalCommand(commands[n])
  BY <1>1, ElementOfSeq DEF Sent
<1>3. [n \in DOMAIN commands |-> MarshalCommand(commands[n])] = Mapped(Sent, commands)
  BY <1>2 DEF Mapped
<1> QED
  BY <1>3, Zenon DEF All

MarshalledIn(m, t) == RecordBytes(BigEndian16(Size(m)), m.header, m.variableLength, m.variable, t)

LEMMA MarshalBytes ==
  ASSUME NEW m \in ReadableMessages, Size(m) <= GdsMaxRecordLen
  PROVE  Marshal(m) = MarshalledIn(m, All(Sent, m.commands))
<1> DEFINE commands == m.commands
           varLen   == m.variableLength
           t        == All(Sent, commands)
<1>1. commands \in Seq(Commands) /\ varLen \in Nat /\ varLen >= 4
  <2>1. commands \in Seq(Commands) /\ varLen \in Byte /\ varLen >= 4
    BY DEF ReadableMessages, MessageShape
  <2> HIDE DEF varLen
  <2> QED
    BY <2>1 DEF Byte
<1>2. FlattenSeq([n \in DOMAIN commands |-> MarshalCommand(commands[n])]) = t
  <2> HIDE DEF commands
  <2> QED
    BY <1>1, PayloadIsAll
<1>3. t \in Seq(Byte) /\ Len(t) \in Nat
  <2> HIDE DEF commands
  <2>1. t \in Seq(Byte)
    BY <1>1, SentType, AllGrows
  <2> HIDE DEF t
  <2> QED
    BY <2>1, LenProperties
<1> HIDE DEF t
<1>5. ~(varLen < 4) /\ (IF varLen < 4 THEN 4 ELSE varLen) = varLen
  <2> HIDE DEF varLen
  <2> QED
    BY <1>1
<1>6. Size(m) = 6 + varLen + Len(t)
  BY Zenon DEF Size, t
<1>7. Size(m) \in Nat /\ ~(Size(m) > GdsMaxRecordLen)
  <2> DEFINE size == Size(m)
  <2> HIDE DEF varLen
  <2>1. size \in Nat
    BY <1>1, <1>3, <1>6
  <2> HIDE DEF size
  <2>2. \A x \in Nat, y \in Nat : x <= y => ~(x > y)
    OBVIOUS
  <2>3. GdsMaxRecordLen \in Nat
    BY DEF GdsMaxRecordLen
  <2>4. size <= GdsMaxRecordLen
    BY DEF size
  <2> QED
    BY <2>1, <2>2, <2>3, <2>4, Zenon DEF size
<1>8. Marshal(m) =
        BigEndian16(Size(m)) \o m.header \o <<varLen>> \o m.variable \o [n \in 1..(varLen - 4) |-> 0] \o t
  BY <1>2, <1>5, <1>6, <1>7, Zenon DEF Marshal, commands, varLen
<1> QED
  BY <1>8, Zenon DEF MarshalledIn, RecordBytes, HeadBytes, Zeros, t, commands, varLen

\* A record that is carried under its own length.
IsMarshalled(s, m) ==
  /\ s \in Seq(Byte) /\ Len(s) = Size(m) /\ Lies(s, 1, BigEndian16(Size(m)))
  /\ Carries(s, m.header, m.variableLength, m.variable, m.commands)

LEMMA MarshalCarries ==
  ASSUME NEW m \in ReadableMessages, Size(m) <= GdsMaxRecordLen
  PROVE  IsMarshalled(Marshal(m), m)
<1> DEFINE header   == m.header
           varLen   == m.variableLength
           variable == m.variable
           commands == m.commands
           t        == All(Sent, commands)
           l        == BigEndian16(Size(m))
           s        == Marshal(m)
<1>1. /\ header \in Seq(Byte) /\ Len(header) = 4 /\ varLen \in Byte /\ varLen >= 4
      /\ variable \in Seq(Byte) /\ Len(variable) = 3 /\ commands \in Seq(Commands)
  BY DEF ReadableMessages, MessageShape
<1> HIDE DEF header, varLen, variable, commands
<1>2. t \in Seq(Byte) /\ Len(t) \in Nat /\ varLen \in Nat
  <2>1. t \in Seq(Byte)
    BY <1>1, SentType, AllGrows
  <2>2. varLen \in Nat
    BY <1>1 DEF Byte
  <2> HIDE DEF t
  <2> QED
    BY <2>1, <2>2, LenProperties
<1>3. Size(m) = 6 + varLen + Len(t)
  BY Zenon DEF Size, t, commands, varLen
<1>4. l \in Seq(Byte) /\ Len(l) = 2
  <2>1. Size(m) \in Nat
    <3> HIDE DEF t
    <3> QED
      BY <1>2, <1>3
  <2> QED
    BY <2>1, TwoBytes
<1>5. s = RecordBytes(l, header, varLen, variable, t)
  BY MarshalBytes, Zenon DEF MarshalledIn, l, header, varLen, variable, t, commands
<1> HIDE DEF l, t
<1>6. LiesInParts(s, l, header, varLen, variable, t)
  BY <1>1, <1>2, <1>4, <1>5, RecordParts
<1> QED
  BY <1>3, <1>6, Zenon DEF LiesInParts, IsMarshalled, Carries, l, t, header, varLen, variable, commands

LEMMA SizeIsNat ==
  ASSUME NEW m \in ReadableMessages
  PROVE  Size(m) \in Nat /\ Size(m) >= 10
<1> DEFINE varLen   == m.variableLength
           commands == m.commands
           t        == All(Sent, commands)
<1>1. varLen \in Byte /\ varLen >= 4 /\ commands \in Seq(Commands)
  BY DEF ReadableMessages, MessageShape
<1> HIDE DEF varLen, commands
<1>2. t \in Seq(Byte) /\ varLen \in Nat
  <2>1. varLen \in Nat
    BY <1>1 DEF Byte
  <2> QED
    BY <1>1, <2>1, SentType, AllGrows
<1> HIDE DEF t
<1>3. Len(t) \in Nat
  BY <1>2, LenProperties
<1>4. 6 + varLen + Len(t) \in Nat /\ 6 + varLen + Len(t) >= 10
  BY <1>1, <1>2, <1>3
<1> QED
  BY <1>4, Zenon DEF Size, t, varLen, commands

\* What was written is read again, whatever was read before.
LEMMA MarshalReads ==
  ASSUME NEW m \in ReadableMessages, NEW s, Carries(s, m.header, m.variableLength, m.variable, m.commands),
         s \in Seq(Byte), NEW before \in MessageShape
  PROVE  Unmarshal(before, s) =
           [read |-> Len(s),
            message |-> MessageOf(m.header, m.variableLength, m.variable,
                                  before.commands \o m.commands)]
<1> DEFINE header   == m.header
           varLen   == m.variableLength
           variable == m.variable
           commands == m.commands
<1>1. /\ header \in Seq(Byte) /\ Len(header) = 4 /\ varLen \in Byte /\ varLen >= 4
      /\ variable \in Seq(Byte) /\ Len(variable) = 3 /\ commands \in Seq(Commands)
      /\ IsLast(commands)
  BY DEF ReadableMessages, MessageShape
<1>2. Carries(s, header, varLen, variable, commands)
  OBVIOUS
<1> HIDE DEF header, varLen, variable, commands
<1>3. Unmarshal(before, s) =
        [read |-> Len(s), message |-> MessageOf(header, varLen, variable, before.commands \o commands)]
  BY <1>1, <1>2, CarriedIsRead
<1> QED
  BY <1>3, Zenon DEF header, varLen, variable, commands

LEMMA NewIsEmpty ==
  /\ NewMessage \in MessageShape /\ NewMessage.commands = <<>>
  /\ \A commands \in Seq(Commands) : NewMessage.commands \o commands = commands
<1>1. NewMessage.header \in Seq(Byte) /\ NewMessage.variable \in Seq(Byte) /\ NewMessage.commands = <<>>
  BY DEF NewMessage, Byte
<1>2. NewMessage \in MessageShape
  BY <1>1, EmptySeq DEF NewMessage, MessageShape, Byte
<1>3. ASSUME NEW commands \in Seq(Commands)
      PROVE  <<>> \o commands = commands
  BY <1>3, ConcatEmptySeq
<1> QED
  BY <1>1, <1>2, <1>3, Zenon

\* What a new message object reads is a message, and writing that takes no
\* more bytes than it was read from.
LEMMA ReadIsAMessage ==
  ASSUME NEW s \in Seq(Byte), Unmarshal(NewMessage, s).read # 0
  PROVE  LET m == Unmarshal(NewMessage, s).message IN m \in ReadableMessages /\ Size(m) <= Len(s)
<1> DEFINE reading == Unmarshal(NewMessage, s)
           n       == s[7]
           j       == 7 + n
           all     == UnmarshalCommands(s, j)
           m       == MessageOf(HeaderOf(s), n, SubSeq(s, 8, 10), all.commands)
<1>1. HasVariable(s)
  BY ReadsNothing
<1>2. Len(s) \in Nat /\ EndOf(s) = Len(s) + 1 /\ n \in Byte /\ n \in Nat /\ n >= 4 /\ Len(s) >= 6 + n
  <2>1. Len(s) \in Nat /\ EndOf(s) = Len(s) + 1 /\ 7 \in 1..Len(s)
    BY <1>1, Payload DEF HasVariable
  <2>2. n \in Byte
    BY <2>1, ElementOfSeq
  <2>3. n >= 4 /\ Len(s) >= 6 + n
    BY <1>1 DEF HasVariable
  <2> HIDE DEF n
  <2>4. n \in Nat
    BY <2>2 DEF Byte
  <2> QED
    BY <2>1, <2>2, <2>3, <2>4
<1>3. reading = ReadingOf(NewMessage, s, all)
  BY <1>1, NewIsEmpty, ReadsVariable, Zenon
<1> HIDE DEF n
<1>4. j \in 1..EndOf(s) /\ j \in j..EndOf(s) /\ Len(s) >= 10
  BY <1>2
<1>5. WellRead(s, j, all)
  <2>1. CommandsFrom(s, j)[j] # {} /\ \A x \in CommandsFrom(s, j)[j] : WellRead(s, j, x)
    BY <1>4, CommandsShort
  <2>2. all \in CommandsFrom(s, j)[j]
    BY <2>1, CommandsAreFrom
  <2> QED
    BY <2>1, <2>2
<1> HIDE DEF all, reading
<1>6. all.commands \in Seq(Commands) /\ IsLast(all.commands)
  BY <1>5 DEF WellRead, Readings
<1>7. reading.message = m
  <2>1. NewMessage.commands \o all.commands = all.commands
    BY <1>6, NewIsEmpty
  <2> QED
    BY <1>3, <2>1, Zenon DEF ReadingOf, n
<1>8. /\ HeaderOf(s) \in Seq(Byte) /\ Len(HeaderOf(s)) = 4
      /\ SubSeq(s, 8, 10) \in Seq(Byte) /\ Len(SubSeq(s, 8, 10)) = 3
  <2>1. 3 \in 1..EndOf(s) /\ 8 \in 1..EndOf(s) /\ 6 <= Len(s) /\ 10 <= Len(s)
    BY <1>2, <1>4
  <2> QED
    BY <2>1, Sliced DEF HeaderOf
<1>9. m \in ReadableMessages /\ Size(m) = 6 + n + Len(All(Sent, all.commands))
  <2> DEFINE h == HeaderOf(s)
             v == SubSeq(s, 8, 10)
             c == all.commands
  <2> HIDE DEF h, v, c
  <2>1. MessageOf(h, n, v, c) \in ReadableMessages
    BY <1>2, <1>6, <1>8 DEF h, v, c, MessageOf, ReadableMessages, MessageShape
  <2>2. Size(MessageOf(h, n, v, c)) = 6 + n + Len(All(Sent, c))
    <3>1. MessageOf(h, n, v, c).variableLength = n /\ MessageOf(h, n, v, c).commands = c
      BY DEF MessageOf
    <3> QED
      BY <3>1, Zenon DEF Size
  <2> QED
    BY <2>1, <2>2 DEF h, v, c
<1>10. 6 + n + Len(All(Sent, all.commands)) <= Len(s)
  <2> DEFINE x == Len(All(Sent, all.commands))
  <2>1. x <= EndOf(s) - j
    BY <1>5 DEF WellRead
  <2>2. x \in Nat
    <3>1. All(Sent, all.commands) \in Seq(Byte)
      BY <1>6, SentType, AllGrows
    <3> QED
      BY <3>1, LenProperties
  <2> HIDE DEF x
  <2>3. 6 + n + x <= Len(s)
    BY <1>2, <2>1, <2>2
  <2> QED
    BY <2>3 DEF x
<1> QED
  BY <1>7, <1>9, <1>10, Zenon DEF reading

\* Any message that is readable and not too long for its length field is read
\* as it was written, by an object that is new, and read to its end
\* (message.cpp:32-90, command.cpp, order.cpp:144-162).
THEOREM MessagesComeBack ==
  \A m \in ReadableMessages :
    Size(m) <= GdsMaxRecordLen =>
      Unmarshal(NewMessage, Marshal(m)) = [read |-> Len(Marshal(m)), message |-> m]
<1> SUFFICES ASSUME NEW m \in ReadableMessages, Size(m) <= GdsMaxRecordLen
             PROVE  Unmarshal(NewMessage, Marshal(m)) = [read |-> Len(Marshal(m)), message |-> m]
  OBVIOUS
<1> DEFINE s == Marshal(m)
<1>1. s \in Seq(Byte) /\ Carries(s, m.header, m.variableLength, m.variable, m.commands)
  BY MarshalCarries DEF IsMarshalled
<1>2. m \in MessageShape /\ m.commands \in Seq(Commands)
  BY DEF ReadableMessages, MessageShape
<1> HIDE DEF s
<1>3. Unmarshal(NewMessage, s) =
        [read |-> Len(s), message |-> MessageOf(m.header, m.variableLength, m.variable,
                                                NewMessage.commands \o m.commands)]
  BY <1>1, NewIsEmpty, MarshalReads
<1>4. NewMessage.commands \o m.commands = m.commands
  BY <1>2, NewIsEmpty
<1>5. m = MessageOf(m.header, m.variableLength, m.variable, m.commands)
  BY <1>2, MessageWhole
<1> QED
  BY <1>3, <1>4, <1>5, Zenon DEF s

\* What a record that could be read says of reading it again.
IsStable(rec) ==
  LET first  == Unmarshal(NewMessage, rec)
      second == Unmarshal(NewMessage, Marshal(first.message))
  IN  first.read # 0 =>
        /\ second.read = Len(Marshal(first.message))
        /\ Marshal(second.message) = Marshal(first.message)

LEMMA RecordIsStable ==
  ASSUME NEW rec \in Seq(Byte), Len(rec) <= GdsMaxRecordLen
  PROVE  IsStable(rec)
<1> DEFINE first == Unmarshal(NewMessage, rec)
           m     == first.message
<1>1. SUFFICES ASSUME first.read # 0
               PROVE  /\ Unmarshal(NewMessage, Marshal(m)).read = Len(Marshal(m))
                      /\ Marshal(Unmarshal(NewMessage, Marshal(m)).message) = Marshal(m)
  BY Zenon DEF IsStable
<1>2. m \in ReadableMessages /\ Size(m) <= Len(rec)
  BY <1>1, ReadIsAMessage
<1> HIDE DEF first
<1>3. Size(m) <= GdsMaxRecordLen
  <2> DEFINE size == Size(m)
  <2>1. size \in Nat
    BY <1>2, SizeIsNat
  <2>2. Len(rec) \in Nat /\ GdsMaxRecordLen \in Nat /\ size <= Len(rec)
    BY <1>2, LenProperties DEF GdsMaxRecordLen
  <2> HIDE DEF size, m
  <2>3. \A x, y, z \in Nat : x <= y /\ y <= z => x <= z
    OBVIOUS
  <2>4. size <= GdsMaxRecordLen
    BY <2>1, <2>2, <2>3, Zenon
  <2> QED
    BY <2>4 DEF size
<1> HIDE DEF m
<1>4. Unmarshal(NewMessage, Marshal(m)) = [read |-> Len(Marshal(m)), message |-> m]
  BY <1>2, <1>3, MessagesComeBack
<1> QED
  BY <1>4

-----------------------------------------------------------------------------
(* The records dispatched fit their length field. *)

Fits(rec) == Len(rec) <= GdsMaxRecordLen

SizeInv ==
  /\ InWalk => Fits(record)
  /\ \A k \in DOMAIN reported : Fits(reported[k].record)

LEMMA NextFits ==
  ASSUME TypeInv, HasRecord
  PROVE  Fits(NextRecord)
<1> DEFINE n == RecordLength
<1>1. Len(NextRecord) = n /\ n \in GdsMinRecordLen..GdsMaxRecordLen
  BY TakenRecord DEF HasRecord
<1>2. \A x, y, z \in Int : x \in y..z => x <= z
  OBVIOUS
<1>3. GdsMinRecordLen \in Int /\ GdsMaxRecordLen \in Int
  BY DEF GdsMinRecordLen, GdsMaxRecordLen
<1> HIDE DEF n
<1>4. n \in Int
  BY <1>1, <1>3
<1>5. n <= GdsMaxRecordLen
  BY <1>1, <1>2, <1>3, <1>4, Zenon
<1> QED
  BY <1>1, <1>5, Zenon DEF Fits

LEMMA ReportFits ==
  ASSUME TypeInv, SizeInv, NEW entry, Fits(entry.record), reported' = Append(reported, entry)
  PROVE  \A k \in DOMAIN reported' : Fits(reported'[k].record)
<1>1. PICK S : reported \in Seq(S)
  BY DEF TypeInv, IsSequence
<1>2. reported \in Seq(S \cup {entry}) /\ entry \in S \cup {entry}
  BY <1>1
<1>3. /\ DOMAIN reported' = 1..(Len(reported) + 1)
      /\ \A n \in 1..Len(reported) : reported'[n] = reported[n]
      /\ reported'[Len(reported) + 1] = entry
      /\ DOMAIN reported = 1..Len(reported) /\ Len(reported) \in Nat
  BY <1>2, AppendProperties, LenProperties
<1>4. \A k \in DOMAIN reported' : k \in DOMAIN reported \/ k = Len(reported) + 1
  BY <1>3
<1> QED
  BY <1>3, <1>4 DEF SizeInv

LEMMA DispatchFits ==
  ASSUME TypeInv, SizeInv, RejectRecord \/ PassThrough \/ Signal \/ IgnoreRecord
  PROVE  SizeInv'
<1>1. PICK callbacks : HasRecord /\ Dispatch(callbacks)
  BY DEF RejectRecord, PassThrough, Signal, IgnoreRecord, HasOpcodeIn
<1> DEFINE entry == [record |-> NextRecord, events |-> callbacks]
<1>2. reported' = Append(reported, entry) /\ mode' = "framing"
  BY <1>1 DEF Dispatch, TakeRecord
<1>3. Fits(entry.record)
  BY <1>1, NextFits
<1>4. \A k \in DOMAIN reported' : Fits(reported'[k].record)
  BY <1>2, <1>3, ReportFits
<1> QED
  BY <1>2, <1>4 DEF SizeInv, InWalk

LEMMA BeginWalkFits ==
  ASSUME TypeInv, SizeInv, BeginWalk
  PROVE  SizeInv'
<1>1. record' = NextRecord /\ reported' = reported /\ HasRecord
  BY DEF BeginWalk, HasOpcodeIn
<1>2. Fits(record')
  BY <1>1, NextFits
<1> QED
  BY <1>1, <1>2 DEF SizeInv

LEMMA WalkFits ==
  ASSUME TypeInv, SizeInv,
         \/ ClearScreen \/ ReadCommand \/ WriteErrorCode \/ Roll \/ WriteStructuredField
         \/ UnknownCommand \/ TopSoh \/ StrayByte \/ OpenWtd
         \/ CloseWtd \/ WtdSoh \/ SkipWdsf \/ Strpccmd \/ CopyOrder
  PROVE  SizeInv'
<1>1. record' = record /\ reported' = reported /\ InWalk
  <2>1. CASE CloseWtd
    BY <2>1 DEF CloseWtd, framing, walk, InWalk
  <2>2. CASE ~CloseWtd
    <3>1. PICK k, callbacks : Advance(k, callbacks)
      BY <2>2, CommandsAdvance, OpenAdvances, DisplayAdvances
    <3> QED
      BY <3>1 DEF Advance, GoOn, framing, InWalk
  <2> QED
    BY <2>1, <2>2
<1> QED
  BY <1>1 DEF SizeInv

LEMMA EndWalkFits ==
  ASSUME TypeInv, SizeInv, EndWalk
  PROVE  SizeInv'
<1> DEFINE entry == [record |-> record, events |-> Append(events, <<"RawScreenData", display>>)]
<1>1. reported' = Append(reported, entry) /\ mode' = "framing" /\ InWalk
  BY DEF EndWalk, InWalk
<1>2. Fits(entry.record)
  BY <1>1 DEF SizeInv
<1>3. \A k \in DOMAIN reported' : Fits(reported'[k].record)
  BY <1>1, <1>2, ReportFits
<1> QED
  BY <1>1, <1>3 DEF SizeInv, InWalk

LEMMA SizesHold == Spec => []SizeInv
<1>1. Init => SizeInv
  <2>1. DOMAIN <<>> = {}
    BY EmptySeq
  <2> QED
    BY <2>1 DEF Init, SizeInv, InWalk
<1>2. TypeInv /\ SizeInv /\ [Next]_vars => SizeInv'
  <2> SUFFICES ASSUME TypeInv, SizeInv, [Next]_vars
               PROVE  SizeInv'
    OBVIOUS
  <2>1. CASE Step
    <3>1. CASE SkipByte \/ Return
      BY <3>1 DEF SkipByte, Return, framing, walk, SizeInv, InWalk
    <3> QED
      BY <2>1, <3>1, DispatchFits, BeginWalkFits, WalkFits, EndWalkFits DEF Step
  <2>2. CASE Feed \/ Reset
    BY <2>2 DEF Feed, Reset, walk, SizeInv, InWalk
  <2>3. CASE UNCHANGED vars
    BY <2>3 DEF vars, SizeInv, InWalk
  <2> QED
    BY <2>1, <2>2, <2>3 DEF Next
<1> QED
  BY <1>1, <1>2, TypesHold, PTL DEF Spec

\* Of every record the decoder dispatches: if a message object can read it,
\* then what it writes is read as the same message, however odd the record
\* was (message.cpp:71-90, order.cpp:144-162, order_sf_start_field.cpp:86-94).
THEOREM ReadingIsStable == Spec => []RereadIsStable
<1>1. TypeInv /\ SizeInv => RereadIsStable
  <2> SUFFICES ASSUME TypeInv, SizeInv, NEW k \in DOMAIN reported
               PROVE  IsStable(reported[k].record)
    BY Zenon DEF RereadIsStable, IsStable, Dispatched
  <2>1. reported[k].record \in Seq(Byte) /\ Fits(reported[k].record)
    BY DEF TypeInv, SizeInv
  <2> QED
    BY <2>1, RecordIsStable DEF Fits
<1> QED
  BY <1>1, TypesHold, SizesHold, PTL
=============================================================================
