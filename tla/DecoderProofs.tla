--------------------------- MODULE DecoderProofs ---------------------------
(***************************************************************************)
(* The decoder for every stream, every way it is cut and any number of     *)
(* resets.                                                                 *)
(*                                                                         *)
(* A display record ends with exactly one screen update.  The invariant is *)
(* strengthened by what the walk has to keep until it ends: no callback of *)
(* the running walk is an update.  A walk always ends with one, and a      *)
(* record that is dispatched without a walk is not one of the display      *)
(* records.                                                                *)
(*                                                                         *)
(* Types are kept, every turn of a loop uses something up, and what a      *)
(* record gives depends on the record alone.                               *)
(*                                                                         *)
(* The records it dispatches are those of the whole stream.                *)
(* FramedAsAWhole speaks of the moments at which parseData is not running. *)
(* The invariant speaks of all of them, and of every way the stream may go *)
(* on: with any bytes behind it, the whole stream holds the records taken  *)
(* so far and then the records of the buffer with those bytes behind it.   *)
(*                                                                         *)
(* What it hands to the screen, read again as orders and text, has no byte *)
(* of a command, of a structured field or of a start of header where an    *)
(* order begins.  The decoder copies each order with its operands, as far  *)
(* as they are in the record; but the owner of the screen reads the orders *)
(* behind each other, and operands that were cut off would be taken from   *)
(* what follows.  The argument is that an order is cut off by the end of   *)
(* its record only, and then nothing is copied behind it: with no more     *)
(* bytes behind it than the record had, an order ends where the decoder    *)
(* ended it.                                                               *)
(*                                                                         *)
(* First comes how far each construct of a data stream reaches: forward,   *)
(* and not past the end of the payload.  The walks are recursive functions *)
(* over the positions: that each meets its equation, and where it ends, is *)
(* by the lemmas of Recursion.                                             *)
(***************************************************************************)
EXTENDS Decoder, Recursion, SequenceTheorems, TLAPS

-----------------------------------------------------------------------------
(* Payloads. *)

LEMMA Payload ==
  ASSUME NEW s \in Seq(Byte)
  PROVE  /\ Len(s) \in Nat /\ EndOf(s) \in Nat /\ EndOf(s) = Len(s) + 1
         /\ \A k \in 1..Len(s) : s[k] \in Nat /\ s[k] <= 255
<1>1. Len(s) \in Nat
  BY LenProperties
<1>2. \A k \in 1..Len(s) : s[k] \in Byte
  BY ElementOfSeq
<1>5. \A v \in Byte : v \in Nat /\ v <= 255
  BY DEF Byte
<1>3. \A k \in 1..Len(s) : s[k] \in Nat /\ s[k] <= 255
  BY <1>2, <1>5
<1>4. EndOf(s) \in Nat /\ EndOf(s) = Len(s) + 1
  BY <1>1 DEF EndOf
<1> QED
  BY <1>1, <1>3, <1>4

\* Slices of the same bytes are the same.
IsSameSlice(s, i, p, t, j, q) == SubSeq(s, i, p) = SubSeq(t, j, q)

LEMMA SameSlice ==
  ASSUME NEW s, NEW t, NEW i \in Int, NEW p \in Int, NEW j \in Int, NEW q \in Int,
         p - i = q - j, \A k \in 0..(p - i) : s[i + k] \in Byte /\ s[i + k] = t[j + k]
  PROVE  IsSameSlice(s, i, p, t, j, q)
<1> DEFINE u == SubSeq(s, i, p)
           v == SubSeq(t, j, q)
<1>1. \A n \in i..p : s[n] \in Byte
  <2>1. \A n \in i..p : n - i \in 0..(p - i) /\ i + (n - i) = n
    OBVIOUS
  <2> QED
    BY <2>1
<1>2. \A n \in j..q : t[n] \in Byte
  <2>1. \A n \in j..q : n - j \in 0..(p - i) /\ j + (n - j) = n
    OBVIOUS
  <2> QED
    BY <2>1
<1>3. /\ u \in Seq(Byte) /\ Len(u) = IF i <= p THEN p - i + 1 ELSE 0
      /\ \A n \in 1..(p - i + 1) : u[n] = s[i + n - 1]
  BY <1>1, SubSeqProperties
<1>4. /\ v \in Seq(Byte) /\ Len(v) = IF j <= q THEN q - j + 1 ELSE 0
      /\ \A n \in 1..(q - j + 1) : v[n] = t[j + n - 1]
  BY <1>2, SubSeqProperties
<1> HIDE DEF u, v
<1>5. Len(u) = Len(v)
  BY <1>3, <1>4
<1>6. ASSUME NEW n \in 1..Len(u)
      PROVE  u[n] = v[n]
  <2>1. n \in 1..(p - i + 1) /\ n \in 1..(q - j + 1)
    BY <1>3
  <2>2. n - 1 \in 0..(p - i) /\ i + (n - 1) = i + n - 1 /\ j + (n - 1) = j + n - 1
    BY <2>1
  <2>3. s[i + (n - 1)] = t[j + (n - 1)]
    BY <2>2
  <2>4. u[n] = s[i + n - 1] /\ v[n] = t[j + n - 1]
    BY <1>3, <1>4, <2>1
  <2> QED
    BY <2>2, <2>3, <2>4
<1>7. u = v
  BY <1>3, <1>4, <1>5, <1>6, SeqEqual
<1> QED
  BY <1>7 DEF u, v, IsSameSlice

\* A length in two bytes of a payload.
LEMMA LengthField ==
  ASSUME NEW s \in Seq(Byte), NEW k \in Nat, k + 2 <= Len(s)
  PROVE  Length16(s, k) \in Nat /\ Length16(s, k) = 256 * s[k + 1] + s[k + 2]
<1>1. /\ s[k + 1] \in Nat /\ s[k + 2] \in Nat
  BY Payload
<1>2. 256 * s[k + 1] + s[k + 2] \in Nat
  BY <1>1
<1> QED
  BY <1>2 DEF Length16

LEMMA UntilStops ==
  ASSUME NEW s \in Seq(Byte), NEW k \in 1..EndOf(s), NEW stop
  PROVE  /\ Until(s, k, stop) \in k..EndOf(s)
         /\ Until(s, k, stop) = EndOf(s) \/ s[Until(s, k, stop)] \in stop
         /\ \A m \in k..(Until(s, k, stop) - 1) : s[m] \notin stop
<1> DEFINE T == {n \in k..EndOf(s) : n = EndOf(s) \/ s[n] \in stop}
<1>1. T \subseteq Nat /\ EndOf(s) \in T
  BY Payload
<1>2. PICK n \in T : \A m \in T : n <= m
  BY <1>1, Least
<1>3. /\ n \in k..EndOf(s)
      /\ n = EndOf(s) \/ s[n] \in stop
      /\ \A m \in k..(n - 1) : s[m] \notin stop
  BY <1>2, Payload
<1> QED
  BY <1>3 DEF Until

\* The walk over control words meets its equation and goes forward.
LEMMA ControlWords ==
  ASSUME NEW s \in Seq(Byte), NEW k \in 1..EndOf(s)
  PROVE  /\ ControlWordsEnd(s, k) \in k..EndOf(s)
         /\ ControlWordsEnd(s, k) =
              IF Left(s, k) >= 2 /\ ~IsAttribute(s[k]) THEN ControlWordsEnd(s, k + 2) ELSE k
<1> DEFINE b == EndOf(s)
           body(g) == [n \in 1..b |-> IF Left(s, n) >= 2 /\ ~IsAttribute(s[n]) THEN g[n + 2] ELSE n]
           end == CHOOSE g : g = body(g)
           F == [g \in [1..b -> 1..b] |-> body(g)]
<1>1. \A n \in 1..b : ControlWordsEnd(s, n) = end[n]
  BY DEF ControlWordsEnd
<1>2. b \in Nat /\ 1..b # {}
  BY Payload
<1>3. ASSUME NEW g \in [1..b -> 1..b]
      PROVE  body(g) \in [1..b -> 1..b]
  <2>1. ASSUME NEW n \in 1..b
        PROVE  (IF Left(s, n) >= 2 /\ ~IsAttribute(s[n]) THEN g[n + 2] ELSE n) \in 1..b
    BY <1>2 DEF Left
  <2> QED
    BY <2>1
<1>4. LooksAhead(F, b, 1..b)
  <2>1. F \in [[1..b -> 1..b] -> [1..b -> 1..b]]
    BY <1>3
  <2>2. \A g, h \in [1..b -> 1..b], n \in 1..b :
          (\A m \in (n + 1)..b : g[m] = h[m]) => F[g][n] = F[h][n]
    BY <1>2 DEF Left
  <2> HIDE DEF F, b
  <2> QED
    BY <2>1, <2>2 DEF LooksAhead
<1>5. \E g \in [1..b -> 1..b] : F[g] = g
  <2> HIDE DEF F, b
  <2>1. HasFixpoint(F, b, 1..b)
    BY <1>2, <1>4, Fixpoint, Zenon
  <2> QED
    BY <2>1 DEF HasFixpoint
<1>6. \E g : g = body(g)
  BY <1>5
<1>7. end = body(end)
  BY <1>6
<1>8. \A n \in 1..b : end[n] = IF Left(s, n) >= 2 /\ ~IsAttribute(s[n]) THEN end[n + 2] ELSE n
  BY <1>7
<1> HIDE DEF end
<1> DEFINE S == {n \in 1..b : end[n] \in n..b}
<1>9. ASSUME NEW n \in 1..b, \A m \in (n + 1)..b : m \in S
      PROVE  n \in S
  <2>1. CASE Left(s, n) >= 2 /\ ~IsAttribute(s[n])
    <3>1. n + 2 \in (n + 1)..b
      BY <1>2, <2>1 DEF Left
    <3>2. end[n + 2] \in (n + 2)..b
      BY <1>9, <3>1
    <3>3. end[n] = end[n + 2]
      BY <1>8, <2>1
    <3> HIDE DEF b
    <3> QED
      BY <1>2, <3>2, <3>3
  <2>2. CASE ~(Left(s, n) >= 2 /\ ~IsAttribute(s[n]))
    <3>1. end[n] = n
      BY <1>8, <2>2
    <3> HIDE DEF b
    <3> QED
      BY <1>2, <3>1
  <2> QED
    BY <2>1, <2>2
<1>10. 1..b \subseteq S
  <2> HIDE DEF S, b
  <2> QED BY <1>2, <1>9, Backwards
<1>11. end[k] \in k..b
  BY <1>10
<1>12. Left(s, k) >= 2 => k + 2 \in 1..b
  BY <1>2 DEF Left
<1> QED
  BY <1>1, <1>8, <1>11, <1>12

LEMMA Clamped ==
  ASSUME NEW s \in Seq(Byte), NEW k \in Nat
  PROVE  /\ Clamp(s, k) \in Nat /\ Clamp(s, k) <= EndOf(s) /\ Clamp(s, k) <= k
         /\ Clamp(s, k) = k \/ Clamp(s, k) = EndOf(s)
BY Payload DEF Clamp

LEMMA FieldExtent ==
  ASSUME NEW s \in Seq(Byte), NEW j \in 1..Len(s)
  PROVE  FieldEnd(s, j) \in (j + 1)..EndOf(s)
<1> DEFINE start     == IF Left(s, j) >= 3 THEN j + 3 ELSE EndOf(s)
           attribute == ControlWordsEnd(s, start)
           after     == Clamp(s, attribute + 1)
<1>1. start \in (j + 1)..EndOf(s)
  BY Payload DEF Left
<1>2. attribute \in start..EndOf(s)
  BY <1>1, ControlWords, Payload
<1>3. attribute + 1 \in Nat /\ EndOf(s) \in Nat
  BY <1>1, <1>2, Payload
<1>4. after \in (j + 1)..EndOf(s)
  <2>1. start \in Nat /\ start > j /\ attribute \in Nat /\ attribute >= start
        /\ attribute <= EndOf(s)
    BY <1>1, <1>2
  <2>2. after = IF attribute + 1 > EndOf(s) THEN EndOf(s) ELSE attribute + 1
    BY DEF Clamp
  <2> HIDE DEF start, attribute, after
  <2> QED BY <1>3, <2>1, <2>2
<1>5. FieldEnd(s, j) = IF Left(s, after) >= 2 THEN after + 2 ELSE after
  BY DEF FieldEnd
<1> QED
  <2> HIDE DEF after
  <2> QED BY <1>3, <1>4, <1>5 DEF Left

\* Every order ends behind its first byte and within the payload.
LEMMA OrderExtent ==
  ASSUME NEW s \in Seq(Byte), NEW j \in 1..Len(s)
  PROVE  OrderEnd(s, j) \in (j + 1)..EndOf(s)
<1> DEFINE end == CASE s[j] \in {OrderSBA, OrderIC, OrderMC} -> j + 3
                    [] s[j] \in {OrderRA, OrderEA}           -> j + 4
                    [] s[j] = OrderTD /\ Left(s, j) >= 2     -> j + 2 + s[j + 1]
                    [] s[j] = OrderSF                        -> FieldEnd(s, j)
                    [] OTHER                                 -> j + 1
<1>1. FieldEnd(s, j) \in Nat /\ FieldEnd(s, j) >= j + 1
  BY FieldExtent, Payload
<1>2. Left(s, j) >= 2 => s[j + 1] \in Nat
  BY Payload DEF Left
<1>3. end \in Nat /\ end >= j + 1
  <2>1. j \in Nat
    BY Payload
  <2>2. CASE s[j] = OrderTD /\ Left(s, j) >= 2
    <3>1. OrderTD \notin {OrderSBA, OrderIC, OrderMC} /\ OrderTD \notin {OrderRA, OrderEA}
          /\ OrderTD # OrderSF
      BY DEF OrderTD, OrderSBA, OrderIC, OrderMC, OrderRA, OrderEA, OrderSF
    <3>2. end = j + 2 + s[j + 1]
      <4> HIDE DEF OrderTD, OrderSBA, OrderIC, OrderMC, OrderRA, OrderEA, OrderSF
      <4> QED
        BY <2>2, <3>1
    <3> HIDE DEF end
    <3> QED
      BY <1>2, <2>1, <2>2, <3>2
  <2>3. CASE ~(s[j] = OrderTD /\ Left(s, j) >= 2)
    <3>1. end \in {j + 3, j + 4, FieldEnd(s, j), j + 1}
      BY <2>3
    <3> HIDE DEF end
    <3> QED
      BY <1>1, <2>1, <3>1
  <2> QED
    BY <2>2, <2>3
<1>4. OrderEnd(s, j) = Clamp(s, end)
  BY DEF OrderEnd
<1> QED
  <2> HIDE DEF end
  <2> QED BY <1>3, <1>4, Clamped, Payload DEF Clamp

LEMMA SohExtent ==
  ASSUME NEW s \in Seq(Byte), NEW j \in 1..Len(s)
  PROVE  SohEnd(s, j) \in (j + 1)..EndOf(s)
<1>1. Left(s, j) >= 2 => s[j + 1] \in Nat
  BY Payload DEF Left
<1> QED
  BY <1>1, Payload DEF SohEnd, Clamp, Left

LEMMA WdsfExtent ==
  ASSUME NEW s \in Seq(Byte), NEW j \in 1..Len(s)
  PROVE  WdsfEnd(s, j) \in (j + 1)..EndOf(s)
<1>1. Left(s, j) >= 3 => Length16(s, j) \in Nat
  BY Payload, LengthField DEF Left
<1> QED
  BY <1>1, Payload DEF WdsfEnd, Clamp, Left

LEMMA StrpccmdExtent ==
  ASSUME NEW s \in Seq(Byte), NEW j \in 1..Len(s), IsStrpccmd(s, j)
  PROVE  StrpccmdEnd(s, j) \in (j + 1)..EndOf(s)
<1> DEFINE flag == j + StrpccmdMarkerLen
           end  == Until(s, flag + 1, 0..63)
<1>1. flag \in (j + 1)..EndOf(s)
  BY Payload DEF IsStrpccmd, StrpccmdMarkerLen, Left
<1>2. CASE Left(s, flag) < 1 \/ s[flag] = ESC
  BY <1>1, <1>2 DEF StrpccmdEnd
<1>3. CASE ~(Left(s, flag) < 1 \/ s[flag] = ESC)
  <2>1. flag + 1 \in 1..EndOf(s)
    BY <1>1, <1>3, Payload DEF Left
  <2>2. end \in (flag + 1)..EndOf(s)
    <3> HIDE DEF flag
    <3> QED BY <2>1, UntilStops
  <2>3. StrpccmdEnd(s, j) = IF end > flag + 1 + StrpccmdMaxCommandLen
                            THEN flag + 1 + StrpccmdMaxCommandLen ELSE end
    BY <1>3 DEF StrpccmdEnd
  <2> QED
    <3> HIDE DEF flag, end
    <3> QED BY <1>1, <2>2, <2>3, Payload DEF StrpccmdMaxCommandLen
<1> QED
  BY <1>2, <1>3

\* The walk over structured fields meets its equation and ends in the payload.
LEMMA StructuredFieldsExtent ==
  ASSUME NEW s \in Seq(Byte), NEW j \in 1..EndOf(s)
  PROVE  /\ StructuredFields(s, j) \in [end : 1..EndOf(s), good : BOOLEAN]
         /\ StructuredFields(s, j).end \in j..EndOf(s)
<1> DEFINE b == EndOf(s)
           X == [end : 1..b, good : BOOLEAN]
           body(g) == [k \in 1..b |->
             IF Left(s, k) < 2 \/ s[k] = ESC THEN [end |-> k, good |-> TRUE]
             ELSE IF Length16(s, k - 1) < 2 \/ k + Length16(s, k - 1) > b
             THEN [end |-> b, good |-> FALSE]
             ELSE g[k + Length16(s, k - 1)]]
           fields == CHOOSE g : g = body(g)
           F == [g \in [1..b -> X] |-> body(g)]
<1>1. StructuredFields(s, j) = fields[j]
  BY DEF StructuredFields
<1>2. b \in Nat /\ X # {} /\ b \in 1..b
  <2>1. [end |-> b, good |-> TRUE] \in X
    BY Payload
  <2> QED
    BY <2>1, Payload
<1>3. \A k \in 1..b : Left(s, k) >= 2 => Length16(s, k - 1) \in Nat
  BY Payload, LengthField DEF Left
<1>4. ASSUME NEW g \in [1..b -> X]
      PROVE  body(g) \in [1..b -> X]
  <2>1. ASSUME NEW k \in 1..b
        PROVE  body(g)[k] \in X
    <3>1. CASE Left(s, k) < 2 \/ s[k] = ESC
      BY <3>1
    <3>2. CASE ~(Left(s, k) < 2 \/ s[k] = ESC) /\
               (Length16(s, k - 1) < 2 \/ k + Length16(s, k - 1) > b)
      BY <1>2, <3>2
    <3>3. CASE ~(Left(s, k) < 2 \/ s[k] = ESC) /\
               ~(Length16(s, k - 1) < 2 \/ k + Length16(s, k - 1) > b)
      <4>1. k + Length16(s, k - 1) \in 1..b
        BY <1>2, <1>3, <3>3 DEF Left
      <4>2. body(g)[k] = g[k + Length16(s, k - 1)]
        BY <3>3
      <4> QED
        BY <4>1, <4>2
    <3> QED
      BY <3>1, <3>2, <3>3
  <2>2. body(g) = [k \in 1..b |-> body(g)[k]]
    OBVIOUS
  <2> HIDE DEF body, X, b
  <2> QED
    BY <2>1, <2>2
<1>5. LooksAhead(F, b, X)
  <2>1. F \in [[1..b -> X] -> [1..b -> X]]
    <3> HIDE DEF body, X, b
    <3> QED BY <1>4
  <2>2. ASSUME NEW g \in [1..b -> X], NEW h \in [1..b -> X], NEW k \in 1..b,
               \A m \in (k + 1)..b : g[m] = h[m]
        PROVE  F[g][k] = F[h][k]
    <3>1. F[g][k] = body(g)[k] /\ F[h][k] = body(h)[k]
      <4> HIDE DEF body, X, b
      <4> QED OBVIOUS
    <3>2. body(g)[k] = body(h)[k]
      <4>1. CASE Left(s, k) < 2 \/ s[k] = ESC \/
                 Length16(s, k - 1) < 2 \/ k + Length16(s, k - 1) > b
        BY <4>1
      <4>2. CASE ~(Left(s, k) < 2 \/ s[k] = ESC \/
                 Length16(s, k - 1) < 2 \/ k + Length16(s, k - 1) > b)
        <5>1. k + Length16(s, k - 1) \in (k + 1)..b
          BY <1>2, <1>3, <4>2 DEF Left
        <5>2. /\ body(g)[k] = g[k + Length16(s, k - 1)]
              /\ body(h)[k] = h[k + Length16(s, k - 1)]
          BY <4>2
        <5> HIDE DEF body, X, b
        <5> QED
          BY <2>2, <5>1, <5>2
      <4> HIDE DEF body
      <4> QED
        BY <4>1, <4>2
    <3> HIDE DEF F, body
    <3> QED
      BY <3>1, <3>2
  <2> HIDE DEF F, b, X
  <2> QED
    BY <2>1, <2>2 DEF LooksAhead
<1>6. \E g \in [1..b -> X] : F[g] = g
  <2> HIDE DEF F, b, X
  <2>1. HasFixpoint(F, b, X)
    BY <1>2, <1>5, Fixpoint, Zenon
  <2> QED
    BY <2>1 DEF HasFixpoint
<1>7. \E g : g = body(g)
  <2> HIDE DEF body, X, b
  <2> QED BY <1>6
<1>8. fields = body(fields)
  <2> HIDE DEF body
  <2> QED BY <1>7
<1> HIDE DEF fields
<1> DEFINE S == {k \in 1..b : fields[k] \in X /\ fields[k].end >= k}
<1>9. ASSUME NEW k \in 1..b, \A m \in (k + 1)..b : m \in S
      PROVE  k \in S
  <2>1. CASE Left(s, k) < 2 \/ s[k] = ESC
    <3>1. fields[k] = [end |-> k, good |-> TRUE]
      BY <1>8, <2>1
    <3>2. fields[k] \in X /\ fields[k].end = k
      BY <3>1
    <3> QED
      BY <3>2
  <2>2. CASE ~(Left(s, k) < 2 \/ s[k] = ESC) /\
             (Length16(s, k - 1) < 2 \/ k + Length16(s, k - 1) > b)
    <3>1. fields[k] = [end |-> b, good |-> FALSE]
      BY <1>8, <2>2
    <3>2. fields[k] \in X /\ fields[k].end = b
      BY <1>2, <3>1
    <3> QED
      BY <1>2, <3>2
  <2>3. CASE ~(Left(s, k) < 2 \/ s[k] = ESC) /\
             ~(Length16(s, k - 1) < 2 \/ k + Length16(s, k - 1) > b)
    <3>1. k + Length16(s, k - 1) \in (k + 1)..b
      BY <1>2, <1>3, <2>3 DEF Left
    <3>2. fields[k] = fields[k + Length16(s, k - 1)]
      BY <1>8, <2>3
    <3>3. fields[k] \in X /\ fields[k].end >= k + Length16(s, k - 1)
      BY <1>9, <3>1, <3>2
    <3>4. fields[k].end \in 1..b
      BY <3>3
    <3> QED
      <4> HIDE DEF X
      <4> QED BY <3>1, <3>3, <3>4
  <2> QED
    BY <2>1, <2>2, <2>3
<1>10. 1..b \subseteq S
  <2> HIDE DEF S, b
  <2> QED BY <1>2, <1>9, Backwards
<1>11. fields[j] \in X /\ fields[j].end >= j
  BY <1>10
<1> QED
  BY <1>1, <1>11


-----------------------------------------------------------------------------
(* What the theorems speak of. *)

IsSequence(s) == \E S : s \in Seq(S)

IsQuiet(callbacks) ==
  /\ IsSequence(callbacks)
  /\ \A n \in DOMAIN callbacks : callbacks[n][1] # "RawScreenData"

EndsInOneUpdate(callbacks) ==
  {n \in DOMAIN callbacks : callbacks[n][1] = "RawScreenData"} = {Len(callbacks)}

IsReported(entry) == IsDisplayRecord(entry.record) => EndsInOneUpdate(entry.events)

UpdateInv ==
  /\ IsQuiet(events)
  /\ IsSequence(reported)
  /\ \A k \in DOMAIN reported : IsReported(reported[k])

-----------------------------------------------------------------------------
(* Lemmas about sequences of callbacks. *)

LEMMA EmptyIsQuiet == IsQuiet(<<>>)
<1>1. <<>> \in Seq({})
  BY EmptySeq
<1>2. DOMAIN <<>> = {}
  BY EmptySeq
<1> QED
  BY <1>1, <1>2 DEF IsQuiet, IsSequence

LEMMA OneIsQuiet ==
  ASSUME NEW e, e[1] # "RawScreenData"
  PROVE  IsQuiet(<<e>>)
<1>1. <<e>> \in Seq({e}) /\ DOMAIN <<e>> = {1} /\ <<e>>[1] = e
  OBVIOUS
<1> QED
  BY <1>1 DEF IsQuiet, IsSequence

\* Two sequences have a set of values in common.
LEMMA CommonSet ==
  ASSUME NEW s, NEW t, IsSequence(s), IsSequence(t)
  PROVE  \E S : s \in Seq(S) /\ t \in Seq(S)
<1>1. PICK S : s \in Seq(S)
  BY DEF IsSequence
<1>2. PICK T : t \in Seq(T)
  BY DEF IsSequence
<1>3. s \in Seq(S \cup T) /\ t \in Seq(S \cup T)
  BY <1>1, <1>2
<1> QED
  BY <1>3

LEMMA ConcatIsQuiet ==
  ASSUME NEW s, NEW t, IsQuiet(s), IsQuiet(t)
  PROVE  IsQuiet(s \o t)
<1>1. PICK S : s \in Seq(S) /\ t \in Seq(S)
  BY CommonSet DEF IsQuiet
<1>2. /\ s \o t \in Seq(S)
      /\ DOMAIN (s \o t) = 1..(Len(s) + Len(t))
      /\ \A n \in 1..(Len(s) + Len(t)) :
           (s \o t)[n] = IF n <= Len(s) THEN s[n] ELSE t[n - Len(s)]
  BY <1>1, ConcatProperties, LenProperties
<1>3. /\ DOMAIN s = 1..Len(s) /\ DOMAIN t = 1..Len(t)
      /\ Len(s) \in Nat /\ Len(t) \in Nat
  BY <1>1, LenProperties
<1>4. ASSUME NEW n \in 1..(Len(s) + Len(t))
      PROVE  (s \o t)[n][1] # "RawScreenData"
  <2>1. CASE n <= Len(s)
    BY <1>2, <1>3, <2>1 DEF IsQuiet
  <2>2. CASE n > Len(s)
    <3>1. n - Len(s) \in DOMAIN t /\ (s \o t)[n] = t[n - Len(s)]
      BY <1>2, <1>3, <2>2
    <3> QED
      BY <3>1 DEF IsQuiet
  <2> QED
    BY <1>3, <2>1, <2>2
<1> QED
  BY <1>2, <1>4 DEF IsQuiet, IsSequence

\* A quiet walk and the update at its end.
LEMMA UpdateAtTheEnd ==
  ASSUME NEW s, NEW e, IsQuiet(s), e[1] = "RawScreenData"
  PROVE  EndsInOneUpdate(Append(s, e))
<1>1. PICK S : s \in Seq(S)
  BY DEF IsQuiet, IsSequence
<1>2. s \in Seq(S \cup {e}) /\ e \in S \cup {e}
  BY <1>1
<1>3. /\ Len(Append(s, e)) = Len(s) + 1
      /\ DOMAIN Append(s, e) = 1..(Len(s) + 1)
      /\ \A n \in 1..Len(s) : Append(s, e)[n] = s[n]
      /\ Append(s, e)[Len(s) + 1] = e
      /\ DOMAIN s = 1..Len(s) /\ Len(s) \in Nat
  BY <1>2, AppendProperties, LenProperties
<1>4. \A n \in 1..Len(s) : Append(s, e)[n][1] # "RawScreenData"
  BY <1>3 DEF IsQuiet
<1> QED
  BY <1>3, <1>4 DEF EndsInOneUpdate

LEMMA ReportOne ==
  ASSUME NEW entry, UpdateInv, IsReported(entry), reported' = Append(reported, entry)
  PROVE  IsSequence(reported') /\ \A k \in DOMAIN reported' : IsReported(reported'[k])
<1>1. PICK S : reported \in Seq(S)
  BY DEF UpdateInv, IsSequence
<1>2. reported \in Seq(S \cup {entry}) /\ entry \in S \cup {entry}
  BY <1>1
<1>3. /\ reported' \in Seq(S \cup {entry})
      /\ DOMAIN reported' = 1..(Len(reported) + 1)
      /\ \A n \in 1..Len(reported) : reported'[n] = reported[n]
      /\ reported'[Len(reported) + 1] = entry
      /\ DOMAIN reported = 1..Len(reported) /\ Len(reported) \in Nat
  BY <1>2, AppendProperties, LenProperties
<1>4. \A k \in DOMAIN reported' : k \in DOMAIN reported \/ k = Len(reported) + 1
  BY <1>3
<1> QED
  BY <1>3, <1>4 DEF UpdateInv, IsSequence

-----------------------------------------------------------------------------
(* Lemmas about the actions. *)

LEMMA GoOnKeeps ==
  ASSUME UpdateInv, NEW k, NEW callbacks, IsQuiet(callbacks), GoOn(k, callbacks)
  PROVE  UpdateInv'
<1>1. events' = events \o callbacks /\ reported' = reported
  BY DEF GoOn, framing
<1>2. IsQuiet(events')
  BY <1>1, ConcatIsQuiet DEF UpdateInv
<1> QED
  BY <1>1, <1>2 DEF UpdateInv

LEMMA CommandKeeps ==
  ASSUME UpdateInv, NEW k, NEW callbacks, IsQuiet(callbacks), Command(k, callbacks)
  PROVE  UpdateInv'
BY GoOnKeeps DEF Command

LEMMA SkipKeeps ==
  ASSUME UpdateInv, NEW k, NEW callbacks, IsQuiet(callbacks), Skip(k, callbacks)
  PROVE  UpdateInv'
BY GoOnKeeps DEF Skip

\* A record that is dispatched without a walk is no display record.
LEMMA DispatchKeeps ==
  ASSUME UpdateInv, NEW callbacks, ~IsDisplayRecord(NextRecord), Dispatch(callbacks)
  PROVE  UpdateInv'
<1> DEFINE entry == [record |-> NextRecord, events |-> callbacks]
<1>1. reported' = Append(reported, entry) /\ events' = events
  BY DEF Dispatch, walk
<1>2. IsReported(entry)
  BY DEF IsReported
<1>3. IsSequence(reported') /\ \A k \in DOMAIN reported' : IsReported(reported'[k])
  BY <1>1, <1>2, ReportOne
<1> QED
  BY <1>1, <1>3 DEF UpdateInv

LEMMA SohEventsAreQuiet == \A j : IsQuiet(SohEvents(j))
<1>1. ASSUME NEW j PROVE IsQuiet(SohEvents(j))
  <2>1. IsQuiet(<<<<"Soh", SohFields(record, j)>>>>)
    BY OneIsQuiet
  <2> QED
    BY <2>1, EmptyIsQuiet DEF SohEvents
<1> QED
  BY <1>1

LEMMA OpcodesAreApart == SignalOpcodes \cap DisplayOpcodes = {}
BY DEF SignalOpcodes, DisplayOpcodes, OpInvite, OpCancelInvite, OpMsgLightOn, OpMsgLightOff,
     OpOutputOnly, OpPutGet, OpRestore, OpSaveScreen, OpReadScreen

LEMMA FramingKeeps ==
  ASSUME UpdateInv,
         \/ SkipByte \/ RejectRecord \/ PassThrough \/ Signal \/ IgnoreRecord
         \/ BeginWalk \/ Return
  PROVE  UpdateInv'
<1>1. CASE SkipByte \/ Return
  BY <1>1 DEF SkipByte, Return, UpdateInv, framing, walk
<1>2. CASE RejectRecord
  BY <1>2, DispatchKeeps DEF RejectRecord, IsDisplayRecord
<1>3. CASE PassThrough
  BY <1>3, DispatchKeeps DEF PassThrough, IsDisplayRecord
<1>4. CASE Signal
  <2>1. ~IsDisplayRecord(NextRecord)
    BY <1>4, OpcodesAreApart DEF Signal, HasOpcodeIn, IsDisplayRecord
  <2> QED
    BY <1>4, <2>1, DispatchKeeps DEF Signal
<1>5. CASE IgnoreRecord
  <2>1. ~IsDisplayRecord(NextRecord)
    BY <1>5 DEF IgnoreRecord, HasOpcodeIn, IsDisplayRecord
  <2> QED
    BY <1>5, <2>1, DispatchKeeps DEF IgnoreRecord
<1>6. CASE BeginWalk
  <2>1. IsQuiet(<<<<"SaveScreen">>>>)
    BY OneIsQuiet
  <2>2. IsQuiet(events')
    BY <1>6, <2>1, EmptyIsQuiet DEF BeginWalk
  <2> QED
    BY <1>6, <2>2 DEF BeginWalk, UpdateInv
<1> QED
  BY <1>1, <1>2, <1>3, <1>4, <1>5, <1>6

LEMMA CommandsKeep ==
  ASSUME UpdateInv,
         \/ ClearScreen \/ ReadCommand \/ WriteErrorCode \/ Roll \/ WriteStructuredField
         \/ UnknownCommand \/ TopSoh \/ StrayByte \/ OpenWtd
  PROVE  UpdateInv'
<1>1. IsQuiet(<<ParseError>>)
  BY OneIsQuiet DEF ParseError
<1>2. CASE ClearScreen
  <2>1. /\ IsQuiet(<<<<"ClearScreen">>>>) /\ IsQuiet(<<<<"ClearScreenAlternate">>>>)
        /\ IsQuiet(<<<<"ClearFormatTable">>>>)
    BY OneIsQuiet
  <2> QED
    BY <1>2, <2>1, CommandKeeps DEF ClearScreen
<1>3. CASE ReadCommand
  <2>1. IsQuiet(<<<<"Read", record[at + 1]>>>>)
    BY OneIsQuiet
  <2> QED
    BY <1>3, <2>1, CommandKeeps DEF ReadCommand
<1>4. CASE WriteErrorCode
  <2>1. \A bytes : IsQuiet(<<<<"WriteErrorCode", bytes>>>>)
    BY OneIsQuiet
  <2> QED
    BY <1>4, <2>1, CommandKeeps DEF WriteErrorCode
<1>5. CASE Roll
  <2>1. \A rows : IsQuiet(<<RollOf(rows)>>)
    BY OneIsQuiet DEF RollOf
  <2>2. PICK k, callbacks : IsQuiet(callbacks) /\ Command(k, callbacks)
    BY <1>5, <2>1, EmptyIsQuiet DEF Roll
  <2> QED
    BY <2>2, CommandKeeps
<1>6. CASE WriteStructuredField
  <2>1. \A bytes : IsQuiet(<<<<"WriteStructuredField", bytes>>>>)
    BY OneIsQuiet
  <2>2. \A bytes : /\ IsQuiet(<<>> \o <<<<"WriteStructuredField", bytes>>>>)
                   /\ IsQuiet(<<ParseError>> \o <<<<"WriteStructuredField", bytes>>>>)
    BY <1>1, <2>1, EmptyIsQuiet, ConcatIsQuiet
  <2>3. PICK k, callbacks : IsQuiet(callbacks) /\ Command(k, callbacks)
    BY <1>6, <2>2 DEF WriteStructuredField
  <2> QED
    BY <2>3, CommandKeeps
<1>7. CASE UnknownCommand
  BY <1>1, <1>7, CommandKeeps DEF UnknownCommand
<1>8. CASE TopSoh
  BY <1>8, SohEventsAreQuiet, CommandKeeps DEF TopSoh
<1>9. CASE StrayByte
  BY <1>1, <1>9, CommandKeeps DEF StrayByte
<1>10. CASE OpenWtd
  <2>1. /\ IsQuiet(<<<<"ControlCharacters", record[at + 2], record[at + 3]>>>>)
        /\ IsQuiet(<<<<"KeyboardUnlock">>>>)
    BY OneIsQuiet
  <2>2. /\ IsQuiet(<<<<"ControlCharacters", record[at + 2], record[at + 3]>>>> \o <<>>)
        /\ IsQuiet(<<<<"ControlCharacters", record[at + 2], record[at + 3]>>>>
                      \o <<<<"KeyboardUnlock">>>>)
    BY <2>1, EmptyIsQuiet, ConcatIsQuiet
  <2>3. PICK callbacks : IsQuiet(callbacks) /\ GoOn(at + 4, callbacks)
    BY <1>10, <2>2 DEF OpenWtd
  <2> QED
    BY <2>3, GoOnKeeps
<1> QED
  BY <1>2, <1>3, <1>4, <1>5, <1>6, <1>7, <1>8, <1>9, <1>10

LEMMA DisplayKeeps ==
  ASSUME UpdateInv, CloseWtd \/ WtdSoh \/ SkipWdsf \/ Strpccmd \/ CopyOrder
  PROVE  UpdateInv'
<1>1. CASE CloseWtd
  BY <1>1 DEF CloseWtd, UpdateInv, framing, walk
<1>2. CASE WtdSoh
  BY <1>2, SohEventsAreQuiet, EmptyIsQuiet, SkipKeeps DEF WtdSoh
<1>3. CASE SkipWdsf
  BY <1>3, EmptyIsQuiet, SkipKeeps DEF SkipWdsf
<1>4. CASE Strpccmd
  <2>1. \A wait, bytes : IsQuiet(<<<<"StrpccmdRequested", wait, bytes>>>>)
    BY OneIsQuiet
  <2> QED
    BY <1>4, <2>1, SkipKeeps DEF Strpccmd
<1>5. CASE CopyOrder
  BY <1>5, EmptyIsQuiet, GoOnKeeps DEF CopyOrder
<1> QED
  BY <1>1, <1>2, <1>3, <1>4, <1>5

\* The end of a walk reports its callbacks with the update behind them.
LEMMA EndWalkKeeps ==
  ASSUME UpdateInv, EndWalk
  PROVE  UpdateInv'
<1> DEFINE entry == [record |-> record, events |-> Append(events, <<"RawScreenData", display>>)]
<1>1. reported' = Append(reported, entry) /\ events' = events
  BY DEF EndWalk, walk
<1>2. EndsInOneUpdate(entry.events)
  BY UpdateAtTheEnd DEF UpdateInv
<1>3. IsReported(entry)
  BY <1>2 DEF IsReported
<1>4. IsSequence(reported') /\ \A k \in DOMAIN reported' : IsReported(reported'[k])
  BY <1>1, <1>3, ReportOne
<1> QED
  BY <1>1, <1>4 DEF UpdateInv

LEMMA UpdatesHold == Spec => []UpdateInv
<1>1. Init => UpdateInv
  <2>1. \A k \in DOMAIN <<>> : IsReported(<<>>[k])
    BY EmptySeq
  <2> QED
    BY <2>1, EmptyIsQuiet DEF Init, UpdateInv, IsQuiet
<1>2. UpdateInv /\ [Next]_vars => UpdateInv'
  <2> SUFFICES ASSUME UpdateInv, [Next]_vars
               PROVE  UpdateInv'
    OBVIOUS
  <2>1. CASE Step
    BY <2>1, FramingKeeps, CommandsKeep, DisplayKeeps, EndWalkKeeps DEF Step
  <2>2. CASE Feed \/ Reset
    BY <2>2 DEF Feed, Reset, UpdateInv, walk
  <2>3. CASE UNCHANGED vars
    BY <2>3 DEF vars, UpdateInv
  <2> QED
    BY <2>1, <2>2, <2>3 DEF Next
<1> QED
  BY <1>1, <1>2, PTL DEF Spec

-----------------------------------------------------------------------------
\* Whatever the host sends, however it is cut and however often the
\* application resets the decoder: a display record ends with exactly one
\* screen update (decoder.cpp:399-403).
THEOREM UpdateComesLast == Spec => []ScreenUpdateComesLast
<1>1. UpdateInv => ScreenUpdateComesLast
  BY DEF UpdateInv, IsReported, EndsInOneUpdate, ScreenUpdateComesLast
<1> QED
  BY <1>1, UpdatesHold, PTL

-----------------------------------------------------------------------------
(* Types, and that a walk is inside its record. *)

Happened(callbacks) == IsSequence(callbacks) /\ AreEvents(callbacks)

TypeInv ==
  /\ fed \in Seq(Byte) /\ buffer \in Seq(Byte) /\ display \in Seq(Byte)
  /\ calls \in Seq(Seq(Byte)) /\ mode \in Modes /\ resets \in 0..MaxResets
  /\ record \in Seq(Byte) /\ at \in 1..EndOf(record)
  /\ Happened(events)
  /\ IsSequence(reported)
  /\ \A k \in DOMAIN reported : reported[k].record \in Seq(Byte) /\ Happened(reported[k].events)

LEMMA NothingHappened == Happened(<<>>)
<1>1. <<>> \in Seq({}) /\ DOMAIN <<>> = {}
  BY EmptySeq
<1> QED
  BY <1>1 DEF Happened, AreEvents, IsSequence

LEMMA OneHappened ==
  ASSUME NEW e, e[1] \in EventKinds
  PROVE  Happened(<<e>>)
<1>1. <<e>> \in Seq({e}) /\ DOMAIN <<e>> = {1} /\ <<e>>[1] = e
  OBVIOUS
<1> QED
  BY <1>1 DEF Happened, AreEvents, IsSequence

LEMMA BothHappened ==
  ASSUME NEW s, NEW t, Happened(s), Happened(t)
  PROVE  Happened(s \o t)
<1>1. PICK S : s \in Seq(S) /\ t \in Seq(S)
  BY CommonSet DEF Happened
<1>2. /\ s \o t \in Seq(S)
      /\ DOMAIN (s \o t) = 1..(Len(s) + Len(t))
      /\ \A n \in 1..(Len(s) + Len(t)) :
           (s \o t)[n] = IF n <= Len(s) THEN s[n] ELSE t[n - Len(s)]
  BY <1>1, ConcatProperties, LenProperties
<1>3. /\ DOMAIN s = 1..Len(s) /\ DOMAIN t = 1..Len(t)
      /\ Len(s) \in Nat /\ Len(t) \in Nat
  BY <1>1, LenProperties
<1>4. ASSUME NEW n \in 1..(Len(s) + Len(t))
      PROVE  (s \o t)[n][1] \in EventKinds
  <2>1. CASE n <= Len(s)
    BY <1>2, <1>3, <2>1 DEF Happened, AreEvents
  <2>2. CASE n > Len(s)
    <3>1. n - Len(s) \in DOMAIN t /\ (s \o t)[n] = t[n - Len(s)]
      BY <1>2, <1>3, <2>2
    <3> QED
      BY <3>1 DEF Happened, AreEvents
  <2> QED
    BY <1>3, <2>1, <2>2
<1> QED
  BY <1>2, <1>4 DEF Happened, AreEvents, IsSequence

LEMMA AppendIsBoth ==
  ASSUME NEW s, NEW e, IsSequence(s)
  PROVE  Append(s, e) = s \o <<e>>
<1>1. PICK S : s \in Seq(S)
  BY DEF IsSequence
<1>2. s \in Seq(S \cup {e}) /\ e \in S \cup {e}
  BY <1>1
<1> QED
  BY <1>2, AppendIsConcat

\* One more record is reported.
LEMMA ReportKeepsTypes ==
  ASSUME TypeInv, NEW entry, entry.record \in Seq(Byte), Happened(entry.events),
         reported' = Append(reported, entry)
  PROVE  /\ IsSequence(reported')
         /\ \A k \in DOMAIN reported' :
              reported'[k].record \in Seq(Byte) /\ Happened(reported'[k].events)
<1>1. PICK S : reported \in Seq(S)
  BY DEF TypeInv, IsSequence
<1>2. reported \in Seq(S \cup {entry}) /\ entry \in S \cup {entry}
  BY <1>1
<1>3. /\ reported' \in Seq(S \cup {entry})
      /\ DOMAIN reported' = 1..(Len(reported) + 1)
      /\ \A n \in 1..Len(reported) : reported'[n] = reported[n]
      /\ reported'[Len(reported) + 1] = entry
      /\ DOMAIN reported = 1..Len(reported) /\ Len(reported) \in Nat
  BY <1>2, AppendProperties, LenProperties
<1>4. \A k \in DOMAIN reported' : k \in DOMAIN reported \/ k = Len(reported) + 1
  BY <1>3
<1> QED
  BY <1>3, <1>4 DEF TypeInv, IsSequence

-----------------------------------------------------------------------------
(* The record that is taken. *)

LEMMA TakenRecord ==
  ASSUME TypeInv, HasRecord
  PROVE  /\ RecordLength \in GdsMinRecordLen..Len(buffer)
         /\ NextRecord \in Seq(Byte) /\ Len(NextRecord) = RecordLength
         /\ SubSeq(buffer, RecordLength + 1, Len(buffer)) \in Seq(Byte)
         /\ Len(SubSeq(buffer, RecordLength + 1, Len(buffer))) = Len(buffer) - RecordLength
<1>1. buffer \in Seq(Byte) /\ Len(buffer) \in Nat /\ \A k \in 1..Len(buffer) : buffer[k] \in Byte
  BY LenProperties, ElementOfSeq DEF TypeInv
<1>2. RecordLength \in GdsMinRecordLen..GdsMaxRecordLen /\ RecordLength <= Len(buffer)
      /\ RecordLength \in Nat /\ RecordLength >= 6
  <2>1. RecordLength \in GdsMinRecordLen..GdsMaxRecordLen /\ RecordLength <= Len(buffer)
    BY DEF HasRecord
  <2>2. GdsMinRecordLen = 6 /\ GdsMaxRecordLen \in Int
    BY DEF GdsMinRecordLen, GdsMaxRecordLen
  <2> HIDE DEF RecordLength
  <2>3. RecordLength \in Int /\ RecordLength >= GdsMinRecordLen
    BY <2>1, <2>2
  <2> QED
    BY <2>1, <2>2, <2>3
<1>3. RecordLength \in GdsMinRecordLen..Len(buffer)
  BY <1>1, <1>2
<1> HIDE DEF RecordLength
<1>4. /\ SubSeq(buffer, 1, RecordLength) \in Seq(Byte)
      /\ Len(SubSeq(buffer, 1, RecordLength)) = RecordLength
  <2>1. \A k \in 1..RecordLength : buffer[k] \in Byte
    BY <1>1, <1>2
  <2> QED
    BY <1>2, <2>1, SubSeqProperties
<1>5. /\ SubSeq(buffer, RecordLength + 1, Len(buffer)) \in Seq(Byte)
      /\ Len(SubSeq(buffer, RecordLength + 1, Len(buffer))) = Len(buffer) - RecordLength
  <2>1. \A k \in (RecordLength + 1)..Len(buffer) : buffer[k] \in Byte
    BY <1>1, <1>2
  <2> QED
    BY <1>1, <1>2, <2>1, SubSeqProperties
<1> QED
  BY <1>3, <1>4, <1>5 DEF NextRecord

LEMMA DispatchKeepsTypes ==
  ASSUME TypeInv, NEW callbacks, HasRecord, Dispatch(callbacks), Happened(callbacks)
  PROVE  TypeInv' /\ Len(buffer') < Len(buffer)
<1> DEFINE entry == [record |-> NextRecord, events |-> callbacks]
<1>1. /\ reported' = Append(reported, entry) /\ UNCHANGED <<mode, record, at, display, events>>
      /\ buffer' = SubSeq(buffer, RecordLength + 1, Len(buffer))
      /\ UNCHANGED <<calls, fed, resets>>
  BY DEF Dispatch, TakeRecord, walk
<1>2. entry.record \in Seq(Byte) /\ Happened(entry.events)
  BY TakenRecord
<1>3. /\ IsSequence(reported')
      /\ \A k \in DOMAIN reported' :
           reported'[k].record \in Seq(Byte) /\ Happened(reported'[k].events)
  BY <1>1, <1>2, ReportKeepsTypes
<1>4. buffer' \in Seq(Byte) /\ Len(buffer') = Len(buffer) - RecordLength
  BY <1>1, TakenRecord
<1>5. RecordLength \in Nat /\ RecordLength > 0 /\ Len(buffer) \in Nat
  BY TakenRecord, LenProperties DEF GdsMinRecordLen, TypeInv
<1>6. Len(buffer') < Len(buffer)
  BY <1>4, <1>5
<1> QED
  BY <1>1, <1>3, <1>4, <1>6 DEF TypeInv, Happened, AreEvents

\* What parseData still has to do: four for a byte of the buffer, two for a
\* byte of the walk that is left, and the mode.
Rank == [idle |-> 0, framing |-> 1, commands |-> 2, display |-> 3][mode]
ToWalk == IF mode \in {"commands", "display"} THEN 2 * Left(record, at) ELSE 0
Work == 4 * Len(buffer) + ToWalk + Rank

LEMMA WorkIsNat ==
  ASSUME TypeInv
  PROVE  /\ Work \in Nat /\ Len(buffer) \in Nat /\ Left(record, at) \in Nat
         /\ Work = 4 * Len(buffer) + ToWalk + Rank
         /\ ToWalk \in Nat /\ Rank \in 0..3
<1>1. Len(buffer) \in Nat
  BY LenProperties DEF TypeInv
<1>2. Left(record, at) \in Nat
  BY Payload DEF TypeInv, Left
<1>3. ToWalk \in Nat
  BY <1>2 DEF ToWalk
<1>4. Rank \in 0..3
  BY DEF Rank, TypeInv, Modes
<1> QED
  BY <1>1, <1>2, <1>3, <1>4 DEF Work

LEMMA PayloadIsInside ==
  ASSUME NEW rec \in Seq(Byte), ~HeaderIsBad(rec), IsDataRecord(rec)
  PROVE  PayloadStart(rec) \in 11..EndOf(rec)
<1>1. Len(rec) \in Nat /\ Len(rec) >= 7 /\ ~(rec[7] < 4) /\ ~(Len(rec) < 7 + rec[7])
  BY LenProperties DEF HeaderIsBad
<1>2. rec[7] \in Nat
  BY <1>1, Payload
<1> QED
  BY <1>1, <1>2 DEF PayloadStart, EndOf

LEMMA FramingKeepsTypes ==
  ASSUME TypeInv,
         \/ SkipByte \/ RejectRecord \/ PassThrough \/ Signal \/ IgnoreRecord
         \/ BeginWalk \/ Return
  PROVE  TypeInv' /\ Work' < Work
<1>1. ASSUME NEW callbacks, HasRecord, Dispatch(callbacks), Happened(callbacks)
      PROVE  TypeInv' /\ Work' < Work
  <2>1. TypeInv' /\ Len(buffer') < Len(buffer)
    BY <1>1, DispatchKeepsTypes
  <2>2. ToWalk' = ToWalk /\ Rank' = Rank
    BY <1>1 DEF Dispatch, walk, ToWalk, Rank
  <2>3. /\ Work' = 4 * Len(buffer') + ToWalk' + Rank' /\ Len(buffer') \in Nat
        /\ Work = 4 * Len(buffer) + ToWalk + Rank /\ Len(buffer) \in Nat
        /\ ToWalk \in Nat /\ Rank \in 0..3
    BY <2>1, WorkIsNat DEF Work, TypeInv
  <2> QED
    BY <2>1, <2>2, <2>3
<1>2. CASE SkipByte
  <2>1. buffer \in Seq(Byte) /\ buffer # <<>> /\ Len(buffer) \in Nat
    BY <1>2, EmptySeq, LenProperties DEF SkipByte, HasLength, GdsMinRecordLen, TypeInv
  <2>2. buffer' \in Seq(Byte) /\ Len(buffer') = Len(buffer) - 1
    BY <1>2, <2>1, HeadTailProperties DEF SkipByte
  <2>3. UNCHANGED <<calls, fed, reported, resets, mode, record, at, display, events>>
    BY <1>2 DEF SkipByte, walk
  <2>4. TypeInv'
    BY <2>2, <2>3 DEF TypeInv, Happened, AreEvents
  <2>5. ToWalk' = ToWalk /\ Rank' = Rank
    BY <2>3 DEF ToWalk, Rank
  <2>6. Work' = 4 * (Len(buffer) - 1) + ToWalk + Rank
    BY <2>2, <2>5 DEF Work
  <2> QED
    BY <2>4, <2>6, WorkIsNat
<1>3. CASE RejectRecord
  <2>1. Happened(<<ParseError>>)
    BY OneHappened DEF ParseError, EventKinds
  <2> QED
    BY <1>1, <1>3, <2>1 DEF RejectRecord
<1>4. CASE PassThrough
  <2>1. Happened(<<<<"RawScreenData", NextRecord>>>>)
    BY OneHappened DEF EventKinds
  <2> QED
    BY <1>1, <1>4, <2>1 DEF PassThrough
<1>5. CASE Signal
  <2>1. OpcodeOf(NextRecord) \in SignalOpcodes
    BY <1>5 DEF Signal, HasOpcodeIn
  <2>2. SignalOf(OpcodeOf(NextRecord)) \in {"Invite", "CancelInvite", "MessageLightOn", "MessageLightOff"}
    <3> DEFINE op == OpcodeOf(NextRecord)
    <3>1. op = 1 \/ op = 10 \/ op = 11 \/ op = 12
      BY <2>1 DEF SignalOpcodes, OpInvite, OpCancelInvite, OpMsgLightOn, OpMsgLightOff
    <3> HIDE DEF op
    <3>2. /\ SignalOf(1) = "Invite" /\ SignalOf(10) = "CancelInvite"
          /\ SignalOf(11) = "MessageLightOn" /\ SignalOf(12) = "MessageLightOff"
      BY DEF SignalOf, OpInvite, OpCancelInvite, OpMsgLightOn, OpMsgLightOff
    <3>3. SignalOf(op) \in {"Invite", "CancelInvite", "MessageLightOn", "MessageLightOff"}
      BY <3>1, <3>2
    <3> QED
      BY <3>3 DEF op
  <2>3. Happened(<<<<SignalOf(OpcodeOf(NextRecord))>>>>)
    BY <2>2, OneHappened DEF EventKinds
  <2> QED
    BY <1>1, <1>5, <2>3 DEF Signal, HasOpcodeIn
<1>6. CASE IgnoreRecord
  BY <1>1, <1>6, NothingHappened DEF IgnoreRecord, HasOpcodeIn
<1>7. CASE BeginWalk
  <2>1. HasRecord /\ ~HeaderIsBad(NextRecord) /\ IsDataRecord(NextRecord)
    BY <1>7 DEF BeginWalk, HasOpcodeIn
  <2>2. /\ record' = NextRecord /\ at' = PayloadStart(NextRecord) /\ mode' = "commands"
        /\ display' = <<>> /\ UNCHANGED <<reported, calls, fed, resets>>
        /\ buffer' = SubSeq(buffer, RecordLength + 1, Len(buffer))
        /\ mode = "framing"
    BY <1>7 DEF BeginWalk, TakeRecord
  <2>3. /\ record' \in Seq(Byte) /\ Len(record') = RecordLength
        /\ buffer' \in Seq(Byte) /\ Len(buffer') = Len(buffer) - RecordLength
        /\ RecordLength \in 6..Len(buffer)
    BY <2>1, <2>2, TakenRecord DEF GdsMinRecordLen
  <2>5. at' \in 1..EndOf(record') /\ Left(record', at') < RecordLength
    <3>1. EndOf(NextRecord) = RecordLength + 1 /\ RecordLength \in Nat
      BY <2>2, <2>3, WorkIsNat DEF EndOf
    <3>2. PayloadStart(NextRecord) \in 11..(RecordLength + 1)
      BY <2>1, <2>2, <2>3, <3>1, PayloadIsInside
    <3>3. Left(NextRecord, PayloadStart(NextRecord)) < RecordLength
      BY <3>1, <3>2 DEF Left
    <3> QED
      BY <2>2, <3>1, <3>2, <3>3
  <2>6. Happened(events')
    <3>1. Happened(<<<<"SaveScreen">>>>)
      BY OneHappened DEF EventKinds
    <3> QED
      BY <1>7, <3>1, NothingHappened DEF BeginWalk
  <2>7. <<>> \in Seq(Byte)
    BY EmptySeq
  <2>8. TypeInv'
    BY <2>2, <2>3, <2>5, <2>6, <2>7 DEF TypeInv, Modes, Happened, AreEvents
  <2>9. ToWalk = 0 /\ Rank = 1 /\ ToWalk' = 2 * Left(record', at') /\ Rank' = 2
    BY <2>2 DEF ToWalk, Rank
  <2>10. /\ Work = 4 * Len(buffer) + 1
         /\ Work' = 4 * (Len(buffer) - RecordLength) + 2 * Left(record', at') + 2
    BY <2>3, <2>9, WorkIsNat DEF Work
  <2>11. Left(record', at') \in Nat
    BY <2>3, <2>5, Payload DEF Left
  <2> QED
    <3> HIDE DEF RecordLength
    <3> QED BY <2>3, <2>5, <2>8, <2>10, <2>11, WorkIsNat
<1>8. CASE Return
  <2>1. UNCHANGED <<calls, fed, buffer, reported, resets, record, at, display, events>>
    BY <1>8 DEF Return, framing, walk
  <2>2. TypeInv'
    BY <1>8, <2>1 DEF Return, TypeInv, Modes, Happened, AreEvents
  <2>3. ToWalk = 0 /\ ToWalk' = 0 /\ Rank = 1 /\ Rank' = 0
    BY <1>8 DEF Return, ToWalk, Rank
  <2> QED
    BY <2>1, <2>2, <2>3, WorkIsNat DEF Work
<1> QED
  BY <1>2, <1>3, <1>4, <1>5, <1>6, <1>7, <1>8

LEMMA GoOnKeepsTypes ==
  ASSUME TypeInv, mode \in {"commands", "display"}, at <= Len(record),
         NEW k \in Nat, k > at, NEW callbacks, Happened(callbacks), GoOn(k, callbacks),
         display' \in Seq(Byte), mode' \in {"commands", "display"}
  PROVE  TypeInv' /\ Work' < Work
<1>1. /\ UNCHANGED <<calls, fed, buffer, reported, resets, record>>
      /\ at' = Clamp(record, k) /\ events' = events \o callbacks
  BY DEF GoOn, framing
<1>2. record \in Seq(Byte) /\ at \in 1..EndOf(record)
      /\ Len(record) \in Nat /\ EndOf(record) = Len(record) + 1
  BY Payload DEF TypeInv
<1>3. at' \in (at + 1)..EndOf(record)
  BY <1>1, <1>2 DEF Clamp
<1>4. Happened(events')
  BY <1>1, BothHappened DEF TypeInv
<1>5. TypeInv'
  <2>1. at' \in 1..EndOf(record')
    BY <1>1, <1>2, <1>3
  <2> QED
    BY <1>1, <1>4, <2>1 DEF TypeInv, Modes, Happened, AreEvents
<1>6. ToWalk = 2 * (EndOf(record) - at) /\ ToWalk' = 2 * (EndOf(record) - at')
  <2>1. ToWalk = 2 * Left(record, at) /\ ToWalk' = 2 * Left(record, at')
    BY <1>1 DEF ToWalk
  <2> QED
    BY <2>1 DEF Left
<1>7. Rank \in 2..3 /\ Rank' \in 2..3
  BY DEF Rank
<1>8. Work = 4 * Len(buffer) + ToWalk + Rank /\ Work' = 4 * Len(buffer) + ToWalk' + Rank'
  BY <1>1 DEF Work
<1>9. Len(buffer) \in Nat
  BY WorkIsNat
<1>10. ToWalk \in Nat /\ ToWalk' \in Nat /\ ToWalk' <= ToWalk - 2
  BY <1>2, <1>3, <1>6
<1>11. Work' < Work
  BY <1>7, <1>8, <1>9, <1>10
<1> QED
  BY <1>5, <1>11

\* A turn of the walk goes on behind the byte it stands at.
Advance(k, callbacks) ==
  /\ mode \in {"commands", "display"} /\ at <= Len(record)
  /\ k \in Nat /\ k > at /\ Happened(callbacks) /\ GoOn(k, callbacks)

LEMMA SohHappened == \A j : Happened(SohEvents(j))
<1>1. ASSUME NEW j PROVE Happened(SohEvents(j))
  <2>1. Happened(<<<<"Soh", SohFields(record, j)>>>>)
    BY OneHappened DEF EventKinds
  <2> QED
    BY <2>1, NothingHappened DEF SohEvents
<1> QED
  BY <1>1

LEMMA CommandAdvances ==
  ASSUME TypeInv, NEW codes, AtCommand(codes), NEW k \in Nat, k > at,
         NEW callbacks, Happened(callbacks), Command(k, callbacks)
  PROVE  Advance(k, callbacks) /\ display' = display /\ mode' = mode
<1>1. at \in Nat /\ Len(record) \in Nat /\ at + 2 <= Len(record) + 1
  BY Payload DEF AtCommand, TypeInv, Left
<1>2. at <= Len(record)
  BY <1>1
<1> QED
  BY <1>2 DEF Advance, AtCommand, Command

\* Where a byte or a command is, the positions around it are inside.
LEMMA Inside ==
  ASSUME TypeInv
  PROVE  /\ at \in Nat /\ Len(record) \in Nat /\ record \in Seq(Byte)
         /\ at >= 1 /\ EndOf(record) = Len(record) + 1
         /\ Left(record, at) = Len(record) + 1 - at
         /\ Left(record, at) >= 1 => at \in 1..Len(record)
         /\ Left(record, at) >= 2 => at + 2 \in 1..EndOf(record)
BY Payload DEF TypeInv, Left

LEMMA CommandsAdvance ==
  ASSUME TypeInv,
         \/ ClearScreen \/ ReadCommand \/ WriteErrorCode \/ Roll \/ WriteStructuredField
         \/ UnknownCommand \/ TopSoh \/ StrayByte
  PROVE  /\ \E k, callbacks : Advance(k, callbacks)
         /\ display' = display /\ mode' = mode
<1>1. Happened(<<ParseError>>)
  BY OneHappened DEF ParseError, EventKinds
<1>2. at + 2 \in Nat /\ at + 2 > at /\ at + 4 \in Nat /\ at + 4 > at
      /\ at + 6 \in Nat /\ at + 6 > at
  BY Inside
<1>3. \A stop : AtCommand(Byte) \/ (\E codes : AtCommand(codes)) =>
        Until(record, at + 2, stop) \in Nat /\ Until(record, at + 2, stop) > at
  <2>1. ASSUME NEW stop, NEW codes, AtCommand(codes)
        PROVE  Until(record, at + 2, stop) \in Nat /\ Until(record, at + 2, stop) > at
    <3>1. at + 2 \in 1..EndOf(record)
      BY <2>1, Inside DEF AtCommand
    <3>2. Until(record, at + 2, stop) \in (at + 2)..EndOf(record)
      BY <3>1, Inside, UntilStops
    <3> QED
      BY <3>2, Inside
  <2> QED
    BY <2>1
<1>4. CASE ClearScreen
  <2>1. /\ Happened(<<<<"ClearScreen">>>>) /\ Happened(<<<<"ClearScreenAlternate">>>>)
        /\ Happened(<<<<"ClearFormatTable">>>>)
    BY OneHappened DEF EventKinds
  <2> QED
    BY <1>2, <1>4, <2>1, CommandAdvances DEF ClearScreen
<1>5. CASE ReadCommand
  <2>1. Happened(<<<<"Read", record[at + 1]>>>>)
    BY OneHappened DEF EventKinds
  <2> QED
    BY <1>2, <1>5, <2>1, CommandAdvances DEF ReadCommand
<1>6. CASE WriteErrorCode
  <2>1. \A bytes : Happened(<<<<"WriteErrorCode", bytes>>>>)
    BY OneHappened DEF EventKinds
  <2> QED
    BY <1>3, <1>6, <2>1, CommandAdvances DEF WriteErrorCode
<1>7. CASE Roll
  <2>1. \A rows : Happened(<<RollOf(rows)>>)
    BY OneHappened DEF RollOf, EventKinds
  <2>2. PICK k, callbacks : k \in Nat /\ k > at /\ Happened(callbacks) /\ Command(k, callbacks)
    BY <1>2, <1>7, <2>1, NothingHappened DEF Roll
  <2> QED
    BY <1>7, <2>2, CommandAdvances DEF Roll
<1>8. CASE WriteStructuredField
  <2> DEFINE fields == StructuredFields(record, at + 2)
  <2>1. fields.end \in Nat /\ fields.end > at
    <3>1. at + 2 \in 1..EndOf(record)
      BY <1>8, Inside DEF WriteStructuredField, AtCommand
    <3>2. fields.end \in (at + 2)..EndOf(record)
      BY <3>1, Inside, StructuredFieldsExtent
    <3> QED
      BY <3>2, Inside
  <2>2. \A bytes : Happened(<<<<"WriteStructuredField", bytes>>>>)
    BY OneHappened DEF EventKinds
  <2>3. \A bytes : /\ Happened(<<>> \o <<<<"WriteStructuredField", bytes>>>>)
                   /\ Happened(<<ParseError>> \o <<<<"WriteStructuredField", bytes>>>>)
    BY <1>1, <2>2, NothingHappened, BothHappened
  <2>4. PICK callbacks : Happened(callbacks) /\ Command(fields.end, callbacks)
    BY <1>8, <2>3 DEF WriteStructuredField
  <2> HIDE DEF fields
  <2> QED
    BY <1>8, <2>1, <2>4, CommandAdvances DEF WriteStructuredField
<1>9. CASE UnknownCommand
  BY <1>1, <1>3, <1>9, CommandAdvances DEF UnknownCommand
<1>10. CASE TopSoh
  <2>1. at \in 1..Len(record)
    BY <1>10, Inside DEF TopSoh
  <2>2. SohEnd(record, at) \in Nat /\ SohEnd(record, at) > at
    BY <2>1, Inside, SohExtent
  <2> QED
    BY <1>10, <2>1, <2>2, SohHappened, Inside DEF TopSoh, Advance, Command
<1>11. CASE StrayByte
  <2>1. at <= Len(record) /\ at + 1 \in Nat /\ at + 1 > at
    BY <1>11, Inside DEF StrayByte
  <2> QED
    BY <1>1, <1>11, <2>1 DEF StrayByte, Advance, Command
<1> QED
  BY <1>4, <1>5, <1>6, <1>7, <1>8, <1>9, <1>10, <1>11

LEMMA OpenAdvances ==
  ASSUME TypeInv, OpenWtd
  PROVE  (\E k, callbacks : Advance(k, callbacks)) /\ display' = display /\ mode' = "display"
<1>1. /\ Happened(<<<<"ControlCharacters", record[at + 2], record[at + 3]>>>>)
      /\ Happened(<<<<"KeyboardUnlock">>>>)
  BY OneHappened DEF EventKinds
<1>2. /\ Happened(<<<<"ControlCharacters", record[at + 2], record[at + 3]>>>> \o <<>>)
      /\ Happened(<<<<"ControlCharacters", record[at + 2], record[at + 3]>>>>
                      \o <<<<"KeyboardUnlock">>>>)
  BY <1>1, NothingHappened, BothHappened
<1>3. PICK callbacks : Happened(callbacks) /\ GoOn(at + 4, callbacks)
  BY <1>2 DEF OpenWtd
<1>4. mode \in {"commands", "display"} /\ at <= Len(record) /\ at + 4 \in Nat /\ at + 4 > at
  BY Inside DEF OpenWtd, AtCommand
<1>5. Advance(at + 4, callbacks)
  BY <1>3, <1>4 DEF Advance
<1> QED
  BY <1>5 DEF OpenWtd

LEMMA DisplayAdvances ==
  ASSUME TypeInv, WtdSoh \/ SkipWdsf \/ Strpccmd \/ CopyOrder
  PROVE  (\E k, callbacks : Advance(k, callbacks)) /\ display' \in Seq(Byte) /\ mode' = mode
<1>1. mode \in {"commands", "display"} /\ at \in 1..Len(record) /\ record \in Seq(Byte)
  BY Inside DEF WtdSoh, SkipWdsf, Strpccmd, CopyOrder, InDisplay
<1>2. at <= Len(record) /\ at \in Nat /\ EndOf(record) \in Nat
  BY <1>1, Payload
<1>3. \A end \in (at + 1)..EndOf(record) : \A callbacks :
        Happened(callbacks) /\ GoOn(end, callbacks) => Advance(end, callbacks)
  BY <1>1, <1>2 DEF Advance
<1>4. display \in Seq(Byte)
  BY DEF TypeInv
<1>5. CASE WtdSoh
  <2>1. PICK callbacks : Happened(callbacks) /\ GoOn(SohEnd(record, at), callbacks)
    BY <1>5, SohHappened, NothingHappened DEF WtdSoh, Skip
  <2> QED
    BY <1>1, <1>3, <1>4, <1>5, <2>1, SohExtent DEF WtdSoh, Skip
<1>6. CASE SkipWdsf
  BY <1>1, <1>3, <1>4, <1>6, WdsfExtent, NothingHappened DEF SkipWdsf, Skip
<1>7. CASE Strpccmd
  <2>1. \A wait, bytes : Happened(<<<<"StrpccmdRequested", wait, bytes>>>>)
    BY OneHappened DEF EventKinds
  <2>2. PICK callbacks : Happened(callbacks) /\ GoOn(StrpccmdEnd(record, at), callbacks)
    BY <1>7, <2>1 DEF Strpccmd, Skip
  <2> QED
    BY <1>1, <1>3, <1>4, <1>7, <2>2, StrpccmdExtent DEF Strpccmd, Skip
<1>8. CASE CopyOrder
  <2>1. OrderEnd(record, at) \in (at + 1)..EndOf(record)
    BY <1>1, OrderExtent
  <2>2. SubSeq(record, at, OrderEnd(record, at) - 1) \in Seq(Byte)
    <3>1. \A n \in at..(OrderEnd(record, at) - 1) : n \in 1..Len(record)
      BY <1>1, <1>2, <2>1, Inside
    <3>2. \A n \in at..(OrderEnd(record, at) - 1) : record[n] \in Byte
      BY <1>1, <3>1, ElementOfSeq
    <3>3. at \in Int /\ OrderEnd(record, at) - 1 \in Int
      BY <1>2, <2>1
    <3> QED
      BY <3>2, <3>3, SubSeqProperties
  <2>3. display' \in Seq(Byte)
    BY <1>4, <1>8, <2>2, ConcatProperties DEF CopyOrder
  <2> QED
    BY <1>3, <1>8, <2>1, <2>3, NothingHappened DEF CopyOrder
<1> QED
  BY <1>5, <1>6, <1>7, <1>8

LEMMA WalkKeepsTypes ==
  ASSUME TypeInv,
         \/ ClearScreen \/ ReadCommand \/ WriteErrorCode \/ Roll \/ WriteStructuredField
         \/ UnknownCommand \/ TopSoh \/ StrayByte \/ OpenWtd
         \/ WtdSoh \/ SkipWdsf \/ Strpccmd \/ CopyOrder
  PROVE  TypeInv' /\ Work' < Work
<1>1. PICK k, callbacks : Advance(k, callbacks)
  BY CommandsAdvance, OpenAdvances, DisplayAdvances
<1>2. display' \in Seq(Byte)
  BY CommandsAdvance, OpenAdvances, DisplayAdvances DEF TypeInv
<1>3. mode' = mode \/ mode' = "display"
  BY CommandsAdvance, OpenAdvances, DisplayAdvances
<1> QED
  BY <1>1, <1>2, <1>3, GoOnKeepsTypes DEF Advance

LEMMA ModesKeepTypes ==
  ASSUME TypeInv, CloseWtd \/ EndWalk
  PROVE  TypeInv' /\ Work' < Work
<1>1. CASE CloseWtd
  <2>1. UNCHANGED <<calls, fed, buffer, reported, resets, record, at, display, events>>
    BY <1>1 DEF CloseWtd, framing, walk
  <2>2. TypeInv'
    BY <1>1, <2>1 DEF CloseWtd, TypeInv, Modes, Happened, AreEvents
  <2>3. ToWalk' = ToWalk /\ Rank = 3 /\ Rank' = 2
    BY <1>1, <2>1 DEF CloseWtd, ToWalk, Rank
  <2> QED
    BY <2>1, <2>2, <2>3, WorkIsNat DEF Work
<1>2. CASE EndWalk
  <2> DEFINE entry == [record |-> record, events |-> Append(events, <<"RawScreenData", display>>)]
  <2>1. /\ reported' = Append(reported, entry) /\ mode = "commands" /\ mode' = "framing"
        /\ UNCHANGED <<calls, fed, buffer, resets, record, at, display, events>>
    BY <1>2 DEF EndWalk, walk
  <2>2. Happened(Append(events, <<"RawScreenData", display>>))
    <3>1. Happened(<<<<"RawScreenData", display>>>>)
      BY OneHappened DEF EventKinds
    <3>2. Happened(events) /\ IsSequence(events)
      BY DEF TypeInv, Happened
    <3> QED
      BY <3>1, <3>2, BothHappened, AppendIsBoth
  <2>3. entry.record \in Seq(Byte) /\ Happened(entry.events)
    BY <2>2 DEF TypeInv
  <2>4. /\ IsSequence(reported')
        /\ \A k \in DOMAIN reported' :
             reported'[k].record \in Seq(Byte) /\ Happened(reported'[k].events)
    BY <2>1, <2>3, ReportKeepsTypes
  <2>5. TypeInv'
    BY <2>1, <2>4 DEF TypeInv, Modes, Happened, AreEvents
  <2>6. ToWalk \in Nat /\ ToWalk' = 0 /\ Rank = 2 /\ Rank' = 1
    BY <2>1, WorkIsNat DEF ToWalk, Rank
  <2> QED
    BY <2>1, <2>5, <2>6, WorkIsNat DEF Work
<1> QED
  BY <1>1, <1>2

LEMMA StepKeepsTypes ==
  ASSUME TypeInv, Step
  PROVE  TypeInv' /\ Work' < Work
BY FramingKeepsTypes, WalkKeepsTypes, ModesKeepTypes DEF Step

LEMMA TypesBegin ==
  ASSUME Init
  PROVE  TypeInv
<1>1. <<>> \in Seq(Byte) /\ EndOf(<<>>) = 1 /\ 1 \in 1..1
  BY EmptySeq DEF EndOf
<1>2. IsSequence(reported) /\ DOMAIN reported = {}
  BY EmptySeq DEF Init, IsSequence
<1>3. calls \in Seq(Seq(Byte))
  BY StreamsAssumption DEF Init
<1>4. resets \in 0..MaxResets
  BY ResetsAssumption DEF Init
<1> QED
  BY <1>1, <1>2, <1>3, <1>4, NothingHappened DEF Init, TypeInv, Modes

LEMMA TypesKeep ==
  ASSUME TypeInv, [Next]_vars
  PROVE  TypeInv'
<1>1. CASE Step
  BY <1>1, StepKeepsTypes
<1>2. CASE Feed
  <2>1. Tail(calls) \in Seq(Seq(Byte)) /\ Head(calls) \in Seq(Byte)
    BY <1>2, HeadTailProperties DEF Feed, TypeInv
  <2>2. buffer' \in Seq(Byte) /\ fed' \in Seq(Byte)
    BY <1>2, <2>1, ConcatProperties DEF Feed, TypeInv
  <2>3. UNCHANGED <<record, at, display, events, reported, resets>>
    BY <1>2 DEF Feed, walk
  <2> QED
    BY <1>2, <2>1, <2>2, <2>3 DEF Feed, TypeInv, Modes, Happened, AreEvents
<1>3. CASE Reset
  <2>1. UNCHANGED <<fed, buffer, mode, reported, record, at, display, events>>
    BY <1>3 DEF Reset, walk
  <2>2. calls' \in Seq(Seq(Byte)) /\ resets' \in 0..MaxResets
    BY <1>3, StreamsAssumption, ResetsAssumption DEF Reset, TypeInv
  <2> QED
    BY <2>1, <2>2 DEF TypeInv, Happened, AreEvents
<1>4. CASE UNCHANGED vars
  BY <1>4 DEF vars, TypeInv, Happened, AreEvents
<1> QED
  BY <1>1, <1>2, <1>3, <1>4 DEF Next

LEMMA TypesHold == Spec => []TypeInv
<1>1. Init => TypeInv
  BY TypesBegin
<1>2. TypeInv /\ [Next]_vars => TypeInv'
  BY TypesKeep
<1> QED
  BY <1>1, <1>2, PTL DEF Spec

\* The buffer, the records and the display bytes are bytes, a walk is inside
\* its record, and only the callbacks of the code happen.
THEOREM TypesAreKept == Spec => []TypeOK
<1>1. TypeInv => TypeOK
  BY DEF TypeInv, TypeOK, Happened
<1> QED
  BY <1>1, TypesHold, PTL

\* Every turn of every loop of parseData uses up some of a natural number:
\* no length of zero, no order that is cut off and no unknown byte makes one
\* of them go round without an end (decoder.cpp:29-46, 104-394).
THEOREM EveryTurnUsesUp == Spec => [](Work \in Nat) /\ [][Step => Work' < Work]_vars
<1>1. TypeInv => Work \in Nat
  BY WorkIsNat
<1>2. TypeInv /\ [Next]_vars => [Step => Work' < Work]_vars
  BY StepKeepsTypes
<1> QED
  BY <1>1, <1>2, TypesHold, PTL DEF Spec

-----------------------------------------------------------------------------
(* What a record gives depends on the record alone.                        *)
(*                                                                         *)
(* A walk is a value; Goes is the turn that parseData takes next, and a    *)
(* walk that is over stays.  That each turn of Step is the one Goes names  *)
(* makes the walk's end a function of its start, and its start a function  *)
(* of the record: nothing else is left in it.                              *)

Walk(m, s, j, d, e) == [mode |-> m, record |-> s, at |-> j, display |-> d, events |-> e]

Now == Walk(mode, record, at, display, events)

Start(rec) ==
  Walk("commands", rec, PayloadStart(rec), <<>>,
       IF OpcodeOf(rec) = OpSaveScreen THEN <<<<"SaveScreen">>>> ELSE <<>>)

IsOver(m, s, j) ==
  /\ m = "commands"
  /\ \/ Left(s, j) = 0
     \/ Left(s, j) = 1 /\ s[j] \in {ESC, SOH}
     \/ Left(s, j) \in 2..3 /\ s[j] = ESC /\ s[j + 1] = CcWriteToDisplay

Over(w) == IsOver(w.mode, w.record, w.at)

SohCallbacks(s, j) == IF s[j + 1] >= 4 THEN <<<<"Soh", SohFields(s, j)>>>> ELSE <<>>

\* A command other than Write To Display: where it ends and what it reports.
CommandEnd(s, j) ==
  LET code == s[j + 1]
  IN  IF code \in {CcClearUnit, CcClearUnitAlternate, CcClearFormatTable} THEN j + 2
      ELSE IF code \in CcReadCommands THEN j + 4
      ELSE IF code = CcRoll THEN IF Left(s, j) >= 6 THEN j + 6 ELSE j + 4
      ELSE IF code = CcWriteStructuredField THEN StructuredFields(s, j + 2).end
      ELSE Until(s, j + 2, {ESC})

CommandCallbacks(s, j) ==
  LET code   == s[j + 1]
      rolled(rows) == <<<<"Roll", rows, s[j + 3] % 32, s[j + 2] >= 128>>>>
      fields == StructuredFields(s, j + 2)
  IN  IF code = CcClearUnit THEN <<<<"ClearScreen">>>>
      ELSE IF code = CcClearUnitAlternate THEN <<<<"ClearScreenAlternate">>>>
      ELSE IF code = CcClearFormatTable THEN <<<<"ClearFormatTable">>>>
      ELSE IF code \in CcReadCommands THEN <<<<"Read", code>>>>
      ELSE IF code = CcRoll
      THEN IF Left(s, j) >= 6 THEN rolled(<<RowBefore(s[j + 4]), RowBefore(s[j + 5])>>)
           ELSE IF Left(s, j) >= 4 THEN rolled(<<0, 0>>) ELSE <<>>
      ELSE IF code = CcWriteStructuredField
      THEN (IF fields.good THEN <<>> ELSE <<ParseError>>)
             \o <<<<"WriteStructuredField", SubSeq(s, j + 2, fields.end - 1)>>>>
      ELSE IF code \in CcWriteErrorCodes
      THEN <<<<"WriteErrorCode", SubSeq(s, j + 2, Until(s, j + 2, {ESC}) - 1)>>>>
      ELSE <<ParseError>>

WtdCallbacks(s, j) ==
  <<<<"ControlCharacters", s[j + 2], s[j + 3]>>>>
    \o IF UnlockBit(s[j + 3]) THEN <<<<"KeyboardUnlock">>>> ELSE <<>>

StrpccmdCallbacks(s, j) ==
  LET flag == j + StrpccmdMarkerLen
      end  == StrpccmdEnd(s, j)
  IN  <<<<"StrpccmdRequested", end > flag /\ s[flag] = 129, SubSeq(s, flag + 1, end - 1)>>>>

\* A turn of the loop over commands, and of the one inside a Write To Display.
CommandTurn(s, j, d, e) ==
  LET turn(m, k, callbacks) == Walk(m, s, Clamp(s, k), d, e \o callbacks)
  IN  IF s[j] = SOH THEN turn("commands", SohEnd(s, j), SohCallbacks(s, j))
      ELSE IF s[j] # ESC THEN turn("commands", j + 1, <<ParseError>>)
      ELSE IF s[j + 1] = CcWriteToDisplay THEN turn("display", j + 4, WtdCallbacks(s, j))
      ELSE turn("commands", CommandEnd(s, j), CommandCallbacks(s, j))

DisplayTurn(s, j, d, e) ==
  LET turn(k, copied, callbacks) == Walk("display", s, Clamp(s, k), copied, e \o callbacks)
  IN  IF Left(s, j) < 1 \/ s[j] = ESC THEN Walk("commands", s, j, d, e)
      ELSE IF s[j] = SOH
      THEN turn(SohEnd(s, j), d, IF Left(s, j) >= 2 THEN SohCallbacks(s, j) ELSE <<>>)
      ELSE IF s[j] = OrderWDSF THEN turn(WdsfEnd(s, j), d, <<>>)
      ELSE IF IsStrpccmd(s, j) THEN turn(StrpccmdEnd(s, j), d, StrpccmdCallbacks(s, j))
      ELSE turn(OrderEnd(s, j), d \o SubSeq(s, j, OrderEnd(s, j) - 1), <<>>)

Goes(w) ==
  IF Over(w) THEN w
  ELSE IF w.mode = "commands" THEN CommandTurn(w.record, w.at, w.display, w.events)
  ELSE DisplayTurn(w.record, w.at, w.display, w.events)

\* v is in every set that holds w and where w goes from there.
Reaches(w, v) == \A S : (w \in S /\ \A u \in S : Goes(u) \in S) => v \in S

\* A record that needs no walk.
AtOnce(rec) ==
  IF HeaderIsBad(rec) THEN <<ParseError>>
  ELSE IF ~IsDataRecord(rec) THEN <<<<"RawScreenData", rec>>>>
  ELSE IF OpcodeOf(rec) \in SignalOpcodes THEN <<<<SignalOf(OpcodeOf(rec))>>>>
  ELSE <<>>

EndsOnlyAt(rec, w) == Over(w) /\ \A v : Over(v) => (Reaches(Start(rec), v) <=> v = w)

Gives(rec, callbacks) ==
  IF IsDisplayRecord(rec)
  THEN \E w : EndsOnlyAt(rec, w) /\ callbacks = Append(w.events, <<"RawScreenData", w.display>>)
  ELSE callbacks = AtOnce(rec)

InWalk == mode \in {"commands", "display"}

AloneInv ==
  /\ InWalk => /\ IsDisplayRecord(record)
               /\ \A v : Over(v) => (Reaches(Start(record), v) <=> Reaches(Now, v))
  /\ \A k \in DOMAIN reported : Gives(reported[k].record, reported[k].events)

LEMMA ReachesOn ==
  ASSUME NEW w, NEW v, v # w
  PROVE  Reaches(w, v) <=> Reaches(Goes(w), v)
<1>1. ASSUME Reaches(w, v), NEW S, Goes(w) \in S, \A u \in S : Goes(u) \in S
      PROVE  v \in S
  <2>1. w \in S \cup {w} /\ \A u \in S \cup {w} : Goes(u) \in S \cup {w}
    BY <1>1
  <2>2. v \in S \cup {w}
    BY <1>1, <2>1 DEF Reaches
  <2> QED
    BY <2>2
<1>2. ASSUME Reaches(Goes(w), v), NEW S, w \in S, \A u \in S : Goes(u) \in S
      PROVE  v \in S
  BY <1>2 DEF Reaches
<1> QED
  BY <1>1, <1>2 DEF Reaches

LEMMA OverStays ==
  ASSUME NEW w, NEW v, Over(w)
  PROVE  Reaches(w, v) <=> v = w
<1>1. \A u \in {w} : Goes(u) \in {w}
  BY DEF Goes
<1> QED
  BY <1>1 DEF Reaches

\* A record gives one sequence of callbacks.
LEMMA GivesOne ==
  ASSUME NEW rec, NEW a, NEW b, Gives(rec, a), Gives(rec, b)
  PROVE  a = b
<1>1. CASE IsDisplayRecord(rec)
  <2>1. PICK v : EndsOnlyAt(rec, v) /\ a = Append(v.events, <<"RawScreenData", v.display>>)
    BY <1>1 DEF Gives
  <2>2. PICK w : EndsOnlyAt(rec, w) /\ b = Append(w.events, <<"RawScreenData", w.display>>)
    BY <1>1 DEF Gives
  <2>3. v = w
    BY <2>1, <2>2 DEF EndsOnlyAt
  <2> QED
    BY <2>1, <2>2, <2>3
<1> QED
  BY <1>1 DEF Gives

-----------------------------------------------------------------------------
(* Each turn is the one Goes names. *)

LEMMA TurnIs ==
  ASSUME NEW k, NEW callbacks, GoOn(k, callbacks)
  PROVE  Now' = Walk(mode', record, Clamp(record, k), display', events \o callbacks)
BY DEF GoOn, Now, Walk

LEMMA NowGoes ==
  /\ Over(Now) <=> IsOver(mode, record, at)
  /\ ~Over(Now) /\ mode = "commands" => Goes(Now) = CommandTurn(record, at, display, events)
  /\ ~Over(Now) /\ mode = "display" => Goes(Now) = DisplayTurn(record, at, display, events)
<1>1. /\ Now.mode = mode /\ Now.record = record /\ Now.at = at
      /\ Now.display = display /\ Now.events = events
  BY DEF Now, Walk
<1> QED
  BY <1>1 DEF Over, Goes

\* A command is reported and passed.
LEMMA CommandGoes ==
  ASSUME TypeInv, NEW codes, AtCommand(codes), CcWriteToDisplay \notin codes,
         NEW k, NEW callbacks, Command(k, callbacks),
         k = CommandEnd(record, at), callbacks = CommandCallbacks(record, at)
  PROVE  ~Over(Now) /\ Now' = Goes(Now)
<1>1. /\ mode = "commands" /\ Left(record, at) >= 2 /\ Left(record, at) \in Int
      /\ record[at] = ESC /\ record[at + 1] # CcWriteToDisplay /\ ESC # SOH
  BY Inside DEF AtCommand, Here, ESC, SOH
<1>2. ~IsOver(mode, record, at)
  BY <1>1 DEF IsOver
<1>3. Now' = Walk("commands", record, Clamp(record, k), display, events \o callbacks)
  BY <1>1, TurnIs DEF Command
<1>4. CommandTurn(record, at, display, events)
        = Walk("commands", record, Clamp(record, k), display, events \o callbacks)
  BY <1>1 DEF CommandTurn
<1> QED
  BY <1>1, <1>2, <1>3, <1>4, NowGoes

LEMMA CommandsGo ==
  ASSUME TypeInv,
         ClearScreen \/ ReadCommand \/ WriteErrorCode \/ Roll \/ WriteStructuredField \/ UnknownCommand
  PROVE  ~Over(Now) /\ Now' = Goes(Now)
<1> USE DEF CcClearUnit, CcClearUnitAlternate, CcClearFormatTable, CcReadCommands, CcRoll,
            CcWriteStructuredField, CcWriteErrorCodes, CcWriteToDisplay
<1>1. CASE ClearScreen
  <2>1. PICK code \in {CcClearUnit, CcClearUnitAlternate, CcClearFormatTable} :
          AtCommand({code}) /\ Command(at + 2, CommandCallbacks(record, at))
    BY <1>1 DEF ClearScreen, AtCommand, CommandCallbacks
  <2>2. at + 2 = CommandEnd(record, at)
    BY <2>1 DEF AtCommand, CommandEnd
  <2> QED
    BY <2>1, <2>2, CommandGoes
<1>2. CASE ReadCommand
  <2>1. /\ at + 4 = CommandEnd(record, at)
        /\ <<<<"Read", record[at + 1]>>>> = CommandCallbacks(record, at)
    BY <1>2 DEF ReadCommand, AtCommand, CommandEnd, CommandCallbacks
  <2> QED
    BY <1>2, <2>1, CommandGoes DEF ReadCommand
<1>3. CASE WriteErrorCode
  <2>1. AtCommand(CcWriteErrorCodes) /\ record[at + 1] \in CcWriteErrorCodes
    BY <1>3 DEF WriteErrorCode, AtCommand
  <2>2. Until(record, at + 2, {ESC}) = CommandEnd(record, at)
    BY <2>1 DEF CommandEnd
  <2>3. <<<<"WriteErrorCode", SubSeq(record, at + 2, Until(record, at + 2, {ESC}) - 1)>>>>
          = CommandCallbacks(record, at)
    <3>1. /\ record[at + 1] # CcClearUnit /\ record[at + 1] # CcClearUnitAlternate
          /\ record[at + 1] # CcClearFormatTable /\ record[at + 1] \notin CcReadCommands
          /\ record[at + 1] # CcRoll /\ record[at + 1] # CcWriteStructuredField
      BY <2>1
    <3> HIDE DEF CcClearUnit, CcClearUnitAlternate, CcClearFormatTable, CcReadCommands, CcRoll,
                 CcWriteStructuredField, CcWriteErrorCodes, CcWriteToDisplay
    <3> QED
      BY <2>1, <3>1, Zenon DEF CommandCallbacks
  <2>4. CcWriteToDisplay \notin CcWriteErrorCodes
    OBVIOUS
  <2>5. Command(CommandEnd(record, at), CommandCallbacks(record, at))
    BY <1>3, <2>2, <2>3 DEF WriteErrorCode
  <2> QED
    BY <2>1, <2>4, <2>5, CommandGoes
<1>4. CASE Roll
  <2>1. record[at + 1] = CcRoll /\ AtCommand({CcRoll}) /\ Left(record, at) \in Int
    BY <1>4, Inside DEF Roll, AtCommand
  <2>2. Command(CommandEnd(record, at), CommandCallbacks(record, at))
    <3>1. CASE Left(record, at) >= 6
      BY <1>4, <2>1, <3>1 DEF Roll, RollOf, CommandEnd, CommandCallbacks
    <3>2. CASE Left(record, at) \in 4..5
      BY <1>4, <2>1, <3>2 DEF Roll, RollOf, CommandEnd, CommandCallbacks
    <3>3. CASE Left(record, at) < 4
      BY <1>4, <2>1, <3>3 DEF Roll, CommandEnd, CommandCallbacks
    <3> QED
      BY <2>1, <3>1, <3>2, <3>3
  <2> QED
    BY <2>1, <2>2, CommandGoes
<1>5. CASE WriteStructuredField
  <2>1. AtCommand({CcWriteStructuredField}) /\ record[at + 1] = CcWriteStructuredField
    BY <1>5 DEF WriteStructuredField, AtCommand
  <2>2. Command(CommandEnd(record, at), CommandCallbacks(record, at))
    BY <1>5, <2>1 DEF WriteStructuredField, CommandEnd, CommandCallbacks
  <2> QED
    BY <2>1, <2>2, CommandGoes
<1>6. CASE UnknownCommand
  <2>1. AtCommand(Byte \ KnownCommands) /\ CcWriteToDisplay \notin Byte \ KnownCommands
    BY <1>6 DEF UnknownCommand, KnownCommands
  <2>2. /\ Until(record, at + 2, {ESC}) = CommandEnd(record, at)
        /\ <<ParseError>> = CommandCallbacks(record, at)
    BY <2>1 DEF AtCommand, KnownCommands, CommandEnd, CommandCallbacks
  <2> QED
    BY <1>6, <2>1, <2>2, CommandGoes DEF UnknownCommand
<1> QED
  BY <1>1, <1>2, <1>3, <1>4, <1>5, <1>6

LEMMA OthersGo ==
  ASSUME TypeInv, TopSoh \/ StrayByte \/ OpenWtd
  PROVE  ~Over(Now) /\ Now' = Goes(Now)
<1> USE DEF ESC, SOH
<1>1. CASE TopSoh
  <2>1. /\ mode = "commands" /\ record[at] = SOH /\ Left(record, at) >= 2 /\ Left(record, at) \in Int
    BY <1>1, Inside DEF TopSoh, Here
  <2>2. ~IsOver(mode, record, at)
    BY <2>1 DEF IsOver
  <2>3. Now' = Walk("commands", record, Clamp(record, SohEnd(record, at)), display,
                    events \o SohCallbacks(record, at))
    BY <1>1, <2>1, TurnIs DEF TopSoh, Command, SohEvents, SohCallbacks
  <2> QED
    BY <2>1, <2>2, <2>3, NowGoes DEF CommandTurn
<1>2. CASE StrayByte
  <2>1. /\ mode = "commands" /\ record[at] \notin {ESC, SOH} /\ Left(record, at) >= 1
        /\ Left(record, at) \in Int
    BY <1>2, Inside DEF StrayByte, Here
  <2>2. ~IsOver(mode, record, at)
    BY <2>1 DEF IsOver
  <2>3. Now' = Walk("commands", record, Clamp(record, at + 1), display, events \o <<ParseError>>)
    BY <1>2, <2>1, TurnIs DEF StrayByte, Command
  <2> QED
    BY <2>1, <2>2, <2>3, NowGoes DEF CommandTurn
<1>3. CASE OpenWtd
  <2>1. /\ mode = "commands" /\ record[at] = ESC /\ record[at + 1] = CcWriteToDisplay
        /\ Left(record, at) >= 4 /\ Left(record, at) \in Int /\ mode' = "display"
        /\ display' = display
    BY <1>3, Inside DEF OpenWtd, AtCommand, Here
  <2>2. ~IsOver(mode, record, at)
    BY <2>1 DEF IsOver
  <2>3. Now' = Walk("display", record, Clamp(record, at + 4), display,
                    events \o WtdCallbacks(record, at))
    BY <1>3, <2>1, TurnIs DEF OpenWtd, WtdCallbacks
  <2> QED
    BY <2>1, <2>2, <2>3, NowGoes DEF CommandTurn
<1> QED
  BY <1>1, <1>2, <1>3

LEMMA DisplayGoes ==
  ASSUME TypeInv, CloseWtd \/ WtdSoh \/ SkipWdsf \/ Strpccmd \/ CopyOrder
  PROVE  ~Over(Now) /\ Now' = Goes(Now)
<1> USE DEF ESC, SOH, OrderWDSF
<1>1. mode = "display" /\ Left(record, at) \in Int
  BY Inside DEF CloseWtd, WtdSoh, SkipWdsf, Strpccmd, CopyOrder, InDisplay
<1>2. ~Over(Now)
  BY <1>1, NowGoes DEF IsOver
<1>3. Goes(Now) = DisplayTurn(record, at, display, events)
  BY <1>1, <1>2, NowGoes
<1>4. CASE CloseWtd
  <2>1. Left(record, at) < 1 \/ record[at] = ESC
    BY <1>1, <1>4 DEF CloseWtd, Here
  <2>2. Now' = Walk("commands", record, at, display, events)
    BY <1>4 DEF CloseWtd, walk, Now
  <2> QED
    BY <1>2, <1>3, <2>1, <2>2 DEF DisplayTurn
<1>5. CASE WtdSoh
  <2>1. Left(record, at) >= 1 /\ record[at] = SOH /\ mode' = "display" /\ display' = display
    BY <1>1, <1>5 DEF WtdSoh, InDisplay, Here, Skip
  <2>2. Now' = Walk("display", record, Clamp(record, SohEnd(record, at)), display,
                    events \o IF Left(record, at) >= 2 THEN SohCallbacks(record, at) ELSE <<>>)
    BY <1>5, <2>1, TurnIs DEF WtdSoh, Skip, SohEvents, SohCallbacks
  <2> QED
    BY <1>1, <1>2, <1>3, <2>1, <2>2 DEF DisplayTurn
<1>6. CASE SkipWdsf
  <2>1. /\ Left(record, at) >= 1 /\ record[at] = OrderWDSF /\ mode' = "display"
        /\ display' = display
    BY <1>1, <1>6 DEF SkipWdsf, InDisplay, Here, Skip
  <2>2. Now' = Walk("display", record, Clamp(record, WdsfEnd(record, at)), display, events \o <<>>)
    BY <1>6, <2>1, TurnIs DEF SkipWdsf, Skip
  <2> QED
    BY <1>1, <1>2, <1>3, <2>1, <2>2 DEF DisplayTurn
<1>7. CASE Strpccmd
  <2>1. /\ Left(record, at) >= 1 /\ IsStrpccmd(record, at) /\ mode' = "display"
        /\ display' = display
    BY <1>1, <1>7 DEF Strpccmd, InDisplay, Skip
  <2>2. record[at] \notin {ESC, SOH, OrderWDSF}
    BY <2>1 DEF IsStrpccmd, StrpccmdTrigger
  <2>3. Now' = Walk("display", record, Clamp(record, StrpccmdEnd(record, at)), display,
                    events \o StrpccmdCallbacks(record, at))
    BY <1>7, <2>1, TurnIs DEF Strpccmd, Skip, StrpccmdCallbacks
  <2> QED
    BY <1>1, <1>2, <1>3, <2>1, <2>2, <2>3 DEF DisplayTurn
<1>8. CASE CopyOrder
  <2>1. /\ Left(record, at) >= 1 /\ record[at] \notin {ESC, SOH, OrderWDSF}
        /\ ~IsStrpccmd(record, at) /\ mode' = "display"
        /\ display' = display \o SubSeq(record, at, OrderEnd(record, at) - 1)
    BY <1>1, <1>8 DEF CopyOrder, InDisplay, IsCopied
  <2>2. Now' = Walk("display", record, Clamp(record, OrderEnd(record, at)),
                    display \o SubSeq(record, at, OrderEnd(record, at) - 1), events \o <<>>)
    BY <1>8, <2>1, TurnIs DEF CopyOrder
  <2> QED
    BY <1>1, <1>2, <1>3, <2>1, <2>2 DEF DisplayTurn
<1> QED
  BY <1>4, <1>5, <1>6, <1>7, <1>8

-----------------------------------------------------------------------------
(* The invariant. *)

LEMMA ReportGives ==
  ASSUME TypeInv, AloneInv, NEW entry, Gives(entry.record, entry.events),
         reported' = Append(reported, entry)
  PROVE  \A k \in DOMAIN reported' : Gives(reported'[k].record, reported'[k].events)
<1>1. PICK S : reported \in Seq(S)
  BY DEF TypeInv, IsSequence
<1>2. reported \in Seq(S \cup {entry}) /\ entry \in S \cup {entry}
  BY <1>1
<1>3. /\ DOMAIN reported' = 1..(Len(reported) + 1)
      /\ \A n \in 1..Len(reported) : reported'[n] = reported[n]
      /\ reported'[Len(reported) + 1] = entry
      /\ DOMAIN reported = 1..Len(reported) /\ Len(reported) \in Nat
  BY <1>2, AppendProperties, LenProperties
<1>4. \A k \in DOMAIN reported' : k \in DOMAIN reported \/ k = Len(reported) + 1
  BY <1>3
<1> HIDE DEF Gives
<1> QED
  BY <1>3, <1>4 DEF AloneInv

\* A record that needs no walk gives what AtOnce says.
LEMMA DispatchGives ==
  ASSUME TypeInv, AloneInv, RejectRecord \/ PassThrough \/ Signal \/ IgnoreRecord
  PROVE  AloneInv'
<1>1. ~IsDisplayRecord(NextRecord) /\ Dispatch(AtOnce(NextRecord))
  <2>1. CASE RejectRecord
    BY <2>1 DEF RejectRecord, IsDisplayRecord, AtOnce
  <2>2. CASE PassThrough
    BY <2>2 DEF PassThrough, IsDisplayRecord, AtOnce
  <2>3. CASE Signal
    BY <2>3, OpcodesAreApart DEF Signal, HasOpcodeIn, IsDisplayRecord, AtOnce
  <2>4. CASE IgnoreRecord
    BY <2>4 DEF IgnoreRecord, HasOpcodeIn, IsDisplayRecord, AtOnce
  <2> QED
    BY <2>1, <2>2, <2>3, <2>4
<1> DEFINE entry == [record |-> NextRecord, events |-> AtOnce(NextRecord)]
<1>2. reported' = Append(reported, entry) /\ mode' = "framing"
  BY <1>1 DEF Dispatch, TakeRecord
<1>3. Gives(entry.record, entry.events)
  BY <1>1 DEF Gives
<1>4. \A k \in DOMAIN reported' : Gives(reported'[k].record, reported'[k].events)
  BY <1>2, <1>3, ReportGives
<1> QED
  BY <1>2, <1>4 DEF AloneInv, InWalk

LEMMA BeginWalkAlone ==
  ASSUME AloneInv, BeginWalk
  PROVE  AloneInv'
<1>1. /\ record' = NextRecord /\ Now' = Start(NextRecord) /\ reported' = reported
  BY DEF BeginWalk, Now, Start
<1>2. IsDisplayRecord(NextRecord)
  BY DEF BeginWalk, HasOpcodeIn, IsDisplayRecord
<1> QED
  BY <1>1, <1>2 DEF AloneInv

LEMMA WalkAlone ==
  ASSUME TypeInv, AloneInv,
         \/ ClearScreen \/ ReadCommand \/ WriteErrorCode \/ Roll \/ WriteStructuredField
         \/ UnknownCommand \/ TopSoh \/ StrayByte \/ OpenWtd
         \/ CloseWtd \/ WtdSoh \/ SkipWdsf \/ Strpccmd \/ CopyOrder
  PROVE  AloneInv'
<1>1. ~Over(Now) /\ Now' = Goes(Now)
  BY CommandsGo, OthersGo, DisplayGoes
<1>2. record' = record /\ reported' = reported /\ InWalk
  <2>1. CASE CloseWtd
    BY <2>1 DEF CloseWtd, framing, walk, InWalk
  <2>2. CASE ~CloseWtd
    <3>1. PICK k, callbacks : Advance(k, callbacks)
      BY <2>2, CommandsAdvance, OpenAdvances, DisplayAdvances
    <3> QED
      BY <3>1 DEF Advance, GoOn, framing, InWalk
  <2> QED
    BY <2>1, <2>2
<1>3. ASSUME NEW v, Over(v)
      PROVE  Reaches(Start(record), v) <=> Reaches(Now', v)
  <2>1. v # Now
    BY <1>1, <1>3
  <2>2. Reaches(Start(record), v) <=> Reaches(Now, v)
    BY <1>2, <1>3 DEF AloneInv
  <2> QED
    BY <1>1, <2>1, <2>2, ReachesOn
<1> QED
  BY <1>2, <1>3 DEF AloneInv

LEMMA EndWalkGives ==
  ASSUME TypeInv, AloneInv, EndWalk
  PROVE  AloneInv'
<1> DEFINE entry == [record |-> record, events |-> Append(events, <<"RawScreenData", display>>)]
<1>1. /\ reported' = Append(reported, entry) /\ mode = "commands" /\ mode' = "framing"
      /\ InWalk /\ WalkIsOver
  BY DEF EndWalk, InWalk
<1>2. Over(Now)
  <2>1. Left(record, at) \in Int
    BY Inside
  <2>2. IsOver(mode, record, at)
    BY <1>1, <2>1 DEF WalkIsOver, AtCommand, Here, IsOver
  <2> QED
    BY <2>2, NowGoes
<1>3. EndsOnlyAt(record, Now)
  BY <1>1, <1>2, OverStays DEF AloneInv, EndsOnlyAt
<1>4. entry.events = Append(Now.events, <<"RawScreenData", Now.display>>)
  BY DEF Now, Walk
<1>5. Gives(entry.record, entry.events)
  BY <1>1, <1>3, <1>4 DEF AloneInv, Gives
<1>6. \A k \in DOMAIN reported' : Gives(reported'[k].record, reported'[k].events)
  BY <1>1, <1>5, ReportGives
<1> QED
  BY <1>1, <1>6 DEF AloneInv, InWalk

LEMMA AloneBegins ==
  ASSUME Init
  PROVE  AloneInv
<1>1. DOMAIN <<>> = {}
  BY EmptySeq
<1> QED
  BY <1>1 DEF Init, AloneInv, InWalk

LEMMA AloneKeeps ==
  ASSUME TypeInv, AloneInv, [Next]_vars
  PROVE  AloneInv'
<1>1. CASE Step
  <2>1. CASE SkipByte \/ Return
    BY <2>1 DEF SkipByte, Return, framing, AloneInv, InWalk
  <2> QED
    BY <1>1, <2>1, DispatchGives, BeginWalkAlone, WalkAlone, EndWalkGives DEF Step
<1>2. CASE Feed \/ Reset
  BY <1>2 DEF Feed, Reset, AloneInv, InWalk
<1>3. CASE UNCHANGED vars
  BY <1>3 DEF vars, AloneInv, InWalk, Now
<1> QED
  BY <1>1, <1>2, <1>3 DEF Next

LEMMA RecordsStandAlone == Spec => []AloneInv
<1>1. Init => AloneInv
  BY AloneBegins
<1>2. TypeInv /\ AloneInv /\ [Next]_vars => AloneInv'
  BY AloneKeeps
<1> QED
  BY <1>1, <1>2, TypesHold, PTL DEF Spec

\* What a record gives depends on that record alone, whatever came before it,
\* however it was cut and however often the decoder was reset: no display
\* byte, callback or open Write To Display of one record is left in the next
\* (decoder.cpp:101-103, 399-403).
THEOREM NothingIsLeft == Spec => []NothingCarriesOver
<1>1. AloneInv => NothingCarriesOver
  BY GivesOne DEF AloneInv, NothingCarriesOver
<1> QED
  BY <1>1, RecordsStandAlone, PTL

-----------------------------------------------------------------------------
(* The records of a stream, from each of its positions on. *)

LengthHere(s, k) == 256 * s[k] + s[k + 1]

Unroll(s, g) ==
  [k \in 1..EndOf(s) |->
     IF Left(s, k) < GdsMinRecordLen THEN <<>>
     ELSE IF LengthHere(s, k) < GdsMinRecordLen THEN g[k + 1]
     ELSE IF LengthHere(s, k) > Left(s, k) THEN <<>>
     ELSE <<SubSeq(s, k, k + LengthHere(s, k) - 1)>> \o g[k + LengthHere(s, k)]]

RecordsFrom(s) == CHOOSE g : g = Unroll(s, g)

LEMMA RecordsAreFromOne == \A s : RecordsOf(s) = RecordsFrom(s)[1]
BY DEF RecordsOf, RecordsFrom, Unroll, LengthHere

LEMMA LengthAt ==
  ASSUME NEW s \in Seq(Byte), NEW k \in 1..EndOf(s), Left(s, k) >= GdsMinRecordLen
  PROVE  LengthHere(s, k) \in Nat
<1>1. s[k] \in Nat /\ s[k + 1] \in Nat
  BY Payload DEF Left, GdsMinRecordLen
<1>2. 256 * s[k] + s[k + 1] \in Nat
  BY <1>1
<1> QED
  BY <1>2 DEF LengthHere

LEMMA UnrollTypes ==
  ASSUME NEW s \in Seq(Byte), NEW g \in [1..EndOf(s) -> Seq(Seq(Byte))]
  PROVE  Unroll(s, g) \in [1..EndOf(s) -> Seq(Seq(Byte))]
<1>1. ASSUME NEW k \in 1..EndOf(s)
      PROVE  Unroll(s, g)[k] \in Seq(Seq(Byte))
  <2> DEFINE len == LengthHere(s, k)
  <2>1. <<>> \in Seq(Seq(Byte))
    BY EmptySeq
  <2>2. CASE Left(s, k) < GdsMinRecordLen
    BY <2>1, <2>2 DEF Unroll
  <2>3. CASE Left(s, k) >= GdsMinRecordLen /\ len < GdsMinRecordLen
    <3>1. k + 1 \in 1..EndOf(s)
      BY <2>3, Payload DEF Left, GdsMinRecordLen
    <3>2. Unroll(s, g)[k] = g[k + 1]
      BY <2>3, Payload DEF Unroll, GdsMinRecordLen, Left
    <3> QED
      BY <3>1, <3>2
  <2>4. CASE Left(s, k) >= GdsMinRecordLen /\ len >= GdsMinRecordLen /\ len > Left(s, k)
    BY <2>1, <2>4, LengthAt, Payload DEF Unroll, GdsMinRecordLen, Left
  <2>5. CASE Left(s, k) >= GdsMinRecordLen /\ len >= GdsMinRecordLen /\ len <= Left(s, k)
    <3>1. len \in Nat
      BY <2>5, LengthAt
    <3>2. Unroll(s, g)[k] = <<SubSeq(s, k, k + len - 1)>> \o g[k + len]
      BY <2>5, <3>1, Payload DEF Unroll, GdsMinRecordLen, Left
    <3> HIDE DEF len
    <3>3. k + len \in 1..EndOf(s)
      BY <2>5, <3>1, Payload DEF Left
    <3>4. SubSeq(s, k, k + len - 1) \in Seq(Byte)
      <4>1. \A n \in k..(k + len - 1) : s[n] \in Byte
        <5>1. \A n \in k..(k + len - 1) : n \in 1..Len(s)
          BY <3>1, <3>3, Payload
        <5> QED
          BY <5>1, ElementOfSeq
      <4> QED
        BY <3>1, <4>1, SubSeqProperties
    <3>5. <<SubSeq(s, k, k + len - 1)>> \in Seq(Seq(Byte)) /\ g[k + len] \in Seq(Seq(Byte))
      BY <3>3, <3>4
    <3> QED
      BY <3>2, <3>5, ConcatProperties
  <2>6. Left(s, k) \in Nat
    BY Payload DEF Left
  <2>7. Left(s, k) >= GdsMinRecordLen => len \in Nat
    BY LengthAt
  <2> HIDE DEF len
  <2> QED
    BY <2>2, <2>3, <2>4, <2>5, <2>6, <2>7 DEF GdsMinRecordLen
<1>2. Unroll(s, g) = [k \in 1..EndOf(s) |-> Unroll(s, g)[k]]
  BY DEF Unroll
<1> QED
  BY <1>1, <1>2

\* What is unrolled at a position, case by case.
LEMMA UnrollCases ==
  ASSUME NEW s \in Seq(Byte), NEW g, NEW k \in 1..EndOf(s)
  PROVE  /\ Left(s, k) < GdsMinRecordLen => Unroll(s, g)[k] = <<>>
         /\ Left(s, k) >= GdsMinRecordLen =>
              /\ LengthHere(s, k) < GdsMinRecordLen =>
                   k + 1 \in (k + 1)..EndOf(s) /\ Unroll(s, g)[k] = g[k + 1]
              /\ LengthHere(s, k) > Left(s, k) => Unroll(s, g)[k] = <<>>
              /\ LengthHere(s, k) \in GdsMinRecordLen..Left(s, k) =>
                   /\ k + LengthHere(s, k) \in (k + 1)..EndOf(s)
                   /\ Unroll(s, g)[k] =
                        <<SubSeq(s, k, k + LengthHere(s, k) - 1)>> \o g[k + LengthHere(s, k)]
<1> DEFINE len == LengthHere(s, k)
<1>1. Left(s, k) \in Nat /\ Left(s, k) = EndOf(s) - k
  BY Payload DEF Left
<1>2. Left(s, k) < GdsMinRecordLen => Unroll(s, g)[k] = <<>>
  BY DEF Unroll
<1>3. ASSUME Left(s, k) >= GdsMinRecordLen
      PROVE  /\ len \in Nat
             /\ len < GdsMinRecordLen => k + 1 \in (k + 1)..EndOf(s) /\ Unroll(s, g)[k] = g[k + 1]
             /\ len > Left(s, k) => Unroll(s, g)[k] = <<>>
             /\ len \in GdsMinRecordLen..Left(s, k) =>
                       /\ k + len \in (k + 1)..EndOf(s)
                       /\ Unroll(s, g)[k] = <<SubSeq(s, k, k + len - 1)>> \o g[k + len]
  <2>1. len \in Nat
    BY <1>3, LengthAt
  <2>2. ~(Left(s, k) < GdsMinRecordLen)
    BY <1>1, <1>3 DEF GdsMinRecordLen
  <2>3. Unroll(s, g)[k] =
          IF len < GdsMinRecordLen THEN g[k + 1]
          ELSE IF len > Left(s, k) THEN <<>>
          ELSE <<SubSeq(s, k, k + len - 1)>> \o g[k + len]
    BY <2>2 DEF Unroll
  <2> HIDE DEF len
  <2>4. len < GdsMinRecordLen => k + 1 \in (k + 1)..EndOf(s)
    BY <1>1, <1>3, Payload DEF GdsMinRecordLen
  <2>5. len > Left(s, k) => ~(len < GdsMinRecordLen)
    BY <1>1, <1>3, <2>1 DEF GdsMinRecordLen
  <2>6. len \in GdsMinRecordLen..Left(s, k) =>
          ~(len < GdsMinRecordLen) /\ ~(len > Left(s, k)) /\ k + len \in (k + 1)..EndOf(s)
    BY <1>1, <1>3, <2>1, Payload DEF GdsMinRecordLen
  <2> QED
    BY <2>1, <2>3, <2>4, <2>5, <2>6
<1> QED
  BY <1>2, <1>3

LEMMA RecordsFromTypes ==
  ASSUME NEW s \in Seq(Byte)
  PROVE  /\ RecordsFrom(s) \in [1..EndOf(s) -> Seq(Seq(Byte))]
         /\ RecordsFrom(s) = Unroll(s, RecordsFrom(s))
<1> DEFINE b == EndOf(s)
           X == Seq(Seq(Byte))
           F == [g \in [1..b -> X] |-> Unroll(s, g)]
<1>1. b \in Nat /\ X # {}
  BY Payload, EmptySeq
<1>2. LooksAhead(F, b, X)
  <2>1. F \in [[1..b -> X] -> [1..b -> X]]
    BY UnrollTypes
  <2>2. ASSUME NEW g \in [1..b -> X], NEW h \in [1..b -> X], NEW k \in 1..b,
               \A m \in (k + 1)..b : g[m] = h[m]
        PROVE  F[g][k] = F[h][k]
    <3> DEFINE len == LengthHere(s, k)
    <3>1. Left(s, k) \in Nat /\ (Left(s, k) >= GdsMinRecordLen => len \in Nat)
      BY Payload, LengthAt DEF Left
    <3>2. Unroll(s, g)[k] = Unroll(s, h)[k]
      <4>1. CASE Left(s, k) < GdsMinRecordLen
        BY <4>1, UnrollCases
      <4>2. CASE Left(s, k) >= GdsMinRecordLen /\ len < GdsMinRecordLen
        <5>1. k + 1 \in (k + 1)..b /\ Unroll(s, g)[k] = g[k + 1] /\ Unroll(s, h)[k] = h[k + 1]
          BY <4>2, UnrollCases
        <5> QED
          BY <2>2, <5>1
      <4>3. CASE Left(s, k) >= GdsMinRecordLen /\ len > Left(s, k)
        BY <4>3, UnrollCases
      <4>4. CASE Left(s, k) >= GdsMinRecordLen /\ len \in GdsMinRecordLen..Left(s, k)
        <5>1. /\ k + len \in (k + 1)..b
              /\ Unroll(s, g)[k] = <<SubSeq(s, k, k + len - 1)>> \o g[k + len]
              /\ Unroll(s, h)[k] = <<SubSeq(s, k, k + len - 1)>> \o h[k + len]
          BY <4>4, UnrollCases
        <5> HIDE DEF len, b
        <5>2. g[k + len] = h[k + len]
          BY <2>2, <5>1
        <5> QED
          BY <5>1, <5>2
      <4> HIDE DEF len
      <4> QED
        BY <3>1, <4>1, <4>2, <4>3, <4>4 DEF GdsMinRecordLen
    <3> QED
      BY <3>2
  <2> HIDE DEF F, b, X
  <2> QED
    BY <2>1, <2>2 DEF LooksAhead
<1>3. \E g \in [1..b -> X] : F[g] = g
  <2> HIDE DEF F, b, X
  <2>1. HasFixpoint(F, b, X)
    BY <1>1, <1>2, Fixpoint, Zenon
  <2> QED
    BY <2>1 DEF HasFixpoint
<1>4. \E g : g = Unroll(s, g)
  <2> HIDE DEF X, b
  <2> QED BY <1>3
<1>5. RecordsFrom(s) = Unroll(s, RecordsFrom(s))
  BY <1>4 DEF RecordsFrom
<1> DEFINE f == RecordsFrom(s)
           S == {k \in 1..b : f[k] \in X}
<1>6. ASSUME NEW k \in 1..b, \A m \in (k + 1)..b : m \in S
      PROVE  k \in S
  <2> DEFINE len == LengthHere(s, k)
  <2> SUFFICES f[k] \in X
    OBVIOUS
  <2>1. Left(s, k) \in Nat /\ (Left(s, k) >= GdsMinRecordLen => len \in Nat)
    BY Payload, LengthAt DEF Left
  <2>2. <<>> \in X /\ f[k] = Unroll(s, f)[k]
    BY <1>5, EmptySeq
  <2>3. CASE Left(s, k) < GdsMinRecordLen
    BY <2>2, <2>3, UnrollCases
  <2>4. CASE Left(s, k) >= GdsMinRecordLen /\ len < GdsMinRecordLen
    <3>1. k + 1 \in (k + 1)..b /\ Unroll(s, f)[k] = f[k + 1]
      BY <2>4, UnrollCases
    <3>2. k + 1 \in S
      BY <1>6, <3>1
    <3> QED
      BY <2>2, <3>1, <3>2
  <2>5. CASE Left(s, k) >= GdsMinRecordLen /\ len > Left(s, k)
    BY <2>2, <2>5, UnrollCases
  <2>6. CASE Left(s, k) >= GdsMinRecordLen /\ len \in GdsMinRecordLen..Left(s, k)
    <3>1. /\ k + len \in (k + 1)..b
          /\ Unroll(s, f)[k] = <<SubSeq(s, k, k + len - 1)>> \o f[k + len]
      BY <2>6, UnrollCases
    <3> HIDE DEF len
    <3>2. k + len \in S
      BY <1>6, <3>1
    <3>3. \A n \in k..(k + len - 1) : s[n] \in Byte
      <4>1. \A n \in k..(k + len - 1) : n \in 1..Len(s)
        BY <2>1, <2>6, <3>1, Payload
      <4> QED
        BY <4>1, ElementOfSeq
    <3>4. SubSeq(s, k, k + len - 1) \in Seq(Byte)
      BY <2>1, <2>6, <3>3, SubSeqProperties
    <3>5. <<SubSeq(s, k, k + len - 1)>> \in X /\ f[k + len] \in X
      BY <3>2, <3>4
    <3> QED
      <4> HIDE DEF f
      <4> QED BY <2>2, <3>1, <3>5, ConcatProperties
  <2> HIDE DEF len, f, X
  <2> QED
    BY <2>1, <2>3, <2>4, <2>5, <2>6 DEF GdsMinRecordLen
<1>7. 1..b \subseteq S
  <2> HIDE DEF S, b
  <2> QED BY <1>1, <1>6, Backwards
<1>8. f = [k \in 1..b |-> f[k]]
  <2>1. f = Unroll(s, f)
    BY <1>5
  <2> HIDE DEF f
  <2> QED
    BY <2>1 DEF Unroll
<1>9. f \in [1..b -> X]
  <2>1. \A k \in 1..b : f[k] \in X
    BY <1>7
  <2> HIDE DEF f, X, b
  <2> QED
    BY <1>8, <2>1
<1> QED
  BY <1>5, <1>9

\* The records from a position on are those of the rest of the stream.
LEMMA RestOfStream ==
  ASSUME NEW s \in Seq(Byte), NEW d \in 0..Len(s)
  PROVE  LET t == SubSeq(s, d + 1, Len(s))
         IN  /\ t \in Seq(Byte) /\ Len(t) = Len(s) - d
             /\ RecordsFrom(s)[d + 1] = RecordsOf(t)
<1> DEFINE t == SubSeq(s, d + 1, Len(s))
           b == EndOf(t)
           f == RecordsFrom(s)
           g == RecordsFrom(t)
           S == {m \in 1..b : f[d + m] = g[m]}
<1>1. Len(s) \in Nat /\ d \in Nat /\ d <= Len(s)
  BY Payload
<1>2. t \in Seq(Byte) /\ Len(t) = Len(s) - d /\ \A i \in 1..(Len(s) - d) : t[i] = s[d + i]
  <2>1. \A n \in (d + 1)..Len(s) : s[n] \in Byte
    <3>1. \A n \in (d + 1)..Len(s) : n \in 1..Len(s)
      BY <1>1
    <3> QED
      BY <3>1, ElementOfSeq
  <2>2. /\ t \in Seq(Byte)
        /\ Len(t) = IF d + 1 <= Len(s) THEN Len(s) - (d + 1) + 1 ELSE 0
        /\ \A i \in 1..(Len(s) - (d + 1) + 1) : t[i] = s[d + 1 + i - 1]
    BY <1>1, <2>1, SubSeqProperties
  <2>3. Len(t) = Len(s) - d
    BY <1>1, <2>2
  <2>4. \A i \in 1..(Len(s) - d) : d + 1 + i - 1 = d + i /\ i \in 1..(Len(s) - (d + 1) + 1)
    BY <1>1
  <2>5. \A i \in 1..(Len(s) - d) : t[i] = s[d + i]
    <3> HIDE DEF t
    <3> QED BY <2>2, <2>4
  <2> QED
    BY <2>2, <2>3, <2>5
<1> HIDE DEF t
<1>3. b = Len(s) - d + 1 /\ b \in Nat /\ EndOf(s) = Len(s) + 1
  BY <1>1, <1>2 DEF EndOf
<1>4. f = Unroll(s, f) /\ g = Unroll(t, g)
  BY <1>2, RecordsFromTypes
<1>5. ASSUME NEW m \in 1..b, \A n \in (m + 1)..b : n \in S
      PROVE  m \in S
  <2> DEFINE len == LengthHere(t, m)
  <2>1. d + m \in 1..EndOf(s) /\ Left(s, d + m) = Left(t, m) /\ Left(t, m) \in Nat
        /\ Left(t, m) = b - m
    BY <1>1, <1>3 DEF Left
  <2>2. f[d + m] = Unroll(s, f)[d + m] /\ g[m] = Unroll(t, g)[m]
    BY <1>4
  <2>3. Left(t, m) >= GdsMinRecordLen => len \in Nat /\ LengthHere(s, d + m) = len
    <3>1. ASSUME Left(t, m) >= GdsMinRecordLen
          PROVE  m \in 1..(Len(s) - d) /\ m + 1 \in 1..(Len(s) - d)
      BY <1>1, <1>3, <2>1, <3>1 DEF GdsMinRecordLen
    <3>2. ASSUME Left(t, m) >= GdsMinRecordLen
          PROVE  t[m] = s[d + m] /\ t[m + 1] = s[d + m + 1]
      <4>1. d + (m + 1) = d + m + 1
        BY <1>1
      <4>2. m \in 1..(Len(s) - d) /\ m + 1 \in 1..(Len(s) - d)
        BY <3>1, <3>2
      <4>3. t[m] = s[d + m] /\ t[m + 1] = s[d + (m + 1)]
        BY <1>2, <4>2
      <4> QED
        BY <4>1, <4>3
    <3> QED
      BY <1>2, <3>2, LengthAt DEF LengthHere
  <2> HIDE DEF f, g, b
  <2>4. \A k \in (m + 1)..b : f[d + k] = g[k]
    BY <1>5
  <2>5. f[d + m] = g[m]
    <3>1. CASE Left(t, m) < GdsMinRecordLen
      <4>1. Unroll(s, f)[d + m] = <<>>
        BY <2>1, <3>1, UnrollCases
      <4>2. Unroll(t, g)[m] = <<>>
        BY <1>2, <3>1, UnrollCases DEF b
      <4> QED
        BY <2>2, <4>1, <4>2
    <3>2. CASE Left(t, m) >= GdsMinRecordLen /\ len < GdsMinRecordLen
      <4>1. m + 1 \in (m + 1)..b /\ Unroll(t, g)[m] = g[m + 1]
        BY <1>2, <3>2, UnrollCases DEF b
      <4>2. Unroll(s, f)[d + m] = f[d + m + 1]
        BY <2>1, <2>3, <3>2, UnrollCases
      <4>3. d + m + 1 = d + (m + 1)
        BY <1>1
      <4> QED
        BY <2>2, <2>4, <4>1, <4>2, <4>3
    <3>3. CASE Left(t, m) >= GdsMinRecordLen /\ len > Left(t, m)
      <4>1. Unroll(t, g)[m] = <<>>
        BY <1>2, <3>3, UnrollCases DEF b
      <4>2. Unroll(s, f)[d + m] = <<>>
        BY <2>1, <2>3, <3>3, UnrollCases
      <4> QED
        BY <2>2, <4>1, <4>2
    <3>4. CASE Left(t, m) >= GdsMinRecordLen /\ len \in GdsMinRecordLen..Left(t, m)
      <4>1. /\ m + len \in (m + 1)..b
            /\ Unroll(t, g)[m] = <<SubSeq(t, m, m + len - 1)>> \o g[m + len]
        BY <1>2, <3>4, UnrollCases DEF b
      <4>2. Unroll(s, f)[d + m] = <<SubSeq(s, d + m, d + m + len - 1)>> \o f[d + m + len]
        BY <2>1, <2>3, <3>4, UnrollCases
      <4>3. d + m + len = d + (m + len) /\ f[d + (m + len)] = g[m + len]
        <5> HIDE DEF len
        <5>1. d + m + len = d + (m + len)
          BY <1>1, <2>3, <3>4
        <5> QED
          BY <2>4, <4>1, <5>1
      <4>4. SubSeq(t, m, m + len - 1) = SubSeq(s, d + m, d + m + len - 1)
        <5> HIDE DEF len
        <5> DEFINE p == m + len - 1
                   q == d + m + len - 1
        <5>1. /\ len \in Nat /\ m \in Int /\ d + m \in Int /\ p \in Int /\ q \in Int
              /\ p - m = q - (d + m) /\ p - m = len - 1
          BY <1>1, <2>3, <3>4
        <5>2. ASSUME NEW k \in 0..(p - m)
              PROVE  t[m + k] \in Byte /\ t[m + k] = s[d + m + k]
          <6>1. m + k \in 1..(Len(s) - d)
            BY <1>1, <1>3, <4>1, <5>1
          <6>2. d + m + k = d + (m + k)
            BY <1>1, <5>1
          <6>3. t[m + k] = s[d + (m + k)] /\ t[m + k] \in Byte
            BY <1>2, <6>1, ElementOfSeq
          <6> QED
            BY <6>2, <6>3
        <5> HIDE DEF p, q
        <5>3. IsSameSlice(t, m, p, s, d + m, q)
          BY <5>1, <5>2, SameSlice
        <5> QED
          BY <5>3 DEF p, q, IsSameSlice
      <4> QED
        BY <2>2, <4>1, <4>2, <4>3, <4>4
    <3> HIDE DEF len
    <3> QED
      BY <2>1, <2>3, <3>1, <3>2, <3>3, <3>4 DEF GdsMinRecordLen
  <2> QED
    BY <2>5
<1>6. 1..b \subseteq S
  <2> HIDE DEF S, b
  <2> QED BY <1>3, <1>5, Backwards
<1>7. 1 \in S
  BY <1>1, <1>3, <1>6
<1>8. f[d + 1] = RecordsOf(t)
  BY <1>7, RecordsAreFromOne
<1> QED
  BY <1>2, <1>8 DEF t

\* One turn of the reading.
LEMMA OneTurn ==
  ASSUME NEW s \in Seq(Byte)
  PROVE  /\ RecordsOf(s) \in Seq(Seq(Byte))
         /\ Len(s) < GdsMinRecordLen => RecordsOf(s) = <<>>
         /\ Len(s) >= GdsMinRecordLen =>
              /\ LengthHere(s, 1) \in Nat
              /\ LengthHere(s, 1) < GdsMinRecordLen => RecordsOf(s) = RecordsOf(Tail(s))
              /\ LengthHere(s, 1) > Len(s) => RecordsOf(s) = <<>>
              /\ LengthHere(s, 1) \in GdsMinRecordLen..Len(s) =>
                   RecordsOf(s) = <<SubSeq(s, 1, LengthHere(s, 1))>>
                                    \o RecordsOf(SubSeq(s, LengthHere(s, 1) + 1, Len(s)))
<1> DEFINE f == RecordsFrom(s)
           len == LengthHere(s, 1)
<1>1. f \in [1..EndOf(s) -> Seq(Seq(Byte))] /\ f = Unroll(s, f) /\ RecordsOf(s) = f[1]
  BY RecordsFromTypes, RecordsAreFromOne
<1>2. 1 \in 1..EndOf(s) /\ Left(s, 1) = Len(s) /\ Len(s) \in Nat /\ EndOf(s) = Len(s) + 1
  BY Payload DEF Left
<1> HIDE DEF f
<1>3. RecordsOf(s) \in Seq(Seq(Byte)) /\ RecordsOf(s) = Unroll(s, f)[1]
  BY <1>1, <1>2
<1>4. Len(s) < GdsMinRecordLen => RecordsOf(s) = <<>>
  BY <1>2, <1>3, UnrollCases
<1>5. ASSUME Len(s) >= GdsMinRecordLen
      PROVE  /\ len \in Nat
             /\ len < GdsMinRecordLen => RecordsOf(s) = RecordsOf(Tail(s))
             /\ len > Len(s) => RecordsOf(s) = <<>>
             /\ len \in GdsMinRecordLen..Len(s) =>
                   RecordsOf(s) = <<SubSeq(s, 1, len)>> \o RecordsOf(SubSeq(s, len + 1, Len(s)))
  <2>1. Left(s, 1) >= GdsMinRecordLen /\ len \in Nat
    BY <1>2, <1>5, LengthAt
  <2>2. ASSUME len < GdsMinRecordLen
        PROVE  RecordsOf(s) = RecordsOf(Tail(s))
    <3>1. Unroll(s, f)[1] = f[1 + 1]
      BY <1>2, <2>1, <2>2, UnrollCases
    <3>2. 1 \in 0..Len(s) /\ s # <<>>
      BY <1>2, <1>5, EmptySeq DEF GdsMinRecordLen
    <3>3. f[1 + 1] = RecordsOf(SubSeq(s, 1 + 1, Len(s)))
      BY <3>2, RestOfStream DEF f
    <3>4. Tail(s) = SubSeq(s, 2, Len(s))
      BY <3>2, TailIsSubSeq
    <3> QED
      <4>1. 1 + 1 = 2
        OBVIOUS
      <4> QED
        BY <1>3, <3>1, <3>3, <3>4, <4>1
  <2>3. ASSUME len > Len(s)
        PROVE  RecordsOf(s) = <<>>
    BY <1>2, <1>3, <2>1, <2>3, UnrollCases
  <2>4. ASSUME len \in GdsMinRecordLen..Len(s)
        PROVE  RecordsOf(s) = <<SubSeq(s, 1, len)>> \o RecordsOf(SubSeq(s, len + 1, Len(s)))
    <3>1. Unroll(s, f)[1] = <<SubSeq(s, 1, 1 + len - 1)>> \o f[1 + len]
      BY <1>2, <2>1, <2>4, UnrollCases
    <3> HIDE DEF len
    <3>2. 1 + len - 1 = len /\ 1 + len = len + 1 /\ len \in 0..Len(s)
      BY <1>2, <2>1, <2>4
    <3>3. f[len + 1] = RecordsOf(SubSeq(s, len + 1, Len(s)))
      BY <3>2, RestOfStream DEF f
    <3> QED
      BY <1>3, <3>1, <3>2, <3>3
  <2> QED
    BY <2>1, <2>2, <2>3, <2>4
<1> QED
  BY <1>3, <1>4, <1>5

-----------------------------------------------------------------------------
(* More bytes behind the buffer change nothing in front of them. *)

LEMMA RestOfMore ==
  ASSUME NEW s \in Seq(Byte), NEW x \in Seq(Byte), NEW n \in 0..Len(s)
  PROVE  /\ SubSeq(s \o x, n + 1, Len(s \o x)) = SubSeq(s, n + 1, Len(s)) \o x
         /\ SubSeq(s \o x, 1, n) = SubSeq(s, 1, n)
         /\ SubSeq(s, n + 1, Len(s)) \in Seq(Byte)
<1> DEFINE u == SubSeq(s \o x, n + 1, Len(s \o x))
           v == SubSeq(s, n + 1, Len(s))
<1>1. /\ s \o x \in Seq(Byte) /\ Len(s \o x) = Len(s) + Len(x)
      /\ \A i \in 1..(Len(s) + Len(x)) : (s \o x)[i] = IF i <= Len(s) THEN s[i] ELSE x[i - Len(s)]
      /\ Len(s) \in Nat /\ Len(x) \in Nat
  BY ConcatProperties, LenProperties
<1>2. u \in Seq(Byte) /\ Len(u) = Len(s) + Len(x) - n
      /\ \A i \in 1..(Len(s) + Len(x) - n) : u[i] = (s \o x)[n + i]
  <2>1. \A i \in (n + 1)..Len(s \o x) : (s \o x)[i] \in Byte
    <3>1. \A i \in (n + 1)..Len(s \o x) : i \in 1..Len(s \o x)
      BY <1>1
    <3> QED
      BY <1>1, <3>1, ElementOfSeq
  <2>2. n + 1 \in Int /\ Len(s \o x) \in Int
    BY <1>1
  <2>3. /\ u \in Seq(Byte)
        /\ Len(u) = IF n + 1 <= Len(s \o x) THEN Len(s \o x) - (n + 1) + 1 ELSE 0
        /\ \A i \in 1..(Len(s \o x) - (n + 1) + 1) : u[i] = (s \o x)[n + 1 + i - 1]
    BY <2>1, <2>2, SubSeqProperties
  <2> HIDE DEF u
  <2>4. \A i \in 1..(Len(s) + Len(x) - n) :
          n + 1 + i - 1 = n + i /\ i \in 1..(Len(s \o x) - (n + 1) + 1)
    BY <1>1
  <2>5. Len(u) = Len(s) + Len(x) - n
    BY <1>1, <2>3
  <2> QED
    BY <2>3, <2>4, <2>5
<1>3. v \in Seq(Byte) /\ Len(v) = Len(s) - n /\ \A i \in 1..(Len(s) - n) : v[i] = s[n + i]
  <2>1. \A i \in (n + 1)..Len(s) : s[i] \in Byte
    <3>1. \A i \in (n + 1)..Len(s) : i \in 1..Len(s)
      BY <1>1
    <3> QED
      BY <3>1, ElementOfSeq
  <2>2. /\ v \in Seq(Byte)
        /\ Len(v) = IF n + 1 <= Len(s) THEN Len(s) - (n + 1) + 1 ELSE 0
        /\ \A i \in 1..(Len(s) - (n + 1) + 1) : v[i] = s[n + 1 + i - 1]
    BY <1>1, <2>1, SubSeqProperties
  <2> HIDE DEF v
  <2>3. \A i \in 1..(Len(s) - n) : n + 1 + i - 1 = n + i /\ i \in 1..(Len(s) - (n + 1) + 1)
    BY <1>1
  <2>4. Len(v) = Len(s) - n
    BY <1>1, <2>2
  <2> QED
    BY <2>2, <2>3, <2>4
<1> HIDE DEF u, v
<1>4. /\ v \o x \in Seq(Byte) /\ Len(v \o x) = Len(s) - n + Len(x)
      /\ \A i \in 1..(Len(s) - n + Len(x)) :
           (v \o x)[i] = IF i <= Len(s) - n THEN v[i] ELSE x[i - (Len(s) - n)]
  <2>1. /\ v \o x \in Seq(Byte) /\ Len(v \o x) = Len(v) + Len(x)
        /\ \A i \in 1..(Len(v) + Len(x)) : (v \o x)[i] = IF i <= Len(v) THEN v[i] ELSE x[i - Len(v)]
    BY <1>3, ConcatProperties
  <2>2. Len(v) = Len(s) - n
    BY <1>3
  <2> QED
    BY <2>1, <2>2
<1>5. ASSUME NEW i \in 1..Len(u)
      PROVE  u[i] = (v \o x)[i]
  <2>1. i \in 1..(Len(s) + Len(x) - n) /\ n + i \in 1..(Len(s) + Len(x))
    BY <1>1, <1>2
  <2>2. u[i] = IF n + i <= Len(s) THEN s[n + i] ELSE x[n + i - Len(s)]
    BY <1>1, <1>2, <2>1
  <2>3. n + i - Len(s) = i - (Len(s) - n)
    BY <1>1
  <2>4. CASE n + i <= Len(s)
    <3>1. i <= Len(s) - n /\ i \in 1..(Len(s) - n) /\ i \in 1..(Len(s) - n + Len(x))
      BY <1>1, <2>1, <2>4
    <3> QED
      BY <1>3, <1>4, <2>2, <2>4, <3>1
  <2>5. CASE ~(n + i <= Len(s))
    <3>1. ~(i <= Len(s) - n) /\ i \in 1..(Len(s) - n + Len(x))
      BY <1>1, <2>1, <2>5
    <3> QED
      BY <1>4, <2>2, <2>3, <2>5, <3>1
  <2> QED
    BY <2>4, <2>5
<1>6. u = v \o x
  <2>1. Len(u) = Len(v \o x)
    BY <1>1, <1>2, <1>4
  <2> QED
    BY <1>2, <1>4, <1>5, <2>1, SeqEqual
<1>7. SubSeq(s \o x, 1, n) = SubSeq(s, 1, n)
  <2>1. \A k \in 0..(n - 1) : (s \o x)[1 + k] \in Byte /\ (s \o x)[1 + k] = s[1 + k]
    <3>1. \A k \in 0..(n - 1) : 1 + k \in 1..Len(s) /\ 1 + k \in 1..(Len(s) + Len(x))
      BY <1>1
    <3>2. \A k \in 0..(n - 1) : s[1 + k] \in Byte
      BY <3>1, ElementOfSeq
    <3> QED
      BY <1>1, <3>1, <3>2
  <2>2. IsSameSlice(s \o x, 1, n, s, 1, n)
    <3>1. n \in Int /\ 1 \in Int /\ n - 1 = n - 1
      OBVIOUS
    <3> QED
      BY <2>1, <3>1, SameSlice
  <2> QED
    BY <2>2 DEF IsSameSlice
<1> QED
  BY <1>3, <1>6, <1>7 DEF u, v

\* The first turn on a buffer is the same, whatever comes behind it.
LEMMA OneTurnOfMore ==
  ASSUME NEW s \in Seq(Byte), NEW x \in Seq(Byte), Len(s) >= GdsMinRecordLen
  PROVE  LET len == Length16(s, 0)
         IN  /\ len \in Nat
             /\ len < GdsMinRecordLen => RecordsOf(s \o x) = RecordsOf(Tail(s) \o x)
             /\ len \in GdsMinRecordLen..Len(s) =>
                  RecordsOf(s \o x) = <<SubSeq(s, 1, len)>> \o RecordsOf(SubSeq(s, len + 1, Len(s)) \o x)
<1> DEFINE len == Length16(s, 0)
<1>1. /\ s \o x \in Seq(Byte) /\ Len(s \o x) = Len(s) + Len(x)
      /\ \A i \in 1..(Len(s) + Len(x)) : (s \o x)[i] = IF i <= Len(s) THEN s[i] ELSE x[i - Len(s)]
      /\ Len(s) \in Nat /\ Len(x) \in Nat /\ Len(s) >= 6
  BY ConcatProperties, LenProperties DEF GdsMinRecordLen
<1>2. len = LengthHere(s \o x, 1) /\ len \in Nat /\ Len(s \o x) >= GdsMinRecordLen
  <2>1. len \in Nat /\ len = 256 * s[0 + 1] + s[0 + 2]
    BY <1>1, LengthField
  <2>2. (s \o x)[1] = s[1] /\ (s \o x)[1 + 1] = s[2]
    BY <1>1
  <2>3. len = LengthHere(s \o x, 1)
    BY <2>1, <2>2 DEF LengthHere
  <2> QED
    BY <1>1, <2>1, <2>3 DEF GdsMinRecordLen
<1> HIDE DEF len
<1>3. ASSUME len < GdsMinRecordLen
      PROVE  RecordsOf(s \o x) = RecordsOf(Tail(s) \o x)
  <2>1. RecordsOf(s \o x) = RecordsOf(Tail(s \o x))
    BY <1>1, <1>2, <1>3, OneTurn
  <2>2. s # <<>> /\ s \o x # <<>> /\ 1 \in 0..Len(s)
    BY <1>1, EmptySeq
  <2>3. Tail(s) = SubSeq(s, 2, Len(s)) /\ Tail(s \o x) = SubSeq(s \o x, 2, Len(s \o x))
    BY <1>1, <2>2, TailIsSubSeq
  <2>4. SubSeq(s \o x, 1 + 1, Len(s \o x)) = SubSeq(s, 1 + 1, Len(s)) \o x /\ 1 + 1 = 2
    BY <2>2, RestOfMore
  <2> QED
    BY <2>1, <2>3, <2>4
<1>4. ASSUME len \in GdsMinRecordLen..Len(s)
      PROVE  RecordsOf(s \o x) = <<SubSeq(s, 1, len)>> \o RecordsOf(SubSeq(s, len + 1, Len(s)) \o x)
  <2>1. len \in GdsMinRecordLen..Len(s \o x) /\ len \in 0..Len(s)
    BY <1>1, <1>2, <1>4 DEF GdsMinRecordLen
  <2>2. RecordsOf(s \o x) =
          <<SubSeq(s \o x, 1, len)>> \o RecordsOf(SubSeq(s \o x, len + 1, Len(s \o x)))
    BY <1>1, <1>2, <2>1, OneTurn
  <2> QED
    BY <2>1, <2>2, RestOfMore
<1> QED
  BY <1>2, <1>3, <1>4 DEF len

-----------------------------------------------------------------------------
(* The invariant. *)

Walking == mode \in {"commands", "display"}

\* The records dispatched, and the record that is being walked.
Taken == [k \in DOMAIN reported |-> reported[k].record]
Started == IF Walking THEN Append(Taken, record) ELSE Taken

FramingInv ==
  /\ \A x \in Seq(Byte) : RecordsOf(fed \o x) = Started \o RecordsOf(buffer \o x)
  /\ mode = "idle" => RecordsOf(buffer) = <<>>

LEMMA RecordsAreASeq ==
  ASSUME NEW r, IsSequence(r), \A k \in DOMAIN r : r[k].record \in Seq(Byte)
  PROVE  /\ [k \in DOMAIN r |-> r[k].record] \in Seq(Seq(Byte))
         /\ Len([k \in DOMAIN r |-> r[k].record]) = Len(r)
         /\ DOMAIN r = 1..Len(r) /\ Len(r) \in Nat
<1>1. PICK S : r \in Seq(S)
  BY DEF IsSequence
<1>2. DOMAIN r = 1..Len(r) /\ Len(r) \in Nat
  BY <1>1, LenProperties
<1>3. [k \in DOMAIN r |-> r[k].record] \in [1..Len(r) -> Seq(Byte)]
  BY <1>2
<1> QED
  BY <1>2, <1>3

LEMMA TakenIsASeq ==
  ASSUME TypeInv
  PROVE  /\ Taken \in Seq(Seq(Byte)) /\ Started \in Seq(Seq(Byte))
         /\ DOMAIN reported = 1..Len(reported) /\ Len(reported) \in Nat
         /\ Len(Taken) = Len(reported)
<1>1. /\ Taken \in Seq(Seq(Byte)) /\ Len(Taken) = Len(reported)
      /\ DOMAIN reported = 1..Len(reported) /\ Len(reported) \in Nat
  BY RecordsAreASeq DEF TypeInv, Taken
<1>2. Append(Taken, record) \in Seq(Seq(Byte))
  BY <1>1, AppendProperties DEF TypeInv
<1> QED
  BY <1>1, <1>2 DEF Started

LEMMA ReportedIsTaken ==
  ASSUME TypeInv, TypeInv', NEW entry, reported' = Append(reported, entry)
  PROVE  Taken' = Append(Taken, entry.record)
<1>1. PICK S : reported \in Seq(S)
  BY DEF TypeInv, IsSequence
<1>2. reported \in Seq(S \cup {entry}) /\ entry \in S \cup {entry}
  BY <1>1
<1>3. /\ Len(reported') = Len(reported) + 1
      /\ \A n \in 1..Len(reported) : reported'[n] = reported[n]
      /\ reported'[Len(reported) + 1] = entry
  BY <1>2, AppendProperties
<1>4. /\ Taken \in Seq(Seq(Byte)) /\ Len(Taken) = Len(reported)
      /\ DOMAIN reported = 1..Len(reported) /\ Len(reported) \in Nat
  BY TakenIsASeq
<1>5. /\ Taken' \in Seq(Seq(Byte)) /\ Len(Taken') = Len(reported')
      /\ DOMAIN reported' = 1..Len(reported')
  BY RecordsAreASeq DEF TypeInv, Taken
<1>6. entry.record \in Seq(Byte)
  <2>1. Len(reported) + 1 \in DOMAIN reported'
    BY <1>3, <1>4, <1>5
  <2> QED
    BY <1>3, <2>1 DEF TypeInv
<1>7. /\ Append(Taken, entry.record) \in Seq(Seq(Byte))
      /\ Len(Append(Taken, entry.record)) = Len(Taken) + 1
      /\ \A n \in 1..Len(Taken) : Append(Taken, entry.record)[n] = Taken[n]
      /\ Append(Taken, entry.record)[Len(Taken) + 1] = entry.record
  BY <1>4, <1>6, AppendProperties
<1>8. ASSUME NEW n \in 1..Len(Taken')
      PROVE  Taken'[n] = Append(Taken, entry.record)[n]
  <2>1. n \in DOMAIN reported' /\ Taken'[n] = reported'[n].record
    BY <1>5 DEF Taken
  <2>2. n \in 1..Len(reported) \/ n = Len(reported) + 1
    BY <1>3, <1>4, <1>5
  <2>3. CASE n \in 1..Len(reported)
    <3>1. Taken[n] = reported[n].record
      BY <1>4, <2>3 DEF Taken
    <3> QED
      BY <1>3, <1>4, <1>7, <2>1, <2>3, <3>1
  <2>4. CASE n = Len(reported) + 1
    BY <1>3, <1>4, <1>7, <2>1, <2>4
  <2> QED
    BY <2>2, <2>3, <2>4
<1> QED
  BY <1>3, <1>4, <1>5, <1>7, <1>8, SeqEqual

\* A step that takes nothing and feeds nothing.
LEMMA NothingTaken ==
  ASSUME FramingInv, UNCHANGED <<fed, buffer, reported>>, Started' = Started,
         mode' = "idle" => RecordsOf(buffer) = <<>>
  PROVE  FramingInv'
BY DEF FramingInv

LEMMA FramingStepKeepsFraming ==
  ASSUME TypeInv, TypeInv', FramingInv,
         \/ SkipByte \/ RejectRecord \/ PassThrough \/ Signal \/ IgnoreRecord
         \/ BeginWalk \/ Return
  PROVE  FramingInv'
<1>1. /\ buffer \in Seq(Byte) /\ fed \in Seq(Byte) /\ Started \in Seq(Seq(Byte))
      /\ Taken \in Seq(Seq(Byte))
  BY TakenIsASeq DEF TypeInv
<1>2. ASSUME HasRecord, buffer' = SubSeq(buffer, RecordLength + 1, Len(buffer)), fed' = fed,
             Started = Taken, Started' = Append(Taken, NextRecord), mode' # "idle"
      PROVE  FramingInv'
  <2> SUFFICES ASSUME NEW x \in Seq(Byte)
               PROVE  RecordsOf(fed' \o x) = Started' \o RecordsOf(buffer' \o x)
    BY <1>2 DEF FramingInv
  <2>1. RecordLength \in GdsMinRecordLen..Len(buffer) /\ NextRecord \in Seq(Byte)
        /\ buffer' \in Seq(Byte) /\ Len(buffer) >= GdsMinRecordLen
    BY <1>2, TakenRecord DEF HasRecord, HasLength
  <2>2. RecordsOf(buffer \o x) = <<NextRecord>> \o RecordsOf(buffer' \o x)
    BY <1>1, <1>2, <2>1, OneTurnOfMore DEF RecordLength, NextRecord
  <2>3. buffer' \o x \in Seq(Byte) /\ <<NextRecord>> \in Seq(Seq(Byte))
    BY <2>1, ConcatProperties
  <2>4. RecordsOf(buffer' \o x) \in Seq(Seq(Byte))
    BY <2>3, OneTurn
  <2>5. Append(Taken, NextRecord) = Taken \o <<NextRecord>>
    BY <1>1, <2>1, AppendIsConcat
  <2>6. (Taken \o <<NextRecord>>) \o RecordsOf(buffer' \o x)
          = Taken \o (<<NextRecord>> \o RecordsOf(buffer' \o x))
    <3>1. IsRegrouped(Taken, <<NextRecord>>, RecordsOf(buffer' \o x))
      BY <1>1, <2>3, <2>4, Regroup
    <3> QED
      BY <3>1 DEF IsRegrouped
  <2>7. RecordsOf(fed \o x) = Taken \o RecordsOf(buffer \o x)
    BY <1>2 DEF FramingInv
  <2> QED
    BY <1>2, <2>2, <2>5, <2>6, <2>7
<1>3. ASSUME NEW callbacks, HasRecord, Dispatch(callbacks)
      PROVE  FramingInv'
  <2> DEFINE entry == [record |-> NextRecord, events |-> callbacks]
  <2>1. /\ reported' = Append(reported, entry) /\ mode = "framing" /\ mode' = "framing"
        /\ buffer' = SubSeq(buffer, RecordLength + 1, Len(buffer)) /\ fed' = fed
    BY <1>3 DEF Dispatch, TakeRecord
  <2>2. Taken' = Append(Taken, entry.record)
    BY <2>1, ReportedIsTaken
  <2>3. Started = Taken /\ Started' = Taken'
    BY <2>1 DEF Started, Walking
  <2> QED
    BY <1>2, <1>3, <2>1, <2>2, <2>3
<1>4. CASE SkipByte
  <2> SUFFICES ASSUME NEW x \in Seq(Byte)
               PROVE  RecordsOf(fed' \o x) = Started' \o RecordsOf(buffer' \o x)
    BY <1>4 DEF FramingInv, SkipByte
  <2>1. Len(buffer) >= GdsMinRecordLen /\ Length16(buffer, 0) \notin GdsMinRecordLen..GdsMaxRecordLen
    BY <1>4 DEF SkipByte, HasLength, RecordLength
  <2>2. Length16(buffer, 0) < GdsMinRecordLen
    <3>1. Len(buffer) \in Nat /\ 0 + 2 <= Len(buffer)
      BY <1>1, <2>1, LenProperties DEF GdsMinRecordLen
    <3>2. Length16(buffer, 0) \in Nat /\ Length16(buffer, 0) = 256 * buffer[0 + 1] + buffer[0 + 2]
      BY <1>1, <3>1, LengthField
    <3>3. buffer[1] \in Nat /\ buffer[1] <= 255 /\ buffer[2] \in Nat /\ buffer[2] <= 255
      BY <1>1, <3>1, Payload
    <3>4. Length16(buffer, 0) <= 65535
      BY <3>2, <3>3
    <3>5. Length16(buffer, 0) \in Nat
      BY <3>2
    <3>6. GdsMinRecordLen \in Int /\ GdsMaxRecordLen = 65535
      BY DEF GdsMinRecordLen, GdsMaxRecordLen
    <3>7. Length16(buffer, 0) \notin GdsMinRecordLen..GdsMaxRecordLen
      BY <2>1
    <3> HIDE DEF GdsMinRecordLen, GdsMaxRecordLen
    <3> QED
      BY <3>4, <3>5, <3>6, <3>7
  <2>3. RecordsOf(buffer \o x) = RecordsOf(Tail(buffer) \o x)
    BY <1>1, <2>1, <2>2, OneTurnOfMore
  <2>4. Started' = Started /\ fed' = fed /\ buffer' = Tail(buffer)
    BY <1>4 DEF SkipByte, Started, Taken, Walking, walk
  <2> QED
    BY <2>3, <2>4 DEF FramingInv
<1>5. CASE RejectRecord
  BY <1>3, <1>5 DEF RejectRecord
<1>6. CASE PassThrough
  BY <1>3, <1>6 DEF PassThrough
<1>7. CASE Signal
  BY <1>3, <1>7 DEF Signal, HasOpcodeIn
<1>8. CASE IgnoreRecord
  BY <1>3, <1>8 DEF IgnoreRecord, HasOpcodeIn
<1>9. CASE BeginWalk
  <2>1. /\ HasRecord /\ mode = "framing" /\ mode' = "commands" /\ record' = NextRecord
        /\ buffer' = SubSeq(buffer, RecordLength + 1, Len(buffer)) /\ fed' = fed
        /\ reported' = reported
    BY <1>9 DEF BeginWalk, TakeRecord, HasOpcodeIn
  <2>2. Started = Taken /\ Taken' = Taken /\ Started' = Append(Taken', record')
    BY <2>1 DEF Started, Walking, Taken
  <2> QED
    BY <1>2, <2>1, <2>2
<1>10. CASE Return
  <2>1. RecordsOf(buffer) = <<>>
    <3>1. CASE ~HasLength
      <4>1. Len(buffer) < GdsMinRecordLen
        BY <1>1, <3>1, LenProperties DEF HasLength, GdsMinRecordLen
      <4> QED
        BY <1>1, <4>1, OneTurn
    <3>2. CASE HasLength
      <4>1. Len(buffer) >= GdsMinRecordLen /\ Length16(buffer, 0) > Len(buffer)
        BY <1>10, <3>2 DEF Return, HasLength, RecordLength
      <4>2. Length16(buffer, 0) = LengthHere(buffer, 1)
        <5>1. Len(buffer) \in Nat /\ 0 + 2 <= Len(buffer)
          BY <1>1, <4>1, LenProperties DEF GdsMinRecordLen
        <5> QED
          BY <1>1, <5>1, LengthField DEF LengthHere
      <4> QED
        BY <1>1, <4>1, <4>2, OneTurn
    <3> QED
      BY <3>1, <3>2
  <2>2. UNCHANGED <<fed, buffer, reported>> /\ Started' = Started
    BY <1>10 DEF Return, framing, walk, Started, Walking, Taken
  <2> QED
    BY <2>1, <2>2, NothingTaken
<1> QED
  BY <1>4, <1>5, <1>6, <1>7, <1>8, <1>9, <1>10

LEMMA WalkKeepsFraming ==
  ASSUME TypeInv, TypeInv', FramingInv,
         \/ ClearScreen \/ ReadCommand \/ WriteErrorCode \/ Roll \/ WriteStructuredField
         \/ UnknownCommand \/ TopSoh \/ StrayByte \/ OpenWtd
         \/ CloseWtd \/ WtdSoh \/ SkipWdsf \/ Strpccmd \/ CopyOrder
  PROVE  FramingInv'
<1>1. CASE CloseWtd
  <2>1. UNCHANGED <<fed, buffer, reported, record>> /\ mode = "display" /\ mode' = "commands"
    BY <1>1 DEF CloseWtd, framing, walk
  <2>2. Started' = Started
    BY <2>1 DEF Started, Walking, Taken
  <2> QED
    BY <2>1, <2>2, NothingTaken
<1>2. CASE ~CloseWtd
  <2>1. PICK k, callbacks : Advance(k, callbacks)
    BY <1>2, CommandsAdvance, OpenAdvances, DisplayAdvances
  <2>2. mode' \in {"commands", "display"}
    BY <1>2, <2>1, CommandsAdvance, OpenAdvances, DisplayAdvances DEF Advance
  <2>3. UNCHANGED <<fed, buffer, reported, record>> /\ mode \in {"commands", "display"}
    BY <2>1 DEF Advance, GoOn, framing
  <2>4. Started' = Started /\ mode' # "idle"
    BY <2>2, <2>3 DEF Started, Walking, Taken
  <2> QED
    BY <2>3, <2>4, NothingTaken
<1> QED
  BY <1>1, <1>2

LEMMA EndWalkKeepsFraming ==
  ASSUME TypeInv, TypeInv', FramingInv, EndWalk
  PROVE  FramingInv'
<1> DEFINE entry == [record |-> record, events |-> Append(events, <<"RawScreenData", display>>)]
<1>1. reported' = Append(reported, entry) /\ mode = "commands" /\ mode' = "framing"
      /\ UNCHANGED <<fed, buffer>>
  BY DEF EndWalk
<1>2. Taken' = Append(Taken, entry.record)
  BY <1>1, ReportedIsTaken
<1>3. Started' = Started
  BY <1>1, <1>2 DEF Started, Walking
<1> QED
  BY <1>1, <1>3 DEF FramingInv

\* However the host's bytes are cut into pieces and wherever a reset comes:
\* whenever parseData is not running, the records dispatched are exactly
\* those of all the bytes read as one stream (decoder.cpp:29-46).
THEOREM RecordsAreFramed == Spec => []FramedAsAWhole
<1>1. Init => FramingInv
  <2> SUFFICES ASSUME Init PROVE FramingInv
    OBVIOUS
  <2>1. <<>> \in Seq(Byte) /\ Len(<<>>) = 0
    BY EmptySeq
  <2>2. RecordsOf(<<>>) = <<>>
    <3>1. Len(<<>>) < GdsMinRecordLen
      BY <2>1 DEF GdsMinRecordLen
    <3> QED
      BY <2>1, <3>1, OneTurn, Zenon
  <2>3. Started = <<>>
    BY EmptySeq DEF Init, Started, Walking, Taken
  <2>4. \A x \in Seq(Byte) : RecordsOf(<<>> \o x) \in Seq(Seq(Byte))
    BY <2>1, ConcatProperties, OneTurn
  <2>5. \A x \in Seq(Byte) : RecordsOf(<<>> \o x) = <<>> \o RecordsOf(<<>> \o x)
    BY <2>4, ConcatEmptySeq
  <2> QED
    BY <2>2, <2>3, <2>5 DEF Init, FramingInv
<1>2. TypeInv /\ TypeInv' /\ FramingInv /\ [Next]_vars => FramingInv'
  <2> SUFFICES ASSUME TypeInv, TypeInv', FramingInv, [Next]_vars PROVE FramingInv'
    OBVIOUS
  <2>1. CASE Step
    BY <2>1, FramingStepKeepsFraming, WalkKeepsFraming, EndWalkKeepsFraming DEF Step
  <2>2. CASE Feed
    <3> SUFFICES ASSUME NEW x \in Seq(Byte)
                 PROVE  RecordsOf(fed' \o x) = Started' \o RecordsOf(buffer' \o x)
      BY <2>2 DEF FramingInv, Feed
    <3>1. /\ Head(calls) \in Seq(Byte) /\ fed \in Seq(Byte) /\ buffer \in Seq(Byte)
      BY <2>2, HeadTailProperties DEF Feed, TypeInv
    <3>2. /\ fed' \o x = fed \o (Head(calls) \o x) /\ buffer' \o x = buffer \o (Head(calls) \o x)
          /\ Head(calls) \o x \in Seq(Byte)
      <4>1. Head(calls) \o x \in Seq(Byte)
        BY <3>1, ConcatProperties
      <4>2. /\ (fed \o Head(calls)) \o x = fed \o (Head(calls) \o x)
            /\ (buffer \o Head(calls)) \o x = buffer \o (Head(calls) \o x)
        <5>1. IsRegrouped(fed, Head(calls), x) /\ IsRegrouped(buffer, Head(calls), x)
          BY <3>1, Regroup
        <5> QED
          BY <5>1 DEF IsRegrouped
      <4> QED
        BY <2>2, <4>1, <4>2 DEF Feed
    <3>3. Started' = Started
      BY <2>2 DEF Feed, Started, Walking, Taken, walk
    <3> QED
      BY <3>2, <3>3 DEF FramingInv
  <2>3. CASE Reset
    <3>1. UNCHANGED <<fed, buffer, mode, reported, record>>
      BY <2>3 DEF Reset, walk
    <3>2. Started' = Started
      BY <3>1 DEF Started, Walking, Taken
    <3> QED
      BY <3>1, <3>2 DEF FramingInv
  <2>4. CASE UNCHANGED vars
    <3>1. UNCHANGED <<fed, buffer, mode, reported, record>>
      BY <2>4 DEF vars
    <3>2. Started' = Started
      BY <3>1 DEF Started, Walking, Taken
    <3> QED
      BY <3>1, <3>2 DEF FramingInv
  <2> QED
    BY <2>1, <2>2, <2>3, <2>4 DEF Next
<1>3. TypeInv /\ FramingInv => FramedAsAWhole
  <2> SUFFICES ASSUME TypeInv, FramingInv, mode = "idle" PROVE Taken = RecordsOf(fed)
    BY DEF FramedAsAWhole, Taken
  <2>1. fed \in Seq(Byte) /\ buffer \in Seq(Byte) /\ Taken \in Seq(Seq(Byte)) /\ <<>> \in Seq(Byte)
    BY TakenIsASeq, EmptySeq DEF TypeInv
  <2>2. Started = Taken /\ RecordsOf(buffer) = <<>>
    BY DEF Started, Walking, FramingInv
  <2>3. fed \o <<>> = fed /\ buffer \o <<>> = buffer /\ Taken \o <<>> = Taken
    BY <2>1, ConcatEmptySeq
  <2>4. RecordsOf(fed \o <<>>) = Started \o RecordsOf(buffer \o <<>>)
    BY <2>1 DEF FramingInv
  <2> QED
    BY <2>2, <2>3, <2>4
<1> QED
  BY <1>1, <1>2, <1>3, TypesHold, PTL DEF Spec

-----------------------------------------------------------------------------
(* An order reads no byte behind its end: moved to another payload, with   *)
(* no more bytes behind it than it had, it is the same order.              *)

\* From position k on, and up to n, t has the bytes that s has d further on.
Agrees(s, d, t, k, n) == \A i \in k..n : t[i] = s[d + i]

LEMMA ControlWordsMoved ==
  ASSUME NEW s \in Seq(Byte), NEW t \in Seq(Byte), NEW d \in Int,
         NEW k \in 1..EndOf(t), d + k \in 1..EndOf(s), d + EndOf(t) <= EndOf(s),
         ControlWordsEnd(s, d + k) - d <= EndOf(t),
         Agrees(s, d, t, k, ControlWordsEnd(s, d + k) - d - 1),
         \/ Left(s, ControlWordsEnd(s, d + k)) < 2
         \/ t[ControlWordsEnd(s, d + k) - d] = s[ControlWordsEnd(s, d + k)]
  PROVE  ControlWordsEnd(t, k) = ControlWordsEnd(s, d + k) - d
<1> DEFINE a == ControlWordsEnd(s, d + k)
           b == EndOf(t)
           Comes(n) == /\ n >= k /\ d + n \in 1..EndOf(s) /\ ControlWordsEnd(s, d + n) = a
           S == {n \in 1..b : Comes(n) => ControlWordsEnd(t, n) = a - d}
<1>1. /\ b \in Nat /\ EndOf(s) \in Nat /\ a \in (d + k)..EndOf(s) /\ a - d <= b /\ d + b <= EndOf(s)
      /\ \A i \in k..(a - d - 1) : t[i] = s[d + i]
      /\ Left(s, a) < 2 \/ t[a - d] = s[a]
  BY Payload, ControlWords DEF Agrees
<1> HIDE DEF a
<1>2. ASSUME NEW n \in 1..b, \A m \in (n + 1)..b : m \in S, Comes(n)
      PROVE  ControlWordsEnd(t, n) = a - d
  <2>1. /\ ControlWordsEnd(s, d + n) \in (d + n)..EndOf(s)
        /\ ControlWordsEnd(s, d + n) =
             IF Left(s, d + n) >= 2 /\ ~IsAttribute(s[d + n]) THEN ControlWordsEnd(s, d + n + 2) ELSE d + n
    BY <1>2, ControlWords
  <2>2. /\ ControlWordsEnd(t, n) =
             IF Left(t, n) >= 2 /\ ~IsAttribute(t[n]) THEN ControlWordsEnd(t, n + 2) ELSE n
    BY <1>2, ControlWords
  <2>3. CASE Left(s, d + n) >= 2 /\ ~IsAttribute(s[d + n])
    <3>1. d + n + 2 \in 1..EndOf(s) /\ d + n + 2 = d + (n + 2)
      BY <1>1, <1>2, <2>3 DEF Left
    <3>2. a = ControlWordsEnd(s, d + (n + 2)) /\ a \in (d + n + 2)..EndOf(s)
      <4>1. ControlWordsEnd(s, d + n + 2) \in (d + n + 2)..EndOf(s)
        BY <3>1, ControlWords
      <4> QED
        BY <1>2, <2>1, <2>3, <3>1, <4>1
    <3>3. n \in k..(a - d - 1) /\ n + 2 \in (n + 1)..b /\ Left(t, n) >= 2
      BY <1>1, <1>2, <3>2 DEF Left
    <3>4. t[n] = s[d + n]
      BY <1>1, <3>3
    <3>5. Comes(n + 2)
      BY <1>2, <3>1, <3>2
    <3>6. n + 2 \in S
      BY <1>2, <3>3
    <3>7. ControlWordsEnd(t, n + 2) = a - d
      BY <3>5, <3>6
    <3> QED
      BY <2>2, <2>3, <3>3, <3>4, <3>7
  <2>4. CASE ~(Left(s, d + n) >= 2 /\ ~IsAttribute(s[d + n]))
    <3>1. a = d + n
      BY <1>2, <2>1, <2>4
    <3>2. a - d = n
      BY <1>1, <3>1
    <3>3. Left(t, n) <= Left(s, d + n) /\ Left(t, n) \in Int /\ Left(s, d + n) \in Int
      BY <1>1, <1>2 DEF Left
    <3>4. ~(Left(t, n) >= 2 /\ ~IsAttribute(t[n]))
      <4>1. CASE Left(s, d + n) < 2
        BY <3>3, <4>1
      <4>2. CASE Left(s, d + n) >= 2
        BY <1>1, <2>4, <3>1, <3>2, <3>3, <4>2
      <4> QED
        BY <3>3, <4>1, <4>2
    <3> QED
      BY <2>2, <3>2, <3>4
  <2> QED
    BY <2>3, <2>4
<1>3. \A n \in 1..b : (\A m \in (n + 1)..b : m \in S) => n \in S
  BY <1>2
<1>4. 1..b \subseteq S
  <2> HIDE DEF S, b
  <2> QED BY <1>1, <1>3, Backwards
<1>5. Comes(k)
  BY DEF a
<1>6. ControlWordsEnd(t, k) = a - d
  BY <1>4, <1>5
<1> QED
  BY <1>6 DEF a

LEMMA FieldMoved ==
  ASSUME NEW s \in Seq(Byte), NEW t \in Seq(Byte), NEW d \in Int,
         NEW m \in 1..Len(t), d + m \in 1..Len(s), d + EndOf(t) <= EndOf(s),
         FieldEnd(s, d + m) - d <= EndOf(t), Agrees(s, d, t, m, FieldEnd(s, d + m) - d - 1)
  PROVE  FieldEnd(t, m) = FieldEnd(s, d + m) - d
<1> DEFINE e == FieldEnd(s, d + m)
           j == d + m
           b == EndOf(s)
           c == EndOf(t)
<1>1. /\ j \in 1..(b - 1) /\ j \in 1..Len(s) /\ m \in 1..(c - 1)
      /\ b \in Nat /\ c \in Nat /\ d + c <= b
      /\ e \in (j + 1)..b /\ e - d <= c
      /\ \A i \in m..(e - d - 1) : t[i] = s[d + i]
  BY Payload, FieldExtent DEF Agrees
<1>2. /\ \A k : Left(s, k) = b - k /\ Left(t, k) = c - k
      /\ \A k : Clamp(s, k) = IF k > b THEN b ELSE k
      /\ \A k : Clamp(t, k) = IF k > c THEN c ELSE k
  BY DEF Left, Clamp
<1> DEFINE start  == IF Left(s, j) >= 3 THEN j + 3 ELSE b
           tstart == IF Left(t, m) >= 3 THEN m + 3 ELSE c
           a  == ControlWordsEnd(s, start)
           ta == ControlWordsEnd(t, tstart)
           after  == Clamp(s, a + 1)
           tafter == Clamp(t, ta + 1)
<1>3. /\ e = IF Left(s, after) >= 2 THEN after + 2 ELSE after
      /\ FieldEnd(t, m) = IF Left(t, tafter) >= 2 THEN tafter + 2 ELSE tafter
  BY DEF FieldEnd
<1>4. start \in (j + 1)..b /\ tstart \in (m + 1)..c
  <2> HIDE DEF b, c, j, e
  <2> QED BY <1>1, <1>2
<1>5. a \in start..b /\ ta \in tstart..c
  <2>1. start \in 1..EndOf(s) /\ tstart \in 1..EndOf(t)
    <3> HIDE DEF start, tstart, j
    <3> QED BY <1>1, <1>4
  <2> QED
    <3> HIDE DEF start, tstart
    <3> QED BY <2>1, ControlWords
<1> HIDE DEF e, b, c, a, ta
<1>6. CASE b - j < 3
  <2>1. start = b
    BY <1>1, <1>2, <1>6
  <2>2. a = b
    BY <1>1, <1>5, <2>1
  <2>3. after = b
    BY <1>1, <1>2, <2>2
  <2>4. e = b
    BY <1>1, <1>2, <1>3, <2>3
  <2>5. c = b - d
    BY <1>1, <2>4
  <2>6. tstart = c
    BY <1>1, <1>2, <1>6, <2>5
  <2>7. ta = c
    BY <1>1, <1>5, <2>6
  <2>8. tafter = c
    BY <1>1, <1>2, <2>7
  <2>9. FieldEnd(t, m) = c
    BY <1>1, <1>2, <1>3, <2>8
  <2> QED
    BY <2>4, <2>5, <2>9 DEF e
<1>7. CASE b - j >= 3
  <2>1. start = j + 3 /\ j + 3 \in 1..b /\ a \in (j + 3)..b
    BY <1>1, <1>2, <1>4, <1>5, <1>7
  <2>2. a \in Int /\ after \in a..b /\ (a < b => after = a + 1) /\ (a = b => after = b)
    <3>1. after = IF a + 1 > b THEN b ELSE a + 1
      BY <1>2
    <3> HIDE DEF after
    <3> QED BY <1>1, <2>1, <3>1
  <2>3. Left(s, after) = b - after /\ Left(t, tafter) = c - tafter
    BY <1>2
  <2> HIDE DEF after, tafter
  <2>4. e >= after
    BY <1>1, <1>3, <2>2, <2>3
  <2>5. tstart = m + 3 /\ d + (m + 3) = j + 3 /\ m + 3 \in 1..c
    BY <1>1, <1>2, <2>1, <2>2, <2>4
  <2>6. ta = a - d
    <3>1. d + (m + 3) \in 1..EndOf(s) /\ ControlWordsEnd(s, d + (m + 3)) = a /\ m + 3 \in 1..EndOf(t)
      BY <2>1, <2>5 DEF a, b, c
    <3>2. Agrees(s, d, t, m + 3, a - d - 1)
      <4>1. \A i \in (m + 3)..(a - d - 1) : i \in m..(e - d - 1)
        BY <1>1, <2>1, <2>2, <2>4
      <4> QED
        BY <1>1, <4>1 DEF Agrees
    <3>3. Left(s, a) < 2 \/ t[a - d] = s[a]
      <4>1. CASE b - a >= 2
        <5>1. a < b /\ e >= a + 1
          BY <1>1, <2>2, <2>4, <4>1
        <5>2. a - d \in m..(e - d - 1) /\ d + (a - d) = a
          BY <1>1, <2>1, <2>2, <5>1
        <5> QED
          BY <1>1, <5>2
      <4>2. CASE ~(b - a >= 2)
        BY <1>1, <1>2, <2>2, <4>2
      <4> QED
        BY <4>1, <4>2
    <3>4. a - d <= EndOf(t) /\ d + EndOf(t) <= EndOf(s)
      <4>1. a - d <= c
        BY <1>1, <2>1, <2>2, <2>4
      <4> QED
        BY <1>1, <4>1 DEF b, c
    <3>5. ControlWordsEnd(t, m + 3) = ControlWordsEnd(s, d + (m + 3)) - d
      BY <3>1, <3>2, <3>3, <3>4, ControlWordsMoved
    <3> QED
      BY <2>5, <3>1, <3>5 DEF ta
  <2>7. tafter = after - d
    <3>1. tafter = IF ta + 1 > c THEN c ELSE ta + 1
      BY <1>2 DEF tafter
    <3>2. CASE a < b
      BY <1>1, <2>2, <2>4, <2>6, <3>1, <3>2
    <3>3. CASE a = b
      BY <1>1, <2>2, <2>4, <2>6, <3>1, <3>3
    <3> QED
      BY <1>1, <2>1, <2>2, <3>2, <3>3
  <2>8. CASE b - after >= 2
    <3>1. e = after + 2
      BY <1>3, <2>3, <2>8
    <3>2. c - tafter >= 2
      BY <1>1, <2>2, <2>7, <3>1
    <3>3. FieldEnd(t, m) = tafter + 2
      BY <1>3, <2>3, <3>2
    <3> QED
      BY <1>1, <2>2, <2>7, <3>1, <3>3 DEF e
  <2>9. CASE ~(b - after >= 2)
    <3>1. e = after
      BY <1>3, <2>3, <2>9
    <3>2. ~(c - tafter >= 2)
      BY <1>1, <2>2, <2>7, <2>9
    <3>3. FieldEnd(t, m) = tafter
      BY <1>3, <2>3, <3>2
    <3> QED
      BY <1>1, <2>2, <2>7, <3>1, <3>3 DEF e
  <2> QED
    BY <2>8, <2>9
<1> QED
  BY <1>1, <1>6, <1>7

\* The clamp moves along with what it clamps.
LEMMA ClampMoved ==
  ASSUME NEW s \in Seq(Byte), NEW t \in Seq(Byte), NEW d \in Int, NEW y \in Int,
         d + EndOf(t) <= EndOf(s), Clamp(s, d + y) - d <= EndOf(t)
  PROVE  Clamp(t, y) = Clamp(s, d + y) - d
<1>1. EndOf(s) \in Nat /\ EndOf(t) \in Nat
  BY Payload
<1>2. CASE d + y > EndOf(s)
  BY <1>1, <1>2 DEF Clamp
<1>3. CASE d + y <= EndOf(s)
  BY <1>1, <1>3 DEF Clamp
<1> QED
  BY <1>1, <1>2, <1>3

\* The kinds of orders, one by one.
LEMMA OrderKinds ==
  ASSUME NEW s, NEW j
  PROVE  /\ s[j] \in {OrderSBA, OrderIC, OrderMC} => OrderEnd(s, j) = Clamp(s, j + 3)
         /\ s[j] \in {OrderRA, OrderEA} => OrderEnd(s, j) = Clamp(s, j + 4)
         /\ s[j] = OrderTD /\ Left(s, j) >= 2 => OrderEnd(s, j) = Clamp(s, j + 2 + s[j + 1])
         /\ s[j] = OrderTD /\ ~(Left(s, j) >= 2) => OrderEnd(s, j) = Clamp(s, j + 1)
         /\ s[j] = OrderSF => OrderEnd(s, j) = Clamp(s, FieldEnd(s, j))
         /\ s[j] \notin {OrderSBA, OrderIC, OrderMC, OrderRA, OrderEA, OrderTD, OrderSF} =>
              OrderEnd(s, j) = Clamp(s, j + 1)
<1> USE DEF OrderSBA, OrderIC, OrderMC, OrderRA, OrderEA, OrderTD, OrderSF
<1>1. CASE s[j] \in {OrderSBA, OrderIC, OrderMC}
  BY <1>1 DEF OrderEnd
<1>2. CASE s[j] \in {OrderRA, OrderEA}
  BY <1>2 DEF OrderEnd
<1>3. CASE s[j] = OrderTD /\ Left(s, j) >= 2
  BY <1>3 DEF OrderEnd
<1>4. CASE s[j] = OrderTD /\ ~(Left(s, j) >= 2)
  BY <1>4 DEF OrderEnd
<1>5. CASE s[j] = OrderSF
  BY <1>5 DEF OrderEnd
<1>6. CASE s[j] \notin {OrderSBA, OrderIC, OrderMC, OrderRA, OrderEA, OrderTD, OrderSF}
  BY <1>6 DEF OrderEnd
<1> QED
  BY <1>1, <1>2, <1>3, <1>4, <1>5, <1>6

LEMMA OrderMoved ==
  ASSUME NEW s \in Seq(Byte), NEW t \in Seq(Byte), NEW d \in Int,
         NEW m \in 1..Len(t), d + m \in 1..Len(s), d + EndOf(t) <= EndOf(s),
         OrderEnd(s, d + m) - d <= EndOf(t), Agrees(s, d, t, m, OrderEnd(s, d + m) - d - 1)
  PROVE  OrderEnd(t, m) = OrderEnd(s, d + m) - d
<1> DEFINE e == OrderEnd(s, d + m)
           j == d + m
           b == EndOf(s)
           c == EndOf(t)
<1>1. /\ j \in 1..(b - 1) /\ j \in 1..Len(s) /\ m \in 1..(c - 1)
      /\ b \in Nat /\ c \in Nat /\ d + c <= b
      /\ e \in (j + 1)..b /\ e - d <= c
      /\ \A i \in m..(e - d - 1) : t[i] = s[d + i]
  BY Payload, OrderExtent DEF Agrees
<1>2. s[j] = t[m]
  <2>1. m \in m..(e - d - 1)
    <3> HIDE DEF e
    <3> QED BY <1>1
  <2> QED
    <3> HIDE DEF e
    <3> QED BY <1>1, <2>1
<1>3. ASSUME NEW y \in Int, e = Clamp(s, d + y)
      PROVE  Clamp(t, y) = e - d
  BY <1>1, <1>3, ClampMoved
<1>4. CASE s[j] \in {OrderSBA, OrderIC, OrderMC}
  <2>1. e = Clamp(s, j + 3) /\ OrderEnd(t, m) = Clamp(t, m + 3)
    BY <1>2, <1>4, OrderKinds
  <2>2. j + 3 = d + (m + 3) /\ m + 3 \in Int
    OBVIOUS
  <2> QED
    BY <1>3, <2>1, <2>2
<1>5. CASE s[j] \in {OrderRA, OrderEA}
  <2>1. e = Clamp(s, j + 4) /\ OrderEnd(t, m) = Clamp(t, m + 4)
    BY <1>2, <1>5, OrderKinds
  <2>2. j + 4 = d + (m + 4) /\ m + 4 \in Int
    OBVIOUS
  <2> QED
    BY <1>3, <2>1, <2>2
<1>6. ASSUME e = Clamp(s, j + 1), OrderEnd(t, m) = Clamp(t, m + 1)
      PROVE  OrderEnd(t, m) = e - d
  <2>1. j + 1 = d + (m + 1) /\ m + 1 \in Int
    OBVIOUS
  <2> QED
    BY <1>3, <1>6, <2>1
<1>7. CASE s[j] = OrderTD
  <2>1. /\ e = Clamp(s, IF Left(s, j) >= 2 THEN j + 2 + s[j + 1] ELSE j + 1)
        /\ OrderEnd(t, m) = Clamp(t, IF Left(t, m) >= 2 THEN m + 2 + t[m + 1] ELSE m + 1)
    BY <1>2, <1>7, OrderKinds
  <2>2. Left(s, j) = b - j /\ Left(t, m) = c - m
    BY DEF Left
  <2>3. CASE b - j >= 2
    <3>1. e = Clamp(s, j + 2 + s[j + 1]) /\ s[j + 1] \in Nat
      <4>1. j + 1 \in 1..Len(s)
        BY <1>1, <2>3, Payload
      <4>2. s[j + 1] \in Nat
        BY <4>1, Payload
      <4> QED
        BY <2>1, <2>2, <2>3, <4>2
    <3>2. e >= j + 2
      <4>1. e = IF j + 2 + s[j + 1] > b THEN b ELSE j + 2 + s[j + 1]
        BY <3>1 DEF Clamp
      <4>2. s[j + 1] \in Nat
        BY <3>1
      <4>3. j \in Nat /\ b \in Nat
        BY <1>1
      <4> HIDE DEF e, b
      <4> QED BY <2>3, <4>1, <4>2, <4>3
    <3> HIDE DEF e
    <3>3. m + 1 \in m..(e - d - 1) /\ c - m >= 2 /\ d + (m + 1) = j + 1
      BY <1>1, <3>2
    <3>4. t[m + 1] = s[j + 1]
      BY <1>1, <3>3
    <3>5. OrderEnd(t, m) = Clamp(t, m + 2 + s[j + 1])
      BY <2>1, <2>2, <3>3, <3>4
    <3>6. j + 2 + s[j + 1] = d + (m + 2 + s[j + 1]) /\ m + 2 + s[j + 1] \in Int
      <4>1. s[j + 1] \in Int
        BY <3>1
      <4>2. \A v \in Int : j + 2 + v = d + (m + 2 + v) /\ m + 2 + v \in Int
        OBVIOUS
      <4> QED
        BY <4>1, <4>2
    <3> QED
      BY <1>3, <3>1, <3>5, <3>6 DEF e
  <2>4. CASE ~(b - j >= 2)
    <3>1. c - m < 2
      <4> HIDE DEF e
      <4> QED BY <1>1, <2>4
    <3>2. e = Clamp(s, j + 1) /\ OrderEnd(t, m) = Clamp(t, m + 1)
      BY <1>1, <2>1, <2>2, <2>4, <3>1
    <3> QED
      BY <1>6, <3>2
  <2> QED
    BY <2>3, <2>4
<1>8. CASE s[j] = OrderSF
  <2>1. e = Clamp(s, FieldEnd(s, j)) /\ OrderEnd(t, m) = Clamp(t, FieldEnd(t, m))
    BY <1>2, <1>8, OrderKinds
  <2>2. FieldEnd(s, j) \in (j + 1)..b /\ FieldEnd(t, m) \in (m + 1)..c
    BY <1>1, FieldExtent
  <2>3. e = FieldEnd(s, j) /\ OrderEnd(t, m) = FieldEnd(t, m)
    BY <1>1, <2>1, <2>2 DEF Clamp
  <2>4. FieldEnd(t, m) = FieldEnd(s, d + m) - d
    BY <1>1, <2>3, FieldMoved
  <2> QED
    BY <2>3, <2>4
<1>9. CASE s[j] \notin {OrderSBA, OrderIC, OrderMC, OrderRA, OrderEA, OrderTD, OrderSF}
  <2>1. e = Clamp(s, j + 1) /\ OrderEnd(t, m) = Clamp(t, m + 1)
    BY <1>2, <1>9, OrderKinds
  <2> QED
    BY <1>6, <2>1
<1> QED
  BY <1>4, <1>5, <1>7, <1>8, <1>9

-----------------------------------------------------------------------------
(* Reading display bytes. *)

UnrollOrders(s, g) ==
  [k \in 1..EndOf(s) |-> IF k = EndOf(s) THEN {} ELSE {s[k]} \cup g[OrderEnd(s, k)]]

FoundFrom(s) == CHOOSE g : g = UnrollOrders(s, g)

LEMMA OrdersAreFromOne == \A s : OrdersOf(s) = FoundFrom(s)[1]
BY DEF OrdersOf, FoundFrom, UnrollOrders

LEMMA OrdersUnroll ==
  ASSUME NEW s \in Seq(Byte), NEW k \in 1..EndOf(s)
  PROVE  FoundFrom(s)[k] =
           IF k = EndOf(s) THEN {} ELSE {s[k]} \cup FoundFrom(s)[OrderEnd(s, k)]
<1> DEFINE b == EndOf(s)
           X == SUBSET Byte
           F == [g \in [1..b -> X] |-> UnrollOrders(s, g)]
<1>1. b \in Nat /\ X # {} /\ \A n \in 1..b : n # b => n \in 1..Len(s) /\ s[n] \in Byte
  <2>1. b \in Nat /\ b = Len(s) + 1 /\ Len(s) \in Nat
    BY Payload
  <2>2. \A n \in 1..b : n # b => n \in 1..Len(s)
    BY <2>1
  <2>3. \A n \in 1..Len(s) : s[n] \in Byte
    BY ElementOfSeq
  <2> QED
    BY <2>1, <2>2, <2>3
<1>2. \A n \in 1..b : n # b => OrderEnd(s, n) \in (n + 1)..b
  BY <1>1, OrderExtent
<1>3. LooksAhead(F, b, X)
  <2>1. F \in [[1..b -> X] -> [1..b -> X]]
    <3>1. ASSUME NEW g \in [1..b -> X], NEW n \in 1..b
          PROVE  (IF n = b THEN {} ELSE {s[n]} \cup g[OrderEnd(s, n)]) \in X
      <4>1. CASE n # b
        <5>1. s[n] \in Byte /\ OrderEnd(s, n) \in 1..b
          BY <1>1, <1>2, <4>1
        <5>2. g[OrderEnd(s, n)] \in X
          BY <5>1
        <5> QED
          BY <4>1, <5>1, <5>2
      <4> QED
        BY <4>1
    <3>2. \A g \in [1..b -> X] : UnrollOrders(s, g) \in [1..b -> X]
      BY <3>1 DEF UnrollOrders
    <3> QED
      BY <3>2
  <2>2. ASSUME NEW g \in [1..b -> X], NEW h \in [1..b -> X], NEW n \in 1..b,
               \A m \in (n + 1)..b : g[m] = h[m]
        PROVE  F[g][n] = F[h][n]
    <3>1. UnrollOrders(s, g)[n] = UnrollOrders(s, h)[n]
      BY <1>2, <2>2 DEF UnrollOrders
    <3> QED
      BY <3>1
  <2> HIDE DEF F, b
  <2> QED
    BY <2>1, <2>2 DEF LooksAhead
<1>4. \E g \in [1..b -> X] : F[g] = g
  <2> HIDE DEF F, b, X
  <2>1. HasFixpoint(F, b, X)
    BY <1>1, <1>3, Fixpoint, Zenon
  <2> QED
    BY <2>1 DEF HasFixpoint
<1>5. \E g : g = UnrollOrders(s, g)
  BY <1>4
<1>6. FoundFrom(s) = UnrollOrders(s, FoundFrom(s))
  BY <1>5 DEF FoundFrom
<1>7. UnrollOrders(s, FoundFrom(s))[k]
        = IF k = EndOf(s) THEN {} ELSE {s[k]} \cup FoundFrom(s)[OrderEnd(s, k)]
  BY DEF UnrollOrders
<1> QED
  BY <1>6, <1>7

\* What is read behind the first bytes of a sequence is what is read of the
\* rest alone.
LEMMA OrdersBehind ==
  ASSUME NEW c \in Seq(Byte), NEW x \in Seq(Byte)
  PROVE  FoundFrom(c \o x)[Len(c) + 1] = OrdersOf(x)
<1> DEFINE s == c \o x
           d == Len(c)
           b == EndOf(x)
           S == {n \in 1..b : FoundFrom(s)[d + n] = FoundFrom(x)[n]}
<1>1. /\ s \in Seq(Byte) /\ Len(s) = d + Len(x) /\ d \in Nat /\ Len(x) \in Nat
      /\ b = Len(x) + 1 /\ b \in Nat /\ EndOf(s) = d + b
  BY ConcatProperties, LenProperties DEF EndOf
<1>2. \A i \in 1..Len(x) : x[i] = s[d + i]
  <2>1. \A i \in 1..(Len(c) + Len(x)) : s[i] = IF i <= Len(c) THEN c[i] ELSE x[i - Len(c)]
    BY ConcatProperties
  <2>2. \A i \in 1..Len(x) : d + i \in 1..(Len(c) + Len(x)) /\ ~(d + i <= Len(c)) /\ d + i - Len(c) = i
    BY <1>1
  <2> QED
    BY <2>1, <2>2
<1> HIDE DEF s
<1>3. ASSUME NEW n \in 1..b, \A m \in (n + 1)..b : m \in S
      PROVE  FoundFrom(s)[d + n] = FoundFrom(x)[n]
  <2>1. d + n \in 1..EndOf(s)
    BY <1>1
  <2>2. CASE n = b
    BY <1>1, <2>1, <2>2, OrdersUnroll
  <2>3. CASE n # b
    <3>1. n \in 1..Len(x) /\ d + n \in 1..Len(s) /\ d + n # EndOf(s)
      BY <1>1, <2>3
    <3>2. OrderEnd(x, n) \in (n + 1)..b /\ OrderEnd(s, d + n) \in (d + n + 1)..(d + b)
      BY <1>1, <3>1, OrderExtent
    <3>3. OrderEnd(x, n) = OrderEnd(s, d + n) - d
      <4>1. d + EndOf(x) <= EndOf(s) /\ OrderEnd(s, d + n) - d <= EndOf(x) /\ d \in Int
        BY <1>1, <3>2
      <4>2. \A i \in n..(OrderEnd(s, d + n) - d - 1) : i \in 1..Len(x)
        BY <1>1, <3>2
      <4>3. Agrees(s, d, x, n, OrderEnd(s, d + n) - d - 1)
        BY <1>2, <4>2 DEF Agrees
      <4> QED
        BY <1>1, <3>1, <4>1, <4>3, OrderMoved
    <3>4. OrderEnd(s, d + n) = d + OrderEnd(x, n)
      BY <1>1, <3>2, <3>3
    <3>5. FoundFrom(s)[d + OrderEnd(x, n)] = FoundFrom(x)[OrderEnd(x, n)]
      BY <1>3, <3>2
    <3>6. s[d + n] = x[n]
      BY <1>2, <3>1
    <3>7. FoundFrom(s)[d + n] = {s[d + n]} \cup FoundFrom(s)[OrderEnd(s, d + n)]
      BY <1>1, <2>1, <3>1, OrdersUnroll
    <3>8. FoundFrom(x)[n] = {x[n]} \cup FoundFrom(x)[OrderEnd(x, n)]
      BY <2>3, OrdersUnroll
    <3> QED
      BY <3>4, <3>5, <3>6, <3>7, <3>8
  <2> QED
    BY <2>2, <2>3
<1>4. \A n \in 1..b : (\A m \in (n + 1)..b : m \in S) => n \in S
  BY <1>3
<1>5. 1..b \subseteq S
  <2> HIDE DEF S, b
  <2> QED BY <1>1, <1>4, Backwards
<1>6. 1 \in 1..b
  BY <1>1
<1>7. FoundFrom(s)[d + 1] = FoundFrom(x)[1]
  BY <1>5, <1>6
<1> QED
  BY <1>7, OrdersAreFromOne DEF s

LEMMA NoOrders == OrdersOf(<<>>) = {}
<1>1. <<>> \in Seq(Byte) /\ EndOf(<<>>) = 1
  BY EmptySeq DEF EndOf
<1>2. 1 \in 1..EndOf(<<>>)
  BY <1>1
<1>3. FoundFrom(<<>>)[1] = {}
  BY <1>1, <1>2, OrdersUnroll
<1> QED
  BY <1>3, OrdersAreFromOne

\* An order copied from a record, with no more bytes behind it than the
\* record had there.
LEMMA OrdersOfACopy ==
  ASSUME NEW s \in Seq(Byte), NEW j \in 1..Len(s), NEW x \in Seq(Byte),
         Len(x) <= Left(s, OrderEnd(s, j))
  PROVE  /\ SubSeq(s, j, OrderEnd(s, j) - 1) \in Seq(Byte)
         /\ SubSeq(s, j, OrderEnd(s, j) - 1) \o x \in Seq(Byte)
         /\ Len(SubSeq(s, j, OrderEnd(s, j) - 1) \o x) <= Left(s, j)
         /\ OrdersOf(SubSeq(s, j, OrderEnd(s, j) - 1) \o x) = {s[j]} \cup OrdersOf(x)
<1> DEFINE e == OrderEnd(s, j)
           c == SubSeq(s, j, e - 1)
           t == c \o x
           d == j - 1
<1>1. /\ e \in (j + 1)..EndOf(s) /\ EndOf(s) = Len(s) + 1 /\ Len(s) \in Nat
      /\ Len(x) \in Nat /\ Len(x) <= EndOf(s) - e
  BY OrderExtent, Payload, LenProperties DEF Left
<1> HIDE DEF e
<1>2. c \in Seq(Byte) /\ Len(c) = e - j /\ \A i \in 1..(e - j) : c[i] = s[d + i]
  <2>1. \A n \in j..(e - 1) : n \in 1..Len(s)
    BY <1>1
  <2>2. \A n \in j..(e - 1) : s[n] \in Byte
    BY <2>1, ElementOfSeq
  <2>3. /\ c \in Seq(Byte) /\ Len(c) = IF j <= e - 1 THEN e - 1 - j + 1 ELSE 0
        /\ \A i \in 1..(e - 1 - j + 1) : c[i] = s[j + i - 1]
    BY <1>1, <2>2, SubSeqProperties
  <2> HIDE DEF c
  <2>4. Len(c) = e - j
    BY <1>1, <2>3
  <2>5. \A i \in 1..(e - j) : i \in 1..(e - 1 - j + 1) /\ j + i - 1 = d + i
    BY <1>1
  <2> QED
    BY <2>3, <2>4, <2>5
<1> HIDE DEF c
<1>3. /\ t \in Seq(Byte) /\ Len(t) = e - j + Len(x)
      /\ \A i \in 1..(e - j) : t[i] = s[d + i]
  <2>1. /\ t \in Seq(Byte) /\ Len(t) = Len(c) + Len(x)
        /\ \A i \in 1..(Len(c) + Len(x)) : t[i] = IF i <= Len(c) THEN c[i] ELSE x[i - Len(c)]
    BY <1>2, ConcatProperties
  <2>2. \A i \in 1..(e - j) : i \in 1..(Len(c) + Len(x)) /\ i <= Len(c)
    BY <1>1, <1>2
  <2> QED
    BY <1>2, <2>1, <2>2
<1>4. Len(t) <= Left(s, j)
  BY <1>1, <1>3 DEF Left
<1> HIDE DEF t
<1>5. OrderEnd(t, 1) = e - d
  <2>1. /\ EndOf(t) = e - j + Len(x) + 1 /\ 1 \in 1..Len(t) /\ d \in Int /\ d + 1 = j
        /\ d + EndOf(t) <= EndOf(s) /\ e - d <= EndOf(t) /\ e - d - 1 = e - j
    BY <1>1, <1>3 DEF EndOf
  <2>2. Agrees(s, d, t, 1, e - d - 1)
    BY <1>3, <2>1 DEF Agrees
  <2>3. OrderEnd(s, d + 1) = e
    BY <2>1 DEF e
  <2> QED
    BY <1>3, <2>1, <2>2, <2>3, OrderMoved
<1>6. FoundFrom(t)[1] = {t[1]} \cup FoundFrom(t)[e - d]
  <2>1. EndOf(t) = Len(t) + 1 /\ 1 \in 1..EndOf(t) /\ 1 # EndOf(t)
    BY <1>1, <1>3 DEF EndOf
  <2>2. FoundFrom(t)[1] = {t[1]} \cup FoundFrom(t)[OrderEnd(t, 1)]
    BY <1>3, <2>1, OrdersUnroll
  <2> QED
    BY <1>5, <2>2
<1>7. t[1] = s[j]
  <2>1. 1 \in 1..(e - j) /\ d + 1 = j
    BY <1>1
  <2> QED
    BY <1>3, <2>1
<1>8. FoundFrom(t)[e - d] = OrdersOf(x)
  <2>1. e - d = Len(c) + 1
    BY <1>1, <1>2
  <2>2. FoundFrom(c \o x)[Len(c) + 1] = OrdersOf(x)
    BY <1>2, OrdersBehind
  <2> QED
    BY <2>1, <2>2 DEF t
<1>9. OrdersOf(t) = {s[j]} \cup OrdersOf(x)
  BY <1>6, <1>7, <1>8, OrdersAreFromOne
<1> QED
  BY <1>2, <1>3, <1>4, <1>9 DEF t, c, e

-----------------------------------------------------------------------------
(* The invariant. *)

NoOrder == {ESC, SOH, OrderWDSF}

\* Whatever may still be copied from the record: what is copied so far adds
\* no order that is none.
CopiedInv ==
  mode \in {"commands", "display"} =>
    \A x \in Seq(Byte) : Len(x) <= Left(record, at) =>
      OrdersOf(display \o x) \cap NoOrder \subseteq OrdersOf(x)

IsCleanEvent(e) == e[1] = "RawScreenData" => OrdersOf(e[2]) \cap NoOrder = {}

IsCleanEntry(entry) ==
  IsDataRecord(entry.record) => \A n \in DOMAIN entry.events : IsCleanEvent(entry.events[n])

ScreenInv ==
  /\ CopiedInv
  /\ \A k \in DOMAIN reported : IsCleanEntry(reported[k])

LEMMA QuietIsClean ==
  ASSUME NEW callbacks, IsQuiet(callbacks)
  PROVE  \A n \in DOMAIN callbacks : IsCleanEvent(callbacks[n])
BY DEF IsQuiet, IsCleanEvent

LEMMA ReportClean ==
  ASSUME UpdateInv, ScreenInv, NEW entry, IsCleanEntry(entry),
         reported' = Append(reported, entry)
  PROVE  \A k \in DOMAIN reported' : IsCleanEntry(reported'[k])
<1>1. PICK S : reported \in Seq(S)
  BY DEF UpdateInv, IsSequence
<1>2. reported \in Seq(S \cup {entry}) /\ entry \in S \cup {entry}
  BY <1>1
<1>3. /\ reported' \in Seq(S \cup {entry})
      /\ DOMAIN reported' = 1..(Len(reported) + 1)
      /\ \A n \in 1..Len(reported) : reported'[n] = reported[n]
      /\ reported'[Len(reported) + 1] = entry
      /\ DOMAIN reported = 1..Len(reported) /\ Len(reported) \in Nat
  BY <1>2, AppendProperties, LenProperties
<1>4. \A k \in DOMAIN reported' : k \in DOMAIN reported \/ k = Len(reported) + 1
  BY <1>3
<1> QED
  BY <1>3, <1>4 DEF ScreenInv

\* A turn of the walk that copies nothing.
LEMMA NothingCopied ==
  ASSUME TypeInv, TypeInv', ScreenInv, mode \in {"commands", "display"},
         UNCHANGED <<record, display, reported>>, at' >= at
  PROVE  ScreenInv'
<1>1. /\ at \in Nat /\ at' \in Nat /\ EndOf(record) \in Nat
      /\ Left(record, at) = EndOf(record) - at /\ Left(record, at') = EndOf(record) - at'
  BY Payload DEF TypeInv, Left
<1>2. \A x \in Seq(Byte) : Len(x) <= Left(record, at') => Len(x) <= Left(record, at)
  BY <1>1, LenProperties
<1> QED
  BY <1>2 DEF ScreenInv, CopiedInv

LEMMA CopyKeepsClean ==
  ASSUME TypeInv, TypeInv', ScreenInv, CopyOrder
  PROVE  ScreenInv'
<1> DEFINE e == OrderEnd(record, at)
           c == SubSeq(record, at, e - 1)
<1>1. /\ mode = "display" /\ at \in 1..Len(record) /\ record \in Seq(Byte) /\ display \in Seq(Byte)
      /\ record[at] \notin NoOrder
  BY Inside DEF CopyOrder, InDisplay, IsCopied, NoOrder, TypeInv
<1>2. e \in (at + 1)..EndOf(record)
  BY <1>1, OrderExtent
<1>3. display' = display \o c /\ at' = e /\ mode' = mode /\ UNCHANGED <<record, reported>>
  <2>1. at' = Clamp(record, e)
    BY DEF CopyOrder, GoOn
  <2>2. at' = e
    BY <1>1, <1>2, <2>1, Payload DEF Clamp
  <2> QED
    BY <2>2 DEF CopyOrder, GoOn, framing
<1> SUFFICES ASSUME NEW x \in Seq(Byte), Len(x) <= Left(record, e)
             PROVE  OrdersOf(display' \o x) \cap NoOrder \subseteq OrdersOf(x)
  BY <1>3 DEF ScreenInv, CopiedInv
<1>4. /\ c \in Seq(Byte) /\ c \o x \in Seq(Byte) /\ Len(c \o x) <= Left(record, at)
      /\ OrdersOf(c \o x) = {record[at]} \cup OrdersOf(x)
  BY <1>1, OrdersOfACopy
<1>5. (display \o c) \o x = display \o (c \o x)
  <2>1. IsRegrouped(display, c, x)
    BY <1>1, <1>4, Regroup
  <2> QED
    BY <2>1 DEF IsRegrouped
<1>6. OrdersOf(display \o (c \o x)) \cap NoOrder \subseteq OrdersOf(c \o x)
  BY <1>1, <1>4 DEF ScreenInv, CopiedInv
<1> HIDE DEF c, e
<1> QED
  BY <1>1, <1>3, <1>4, <1>5, <1>6

LEMMA WalkKeepsClean ==
  ASSUME TypeInv, TypeInv', ScreenInv,
         \/ ClearScreen \/ ReadCommand \/ WriteErrorCode \/ Roll \/ WriteStructuredField
         \/ UnknownCommand \/ TopSoh \/ StrayByte \/ OpenWtd
         \/ WtdSoh \/ SkipWdsf \/ Strpccmd
  PROVE  ScreenInv'
<1>1. PICK k, callbacks : Advance(k, callbacks)
  BY CommandsAdvance, OpenAdvances, DisplayAdvances
<1>2. display' = display
  BY CommandsAdvance, OpenAdvances DEF WtdSoh, SkipWdsf, Strpccmd, Skip
<1>3. at' >= at
  <2>1. at' = Clamp(record, k) /\ k \in Nat /\ k > at /\ at <= EndOf(record)
        /\ at \in Nat /\ EndOf(record) \in Nat
    BY <1>1, Payload DEF Advance, GoOn, TypeInv
  <2> QED
    BY <2>1 DEF Clamp
<1>4. mode \in {"commands", "display"} /\ UNCHANGED <<record, reported>>
  BY <1>1 DEF Advance, GoOn, framing
<1> QED
  BY <1>2, <1>3, <1>4, NothingCopied

LEMMA DispatchKeepsClean ==
  ASSUME UpdateInv, ScreenInv, NEW callbacks, Dispatch(callbacks), mode = "framing",
         ~IsDataRecord(NextRecord) \/ IsQuiet(callbacks)
  PROVE  ScreenInv'
<1> DEFINE entry == [record |-> NextRecord, events |-> callbacks]
<1>1. reported' = Append(reported, entry) /\ mode' = "framing"
  BY DEF Dispatch
<1>2. IsCleanEntry(entry)
  BY QuietIsClean DEF IsCleanEntry
<1>3. \A k \in DOMAIN reported' : IsCleanEntry(reported'[k])
  BY <1>1, <1>2, ReportClean
<1> QED
  BY <1>1, <1>3 DEF ScreenInv, CopiedInv

LEMMA FramingKeepsClean ==
  ASSUME TypeInv, UpdateInv, ScreenInv,
         \/ SkipByte \/ RejectRecord \/ PassThrough \/ Signal \/ IgnoreRecord
         \/ BeginWalk \/ Return
  PROVE  ScreenInv'
<1>1. CASE SkipByte \/ Return
  BY <1>1 DEF SkipByte, Return, ScreenInv, CopiedInv, framing, walk
<1>2. CASE RejectRecord
  <2>1. IsQuiet(<<ParseError>>) /\ mode = "framing"
    BY <1>2, OneIsQuiet DEF ParseError, RejectRecord, Dispatch, TakeRecord
  <2> QED
    BY <1>2, <2>1, DispatchKeepsClean DEF RejectRecord
<1>3. CASE PassThrough
  BY <1>3, DispatchKeepsClean DEF PassThrough, Dispatch, TakeRecord
<1>4. CASE Signal
  <2>1. SignalOf(OpcodeOf(NextRecord)) # "RawScreenData"
    BY <1>4 DEF Signal, HasOpcodeIn, SignalOpcodes, SignalOf, OpInvite, OpCancelInvite,
                OpMsgLightOn, OpMsgLightOff
  <2>2. IsQuiet(<<<<SignalOf(OpcodeOf(NextRecord))>>>>)
    BY <2>1, OneIsQuiet
  <2> QED
    BY <1>4, <2>2, DispatchKeepsClean DEF Signal, Dispatch, TakeRecord
<1>5. CASE IgnoreRecord
  BY <1>5, EmptyIsQuiet, DispatchKeepsClean DEF IgnoreRecord, Dispatch, TakeRecord
<1>6. CASE BeginWalk
  <2>1. display' = <<>> /\ reported' = reported
    BY <1>6 DEF BeginWalk
  <2>2. \A x \in Seq(Byte) : OrdersOf(<<>> \o x) \cap NoOrder \subseteq OrdersOf(x)
    <3>1. \A x \in Seq(Byte) : <<>> \o x = x
      BY ConcatEmptySeq
    <3> QED
      BY <3>1
  <2> QED
    BY <2>1, <2>2 DEF ScreenInv, CopiedInv
<1> QED
  BY <1>1, <1>2, <1>3, <1>4, <1>5, <1>6

\* Nothing is copied any more: what was copied has no order that is none.
LEMMA EndWalkKeepsClean ==
  ASSUME TypeInv, UpdateInv, ScreenInv, EndWalk
  PROVE  ScreenInv'
<1> DEFINE update == <<"RawScreenData", display>>
           entry  == [record |-> record, events |-> Append(events, update)]
<1>1. /\ reported' = Append(reported, entry) /\ mode' = "framing" /\ mode = "commands"
      /\ display \in Seq(Byte) /\ <<>> \in Seq(Byte)
  BY EmptySeq DEF EndWalk, TypeInv
<1>2. OrdersOf(display) \cap NoOrder = {}
  <2>1. Len(<<>>) <= Left(record, at)
    BY EmptySeq, Payload DEF TypeInv, Left
  <2>2. OrdersOf(display \o <<>>) \cap NoOrder \subseteq OrdersOf(<<>>)
    BY <1>1, <2>1 DEF ScreenInv, CopiedInv
  <2>3. display \o <<>> = display
    BY <1>1, ConcatEmptySeq
  <2> QED
    BY <2>2, <2>3, NoOrders
<1>3. IsCleanEntry(entry)
  <2>1. PICK S : events \in Seq(S)
    BY DEF UpdateInv, IsQuiet, IsSequence
  <2>2. events \in Seq(S \cup {update}) /\ update \in S \cup {update}
    BY <2>1
  <2>3. /\ DOMAIN Append(events, update) = 1..(Len(events) + 1)
        /\ \A n \in 1..Len(events) : Append(events, update)[n] = events[n]
        /\ Append(events, update)[Len(events) + 1] = update
        /\ DOMAIN events = 1..Len(events) /\ Len(events) \in Nat
    BY <2>2, AppendProperties, LenProperties
  <2>4. \A n \in DOMAIN events : IsCleanEvent(events[n])
    BY QuietIsClean DEF UpdateInv
  <2>5. IsCleanEvent(update)
    BY <1>2 DEF IsCleanEvent
  <2>6. \A n \in 1..(Len(events) + 1) : n \in 1..Len(events) \/ n = Len(events) + 1
    BY <2>3
  <2> HIDE DEF update
  <2>7. \A n \in DOMAIN Append(events, update) : IsCleanEvent(Append(events, update)[n])
    BY <2>3, <2>4, <2>5, <2>6
  <2> QED
    BY <2>7 DEF IsCleanEntry
<1>4. \A k \in DOMAIN reported' : IsCleanEntry(reported'[k])
  BY <1>1, <1>3, ReportClean
<1> QED
  BY <1>1, <1>4 DEF ScreenInv, CopiedInv

\* Whatever the host sends and however it is cut: the owner of the screen,
\* who reads the display bytes of a data record as orders and text, meets no
\* byte of a command, a structured field or a start of header where an order
\* begins (decoder.cpp:350-356, 385-389).
THEOREM OnlyOrdersReachTheScreen == Spec => []NothingLeaksToTheScreen
<1>1. Init => ScreenInv
  <2>1. DOMAIN <<>> = {}
    BY EmptySeq
  <2> QED
    BY <2>1 DEF Init, ScreenInv, CopiedInv
<1>2. TypeInv /\ TypeInv' /\ UpdateInv /\ ScreenInv /\ [Next]_vars => ScreenInv'
  <2> SUFFICES ASSUME TypeInv, TypeInv', UpdateInv, ScreenInv, [Next]_vars
               PROVE  ScreenInv'
    OBVIOUS
  <2>1. CASE CloseWtd
    <3>1. UNCHANGED <<record, display, reported, at>> /\ mode = "display"
      BY <2>1 DEF CloseWtd, framing, walk
    <3>2. at' >= at
      BY <3>1 DEF TypeInv
    <3> QED
      BY <3>1, <3>2, NothingCopied
  <2>2. CASE Step /\ ~CloseWtd
    BY <2>2, FramingKeepsClean, WalkKeepsClean, CopyKeepsClean, EndWalkKeepsClean DEF Step
  <2>3. CASE Feed
    BY <2>3 DEF Feed, ScreenInv, CopiedInv, walk
  <2>4. CASE Reset
    BY <2>4 DEF Reset, ScreenInv, CopiedInv, walk
  <2>5. CASE UNCHANGED vars
    BY <2>5 DEF vars, ScreenInv, CopiedInv
  <2> QED
    BY <2>1, <2>2, <2>3, <2>4, <2>5 DEF Next
<1>3. ScreenInv => NothingLeaksToTheScreen
  BY DEF ScreenInv, IsCleanEntry, IsCleanEvent, NoOrder, NothingLeaksToTheScreen
<1> QED
  BY <1>1, <1>2, <1>3, TypesHold, UpdatesHold, PTL DEF Spec
=============================================================================
