---------------------------- MODULE SignonProofs ----------------------------
(***************************************************************************)
(* The sign-on and the code pages.  What is used of the thirteen tables is *)
(* TablesAssumption and LettersAssumption, closed formulas that TLC        *)
(* evaluates.  From them it is shown what the reverse tables hold, that    *)
(* the UTF-8 of code points is read as these code points, that adding one  *)
(* to a seed can be undone, and which passwords and names the substitute   *)
(* tells apart.                                                            *)
(***************************************************************************)
EXTENDS Signon, Recursion

-----------------------------------------------------------------------------
(* Intervals. *)

LEMMA Between ==
   \A a, b \in Int : \A n : n \in a..b <=> n \in Int /\ a <= n /\ n <= b
OBVIOUS

LEMMA ByteIs == \A n : n \in Byte <=> n \in Int /\ 0 <= n /\ n <= 255
<1> DEFINE top == 255
<1>1. 0 \in Int /\ top \in Int
  OBVIOUS
<1>2. Byte = 0..top
  BY Zenon DEF Byte
<1> HIDE DEF top
<1>3. \A n : n \in Byte <=> n \in Int /\ 0 <= n /\ n <= top
  BY <1>1, <1>2, Between, Zenon
<1> QED
  BY <1>3, Zenon DEF top

LEMMA CodePointIs ==
  /\ \A n : n \in CodePoint <=> n \in Int /\ 0 <= n /\ n <= MaxCodePoint
  /\ MaxCodePoint \in Int /\ MaxCodePoint = 1114111
<1>1. MaxCodePoint = 1114111
  BY SMT DEF MaxCodePoint
<1>2. 0 \in Int /\ MaxCodePoint \in Int
  BY <1>1, SMT
<1>3. \A n : n \in CodePoint <=> n \in Int /\ 0 <= n /\ n <= MaxCodePoint
  BY <1>2, Between, Zenon DEF CodePoint
<1> QED
  BY <1>1, <1>2, <1>3, SMT

-----------------------------------------------------------------------------
(* The tables. *)

LEMMA GreatestOf ==
  ASSUME NEW T, T \subseteq Nat, T # {}, NEW b \in Nat, \A n \in T : n <= b
  PROVE  Max(T) \in T /\ \A n \in T : n <= Max(T)
<1> DEFINE U == {b - n : n \in T}
<1>1. U \subseteq Nat /\ U # {}
  <2>1. \A n \in T : n \in Nat /\ n <= b
    OBVIOUS
  <2>2. \A n \in T : b - n \in Nat
    BY <2>1
  <2>3. \E n \in T : TRUE
    OBVIOUS
  <2> QED
    BY <2>2, <2>3
<1>2. PICK u \in U : \A w \in U : u <= w
  BY <1>1, Least
<1>3. PICK m \in T : u = b - m
  BY <1>2
<1>4. \A n \in T : m >= n
  <2>1. ASSUME NEW n \in T
        PROVE  m >= n
    <3>1. u <= b - n
      BY <1>2
    <3> QED
      BY <1>3, <3>1
  <2> QED
    BY <2>1
<1>5. \E m_1 \in T : \A n \in T : m_1 >= n
  BY <1>4
<1>6. Max(T) \in T /\ \A n \in T : Max(T) >= n
  BY <1>5 DEF Max
<1> QED
  BY <1>6

\* The reverse table has the code points of the page, each with the last byte
\* that stands for it.
LEMMA ReverseTable ==
  ASSUME NEW cp \in Pages, NEW code
  PROVE  /\ code \in Codes(cp) <=> \E b \in Byte : ToUnicodeTable[cp][b] = code
         /\ code \in Codes(cp) => /\ FromUnicodeTable[cp][code] \in Byte
                                  /\ IsLast(cp, FromUnicodeTable[cp][code], code)
<1> DEFINE D == 1..256
           bytes == [n \in D |-> n - 1]
           table == ToUnicodeTable[cp]
           places == {n \in DOMAIN bytes : table[bytes[n]] = code}
<1>1. /\ FromUnicodeTable[cp] = [c \in {table[bytes[n]] : n \in DOMAIN bytes} |->
                                   bytes[Max({n \in DOMAIN bytes : table[bytes[n]] = c})]]
      /\ Codes(cp) = {table[bytes[n]] : n \in DOMAIN bytes}
  BY DEF FromUnicodeTable, ReverseOf, Codes
<1>2. DOMAIN bytes = D /\ \A n \in D : bytes[n] = n - 1
  OBVIOUS
<1>0. \A n : n \in D <=> n \in Int /\ 1 <= n /\ n <= 256
  <2> DEFINE top == 256
  <2>1. 1 \in Int /\ top \in Int
    OBVIOUS
  <2>2. D = 1..top
    BY Zenon
  <2> HIDE DEF D, top
  <2>3. \A n : n \in D <=> n \in Int /\ 1 <= n /\ n <= top
    BY <2>1, <2>2, Between, Zenon
  <2> QED
    BY <2>3, Zenon DEF top
<1> HIDE DEF D
<1>7. \A n \in D : n \in Nat /\ n <= 256 /\ n - 1 \in Byte
  BY <1>0, ByteIs
<1>8. \A b \in Byte : b + 1 \in D /\ b \in Nat
  BY <1>0, ByteIs
<1> HIDE DEF bytes
<1>3. \A b \in Byte : bytes[b + 1] = b
  <2>1. \A b \in Nat : (b + 1) - 1 = b
    OBVIOUS
  <2> QED
    BY <1>2, <1>8, <2>1
<1>4. code \in Codes(cp) <=> \E b \in Byte : table[b] = code
  BY <1>1, <1>2, <1>3, <1>7, <1>8
<1>5. ASSUME code \in Codes(cp)
      PROVE  FromUnicodeTable[cp][code] \in Byte /\ IsLast(cp, FromUnicodeTable[cp][code], code)
  <2>1. FromUnicodeTable[cp][code] = bytes[Max(places)]
    BY <1>1, <1>5
  <2>2. places \subseteq Nat /\ places # {} /\ \A n \in places : n <= 256
    BY <1>1, <1>2, <1>5, <1>7
  <2>3. Max(places) \in places /\ \A n \in places : n <= Max(places)
    <3> HIDE DEF places
    <3>1. 256 \in Nat
      OBVIOUS
    <3> QED
      BY <2>2, <3>1, GreatestOf, Zenon
  <2>4. ASSUME NEW c \in Byte, c > bytes[Max(places)]
        PROVE  table[c] # code
    <3>1. c + 1 \in D /\ bytes[c + 1] = c /\ c \in Nat
      BY <1>3, <1>8
    <3>2. bytes[Max(places)] = Max(places) - 1 /\ Max(places) \in Nat
      BY <1>2, <1>7, <2>3
    <3>3. c + 1 > Max(places) /\ Max(places) \in Nat /\ c + 1 \in Nat
      BY <2>4, <3>1, <3>2
    <3>4. c + 1 \notin places
      <4> HIDE DEF places
      <4> SUFFICES ASSUME c + 1 \in places PROVE FALSE
        OBVIOUS
      <4>1. c + 1 <= Max(places)
        BY <2>3
      <4> QED
        BY <3>3, <4>1
    <3> QED
      BY <1>2, <3>1, <3>4
  <2>5. table[bytes[Max(places)]] = code /\ bytes[Max(places)] \in Byte
    BY <1>2, <1>7, <2>3
  <2> QED
    BY <2>1, <2>4, <2>5 DEF IsLast
<1> QED
  BY <1>4, <1>5

\* Two last bytes are one.
LEMMA OneIsLast ==
  ASSUME NEW cp, NEW code, NEW b \in Byte, NEW c \in Byte, IsLast(cp, b, code), IsLast(cp, c, code)
  PROVE  b = c
<1>1. b \in Int /\ c \in Int
  BY ByteIs
<1>2. ~(b > c) /\ ~(c > b)
  BY DEF IsLast
<1> QED
  BY <1>1, <1>2

\* A byte 0 stands for 0 alone.
LEMMA TableZero ==
  ASSUME NEW cp \in Pages
  PROVE  /\ 0 \in Byte /\ Space \in Byte
         /\ ToUnicodeTable[cp][0] = 0
         /\ \A b \in Byte : ToUnicodeTable[cp][b] \in CodePoint /\ ToUnicodeTable[cp][b] # Replacement
<1>1. 0 \in Byte /\ Space \in Byte
  BY ByteIs DEF Space
<1> QED
  BY <1>1, TablesAssumption

\* What is shown of a byte.
LEMMA ShownIsCode ==
  ASSUME NEW cp \in Pages, NEW b \in Byte
  PROVE  /\ ToUnicode(cp, b) \in CodePoint
         /\ ToUnicodeTable[cp][b] # 0 => ToUnicode(cp, b) = ToUnicodeTable[cp][b]
         /\ ToUnicode(cp, b) \notin {0, Replacement} => ToUnicode(cp, b) = ToUnicodeTable[cp][b]
<1>1. ToUnicodeTable[cp][b] \in CodePoint
  BY TableZero
<1>2. Replacement \in CodePoint
  BY CodePointIs DEF Replacement
<1> QED
  BY <1>1, <1>2 DEF ToUnicode

\* What a code point is sent as: its last byte on the page, or a blank.  The
\* last byte for 0 may be one that the page does not define.
LEMMA SentCode ==
  ASSUME NEW cp \in Pages, NEW code
  PROVE  /\ FromUnicode(cp, code) \in Byte
         /\ \A b \in Byte : IsLast(cp, b, code) /\ b # 0 => FromUnicode(cp, code) = b
         /\ \A b \in Byte : ToUnicodeTable[cp][b] = code /\ code # 0 =>
              IsLast(cp, FromUnicode(cp, code), code)
         /\ (\A b \in Byte : ToUnicodeTable[cp][b] # code) /\ code # 0 => FromUnicode(cp, code) = Space
         /\ code = 0 => ToUnicodeTable[cp][FromUnicode(cp, code)] = 0
<1> DEFINE result == IF code \in Codes(cp) THEN FromUnicodeTable[cp][code] ELSE 0
<1>1. FromUnicode(cp, code) = IF result # 0 \/ code = 0 THEN result ELSE Space
  BY DEF FromUnicode
<1>2. /\ code \in Codes(cp) <=> \E b \in Byte : ToUnicodeTable[cp][b] = code
      /\ code \in Codes(cp) => result \in Byte /\ IsLast(cp, result, code)
      /\ code \notin Codes(cp) => result = 0
  BY ReverseTable
<1> HIDE DEF result
<1>3. 0 \in Byte /\ Space \in Byte /\ ToUnicodeTable[cp][0] = 0
  BY TableZero
<1>4. FromUnicode(cp, code) \in Byte
  BY <1>1, <1>2, <1>3
<1>5. ASSUME NEW b \in Byte, IsLast(cp, b, code), b # 0
      PROVE  FromUnicode(cp, code) = b
  <2>1. code \in Codes(cp)
    BY <1>2, <1>5 DEF IsLast
  <2>2. result = b
    BY <1>2, <1>5, <2>1, OneIsLast
  <2> QED
    BY <1>1, <1>5, <2>2
<1>6. ASSUME NEW b \in Byte, ToUnicodeTable[cp][b] = code, code # 0
      PROVE  IsLast(cp, FromUnicode(cp, code), code)
  <2>1. code \in Codes(cp)
    BY <1>2, <1>6
  <2>2. ToUnicodeTable[cp][result] = code
    BY <1>2, <2>1 DEF IsLast
  <2>3. result # 0
    BY <1>3, <1>6, <2>2
  <2> QED
    BY <1>1, <1>2, <2>1, <2>3
<1>7. ASSUME code = 0
      PROVE  ToUnicodeTable[cp][FromUnicode(cp, code)] = 0
  <2>1. code \in Codes(cp) /\ FromUnicode(cp, code) = result
    BY <1>1, <1>2, <1>3, <1>7
  <2> QED
    BY <1>2, <1>7, <2>1 DEF IsLast
<1> QED
  BY <1>1, <1>2, <1>4, <1>5, <1>6, <1>7


-----------------------------------------------------------------------------
(* UTF-8. *)

Continued(v, k, code, n) ==
  IF n < SequenceLength(v[k]) /\ k + n <= Len(v) THEN 64 * code + (v[k + n] % 64) ELSE code

CodeAtStep(v, k) ==
  Continued(v, k, Continued(v, k, Continued(v, k, LeadBits(v[k]), 1), 2), 3)

LEMMA CodeAtIs == \A v, k : CodeAt(v, k) = CodeAtStep(v, k)
BY DEF CodeAt, CodeAtStep, Continued

LEMMA FirstByte ==
  ASSUME NEW c \in Byte
  PROVE  SequenceLength(c) \in Nat /\ SequenceLength(c) >= 1 /\ SequenceLength(c) <= 4
         /\ LeadBits(c) \in Nat
<1>1. /\ \A n : n \in 192..223 <=> n \in Int /\ 192 <= n /\ n <= 223
      /\ \A n : n \in 224..239 <=> n \in Int /\ 224 <= n /\ n <= 239
      /\ \A n : n \in 240..247 <=> n \in Int /\ 240 <= n /\ n <= 247
  OBVIOUS
<1>2. c \in Int /\ 0 <= c
  BY ByteIs
<1>3. SequenceLength(c) \in {1, 2, 3, 4}
  BY DEF SequenceLength
<1>4. LeadBits(c) \in Nat
  <2>1. LeadBits(c) \in {c, c - 192, c - 224, c - 240, Replacement} /\ Replacement \in Nat
    BY DEF LeadBits, Replacement
  <2>2. /\ LeadBits(c) = c - 192 => c >= 192
        /\ LeadBits(c) = c - 224 => c >= 224
        /\ LeadBits(c) = c - 240 => c >= 240
    BY <1>1, <1>2 DEF LeadBits, Replacement
  <2> QED
    BY <1>2, <2>1, <2>2
<1> QED
  BY <1>3, <1>4

LEMMA ContinuedType ==
  ASSUME NEW v \in Seq(Byte), NEW k \in 1..Len(v), NEW code \in Nat, NEW n \in Nat
  PROVE  Continued(v, k, code, n) \in Nat
<1>1. CASE n < SequenceLength(v[k]) /\ k + n <= Len(v)
  <2>1. k + n \in 1..Len(v)
    BY <1>1, LenProperties
  <2>2. v[k + n] \in Nat
    BY <2>1, ElementOfSeq, ByteIs
  <2> DEFINE b == v[k + n]
  <2>3. b % 64 \in Nat
    <3> HIDE DEF b
    <3> QED
      BY <2>2 DEF b
  <2> HIDE DEF b
  <2>4. 64 * code + (b % 64) \in Nat
    BY <2>3
  <2> QED
    BY <1>1, <2>4 DEF Continued, b
<1>2. CASE ~(n < SequenceLength(v[k]) /\ k + n <= Len(v))
  BY <1>2 DEF Continued
<1> QED
  BY <1>1, <1>2

LEMMA CodeAtType ==
  ASSUME NEW v \in Seq(Byte), NEW k \in 1..Len(v)
  PROVE  CodeAt(v, k) \in Nat
<1>1. LeadBits(v[k]) \in Nat
  BY FirstByte, ElementOfSeq
<1>2. \A code, n \in Nat : Continued(v, k, code, n) \in Nat
  BY ContinuedType
<1>3. 1 \in Nat /\ 2 \in Nat /\ 3 \in Nat
  OBVIOUS
<1> QED
  BY <1>1, <1>2, <1>3, CodeAtIs DEF CodeAtStep

FromStep(v, f) ==
  [k \in 1..(Len(v) + 4) |->
     IF k > Len(v) THEN <<>> ELSE <<CodeAt(v, k)>> \o f[k + SequenceLength(v[k])]]

From(v) == CHOOSE f : f = FromStep(v, f)

LEMMA CodePointsIsFrom == \A v : CodePoints(v) = From(v)[1]
BY DEF CodePoints, From, FromStep

LEMMA FromUnrolls ==
  ASSUME NEW v \in Seq(Byte), NEW k \in 1..(Len(v) + 4)
  PROVE  /\ From(v)[k] \in Seq(Nat)
         /\ From(v)[k] = IF k > Len(v) THEN <<>>
                         ELSE <<CodeAt(v, k)>> \o From(v)[k + SequenceLength(v[k])]
<1> DEFINE b == Len(v) + 4
           X == Seq(Nat)
           F == [f \in [1..b -> X] |-> FromStep(v, f)]
           next(m) == m + SequenceLength(v[m])
<1>1. b \in Nat /\ X # {} /\ <<>> \in X /\ Len(v) \in Nat
  <2>1. Len(v) \in Nat
    BY LenProperties
  <2>2. <<>> \in X
    BY EmptySeq
  <2> HIDE DEF X
  <2> QED
    BY <2>1, <2>2
<1>2. \A m \in 1..b : m <= Len(v) => next(m) \in (m + 1)..b /\ <<CodeAt(v, m)>> \in X
  <2>1. ASSUME NEW m \in 1..b, m <= Len(v)
        PROVE  next(m) \in (m + 1)..b /\ <<CodeAt(v, m)>> \in X
    <3>1. m \in 1..Len(v)
      BY <1>1, <2>1
    <3>2. v[m] \in Byte
      BY <3>1, ElementOfSeq
    <3>3. CodeAt(v, m) \in Nat
      BY <3>1, CodeAtType
    <3>4. SequenceLength(v[m]) \in Nat /\ SequenceLength(v[m]) >= 1 /\ SequenceLength(v[m]) <= 4
      BY <3>2, FirstByte
    <3> QED
      BY <1>1, <2>1, <3>3, <3>4
  <2> QED
    BY <2>1
<1> HIDE DEF next
<1>3. ASSUME NEW f \in [1..b -> X]
      PROVE  /\ FromStep(v, f) \in [1..b -> X]
             /\ \A m \in 1..b : FromStep(v, f)[m] = IF m > Len(v) THEN <<>>
                                                    ELSE <<CodeAt(v, m)>> \o f[next(m)]
  <2>1. ASSUME NEW m \in 1..b
        PROVE  (IF m > Len(v) THEN <<>> ELSE <<CodeAt(v, m)>> \o f[next(m)]) \in X
    <3>1. CASE m > Len(v)
      BY <1>1, <3>1
    <3>2. CASE ~(m > Len(v))
      <4>1. next(m) \in 1..b /\ <<CodeAt(v, m)>> \in X
        <5>1. m <= Len(v)
          BY <1>1, <3>2
        <5> QED
          BY <1>1, <1>2, <5>1
      <4>2. f[next(m)] \in X
        BY <4>1
      <4> QED
        BY <3>2, <4>1, <4>2, ConcatProperties
    <3> QED
      BY <3>1, <3>2
  <2>2. FromStep(v, f) = [m \in 1..b |-> IF m > Len(v) THEN <<>> ELSE <<CodeAt(v, m)>> \o f[next(m)]]
    BY DEF FromStep, next
  <2> HIDE DEF b, X
  <2> QED
    BY <2>1, <2>2
<1>4. LooksAhead(F, b, X)
  <2>1. F \in [[1..b -> X] -> [1..b -> X]]
    <3> HIDE DEF b, X
    <3> QED
      BY <1>3
  <2>2. ASSUME NEW g \in [1..b -> X], NEW h \in [1..b -> X], NEW m \in 1..b,
               \A n \in (m + 1)..b : g[n] = h[n]
        PROVE  F[g][m] = F[h][m]
    <3>1. F[g][m] = FromStep(v, g)[m] /\ F[h][m] = FromStep(v, h)[m]
      OBVIOUS
    <3>2. m <= Len(v) => g[next(m)] = h[next(m)]
      BY <1>2, <2>2
    <3>3. m > Len(v) \/ m <= Len(v)
      BY <1>1
    <3> HIDE DEF F, b, X
    <3>4. /\ FromStep(v, g)[m] = IF m > Len(v) THEN <<>> ELSE <<CodeAt(v, m)>> \o g[next(m)]
          /\ FromStep(v, h)[m] = IF m > Len(v) THEN <<>> ELSE <<CodeAt(v, m)>> \o h[next(m)]
      BY <1>3, Zenon
    <3>5. FromStep(v, g)[m] = FromStep(v, h)[m]
      BY <3>2, <3>3, <3>4, Zenon
    <3> QED
      BY <3>1, <3>5, Zenon
  <2> HIDE DEF F, b, X
  <2> QED
    BY <2>1, <2>2 DEF LooksAhead
<1>5. PICK g \in [1..b -> X] : F[g] = g
  <2> HIDE DEF F, b, X
  <2>1. HasFixpoint(F, b, X)
    BY <1>1, <1>4, Fixpoint, Zenon
  <2> QED
    BY <2>1 DEF HasFixpoint
<1>6. g = FromStep(v, g)
  <2> HIDE DEF b, X
  <2> QED
    BY <1>5
<1>7. From(v) = FromStep(v, From(v))
  BY <1>6 DEF From
<1>8. From(v)[k] = IF k > Len(v) THEN <<>> ELSE <<CodeAt(v, k)>> \o From(v)[next(k)]
  <2>1. FromStep(v, From(v))[k] = IF k > Len(v) THEN <<>> ELSE <<CodeAt(v, k)>> \o From(v)[next(k)]
    BY DEF FromStep, next
  <2> QED
    BY <1>7, <2>1
<1> DEFINE S == {m \in 1..b : From(v)[m] \in X}
<1>9. ASSUME NEW m \in 1..b, \A n \in (m + 1)..b : n \in S
      PROVE  m \in S
  <2>1. From(v)[m] = IF m > Len(v) THEN <<>> ELSE <<CodeAt(v, m)>> \o From(v)[next(m)]
    <3>1. FromStep(v, From(v))[m] = IF m > Len(v) THEN <<>> ELSE <<CodeAt(v, m)>> \o From(v)[next(m)]
      BY DEF FromStep, next
    <3> QED
      BY <1>7, <3>1
  <2>2. CASE m > Len(v)
    BY <1>1, <2>1, <2>2
  <2>3. CASE ~(m > Len(v))
    <3>1. m <= Len(v)
      BY <1>1, <2>3
    <3>2. next(m) \in (m + 1)..b /\ <<CodeAt(v, m)>> \in X
      BY <1>2, <3>1
    <3>3. From(v)[next(m)] \in X
      BY <1>9, <3>2
    <3>4. <<CodeAt(v, m)>> \o From(v)[next(m)] \in X
      BY <3>2, <3>3, ConcatProperties
    <3> QED
      BY <2>1, <2>3, <3>4
  <2> QED
    BY <2>2, <2>3
<1>10. 1..b \subseteq S
  <2> HIDE DEF S, b
  <2> QED
    BY <1>1, <1>9, Backwards, Zenon
<1> QED
  BY <1>8, <1>10 DEF next

LEMMA CodePointsType ==
  ASSUME NEW v \in Seq(Byte)
  PROVE  CodePoints(v) \in Seq(Nat)
<1>1. 1 \in 1..(Len(v) + 4)
  BY LenProperties
<1> QED
  BY <1>1, CodePointsIsFrom, FromUnrolls


\* Bytes in front of others do not change what is read of these.
LEMMA ReadBehind ==
  ASSUME NEW u \in Seq(Byte), NEW w \in Seq(Byte)
  PROVE  From(u \o w)[Len(u) + 1] = CodePoints(w)
<1> DEFINE v == u \o w
           l == Len(u)
           b == Len(w) + 4
           S == {k \in 1..b : From(v)[l + k] = From(w)[k]}
<1>1. /\ v \in Seq(Byte) /\ Len(v) = l + Len(w) /\ l \in Nat /\ Len(w) \in Nat /\ b \in Nat
      /\ \A k \in 1..Len(w) : v[l + k] = w[k]
  <2>1. l \in Nat /\ Len(w) \in Nat
    BY LenProperties
  <2>2. /\ v \in Seq(Byte) /\ Len(v) = l + Len(w)
        /\ \A i \in 1..(l + Len(w)) : v[i] = IF i <= l THEN u[i] ELSE w[i - l]
    BY ConcatProperties, Zenon
  <2>3. ASSUME NEW k \in 1..Len(w)
        PROVE  v[l + k] = w[k]
    <3>1. l + k \in 1..(l + Len(w)) /\ ~(l + k <= l) /\ (l + k) - l = k
      BY <2>1
    <3> QED
      BY <2>2, <3>1
  <2> HIDE DEF v
  <2> QED
    BY <2>1, <2>2, <2>3
<1> HIDE DEF v, l
<1>2. ASSUME NEW k \in 1..b, \A m \in (k + 1)..b : m \in S
      PROVE  k \in S
  <2>1. k \in 1..(Len(w) + 4) /\ l + k \in 1..(Len(v) + 4)
    BY <1>1
  <2>2. /\ From(v)[l + k] = IF l + k > Len(v) THEN <<>>
                            ELSE <<CodeAt(v, l + k)>> \o From(v)[(l + k) + SequenceLength(v[l + k])]
        /\ From(w)[k] = IF k > Len(w) THEN <<>>
                        ELSE <<CodeAt(w, k)>> \o From(w)[k + SequenceLength(w[k])]
    BY <1>1, <2>1, FromUnrolls
  <2>3. CASE k > Len(w)
    <3>1. l + k > Len(v)
      BY <1>1, <2>3
    <3> QED
      BY <2>2, <2>3, <3>1
  <2>4. CASE k <= Len(w)
    <3>1. k \in 1..Len(w) /\ ~(l + k > Len(v)) /\ ~(k > Len(w))
      BY <1>1, <2>4
    <3>2. v[l + k] = w[k] /\ w[k] \in Byte
      BY <1>1, <3>1, ElementOfSeq
    <3>3. SequenceLength(w[k]) \in Nat /\ SequenceLength(w[k]) >= 1 /\ SequenceLength(w[k]) <= 4
      BY <3>2, FirstByte
    <3> DEFINE n == SequenceLength(w[k])
    <3>4. k + n \in (k + 1)..b /\ (l + k) + n = l + (k + n)
      <4> HIDE DEF n
      <4>1. n \in Nat /\ n >= 1 /\ n <= 4
        BY <3>3 DEF n
      <4> QED
        BY <1>1, <2>4, <4>1
    <3>5. From(v)[l + (k + n)] = From(w)[k + n]
      BY <1>2, <3>4
    <3>6. CodeAt(v, l + k) = CodeAt(w, k)
      <4>1. ASSUME NEW code, NEW i \in 1..3
            PROVE  Continued(v, l + k, code, i) = Continued(w, k, code, i)
        <5>1. (l + k) + i <= Len(v) <=> k + i <= Len(w)
          BY <1>1
        <5>2. k + i <= Len(w) => v[(l + k) + i] = w[k + i]
          <6>1. k + i <= Len(w) => k + i \in 1..Len(w)
            BY <1>1
          <6>2. (l + k) + i = l + (k + i)
            BY <1>1
          <6> QED
            BY <1>1, <6>1, <6>2
        <5> QED
          BY <3>2, <5>1, <5>2 DEF Continued
      <4>2. 1 \in 1..3 /\ 2 \in 1..3 /\ 3 \in 1..3
        OBVIOUS
      <4> QED
        BY <3>2, <4>1, <4>2, CodeAtIs DEF CodeAtStep
    <3> QED
      BY <2>2, <3>1, <3>2, <3>4, <3>5, <3>6
  <2> QED
    BY <1>1, <2>3, <2>4
<1>3. 1..b \subseteq S
  <2> HIDE DEF S, b
  <2> QED
    BY <1>1, <1>2, Backwards, Zenon
<1>4. 1 \in S
  <2>1. 1 \in 1..b
    BY <1>1
  <2> QED
    BY <1>3, <2>1
<1> QED
  BY <1>4, CodePointsIsFrom DEF v, l

\* The bytes of one code point.
Low(c) == 128 + (c % 64)

LEMMA Sixes ==
  ASSUME NEW c \in Nat
  PROVE  /\ c % 64 \in Nat /\ c % 64 <= 63 /\ c \div 64 \in Nat /\ 64 * (c \div 64) + (c % 64) = c
         /\ c \div 4096 = (c \div 64) \div 64
         /\ c \div 262144 = (c \div 4096) \div 64
<1> DEFINE q == c \div 64
<1>1. c % 64 \in Nat /\ c % 64 <= 63 /\ q \in Nat /\ 64 * q + (c % 64) = c
  OBVIOUS
<1>2. c \div 4096 = q \div 64
  OBVIOUS
<1>3. c \div 262144 = (c \div 4096) \div 64
  OBVIOUS
<1> QED
  BY <1>1, <1>2, <1>3

LEMMA LowByte ==
  ASSUME NEW c \in Nat
  PROVE  Low(c) \in Byte /\ Low(c) % 64 = c % 64
<1> DEFINE r == c % 64
<1>1. r \in Nat /\ r <= 63
  BY Sixes
<1>2. (128 + r) % 64 = r
  <2> HIDE DEF r
  <2> QED
    BY <1>1
<1>3. Low(c) = 128 + r
  BY DEF Low
<1>4. 128 + r \in Byte
  <2> HIDE DEF r
  <2> QED
    BY <1>1, ByteIs
<1> HIDE DEF r
<1> QED
  BY <1>2, <1>3, <1>4 DEF r


\* What the first byte of a sequence says.
LEMMA FirstBytes ==
  /\ \A d \in Nat : d < 128 => SequenceLength(d) = 1 /\ LeadBits(d) = d
  /\ \A d \in Nat : d <= 31 => SequenceLength(192 + d) = 2 /\ LeadBits(192 + d) = d
  /\ \A d \in Nat : d <= 15 => SequenceLength(224 + d) = 3 /\ LeadBits(224 + d) = d
  /\ \A d \in Nat : d <= 7 => SequenceLength(240 + d) = 4 /\ LeadBits(240 + d) = d
<1>1. /\ \A n : n \in 192..223 <=> n \in Int /\ 192 <= n /\ n <= 223
      /\ \A n : n \in 224..239 <=> n \in Int /\ 224 <= n /\ n <= 239
      /\ \A n : n \in 240..247 <=> n \in Int /\ 240 <= n /\ n <= 247
  OBVIOUS
<1> DEFINE two == 192..223
           three == 224..239
           four == 240..247
<1>2. ASSUME NEW c \in Int
      PROVE  /\ c < 128 => SequenceLength(c) = 1 /\ LeadBits(c) = c
             /\ 192 <= c /\ c <= 223 => SequenceLength(c) = 2 /\ LeadBits(c) = c - 192
             /\ 224 <= c /\ c <= 239 => SequenceLength(c) = 3 /\ LeadBits(c) = c - 224
             /\ 240 <= c /\ c <= 247 => SequenceLength(c) = 4 /\ LeadBits(c) = c - 240
  <2>1. /\ SequenceLength(c) = CASE c \in two -> 2 [] c \in three -> 3 [] c \in four -> 4 [] OTHER -> 1
        /\ LeadBits(c) = CASE c < 128 -> c [] c \in two -> c - 192 [] c \in three -> c - 224
                           [] c \in four -> c - 240 [] OTHER -> Replacement
    BY DEF SequenceLength, LeadBits
  <2> HIDE DEF two, three, four
  <2>2. CASE c < 128
    <3>1. c \notin two /\ c \notin three /\ c \notin four
      BY <1>1, <2>2 DEF two, three, four
    <3> QED
      BY <2>1, <2>2, <3>1
  <2>3. CASE 192 <= c /\ c <= 223
    <3>1. c \in two /\ c \notin three /\ c \notin four /\ ~(c < 128)
      BY <1>1, <2>3 DEF two, three, four
    <3> QED
      BY <2>1, <2>3, <3>1
  <2>4. CASE 224 <= c /\ c <= 239
    <3>1. c \notin two /\ c \in three /\ c \notin four /\ ~(c < 128)
      BY <1>1, <2>4 DEF two, three, four
    <3> QED
      BY <2>1, <2>4, <3>1
  <2>5. CASE 240 <= c /\ c <= 247
    <3>1. c \notin two /\ c \notin three /\ c \in four /\ ~(c < 128)
      BY <1>1, <2>5 DEF two, three, four
    <3> QED
      BY <2>1, <2>5, <3>1
  <2> QED
    BY <2>2, <2>3, <2>4, <2>5
<1>3. ASSUME NEW d \in Nat
      PROVE  /\ d < 128 => SequenceLength(d) = 1 /\ LeadBits(d) = d
             /\ d <= 31 => SequenceLength(192 + d) = 2 /\ LeadBits(192 + d) = d
             /\ d <= 15 => SequenceLength(224 + d) = 3 /\ LeadBits(224 + d) = d
             /\ d <= 7 => SequenceLength(240 + d) = 4 /\ LeadBits(240 + d) = d
  <2>1. d < 128 => SequenceLength(d) = 1 /\ LeadBits(d) = d
    BY <1>2
  <2>2. d <= 31 => SequenceLength(192 + d) = 2 /\ LeadBits(192 + d) = (192 + d) - 192
    BY <1>2
  <2>3. d <= 15 => SequenceLength(224 + d) = 3 /\ LeadBits(224 + d) = (224 + d) - 224
    BY <1>2
  <2>4. d <= 7 => SequenceLength(240 + d) = 4 /\ LeadBits(240 + d) = (240 + d) - 240
    BY <1>2
  <2> QED
    BY <2>1, <2>2, <2>3, <2>4
<1> QED
  BY <1>3

\* The bytes of a sequence, with their number and the bits of the first.
LEMMA Utf8Is ==
  ASSUME NEW c \in CodePoint
  PROVE  /\ c \in Nat
         /\ c < 128 => Utf8(c) = <<c>>
         /\ c >= 128 /\ c < 2048 => Utf8(c) = <<192 + c \div 64, Low(c)>> /\ c \div 64 <= 31
         /\ c >= 2048 /\ c < 65536 =>
              Utf8(c) = <<224 + c \div 4096, Low(c \div 64), Low(c)>> /\ c \div 4096 <= 15
         /\ c >= 65536 =>
              Utf8(c) = <<240 + c \div 262144, Low(c \div 4096), Low(c \div 64), Low(c)>>
              /\ c \div 262144 <= 7
<1>1. c \in Nat /\ c <= 1114111
  BY CodePointIs
<1>2. Utf8(c) = IF c < 128 THEN <<c>>
                ELSE IF c < 2048 THEN <<192 + c \div 64, Low(c)>>
                ELSE IF c < 65536 THEN <<224 + c \div 4096, Low(c \div 64), Low(c)>>
                ELSE <<240 + c \div 262144, Low(c \div 4096), Low(c \div 64), Low(c)>>
  BY DEF Utf8, Low
<1>3. CASE c < 128
  BY <1>1, <1>2, <1>3
<1>4. CASE c >= 128 /\ c < 2048
  <2>1. ~(c < 128)
    BY <1>1, <1>4
  <2>2. c \div 64 <= 31
    BY <1>1, <1>4
  <2>3. Utf8(c) = <<192 + c \div 64, Low(c)>>
    BY <1>2, <1>4, <2>1
  <2> QED
    BY <1>1, <1>4, <2>2, <2>3
<1>5. CASE c >= 2048 /\ c < 65536
  <2>1. ~(c < 128) /\ ~(c < 2048)
    BY <1>1, <1>5
  <2>2. c \div 4096 <= 15
    BY <1>1, <1>5
  <2>3. Utf8(c) = <<224 + c \div 4096, Low(c \div 64), Low(c)>>
    BY <1>2, <1>5, <2>1
  <2> QED
    BY <1>1, <1>5, <2>2, <2>3
<1>6. CASE c >= 65536
  <2>1. ~(c < 128) /\ ~(c < 2048) /\ ~(c < 65536)
    BY <1>1, <1>6
  <2>2. c \div 262144 <= 7
    BY <1>1, <1>6
  <2>3. Utf8(c) = <<240 + c \div 262144, Low(c \div 4096), Low(c \div 64), Low(c)>>
    BY <1>2, <2>1
  <2> QED
    BY <1>1, <1>6, <2>2, <2>3
<1> QED
  BY <1>1, <1>3, <1>4, <1>5, <1>6


\* A whole sequence in front is read as its code point.
LEMMA ReadFirst ==
  ASSUME NEW x \in Seq(Byte), NEW u \in Seq(Byte), Len(x) > 0, SequenceLength(x[1]) = Len(x)
  PROVE  CodePoints(x \o u) = <<CodeAt(x, 1)>> \o CodePoints(u)
<1> DEFINE v == x \o u
           l == Len(x)
<1>1. l \in Nat /\ Len(u) \in Nat /\ l > 0
  BY LenProperties
<1>2. /\ v \in Seq(Byte) /\ Len(v) = l + Len(u)
      /\ \A i \in 1..(l + Len(u)) : v[i] = IF i <= l THEN x[i] ELSE u[i - l]
  BY ConcatProperties, Zenon
<1>3. From(v)[l + 1] = CodePoints(u)
  BY ReadBehind
<1> HIDE DEF v, l
<1>4. \A i \in 1..l : v[i] = x[i]
  <2>1. ASSUME NEW i \in 1..l
        PROVE  v[i] = x[i]
    <3>1. i \in 1..(l + Len(u)) /\ i <= l
      BY <1>1
    <3> QED
      BY <1>2, <3>1
  <2> QED
    BY <2>1
<1>5. 1 \in 1..l /\ 1 \in 1..(Len(v) + 4) /\ ~(1 > Len(v))
  BY <1>1, <1>2
<1>6. v[1] = x[1] /\ SequenceLength(v[1]) = l
  BY <1>4, <1>5 DEF l
<1>7. CodeAt(v, 1) = CodeAt(x, 1)
  <2>1. ASSUME NEW code, NEW n \in 1..3
        PROVE  Continued(v, 1, code, n) = Continued(x, 1, code, n)
    <3>1. n < l => 1 + n <= Len(v) /\ 1 + n <= l /\ 1 + n \in 1..l
      BY <1>1, <1>2
    <3>2. n < l => v[1 + n] = x[1 + n]
      BY <1>4, <3>1
    <3> QED
      BY <1>6, <3>1, <3>2 DEF Continued, l
  <2>2. 1 \in 1..3 /\ 2 \in 1..3 /\ 3 \in 1..3
    OBVIOUS
  <2> QED
    BY <1>6, <2>1, <2>2, CodeAtIs DEF CodeAtStep
<1>8. From(v)[1] = <<CodeAt(v, 1)>> \o From(v)[1 + SequenceLength(v[1])]
  BY <1>2, <1>5, FromUnrolls
<1>9. 1 + l = l + 1
  BY <1>1
<1> QED
  BY <1>3, <1>6, <1>7, <1>8, <1>9, CodePointsIsFrom DEF v

LEMMA Bytes234 ==
  /\ \A a \in Byte : <<a>> \in Seq(Byte) /\ Len(<<a>>) = 1
  /\ \A a, b \in Byte : << a, b >> \in Seq(Byte) /\ Len(<< a, b >>) = 2
  /\ \A a, b, c \in Byte : << a, b, c >> \in Seq(Byte) /\ Len(<< a, b, c >>) = 3
  /\ \A a, b, c, d \in Byte : << a, b, c, d >> \in Seq(Byte) /\ Len(<< a, b, c, d >>) = 4
OBVIOUS

\* A code point with six more bits.
Joined6(code, b) == 64 * code + (b % 64)

LEMMA ContinuedIs ==
  ASSUME NEW v, NEW code, NEW n
  PROVE  Continued(v, 1, code, n) =
           IF n < SequenceLength(v[1]) /\ 1 + n <= Len(v) THEN Joined6(code, v[1 + n]) ELSE code
BY DEF Continued, Joined6

LEMMA CodeAtOf ==
  ASSUME NEW v, NEW a, SequenceLength(v[1]) = Len(v), LeadBits(v[1]) = a
  PROVE  /\ Len(v) = 1 => CodeAt(v, 1) = a
         /\ Len(v) = 2 => CodeAt(v, 1) = Joined6(a, v[2])
         /\ Len(v) = 3 => CodeAt(v, 1) = Joined6(Joined6(a, v[2]), v[3])
         /\ Len(v) = 4 => CodeAt(v, 1) = Joined6(Joined6(Joined6(a, v[2]), v[3]), v[4])
<1>1. CodeAt(v, 1) = Continued(v, 1, Continued(v, 1, Continued(v, 1, a, 1), 2), 3)
  BY CodeAtIs DEF CodeAtStep
<1>2. \A code : /\ Len(v) = 1 => Continued(v, 1, code, 1) = code
                /\ Len(v) \in {2, 3, 4} => Continued(v, 1, code, 1) = Joined6(code, v[2])
  BY ContinuedIs
<1>3. \A code : /\ Len(v) \in {1, 2} => Continued(v, 1, code, 2) = code
                /\ Len(v) \in {3, 4} => Continued(v, 1, code, 2) = Joined6(code, v[3])
  BY ContinuedIs
<1>4. \A code : /\ Len(v) \in {1, 2, 3} => Continued(v, 1, code, 3) = code
                /\ Len(v) = 4 => Continued(v, 1, code, 3) = Joined6(code, v[4])
  BY ContinuedIs
<1> QED
  BY <1>1, <1>2, <1>3, <1>4

\* The UTF-8 of a code point is one sequence of that code point.
LEMMA Utf8Read ==
  ASSUME NEW c \in CodePoint
  PROVE  /\ Utf8(c) \in Seq(Byte) /\ Len(Utf8(c)) > 0
         /\ SequenceLength(Utf8(c)[1]) = Len(Utf8(c)) /\ CodeAt(Utf8(c), 1) = c
<1>1. c \in Nat
  BY Utf8Is
<1> DEFINE c1 == c \div 64
           c2 == c \div 4096
           c3 == c \div 262144
           v == Utf8(c)
<1>2. /\ c1 \in Nat /\ c2 \in Nat /\ c3 \in Nat
      /\ 64 * c1 + (c % 64) = c /\ 64 * c2 + (c1 % 64) = c1 /\ 64 * c3 + (c2 % 64) = c2
  <2>1. c1 \in Nat /\ 64 * c1 + (c % 64) = c /\ c2 = c1 \div 64 /\ c3 = c2 \div 64
    BY <1>1, Sixes
  <2> HIDE DEF c1, c2, c3
  <2>2. c2 \in Nat /\ 64 * c2 + (c1 % 64) = c1
    BY <2>1, Sixes
  <2>3. c3 \in Nat /\ 64 * c3 + (c2 % 64) = c2
    BY <2>1, <2>2, Sixes
  <2> QED
    BY <2>1, <2>2, <2>3
<1>3. /\ Low(c) \in Byte /\ Joined6(c1, Low(c)) = c
      /\ Low(c1) \in Byte /\ Joined6(c2, Low(c1)) = c1
      /\ Low(c2) \in Byte /\ Joined6(c3, Low(c2)) = c2
  <2> HIDE DEF c1, c2, c3
  <2>1. /\ Low(c) \in Byte /\ Low(c) % 64 = c % 64
        /\ Low(c1) \in Byte /\ Low(c1) % 64 = c1 % 64
        /\ Low(c2) \in Byte /\ Low(c2) % 64 = c2 % 64
    BY <1>1, <1>2, LowByte
  <2> QED
    BY <1>2, <2>1, Zenon DEF Joined6
<1>4. /\ c < 128 => v = <<c>>
      /\ c >= 128 /\ c < 2048 => v = <<192 + c1, Low(c)>> /\ c1 <= 31
      /\ c >= 2048 /\ c < 65536 => v = <<224 + c2, Low(c1), Low(c)>> /\ c2 <= 15
      /\ c >= 65536 => v = <<240 + c3, Low(c2), Low(c1), Low(c)>> /\ c3 <= 7
  BY Utf8Is
<1> HIDE DEF c1, c2, c3, v
<1>5. CASE c < 128
  <2>1. v = <<c>> /\ c \in Byte
    BY <1>1, <1>2, <1>4, <1>5, ByteIs
  <2>2. v \in Seq(Byte) /\ Len(v) = 1 /\ v[1] = c
    BY <1>3, <2>1, Bytes234
  <2>3. SequenceLength(v[1]) = 1 /\ LeadBits(v[1]) = c
    BY <1>1, <1>2, <1>5, <2>1, <2>2, FirstBytes
  <2>4. CodeAt(v, 1) = c
    BY <1>3, <2>2, <2>3, CodeAtOf
  <2> QED
    BY <2>2, <2>3, <2>4 DEF v
<1>6. CASE c >= 128 /\ c < 2048
  <2>1. v = <<192 + c1, Low(c)>> /\ 192 + c1 \in Byte /\ c1 <= 31
    BY <1>1, <1>2, <1>4, <1>6, ByteIs
  <2>2. v \in Seq(Byte) /\ Len(v) = 2 /\ v[1] = 192 + c1 /\ v[2] = Low(c)
    BY <1>3, <2>1, Bytes234
  <2>3. SequenceLength(v[1]) = 2 /\ LeadBits(v[1]) = c1
    <3>1. SequenceLength(192 + c1) = 2 /\ LeadBits(192 + c1) = c1
      BY <1>2, <2>1, FirstBytes
    <3> QED
      BY <2>2, <3>1
  <2>4. CodeAt(v, 1) = c
    BY <1>3, <2>2, <2>3, CodeAtOf
  <2> QED
    BY <2>2, <2>3, <2>4 DEF v
<1>7. CASE c >= 2048 /\ c < 65536
  <2>1. v = <<224 + c2, Low(c1), Low(c)>> /\ 224 + c2 \in Byte /\ c2 <= 15
    BY <1>1, <1>2, <1>4, <1>7, ByteIs
  <2>2. v \in Seq(Byte) /\ Len(v) = 3 /\ v[1] = 224 + c2 /\ v[2] = Low(c1) /\ v[3] = Low(c)
    BY <1>3, <2>1, Bytes234
  <2>3. SequenceLength(v[1]) = 3 /\ LeadBits(v[1]) = c2
    <3>1. SequenceLength(224 + c2) = 3 /\ LeadBits(224 + c2) = c2
      BY <1>2, <2>1, FirstBytes
    <3> QED
      BY <2>2, <3>1
  <2>4. CodeAt(v, 1) = c
    <3>1. CodeAt(v, 1) = Joined6(Joined6(c2, v[2]), v[3])
      <4>1. SequenceLength(v[1]) = Len(v)
        BY <2>2, <2>3
      <4> QED
        BY <2>2, <2>3, <4>1, CodeAtOf, Zenon
    <3> QED
      BY <1>3, <2>2, <3>1
  <2> QED
    BY <2>2, <2>3, <2>4 DEF v
<1>8. CASE c >= 65536
  <2>1. v = <<240 + c3, Low(c2), Low(c1), Low(c)>> /\ 240 + c3 \in Byte /\ c3 <= 7
    BY <1>1, <1>2, <1>4, <1>8, ByteIs
  <2>2. v \in Seq(Byte) /\ Len(v) = 4 /\ v[1] = 240 + c3 /\ v[2] = Low(c2) /\ v[3] = Low(c1) /\ v[4] = Low(c)
    BY <1>3, <2>1, Bytes234
  <2>3. SequenceLength(v[1]) = 4 /\ LeadBits(v[1]) = c3
    <3>1. SequenceLength(240 + c3) = 4 /\ LeadBits(240 + c3) = c3
      BY <1>2, <2>1, FirstBytes
    <3> QED
      BY <2>2, <3>1
  <2>4. CodeAt(v, 1) = c
    <3>1. CodeAt(v, 1) = Joined6(Joined6(Joined6(c3, v[2]), v[3]), v[4])
      <4>1. SequenceLength(v[1]) = Len(v)
        BY <2>2, <2>3
      <4> QED
        BY <2>2, <2>3, <4>1, CodeAtOf, Zenon
    <3> QED
      BY <1>3, <2>2, <3>1
  <2> QED
    BY <2>2, <2>3, <2>4 DEF v
<1> QED
  BY <1>1, <1>5, <1>6, <1>7, <1>8

\* What is read of a text in UTF-8 is the text.
Text(s) == All([c \in CodePoint |-> Utf8(c)], s)

LEMMA TextRead ==
  ASSUME NEW s \in Seq(CodePoint)
  PROVE  /\ Text(s) \in Seq(Byte)
         /\ \A u \in Seq(Byte) : CodePoints(Text(s) \o u) = s \o CodePoints(u)
<1> DEFINE f == [c \in CodePoint |-> Utf8(c)]
           T == {t \in Seq(CodePoint) :
                   /\ All(f, t) \in Seq(Byte)
                   /\ \A u \in Seq(Byte) : CodePoints(All(f, t) \o u) = t \o CodePoints(u)}
<1>1. MapsInto(f, CodePoint, Seq(Byte))
  BY Utf8Read DEF MapsInto
<1>2. \A c \in CodePoint : f[c] = Utf8(c)
  OBVIOUS
<1> HIDE DEF f
<1>3. <<>> \in T
  <2>1. <<>> \in Seq(CodePoint) /\ <<>> \in Seq(Byte)
    BY EmptySeq
  <2>2. All(f, <<>>) = <<>>
    BY <1>1, <2>1, AllGrows
  <2>3. ASSUME NEW u \in Seq(Byte)
        PROVE  CodePoints(<<>> \o u) = <<>> \o CodePoints(u)
    <3>1. CodePoints(u) \in Seq(Nat)
      BY CodePointsType
    <3> QED
      BY <3>1, ConcatEmptySeq
  <2> QED
    BY <2>1, <2>2, <2>3
<1>4. ASSUME NEW t \in Seq(CodePoint), NEW c \in CodePoint, t \in T
      PROVE  Append(t, c) \in T
  <2>1. All(f, Append(t, c)) = All(f, t) \o Utf8(c) /\ All(f, t) \in Seq(Byte)
    <3>1. All(f, t) \in Seq(Byte) /\ \A e \in CodePoint : All(f, Append(t, e)) = All(f, t) \o f[e]
      BY <1>1, AllGrows
    <3> QED
      BY <1>2, <3>1, Zenon
  <2>2. Utf8(c) \in Seq(Byte)
    BY Utf8Read
  <2>3. ASSUME NEW u \in Seq(Byte)
        PROVE  CodePoints(All(f, Append(t, c)) \o u) = Append(t, c) \o CodePoints(u)
    <3>1. All(f, Append(t, c)) \o u = All(f, t) \o (Utf8(c) \o u)
      BY <2>1, <2>2, ConcatAssociative
    <3>2. Utf8(c) \o u \in Seq(Byte)
      BY <2>2, ConcatProperties
    <3>3. CodePoints(Utf8(c) \o u) = <<c>> \o CodePoints(u)
      <4>1. Utf8(c) \in Seq(Byte) /\ Len(Utf8(c)) > 0
            /\ SequenceLength(Utf8(c)[1]) = Len(Utf8(c)) /\ CodeAt(Utf8(c), 1) = c
        BY Utf8Read
      <4> QED
        BY <4>1, ReadFirst
    <3>4. CodePoints(All(f, t) \o (Utf8(c) \o u)) = t \o (<<c>> \o CodePoints(u))
      BY <1>4, <3>2, <3>3
    <3>5. t \o (<<c>> \o CodePoints(u)) = Append(t, c) \o CodePoints(u)
      <4>1. t \in Seq(Nat) /\ c \in Nat /\ CodePoints(u) \in Seq(Nat)
        <5>1. CodePoint \subseteq Nat
          BY CodePointIs
        <5>2. t \in Seq(Nat)
          BY <5>1, SeqMonotonic
        <5> QED
          BY <5>1, <5>2, CodePointsType
      <4>2. <<c>> \in Seq(Nat)
        BY <4>1
      <4>3. (t \o <<c>>) \o CodePoints(u) = t \o (<<c>> \o CodePoints(u))
        BY <4>1, <4>2, ConcatAssociative
      <4>4. t \o <<c>> = Append(t, c)
        BY <4>1, AppendIsConcat
      <4> QED
        BY <4>3, <4>4
    <3> QED
      BY <3>1, <3>4, <3>5
  <2>4. Append(t, c) \in Seq(CodePoint) /\ All(f, Append(t, c)) \in Seq(Byte)
    BY <2>1, <2>2, AppendProperties, ConcatProperties
  <2> QED
    BY <2>3, <2>4
<1>5. Seq(CodePoint) \subseteq T
  <2> HIDE DEF T
  <2> QED
    BY <1>3, <1>4, AppendInduction, Zenon
<1> QED
  BY <1>5 DEF Text, f

\* So is what Send reads.
LEMMA SentText ==
  ASSUME NEW s \in Seq(CodePoint)
  PROVE  CodePoints(FlattenSeq([n \in DOMAIN s |-> Utf8(s[n])])) = s
<1> DEFINE f == [c \in CodePoint |-> Utf8(c)]
<1>1. FlattenSeq([n \in DOMAIN s |-> Utf8(s[n])]) = Text(s)
  <2>1. \A n \in DOMAIN s : s[n] \in CodePoint
    BY ElementOfSeq, LenProperties
  <2>2. [n \in DOMAIN s |-> Utf8(s[n])] = Mapped(f, s)
    BY <2>1 DEF Mapped
  <2> QED
    BY <2>2 DEF Text, All
<1>2. Text(s) \in Seq(Byte) /\ \A u \in Seq(Byte) : CodePoints(Text(s) \o u) = s \o CodePoints(u)
  BY TextRead
<1>3. <<>> \in Seq(Byte) /\ Text(s) \o <<>> = Text(s)
  BY <1>2, EmptySeq, ConcatEmptySeq
<1>4. CodePoints(<<>>) = <<>>
  <2>1. <<>> \in Seq(Byte) /\ Len(<<>>) = 0
    BY EmptySeq
  <2>2. 1 \in 1..(Len(<<>>) + 4) /\ 1 > Len(<<>>)
    BY <2>1
  <2> QED
    BY <2>1, <2>2, FromUnrolls, CodePointsIsFrom
<1>5. s \o <<>> = s
  BY ConcatEmptySeq
<1> QED
  BY <1>1, <1>2, <1>3, <1>4, <1>5


-----------------------------------------------------------------------------
(* Numbers of eight bytes. *)

Block == [1..8 -> Byte]

CarryStep(a, b, f) ==
  [n \in 1..8 |-> IF n = 8 THEN 0 ELSE (a[n + 1] + b[n + 1] + f[n + 1]) \div 256]

Carry(a, b) == CHOOSE f : f = CarryStep(a, b, f)

LEMMA AddIs ==
  \A a, b : AddBigEndian8(a, b) = [n \in 1..8 |-> (a[n] + b[n] + Carry(a, b)[n]) % 256]
BY DEF AddBigEndian8, Carry, CarryStep

LEMMA Halves ==
  ASSUME NEW m \in Nat
  PROVE  m \div 256 \in Nat /\ m % 256 \in Nat /\ m % 256 <= 255
OBVIOUS

LEMMA CarryIs ==
  ASSUME NEW a \in Block, NEW b \in Block
  PROVE  /\ Carry(a, b) \in [1..8 -> Nat] /\ Carry(a, b)[8] = 0
         /\ \A n \in 1..7 : Carry(a, b)[n] = (a[n + 1] + b[n + 1] + Carry(a, b)[n + 1]) \div 256
<1> DEFINE F == [f \in [1..8 -> Nat] |-> CarryStep(a, b, f)]
           sum(f, m) == a[m + 1] + b[m + 1] + f[m + 1]
           digit(f, m) == IF m = 8 THEN 0 ELSE sum(f, m) \div 256
<1>1. \A n \in 1..8 : a[n] \in Nat /\ b[n] \in Nat
  BY ByteIs DEF Block
<1>2. \A m \in 1..8 : m # 8 => m + 1 \in (m + 1)..8 /\ m + 1 \in 1..8
  OBVIOUS
<1>3. ASSUME NEW f \in [1..8 -> Nat]
      PROVE  /\ CarryStep(a, b, f) \in [1..8 -> Nat]
             /\ \A m \in 1..8 : CarryStep(a, b, f)[m] = digit(f, m)
  <2>1. CarryStep(a, b, f) = [m \in 1..8 |-> digit(f, m)]
    BY DEF CarryStep
  <2>2. ASSUME NEW m \in 1..8
        PROVE  digit(f, m) \in Nat
    <3>1. m # 8 => sum(f, m) \in Nat
      BY <1>1, <1>2
    <3> HIDE DEF sum
    <3>2. m # 8 => sum(f, m) \div 256 \in Nat
      BY <3>1, Halves
    <3> QED
      BY <3>2
  <2> HIDE DEF digit
  <2> QED
    BY <2>1, <2>2
<1>4. LooksAhead(F, 8, Nat)
  <2>1. F \in [[1..8 -> Nat] -> [1..8 -> Nat]]
    <3> HIDE DEF digit
    <3> QED
      BY <1>3
  <2>2. ASSUME NEW g \in [1..8 -> Nat], NEW h \in [1..8 -> Nat], NEW m \in 1..8,
               \A n \in (m + 1)..8 : g[n] = h[n]
        PROVE  F[g][m] = F[h][m]
    <3>1. F[g][m] = digit(g, m) /\ F[h][m] = digit(h, m)
      <4> HIDE DEF digit
      <4> QED
        BY <1>3
    <3>2. m # 8 => g[m + 1] = h[m + 1]
      BY <1>2, <2>2
    <3>3. digit(g, m) = digit(h, m)
      BY <3>2
    <3> QED
      BY <3>1, <3>3
  <2> HIDE DEF F
  <2> QED
    BY <2>1, <2>2 DEF LooksAhead
<1>5. PICK g \in [1..8 -> Nat] : F[g] = g
  <2>1. 8 \in Nat /\ Nat # {}
    OBVIOUS
  <2> HIDE DEF F
  <2>2. HasFixpoint(F, 8, Nat)
    BY <1>4, <2>1, Fixpoint, Zenon
  <2> QED
    BY <2>2 DEF HasFixpoint
<1>6. g = CarryStep(a, b, g)
  BY <1>5
<1>7. Carry(a, b) = CarryStep(a, b, Carry(a, b))
  BY <1>6 DEF Carry
<1> DEFINE c == Carry(a, b)
           S == {m \in 1..8 : c[m] \in Nat}
<1>8. \A m \in 1..8 : c[m] = digit(c, m)
  <2>1. \A m \in 1..8 : CarryStep(a, b, c)[m] = digit(c, m)
    BY DEF CarryStep
  <2> QED
    BY <1>7, <2>1
<1>9. ASSUME NEW m \in 1..8, \A n \in (m + 1)..8 : n \in S
      PROVE  m \in S
  <2>1. m # 8 => sum(c, m) \in Nat
    BY <1>1, <1>2, <1>9
  <2>2. m # 8 => sum(c, m) \div 256 \in Nat
    <3> HIDE DEF sum
    <3> QED
      BY <2>1, Halves
  <2> HIDE DEF c, sum
  <2> QED
    BY <1>8, <2>2
<1>10. 1..8 \subseteq S
  <2>1. 8 \in Nat
    OBVIOUS
  <2> HIDE DEF S
  <2> QED
    BY <1>9, <2>1, Backwards, Zenon
<1>11. Carry(a, b) \in [1..8 -> Nat]
  <2>1. DOMAIN CarryStep(a, b, c) = 1..8 /\ CarryStep(a, b, c) = [m \in 1..8 |-> CarryStep(a, b, c)[m]]
    BY DEF CarryStep
  <2>2. c = [m \in 1..8 |-> c[m]]
    BY <1>7, <2>1
  <2> HIDE DEF c
  <2>3. c \in [1..8 -> Nat]
    BY <1>10, <2>2
  <2> QED
    BY <2>3 DEF c
<1>12. Carry(a, b)[8] = 0
  BY <1>8
<1>13. \A n \in 1..7 : Carry(a, b)[n] = (a[n + 1] + b[n + 1] + Carry(a, b)[n + 1]) \div 256
  <2>1. \A n \in 1..7 : n \in 1..8 /\ n # 8
    OBVIOUS
  <2> QED
    BY <1>8, <2>1
<1> QED
  BY <1>11, <1>12, <1>13

\* One digit: x is what is carried to it with the one, y what is carried to it
\* with the complement.
IsUndone(s, x, y) ==
  /\ (((s + x) % 256) + 255 + y) % 256 = s
  /\ ((s + x) \div 256) + ((((s + x) % 256) + 255 + y) \div 256) = 1

LEMMA DigitUndone ==
  ASSUME NEW s \in Nat, s <= 255, NEW x \in Nat, NEW y \in Nat, x + y = 1
  PROVE  IsUndone(s, x, y)
<1> USE DEF IsUndone
<1>1. CASE x = 0 /\ y = 1
  <2>1. (s + x) % 256 = s /\ (s + x) \div 256 = 0
    BY <1>1
  <2>2. (s + 255 + 1) % 256 = s /\ (s + 255 + 1) \div 256 = 1
    OBVIOUS
  <2> QED
    BY <1>1, <2>1, <2>2
<1>2. CASE x = 1 /\ y = 0 /\ s < 255
  <2>1. (s + x) % 256 = s + 1 /\ (s + x) \div 256 = 0
    BY <1>2
  <2>2. (s + 1 + 255 + 0) % 256 = s /\ (s + 1 + 255 + 0) \div 256 = 1
    OBVIOUS
  <2> QED
    BY <1>2, <2>1, <2>2
<1>3. CASE x = 1 /\ y = 0 /\ s = 255
  BY <1>3
<1> QED
  BY <1>1, <1>2, <1>3

LEMMA AddUndone ==
  ASSUME NEW s \in Block
  PROVE  AddBigEndian8(AddBigEndian8(s, One), [n \in 1..8 |-> 255]) = s
<1> DEFINE D == 1..8
           r == AddBigEndian8(s, One)
           full == [n \in D |-> 255]
           c == Carry(s, One)
           d == Carry(r, full)
<1>1. One \in Block /\ full \in Block
  <2>1. 0 \in Byte /\ 1 \in Byte /\ 255 \in Byte
    BY ByteIs
  <2> QED
    BY <2>1 DEF One, Block
<1>2. r = [n \in D |-> (s[n] + One[n] + c[n]) % 256]
  BY AddIs
<1>3. AddBigEndian8(r, full) = [n \in D |-> (r[n] + full[n] + d[n]) % 256]
  BY AddIs
<1>4. /\ c \in [D -> Nat] /\ c[8] = 0
      /\ \A n \in 1..7 : c[n] = (s[n + 1] + One[n + 1] + c[n + 1]) \div 256
  BY <1>1, CarryIs
<1>5. /\ \A n \in D : s[n] \in Nat /\ s[n] <= 255 /\ One[n] \in Nat
      /\ One[8] = 1 /\ \A n \in 1..7 : One[n] = 0
  <2>1. \A n \in D : s[n] \in Nat /\ s[n] <= 255
    BY ByteIs DEF Block
  <2> QED
    BY <2>1 DEF One
<1>6. r \in Block
  <2>1. ASSUME NEW n \in D
        PROVE  (s[n] + One[n] + c[n]) % 256 \in Byte
    <3> DEFINE m == s[n] + One[n] + c[n]
    <3>1. m \in Nat
      BY <1>4, <1>5
    <3> HIDE DEF m
    <3>2. m % 256 \in Byte
      BY <3>1, Halves, ByteIs
    <3> QED
      BY <3>2 DEF m
  <2> QED
    BY <1>2, <2>1 DEF Block
<1> HIDE DEF r
<1>7. /\ d \in [D -> Nat] /\ d[8] = 0
      /\ \A n \in 1..7 : d[n] = (r[n + 1] + full[n + 1] + d[n + 1]) \div 256
  BY <1>1, <1>6, CarryIs
<1>8. \A n \in D : full[n] = 255
  OBVIOUS
<1> HIDE DEF full, c, d
<1> DEFINE x(n) == One[n] + c[n]
           S == {n \in D : x(n) + d[n] = 1}
<1>9. \A n \in D : x(n) \in Nat /\ d[n] \in Nat
  BY <1>4, <1>5, <1>7
<1>10. \A n \in D : r[n] = (s[n] + x(n)) % 256
  <2>1. ASSUME NEW n \in D
        PROVE  s[n] + One[n] + c[n] = s[n] + x(n)
    BY <1>4, <1>5
  <2> QED
    BY <1>2, <2>1
<1>11. ASSUME NEW n \in D, \A m \in (n + 1)..8 : m \in S
       PROVE  n \in S
  <2>1. CASE n = 8
    BY <1>4, <1>5, <1>7, <2>1
  <2>2. CASE n # 8
    <3>1. n \in 1..7 /\ n + 1 \in D /\ n + 1 \in S
      <4>1. n \in 1..7 /\ n + 1 \in D /\ n + 1 \in (n + 1)..8
        BY <2>2
      <4> QED
        BY <1>11, <4>1
    <3>2. One[n] = 0 /\ c[n] = (s[n + 1] + x(n + 1)) \div 256
      <4>1. s[n + 1] + One[n + 1] + c[n + 1] = s[n + 1] + x(n + 1)
        BY <1>4, <1>5, <3>1
      <4> QED
        BY <1>4, <1>5, <3>1, <4>1
    <3>3. d[n] = (((s[n + 1] + x(n + 1)) % 256) + 255 + d[n + 1]) \div 256
      BY <1>7, <1>8, <1>10, <3>1
    <3>4. s[n + 1] \in Nat /\ s[n + 1] <= 255 /\ x(n + 1) \in Nat /\ d[n + 1] \in Nat /\ x(n + 1) + d[n + 1] = 1
      BY <1>5, <1>9, <3>1
    <3>5. ((s[n + 1] + x(n + 1)) \div 256) + ((((s[n + 1] + x(n + 1)) % 256) + 255 + d[n + 1]) \div 256) = 1
      <4> HIDE DEF x, S
      <4>1. IsUndone(s[n + 1], x(n + 1), d[n + 1])
        BY <3>4, DigitUndone
      <4> QED
        BY <4>1, Zenon DEF IsUndone
    <3>6. x(n) = c[n]
      BY <1>4, <3>2
    <3> QED
      BY <3>2, <3>3, <3>5, <3>6
  <2> QED
    BY <2>1, <2>2
<1>12. D \subseteq S
  <2>1. 8 \in Nat
    OBVIOUS
  <2> HIDE DEF S
  <2> QED
    BY <1>11, <2>1, Backwards, Zenon
<1>13. ASSUME NEW n \in D
       PROVE  (r[n] + full[n] + d[n]) % 256 = s[n]
  <2>1. x(n) + d[n] = 1
    BY <1>12
  <2>2. (((s[n] + x(n)) % 256) + 255 + d[n]) % 256 = s[n]
    <3>1. s[n] \in Nat /\ s[n] <= 255 /\ x(n) \in Nat /\ d[n] \in Nat
      BY <1>5, <1>9
    <3> HIDE DEF x
    <3>2. IsUndone(s[n], x(n), d[n])
      BY <2>1, <3>1, DigitUndone
    <3> QED
      BY <3>2, Zenon DEF IsUndone
  <2> QED
    BY <1>8, <1>10, <2>2
<1>14. s = [n \in D |-> s[n]]
  BY DEF Block
<1>15. AddBigEndian8(r, full) = s
  <2> HIDE DEF D, S, x
  <2> QED
    BY <1>3, <1>13, <1>14
<1> QED
  BY <1>15 DEF r, full


-----------------------------------------------------------------------------
(* The specification. *)

\* How a substitute was made.
IsMade(logon) ==
  /\ logon.account \in Accounts /\ logon.serverSeed \in Seeds /\ logon.clientSeed \in Seeds
  /\ logon.substitute = EncryptPassword(logon.account, logon.serverSeed, logon.clientSeed, page)

\* What holds after every step: the field that was sent is what was shown,
\* character by character, and each substitute was made on this page.
SentByCharacter ==
  phase = "sent" => field = [n \in DOMAIN shown |-> FromUnicode(page, shown[n])]

IInv == TypeOK /\ SentByCharacter /\ \A logon \in logons : IsMade(logon)

LEMMA ShownType ==
  ASSUME NEW cp \in Pages, NEW v \in Seq(Byte)
  PROVE  [n \in DOMAIN v |-> ToUnicode(cp, v[n])] \in Seq(CodePoint)
<1> DEFINE f == [b \in Byte |-> ToUnicode(cp, b)]
<1>1. MapsInto(f, Byte, CodePoint)
  BY ShownIsCode DEF MapsInto
<1>2. \A n \in DOMAIN v : v[n] \in Byte
  BY ElementOfSeq, LenProperties
<1>3. [n \in DOMAIN v |-> ToUnicode(cp, v[n])] = Mapped(f, v)
  BY <1>2 DEF Mapped
<1> HIDE DEF f
<1> QED
  BY <1>1, <1>3, MappedSeq

LEMMA SentType ==
  ASSUME NEW cp \in Pages, NEW S, NEW s \in Seq(S)
  PROVE  /\ [n \in DOMAIN s |-> FromUnicode(cp, s[n])] \in Seq(Byte)
         /\ Len([n \in DOMAIN s |-> FromUnicode(cp, s[n])]) = Len(s)
<1> DEFINE f == [c \in S |-> FromUnicode(cp, c)]
<1>1. MapsInto(f, S, Byte)
  BY SentCode DEF MapsInto
<1>2. \A n \in DOMAIN s : s[n] \in S
  BY ElementOfSeq, LenProperties
<1>3. [n \in DOMAIN s |-> FromUnicode(cp, s[n])] = Mapped(f, s)
  BY <1>2 DEF Mapped
<1> HIDE DEF f
<1> QED
  BY <1>1, <1>3, MappedSeq

LEMMA InitConforms == Init => IInv
<1> SUFFICES ASSUME Init PROVE IInv
  OBVIOUS
<1>1. <<>> \in Seq(Byte) /\ <<>> \in Seq(CodePoint)
  BY EmptySeq
<1>2. page \in Pages /\ logons = {} /\ phase = "signon" /\ field = <<>> /\ shown = <<>>
  BY DEF Init
<1> QED
  BY <1>1, <1>2 DEF IInv, TypeOK, SentByCharacter

LEMMA LogonConforms ==
  ASSUME IInv, Logon
  PROVE  IInv'
<1>1. PICK account \in Accounts, serverSeed \in Seeds, clientSeed \in Seeds :
        /\ EncryptPassword(account, serverSeed, clientSeed, page) # <<>>
        /\ logons' = logons \cup {[account |-> account, serverSeed |-> serverSeed,
                                   clientSeed |-> clientSeed,
                                   substitute |-> EncryptPassword(account, serverSeed, clientSeed, page)]}
  BY DEF Logon
<1>2. phase = "signon" /\ page' = page /\ phase' = phase /\ field' = field /\ shown' = shown
  BY DEF Logon
<1> DEFINE new == [account |-> account, serverSeed |-> serverSeed, clientSeed |-> clientSeed,
                   substitute |-> EncryptPassword(account, serverSeed, clientSeed, page)]
<1>3. ASSUME NEW logon \in logons'
      PROVE  IsMade(logon)' /\ logon.account \in Accounts /\ logon.substitute # <<>>
  <2>1. CASE logon \in logons
    BY <1>2, <2>1 DEF IInv, TypeOK, IsMade
  <2>2. CASE logon = new
    <3>1. /\ logon.account = account /\ logon.serverSeed = serverSeed /\ logon.clientSeed = clientSeed
          /\ logon.substitute = EncryptPassword(account, serverSeed, clientSeed, page)
      BY <2>2
    <3> HIDE DEF new
    <3> QED
      BY <1>1, <1>2, <3>1 DEF IsMade
  <2> QED
    BY <1>1, <2>1, <2>2
<1>4. TypeOK'
  BY <1>2, <1>3 DEF IInv, TypeOK
<1>5. SentByCharacter'
  BY <1>2 DEF SentByCharacter
<1> QED
  BY <1>3, <1>4, <1>5 DEF IInv

LEMMA StepConforms ==
  ASSUME IInv, [Next]_vars
  PROVE  IInv'
<1> USE DEF IInv, IsMade
<1>1. CASE Logon
  BY <1>1, LogonConforms
<1>2. CASE HostWrites
  <2>1. PICK b \in Byte : field' = <<b>>
    BY <1>2 DEF HostWrites
  <2>2. field' \in Seq(Byte) /\ shown' = <<>> /\ shown' \in Seq(CodePoint)
    BY <1>2, <2>1, EmptySeq DEF HostWrites
  <2>3. phase' = "written" /\ page' = page /\ logons' = logons
    BY <1>2 DEF HostWrites
  <2> QED
    BY <2>2, <2>3 DEF TypeOK, SentByCharacter
<1>3. CASE Show
  <2>1. shown' = [n \in DOMAIN field |-> ToUnicode(page, field[n])]
    BY <1>3 DEF Show
  <2>2. shown' \in Seq(CodePoint)
    BY <2>1, ShownType DEF TypeOK
  <2>3. phase' = "shown" /\ page' = page /\ logons' = logons /\ field' = field
    BY <1>3 DEF Show
  <2> QED
    BY <2>2, <2>3 DEF TypeOK, SentByCharacter
<1>4. CASE Type
  <2>1. PICK text \in Texts : shown' = text
    BY <1>4 DEF Type
  <2>2. shown' \in Seq(CodePoint)
    BY <2>1, TextsAssumption
  <2>3. phase' = "typed" /\ page' = page /\ logons' = logons /\ field' = field
    BY <1>4 DEF Type
  <2> QED
    BY <2>2, <2>3 DEF TypeOK, SentByCharacter
<1>5. CASE Send
  <2> DEFINE text == FlattenSeq([n \in DOMAIN shown |-> Utf8(shown[n])])
             bytes == [n \in DOMAIN shown |-> FromUnicode(page, shown[n])]
  <2>1. phase' = "sent" /\ page' = page /\ logons' = logons /\ shown' = shown
        /\ field' = FromUnicodeString(page, text)
    BY <1>5 DEF Send
  <2>2. CodePoints(text) = shown
    BY SentText DEF TypeOK
  <2>3. field' = bytes
    <3> HIDE DEF text
    <3> QED
      BY <2>1, <2>2 DEF FromUnicodeString
  <2>4. bytes \in Seq(Byte)
    BY SentType DEF TypeOK
  <2>5. TypeOK'
    <3> HIDE DEF bytes
    <3> QED
      BY <2>1, <2>3, <2>4 DEF TypeOK
  <2>6. SentByCharacter'
    BY <2>1, <2>3 DEF SentByCharacter
  <2> QED
    BY <2>1, <2>5, <2>6
<1>6. CASE UNCHANGED vars
  BY <1>6 DEF vars, TypeOK, SentByCharacter
<1> QED
  BY <1>1, <1>2, <1>3, <1>4, <1>5, <1>6 DEF Next

LEMMA AlwaysConforms == Spec => []IInv
<1>1. IInv /\ [Next]_vars => IInv'
  BY StepConforms
<1> QED
  BY InitConforms, <1>1, PTL DEF Spec

\* Whatever the accounts, the seeds and the texts are, the fields hold bytes
\* and what is shown are code points (codepage.cpp:81-131), and no logon is
\* remembered for which encryptPassword had no answer (ibmrseed.cpp:219-229).
THEOREM TypeCorrect == Spec => []TypeOK
<1>1. IInv => TypeOK
  BY DEF IInv
<1> QED
  BY AlwaysConforms, <1>1, PTL

\* A character of the page is sent as a byte for it, any other as a blank, and
\* a NUL as a byte that is no character.
LEMMA CharacterComesBack ==
  ASSUME NEW cp \in Pages, NEW code
  PROVE  /\ (\E b \in Byte : ToUnicode(cp, b) = code) /\ code \notin {0, Replacement} =>
              ToUnicode(cp, FromUnicode(cp, code)) = code
         /\ ~((\E b \in Byte : ToUnicode(cp, b) = code) /\ code \notin {0, Replacement}) =>
              (code # 0 => FromUnicode(cp, code) = Space)
         /\ code = 0 => ToUnicode(cp, FromUnicode(cp, code)) \in {0, Replacement}
<1>1. ASSUME NEW b \in Byte, ToUnicode(cp, b) = code, code \notin {0, Replacement}
      PROVE  ToUnicode(cp, FromUnicode(cp, code)) = code
  <2>1. ToUnicodeTable[cp][b] = code
    BY <1>1, ShownIsCode
  <2>2. FromUnicode(cp, code) \in Byte /\ IsLast(cp, FromUnicode(cp, code), code)
    BY <1>1, <2>1, SentCode
  <2>3. ToUnicodeTable[cp][FromUnicode(cp, code)] = code
    BY <2>2 DEF IsLast
  <2> QED
    BY <1>1, <2>2, <2>3, ShownIsCode
<1>2. ASSUME ~((\E b \in Byte : ToUnicode(cp, b) = code) /\ code \notin {0, Replacement}), code # 0
      PROVE  FromUnicode(cp, code) = Space
  <2>1. ASSUME NEW b \in Byte
        PROVE  ToUnicodeTable[cp][b] # code
    <3>1. SUFFICES ASSUME ToUnicodeTable[cp][b] = code PROVE FALSE
      OBVIOUS
    <3>2. ToUnicode(cp, b) = code
      BY <1>2, <3>1, ShownIsCode
    <3>3. code # Replacement
      BY <3>1, TableZero
    <3> QED
      BY <1>2, <3>2, <3>3
  <2> QED
    BY <1>2, <2>1, SentCode
<1>3. code = 0 => ToUnicode(cp, FromUnicode(cp, code)) \in {0, Replacement}
  BY SentCode DEF ToUnicode
<1> QED
  BY <1>1, <1>2, <1>3

\* The field that is sent has a byte for each character that the user sees:
\* the byte of it when the page has the character, for a NUL a byte that is no
\* character of the page, and otherwise a blank, for every text and on every
\* page, through UTF-8 of one to four bytes (codepage.cpp:74-131).
THEOREM ShownIsSent == Spec => []SentIsWhatIsShown
<1>1. ASSUME IInv
      PROVE  SentIsWhatIsShown
  <2>1. SUFFICES ASSUME phase = "sent"
                 PROVE  /\ Len(field) = Len(shown)
                        /\ \A n \in DOMAIN shown :
                             CASE HasCharacter(shown[n]) -> ToUnicode(page, field[n]) = shown[n]
                               [] shown[n] = 0 -> ToUnicode(page, field[n]) \in {0, Replacement}
                               [] OTHER -> field[n] = Space
    BY DEF SentIsWhatIsShown
  <2>2. page \in Pages /\ shown \in Seq(CodePoint) /\ field = [n \in DOMAIN shown |-> FromUnicode(page, shown[n])]
    BY <1>1, <2>1 DEF IInv, TypeOK, SentByCharacter
  <2>3. \A code : HasCharacter(code) <=>
                    (\E b \in Byte : ToUnicode(page, b) = code) /\ code \notin {0, Replacement}
    BY <2>2 DEF HasCharacter, Characters
  <2>4. ASSUME NEW n \in DOMAIN shown
        PROVE  CASE HasCharacter(shown[n]) -> ToUnicode(page, field[n]) = shown[n]
                 [] shown[n] = 0 -> ToUnicode(page, field[n]) \in {0, Replacement}
                 [] OTHER -> field[n] = Space
    <3>1. field[n] = FromUnicode(page, shown[n])
      BY <2>2
    <3>2. CASE HasCharacter(shown[n])
      <4>1. shown[n] # 0
        BY <2>3, <3>2
      <4> QED
        BY <2>2, <2>3, <3>1, <3>2, <4>1, CharacterComesBack
    <3>3. CASE shown[n] = 0
      <4>1. ~HasCharacter(shown[n])
        BY <2>3, <3>3
      <4>2. ToUnicode(page, field[n]) \in {0, Replacement}
        BY <2>2, <3>1, <3>3, CharacterComesBack
      <4> QED
        BY <3>3, <4>1, <4>2
    <3>4. CASE ~HasCharacter(shown[n]) /\ shown[n] # 0
      <4>1. field[n] = Space
        BY <2>2, <2>3, <3>1, <3>4, CharacterComesBack
      <4> QED
        BY <3>4, <4>1
    <3> QED
      BY <3>2, <3>3, <3>4
  <2> QED
    BY <2>2, <2>4, SentType
<1> QED
  BY AlwaysConforms, <1>1, PTL

\* Letters and digits are sent as the same bytes on every page, none of them
\* below the blank (codepage.cpp:133-148).
THEOREM LettersAreTheSame == Spec => []LettersDoNotDependOnThePage
<1>1. ASSUME IInv
      PROVE  LettersDoNotDependOnThePage
  <2>1. SUFFICES ASSUME phase = "sent", NEW n \in DOMAIN shown, shown[n] \in LettersAndDigits
                 PROVE  field[n] = FromUnicode("037", shown[n]) /\ field[n] > Space
    BY DEF LettersDoNotDependOnThePage
  <2>2. page \in Pages /\ field = [m \in DOMAIN shown |-> FromUnicode(page, shown[m])]
    BY <1>1, <2>1 DEF IInv, TypeOK, SentByCharacter
  <2>3. PICK b \in Byte : b > Space /\ \A p \in Pages : IsLast(p, b, shown[n])
    BY <2>1, LettersAssumption
  <2>4. b # 0
    BY <2>3, ByteIs DEF Space
  <2>5. "037" \in Pages
    BY DEF Pages
  <2>6. FromUnicode(page, shown[n]) = b /\ FromUnicode("037", shown[n]) = b
    BY <2>2, <2>3, <2>4, <2>5, SentCode
  <2> QED
    BY <2>2, <2>3, <2>6
<1> QED
  BY AlwaysConforms, <1>1, PTL

\* The sequence number of every logon leads back to the seed of the server:
\* addBigEndian8 carries through the whole number, for every seed of eight
\* bytes (ibmrseed.cpp:231-242).
THEOREM SeedComesBack == Spec => []SequenceNumberIsUndone
<1>1. ASSUME IInv
      PROVE  SequenceNumberIsUndone
  <2>1. SUFFICES ASSUME NEW logon \in logons
                 PROVE  AddBigEndian8(logon.substitute[2], [n \in 1..8 |-> 255]) = logon.serverSeed
    BY DEF SequenceNumberIsUndone
  <2> DEFINE s == logon.serverSeed
  <2>2. s \in Seq(Byte) /\ logon.substitute # <<>>
    <3>1. s \in Seeds /\ logon.substitute # <<>>
      BY <1>1, <2>1 DEF IInv, TypeOK, IsMade
    <3> QED
      BY <3>1, SeedsAssumption
  <2>3. logon.substitute = EncryptPassword(logon.account, s, logon.clientSeed, page)
    BY <1>1, <2>1 DEF IInv, IsMade
  <2>4. Len(s) = 8 /\ logon.substitute[2] = AddBigEndian8(s, One)
    BY <2>2, <2>3 DEF EncryptPassword
  <2>5. s \in Block
    <3>1. s \in [1..Len(s) -> Byte]
      BY <2>2, LenProperties
    <3> QED
      BY <2>4, <3>1, Zenon DEF Block
  <2> QED
    BY <2>4, <2>5, AddUndone
<1> QED
  BY AlwaysConforms, <1>1, PTL


-----------------------------------------------------------------------------
(* What a substitute tells. *)

\* The characters of a name, with blanks behind them.
Padded(text, n) ==
  LET codes == CodePoints(Upper(text))
  IN  IF n <= Len(codes) THEN codes[n] ELSE 32

LEMMA UpperType ==
  ASSUME NEW v \in Seq(Byte)
  PROVE  Upper(v) \in Seq(Byte)
<1> DEFINE up(b) == IF b \in 97..122 THEN b - 32 ELSE b
           f == [b \in Byte |-> up(b)]
<1>1. MapsInto(f, Byte, Byte)
  <2>1. ASSUME NEW b \in Byte
        PROVE  up(b) \in Byte
    <3>1. b \in 97..122 => b - 32 \in Int /\ 0 <= b - 32 /\ b - 32 <= 255
      OBVIOUS
    <3> QED
      BY <3>1, ByteIs
  <2> HIDE DEF up
  <2> QED
    BY <2>1 DEF MapsInto
<1>2. \A n \in DOMAIN v : v[n] \in Byte
  BY ElementOfSeq, LenProperties
<1>3. Upper(v) = [n \in DOMAIN v |-> up(v[n])]
  BY DEF Upper
<1> HIDE DEF up
<1>4. Upper(v) = Mapped(f, v)
  BY <1>2, <1>3 DEF Mapped
<1> HIDE DEF f
<1> QED
  BY <1>1, <1>4, MappedSeq

LEMMA BlankIsSpace ==
  ASSUME NEW cp \in Pages
  PROVE  /\ FromUnicode(cp, 32) = Space /\ 32 \in Characters[cp]
         /\ \A code \in Capitals : FromUnicode(cp, code) > 192 /\ code \in Characters[cp]
<1>1. ASSUME NEW code, NEW b \in Byte, IsLast(cp, b, code), b # 0, code \notin {0, Replacement}
      PROVE  FromUnicode(cp, code) = b /\ code \in Characters[cp]
  <2>1. FromUnicode(cp, code) = b
    BY <1>1, SentCode
  <2>2. ToUnicodeTable[cp][b] = code
    BY <1>1 DEF IsLast
  <2>3. ToUnicode(cp, b) = code
    BY <1>1, <2>2, ShownIsCode
  <2> QED
    BY <1>1, <2>1, <2>3 DEF Characters
<1>2. Space \in Byte /\ Space # 0 /\ 32 \notin {0, Replacement}
  BY TableZero DEF Space, Replacement
<1>3. FromUnicode(cp, 32) = Space /\ 32 \in Characters[cp]
  <2>1. IsLast(cp, Space, 32)
    BY LettersAssumption
  <2> QED
    BY <1>1, <1>2, <2>1
<1>4. ASSUME NEW code \in Capitals
      PROVE  FromUnicode(cp, code) > 192 /\ code \in Characters[cp]
  <2>1. PICK b \in Byte : b > 192 /\ IsLast(cp, b, code)
    BY LettersAssumption DEF LettersAndDigits
  <2>2. b # 0
    BY <2>1, ByteIs
  <2>3. code \notin {0, Replacement}
    BY DEF Capitals, Replacement
  <2> QED
    BY <1>1, <2>1, <2>2, <2>3
<1> QED
  BY <1>3, <1>4

LEMMA PadIs ==
  ASSUME NEW cp \in Pages, NEW text \in Seq(Byte), NEW len \in Nat
  PROVE  /\ CodePoints(Upper(text)) \in Seq(Nat)
         /\ PadEbcdic(text, len, cp) = [n \in 1..len |-> FromUnicode(cp, Padded(text, n))]
<1> DEFINE codes == CodePoints(Upper(text))
           bytes == [n \in DOMAIN codes |-> FromUnicode(cp, codes[n])]
<1>1. codes \in Seq(Nat)
  BY UpperType, CodePointsType
<1>2. Len(bytes) = Len(codes) /\ DOMAIN codes = 1..Len(codes) /\ Len(codes) \in Nat
  BY <1>1, SentType, LenProperties
<1>3. PadEbcdic(text, len, cp) = [n \in 1..len |-> IF n <= Len(bytes) THEN bytes[n] ELSE Space]
  BY DEF PadEbcdic, FromUnicodeString
<1>4. ASSUME NEW n \in 1..len
      PROVE  (IF n <= Len(bytes) THEN bytes[n] ELSE Space) = FromUnicode(cp, Padded(text, n))
  <2>1. CASE n <= Len(bytes)
    <3>1. n \in DOMAIN codes
      BY <1>2, <2>1
    <3>2. bytes[n] = FromUnicode(cp, codes[n])
      BY <3>1
    <3> QED
      BY <1>2, <2>1, <3>2 DEF Padded
  <2>2. CASE ~(n <= Len(bytes))
    BY <1>2, <2>2, BlankIsSpace DEF Padded
  <2> QED
    BY <2>1, <2>2
<1> HIDE DEF codes, bytes
<1> QED
  BY <1>1, <1>3, <1>4 DEF codes

\* A name that the page can spell.
Spelt(cp, text) == \A n \in DOMAIN CodePoints(Upper(text)) : CodePoints(Upper(text))[n] \in Characters[cp]

LEMMA SamePad ==
  ASSUME NEW cp \in Pages, NEW t \in Seq(Byte), NEW u \in Seq(Byte), NEW len \in Nat,
         Spelt(cp, t), Spelt(cp, u)
  PROVE  PadEbcdic(t, len, cp) = PadEbcdic(u, len, cp) <=> \A n \in 1..len : Padded(t, n) = Padded(u, n)
<1>1. ASSUME NEW text \in Seq(Byte), Spelt(cp, text), NEW n \in 1..len
      PROVE  ToUnicode(cp, FromUnicode(cp, Padded(text, n))) = Padded(text, n)
  <2> DEFINE codes == CodePoints(Upper(text))
  <2>1. codes \in Seq(Nat)
    BY PadIs
  <2>2. n <= Len(codes) => n \in DOMAIN codes
    BY <2>1, LenProperties
  <2>3. Padded(text, n) \in Characters[cp]
    BY <1>1, <2>2, BlankIsSpace DEF Padded, Spelt
  <2>4. (\E b \in Byte : ToUnicode(cp, b) = Padded(text, n)) /\ Padded(text, n) \notin {0, Replacement}
    BY <2>3 DEF Characters
  <2> QED
    BY <2>4, CharacterComesBack
<1>2. /\ PadEbcdic(t, len, cp) = [n \in 1..len |-> FromUnicode(cp, Padded(t, n))]
      /\ PadEbcdic(u, len, cp) = [n \in 1..len |-> FromUnicode(cp, Padded(u, n))]
  BY PadIs
<1>3. ASSUME PadEbcdic(t, len, cp) = PadEbcdic(u, len, cp), NEW n \in 1..len
      PROVE  Padded(t, n) = Padded(u, n)
  <2>1. FromUnicode(cp, Padded(t, n)) = FromUnicode(cp, Padded(u, n))
    BY <1>2, <1>3
  <2>2. /\ ToUnicode(cp, FromUnicode(cp, Padded(t, n))) = Padded(t, n)
        /\ ToUnicode(cp, FromUnicode(cp, Padded(u, n))) = Padded(u, n)
    BY <1>1
  <2> QED
    BY <2>1, <2>2
<1>4. ASSUME \A n \in 1..len : Padded(t, n) = Padded(u, n)
      PROVE  PadEbcdic(t, len, cp) = PadEbcdic(u, len, cp)
  BY <1>2, <1>4
<1> QED
  BY <1>3, <1>4

\* Where the characters that count end.
LEMMA CountsIs ==
  ASSUME NEW text \in Seq(Byte), NEW len \in Nat
  PROVE  \E last \in 0..len :
           /\ Counts(text, len) \in Seq(Nat) /\ Len(Counts(text, len)) = last
           /\ \A n \in 1..last : Counts(text, len)[n] = Padded(text, n)
           /\ \A n \in 1..len : n > last => Padded(text, n) = 32
           /\ last = 0 \/ Padded(text, last) # 32
<1> DEFINE codes == CodePoints(Upper(text))
           used == {0} \cup {n \in 1..len : (n <= Len(codes) /\ n <= len) /\ codes[n] # 32}
           last == Max(used)
<1>1. codes \in Seq(Nat) /\ Len(codes) \in Nat
  BY UpperType, CodePointsType, LenProperties
<1>2. last \in used /\ \A n \in used : n <= last
  <2>1. used \subseteq Nat /\ used # {} /\ \A n \in used : n <= len
    OBVIOUS
  <2> HIDE DEF used
  <2> QED
    BY <2>1, GreatestOf
<1>3. Counts(text, len) = SubSeq(codes, 1, last)
  BY DEF Counts
<1>4. used \subseteq 0..len /\ \A n \in 1..len : Padded(text, n) # 32 <=> n \in used
  BY <1>1 DEF Padded
<1>5. last \in 0..len /\ (last = 0 \/ Padded(text, last) # 32) /\ last <= Len(codes)
  <2>1. last = 0 \/ (last \in 1..len /\ last <= Len(codes))
    <3> HIDE DEF last
    <3> QED
      BY <1>2
  <2> HIDE DEF last, used
  <2> QED
    BY <1>1, <1>2, <1>4, <2>1
<1>6. ASSUME NEW n \in 1..len, n > last
      PROVE  Padded(text, n) = 32
  <2> HIDE DEF used, last
  <2> QED
    BY <1>2, <1>4, <1>5, <1>6
<1> HIDE DEF last, used
<1>7. /\ SubSeq(codes, 1, last) \in Seq(Nat) /\ Len(SubSeq(codes, 1, last)) = last
      /\ \A n \in 1..last : SubSeq(codes, 1, last)[n] = codes[n]
  <2> HIDE DEF codes
  <2> QED
    BY <1>1, <1>5
<1>8. \A n \in 1..last : Padded(text, n) = codes[n]
  BY <1>1, <1>5 DEF Padded
<1> HIDE DEF codes
<1> QED
  BY <1>3, <1>5, <1>6, <1>7, <1>8

LEMMA SameCounts ==
  ASSUME NEW t \in Seq(Byte), NEW u \in Seq(Byte), NEW len \in Nat
  PROVE  Counts(t, len) = Counts(u, len) <=> \A n \in 1..len : Padded(t, n) = Padded(u, n)
<1> DEFINE v == Counts(t, len)
           w == Counts(u, len)
<1>1. PICK k \in 0..len :
        /\ v \in Seq(Nat) /\ Len(v) = k
        /\ \A n \in 1..k : v[n] = Padded(t, n)
        /\ \A n \in 1..len : n > k => Padded(t, n) = 32
        /\ k = 0 \/ Padded(t, k) # 32
  BY CountsIs
<1>2. PICK l \in 0..len :
        /\ w \in Seq(Nat) /\ Len(w) = l
        /\ \A n \in 1..l : w[n] = Padded(u, n)
        /\ \A n \in 1..len : n > l => Padded(u, n) = 32
        /\ l = 0 \/ Padded(u, l) # 32
  BY CountsIs
<1> HIDE DEF v, w
<1>3. ASSUME v = w, NEW n \in 1..len
      PROVE  Padded(t, n) = Padded(u, n)
  <2>1. k = l
    BY <1>1, <1>2, <1>3
  <2>2. CASE n <= k
    <3>1. n \in 1..k
      BY <2>2
    <3> QED
      BY <1>1, <1>2, <1>3, <2>1, <3>1
  <2>3. CASE n > k
    BY <1>1, <1>2, <2>1, <2>3
  <2> QED
    BY <2>2, <2>3
<1>4. ASSUME \A n \in 1..len : Padded(t, n) = Padded(u, n)
      PROVE  v = w
  <2>1. ~(k < l)
    <3>1. k < l => l \in 1..len /\ l > k /\ l # 0
      OBVIOUS
    <3> QED
      BY <1>1, <1>2, <1>4, <3>1
  <2>2. ~(l < k)
    <3>1. l < k => k \in 1..len /\ k > l /\ k # 0
      OBVIOUS
    <3> QED
      BY <1>1, <1>2, <1>4, <3>1
  <2>3. k = l
    BY <2>1, <2>2
  <2>4. \A n \in 1..k : v[n] = w[n]
    BY <1>1, <1>2, <1>4, <2>3
  <2> QED
    BY <1>1, <1>2, <2>3, <2>4, SeqEqual
<1> QED
  BY <1>3, <1>4 DEF v, w


-----------------------------------------------------------------------------
(* Exclusive or. *)

Powers == {1, 2, 4, 8, 16, 32, 64, 128}
Patterns == [Powers -> {0, 1}]

Bits(b) == [p \in Powers |-> Bit(b, p)]

\* What the bits weigh, of the lower seven from each power on and of all.
From32(x) == x[32] + 2 * x[64]
From16(x) == x[16] + 2 * From32(x)
From8(x) == x[8] + 2 * From16(x)
From4(x) == x[4] + 2 * From8(x)
From2(x) == x[2] + 2 * From4(x)
LowWeight(x) == x[1] + 2 * From2(x)
Weight(x) == LowWeight(x) + 128 * x[128]

LEMMA Halved ==
  ASSUME NEW m \in Nat
  PROVE  /\ m \div 2 \in Nat /\ m = 2 * (m \div 2) + (m % 2) /\ m % 2 \in {0, 1}
OBVIOUS

LEMMA PatternOf ==
  ASSUME NEW b \in Byte
  PROVE  Bits(b) \in Patterns /\ b = Weight(Bits(b))
<1>1. b \in Nat /\ b <= 255
  BY ByteIs
<1> DEFINE b1 == b \div 2
           b2 == b \div 4
           b3 == b \div 8
           b4 == b \div 16
           b5 == b \div 32
           b6 == b \div 64
           b7 == b \div 128
<1>2. /\ b \div 1 = b /\ b1 = b \div 2 /\ b2 = b1 \div 2 /\ b3 = b2 \div 2 /\ b4 = b3 \div 2 /\ b5 = b4 \div 2
      /\ b6 = b5 \div 2 /\ b7 = b6 \div 2 /\ b1 \in Nat
      /\ b7 <= 1
  BY <1>1
<1>3. /\ Bit(b, 1) = b % 2 /\ Bit(b, 2) = b1 % 2 /\ Bit(b, 4) = b2 % 2 /\ Bit(b, 8) = b3 % 2
      /\ Bit(b, 16) = b4 % 2 /\ Bit(b, 32) = b5 % 2 /\ Bit(b, 64) = b6 % 2 /\ Bit(b, 128) = b7 % 2
  BY <1>2, Zenon DEF Bit
<1> HIDE DEF b1, b2, b3, b4, b5, b6, b7
<1>4. b1 \in Nat /\ b = 2 * b1 + Bit(b, 1) /\ Bit(b, 1) \in {0, 1}
  <2>1. b \in Nat /\ b1 = b \div 2 /\ Bit(b, 1) = b % 2
    BY <1>1, <1>2, <1>3
  <2> QED
    BY <2>1, Halved, Zenon
<1>5. b2 \in Nat /\ b1 = 2 * b2 + Bit(b, 2) /\ Bit(b, 2) \in {0, 1}
  <2>1. b1 \in Nat /\ b2 = b1 \div 2 /\ Bit(b, 2) = b1 % 2
    BY <1>2, <1>3, <1>4
  <2> QED
    BY <2>1, Halved, Zenon
<1>6. b3 \in Nat /\ b2 = 2 * b3 + Bit(b, 4) /\ Bit(b, 4) \in {0, 1}
  <2>1. b2 \in Nat /\ b3 = b2 \div 2 /\ Bit(b, 4) = b2 % 2
    BY <1>2, <1>3, <1>5
  <2> QED
    BY <2>1, Halved, Zenon
<1>7. b4 \in Nat /\ b3 = 2 * b4 + Bit(b, 8) /\ Bit(b, 8) \in {0, 1}
  <2>1. b3 \in Nat /\ b4 = b3 \div 2 /\ Bit(b, 8) = b3 % 2
    BY <1>2, <1>3, <1>6
  <2> QED
    BY <2>1, Halved, Zenon
<1>8. b5 \in Nat /\ b4 = 2 * b5 + Bit(b, 16) /\ Bit(b, 16) \in {0, 1}
  <2>1. b4 \in Nat /\ b5 = b4 \div 2 /\ Bit(b, 16) = b4 % 2
    BY <1>2, <1>3, <1>7
  <2> QED
    BY <2>1, Halved, Zenon
<1>9. b6 \in Nat /\ b5 = 2 * b6 + Bit(b, 32) /\ Bit(b, 32) \in {0, 1}
  <2>1. b5 \in Nat /\ b6 = b5 \div 2 /\ Bit(b, 32) = b5 % 2
    BY <1>2, <1>3, <1>8
  <2> QED
    BY <2>1, Halved, Zenon
<1>10. b7 \in Nat /\ b6 = 2 * b7 + Bit(b, 64) /\ Bit(b, 64) \in {0, 1}
  <2>1. b6 \in Nat /\ b7 = b6 \div 2 /\ Bit(b, 64) = b6 % 2
    BY <1>2, <1>3, <1>9
  <2> QED
    BY <2>1, Halved, Zenon
<1>11. Bit(b, 128) = b7 /\ Bit(b, 128) \in {0, 1}
  <2>1. b7 <= 1
    BY <1>2
  <2>2. b7 % 2 = b7
    BY <1>10, <2>1
  <2>3. b7 \in {0, 1}
    BY <1>10, <2>1
  <2>4. Bit(b, 128) = b7 % 2
    BY <1>3
  <2> DEFINE top == Bit(b, 128)
  <2>5. top = b7 % 2
    BY <2>4
  <2> HIDE DEF top
  <2>6. top = b7
    BY <2>2, <2>5, Zenon
  <2>7. top \in {0, 1}
    BY <2>3, <2>6, Zenon
  <2> QED
    BY <2>6, <2>7, Zenon DEF top
<1>12. Bits(b) \in Patterns
  <2>1. ASSUME NEW p \in Powers
        PROVE  Bit(b, p) \in {0, 1}
    <3>1. /\ Bit(b, 1) \in {0, 1} /\ Bit(b, 2) \in {0, 1} /\ Bit(b, 4) \in {0, 1} /\ Bit(b, 8) \in {0, 1}
          /\ Bit(b, 16) \in {0, 1} /\ Bit(b, 32) \in {0, 1} /\ Bit(b, 64) \in {0, 1} /\ Bit(b, 128) \in {0, 1}
      BY <1>4, <1>5, <1>6, <1>7, <1>8, <1>9, <1>10, <1>11
    <3>2. p = 1 \/ p = 2 \/ p = 4 \/ p = 8 \/ p = 16 \/ p = 32 \/ p = 64 \/ p = 128
      BY DEF Powers
    <3> QED
      BY <3>1, <3>2
  <2> QED
    BY <2>1 DEF Bits, Patterns
<1>13. \A p \in Powers : Bits(b)[p] = Bit(b, p)
  BY DEF Bits
<1> DEFINE x == Bits(b)
<1>14. /\ x[1] = Bit(b, 1) /\ x[2] = Bit(b, 2) /\ x[4] = Bit(b, 4) /\ x[8] = Bit(b, 8)
       /\ x[16] = Bit(b, 16) /\ x[32] = Bit(b, 32) /\ x[64] = Bit(b, 64) /\ x[128] = Bit(b, 128)
  BY <1>13 DEF Powers
<1> HIDE DEF x
<1>15. From32(x) \in Nat /\ b5 = From32(x) + 4 * b7
  BY <1>9, <1>10, <1>14 DEF From32
<1>16. From16(x) \in Nat /\ b4 = From16(x) + 8 * b7
  BY <1>8, <1>10, <1>14, <1>15 DEF From16
<1>17. From8(x) \in Nat /\ b3 = From8(x) + 16 * b7
  BY <1>7, <1>10, <1>14, <1>16 DEF From8
<1>18. From4(x) \in Nat /\ b2 = From4(x) + 32 * b7
  BY <1>6, <1>10, <1>14, <1>17 DEF From4
<1>19. From2(x) \in Nat /\ b1 = From2(x) + 64 * b7
  BY <1>5, <1>10, <1>14, <1>18 DEF From2
<1>20. LowWeight(x) \in Nat /\ b = LowWeight(x) + 128 * b7
  BY <1>4, <1>10, <1>14, <1>19 DEF LowWeight
<1>21. b = Weight(x)
  BY <1>11, <1>14, <1>20, Zenon DEF Weight
<1> QED
  BY <1>12, <1>21 DEF x

\* The lowest bit and the rest.
LEMMA Stripped ==
  ASSUME NEW a \in {0, 1}, NEW b \in {0, 1}, NEW m \in Nat, NEW n \in Nat, a + 2 * m = b + 2 * n
  PROVE  a = b /\ m = n
OBVIOUS

LEMMA WeightType ==
  ASSUME NEW x \in Patterns
  PROVE  /\ \A p \in Powers : x[p] \in {0, 1}
         /\ From32(x) \in Nat /\ From32(x) <= 3 /\ From16(x) \in Nat /\ From16(x) <= 7
         /\ From8(x) \in Nat /\ From8(x) <= 15 /\ From4(x) \in Nat /\ From4(x) <= 31
         /\ From2(x) \in Nat /\ From2(x) <= 63 /\ LowWeight(x) \in Nat /\ LowWeight(x) <= 127
         /\ Weight(x) \in Byte
<1>1. \A p \in Powers : x[p] \in {0, 1}
  BY DEF Patterns
<1>2. /\ x[1] \in {0, 1} /\ x[2] \in {0, 1} /\ x[4] \in {0, 1} /\ x[8] \in {0, 1}
      /\ x[16] \in {0, 1} /\ x[32] \in {0, 1} /\ x[64] \in {0, 1} /\ x[128] \in {0, 1}
  BY <1>1 DEF Powers
<1>3. From32(x) \in Nat /\ From32(x) <= 3
  BY <1>2 DEF From32
<1>4. From16(x) \in Nat /\ From16(x) <= 7
  BY <1>2, <1>3 DEF From16
<1>5. From8(x) \in Nat /\ From8(x) <= 15
  BY <1>2, <1>4 DEF From8
<1>6. From4(x) \in Nat /\ From4(x) <= 31
  BY <1>2, <1>5 DEF From4
<1>7. From2(x) \in Nat /\ From2(x) <= 63
  BY <1>2, <1>6 DEF From2
<1>8. LowWeight(x) \in Nat /\ LowWeight(x) <= 127
  BY <1>2, <1>7 DEF LowWeight
<1>9. Weight(x) \in Byte
  BY <1>2, <1>8, ByteIs DEF Weight
<1> QED
  BY <1>1, <1>3, <1>4, <1>5, <1>6, <1>7, <1>8, <1>9

\* A pattern is the only one of its weight, and its seven lower bits those of
\* what is left of the weight by 128.
LEMMA WeightTells ==
  ASSUME NEW x \in Patterns, NEW y \in Patterns
  PROVE  /\ Weight(x) \in Byte /\ Weight(x) % 128 = LowWeight(x)
         /\ LowWeight(x) = LowWeight(y) => \A p \in Powers : p # 128 => x[p] = y[p]
         /\ Weight(x) = Weight(y) => x = y
<1>1. /\ \A p \in Powers : x[p] \in {0, 1} /\ y[p] \in {0, 1}
      /\ x = [p \in Powers |-> x[p]] /\ y = [p \in Powers |-> y[p]]
  BY DEF Patterns
<1>2. /\ \A p \in Powers : p = 1 \/ p = 2 \/ p = 4 \/ p = 8 \/ p = 16 \/ p = 32 \/ p = 64 \/ p = 128
      /\ 1 \in Powers /\ 2 \in Powers /\ 4 \in Powers /\ 8 \in Powers
      /\ 16 \in Powers /\ 32 \in Powers /\ 64 \in Powers /\ 128 \in Powers
  BY DEF Powers
<1>3. ASSUME NEW z \in Patterns
      PROVE  Weight(z) \in Byte /\ Weight(z) % 128 = LowWeight(z)
  <2> DEFINE m == LowWeight(z)
             h == z[128]
  <2>1. m \in Nat /\ m <= 127 /\ Weight(z) = m + 128 * h /\ h \in {0, 1} /\ Weight(z) \in Byte
    BY <1>2, WeightType DEF Weight
  <2> HIDE DEF m, h
  <2>2. (m + 128 * h) % 128 = m
    BY <2>1
  <2> QED
    BY <2>1, <2>2 DEF m
<1>4. ASSUME LowWeight(x) = LowWeight(y), NEW p \in Powers, p # 128
      PROVE  x[p] = y[p]
  <2>1. x[1] = y[1] /\ From2(x) = From2(y)
    BY <1>1, <1>2, <1>4, WeightType, Stripped DEF LowWeight
  <2>2. x[2] = y[2] /\ From4(x) = From4(y)
    BY <1>1, <1>2, <2>1, WeightType, Stripped DEF From2
  <2>3. x[4] = y[4] /\ From8(x) = From8(y)
    BY <1>1, <1>2, <2>2, WeightType, Stripped DEF From4
  <2>4. x[8] = y[8] /\ From16(x) = From16(y)
    BY <1>1, <1>2, <2>3, WeightType, Stripped DEF From8
  <2>5. x[16] = y[16] /\ From32(x) = From32(y)
    BY <1>1, <1>2, <2>4, WeightType, Stripped DEF From16
  <2>6. x[32] = y[32] /\ x[64] = y[64]
    <3>1. x[32] \in {0, 1} /\ x[64] \in {0, 1} /\ y[32] \in {0, 1} /\ y[64] \in {0, 1}
      BY <1>1, <1>2
    <3>2. x[32] + 2 * x[64] = y[32] + 2 * y[64]
      BY <2>5 DEF From32
    <3> QED
      BY <3>1, <3>2
  <2> QED
    BY <1>2, <1>4, <2>1, <2>2, <2>3, <2>4, <2>5, <2>6
<1>5. ASSUME Weight(x) = Weight(y)
      PROVE  x = y
  <2>1. LowWeight(x) = LowWeight(y)
    BY <1>3, <1>5
  <2>2. x[128] = y[128]
    <3>1. x[128] \in {0, 1} /\ y[128] \in {0, 1} /\ LowWeight(x) \in Nat
      BY <1>1, <1>2, WeightType
    <3> QED
      BY <1>5, <2>1, <3>1 DEF Weight
  <2>3. \A p \in Powers : x[p] = y[p]
    BY <1>4, <2>1, <2>2
  <2> QED
    BY <1>1, <2>3
<1> QED
  BY <1>3, <1>4, <1>5

\* The sums of the bits without their carries.
Sums(x, z) == [p \in Powers |-> (x[p] + z[p]) % 2]

LEMMA SumTells ==
  ASSUME NEW x \in Patterns, NEW y \in Patterns, NEW z \in Patterns
  PROVE  /\ Sums(x, z) \in Patterns
         /\ \A p \in Powers : Sums(x, z)[p] = Sums(y, z)[p] => x[p] = y[p]
<1>1. (0 + 0) % 2 = 0 /\ (0 + 1) % 2 = 1 /\ (1 + 0) % 2 = 1 /\ (1 + 1) % 2 = 0
  OBVIOUS
<1>2. \A p \in Powers : x[p] \in {0, 1} /\ y[p] \in {0, 1} /\ z[p] \in {0, 1}
  BY DEF Patterns
<1>3. \A p \in Powers : (x[p] + z[p]) % 2 \in {0, 1}
  BY <1>1, <1>2
<1>4. \A p \in Powers : (x[p] + z[p]) % 2 = (y[p] + z[p]) % 2 => x[p] = y[p]
  BY <1>1, <1>2
<1> QED
  BY <1>3, <1>4 DEF Sums, Patterns

LEMMA XorIs ==
  ASSUME NEW a \in Byte, NEW c \in Byte
  PROVE  Xor(a, c) = Weight(Sums(Bits(a), Bits(c)))
<1> DEFINE s(p) == (Bit(a, p) + Bit(c, p)) % 2
           z == Sums(Bits(a), Bits(c))
<1>1. \A p \in Powers : z[p] = s(p)
  BY DEF Sums, Bits
<1>2. z \in Patterns
  BY PatternOf, SumTells
<1>3. Xor(a, c) = 1 * s(1) + 2 * s(2) + 4 * s(4) + 8 * s(8) + 16 * s(16) + 32 * s(32) + 64 * s(64) + 128 * s(128)
  BY DEF Xor
<1> HIDE DEF s, z
<1>4. Xor(a, c) = 1 * z[1] + 2 * z[2] + 4 * z[4] + 8 * z[8] + 16 * z[16] + 32 * z[32] + 64 * z[64] + 128 * z[128]
  BY <1>1, <1>3 DEF Powers
<1>5. /\ z[1] \in Nat /\ z[2] \in Nat /\ z[4] \in Nat /\ z[8] \in Nat
      /\ z[16] \in Nat /\ z[32] \in Nat /\ z[64] \in Nat /\ z[128] \in Nat
  BY <1>2, WeightType DEF Powers
<1>6. Weight(z) = 1 * z[1] + 2 * z[2] + 4 * z[4] + 8 * z[8] + 16 * z[16] + 32 * z[32] + 64 * z[64] + 128 * z[128]
  <2>1. From16(z) = z[16] + 2 * z[32] + 4 * z[64]
    BY <1>5 DEF From16, From32
  <2>2. From8(z) = z[8] + 2 * z[16] + 4 * z[32] + 8 * z[64]
    BY <1>5, <2>1 DEF From8
  <2>3. From4(z) = z[4] + 2 * z[8] + 4 * z[16] + 8 * z[32] + 16 * z[64]
    BY <1>5, <2>2 DEF From4
  <2>4. From2(z) = z[2] + 2 * z[4] + 4 * z[8] + 8 * z[16] + 16 * z[32] + 32 * z[64]
    BY <1>5, <2>3 DEF From2
  <2>5. LowWeight(z) = z[1] + 2 * z[2] + 4 * z[4] + 8 * z[8] + 16 * z[16] + 32 * z[32] + 64 * z[64]
    BY <1>5, <2>4 DEF LowWeight
  <2>6. 1 * z[1] = z[1]
    BY <1>5
  <2> QED
    BY <2>5, <2>6, Zenon DEF Weight
<1> QED
  BY <1>4, <1>6 DEF z

LEMMA XorTells ==
  ASSUME NEW a \in Byte, NEW b \in Byte, NEW c \in Byte
  PROVE  /\ Xor(a, c) \in Byte
         /\ Xor(a, c) % 128 = Xor(b, c) % 128 => a % 128 = b % 128
         /\ Xor(a, c) = Xor(b, c) => a = b
<1> DEFINE x == Bits(a)
           y == Bits(b)
           z == Bits(c)
<1>1. /\ x \in Patterns /\ y \in Patterns /\ z \in Patterns
      /\ a = Weight(x) /\ b = Weight(y)
      /\ Xor(a, c) = Weight(Sums(x, z)) /\ Xor(b, c) = Weight(Sums(y, z))
  BY PatternOf, XorIs
<1> HIDE DEF x, y, z
<1>2. /\ Sums(x, z) \in Patterns /\ Sums(y, z) \in Patterns
      /\ \A p \in Powers : Sums(x, z)[p] = Sums(y, z)[p] => x[p] = y[p]
  BY <1>1, SumTells
<1>3. Xor(a, c) \in Byte
  BY <1>1, <1>2, WeightTells
<1>4. ASSUME Xor(a, c) = Xor(b, c)
      PROVE  a = b
  <2>1. Sums(x, z) = Sums(y, z)
    BY <1>1, <1>2, <1>4, WeightTells
  <2>2. x = y
    <3>1. \A p \in Powers : x[p] = y[p]
      BY <1>2, <2>1
    <3> QED
      BY <1>1, <3>1 DEF Patterns
  <2> QED
    BY <1>1, <2>2
<1>5. ASSUME Xor(a, c) % 128 = Xor(b, c) % 128
      PROVE  a % 128 = b % 128
  <2>1. LowWeight(Sums(x, z)) = LowWeight(Sums(y, z))
    BY <1>1, <1>2, <1>5, WeightTells
  <2>2. \A p \in Powers : p # 128 => x[p] = y[p]
    BY <1>2, <2>1, WeightTells
  <2>3. LowWeight(x) = LowWeight(y)
    BY <2>2 DEF LowWeight, From2, From4, From8, From16, From32, Powers
  <2> QED
    BY <1>1, <2>3, WeightTells
<1> QED
  BY <1>3, <1>4, <1>5


-----------------------------------------------------------------------------
(* The substitute. *)

LEMMA PadType ==
  ASSUME NEW cp \in Pages, NEW text \in Seq(Byte), NEW len \in Nat
  PROVE  /\ PadEbcdic(text, len, cp) \in [1..len -> Byte]
         /\ PadEbcdic(text, len, cp) \in Seq(Byte) /\ Len(PadEbcdic(text, len, cp)) = len
<1>1. PadEbcdic(text, len, cp) = [n \in 1..len |-> FromUnicode(cp, Padded(text, n))]
  BY PadIs
<1>2. \A n \in 1..len : FromUnicode(cp, Padded(text, n)) \in Byte
  BY SentCode
<1>3. PadEbcdic(text, len, cp) \in [1..len -> Byte]
  BY <1>1, <1>2
<1> QED
  BY <1>3

\* A password of characters whose bytes differ in their lower seven bits.
Plain(text) ==
  \A n \in DOMAIN CodePoints(Upper(text)) : CodePoints(Upper(text))[n] \in Capitals \cup {32}

\* What DES is given of a password, and has a use for.
Key(text, cp) == LeftShift1(XorWith55(PadPasswordEbcdic(text, cp)))
Used(key) == [n \in 1..8 |-> key[n] \div 2]

LEMMA PlainByte ==
  ASSUME NEW cp \in Pages, NEW text \in Seq(Byte), Plain(text), NEW n \in 1..8
  PROVE  /\ PadEbcdic(text, 8, cp)[n] \in Byte
         /\ PadEbcdic(text, 8, cp)[n] = Space \/ PadEbcdic(text, 8, cp)[n] > 192
<1> DEFINE codes == CodePoints(Upper(text))
<1>1. codes \in Seq(Nat) /\ PadEbcdic(text, 8, cp) = [m \in 1..8 |-> FromUnicode(cp, Padded(text, m))]
  BY PadIs
<1>2. n <= Len(codes) => n \in DOMAIN codes
  BY <1>1, LenProperties
<1>3. Padded(text, n) \in Capitals \cup {32}
  BY <1>2 DEF Padded, Plain
<1>4. PadEbcdic(text, 8, cp)[n] = FromUnicode(cp, Padded(text, n))
  BY <1>1
<1> QED
  BY <1>3, <1>4, BlankIsSpace, SentCode

\* The shift and the cipher together leave the lower seven bits of each byte.
IsShifted(d, t) == (((2 * d) % 256) + t) \div 2 = d % 128

LEMMA ShiftedBits ==
  ASSUME NEW d \in Byte, NEW t \in {0, 1}
  PROVE  IsShifted(d, t)
<1> USE DEF IsShifted
<1>1. d \in Nat /\ d <= 255
  BY ByteIs
<1> DEFINE r == d % 128
<1>2. r \in Nat /\ (2 * d) % 256 = 2 * r
  BY <1>1
<1>3. (2 * r + t) \div 2 = r
  <2> HIDE DEF r
  <2> QED
    BY <1>2
<1> QED
  BY <1>2, <1>3

LEMMA UsedIs ==
  ASSUME NEW cp \in Pages, NEW text \in Seq(Byte)
  PROVE  Used(Key(text, cp)) = [n \in 1..8 |-> Xor(PadEbcdic(text, 8, cp)[n], 85) % 128]
<1> DEFINE pad == PadEbcdic(text, 8, cp)
           x(n) == Xor(pad[n], 85)
           t(n) == IF n < 8 THEN x(n + 1) \div 128 ELSE 0
<1>1. Key(text, cp) = [n \in 1..8 |-> ((2 * x(n)) % 256) + t(n)]
  <2>1. XorWith55(pad) = [n \in 1..8 |-> x(n)]
    BY DEF XorWith55, XorBlock
  <2>2. \A n \in 1..8 : XorWith55(pad)[n] = x(n) /\ (n < 8 => XorWith55(pad)[n + 1] = x(n + 1))
    BY <2>1
  <2> HIDE DEF x
  <2>3. LeftShift1(XorWith55(pad)) = [n \in 1..8 |-> ((2 * x(n)) % 256) + t(n)]
    BY <2>2 DEF LeftShift1
  <2> QED
    BY <2>3 DEF Key, PadPasswordEbcdic
<1>2. \A n \in 1..8 : x(n) \in Byte
  <2>1. \A n \in 1..8 : pad[n] \in Byte
    <3>1. 8 \in Nat
      OBVIOUS
    <3>2. pad \in [1..8 -> Byte]
      BY <3>1, PadType
    <3> HIDE DEF pad
    <3> QED
      BY <3>2
  <2>2. 85 \in Byte
    BY ByteIs
  <2> QED
    BY <2>1, <2>2, XorTells
<1> HIDE DEF x
<1>3. \A n \in 1..8 : t(n) \in {0, 1}
  <2>1. ASSUME NEW n \in 1..8, n < 8
        PROVE  x(n + 1) \div 128 \in {0, 1}
    <3> DEFINE m == x(n + 1)
    <3>1. m \in Nat /\ m <= 255
      <4>1. n + 1 \in 1..8
        BY <2>1
      <4>2. m \in Byte
        BY <1>2, <4>1
      <4> HIDE DEF m
      <4> QED
        BY <4>2, ByteIs
    <3> HIDE DEF m
    <3>2. m \div 128 \in {0, 1}
      BY <3>1
    <3> QED
      BY <3>2 DEF m
  <2> QED
    BY <2>1
<1> HIDE DEF t
<1>4. ASSUME NEW n \in 1..8
      PROVE  (((2 * x(n)) % 256) + t(n)) \div 2 = x(n) % 128
  <2>1. x(n) \in Byte /\ t(n) \in {0, 1}
    BY <1>2, <1>3
  <2>2. IsShifted(x(n), t(n))
    BY <2>1, ShiftedBits
  <2> QED
    BY <2>2, Zenon DEF IsShifted
<1>5. \A n \in 1..8 : Key(text, cp)[n] = ((2 * x(n)) % 256) + t(n)
  BY <1>1
<1>6. Used(Key(text, cp)) = [n \in 1..8 |-> x(n) % 128]
  BY <1>4, <1>5 DEF Used
<1> QED
  BY <1>6 DEF x

LEMMA LowBitsTell ==
  ASSUME NEW a \in Byte, NEW b \in Byte, a = Space \/ a > 192, b = Space \/ b > 192,
         Xor(a, 85) % 128 = Xor(b, 85) % 128
  PROVE  a = b
<1>1. 85 \in Byte
  BY ByteIs
<1>2. a % 128 = b % 128
  BY <1>1, XorTells
<1>3. a \in Nat /\ a <= 255 /\ b \in Nat /\ b <= 255
  BY ByteIs
<1>4. a % 128 = IF a = 64 THEN 64 ELSE a - 128
  BY <1>3 DEF Space
<1>5. b % 128 = IF b = 64 THEN 64 ELSE b - 128
  BY <1>3 DEF Space
<1> QED
  BY <1>2, <1>3, <1>4, <1>5 DEF Space

LEMMA SamePassword ==
  ASSUME NEW cp \in Pages, NEW t \in Seq(Byte), NEW u \in Seq(Byte), Plain(t), Plain(u)
  PROVE  Used(Key(t, cp)) = Used(Key(u, cp)) <=> PadEbcdic(t, 8, cp) = PadEbcdic(u, 8, cp)
<1> DEFINE p == PadEbcdic(t, 8, cp)
           q == PadEbcdic(u, 8, cp)
<1>1. /\ Used(Key(t, cp)) = [n \in 1..8 |-> Xor(p[n], 85) % 128]
      /\ Used(Key(u, cp)) = [n \in 1..8 |-> Xor(q[n], 85) % 128]
  BY UsedIs
<1>2. p \in [1..8 -> Byte] /\ q \in [1..8 -> Byte]
  BY PadType
<1>3. \A n \in 1..8 : (p[n] = Space \/ p[n] > 192) /\ (q[n] = Space \/ q[n] > 192)
  BY PlainByte
<1> HIDE DEF p, q
<1>4. ASSUME Used(Key(t, cp)) = Used(Key(u, cp))
      PROVE  p = q
  <2>1. ASSUME NEW n \in 1..8
        PROVE  p[n] = q[n]
    <3>1. p[n] \in Byte /\ q[n] \in Byte
      BY <1>2
    <3>2. Xor(p[n], 85) % 128 = Xor(q[n], 85) % 128
      <4>1. [m \in 1..8 |-> Xor(p[m], 85) % 128][n] = [m \in 1..8 |-> Xor(q[m], 85) % 128][n]
        BY <1>1, <1>4, Zenon
      <4> QED
        BY <4>1, Zenon
    <3>3. (p[n] = Space \/ p[n] > 192) /\ (q[n] = Space \/ q[n] > 192)
      BY <1>3
    <3> QED
      BY <3>1, <3>2, <3>3, LowBitsTell, Zenon
  <2> QED
    BY <1>2, <2>1
<1>5. ASSUME p = q
      PROVE  Used(Key(t, cp)) = Used(Key(u, cp))
  BY <1>1, <1>5
<1> QED
  BY <1>4, <1>5 DEF p, q

LEMMA SameXor ==
  ASSUME NEW v \in [1..8 -> Byte], NEW w \in [1..8 -> Byte], NEW r \in [1..8 -> Byte],
         XorBlock(v, r) = XorBlock(w, r)
  PROVE  v = w
<1>1. ASSUME NEW n \in 1..8
      PROVE  v[n] = w[n]
  <2>1. XorBlock(v, r)[n] = Xor(v[n], r[n]) /\ XorBlock(w, r)[n] = Xor(w[n], r[n])
    BY DEF XorBlock
  <2>2. v[n] \in Byte /\ w[n] \in Byte /\ r[n] \in Byte
    OBVIOUS
  <2>3. Xor(v[n], r[n]) = Xor(w[n], r[n])
    BY <2>1
  <2> QED
    BY <2>2, <2>3, XorTells
<1> QED
  BY <1>1

\* The two halves of a name.
LEMMA HalvesOf ==
  ASSUME NEW v \in Seq(Byte), Len(v) = 16
  PROVE  /\ SubSeq(v, 1, 8) \in [1..8 -> Byte] /\ SubSeq(v, 9, 16) \in [1..8 -> Byte]
         /\ \A n \in 1..8 : SubSeq(v, 1, 8)[n] = v[n] /\ SubSeq(v, 9, 16)[n] = v[n + 8]
<1>0. \A i \in 1..16 : v[i] \in Byte
  BY ElementOfSeq
<1>1. /\ SubSeq(v, 1, 8) \in Seq(Byte) /\ Len(SubSeq(v, 1, 8)) = 8
      /\ \A n \in 1..8 : SubSeq(v, 1, 8)[n] = v[n]
  <2>1. \A i \in 1..8 : v[i] \in Byte
    BY <1>0
  <2>2. 1 \in Int /\ 8 \in Int
    OBVIOUS
  <2>3. /\ SubSeq(v, 1, 8) \in Seq(Byte) /\ Len(SubSeq(v, 1, 8)) = IF 1 <= 8 THEN 8 - 1 + 1 ELSE 0
        /\ \A i \in 1..(8 - 1 + 1) : SubSeq(v, 1, 8)[i] = v[1 + i - 1]
    BY <2>1, <2>2, SubSeqProperties
  <2>4. \A n \in 1..8 : n \in 1..(8 - 1 + 1) /\ 1 + n - 1 = n
    OBVIOUS
  <2> QED
    BY <2>3, <2>4
<1>2. /\ SubSeq(v, 9, 16) \in Seq(Byte) /\ Len(SubSeq(v, 9, 16)) = 8
      /\ \A n \in 1..8 : SubSeq(v, 9, 16)[n] = v[n + 8]
  <2>1. \A i \in 9..16 : v[i] \in Byte
    BY <1>0
  <2>2. 9 \in Int /\ 16 \in Int
    OBVIOUS
  <2>3. /\ SubSeq(v, 9, 16) \in Seq(Byte) /\ Len(SubSeq(v, 9, 16)) = IF 9 <= 16 THEN 16 - 9 + 1 ELSE 0
        /\ \A i \in 1..(16 - 9 + 1) : SubSeq(v, 9, 16)[i] = v[9 + i - 1]
    BY <2>1, <2>2, SubSeqProperties
  <2>4. \A n \in 1..8 : n \in 1..(16 - 9 + 1) /\ 9 + n - 1 = n + 8
    OBVIOUS
  <2> QED
    BY <2>3, <2>4
<1>3. /\ SubSeq(v, 1, 8) \in [1..Len(SubSeq(v, 1, 8)) -> Byte]
      /\ SubSeq(v, 9, 16) \in [1..Len(SubSeq(v, 9, 16)) -> Byte]
  BY <1>1, <1>2, LenProperties
<1> QED
  BY <1>1, <1>2, <1>3


LEMMA SubstituteIs ==
  ASSUME NEW cp, NEW account, NEW s, NEW c, EncryptPassword(account, s, c, cp) # <<>>
  PROVE  /\ Len(s) = 8 /\ Len(c) = 8
         /\ EncryptPassword(account, s, c, cp) =
              << << Used(Key(account.password, cp)), PadEbcdic(account.user, 8, cp) >>,
                AddBigEndian8(s, One), c,
                XorBlock(SubSeq(PadEbcdic(account.user, 16, cp), 1, 8), AddBigEndian8(s, One)),
                XorBlock(SubSeq(PadEbcdic(account.user, 16, cp), 9, 16), AddBigEndian8(s, One)), One >>
<1>1. Len(s) = 8 /\ Len(c) = 8
  BY DEF EncryptPassword
<1>2. EncryptPassword(account, s, c, cp) =
        << Des(LeftShift1(XorWith55(PadPasswordEbcdic(account.password, cp))), PadEbcdic(account.user, 8, cp)),
          AddBigEndian8(s, One), c,
          XorBlock(SubSeq(PadEbcdic(account.user, 16, cp), 1, 8), AddBigEndian8(s, One)),
          XorBlock(SubSeq(PadEbcdic(account.user, 16, cp), 9, 16), AddBigEndian8(s, One)), One >>
  BY <1>1, Zenon DEF EncryptPassword
<1>3. Des(LeftShift1(XorWith55(PadPasswordEbcdic(account.password, cp))), PadEbcdic(account.user, 8, cp)) =
        << Used(Key(account.password, cp)), PadEbcdic(account.user, 8, cp) >>
  BY Zenon DEF Des, Used, Key
<1> QED
  BY <1>1, <1>2, <1>3, Zenon

LEMMA AddType ==
  ASSUME NEW s \in Block
  PROVE  AddBigEndian8(s, One) \in Block
<1>1. One \in Block
  <2>1. 0 \in Byte /\ 1 \in Byte
    BY ByteIs
  <2> QED
    BY <2>1 DEF One, Block
<1> DEFINE c == Carry(s, One)
<1>2. c \in [1..8 -> Nat]
  BY <1>1, CarryIs
<1> HIDE DEF c
<1>3. ASSUME NEW n \in 1..8
      PROVE  (s[n] + One[n] + c[n]) % 256 \in Byte
  <2> DEFINE m == s[n] + One[n] + c[n]
  <2>1. s[n] \in Nat /\ One[n] \in Nat
    BY <1>1, ByteIs DEF Block
  <2>2. m \in Nat
    BY <1>2, <2>1
  <2> HIDE DEF m
  <2>3. m % 256 \in Byte
    BY <2>2, Halves, ByteIs
  <2> QED
    BY <2>3 DEF m
<1>4. AddBigEndian8(s, One) = [n \in 1..8 |-> (s[n] + One[n] + c[n]) % 256]
  BY AddIs DEF c
<1> QED
  BY <1>3, <1>4 DEF Block

\* Two blocks of eight bytes are two sequences.
LEMMA BlockOf ==
  ASSUME NEW s \in Seq(Byte), Len(s) = 8
  PROVE  s \in Block
<1>1. s \in [1..Len(s) -> Byte]
  BY LenProperties
<1> QED
  BY <1>1, Zenon DEF Block

LEMMA SameSubstitute ==
  ASSUME NEW cp \in Pages, NEW a \in Accounts, NEW b \in Accounts,
         NEW s \in Seeds, NEW t \in Seeds, NEW c \in Seeds, NEW d \in Seeds,
         Plain(a.password), Plain(b.password),
         EncryptPassword(a, s, c, cp) # <<>>, EncryptPassword(b, t, d, cp) # <<>>
  PROVE  EncryptPassword(a, s, c, cp) = EncryptPassword(b, t, d, cp) <=>
           /\ s = t /\ c = d
           /\ PadEbcdic(a.user, 16, cp) = PadEbcdic(b.user, 16, cp)
           /\ PadEbcdic(a.password, 8, cp) = PadEbcdic(b.password, 8, cp)
<1> DEFINE v == PadEbcdic(a.user, 16, cp)
           w == PadEbcdic(b.user, 16, cp)
           r == AddBigEndian8(s, One)
           q == AddBigEndian8(t, One)
           ka == Used(Key(a.password, cp))
           kb == Used(Key(b.password, cp))
           ua == PadEbcdic(a.user, 8, cp)
           ub == PadEbcdic(b.user, 8, cp)
           pa == PadEbcdic(a.password, 8, cp)
           pb == PadEbcdic(b.password, 8, cp)
<1>0. 8 \in Nat /\ 16 \in Nat
  OBVIOUS
<1>1. /\ a.user \in Seq(Byte) /\ a.password \in Seq(Byte)
      /\ b.user \in Seq(Byte) /\ b.password \in Seq(Byte)
  BY AccountsAssumption
<1>2. /\ EncryptPassword(a, s, c, cp) =
           << << ka, ua >>, r, c, XorBlock(SubSeq(v, 1, 8), r), XorBlock(SubSeq(v, 9, 16), r), One >>
      /\ EncryptPassword(b, t, d, cp) =
           << << kb, ub >>, q, d, XorBlock(SubSeq(w, 1, 8), q), XorBlock(SubSeq(w, 9, 16), q), One >>
      /\ Len(s) = 8 /\ Len(t) = 8
  BY SubstituteIs
<1>3. s \in Block /\ t \in Block
  BY <1>2, SeedsAssumption, BlockOf
<1>4. ka = kb <=> pa = pb
  BY <1>1, SamePassword
<1>5. r = q => s = t
  BY <1>3, AddUndone
<1>6. r \in [1..8 -> Byte] /\ q \in [1..8 -> Byte]
  BY <1>3, AddType DEF Block
<1>7. v \in Seq(Byte) /\ Len(v) = 16 /\ w \in Seq(Byte) /\ Len(w) = 16
  BY <1>0, <1>1, PadType
<1>8. v = w => ua = ub
  <2>1. /\ v = [n \in 1..16 |-> FromUnicode(cp, Padded(a.user, n))]
        /\ w = [n \in 1..16 |-> FromUnicode(cp, Padded(b.user, n))]
        /\ ua = [n \in 1..8 |-> FromUnicode(cp, Padded(a.user, n))]
        /\ ub = [n \in 1..8 |-> FromUnicode(cp, Padded(b.user, n))]
    BY <1>0, <1>1, PadIs
  <2> HIDE DEF v, w, ua, ub
  <2>2. \A n \in 1..8 : n \in 1..16
    OBVIOUS
  <2>3. ASSUME v = w, NEW n \in 1..8
        PROVE  FromUnicode(cp, Padded(a.user, n)) = FromUnicode(cp, Padded(b.user, n))
    BY <2>1, <2>2, <2>3
  <2> QED
    BY <2>1, <2>3
<1> HIDE DEF v, w, r, q, ka, kb, ua, ub, pa, pb
<1>9. ASSUME EncryptPassword(a, s, c, cp) = EncryptPassword(b, t, d, cp)
      PROVE  s = t /\ c = d /\ v = w /\ pa = pb
  <2>1. /\ << ka, ua >> = << kb, ub >> /\ r = q /\ c = d
        /\ XorBlock(SubSeq(v, 1, 8), r) = XorBlock(SubSeq(w, 1, 8), q)
        /\ XorBlock(SubSeq(v, 9, 16), r) = XorBlock(SubSeq(w, 9, 16), q)
    BY <1>2, <1>9
  <2>2. ka = kb
    BY <2>1
  <2>3. /\ SubSeq(v, 1, 8) \in [1..8 -> Byte] /\ SubSeq(v, 9, 16) \in [1..8 -> Byte]
        /\ SubSeq(w, 1, 8) \in [1..8 -> Byte] /\ SubSeq(w, 9, 16) \in [1..8 -> Byte]
    BY <1>7, HalvesOf
  <2>4. SubSeq(v, 1, 8) = SubSeq(w, 1, 8)
    BY <1>6, <2>1, <2>3, SameXor
  <2>5. SubSeq(v, 9, 16) = SubSeq(w, 9, 16)
    BY <1>6, <2>1, <2>3, SameXor
  <2>6. \A n \in 1..8 : v[n] = w[n] /\ v[n + 8] = w[n + 8]
    <3>1. /\ \A n \in 1..8 : SubSeq(v, 1, 8)[n] = v[n] /\ SubSeq(v, 9, 16)[n] = v[n + 8]
          /\ \A n \in 1..8 : SubSeq(w, 1, 8)[n] = w[n] /\ SubSeq(w, 9, 16)[n] = w[n + 8]
      BY <1>7, HalvesOf
    <3> QED
      BY <2>4, <2>5, <3>1, Zenon
  <2>7. \A i \in 1..16 : v[i] = w[i]
    <3>1. ASSUME NEW i \in 1..16
          PROVE  v[i] = w[i]
      <4>1. CASE i <= 8
        <5>1. i \in 1..8
          BY <4>1
        <5> QED
          BY <2>6, <5>1
      <4>2. CASE i > 8
        <5>1. i - 8 \in 1..8 /\ (i - 8) + 8 = i
          BY <4>2
        <5>2. v[(i - 8) + 8] = w[(i - 8) + 8]
          BY <2>6, <5>1
        <5> QED
          BY <5>1, <5>2
      <4> QED
        BY <4>1, <4>2
    <3> QED
      BY <3>1
  <2>8. v = w
    BY <1>7, <2>7, SeqEqual
  <2> QED
    BY <1>4, <1>5, <2>1, <2>2, <2>8
<1>10. ASSUME s = t, c = d, v = w, pa = pb
       PROVE  EncryptPassword(a, s, c, cp) = EncryptPassword(b, t, d, cp)
  <2>1. ka = kb /\ ua = ub
    BY <1>4, <1>8, <1>10
  <2>2. r = q
    BY <1>10 DEF r, q
  <2> QED
    BY <1>2, <1>10, <2>1, <2>2, Zenon
<1> QED
  BY <1>9, <1>10 DEF v, w, pa, pb

\* Names are padded to the same bytes when the same characters of them count.
LEMMA SameName ==
  ASSUME NEW cp \in Pages, NEW t \in Seq(Byte), NEW u \in Seq(Byte), NEW len \in Nat,
         Spelt(cp, t), Spelt(cp, u)
  PROVE  PadEbcdic(t, len, cp) = PadEbcdic(u, len, cp) <=> Counts(t, len) = Counts(u, len)
<1>1. PadEbcdic(t, len, cp) = PadEbcdic(u, len, cp) <=> \A n \in 1..len : Padded(t, n) = Padded(u, n)
  BY SamePad
<1>2. Counts(t, len) = Counts(u, len) <=> \A n \in 1..len : Padded(t, n) = Padded(u, n)
  BY SameCounts
<1> QED
  BY <1>1, <1>2, Zenon

LEMMA PlainIsSpelt ==
  ASSUME NEW cp \in Pages, NEW text, Plain(text)
  PROVE  Spelt(cp, text)
BY BlankIsSpace DEF Plain, Spelt

\* When the passwords are capitals, digits and blanks (small letters count as
\* capitals), two answers of encryptPassword are the same exactly when the
\* account and the seeds are, for any accounts that the page can spell and any
\* seeds.  Of other characters two may have bytes with the same lower seven
\* bits, which is all that the shift before DES leaves of them
\* (ibmrseed.cpp:45-87, 219-260).
THEOREM AccountsToldApart ==
  (\A account \in Accounts : Plain(account.password)) => (Spec => []SubstitutesTellApart)
<1> SUFFICES ASSUME \A account \in Accounts : Plain(account.password)
             PROVE  Spec => []SubstitutesTellApart
  OBVIOUS
<1>1. ASSUME IInv
      PROVE  SubstitutesTellApart
  <2>1. SUFFICES ASSUME NEW a \in logons, NEW b \in logons,
                        IsOnPage(a.account.user), IsOnPage(b.account.user)
                 PROVE  a.substitute = b.substitute <=>
                          /\ a.serverSeed = b.serverSeed /\ a.clientSeed = b.clientSeed
                          /\ Counts(a.account.user, 16) = Counts(b.account.user, 16)
                          /\ Counts(a.account.password, 8) = Counts(b.account.password, 8)
    BY DEF SubstitutesTellApart
  <2>2. /\ page \in Pages /\ IsMade(a) /\ IsMade(b) /\ a.substitute # <<>> /\ b.substitute # <<>>
    BY <1>1 DEF IInv, TypeOK
  <2>3. /\ a.account \in Accounts /\ a.serverSeed \in Seeds /\ a.clientSeed \in Seeds
        /\ b.account \in Accounts /\ b.serverSeed \in Seeds /\ b.clientSeed \in Seeds
        /\ a.substitute = EncryptPassword(a.account, a.serverSeed, a.clientSeed, page)
        /\ b.substitute = EncryptPassword(b.account, b.serverSeed, b.clientSeed, page)
    BY <2>2 DEF IsMade
  <2>4. Plain(a.account.password) /\ Plain(b.account.password)
    BY <2>3
  <2>5. a.substitute = b.substitute <=>
          /\ a.serverSeed = b.serverSeed /\ a.clientSeed = b.clientSeed
          /\ PadEbcdic(a.account.user, 16, page) = PadEbcdic(b.account.user, 16, page)
          /\ PadEbcdic(a.account.password, 8, page) = PadEbcdic(b.account.password, 8, page)
    BY <2>2, <2>3, <2>4, SameSubstitute
  <2>6. /\ a.account.user \in Seq(Byte) /\ a.account.password \in Seq(Byte)
        /\ b.account.user \in Seq(Byte) /\ b.account.password \in Seq(Byte)
        /\ 8 \in Nat /\ 16 \in Nat
    BY <2>3, AccountsAssumption
  <2>7. Spelt(page, a.account.user) /\ Spelt(page, b.account.user)
    BY <2>1 DEF IsOnPage, HasCharacter, Spelt
  <2>8. Spelt(page, a.account.password) /\ Spelt(page, b.account.password)
    BY <2>2, <2>4, PlainIsSpelt
  <2>9. PadEbcdic(a.account.user, 16, page) = PadEbcdic(b.account.user, 16, page) <=>
          Counts(a.account.user, 16) = Counts(b.account.user, 16)
    <3> DEFINE x == a.account.user
               y == b.account.user
    <3>1. x \in Seq(Byte) /\ y \in Seq(Byte) /\ Spelt(page, x) /\ Spelt(page, y)
      BY <2>6, <2>7
    <3> HIDE DEF x, y
    <3>2. PadEbcdic(x, 16, page) = PadEbcdic(y, 16, page) <=> Counts(x, 16) = Counts(y, 16)
      BY <2>2, <2>6, <3>1, SameName
    <3> QED
      BY <3>2 DEF x, y
  <2>10. PadEbcdic(a.account.password, 8, page) = PadEbcdic(b.account.password, 8, page) <=>
           Counts(a.account.password, 8) = Counts(b.account.password, 8)
    <3> DEFINE x == a.account.password
               y == b.account.password
    <3>1. x \in Seq(Byte) /\ y \in Seq(Byte) /\ Spelt(page, x) /\ Spelt(page, y)
      BY <2>6, <2>8
    <3> HIDE DEF x, y
    <3>2. PadEbcdic(x, 8, page) = PadEbcdic(y, 8, page) <=> Counts(x, 8) = Counts(y, 8)
      BY <2>2, <2>6, <3>1, SameName
    <3> QED
      BY <3>2 DEF x, y
  <2> QED
    BY <2>5, <2>9, <2>10
<1> QED
  BY AlwaysConforms, <1>1, PTL
=============================================================================
