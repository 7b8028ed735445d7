------------------------------ MODULE Recursion ------------------------------
(***************************************************************************)
(* Induction over numbers, and recursive functions: that such a definition *)
(* meets its equation.  Everything rests on the well-foundedness of < on   *)
(* the natural numbers, and is stated of sets and functions rather than of *)
(* operators, so that it can be cited wherever it is needed.               *)
(***************************************************************************)
EXTENDS Integers, SequencesExt, SequenceTheorems, WellFoundedInduction, TLAPS

-----------------------------------------------------------------------------
(* Induction. *)

LEMMA Least ==
  ASSUME NEW T, T \subseteq Nat, T # {}
  PROVE  \E x \in T : \A y \in T : x <= y
<1> DEFINE R == OpToRel(<, Nat)
<1>1. IsWellFoundedOn(R, Nat)
  BY NatLessThanWellFounded
<1>2. \A x, y \in Nat : x < y => <<x, y>> \in R
  BY DEF OpToRel
<1> HIDE DEF R
<1>3. PICK x \in T : \A y \in T : ~ (<<y, x>> \in R)
  BY <1>1, WFMin
<1>4. \A y \in T : ~ (y < x)
  BY <1>2, <1>3, Zenon
<1>5. \A y \in T : x \in Nat /\ y \in Nat
  OBVIOUS
<1> QED
  BY <1>4, <1>5

\* A set of numbers that holds 0, and with each number the next one.
LEMMA Induction ==
  \A S : (0 \in S /\ \A n \in Nat : n \in S => n + 1 \in S) => Nat \subseteq S
<1> SUFFICES ASSUME NEW S, 0 \in S, \A n \in Nat : n \in S => n + 1 \in S, Nat \ S # {}
             PROVE  FALSE
  OBVIOUS
<1>1. PICK x \in Nat \ S : \A y \in Nat \ S : x <= y
  BY Least
<1>2. x # 0 /\ x - 1 \in Nat /\ x - 1 \in S
  BY <1>1
<1> QED
  BY <1>1, <1>2

\* A set of positions that holds the last one, and each one all of whose
\* later ones it holds.
LEMMA Backwards ==
  \A b, S : (/\ b \in Nat
             /\ \A k \in 1..b : (\A m \in (k + 1)..b : m \in S) => k \in S) => 1..b \subseteq S
<1> SUFFICES ASSUME NEW b \in Nat, NEW S,
                    \A k \in 1..b : (\A m \in (k + 1)..b : m \in S) => k \in S
             PROVE  1..b \subseteq S
  OBVIOUS
<1> DEFINE T == {n \in Nat : \A k \in 1..b : k > b - n => k \in S}
<1>1. 0 \in T
  OBVIOUS
<1>2. ASSUME NEW n \in Nat, n \in T
      PROVE  n + 1 \in T
  <2>1. ASSUME NEW k \in 1..b, k > b - (n + 1)
        PROVE  k \in S
    <3>1. \A m \in (k + 1)..b : m \in S
      BY <1>2, <2>1
    <3> QED
      BY <3>1
  <2> QED
    BY <2>1
<1>3. Nat \subseteq T
  <2> HIDE DEF T
  <2> QED BY <1>1, <1>2, Induction
<1>4. b \in T
  <2> HIDE DEF T
  <2> QED BY <1>3
<1> QED
  BY <1>4

\* A set of sequences that holds the empty one, and with each sequence all
\* that are longer by one.
LEMMA AppendInduction ==
  \A S, T : (/\ <<>> \in T
             /\ \A s \in Seq(S), e \in S : s \in T => Append(s, e) \in T) => Seq(S) \subseteq T
<1> SUFFICES ASSUME NEW S, NEW T, <<>> \in T,
                    \A s \in Seq(S), e \in S : s \in T => Append(s, e) \in T
             PROVE  Seq(S) \subseteq T
  OBVIOUS
<1> DEFINE N == {n \in Nat : \A s \in Seq(S) : Len(s) = n => s \in T}
<1>1. 0 \in N
  BY EmptySeq
<1>2. ASSUME NEW n \in Nat, n \in N
      PROVE  n + 1 \in N
  <2>1. ASSUME NEW s \in Seq(S), Len(s) = n + 1
        PROVE  s \in T
    <3>1. s # <<>>
      BY <2>1, EmptySeq
    <3>2. PICK r \in Seq(S), e \in S : s = Append(r, e)
      BY <3>1, SequenceEmptyOrAppend
    <3>3. Len(r) = n
      <4>1. Len(s) = Len(r) + 1 /\ Len(r) \in Nat
        BY <3>2, AppendProperties, LenProperties
      <4> QED
        BY <2>1, <4>1
    <3> QED
      BY <1>2, <3>2, <3>3
  <2> QED
    BY <2>1
<1>3. Nat \subseteq N
  <2> HIDE DEF N
  <2> QED BY <1>1, <1>2, Induction
<1>4. \A s \in Seq(S) : Len(s) \in N
  BY <1>3, LenProperties
<1> QED
  BY <1>4

-----------------------------------------------------------------------------
(* Sequences. *)

IsRegrouped(s, t, u) == (s \o t) \o u = s \o (t \o u)

LEMMA Regroup == \A S : \A s, t, u \in Seq(S) : IsRegrouped(s, t, u)
BY ConcatAssociative DEF IsRegrouped

\* Every element by itself.
Mapped(f, s) == [n \in DOMAIN s |-> f[s[n]]]

MapsInto(f, S, T) == f \in [S -> T]

LEMMA MappedSeq ==
  ASSUME NEW S, NEW T, NEW f, MapsInto(f, S, T), NEW s \in Seq(S)
  PROVE  /\ Mapped(f, s) \in Seq(T) /\ Len(Mapped(f, s)) = Len(s)
         /\ \A n \in 1..Len(s) : Mapped(f, s)[n] = f[s[n]]
<1> USE DEF MapsInto
<1>1. DOMAIN s = 1..Len(s) /\ Len(s) \in Nat /\ \A n \in 1..Len(s) : s[n] \in S
  BY LenProperties, ElementOfSeq
<1>2. Mapped(f, s) \in [1..Len(s) -> T]
  BY <1>1 DEF Mapped
<1>3. \A n \in 1..Len(s) : Mapped(f, s)[n] = f[s[n]]
  BY <1>1 DEF Mapped
<1> QED
  BY <1>1, <1>2, <1>3

LEMMA MappedAppend ==
  ASSUME NEW S, NEW T, NEW f, MapsInto(f, S, T), NEW s \in Seq(S), NEW e \in S
  PROVE  Mapped(f, Append(s, e)) = Append(Mapped(f, s), f[e])
<1> DEFINE r == Append(s, e)
           u == Mapped(f, r)
           v == Append(Mapped(f, s), f[e])
<1>1. /\ r \in Seq(S) /\ Len(r) = Len(s) + 1 /\ Len(s) \in Nat
      /\ \A n \in 1..Len(s) : r[n] = s[n]
      /\ r[Len(s) + 1] = e
  BY AppendProperties, LenProperties
<1> HIDE DEF r
<1>2. u \in Seq(T) /\ Len(u) = Len(s) + 1 /\ \A n \in 1..(Len(s) + 1) : u[n] = f[r[n]]
  <2>1. u \in Seq(T) /\ Len(u) = Len(r) /\ \A n \in 1..Len(r) : u[n] = f[r[n]]
    BY <1>1, MappedSeq
  <2> QED
    BY <1>1, <2>1
<1>3. /\ Mapped(f, s) \in Seq(T) /\ Len(Mapped(f, s)) = Len(s)
      /\ \A n \in 1..Len(s) : Mapped(f, s)[n] = f[s[n]]
  BY MappedSeq
<1>4. /\ v \in Seq(T) /\ Len(v) = Len(s) + 1
      /\ \A n \in 1..Len(s) : v[n] = Mapped(f, s)[n]
      /\ v[Len(s) + 1] = f[e]
  <2>1. f[e] \in T
    BY DEF MapsInto
  <2> QED
    BY <1>3, <2>1, AppendProperties
<1> HIDE DEF u, v
<1>5. \A n \in 1..(Len(s) + 1) : n \in 1..Len(s) \/ n = Len(s) + 1
  BY <1>1
<1>6. \A n \in 1..Len(u) : u[n] = v[n]
  BY <1>1, <1>2, <1>3, <1>4, <1>5
<1>7. u = v
  BY <1>2, <1>4, <1>6, SeqEqual
<1> QED
  BY <1>7 DEF u, v, r

-----------------------------------------------------------------------------
(* Recursion. *)

\* What F makes of a function at d depends on what is smaller than d only.
Descends(F, D, mu, X) ==
  /\ mu \in [D -> Nat] /\ F \in [[D -> X] -> [D -> X]]
  /\ \A g, h \in [D -> X], d \in D :
       (\A e \in D : mu[e] < mu[d] => g[e] = h[e]) => F[g][d] = F[h][d]

HasSolution(F, D, X) == \E g \in [D -> X] : F[g] = g

\* A recursive function whose body descends exists.
LEMMA SolutionOf ==
  ASSUME NEW D, NEW mu, NEW X, X # {}, NEW F, Descends(F, D, mu, X)
  PROVE  HasSolution(F, D, X)
<1> USE DEF Descends, HasSolution
<1> DEFINE Good(g, n) == \A d \in D : mu[d] < n => F[g][d] = g[d]
           S == {n \in Nat : \E g \in [D -> X] : Good(g, n)}
           T == {n \in Nat : \A g, h \in [D -> X] :
                   Good(g, n) /\ Good(h, n) => \A d \in D : mu[d] < n => g[d] = h[d]}
<1>1. Nat \subseteq S
  <2>1. 0 \in S
    <3>1. PICK x \in X : TRUE
      OBVIOUS
    <3>2. [d \in D |-> x] \in [D -> X] /\ Good([d \in D |-> x], 0)
      BY <3>1
    <3> QED
      BY <3>2
  <2>2. ASSUME NEW n \in Nat, n \in S
        PROVE  n + 1 \in S
    <3>1. PICK g \in [D -> X] : Good(g, n)
      BY <2>2
    <3>2. F[g] \in [D -> X]
      OBVIOUS
    <3>3. ASSUME NEW d \in D, mu[d] < n + 1
          PROVE  F[F[g]][d] = F[g][d]
      <4>1. \A e \in D : mu[e] < mu[d] => F[g][e] = g[e]
        BY <3>1, <3>3
      <4> QED
        BY <3>2, <4>1
    <3> QED
      BY <3>2, <3>3
  <2> HIDE DEF S
  <2> QED BY <2>1, <2>2, Induction
<1>2. Nat \subseteq T
  <2>1. 0 \in T
    OBVIOUS
  <2>2. ASSUME NEW n \in Nat, n \in T
        PROVE  n + 1 \in T
    <3>1. ASSUME NEW g \in [D -> X], NEW h \in [D -> X], Good(g, n + 1), Good(h, n + 1),
                 NEW d \in D, mu[d] < n + 1
          PROVE  g[d] = h[d]
      <4>1. Good(g, n) /\ Good(h, n)
        BY <3>1
      <4>2. \A e \in D : mu[e] < n => g[e] = h[e]
        BY <2>2, <4>1
      <4>3. \A e \in D : mu[e] < mu[d] => g[e] = h[e]
        BY <3>1, <4>2
      <4>4. F[g][d] = F[h][d]
        BY <4>3
      <4> QED
        BY <3>1, <4>4
    <3> QED
      BY <3>1
  <2> HIDE DEF T
  <2> QED BY <2>1, <2>2, Induction
<1> DEFINE Pick(n) == CHOOSE g : g \in [D -> X] /\ Good(g, n)
           G == [d \in D |-> Pick(mu[d] + 1)[d]]
<1>3. ASSUME NEW n \in Nat
      PROVE  Pick(n) \in [D -> X] /\ Good(Pick(n), n)
  <2>1. \E g : g \in [D -> X] /\ Good(g, n)
    BY <1>1
  <2> HIDE DEF Good
  <2> QED BY <2>1
<1> HIDE DEF Pick
<1>4. G \in [D -> X]
  BY <1>3
<1>5. ASSUME NEW d \in D
      PROVE  F[G][d] = G[d]
  <2> DEFINE g == Pick(mu[d] + 1)
  <2>1. g \in [D -> X] /\ Good(g, mu[d] + 1) /\ mu[d] \in Nat
    BY <1>3
  <2>2. ASSUME NEW e \in D, mu[e] < mu[d]
        PROVE  G[e] = g[e]
    <3> DEFINE h == Pick(mu[e] + 1)
    <3>1. h \in [D -> X] /\ Good(h, mu[e] + 1) /\ mu[e] + 1 \in Nat /\ mu[e] < mu[e] + 1
      BY <1>3
    <3>2. Good(g, mu[e] + 1)
      BY <2>1, <2>2
    <3>3. h[e] = g[e]
      BY <1>2, <2>1, <3>1, <3>2
    <3> QED
      BY <3>3
  <2>3. F[G][d] = F[g][d]
    BY <1>4, <2>1, <2>2
  <2>4. F[g][d] = g[d]
    BY <2>1
  <2> QED
    BY <2>3, <2>4
<1>6. F[G] \in [D -> X]
  BY <1>4
<1> QED
  BY <1>4, <1>5, <1>6

LEMMA Solution ==
  \A D, mu, X, F : (X # {} /\ Descends(F, D, mu, X)) => HasSolution(F, D, X)
BY SolutionOf

\* The same for a function over positions, whose body looks at later ones.
\* What F makes of a function at a position depends on later positions only.
LooksAhead(F, b, X) ==
  /\ F \in [[1..b -> X] -> [1..b -> X]]
  /\ \A g, h \in [1..b -> X], k \in 1..b :
       (\A m \in (k + 1)..b : g[m] = h[m]) => F[g][k] = F[h][k]

\* A recursive function over positions whose body looks ahead exists.
HasFixpoint(F, b, X) == \E g \in [1..b -> X] : F[g] = g

LEMMA Fixpoint ==
  \A b, X, F : (b \in Nat /\ X # {} /\ LooksAhead(F, b, X)) => HasFixpoint(F, b, X)
<1> SUFFICES ASSUME NEW b \in Nat, NEW X, X # {}, NEW F, LooksAhead(F, b, X)
             PROVE  HasFixpoint(F, b, X)
  OBVIOUS
<1> DEFINE mu == [k \in 1..b |-> b - k]
<1>1. mu \in [1..b -> Nat] /\ \A k, m \in 1..b : m \in (k + 1)..b => mu[m] < mu[k]
  OBVIOUS
<1>2. Descends(F, 1..b, mu, X)
  <2>1. ASSUME NEW g \in [1..b -> X], NEW h \in [1..b -> X], NEW k \in 1..b,
               \A m \in 1..b : mu[m] < mu[k] => g[m] = h[m]
        PROVE  F[g][k] = F[h][k]
    <3>1. \A m \in (k + 1)..b : m \in 1..b
      OBVIOUS
    <3>2. \A m \in (k + 1)..b : g[m] = h[m]
      BY <1>1, <2>1, <3>1
    <3> QED
      BY <3>2 DEF LooksAhead
  <2> HIDE DEF mu
  <2> QED
    BY <1>1, <2>1 DEF LooksAhead, Descends
<1>3. HasSolution(F, 1..b, X)
  <2> HIDE DEF mu
  <2> QED BY <1>2, Solution, Zenon
<1> QED
  BY <1>3 DEF HasSolution, HasFixpoint

-----------------------------------------------------------------------------
(* What is flattened. *)

FlattenStep(ss, g) == [i \in 1..Len(ss) |-> IF i = 1 THEN ss[i] ELSE g[i - 1] \o ss[i]]

FlattenTo(ss) == CHOOSE g : g = FlattenStep(ss, g)

LEMMA FlattenIsTo == \A ss : FlattenSeq(ss) = IF Len(ss) = 0 THEN ss ELSE FlattenTo(ss)[Len(ss)]
BY DEF FlattenSeq, FlattenTo, FlattenStep

LEMMA FlattenUnrolls ==
  ASSUME NEW S, NEW ss \in Seq(Seq(S))
  PROVE  \A i \in 1..Len(ss) :
           /\ FlattenTo(ss)[i] \in Seq(S)
           /\ FlattenTo(ss)[i] = IF i = 1 THEN ss[i] ELSE FlattenTo(ss)[i - 1] \o ss[i]
<1> DEFINE D == 1..Len(ss)
           X == Seq(S)
           F == [g \in [D -> X] |-> FlattenStep(ss, g)]
           mu == [i \in D |-> i]
<1>1. Len(ss) \in Nat /\ X # {} /\ \A i \in D : ss[i] \in Seq(S)
  BY LenProperties, ElementOfSeq, EmptySeq
<1>2. Descends(F, D, mu, X)
  <2>1. mu \in [D -> Nat]
    BY <1>1
  <2>2. ASSUME NEW g \in [D -> X]
        PROVE  FlattenStep(ss, g) \in [D -> X]
    <3>1. ASSUME NEW i \in D
          PROVE  (IF i = 1 THEN ss[i] ELSE g[i - 1] \o ss[i]) \in Seq(S)
      <4>1. CASE i = 1
        BY <1>1, <4>1
      <4>2. CASE i # 1
        <5>1. i - 1 \in D
          BY <1>1, <4>2
        <5>2. g[i - 1] \in Seq(S)
          BY <5>1
        <5> QED
          BY <1>1, <4>2, <5>2, ConcatProperties
      <4> QED
        BY <4>1, <4>2
    <3> QED
      BY <3>1 DEF FlattenStep
  <2>3. ASSUME NEW g \in [D -> X], NEW h \in [D -> X], NEW i \in D,
               \A k \in D : mu[k] < mu[i] => g[k] = h[k]
        PROVE  FlattenStep(ss, g)[i] = FlattenStep(ss, h)[i]
    <3>1. CASE i = 1
      BY <3>1 DEF FlattenStep
    <3>2. CASE i # 1
      <4>1. g[i - 1] = h[i - 1]
        BY <1>1, <2>3, <3>2
      <4> QED
        BY <3>2, <4>1 DEF FlattenStep
    <3> QED
      BY <3>1, <3>2
  <2> HIDE DEF D, X, mu
  <2> QED
    BY <2>1, <2>2, <2>3 DEF Descends
<1>3. HasSolution(F, D, X)
  <2> HIDE DEF D, X, mu, F
  <2> QED BY <1>1, <1>2, Solution, Zenon
<1>4. \E g : g = FlattenStep(ss, g)
  BY <1>3 DEF HasSolution
<1>5. FlattenTo(ss) = FlattenStep(ss, FlattenTo(ss))
  BY <1>4 DEF FlattenTo
<1>6. \A i \in D : FlattenStep(ss, FlattenTo(ss))[i]
                    = IF i = 1 THEN ss[i] ELSE FlattenTo(ss)[i - 1] \o ss[i]
  BY DEF FlattenStep
<1>7. \A i \in D : FlattenTo(ss)[i] = IF i = 1 THEN ss[i] ELSE FlattenTo(ss)[i - 1] \o ss[i]
  BY <1>5, <1>6
<1> DEFINE N == {n \in Nat : n \in D => FlattenTo(ss)[n] \in Seq(S)}
<1>8. 0 \in N
  OBVIOUS
<1>9. ASSUME NEW n \in Nat, n \in N
      PROVE  n + 1 \in N
  <2> SUFFICES ASSUME n + 1 \in D PROVE FlattenTo(ss)[n + 1] \in Seq(S)
    OBVIOUS
  <2>1. CASE n = 0
    <3>1. n + 1 = 1 /\ 1 \in D
      BY <2>1
    <3>2. FlattenTo(ss)[1] = ss[1]
      BY <1>7, <3>1
    <3> QED
      BY <1>1, <3>1, <3>2
  <2>2. CASE n # 0
    <3>1. n \in D /\ n + 1 # 1 /\ (n + 1) - 1 = n
      BY <1>1, <2>2
    <3>2. FlattenTo(ss)[n] \in Seq(S)
      BY <1>9, <3>1
    <3>3. FlattenTo(ss)[n + 1] = FlattenTo(ss)[n] \o ss[n + 1]
      BY <1>7, <3>1
    <3>4. ss[n + 1] \in Seq(S)
      BY <1>1
    <3> QED
      BY <3>2, <3>3, <3>4, ConcatProperties
  <2> QED
    BY <2>1, <2>2
<1>10. Nat \subseteq N
  <2> HIDE DEF N
  <2> QED BY <1>8, <1>9, Induction
<1> QED
  BY <1>7, <1>10

\* What is appended comes last.
LEMMA FlattenAppend ==
  ASSUME NEW S, NEW ss \in Seq(Seq(S)), NEW u \in Seq(S)
  PROVE  /\ FlattenSeq(ss) \in Seq(S)
         /\ FlattenSeq(Append(ss, u)) = FlattenSeq(ss) \o u
<1> DEFINE n == Len(ss)
           tt == Append(ss, u)
<1>1. /\ n \in Nat /\ tt \in Seq(Seq(S)) /\ Len(tt) = n + 1
      /\ \A i \in 1..n : tt[i] = ss[i]
      /\ tt[n + 1] = u
  BY AppendProperties, LenProperties
<1> HIDE DEF tt
<1>2. \A i \in 1..n : /\ FlattenTo(ss)[i] \in Seq(S)
                       /\ FlattenTo(ss)[i] = IF i = 1 THEN ss[i] ELSE FlattenTo(ss)[i - 1] \o ss[i]
  BY FlattenUnrolls
<1>3. \A i \in 1..(n + 1) :
        FlattenTo(tt)[i] = IF i = 1 THEN tt[i] ELSE FlattenTo(tt)[i - 1] \o tt[i]
  <2>1. \A i \in 1..Len(tt) :
          FlattenTo(tt)[i] = IF i = 1 THEN tt[i] ELSE FlattenTo(tt)[i - 1] \o tt[i]
    BY <1>1, FlattenUnrolls
  <2> QED
    BY <1>1, <2>1
<1> DEFINE N == {k \in Nat : k \in 1..n => FlattenTo(tt)[k] = FlattenTo(ss)[k]}
<1>4. 0 \in N
  OBVIOUS
<1>5. ASSUME NEW k \in Nat, k \in N
      PROVE  k + 1 \in N
  <2> SUFFICES ASSUME k + 1 \in 1..n PROVE FlattenTo(tt)[k + 1] = FlattenTo(ss)[k + 1]
    OBVIOUS
  <2>1. tt[k + 1] = ss[k + 1] /\ k + 1 \in 1..(n + 1)
    BY <1>1
  <2>2. CASE k = 0
    <3>1. k + 1 = 1
      BY <2>2
    <3> QED
      BY <1>2, <1>3, <2>1, <3>1
  <2>3. CASE k # 0
    <3>1. k \in 1..n /\ k + 1 # 1 /\ (k + 1) - 1 = k
      BY <1>1, <2>3
    <3>2. FlattenTo(tt)[k] = FlattenTo(ss)[k]
      BY <1>5, <3>1
    <3>3. /\ FlattenTo(tt)[k + 1] = FlattenTo(tt)[k] \o tt[k + 1]
          /\ FlattenTo(ss)[k + 1] = FlattenTo(ss)[k] \o ss[k + 1]
      BY <1>2, <1>3, <2>1, <3>1
    <3> QED
      BY <2>1, <3>2, <3>3
  <2> QED
    BY <2>2, <2>3
<1>6. Nat \subseteq N
  <2> HIDE DEF N
  <2> QED BY <1>4, <1>5, Induction
<1>7. FlattenSeq(tt) = FlattenTo(tt)[n + 1]
  <2>1. Len(tt) # 0
    BY <1>1
  <2> QED
    BY <1>1, <2>1, FlattenIsTo
<1>8. CASE n = 0
  <2>1. ss = <<>> /\ FlattenSeq(ss) = ss
    BY <1>8, FlattenIsTo, EmptySeq
  <2>2. FlattenTo(tt)[1] = tt[1] /\ n + 1 = 1 /\ tt[1] = u
    BY <1>1, <1>3, <1>8
  <2>3. <<>> \o u = u /\ <<>> \in Seq(S)
    BY ConcatEmptySeq, EmptySeq
  <2> QED
    BY <1>7, <2>1, <2>2, <2>3 DEF tt
<1>9. CASE n # 0
  <2>1. n \in 1..n /\ n + 1 \in 1..(n + 1) /\ n + 1 # 1 /\ (n + 1) - 1 = n
    BY <1>1, <1>9
  <2>2. FlattenSeq(ss) = FlattenTo(ss)[n]
    BY <1>9, FlattenIsTo
  <2>3. FlattenTo(tt)[n] = FlattenTo(ss)[n]
    BY <1>1, <1>6, <2>1
  <2>4. FlattenTo(tt)[n + 1] = FlattenTo(tt)[n] \o tt[n + 1]
    BY <1>3, <2>1
  <2> QED
    BY <1>1, <1>2, <1>7, <2>1, <2>2, <2>3, <2>4 DEF tt
<1> QED
  BY <1>8, <1>9

\* What f makes of the elements, one after the other.
All(f, s) == FlattenSeq(Mapped(f, s))

LEMMA AllNone ==
  ASSUME NEW f
  PROVE  All(f, <<>>) = <<>>
<1>1. Mapped(f, <<>>) = <<>>
  <2>1. DOMAIN <<>> = {}
    BY EmptySeq
  <2> QED
    BY <2>1 DEF Mapped
<1>2. <<>> \in Seq(Seq({}))
  BY EmptySeq
<1> QED
  BY <1>1, <1>2, FlattenIsTo DEF All

LEMMA AllGrows ==
  ASSUME NEW S, NEW T, NEW f, MapsInto(f, S, Seq(T)), NEW s \in Seq(S)
  PROVE  /\ All(f, s) \in Seq(T) /\ All(f, <<>>) = <<>>
         /\ \A e \in S : All(f, Append(s, e)) = All(f, s) \o f[e]
<1>1. <<>> \in Seq(T) /\ Mapped(f, s) \in Seq(Seq(T))
  BY EmptySeq, MappedSeq
<1>2. All(f, <<>>) = <<>>
  BY AllNone
<1>3. ASSUME NEW e \in S
      PROVE  All(f, Append(s, e)) = All(f, s) \o f[e]
  <2>1. f[e] \in Seq(T)
    BY DEF MapsInto
  <2>2. Mapped(f, Append(s, e)) = Append(Mapped(f, s), f[e])
    BY MappedAppend
  <2> QED
    BY <1>1, <2>1, <2>2, FlattenAppend DEF All
<1> QED
  BY <1>1, <1>2, <1>3, FlattenAppend DEF All

-----------------------------------------------------------------------------
(* Folding a sequence from the left, by a table of what each element makes *)
(* of a result.                                                            *)

IsTable(f, X, S) == X # {} /\ f \in [X -> [S -> X]]

FoldStep(f, x, s, g) == [n \in 0..Len(s) |-> IF n = 0 THEN x ELSE f[g[n - 1]][s[n]]]

FoldTo(f, x, s) == CHOOSE g : g = FoldStep(f, x, s, g)

Folded(f, x, s) == FoldTo(f, x, s)[Len(s)]

\* A recursive function that makes the same of its results as the table.
IsFold(f, x, s, g) ==
  g[0] = x /\ \A n \in 1..Len(s) : g[n] = f[g[n - 1]][s[n]]

LEMMA FoldExists ==
  ASSUME NEW X, NEW S, NEW f, IsTable(f, X, S), NEW x \in X, NEW s \in Seq(S)
  PROVE  \E g \in [0..Len(s) -> X] : g = FoldStep(f, x, s, g)
<1> DEFINE D == 0..Len(s)
           F == [g \in [D -> X] |-> FoldStep(f, x, s, g)]
           mu == [n \in D |-> n]
<1>1. Len(s) \in Nat /\ \A n \in 1..Len(s) : s[n] \in S
  BY LenProperties, ElementOfSeq
<1>2. X # {} /\ f \in [X -> [S -> X]]
  BY DEF IsTable
<1>3. Descends(F, D, mu, X)
  <2>1. mu \in [D -> Nat]
    BY <1>1
  <2>2. ASSUME NEW g \in [D -> X]
        PROVE  FoldStep(f, x, s, g) \in [D -> X]
    <3>1. ASSUME NEW n \in D
          PROVE  (IF n = 0 THEN x ELSE f[g[n - 1]][s[n]]) \in X
      <4>1. CASE n = 0
        BY <4>1
      <4>2. CASE n # 0
        <5>1. n - 1 \in D /\ n \in 1..Len(s)
          BY <1>1, <4>2
        <5>2. g[n - 1] \in X /\ s[n] \in S
          BY <1>1, <5>1
        <5> QED
          BY <1>2, <4>2, <5>2
      <4> QED
        BY <4>1, <4>2
    <3> QED
      BY <3>1 DEF FoldStep
  <2>3. ASSUME NEW g \in [D -> X], NEW h \in [D -> X], NEW n \in D,
               \A k \in D : mu[k] < mu[n] => g[k] = h[k]
        PROVE  FoldStep(f, x, s, g)[n] = FoldStep(f, x, s, h)[n]
    <3>1. CASE n = 0
      BY <3>1 DEF FoldStep
    <3>2. CASE n # 0
      <4>1. g[n - 1] = h[n - 1]
        BY <1>1, <2>3, <3>2
      <4> QED
        BY <3>2, <4>1 DEF FoldStep
    <3> QED
      BY <3>1, <3>2
  <2> HIDE DEF D, mu
  <2> QED
    BY <2>1, <2>2, <2>3 DEF Descends
<1>4. HasSolution(F, D, X)
  <2> HIDE DEF D, mu, F
  <2> QED BY <1>2, <1>3, Solution, Zenon
<1> QED
  BY <1>4 DEF HasSolution

LEMMA FoldToUnrolls ==
  ASSUME NEW X, NEW S, NEW f, IsTable(f, X, S), NEW x \in X, NEW s \in Seq(S)
  PROVE  IsFold(f, x, s, FoldTo(f, x, s))
<1> DEFINE g == FoldTo(f, x, s)
<1>1. \E h : h = FoldStep(f, x, s, h)
  BY FoldExists
<1>2. g = FoldStep(f, x, s, g)
  BY <1>1 DEF FoldTo
<1>3. Len(s) \in Nat /\ 0 \in 0..Len(s) /\ \A n \in 1..Len(s) : n \in 0..Len(s) /\ n # 0
  BY LenProperties
<1> HIDE DEF g
<1>4. \A n \in 0..Len(s) : g[n] = IF n = 0 THEN x ELSE f[g[n - 1]][s[n]]
  BY <1>2 DEF FoldStep
<1>5. IsFold(f, x, s, g)
  BY <1>3, <1>4 DEF IsFold
<1> QED
  BY <1>5 DEF g

\* Folds agree as far as their sequences do.
AreFolds(f, x, s, t, g, h, m) ==
  /\ m \in Nat /\ Len(s) \in Nat /\ Len(t) \in Nat /\ m <= Len(s) /\ m <= Len(t)
  /\ IsFold(f, x, s, g) /\ IsFold(f, x, t, h)
  /\ \A n \in 1..m : s[n] = t[n]

LEMMA FoldsAgree ==
  \A f, x, s, t, g, h, m : AreFolds(f, x, s, t, g, h, m) => g[m] = h[m]
<1> SUFFICES ASSUME NEW f, NEW x, NEW s, NEW t, NEW g, NEW h, NEW m,
                    AreFolds(f, x, s, t, g, h, m)
             PROVE  g[m] = h[m]
  OBVIOUS
<1> USE DEF AreFolds
<1> DEFINE N == {n \in Nat : n <= m => g[n] = h[n]}
<1>1. 0 \in N
  BY DEF IsFold
<1>2. ASSUME NEW n \in Nat, n \in N
      PROVE  n + 1 \in N
  <2> SUFFICES ASSUME n + 1 <= m PROVE g[n + 1] = h[n + 1]
    OBVIOUS
  <2>1. n + 1 \in 1..Len(s) /\ n + 1 \in 1..Len(t) /\ n + 1 \in 1..m /\ (n + 1) - 1 = n
    OBVIOUS
  <2>2. g[n] = h[n] /\ s[n + 1] = t[n + 1]
    BY <1>2, <2>1
  <2>3. g[n + 1] = f[g[n]][s[n + 1]] /\ h[n + 1] = f[h[n]][t[n + 1]]
    BY <2>1 DEF IsFold
  <2> QED
    BY <2>2, <2>3
<1>3. Nat \subseteq N
  <2> HIDE DEF N
  <2> QED BY <1>1, <1>2, Induction
<1> QED
  BY <1>3

\* Nothing, and one element more.
FoldUnrolls(f, x, S) ==
  /\ Folded(f, x, <<>>) = x
  /\ \A s \in Seq(S), e \in S : Folded(f, x, Append(s, e)) = f[Folded(f, x, s)][e]

LEMMA FoldedGrows ==
  ASSUME NEW X, NEW S, NEW f, IsTable(f, X, S), NEW x \in X
  PROVE  FoldUnrolls(f, x, S)
<1>1. Folded(f, x, <<>>) = x
  <2>1. <<>> \in Seq(S) /\ Len(<<>>) = 0
    BY EmptySeq
  <2>2. IsFold(f, x, <<>>, FoldTo(f, x, <<>>))
    BY <2>1, FoldToUnrolls
  <2> QED
    BY <2>1, <2>2 DEF IsFold, Folded
<1>2. ASSUME NEW s \in Seq(S), NEW e \in S
      PROVE  Folded(f, x, Append(s, e)) = f[Folded(f, x, s)][e]
  <2> DEFINE t == Append(s, e)
             g == FoldTo(f, x, s)
             h == FoldTo(f, x, t)
  <2>1. /\ t \in Seq(S) /\ Len(t) = Len(s) + 1 /\ Len(s) \in Nat
        /\ \A n \in 1..Len(s) : s[n] = t[n]
        /\ t[Len(s) + 1] = e
    BY AppendProperties, LenProperties
  <2> HIDE DEF t
  <2>2. IsFold(f, x, s, g) /\ IsFold(f, x, t, h)
    BY <2>1, FoldToUnrolls
  <2> HIDE DEF g, h
  <2>3. g[Len(s)] = h[Len(s)]
    <3>1. AreFolds(f, x, s, t, g, h, Len(s))
      BY <2>1, <2>2 DEF AreFolds
    <3> QED
      BY <3>1, FoldsAgree
  <2>4. h[Len(s) + 1] = f[h[Len(s)]][e]
    <3>1. Len(s) + 1 \in 1..Len(t) /\ (Len(s) + 1) - 1 = Len(s)
      BY <2>1
    <3> QED
      BY <2>1, <2>2, <3>1 DEF IsFold
  <2>5. Folded(f, x, t) = h[Len(s) + 1] /\ Folded(f, x, s) = g[Len(s)]
    BY <2>1 DEF Folded, g, h
  <2> QED
    BY <2>3, <2>4, <2>5 DEF t
<1> QED
  BY <1>1, <1>2 DEF FoldUnrolls

LEMMA FoldedType ==
  ASSUME NEW X, NEW S, NEW f, IsTable(f, X, S), NEW x \in X
  PROVE  \A s \in Seq(S) : Folded(f, x, s) \in X
<1> DEFINE T == {s \in Seq(S) : Folded(f, x, s) \in X}
<1>0. FoldUnrolls(f, x, S)
  BY FoldedGrows, Zenon
<1>1. <<>> \in T
  BY <1>0, EmptySeq DEF FoldUnrolls
<1>2. ASSUME NEW s \in Seq(S), NEW e \in S, s \in T
      PROVE  Append(s, e) \in T
  <2>1. Folded(f, x, Append(s, e)) = f[Folded(f, x, s)][e]
    BY <1>0 DEF FoldUnrolls
  <2>2. f[Folded(f, x, s)][e] \in X
    BY <1>2 DEF IsTable
  <2> QED
    BY <2>1, <2>2, AppendProperties
<1>3. Seq(S) \subseteq T
  <2> HIDE DEF T
  <2> QED BY <1>1, <1>2, AppendInduction
<1> QED
  BY <1>3

\* One sequence after the other.
LEMMA FoldedConcat ==
  ASSUME NEW X, NEW S, NEW f, IsTable(f, X, S), NEW x \in X, NEW s \in Seq(S)
  PROVE  \A t \in Seq(S) : Folded(f, x, s \o t) = Folded(f, Folded(f, x, s), t)
<1> DEFINE y == Folded(f, x, s)
           T == {t \in Seq(S) : Folded(f, x, s \o t) = Folded(f, y, t)}
<1>1. y \in X /\ FoldUnrolls(f, x, S)
  BY FoldedType, FoldedGrows, Zenon
<1> HIDE DEF y
<1>5. FoldUnrolls(f, y, S)
  BY <1>1, FoldedGrows, Zenon
<1>2. <<>> \in T
  <2>1. s \o <<>> = s /\ <<>> \in Seq(S)
    BY ConcatEmptySeq, EmptySeq
  <2>2. Folded(f, y, <<>>) = y
    BY <1>5 DEF FoldUnrolls
  <2> QED
    BY <2>1, <2>2 DEF y
<1>3. ASSUME NEW t \in Seq(S), NEW e \in S, t \in T
      PROVE  Append(t, e) \in T
  <2>1. s \o t \in Seq(S) /\ Append(t, e) \in Seq(S)
    BY ConcatProperties, AppendProperties
  <2>2. s \o Append(t, e) = Append(s \o t, e)
    <3>1. Append(t, e) = t \o <<e>> /\ Append(s \o t, e) = (s \o t) \o <<e>> /\ <<e>> \in Seq(S)
      BY <2>1, AppendIsConcat
    <3>2. IsRegrouped(s, t, <<e>>)
      BY <3>1, Regroup
    <3> QED
      BY <3>1, <3>2 DEF IsRegrouped
  <2>3. Folded(f, x, Append(s \o t, e)) = f[Folded(f, x, s \o t)][e]
    BY <1>1, <2>1 DEF FoldUnrolls
  <2>4. Folded(f, y, Append(t, e)) = f[Folded(f, y, t)][e]
    BY <1>5 DEF FoldUnrolls
  <2> QED
    BY <1>3, <2>1, <2>2, <2>3, <2>4
<1>4. Seq(S) \subseteq T
  <2> HIDE DEF T
  <2> QED BY <1>2, <1>3, AppendInduction
<1> QED
  BY <1>4 DEF y

\* What a recursive function over the positions comes to, if it makes the same
\* of each result in X as the table.
LEMMA FoldIsFolded ==
  ASSUME NEW X, NEW S, NEW f, IsTable(f, X, S), NEW x \in X, NEW s \in Seq(S), NEW g,
         g[0] = x, \A n \in 1..Len(s) : g[n - 1] \in X => g[n] = f[g[n - 1]][s[n]]
  PROVE  g[Len(s)] = Folded(f, x, s)
<1> DEFINE N == {n \in Nat : n <= Len(s) => g[n] \in X}
<1>1. Len(s) \in Nat /\ \A n \in 1..Len(s) : s[n] \in S
  BY LenProperties, ElementOfSeq
<1>2. 0 \in N
  OBVIOUS
<1>3. ASSUME NEW n \in Nat, n \in N
      PROVE  n + 1 \in N
  <2> SUFFICES ASSUME n + 1 <= Len(s) PROVE g[n + 1] \in X
    OBVIOUS
  <2>1. n + 1 \in 1..Len(s) /\ (n + 1) - 1 = n /\ g[n] \in X
    BY <1>1, <1>3
  <2>2. g[n + 1] = f[g[n]][s[n + 1]] /\ s[n + 1] \in S
    BY <1>1, <2>1
  <2> QED
    BY <2>1, <2>2 DEF IsTable
<1>4. Nat \subseteq N
  <2> HIDE DEF N
  <2> QED BY <1>2, <1>3, Induction
<1>5. \A n \in 1..Len(s) : n - 1 \in Nat /\ n - 1 <= Len(s)
  BY <1>1
<1>6. IsFold(f, x, s, g)
  BY <1>4, <1>5 DEF IsFold
<1>7. IsFold(f, x, s, FoldTo(f, x, s))
  BY FoldToUnrolls
<1> QED
  <2>1. AreFolds(f, x, s, s, g, FoldTo(f, x, s), Len(s))
    BY <1>1, <1>6, <1>7 DEF AreFolds
  <2>2. g[Len(s)] = FoldTo(f, x, s)[Len(s)]
    BY <2>1, FoldsAgree
  <2> QED
    BY <2>2 DEF Folded

-----------------------------------------------------------------------------
(* Machines.                                                               *)
(*                                                                         *)
(* A machine reads elements one by one: where an element takes it (goes)   *)
(* and what it says of it (says) depend on its state alone.                *)

IsMachine(m) ==
  /\ m.goes \in [m.states -> [m.reads -> m.states]]
  /\ m.says \in [m.states -> [m.reads -> Seq(m.tells)]]

RunStep(m, g) ==
  [s \in Seq(m.reads) |-> [q \in m.states |->
     IF s = <<>> THEN <<>> ELSE m.says[q][Head(s)] \o g[Tail(s)][m.goes[q][Head(s)]]]]

Runs(m) == [Seq(m.reads) -> [m.states -> Seq(m.tells)]]

RunOf(m) == CHOOSE g : g \in Runs(m) /\ g = RunStep(m, g)

\* What the machine says of s when it stands at q.
Told(m, q, s) == RunOf(m)[s][q]

\* Prefixing an element.
IsHeadAndTail(b, s) == Head(<<b>> \o s) = b /\ Tail(<<b>> \o s) = s /\ <<b>> \o s # <<>>

LEMMA Alone == \A S : \A b \in S : <<b>> \in Seq(S)
OBVIOUS

LEMMA Prefixed ==
  ASSUME NEW S, NEW b \in S, NEW s \in Seq(S)
  PROVE  IsHeadAndTail(b, s) /\ <<b>> \o s \in Seq(S)
<1> DEFINE t == <<b>> \o s
<1>1. <<b>> \in Seq(S) /\ Len(<<b>>) = 1 /\ <<b>>[1] = b
  OBVIOUS
<1>2. /\ t \in Seq(S) /\ Len(t) = 1 + Len(s) /\ Len(s) \in Nat
      /\ \A i \in 1..(1 + Len(s)) : t[i] = IF i <= 1 THEN <<b>>[i] ELSE s[i - 1]
  BY <1>1, ConcatProperties, LenProperties
<1> HIDE DEF t
<1>3. t # <<>> /\ t[1] = b
  BY <1>1, <1>2, EmptySeq
<1>4. /\ Tail(t) \in Seq(S) /\ Len(Tail(t)) = Len(s)
      /\ \A i \in 1..Len(Tail(t)) : Tail(t)[i] = t[i + 1]
  BY <1>2, <1>3, HeadTailProperties
<1>5. \A i \in 1..Len(Tail(t)) : Tail(t)[i] = s[i]
  BY <1>2, <1>4
<1>6. Tail(t) = s
  BY <1>4, <1>5, SeqEqual
<1>7. Head(t) = b
  BY <1>3
<1> QED
  BY <1>2, <1>3, <1>6, <1>7 DEF IsHeadAndTail, t

LEMMA RunExists ==
  ASSUME NEW m, IsMachine(m)
  PROVE  RunOf(m) \in Runs(m) /\ RunOf(m) = RunStep(m, RunOf(m))
<1> DEFINE Q == m.states
           A == m.reads
           E == m.tells
           D == Seq(A)
           X == [Q -> Seq(E)]
           F == [g \in [D -> X] |-> RunStep(m, g)]
           mu == [s \in D |-> Len(s)]
<1>1. X # {}
  <2>1. [q \in Q |-> <<>>] \in X
    BY EmptySeq
  <2> QED
    BY <2>1
<1>2. \A s \in D : s # <<>> => Head(s) \in A /\ Tail(s) \in D /\ mu[Tail(s)] < mu[s]
  BY HeadTailProperties, LenProperties
<1>3. Descends(F, D, mu, X)
  <2>1. mu \in [D -> Nat]
    BY LenProperties
  <2>2. ASSUME NEW g \in [D -> X]
        PROVE  RunStep(m, g) \in [D -> X]
    <3>1. ASSUME NEW s \in D, NEW q \in Q
          PROVE  (IF s = <<>> THEN <<>> ELSE m.says[q][Head(s)] \o g[Tail(s)][m.goes[q][Head(s)]])
                   \in Seq(E)
      <4>1. CASE s = <<>>
        BY <4>1, EmptySeq
      <4>2. CASE s # <<>>
        <5>1. m.says[q][Head(s)] \in Seq(E) /\ m.goes[q][Head(s)] \in Q
          <6>1. Head(s) \in A
            BY <1>2, <4>2
          <6>2. m.says \in [Q -> [A -> Seq(E)]] /\ m.goes \in [Q -> [A -> Q]]
            BY DEF IsMachine
          <6> HIDE DEF Q, A, E
          <6> QED
            BY <6>1, <6>2
        <5>2. g[Tail(s)][m.goes[q][Head(s)]] \in Seq(E)
          <6>1. g[Tail(s)] \in X
            <7>1. Tail(s) \in D
              BY <1>2, <4>2
            <7> QED
              BY <2>2, <7>1
          <6> QED
            BY <5>1, <6>1
        <5> QED
          BY <4>2, <5>1, <5>2, ConcatProperties
      <4> QED
        BY <4>1, <4>2
    <3> QED
      BY <3>1 DEF RunStep
  <2>3. ASSUME NEW g \in [D -> X], NEW h \in [D -> X], NEW s \in D,
               \A r \in D : mu[r] < mu[s] => g[r] = h[r]
        PROVE  RunStep(m, g)[s] = RunStep(m, h)[s]
    <3>1. CASE s = <<>>
      BY <3>1 DEF RunStep
    <3>2. CASE s # <<>>
      <4>1. g[Tail(s)] = h[Tail(s)]
        BY <1>2, <2>3, <3>2
      <4> QED
        BY <4>1 DEF RunStep
    <3> QED
      BY <3>1, <3>2
  <2> HIDE DEF D, X, mu
  <2> QED
    BY <2>1, <2>2, <2>3 DEF Descends
<1>4. HasSolution(F, D, X)
  <2> HIDE DEF D, X, mu, F
  <2> QED BY <1>1, <1>3, Solution, Zenon
<1>5. \E g : g \in Runs(m) /\ g = RunStep(m, g)
  BY <1>4 DEF HasSolution, Runs
<1> QED
  BY <1>5 DEF RunOf

\* What is told, element by element.
\* What the machine says is what its tables say, element by element.
ToldUnrolls(m, q) ==
  /\ Told(m, q, <<>>) = <<>>
  /\ \A s \in Seq(m.reads) : Told(m, q, s) \in Seq(m.tells)
  /\ \A b \in m.reads, s \in Seq(m.reads) :
       Told(m, q, <<b>> \o s) = m.says[q][b] \o Told(m, m.goes[q][b], s)

LEMMA ToldUnrolled ==
  ASSUME NEW m, IsMachine(m), NEW q \in m.states
  PROVE  ToldUnrolls(m, q)
<1> DEFINE g == RunOf(m)
<1>1. /\ \A s \in Seq(m.reads) : g[s][q] \in Seq(m.tells)
      /\ \A s \in Seq(m.reads) : g[s][q] =
           IF s = <<>> THEN <<>> ELSE m.says[q][Head(s)] \o g[Tail(s)][m.goes[q][Head(s)]]
  <2>1. \A s \in Seq(m.reads) : RunStep(m, g)[s][q] =
           IF s = <<>> THEN <<>> ELSE m.says[q][Head(s)] \o g[Tail(s)][m.goes[q][Head(s)]]
    BY DEF RunStep
  <2>2. g \in Runs(m) /\ g = RunStep(m, g)
    BY RunExists
  <2> HIDE DEF g
  <2> QED
    BY <2>1, <2>2 DEF Runs
<1>2. ASSUME NEW b \in m.reads, NEW s \in Seq(m.reads)
      PROVE  Told(m, q, <<b>> \o s) = m.says[q][b] \o Told(m, m.goes[q][b], s)
  <2> DEFINE t == <<b>> \o s
  <2>1. t \in Seq(m.reads) /\ t # <<>> /\ Head(t) = b /\ Tail(t) = s
    BY Prefixed DEF IsHeadAndTail
  <2> HIDE DEF t
  <2>2. g[t][q] = m.says[q][b] \o g[s][m.goes[q][b]]
    BY <1>1, <2>1
  <2> QED
    BY <2>2 DEF Told, t
<1> QED
  BY <1>1, <1>2, EmptySeq DEF Told, ToldUnrolls

LEMMA ToldOf ==
  ASSUME NEW m, IsMachine(m), NEW q \in m.states
  PROVE  /\ Told(m, q, <<>>) = <<>>
         /\ \A s \in Seq(m.reads) : Told(m, q, s) \in Seq(m.tells)
         /\ \A b \in m.reads, s \in Seq(m.reads) :
              Told(m, q, <<b>> \o s) = m.says[q][b] \o Told(m, m.goes[q][b], s)
<1>1. ToldUnrolls(m, q)
  BY ToldUnrolled, Zenon
<1> QED
  BY <1>1 DEF ToldUnrolls

\* From q on, the machine says u of s and stands at r then, whatever follows.
Leads(m, q, s, u, r) ==
  /\ s \in Seq(m.reads) /\ u \in Seq(m.tells)
  /\ \A x \in Seq(m.reads) : Told(m, q, s \o x) = u \o Told(m, r, x)

\* Nothing, one element, and one thing after the other.
LEMMA NothingLeads ==
  ASSUME NEW m, IsMachine(m), NEW q \in m.states
  PROVE  Leads(m, q, <<>>, <<>>, q)
<1>1. \A x \in Seq(m.reads) : <<>> \o x = x /\ Told(m, q, x) \in Seq(m.tells)
  BY ConcatEmptySeq, ToldOf
<1>2. \A x \in Seq(m.tells) : <<>> \o x = x
  BY ConcatEmptySeq
<1> QED
  BY <1>1, <1>2, EmptySeq DEF Leads

LEMMA OneLeads ==
  ASSUME NEW m, IsMachine(m), NEW q \in m.states, NEW b \in m.reads
  PROVE  Leads(m, q, <<b>>, m.says[q][b], m.goes[q][b]) /\ m.goes[q][b] \in m.states
<1>1. <<b>> \in Seq(m.reads)
  BY Alone, Zenon
<1>2. m.says[q][b] \in Seq(m.tells) /\ m.goes[q][b] \in m.states
  <2>1. /\ m.says \in [m.states -> [m.reads -> Seq(m.tells)]]
        /\ m.goes \in [m.states -> [m.reads -> m.states]]
    BY DEF IsMachine
  <2> QED
    BY <2>1
<1>3. \A x \in Seq(m.reads) : Told(m, q, <<b>> \o x) = m.says[q][b] \o Told(m, m.goes[q][b], x)
  <2>1. ToldUnrolls(m, q)
    BY ToldUnrolled, Zenon
  <2> QED
    BY <2>1 DEF ToldUnrolls
<1> QED
  BY <1>1, <1>2, <1>3 DEF Leads

LEMMA LeadsOn ==
  ASSUME NEW m, IsMachine(m), NEW q \in m.states, NEW p \in m.states, NEW r \in m.states,
         NEW s, NEW t, NEW u, NEW v, Leads(m, q, s, u, p), Leads(m, p, t, v, r)
  PROVE  Leads(m, q, s \o t, u \o v, r)
<1>1. s \in Seq(m.reads) /\ t \in Seq(m.reads) /\ u \in Seq(m.tells) /\ v \in Seq(m.tells)
  BY DEF Leads
<1>2. s \o t \in Seq(m.reads) /\ u \o v \in Seq(m.tells)
  BY <1>1, ConcatProperties
<1>3. ASSUME NEW x \in Seq(m.reads)
      PROVE  Told(m, q, (s \o t) \o x) = (u \o v) \o Told(m, r, x)
  <2>1. t \o x \in Seq(m.reads) /\ Told(m, r, x) \in Seq(m.tells)
    BY <1>1, ConcatProperties, ToldOf
  <2>2. IsRegrouped(s, t, x) /\ IsRegrouped(u, v, Told(m, r, x))
    BY <1>1, <2>1, Regroup
  <2>3. Told(m, q, s \o (t \o x)) = u \o Told(m, p, t \o x)
    BY <2>1 DEF Leads
  <2>4. Told(m, p, t \o x) = v \o Told(m, r, x)
    BY DEF Leads
  <2> QED
    BY <2>2, <2>3, <2>4 DEF IsRegrouped
<1> QED
  BY <1>2, <1>3 DEF Leads

\* The same where nothing is said of the first part.
LEMMA QuietlyLeadsOn ==
  ASSUME NEW m, IsMachine(m), NEW q \in m.states, NEW p \in m.states, NEW r \in m.states,
         NEW s, NEW t, NEW v, Leads(m, q, s, <<>>, p), Leads(m, p, t, v, r)
  PROVE  Leads(m, q, s \o t, v, r)
<1>1. Leads(m, q, s \o t, <<>> \o v, r)
  BY LeadsOn
<1>2. <<>> \o v = v
  BY ConcatEmptySeq DEF Leads
<1> QED
  BY <1>1, <1>2

LEMMA Joined ==
  ASSUME NEW S, NEW a \in S, NEW b \in S, NEW c \in S
  PROVE  <<a, b>> = <<a>> \o <<b>> /\ <<a, b, c>> = <<a, b>> \o <<c>>
<1>1. /\ <<a>> \in Seq(S) /\ <<a, b>> \in Seq(S) /\ <<a, b, c>> \in Seq(S)
  OBVIOUS
<1>2. Append(<<a>>, b) = <<a>> \o <<b>> /\ Append(<<a, b>>, c) = <<a, b>> \o <<c>>
  BY <1>1, AppendIsConcat
<1>3. <<a, b>> = Append(<<a>>, b)
  <2> DEFINE s == <<a, b>>
             t == Append(<<a>>, b)
  <2>1. s \in Seq(S) /\ Len(s) = 2 /\ s[1] = a /\ s[2] = b
    OBVIOUS
  <2>2. t \in Seq(S) /\ Len(t) = 2 /\ t[1] = a /\ t[2] = b
    <3>1. Len(<<a>>) = 1 /\ <<a>>[1] = a
      OBVIOUS
    <3> QED
      BY <1>1, <3>1, AppendProperties
  <2> HIDE DEF s, t
  <2>3. \A i \in 1..Len(s) : s[i] = t[i]
    BY <2>1, <2>2
  <2>4. s = t
    BY <2>1, <2>2, <2>3, SeqEqual
  <2> QED
    BY <2>4 DEF s, t
<1>4. <<a, b, c>> = Append(<<a, b>>, c)
  <2> DEFINE s == <<a, b, c>>
             t == Append(<<a, b>>, c)
  <2>1. s \in Seq(S) /\ Len(s) = 3 /\ s[1] = a /\ s[2] = b /\ s[3] = c
    OBVIOUS
  <2>2. t \in Seq(S) /\ Len(t) = 3 /\ t[1] = a /\ t[2] = b /\ t[3] = c
    <3>1. Len(<<a, b>>) = 2 /\ <<a, b>>[1] = a /\ <<a, b>>[2] = b
      OBVIOUS
    <3> QED
      BY <1>1, <3>1, AppendProperties
  <2> HIDE DEF s, t
  <2>3. \A i \in 1..Len(s) : s[i] = t[i]
    BY <2>1, <2>2
  <2>4. s = t
    BY <2>1, <2>2, <2>3, SeqEqual
  <2> QED
    BY <2>4 DEF s, t
<1> QED
  BY <1>2, <1>3, <1>4

\* Two or three elements, nothing said of any but the last.
LEMMA TwoLead ==
  ASSUME NEW m, IsMachine(m), NEW q \in m.states, NEW a \in m.reads, NEW b \in m.reads,
         NEW p \in m.states, m.goes[q][a] = p, m.says[q][a] = <<>>
  PROVE  Leads(m, q, <<a, b>>, m.says[p][b], m.goes[p][b])
<1>1. Leads(m, q, <<a>>, <<>>, p)
  BY OneLeads, Zenon
<1>2. Leads(m, p, <<b>>, m.says[p][b], m.goes[p][b]) /\ m.goes[p][b] \in m.states
  BY OneLeads, Zenon
<1>3. Leads(m, q, <<a>> \o <<b>>, m.says[p][b], m.goes[p][b])
  BY <1>1, <1>2, QuietlyLeadsOn
<1> QED
  BY <1>3, Joined

LEMMA ThreeLead ==
  ASSUME NEW m, IsMachine(m), NEW q \in m.states, NEW a \in m.reads, NEW b \in m.reads,
         NEW c \in m.reads, NEW p \in m.states, NEW r \in m.states,
         m.goes[q][a] = p, m.says[q][a] = <<>>, m.goes[p][b] = r, m.says[p][b] = <<>>
  PROVE  Leads(m, q, <<a, b, c>>, m.says[r][c], m.goes[r][c])
<1>1. Leads(m, q, <<a, b>>, <<>>, r)
  <2>1. Leads(m, q, <<a, b>>, m.says[p][b], m.goes[p][b])
    BY TwoLead
  <2> QED
    BY <2>1
<1>2. Leads(m, r, <<c>>, m.says[r][c], m.goes[r][c]) /\ m.goes[r][c] \in m.states
  BY OneLeads, Zenon
<1>3. Leads(m, q, <<a, b>> \o <<c>>, m.says[r][c], m.goes[r][c])
  BY <1>1, <1>2, QuietlyLeadsOn
<1>4. <<a, b, c>> = <<a, b>> \o <<c>>
  BY Joined
<1> QED
  BY <1>3, <1>4, Zenon

-----------------------------------------------------------------------------
(* What is flattened, from its first element on. *)

AllFirstIs(f, e, s) == All(f, <<e>> \o s) = f[e] \o All(f, s)

LEMMA AllFirst ==
  ASSUME NEW S, NEW T, NEW f, MapsInto(f, S, Seq(T)), NEW e \in S
  PROVE  \A s \in Seq(S) : AllFirstIs(f, e, s)
<1> DEFINE A == {s \in Seq(S) : AllFirstIs(f, e, s)}
<1>1. f[e] \in Seq(T) /\ <<e>> \in Seq(S) /\ <<>> \in Seq(S)
  BY EmptySeq, Alone DEF MapsInto
<1>0. ASSUME NEW s \in Seq(S), NEW x \in S
      PROVE  All(f, Append(s, x)) = All(f, s) \o f[x]
  BY AllGrows
<1>2. <<>> \in A
  <2>1. All(f, <<>>) = <<>>
    BY <1>1, AllGrows
  <2>2. All(f, Append(<<>>, e)) = All(f, <<>>) \o f[e]
    BY <1>0, <1>1, Zenon
  <2>3. Append(<<>>, e) = <<e>> /\ <<e>> \o <<>> = <<e>> /\ <<>> \o f[e] = f[e] /\ f[e] \o <<>> = f[e]
    BY <1>1, ConcatEmptySeq, AppendIsConcat
  <2>4. All(f, <<e>>) = f[e]
    BY <2>1, <2>2, <2>3, Zenon
  <2> QED
    BY <1>1, <2>1, <2>3, <2>4, Zenon DEF AllFirstIs
<1>3. ASSUME NEW s \in Seq(S), NEW x \in S, s \in A
      PROVE  Append(s, x) \in A
  <2>1. <<e>> \o s \in Seq(S) /\ Append(s, x) \in Seq(S)
    BY <1>1, ConcatProperties, AppendProperties
  <2>2. <<e>> \o Append(s, x) = Append(<<e>> \o s, x)
    <3>1. <<x>> \in Seq(S) /\ Append(s, x) = s \o <<x>> /\ Append(<<e>> \o s, x) = (<<e>> \o s) \o <<x>>
      BY <2>1, Alone, AppendIsConcat
    <3>2. IsRegrouped(<<e>>, s, <<x>>)
      BY <1>1, <3>1, Regroup
    <3> QED
      BY <3>1, <3>2, Zenon DEF IsRegrouped
  <2>3. All(f, Append(<<e>> \o s, x)) = All(f, <<e>> \o s) \o f[x]
    BY <1>0, <2>1, Zenon
  <2>4. All(f, Append(s, x)) = All(f, s) \o f[x]
    BY AllGrows
  <2>5. All(f, <<e>> \o s) = f[e] \o All(f, s)
    BY <1>3 DEF AllFirstIs
  <2>6. (f[e] \o All(f, s)) \o f[x] = f[e] \o (All(f, s) \o f[x])
    <3>1. All(f, s) \in Seq(T) /\ f[x] \in Seq(T)
      BY AllGrows DEF MapsInto
    <3>2. IsRegrouped(f[e], All(f, s), f[x])
      BY <1>1, <3>1, Regroup
    <3> QED
      BY <3>2 DEF IsRegrouped
  <2>7. All(f, <<e>> \o Append(s, x)) = f[e] \o All(f, Append(s, x))
    BY <2>2, <2>3, <2>4, <2>5, <2>6, Zenon
  <2> QED
    BY <2>1, <2>7 DEF AllFirstIs
<1>4. Seq(S) \subseteq A
  <2> HIDE DEF A
  <2> QED BY <1>2, <1>3, AppendInduction
<1> QED
  BY <1>4

\* A set of sequences that holds the empty one, and with each sequence all
\* that have one element in front of it.
LEMMA PrependInduction ==
  \A S, T : (/\ <<>> \in T
             /\ \A s \in Seq(S), e \in S : s \in T => <<e>> \o s \in T) => Seq(S) \subseteq T
<1> SUFFICES ASSUME NEW S, NEW T, <<>> \in T,
                    \A s \in Seq(S), e \in S : s \in T => <<e>> \o s \in T
             PROVE  Seq(S) \subseteq T
  OBVIOUS
<1> DEFINE N == {n \in Nat : \A s \in Seq(S) : Len(s) = n => s \in T}
<1>1. 0 \in N
  BY EmptySeq
<1>2. ASSUME NEW n \in Nat, n \in N
      PROVE  n + 1 \in N
  <2>1. ASSUME NEW s \in Seq(S), Len(s) = n + 1
        PROVE  s \in T
    <3>1. s # <<>>
      BY <2>1, EmptySeq
    <3>2. Head(s) \in S /\ Tail(s) \in Seq(S) /\ Len(Tail(s)) = Len(s) - 1
      BY <3>1, HeadTailProperties
    <3>3. s = <<Head(s)>> \o Tail(s)
      <4>1. Head(s) = s[1] /\ \A i \in 1..Len(Tail(s)) : Tail(s)[i] = s[i + 1]
        BY <3>1, HeadTailProperties
      <4>2. /\ <<Head(s)>> \o Tail(s) \in Seq(S) /\ Len(<<Head(s)>> \o Tail(s)) = 1 + Len(Tail(s))
            /\ (<<Head(s)>> \o Tail(s))[1] = Head(s)
            /\ \A i \in 1..Len(Tail(s)) : (<<Head(s)>> \o Tail(s))[1 + i] = Tail(s)[i]
        <5>1. <<Head(s)>> \in Seq(S) /\ Len(<<Head(s)>>) = 1 /\ <<Head(s)>>[1] = Head(s)
          BY <3>2
        <5> QED
          BY <3>2, <5>1, ConcatProperties
      <4> HIDE DEF N
      <4>3. ASSUME NEW i \in 1..Len(s)
            PROVE  s[i] = (<<Head(s)>> \o Tail(s))[i]
        <5>1. CASE i = 1
          BY <4>1, <4>2, <5>1
        <5>2. CASE i # 1
          <6>1. i - 1 \in 1..Len(Tail(s)) /\ 1 + (i - 1) = i /\ (i - 1) + 1 = i
            BY <2>1, <3>2, <5>2
          <6> QED
            BY <4>1, <4>2, <6>1
        <5> QED
          BY <5>1, <5>2
      <4>4. Len(s) = Len(<<Head(s)>> \o Tail(s))
        BY <2>1, <3>2, <4>2
      <4> QED
        BY <4>2, <4>3, <4>4, SeqEqual
    <3>4. Len(Tail(s)) = n
      BY <2>1, <3>2
    <3> QED
      BY <1>2, <3>2, <3>3, <3>4
  <2> QED
    BY <2>1
<1>3. Nat \subseteq N
  <2> HIDE DEF N
  <2> QED BY <1>1, <1>2, Induction
<1>4. \A s \in Seq(S) : Len(s) \in N
  BY <1>3, LenProperties
<1> QED
  BY <1>4
==============================================================================
