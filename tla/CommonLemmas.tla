---------------------------- MODULE CommonLemmas ----------------------------
(***************************************************************************)
(* Lemmas about numbers and sequences that the proofs of several           *)
(* components use.                                                         *)
(***************************************************************************)
EXTENDS Integers, Sequences, FiniteSets, Lists, SequencesExt, FiniteSetTheorems,
        SequenceTheorems, WellFoundedInduction, TLAPS

\* A set of numbers with 0 and the successor of each of its elements has them all.
LEMMA Induction ==
  ASSUME NEW T \in SUBSET Nat, 0 \in T, \A n \in T : n + 1 \in T
  PROVE  T = Nat
<1> SUFFICES ASSUME Nat \ T # {} PROVE FALSE
  OBVIOUS
<1> DEFINE R == OpToRel(<, Nat)
<1>1. IsWellFoundedOn(R, Nat)
  BY NatLessThanWellFounded, Zenon
<1>2. \A y \in Nat, x \in Nat : y < x => <<y, x>> \in R
  <2> TAKE y \in Nat, x \in Nat
  <2> HAVE y < x
  <2>1. <<y, x>> \in Nat \X Nat /\ <<y, x>>[1] = y /\ <<y, x>>[2] = x
    OBVIOUS
  <2> QED BY <2>1, Zenon DEF OpToRel
<1> HIDE DEF R
<1>3. PICK x \in Nat \ T : \A y \in Nat \ T : <<y, x>> \notin R
  BY <1>1, WFMin
<1>4. x # 0 /\ x - 1 \in Nat
  OBVIOUS
<1>5. x - 1 \in T
  <2>1. x - 1 < x
    OBVIOUS
  <2>2. <<x - 1, x>> \in R
    BY <1>2, <1>4, <2>1
  <2> QED BY <1>3, <1>4, <2>2
<1> QED BY <1>4, <1>5

\* A set of numbers up to some bound has a greatest one.
LEMMA MaxOfSet ==
  ASSUME NEW n \in Nat, NEW S \in SUBSET (1..n), S # {}
  PROVE  Max(S) \in S /\ \A y \in S : y <= Max(S)
<1> DEFINE Greatest(X) == \E x \in X : \A y \in X : x >= y
           T == {m \in Nat : \A X \in SUBSET (1..m) : X # {} => Greatest(X)}
<1>1. 0 \in T
  <2>1. 1..0 = {}
    OBVIOUS
  <2> HIDE DEF Greatest
  <2>2. \A X \in SUBSET (1..0) : X = {}
    BY <2>1
  <2> QED BY <2>2
<1>2. ASSUME NEW m \in T
      PROVE  m + 1 \in T
  <2> SUFFICES ASSUME NEW X \in SUBSET (1..(m + 1)), X # {} PROVE Greatest(X)
    OBVIOUS
  <2>1. CASE m + 1 \in X
    BY <2>1
  <2>2. CASE m + 1 \notin X
    <3>1. X \in SUBSET (1..m)
      BY <2>2
    <3> QED BY <3>1
  <2> QED BY <2>1, <2>2
<1> HIDE DEF T
<1>3. T \in SUBSET Nat
  BY DEF T
<1>4. T = Nat
  BY <1>1, <1>2, <1>3, Induction
<1>5. Greatest(S)
  BY <1>4 DEF T
<1> QED BY <1>5 DEF Max

\* How many elements of S come before x in the relation R.
RankIn(S, R, x) == Cardinality({y \in S : <<y, x>> \in R})

\* In a strict total order on a finite set, the ranks of its elements are the
\* numbers below its size, each once.
LEMMA Ranks ==
  ASSUME NEW S, IsFiniteSet(S), NEW R,
         \A x \in S : <<x, x>> \notin R,
         \A x, y, z \in S : <<x, y>> \in R /\ <<y, z>> \in R => <<x, z>> \in R,
         \A x, y \in S : x # y => <<x, y>> \in R \/ <<y, x>> \in R
  PROVE  /\ Cardinality(S) \in Nat
         /\ \A x \in S : RankIn(S, R, x) \in 0..(Cardinality(S) - 1)
         /\ \A x, y \in S : <<x, y>> \in R => RankIn(S, R, x) < RankIn(S, R, y)
         /\ \A k \in 0..(Cardinality(S) - 1) : \E x \in S : RankIn(S, R, x) = k
<1> DEFINE Below(x) == {y \in S : <<y, x>> \in R}
           n == Cardinality(S)
<1>1. n \in Nat
  BY FS_CardinalityType
<1>2. ASSUME NEW x \in S
      PROVE  IsFiniteSet(Below(x)) /\ RankIn(S, R, x) \in 0..(n - 1)
  <2>1. IsFiniteSet(Below(x)) /\ Cardinality(Below(x)) <= n
        /\ (n = Cardinality(Below(x)) => S = Below(x))
    BY FS_Subset
  <2>2. x \notin Below(x)
    OBVIOUS
  <2>3. Cardinality(Below(x)) # n
    BY <2>1, <2>2
  <2>4. Cardinality(Below(x)) \in Nat
    BY <2>1, FS_CardinalityType
  <2> QED BY <1>1, <2>1, <2>3, <2>4 DEF RankIn
<1>3. ASSUME NEW x \in S, NEW y \in S, <<x, y>> \in R
      PROVE  RankIn(S, R, x) < RankIn(S, R, y)
  <2>1. Below(x) \cup {x} \in SUBSET Below(y)
    BY <1>3
  <2>2. x \notin Below(x)
    OBVIOUS
  <2>3. IsFiniteSet(Below(x)) /\ IsFiniteSet(Below(y))
    BY <1>2
  <2>4. Cardinality(Below(x) \cup {x}) = Cardinality(Below(x)) + 1
    BY <2>2, <2>3, FS_AddElement
  <2>5. Cardinality(Below(x) \cup {x}) <= Cardinality(Below(y))
    BY <2>1, <2>3, FS_Subset
  <2>6. Cardinality(Below(x)) \in Nat /\ Cardinality(Below(y)) \in Nat
    BY <2>3, FS_CardinalityType
  <2> QED BY <2>4, <2>5, <2>6 DEF RankIn
<1>4. ASSUME NEW k \in 0..(n - 1), \A x \in S : RankIn(S, R, x) # k
      PROVE  FALSE
  <2> DEFINE T == (0..(n - 1)) \ {k}
             f == [x \in S |-> RankIn(S, R, x)]
  <2>1. IsFiniteSet(0..(n - 1)) /\ Cardinality(0..(n - 1)) = n
    BY <1>1, FS_Interval
  <2>2. IsFiniteSet(T) /\ Cardinality(T) = n - 1
    BY <2>1, FS_RemoveElement, ZenonT(30)
  <2>3. f \in [S -> T]
    BY <1>2, <1>4
  <2> HIDE DEF T
  <2>4. \E x, y \in S : x # y /\ f[x] = f[y]
    <3> HIDE DEF f
    <3> QED BY <1>1, <2>2, <2>3, FS_PigeonHole
  <2>5. PICK x \in S, y \in S : x # y /\ f[x] = f[y]
    BY <2>4
  <2>6. RankIn(S, R, x) < RankIn(S, R, y) \/ RankIn(S, R, y) < RankIn(S, R, x)
    BY <1>3, <2>5
  <2>7. RankIn(S, R, x) = RankIn(S, R, y)
    BY <2>5
  <2>8. RankIn(S, R, x) \in 0..(n - 1)
    BY <1>2, <2>5
  <2> HIDE DEF n
  <2> QED BY <1>1, <2>6, <2>7, <2>8
<1> QED BY <1>1, <1>2, <1>3, <1>4

\* Ascending lists the numbers of a finite set, each once and in their order.
LEMMA AscendingOrder ==
  ASSUME NEW S \in SUBSET Int, IsFiniteSet(S)
  PROVE  /\ Cardinality(S) \in Nat
         /\ DOMAIN Ascending(S) = 1..Cardinality(S)
         /\ Len(Ascending(S)) = Cardinality(S)
         /\ Ascending(S) \in Seq(S)
         /\ \A k \in 1..Cardinality(S) : Ascending(S)[k] \in S
         /\ \A i, j \in 1..Cardinality(S) : i < j => Ascending(S)[i] < Ascending(S)[j]
         /\ \A x \in S : \E k \in 1..Cardinality(S) : Ascending(S)[k] = x
<1> DEFINE R == {p \in S \X S : p[1] < p[2]}
           n == Cardinality(S)
           A == Ascending(S)
<1>1. \A x, y \in S : <<x, y>> \in R <=> x < y
  OBVIOUS
<1>2. \A x \in S : {y \in S : <<y, x>> \in R} = {y \in S : y < x}
  BY <1>1
<1>3. \A x \in S : RankIn(S, R, x) = Cardinality({y \in S : y < x})
  BY <1>2 DEF RankIn
<1> HIDE DEF R
<1>4. /\ n \in Nat
      /\ \A x \in S : RankIn(S, R, x) \in 0..(n - 1)
      /\ \A x, y \in S : x < y => RankIn(S, R, x) < RankIn(S, R, y)
      /\ \A k \in 0..(n - 1) : \E x \in S : RankIn(S, R, x) = k
  <2>1. \A x \in S : <<x, x>> \notin R
    BY <1>1
  <2>2. \A x, y, z \in S : <<x, y>> \in R /\ <<y, z>> \in R => <<x, z>> \in R
    BY <1>1
  <2>3. \A x, y \in S : x # y => <<x, y>> \in R \/ <<y, x>> \in R
    BY <1>1
  <2> QED BY <1>1, <2>1, <2>2, <2>3, Ranks
<1>5. DOMAIN A = 1..n
  BY DEF Ascending
<1>6. ASSUME NEW k \in 1..n
      PROVE  A[k] \in S /\ RankIn(S, R, A[k]) = k - 1
  <2>1. k - 1 \in 0..(n - 1)
    BY <1>4
  <2>2. \E x \in S : Cardinality({y \in S : y < x}) = k - 1
    BY <1>3, <1>4, <2>1
  <2>3. A[k] = CHOOSE x \in S : Cardinality({y \in S : y < x}) = k - 1
    BY DEF Ascending
  <2>4. A[k] \in S /\ Cardinality({y \in S : y < A[k]}) = k - 1
    BY <2>2, <2>3
  <2> QED BY <1>3, <2>4
<1> HIDE DEF A, n
<1>7. ASSUME NEW i \in 1..n, NEW j \in 1..n, i < j
      PROVE  A[i] < A[j]
  <2>1. /\ A[i] \in S /\ RankIn(S, R, A[i]) = i - 1
        /\ A[j] \in S /\ RankIn(S, R, A[j]) = j - 1
    BY <1>6
  <2>2. ~(A[j] < A[i])
    <3>1. A[j] < A[i] => RankIn(S, R, A[j]) < RankIn(S, R, A[i])
      BY <1>4, <2>1
    <3>2. ~(j - 1 < i - 1)
      BY <1>4, <1>7
    <3> QED BY <2>1, <3>1, <3>2
  <2>3. A[i] # A[j]
    <3>1. i - 1 # j - 1
      BY <1>4, <1>7
    <3> QED BY <2>1, <3>1
  <2>4. A[i] \in Int /\ A[j] \in Int
    BY <2>1
  <2> QED BY <2>2, <2>3, <2>4
<1>8. ASSUME NEW x \in S
      PROVE  \E k \in 1..n : A[k] = x
  <2>1. RankIn(S, R, x) \in 0..(n - 1)
    BY <1>4
  <2>2. PICK k \in 1..n : k = RankIn(S, R, x) + 1
    BY <1>4, <2>1
  <2>3. A[k] \in S /\ RankIn(S, R, A[k]) = RankIn(S, R, x)
    BY <1>6, <2>1, <2>2
  <2>4. ~(A[k] < x) /\ ~(x < A[k])
    <3>1. /\ A[k] < x => RankIn(S, R, A[k]) < RankIn(S, R, x)
          /\ x < A[k] => RankIn(S, R, x) < RankIn(S, R, A[k])
      BY <1>4, <2>3
    <3>2. RankIn(S, R, x) \in Int
      BY <1>4, <2>1
    <3>3. ~(RankIn(S, R, x) < RankIn(S, R, x))
      BY <3>2
    <3> QED BY <2>3, <3>1, <3>3
  <2>5. A[k] \in Int /\ x \in Int
    BY <2>3
  <2> QED BY <2>4, <2>5
<1>9. A = [k \in 1..n |-> A[k]] /\ Len(A) = n /\ A \in Seq(S)
  <2>1. A = [k \in 1..n |-> A[k]]
    BY SMTT(30) DEF A, n, Ascending
  <2>2. A \in [1..n -> S]
    BY <1>6, <2>1
  <2> QED BY <1>4, <2>1, <2>2
<1> QED BY <1>4, <1>5, <1>6, <1>7, <1>8, <1>9 DEF A, n

\* What s has at some of its positions is a list of its elements.
LEMMA PickedIsSeq ==
  ASSUME NEW X, NEW s \in Seq(X), NEW P \in SUBSET DOMAIN s
  PROVE  /\ IsFiniteSet(P) /\ Cardinality(P) \in Nat
         /\ Picked(s, P) \in Seq(X)
         /\ Len(Picked(s, P)) = Cardinality(P)
         /\ DOMAIN Picked(s, P) = 1..Cardinality(P)
         /\ \A k \in 1..Cardinality(P) :
              /\ Picked(s, P)[k] = s[Ascending(P)[k]]
              /\ Ascending(P)[k] \in P
         /\ \A i, j \in 1..Cardinality(P) : i # j => Ascending(P)[i] # Ascending(P)[j]
         /\ \A x \in P : \E k \in 1..Cardinality(P) :
              Ascending(P)[k] = x /\ Picked(s, P)[k] = s[x]
<1>1. P \in SUBSET (1..Len(s)) /\ Len(s) \in Nat
  OBVIOUS
<1>2. IsFiniteSet(1..Len(s))
  BY <1>1, FS_Interval
<1>3. IsFiniteSet(P) /\ P \in SUBSET Int
  BY <1>1, <1>2, FS_Subset
<1> DEFINE n == Cardinality(P)
           A == Ascending(P)
<1>4. /\ n \in Nat /\ DOMAIN A = 1..n
      /\ \A k \in 1..n : A[k] \in P
      /\ \A i, j \in 1..n : i < j => A[i] < A[j]
      /\ \A x \in P : \E k \in 1..n : A[k] = x
  BY <1>3, AscendingOrder
<1> HIDE DEF n, A
<1>5. Picked(s, P) = [k \in 1..n |-> s[A[k]]]
  BY <1>4 DEF Picked, A
<1>6. \A k \in 1..n : s[A[k]] \in X
  BY <1>4
<1>7. Picked(s, P) \in [1..n -> X]
  BY <1>5, <1>6
<1>8. \A i, j \in 1..n : i # j => A[i] # A[j]
  <2> TAKE i \in 1..n, j \in 1..n
  <2> HAVE i # j
  <2>1. i < j \/ j < i
    BY <1>4
  <2>2. A[i] \in Int /\ A[j] \in Int
    BY <1>3, <1>4
  <2> QED BY <1>4, <2>1, <2>2
<1>9. \A x \in P : \E k \in 1..n : A[k] = x /\ Picked(s, P)[k] = s[x]
  BY <1>4, <1>5
<1> QED BY <1>3, <1>4, <1>5, <1>7, <1>8, <1>9 DEF A, n

\* A run p of N steps of the step function h from a first value.
IsRun(p, first, h, N) == p[0] = first /\ \A i \in 1..N : p[i] = h[i][p[i - 1]]

\* Primitive recursion: a first value and a step function have a run of any length.
LEMMA PrimitiveRecursion ==
  ASSUME NEW Y, NEW first \in Y, NEW h \in [Nat -> [Y -> Y]], NEW N \in Nat
  PROVE  \E p \in [0..N -> Y] : IsRun(p, first, h, N)
<1> DEFINE Run(p, n) == p[0] = first /\ \A i \in 1..n : p[i] = h[i][p[i - 1]]
           T == {n \in Nat : \E p \in [0..n -> Y] : Run(p, n)}
<1>1. 0 \in T
  <2> DEFINE p == [i \in 0..0 |-> first]
  <2>1. p \in [0..0 -> Y] /\ Run(p, 0)
    OBVIOUS
  <2> QED BY <2>1
<1>2. ASSUME NEW n \in T
      PROVE  n + 1 \in T
  <2>1. PICK p \in [0..n -> Y] : Run(p, n)
    OBVIOUS
  <2> DEFINE last == h[n + 1][p[n]]
             q == [i \in 0..(n + 1) |-> IF i = n + 1 THEN last ELSE p[i]]
  <2>2. last \in Y
    <3>1. n + 1 \in Nat /\ p[n] \in Y
      OBVIOUS
    <3> QED BY <3>1
  <2>3. q \in [0..(n + 1) -> Y]
    <3> HIDE DEF last
    <3> QED BY <2>2
  <2>4. q[0] = first
    BY <2>1
  <2>5. \A i \in 1..(n + 1) : q[i] = h[i][q[i - 1]]
    <3> TAKE i \in 1..(n + 1)
    <3>1. CASE i = n + 1
      <4>1. q[i] = last /\ q[i - 1] = p[n]
        BY <3>1
      <4> QED BY <3>1, <4>1
    <3>2. CASE i # n + 1
      <4>1. i \in 1..n /\ q[i] = p[i] /\ q[i - 1] = p[i - 1]
        BY <3>2
      <4> QED BY <2>1, <4>1
    <3> QED BY <3>1, <3>2
  <2>6. Run(q, n + 1)
    BY <2>4, <2>5
  <2> HIDE DEF q, Run
  <2> QED BY <2>3, <2>6
<1> HIDE DEF T
<1>3. T = Nat
  <2>1. T \in SUBSET Nat
    BY DEF T
  <2> QED BY <1>1, <1>2, <2>1, Induction
<1> QED BY <1>3 DEF T, IsRun

\* FlattenSeq as a running concatenation.
LEMMA FlattenRuns ==
  ASSUME NEW X, NEW ss \in Seq(Seq(X))
  PROVE  \E p \in [0..Len(ss) -> Seq(X)] :
           /\ p[0] = <<>>
           /\ \A i \in 1..Len(ss) : p[i] = p[i - 1] \o ss[i]
           /\ FlattenSeq(ss) = p[Len(ss)]
<1> DEFINE N == Len(ss)
           h == [i \in Nat |-> [q \in Seq(X) |->
                   IF i \in 1..N THEN q \o ss[i] ELSE <<>>]]
<1>1. N \in Nat /\ \A i \in 1..N : ss[i] \in Seq(X)
  OBVIOUS
<1> HIDE DEF N
<1>2. h \in [Nat -> [Seq(X) -> Seq(X)]]
  BY <1>1
<1>3. <<>> \in Seq(X)
  OBVIOUS
<1>4. PICK p \in [0..N -> Seq(X)] :
        p[0] = <<>> /\ \A i \in 1..N : p[i] = h[i][p[i - 1]]
  <2> DEFINE Y == Seq(X)
             none == <<>>
  <2>1. none \in Y /\ h \in [Nat -> [Y -> Y]]
    BY <1>2, <1>3
  <2> HIDE DEF h, Y, none
  <2>2. \E p \in [0..N -> Y] : IsRun(p, none, h, N)
    BY <1>1, <2>1, PrimitiveRecursion
  <2> QED BY <2>2 DEF Y, none, IsRun
<1>5. \A i \in 1..N : p[i] = p[i - 1] \o ss[i]
  <2> TAKE i \in 1..N
  <2>1. i \in Nat /\ p[i - 1] \in Seq(X)
    BY <1>1
  <2> QED BY <1>4, <2>1
<1> HIDE DEF h
<1>6. FlattenSeq(ss) = p[N]
  <2>1. CASE N = 0
    <3>1. ss = <<>>
      BY <2>1 DEF N
    <3> QED BY <1>4, <2>1, <3>1 DEF FlattenSeq, N
  <2>2. CASE N # 0
    <3> DEFINE Runs(f) == f = [i \in 1..N |-> IF i = 1 THEN ss[i] ELSE f[i - 1] \o ss[i]]
               g == CHOOSE f : Runs(f)
    <3>1. Runs([i \in 1..N |-> p[i]])
      <4> DEFINE r == [i \in 1..N |-> p[i]]
      <4>1. \A i \in 1..N : p[i] = IF i = 1 THEN ss[i] ELSE r[i - 1] \o ss[i]
        <5> TAKE i \in 1..N
        <5>1. CASE i = 1
          <6>1. p[i] = <<>> \o ss[i]
            <7>1. p[i] = p[i - 1] \o ss[i]
              BY <1>5
            <7>2. i - 1 = 0
              BY <5>1
            <7> QED BY <1>4, <7>1, <7>2
          <6> QED BY <1>1, <5>1, <6>1
        <5>2. CASE i # 1
          <6>1. i - 1 \in 1..N /\ r[i - 1] = p[i - 1]
            BY <1>1, <5>2
          <6> QED BY <1>5, <5>2, <6>1
        <5> QED BY <5>1, <5>2
      <4>2. r = [i \in 1..N |-> IF i = 1 THEN ss[i] ELSE r[i - 1] \o ss[i]]
        <5> HIDE DEF r
        <5>1. r = [i \in 1..N |-> p[i]]
          BY DEF r
        <5> QED BY <4>1, <5>1
      <4> QED BY <4>2
    <3>2. Runs(g)
      <4> HIDE DEF Runs
      <4> QED BY <3>1
    <3>3. FlattenSeq(ss) = g[N]
      BY <2>2 DEF FlattenSeq, N
    <3> DEFINE T == {i \in Nat : i + 1 \in 1..N => g[i + 1] = p[i + 1]}
    <3>4. 0 \in T
      <4>1. 1 \in 1..N /\ 1 - 1 = 0 /\ 0 + 1 = 1
        BY <1>1, <2>2
      <4>2. g[1] = ss[1]
        <5> HIDE DEF g
        <5> QED BY <3>2, <4>1
      <4>3. p[1] = <<>> \o ss[1]
        <5>1. p[1] = p[1 - 1] \o ss[1]
          BY <1>5, <4>1
        <5> QED BY <1>4, <4>1, <5>1
      <4>4. ss[1] \in Seq(X)
        BY <1>1, <4>1
      <4>5. g[1] = p[1]
        <5> HIDE DEF g
        <5> QED BY <4>2, <4>3, <4>4
      <4> HIDE DEF g
      <4> QED BY <4>1, <4>5
    <3>5. ASSUME NEW i \in T
          PROVE  i + 1 \in T
      <4> SUFFICES ASSUME (i + 1) + 1 \in 1..N PROVE g[(i + 1) + 1] = p[(i + 1) + 1]
        OBVIOUS
      <4>1. i + 1 \in 1..N /\ (i + 1) + 1 # 1 /\ ((i + 1) + 1) - 1 = i + 1
        BY <1>1
      <4>2. g[i + 1] = p[i + 1]
        BY <4>1
      <4>3. g[(i + 1) + 1] = g[i + 1] \o ss[(i + 1) + 1]
        <5> HIDE DEF g
        <5> QED BY <3>2, <4>1
      <4>4. p[(i + 1) + 1] = p[i + 1] \o ss[(i + 1) + 1]
        BY <1>5, <4>1
      <4> HIDE DEF g
      <4> QED BY <4>2, <4>3, <4>4
    <3> HIDE DEF T
    <3>6. T = Nat
      <4>1. T \in SUBSET Nat
        BY DEF T
      <4> QED BY <3>4, <3>5, <4>1, Induction
    <3>7. N - 1 \in Nat /\ (N - 1) + 1 = N /\ N \in 1..N
      BY <1>1, <2>2
    <3>8. g[N] = p[N]
      <4>1. N - 1 \in T
        BY <3>6, <3>7
      <4> HIDE DEF g
      <4> QED BY <3>7, <4>1 DEF T
    <3> QED BY <3>3, <3>8
  <2> QED BY <2>1, <2>2
<1> QED BY <1>4, <1>5, <1>6 DEF N

\* What FlattenSeq makes of lists of elements of X is one.
LEMMA FlattenIsSeq ==
  ASSUME NEW X, NEW ss \in Seq(Seq(X))
  PROVE  FlattenSeq(ss) \in Seq(X)
<1>1. PICK p \in [0..Len(ss) -> Seq(X)] : FlattenSeq(ss) = p[Len(ss)]
  BY FlattenRuns
<1> QED BY <1>1

\* FlattenSeq of no list, and of one.
LEMMA FlattenSmall ==
  ASSUME NEW X, NEW s \in Seq(X)
  PROVE  FlattenSeq(<<>>) = <<>> /\ FlattenSeq(<<s>>) = s
<1>1. FlattenSeq(<<>>) = <<>>
  BY DEF FlattenSeq
<1>2. <<s>> \in Seq(Seq(X)) /\ Len(<<s>>) = 1 /\ <<s>>[1] = s
  OBVIOUS
<1>3. PICK p \in [0..1 -> Seq(X)] :
        p[0] = <<>> /\ p[1] = p[0] \o s /\ FlattenSeq(<<s>>) = p[1]
  <2>1. PICK p \in [0..Len(<<s>>) -> Seq(X)] :
           /\ p[0] = <<>>
           /\ \A i \in 1..Len(<<s>>) : p[i] = p[i - 1] \o <<s>>[i]
           /\ FlattenSeq(<<s>>) = p[Len(<<s>>)]
    BY <1>2, FlattenRuns
  <2>2. 1 \in 1..1 /\ 1 - 1 = 0
    OBVIOUS
  <2>3. p[1] = p[0] \o s
    BY <1>2, <2>1, <2>2
  <2> QED BY <1>2, <2>1, <2>3
<1> QED BY <1>1, <1>3

\* FlattenSeq goes with concatenation.
LEMMA FlattenConcat ==
  ASSUME NEW X, NEW a \in Seq(Seq(X)), NEW b \in Seq(Seq(X))
  PROVE  FlattenSeq(a \o b) = FlattenSeq(a) \o FlattenSeq(b)
<1> DEFINE M == Len(a)
           N == Len(b)
           c == a \o b
<1>1. /\ M \in Nat /\ N \in Nat /\ c \in Seq(Seq(X)) /\ Len(c) = M + N
      /\ \A i \in 1..M : c[i] = a[i]
      /\ \A j \in 1..N : c[M + j] = b[j]
      /\ \A j \in 1..N : b[j] \in Seq(X)
  OBVIOUS
<1>2. PICK p \in [0..M -> Seq(X)] :
        /\ p[0] = <<>>
        /\ \A i \in 1..M : p[i] = p[i - 1] \o a[i]
        /\ FlattenSeq(a) = p[M]
  BY FlattenRuns
<1>3. PICK q \in [0..N -> Seq(X)] :
        /\ q[0] = <<>>
        /\ \A i \in 1..N : q[i] = q[i - 1] \o b[i]
        /\ FlattenSeq(b) = q[N]
  BY FlattenRuns
<1> HIDE DEF M, N, c
<1>4. PICK r \in [0..(M + N) -> Seq(X)] :
        /\ r[0] = <<>>
        /\ \A i \in 1..(M + N) : r[i] = r[i - 1] \o c[i]
        /\ FlattenSeq(c) = r[M + N]
  <2>1. PICK r \in [0..Len(c) -> Seq(X)] :
          /\ r[0] = <<>>
          /\ \A i \in 1..Len(c) : r[i] = r[i - 1] \o c[i]
          /\ FlattenSeq(c) = r[Len(c)]
    BY <1>1, FlattenRuns
  <2> QED BY <1>1, <2>1
<1> DEFINE T == {i \in Nat : i <= M => r[i] = p[i]}
           U == {j \in Nat : j <= N => r[M + j] = p[M] \o q[j]}
<1>5. T = Nat
  <2>1. 0 \in T
    BY <1>2, <1>4
  <2>2. ASSUME NEW i \in T
        PROVE  i + 1 \in T
    <3> SUFFICES ASSUME i + 1 <= M PROVE r[i + 1] = p[i + 1]
      OBVIOUS
    <3>1. i + 1 \in 1..M /\ i + 1 \in 1..(M + N) /\ (i + 1) - 1 = i /\ i <= M
      BY <1>1
    <3>2. r[i + 1] = r[i] \o c[i + 1]
      BY <1>4, <3>1
    <3>3. p[i + 1] = p[i] \o a[i + 1]
      BY <1>2, <3>1
    <3> QED BY <1>1, <3>1, <3>2, <3>3
  <2>3. T \in SUBSET Nat
    OBVIOUS
  <2> HIDE DEF T
  <2> QED BY <2>1, <2>2, <2>3, Induction
<1>6. r[M] = p[M]
  <2>1. M \in T
    BY <1>1, <1>5
  <2> QED BY <1>1, <2>1
<1>7. p[M] \in Seq(X)
  BY <1>1
<1>8. U = Nat
  <2>1. 0 \in U
    <3>1. r[M + 0] = p[M] \o <<>>
      BY <1>1, <1>6, <1>7
    <3> QED BY <1>3, <3>1
  <2>2. ASSUME NEW j \in U
        PROVE  j + 1 \in U
    <3>0. j \in Nat /\ j + 1 \in Nat
      OBVIOUS
    <3> SUFFICES ASSUME j + 1 <= N PROVE r[M + (j + 1)] = p[M] \o q[j + 1]
      BY <3>0
    <3>1. /\ j + 1 \in 1..N /\ M + (j + 1) \in 1..(M + N)
          /\ (j + 1) - 1 = j /\ (M + (j + 1)) - 1 = M + j /\ j <= N /\ j \in 0..N
      BY <1>1
    <3>2. r[M + (j + 1)] = r[M + j] \o c[M + (j + 1)]
      BY <1>4, <3>1
    <3>3. r[M + (j + 1)] = (p[M] \o q[j]) \o b[j + 1]
      BY <1>1, <3>1, <3>2
    <3>4. q[j + 1] = q[j] \o b[j + 1]
      BY <1>3, <3>1
    <3>5. q[j] \in Seq(X) /\ b[j + 1] \in Seq(X)
      BY <1>1, <3>1
    <3>6. (p[M] \o q[j]) \o b[j + 1] = p[M] \o (q[j] \o b[j + 1])
      <4> DEFINE x == p[M]
                 y == q[j]
                 z == b[j + 1]
      <4>1. x \in Seq(X) /\ y \in Seq(X) /\ z \in Seq(X)
        BY <1>7, <3>5
      <4> HIDE DEF x, y, z
      <4>2. (x \o y) \o z = x \o (y \o z)
        BY <4>1, SMTT(30)
      <4> QED BY <4>2 DEF x, y, z
    <3> QED BY <3>3, <3>4, <3>6
  <2>3. U \in SUBSET Nat
    OBVIOUS
  <2> HIDE DEF U
  <2> QED BY <2>1, <2>2, <2>3, Induction
<1>9. r[M + N] = p[M] \o q[N]
  <2>1. N \in U
    BY <1>1, <1>8
  <2> QED BY <1>1, <2>1, SMTT(30)
<1> QED BY <1>2, <1>3, <1>4, <1>9 DEF c

\* The positions of two lists one after the other.
Joined(a, b, c) ==
  /\ Len(a) \in Nat /\ Len(b) \in Nat /\ Len(c) = Len(a) + Len(b)
  /\ DOMAIN a = 1..Len(a) /\ DOMAIN b = 1..Len(b) /\ DOMAIN c = 1..Len(c)
  /\ \A k \in 1..Len(a) : c[k] = a[k] /\ k \in 1..Len(c)
  /\ \A k \in 1..Len(b) : c[Len(a) + k] = b[k] /\ Len(a) + k \in 1..Len(c)
  /\ \A k \in 1..Len(c) : k \in 1..Len(a) \/ \E j \in 1..Len(b) : k = Len(a) + j

LEMMA ConcatParts ==
  ASSUME NEW S, NEW a \in Seq(S), NEW b \in Seq(S), NEW c, c = a \o b
  PROVE  c \in Seq(S) /\ Joined(a, b, c)
<1>1. /\ c \in Seq(S) /\ Len(a) \in Nat /\ Len(b) \in Nat /\ Len(c) = Len(a) + Len(b)
      /\ DOMAIN a = 1..Len(a) /\ DOMAIN b = 1..Len(b) /\ DOMAIN c = 1..Len(c)
  OBVIOUS
<1>2. \A k \in 1..Len(a) : c[k] = a[k] /\ k \in 1..Len(c)
  OBVIOUS
<1>3. \A k \in 1..Len(b) : c[Len(a) + k] = b[k] /\ Len(a) + k \in 1..Len(c)
  OBVIOUS
<1>4. ASSUME NEW k \in 1..Len(c), k \notin 1..Len(a)
      PROVE  \E j \in 1..Len(b) : k = Len(a) + j
  <2> DEFINE m == Len(a)
             n == Len(b)
  <2>1. m \in Nat /\ n \in Nat /\ k \in 1..(m + n) /\ k \notin 1..m
    BY <1>1, <1>4
  <2> HIDE DEF m, n
  <2>2. k - m \in 1..n /\ k = m + (k - m)
    BY <2>1
  <2> QED BY <2>2 DEF m, n
<1> QED BY <1>1, <1>2, <1>3, <1>4 DEF Joined

\* A list in two parts.
LEMMA SplitAt ==
  ASSUME NEW S, NEW s \in Seq(S), NEW k \in 0..Len(s)
  PROVE  /\ SubSeq(s, 1, k) \in Seq(S) /\ Len(SubSeq(s, 1, k)) = k
         /\ SubSeq(s, k + 1, Len(s)) \in Seq(S)
         /\ Len(SubSeq(s, k + 1, Len(s))) = Len(s) - k
         /\ s = SubSeq(s, 1, k) \o SubSeq(s, k + 1, Len(s))
<1> DEFINE n == Len(s)
           x == SubSeq(s, 1, k)
           y == SubSeq(s, k + 1, n)
<1>1. n \in Nat /\ k \in 0..n /\ k \in Nat
  OBVIOUS
<1>2. x \in Seq(S) /\ Len(x) = k /\ \A i \in 1..k : x[i] = s[i]
  OBVIOUS
<1>3. y \in Seq(S) /\ Len(y) = n - k /\ \A i \in 1..(n - k) : y[i] = s[k + i]
  OBVIOUS
<1> PICK z : z = x \o y
  OBVIOUS
<1>4. z \in Seq(S) /\ Joined(x, y, z)
  <2> HIDE DEF x, y
  <2> QED BY <1>2, <1>3, ConcatParts
<1> HIDE DEF x, y
<1>5. Len(z) = n
  BY <1>1, <1>2, <1>3, <1>4 DEF Joined
<1>6. ASSUME NEW i \in 1..n
      PROVE  z[i] = s[i]
  <2>1. CASE i <= k
    <3>1. i \in 1..k
      BY <1>1, <2>1
    <3> QED BY <1>2, <1>4, <3>1 DEF Joined
  <2>2. CASE ~(i <= k)
    <3>1. i - k \in 1..(n - k) /\ k + (i - k) = i
      BY <1>1, <2>2
    <3>2. z[k + (i - k)] = y[i - k]
      BY <1>2, <1>3, <1>4, <3>1 DEF Joined
    <3>3. y[i - k] = s[k + (i - k)]
      BY <1>3, <3>1
    <3> QED BY <3>1, <3>2, <3>3
  <2> QED BY <2>1, <2>2
<1>7. z = s
  BY <1>4, <1>5, <1>6, SeqEqual
<1> QED BY <1>2, <1>3, <1>7 DEF x, y

LEMMA PairConcat ==
  ASSUME NEW a, NEW b
  PROVE  <<a>> \o <<b>> = <<a, b>>
<1> PICK S : S = {a, b}
  OBVIOUS
<1>1. <<a>> \in Seq(S) /\ <<b>> \in Seq(S) /\ <<a, b>> \in Seq(S)
  OBVIOUS
<1> PICK c : c = <<a>> \o <<b>>
  OBVIOUS
<1>2. c \in Seq(S) /\ Len(c) = 2 /\ c[1] = a /\ c[2] = b
  <2>1. c \in Seq(S) /\ Joined(<<a>>, <<b>>, c)
    BY <1>1, ConcatParts
  <2>2. Len(<<a>>) = 1 /\ Len(<<b>>) = 1 /\ <<a>>[1] = a /\ <<b>>[1] = b /\ 1 + 1 = 2
        /\ 1 \in 1..1
    OBVIOUS
  <2> QED BY <2>1, <2>2 DEF Joined
<1>3. c = <<a, b>>
  <2> DEFINE d == <<a, b>>
  <2>1. d \in Seq(S) /\ Len(d) = 2 /\ d[1] = a /\ d[2] = b
    BY <1>1
  <2>2. \A i \in 1..2 : i = 1 \/ i = 2
    OBVIOUS
  <2> HIDE DEF d
  <2>3. \A i \in 1..Len(c) : c[i] = d[i]
    BY <1>2, <2>1, <2>2
  <2>4. c = d
    BY <1>2, <2>1, <2>3, SeqEqual
  <2> QED BY <2>4 DEF d
<1> QED BY <1>3

\* Lists of one and of two elements.
LEMMA SmallLists ==
  ASSUME NEW S, NEW a \in Seq(S)
  PROVE  /\ Len(a) = 1 => a = <<a[1]>> /\ a[1] \in S
         /\ Len(a) = 2 => a = <<a[1], a[2]>> /\ a[1] \in S /\ a[2] \in S
<1>1. ASSUME Len(a) = 1
      PROVE  a = <<a[1]>> /\ a[1] \in S
  <2> PICK x : x = a[1]
    OBVIOUS
  <2> PICK d : d = <<x>>
    OBVIOUS
  <2>1. x \in S
    <3>1. 1 \in 1..Len(a)
      BY <1>1
    <3> QED BY <3>1
  <2>2. d \in Seq(S) /\ Len(d) = 1 /\ d[1] = x
    BY <2>1
  <2>3. \A i \in 1..1 : i = 1
    OBVIOUS
  <2>4. \A i \in 1..Len(a) : a[i] = d[i]
    BY <1>1, <2>2, <2>3
  <2>5. a = d
    BY <1>1, <2>2, <2>4, SeqEqual
  <2> QED BY <2>1, <2>5
<1>2. ASSUME Len(a) = 2
      PROVE  a = <<a[1], a[2]>> /\ a[1] \in S /\ a[2] \in S
  <2> PICK x : x = a[1]
    OBVIOUS
  <2> PICK y : y = a[2]
    OBVIOUS
  <2> PICK d : d = <<x, y>>
    OBVIOUS
  <2>1. x \in S /\ y \in S
    <3>1. 1 \in 1..Len(a) /\ 2 \in 1..Len(a)
      BY <1>2
    <3> QED BY <3>1
  <2>2. d \in Seq(S) /\ Len(d) = 2 /\ d[1] = x /\ d[2] = y
    BY <2>1
  <2>3. \A i \in 1..2 : i = 1 \/ i = 2
    OBVIOUS
  <2>4. \A i \in 1..Len(a) : a[i] = d[i]
    BY <1>2, <2>2, <2>3
  <2>5. a = d
    BY <1>2, <2>2, <2>4, SeqEqual
  <2> QED BY <2>1, <2>5
<1> QED BY <1>1, <1>2

\* Three lists one after the other.
LEMMA ConcatThree ==
  ASSUME NEW S, NEW x \in Seq(S), NEW y \in Seq(S), NEW z \in Seq(S),
         NEW u, u = (x \o y) \o z, NEW v, v = x \o (y \o z)
  PROVE  u = v
BY ConcatAssociative

\* Equality as a predicate, so that lemmas that conclude one are found.
Same(x, y) == x = y

\* A list with others appended, and one more after them.
LEMMA AppendToConcat ==
  ASSUME NEW S, NEW s \in Seq(S), NEW a \in Seq(S), NEW d \in S
  PROVE  s \o Append(a, d) = Append(s \o a, d)
OBVIOUS

LEMMA AppendJoined ==
  ASSUME NEW S, NEW s \in Seq(S), NEW a \in Seq(S), NEW d \in S,
         NEW b, b = Append(a, d), NEW u, u = s \o a, NEW t, t = Append(u, d)
  PROVE  Same(t, s \o b)
BY DEF Same

LEMMA AppendLast ==
  ASSUME NEW S, NEW s \in Seq(S), NEW d \in S
  PROVE  s \o <<d>> = Append(s, d) /\ s \o Append(<<>>, d) = Append(s, d)
OBVIOUS

LEMMA AppendAfterOne ==
  ASSUME NEW S, NEW s \in Seq(S), NEW a \in Seq(S), NEW d \in S, Len(a) = 1,
         NEW u, u = Append(s, a[1]), NEW t, t = s \o Append(a, d)
  PROVE  Same(t, Append(u, d))
<1>1. PICK x : x = a[1]
  OBVIOUS
<1>2. a = <<x>> /\ x \in S
  BY <1>1, SmallLists
<1>3. s \o <<x>> = Append(s, x)
  BY <1>2, AppendLast
<1>4. s \o Append(a, d) = Append(s \o a, d)
  BY AppendToConcat
<1> QED BY <1>1, <1>2, <1>3, <1>4 DEF Same

LEMMA AppendPair ==
  ASSUME NEW S, NEW s \in Seq(S), NEW x \in S, NEW y \in S
  PROVE  s \o <<x, y>> = Append(Append(s, x), y)
<1> PICK u : u = <<x, y>>
  OBVIOUS
<1> PICK v : v = Append(s, x)
  OBVIOUS
<1> PICK w : w = Append(v, y)
  OBVIOUS
<1> PICK c : c = s \o u
  OBVIOUS
<1> DEFINE n == Len(s)
<1>1. /\ u \in Seq(S) /\ Len(u) = 2 /\ u[1] = x /\ u[2] = y
      /\ v \in Seq(S) /\ Len(v) = n + 1 /\ v[n + 1] = x /\ \A i \in 1..n : v[i] = s[i]
      /\ n \in Nat
  OBVIOUS
<1>2. /\ w \in Seq(S) /\ Len(w) = (n + 1) + 1 /\ w[(n + 1) + 1] = y
      /\ \A i \in 1..(n + 1) : w[i] = v[i]
  BY <1>1
<1>3. c \in Seq(S) /\ Joined(s, u, c)
  BY <1>1, ConcatParts
<1>4. Len(c) = n + 2 /\ (\A i \in 1..n : c[i] = s[i]) /\ c[n + 1] = x /\ c[n + 2] = y
  <2>1. 1 \in 1..2 /\ 2 \in 1..2
    OBVIOUS
  <2> QED BY <1>1, <1>3, <2>1 DEF Joined
<1> HIDE DEF n
<1>5. ASSUME NEW i \in 1..(n + 2)
      PROVE  c[i] = w[i]
  <2>1. CASE i \in 1..n
    <3>1. i \in 1..(n + 1)
      BY <1>1, <2>1
    <3> QED BY <1>1, <1>2, <1>4, <2>1, <3>1
  <2>2. CASE i = n + 1
    <3>1. i \in 1..(n + 1)
      BY <1>1, <2>2
    <3> QED BY <1>1, <1>2, <1>4, <2>2, <3>1
  <2>3. CASE i = n + 2
    <3>1. n + 2 = (n + 1) + 1
      BY <1>1
    <3> QED BY <1>2, <1>4, <2>3, <3>1
  <2>4. i \in 1..n \/ i = n + 1 \/ i = n + 2
    BY <1>1
  <2> QED BY <2>1, <2>2, <2>3, <2>4
<1>6. Len(w) = n + 2
  BY <1>1, <1>2
<1>7. c = w
  BY <1>2, <1>3, <1>4, <1>5, <1>6, SeqEqual
<1> QED BY <1>7

LEMMA AppendAfterTwo ==
  ASSUME NEW S, NEW s \in Seq(S), NEW a \in Seq(S), NEW d \in S, Len(a) = 2,
         NEW u, u = Append(s, a[1]), NEW v, v = Append(u, a[2]),
         NEW t, t = s \o Append(a, d)
  PROVE  Same(t, Append(v, d))
<1>1. PICK x : x = a[1]
  OBVIOUS
<1>2. PICK y : y = a[2]
  OBVIOUS
<1>3. a = <<x, y>> /\ x \in S /\ y \in S
  BY <1>1, <1>2, SmallLists
<1>4. s \o <<x, y>> = Append(Append(s, x), y)
  BY <1>3, AppendPair
<1>5. s \o Append(a, d) = Append(s \o a, d)
  BY AppendToConcat
<1> QED BY <1>1, <1>2, <1>3, <1>4, <1>5 DEF Same

LEMMA AppendToAppend ==
  ASSUME NEW S, NEW s \in Seq(S), NEW a \in Seq(S), NEW d \in S, a # <<>>,
         NEW u, u = Append(s, a[1]), NEW t, t = s \o Append(a, d)
  PROVE  Same(t, u \o Append(Tail(a), d))
<1>1. PICK h : h = a[1]
  OBVIOUS
<1>2. PICK r : r = Tail(a)
  OBVIOUS
<1>3. PICK x : x = <<h>>
  OBVIOUS
<1>4. PICK y : y = Append(r, d)
  OBVIOUS
<1>5. h \in S /\ r \in Seq(S) /\ x \in Seq(S) /\ y \in Seq(S)
  BY <1>1, <1>2, <1>3, <1>4
<1>6. a = x \o r
  <2>1. /\ r \in Seq(S) /\ Len(r) = Len(a) - 1 /\ Len(a) \in Nat /\ Len(r) \in Nat
        /\ \A i \in 1..Len(r) : r[i] = a[i + 1]
    BY <1>2
  <2>2. PICK c : c = x \o r
    OBVIOUS
  <2>3. x \in Seq(S) /\ Len(x) = 1 /\ x[1] = h /\ 1 \in 1..1
    BY <1>3, <1>5
  <2>4. c \in Seq(S) /\ Joined(x, r, c)
    BY <2>1, <2>2, <2>3, ConcatParts
  <2>5. Len(c) = Len(a)
    BY <2>1, <2>3, <2>4 DEF Joined
  <2>6. ASSUME NEW i \in 1..Len(a)
        PROVE  c[i] = a[i]
    <3>1. CASE i = 1
      BY <1>1, <2>3, <2>4, <3>1 DEF Joined
    <3>2. CASE i # 1
      <4>1. i - 1 \in 1..Len(r) /\ 1 + (i - 1) = i /\ (i - 1) + 1 = i
        BY <2>1, <3>2
      <4>2. c[1 + (i - 1)] = r[i - 1]
        BY <2>3, <2>4, <4>1 DEF Joined
      <4>3. r[i - 1] = a[(i - 1) + 1]
        BY <2>1, <4>1
      <4> QED BY <4>1, <4>2, <4>3
    <3> QED BY <3>1, <3>2
  <2>7. c = a
    BY <2>4, <2>5, <2>6, SeqEqual
  <2> QED BY <2>2, <2>7
<1>7. Append(a, d) = x \o y
  <2>1. PICK f : f = Append(a, d)
    OBVIOUS
  <2>2. Same(f, x \o y)
    BY <1>4, <1>5, <1>6, <2>1, AppendJoined, Zenon
  <2> QED BY <2>1, <2>2 DEF Same
<1>8. Append(s, h) = s \o x
  BY <1>3, <1>5, AppendLast
<1>9. s \o (x \o y) = (s \o x) \o y
  BY <1>5, SMTT(30)
<1> QED BY <1>1, <1>2, <1>4, <1>7, <1>8, <1>9 DEF Same

\* What Append adds is the last element, and the front is what was there.
LEMMA AppendEnds ==
  ASSUME NEW S, NEW y \in Seq(S), NEW d \in S
  PROVE  /\ Append(y, d) \in Seq(S) /\ Append(y, d) # <<>>
         /\ Front(Append(y, d)) = y /\ Last(Append(y, d)) = d
<1> PICK w : w = Append(y, d)
  OBVIOUS
<1> PICK n \in Nat : n = Len(y)
  OBVIOUS
<1>1. /\ w \in Seq(S) /\ w # <<>> /\ Len(w) = n + 1 /\ w[n + 1] = d
      /\ \A i \in 1..n : w[i] = y[i]
  BY AppendProperties
<1>2. Len(w) - 1 = n
  BY <1>1
<1>3. SubSeq(w, 1, n) \in Seq(S) /\ Len(SubSeq(w, 1, n)) = n
      /\ \A i \in 1..n : SubSeq(w, 1, n)[i] = w[i]
  BY <1>1
<1>4. SubSeq(w, 1, n) = y
  BY <1>1, <1>3, SeqEqual
<1>5. Front(w) = y
  BY <1>2, <1>4, Zenon DEF Front
<1>6. Last(w) = d
  BY <1>1, Zenon DEF Last
<1> QED BY <1>1, <1>5, <1>6

=============================================================================
