-------------------------- MODULE LedgerSync_proofs --------------------------
(***************************************************************************)
(* LedgerSync keeps its types, keeps each entry with the device that       *)
(* staged it, records none twice and merges without loss, for any devices, *)
(* entries, dates, titles, answers and faults; and where users sync one    *)
(* after the other and merge, chains verify and a pushed chain is the      *)
(* remote one.                                                             *)
(*                                                                         *)
(* First what commits and merges make of chains: how often something is in *)
(* a list, sorting by title, the days of a block, grouping by date, forks  *)
(* and reading the remote store; then what each step does to the chains,   *)
(* and the inductive invariants with their theorems.                       *)
(***************************************************************************)
EXTENDS LedgerSync, CommonLemmas

-----------------------------------------------------------------------------
\* How often a list holds something.

At(s, e) == {k \in DOMAIN s : s[k] = e}

\* A list holds e a number of times, none exactly when it does not hold e.
LEMMA CountIsNat ==
  ASSUME NEW X, NEW s \in Seq(X), NEW e
  PROVE  /\ IsFiniteSet(At(s, e)) /\ Count(s, e) = Cardinality(At(s, e))
         /\ Count(s, e) \in Nat
         /\ Count(s, e) = 0 <=> e \notin ToSet(s)
         /\ Count(s, e) > 0 <=> e \in ToSet(s)
<1>1. DOMAIN s = 1..Len(s) /\ Len(s) \in Nat
  OBVIOUS
<1>2. At(s, e) \in SUBSET (1..Len(s))
  BY <1>1 DEF At
<1>3. IsFiniteSet(At(s, e))
  <2>1. IsFiniteSet(1..Len(s))
    BY <1>1, FS_Interval
  <2> QED BY <1>2, <2>1, FS_Subset
<1>4. Count(s, e) = Cardinality(At(s, e))
  BY DEF Count, At
<1>5. Count(s, e) \in Nat
  BY <1>3, <1>4, FS_CardinalityType
<1>6. Count(s, e) = 0 <=> At(s, e) = {}
  BY <1>3, <1>4, FS_EmptySet
<1>7. At(s, e) = {} <=> e \notin ToSet(s)
  BY DEF At, ToSet
<1> QED BY <1>3, <1>4, <1>5, <1>6, <1>7

LEMMA SameSize ==
  ASSUME NEW S, IsFiniteSet(S), NEW T, NEW f \in [S -> T],
         \A x, y \in S : f[x] = f[y] => x = y,
         \A y \in T : \E x \in S : f[x] = y
  PROVE  IsFiniteSet(T) /\ Cardinality(T) = Cardinality(S)
<1>1. f \in Bijection(S, T)
  BY DEF Bijection, Injection, Surjection, IsInjective
<1>2. ExistsBijection(S, T)
  BY <1>1 DEF ExistsBijection
<1> QED BY <1>2, FS_Bijection

\* List t is made of elements of s, those that p says, all copies of e among them.
Takes(t, s, p, e) ==
  /\ p \in [DOMAIN t -> DOMAIN s]
  /\ \A i, j \in DOMAIN t : p[i] = p[j] => i = j
  /\ \A k \in DOMAIN t : t[k] = s[p[k]]
  /\ \A j \in At(s, e) : \E k \in DOMAIN t : p[k] = j

LEMMA CountMoved ==
  ASSUME NEW X, NEW s \in Seq(X), NEW t \in Seq(X), NEW e, NEW p, Takes(t, s, p, e)
  PROVE  Count(t, e) = Count(s, e)
<1> DEFINE f == [k \in At(t, e) |-> p[k]]
<1>1. f \in [At(t, e) -> At(s, e)]
  BY DEF At, Takes
<1>2. \A x, y \in At(t, e) : f[x] = f[y] => x = y
  BY DEF At, Takes
<1>3. \A y \in At(s, e) : \E x \in At(t, e) : f[x] = y
  BY DEF At, Takes
<1>4. IsFiniteSet(At(t, e))
  BY CountIsNat
<1> HIDE DEF f
<1>5. Cardinality(At(s, e)) = Cardinality(At(t, e))
  BY <1>1, <1>2, <1>3, <1>4, SameSize
<1> QED BY <1>5, CountIsNat

LEMMA CountConcat ==
  ASSUME NEW X, NEW a \in Seq(X), NEW b \in Seq(X), NEW e
  PROVE  Count(a \o b, e) = Count(a, e) + Count(b, e)
<1> PICK c : c = a \o b
  OBVIOUS
<1>1. c \in Seq(X) /\ Joined(a, b, c)
  BY ConcatParts
<1> DEFINE m == Len(a)
           U == {m + k : k \in At(b, e)}
           f == [k \in At(b, e) |-> m + k]
<1>2. m \in Nat /\ At(b, e) \in SUBSET Nat
  <2>1. DOMAIN b = 1..Len(b) /\ m \in Nat
    OBVIOUS
  <2> QED BY <2>1 DEF At
<1>3. IsFiniteSet(At(a, e)) /\ IsFiniteSet(At(b, e))
  BY CountIsNat
<1>4. IsFiniteSet(U) /\ Cardinality(U) = Cardinality(At(b, e))
  <2>1. f \in [At(b, e) -> U]
    OBVIOUS
  <2>2. \A x, y \in At(b, e) : f[x] = f[y] => x = y
    BY <1>2
  <2>3. \A y \in U : \E x \in At(b, e) : f[x] = y
    OBVIOUS
  <2> HIDE DEF f, U
  <2> QED BY <1>3, <2>1, <2>2, <2>3, SameSize
<1>5. \A k \in At(c, e) : k \in At(a, e) \cup U
  <2> TAKE k \in At(c, e)
  <2>1. k \in 1..Len(c) /\ c[k] = e
    BY <1>1 DEF At, Joined
  <2>2. CASE k \in 1..Len(a)
    BY <1>1, <2>1, <2>2 DEF At, Joined
  <2>3. CASE k \notin 1..Len(a)
    <3>1. PICK j \in 1..Len(b) : k = m + j
      BY <1>1, <2>1, <2>3 DEF Joined
    <3>2. j \in At(b, e)
      BY <1>1, <2>1, <3>1 DEF At, Joined
    <3> QED BY <3>1, <3>2
  <2> QED BY <2>2, <2>3
<1>6. \A k \in At(a, e) \cup U : k \in At(c, e)
  <2>1. \A k \in At(a, e) : k \in At(c, e)
    BY <1>1 DEF At, Joined
  <2>2. \A j \in At(b, e) : m + j \in At(c, e)
    BY <1>1 DEF At, Joined
  <2> QED BY <2>1, <2>2
<1>7. At(c, e) = At(a, e) \cup U
  BY <1>5, <1>6
<1>8. At(a, e) \cap U = {}
  <2>1. \A k \in At(a, e) : k <= m
    <3>1. DOMAIN a = 1..m
      OBVIOUS
    <3> QED BY <3>1 DEF At
  <2>2. \A j \in At(b, e) : j >= 1 /\ j \in Nat
    <3>1. DOMAIN b = 1..Len(b)
      OBVIOUS
    <3> QED BY <3>1 DEF At
  <2>3. \A j \in At(b, e) : ~(m + j <= m)
    BY <1>2, <2>2
  <2> QED BY <2>1, <2>3
<1> HIDE DEF U, f
<1>9. Cardinality(At(c, e)) = Cardinality(At(a, e)) + Cardinality(U)
  <2>1. IsFiniteSet(At(a, e) \cap U) /\ Cardinality(At(a, e) \cap U) = 0
    BY <1>8, FS_EmptySet
  <2>2. Cardinality(At(a, e) \cup U)
          = Cardinality(At(a, e)) + Cardinality(U) - Cardinality(At(a, e) \cap U)
    BY <1>3, <1>4, FS_Union
  <2>3. Cardinality(At(a, e)) \in Nat /\ Cardinality(U) \in Nat
    BY <1>3, <1>4, FS_CardinalityType
  <2> QED BY <1>7, <2>1, <2>2, <2>3
<1> QED BY <1>1, <1>4, <1>9, CountIsNat

LEMMA CountNone ==
  ASSUME NEW e
  PROVE  Count(<<>>, e) = 0 /\ ToSet(<<>>) = {}
<1>1. <<>> \in Seq({e}) /\ DOMAIN <<>> = {}
  OBVIOUS
<1>2. ToSet(<<>>) = {}
  BY <1>1 DEF ToSet
<1> QED BY <1>1, <1>2, CountIsNat

\* Picking the elements that are in Y.
LEMMA CountPicked ==
  ASSUME NEW X, NEW s \in Seq(X), NEW Y, NEW e, NEW P \in SUBSET DOMAIN s,
         \A j \in DOMAIN s : j \in P <=> s[j] \in Y
  PROVE  /\ Picked(s, P) \in Seq(X)
         /\ Count(Picked(s, P), e) = IF e \in Y THEN Count(s, e) ELSE 0
<1> DEFINE t == Picked(s, P)
           A == Ascending(P)
           n == Cardinality(P)
<1>1. /\ t \in Seq(X) /\ DOMAIN t = 1..n
      /\ \A k \in 1..n : t[k] = s[A[k]] /\ A[k] \in P
      /\ \A i, j \in 1..n : i # j => A[i] # A[j]
      /\ \A x \in P : \E k \in 1..n : A[k] = x
  BY PickedIsSeq
<1> HIDE DEF t, A, n
<1>2. CASE e \in Y
  <2> DEFINE p == [k \in DOMAIN t |-> A[k]]
  <2>1. p \in [DOMAIN t -> DOMAIN s]
    BY <1>1
  <2>2. \A i, j \in DOMAIN t : p[i] = p[j] => i = j
    BY <1>1
  <2>3. \A k \in DOMAIN t : t[k] = s[p[k]]
    BY <1>1
  <2>4. \A j \in At(s, e) : \E k \in DOMAIN t : p[k] = j
    <3> TAKE j \in At(s, e)
    <3>1. j \in P
      BY <1>2 DEF At
    <3> QED BY <1>1, <3>1
  <2> HIDE DEF p
  <2>5. Takes(t, s, p, e)
    BY <2>1, <2>2, <2>3, <2>4 DEF Takes
  <2>6. Count(t, e) = Count(s, e)
    BY <1>1, <2>5, CountMoved
  <2> QED BY <1>1, <1>2, <2>6 DEF t
<1>3. CASE e \notin Y
  <2>1. \A k \in DOMAIN t : t[k] # e
    BY <1>1, <1>3
  <2>2. e \notin ToSet(t)
    BY <2>1 DEF ToSet
  <2>3. Count(t, e) = 0
    BY <1>1, <2>2, CountIsNat
  <2> QED BY <1>1, <1>3, <2>3 DEF t
<1> QED BY <1>2, <1>3

\* A sorted set has each element once.
LEMMA CountAscending ==
  ASSUME NEW S \in SUBSET Int, IsFiniteSet(S), NEW e
  PROVE  Ascending(S) \in Seq(S) /\ Count(Ascending(S), e) = IF e \in S THEN 1 ELSE 0
<1> DEFINE A == Ascending(S)
           n == Cardinality(S)
<1>1. /\ n \in Nat /\ DOMAIN A = 1..n /\ A \in Seq(S)
      /\ \A k \in 1..n : A[k] \in S
      /\ \A i, j \in 1..n : i < j => A[i] < A[j]
      /\ \A x \in S : \E k \in 1..n : A[k] = x
  BY AscendingOrder
<1> HIDE DEF A, n
<1>2. CASE e \in S
  <2>1. PICK k \in 1..n : A[k] = e
    BY <1>1, <1>2
  <2>2. \A j \in 1..n : A[j] = e => j = k
    <3> TAKE j \in 1..n
    <3> HAVE A[j] = e
    <3>1. A[j] \in Int /\ A[k] \in Int
      BY <1>1
    <3>2. ~(j < k) /\ ~(k < j)
      BY <1>1, <2>1, <3>1
    <3> QED BY <3>2
  <2>3. At(A, e) = {k}
    BY <1>1, <2>1, <2>2 DEF At
  <2>4. Cardinality(At(A, e)) = 1
    BY <2>3, FS_Singleton
  <2> QED BY <1>1, <1>2, <2>4, CountIsNat DEF A
<1>3. CASE e \notin S
  <2>1. e \notin ToSet(A)
    BY <1>1, <1>3 DEF ToSet
  <2> QED BY <1>1, <1>3, <2>1, CountIsNat DEF A
<1> QED BY <1>2, <1>3

\* A list that holds nothing twice is as long as it holds things.
LEMMA OnceLength ==
  ASSUME NEW X, NEW s \in Seq(X), \A e \in X : Count(s, e) <= 1
  PROVE  IsFiniteSet(ToSet(s)) /\ Cardinality(ToSet(s)) = Len(s)
<1>1. DOMAIN s = 1..Len(s) /\ Len(s) \in Nat /\ \A i \in DOMAIN s : s[i] \in X
  OBVIOUS
<1> DEFINE f == [k \in 1..Len(s) |-> s[k]]
<1>2. f \in [1..Len(s) -> ToSet(s)]
  BY <1>1 DEF ToSet
<1>3. ASSUME NEW i \in 1..Len(s), NEW j \in 1..Len(s), s[i] = s[j], i # j
      PROVE  FALSE
  <2>1. {i, j} \in SUBSET At(s, s[i])
    BY <1>1, <1>3 DEF At
  <2>2. Cardinality({i, j}) = 2 /\ IsFiniteSet({i, j})
    <3>1. IsFiniteSet({i}) /\ Cardinality({i}) = 1
      BY FS_Singleton
    <3>2. {i, j} = {i} \cup {j} /\ j \notin {i}
      BY <1>3
    <3>3. IsFiniteSet({i} \cup {j}) /\ Cardinality({i} \cup {j}) = Cardinality({i}) + 1
      BY <3>1, <3>2, FS_AddElement
    <3> QED BY <3>1, <3>2, <3>3
  <2>3. IsFiniteSet(At(s, s[i])) /\ Cardinality(At(s, s[i])) \in Nat
        /\ Cardinality(At(s, s[i])) <= 1
    BY <1>1, CountIsNat
  <2>4. Cardinality({i, j}) <= Cardinality(At(s, s[i]))
    BY <2>1, <2>3, FS_Subset
  <2> QED BY <2>2, <2>3, <2>4
<1>4. \A x, y \in 1..Len(s) : f[x] = f[y] => x = y
  BY <1>3
<1>5. \A y \in ToSet(s) : \E x \in 1..Len(s) : f[x] = y
  BY <1>1 DEF ToSet
<1>6. IsFiniteSet(1..Len(s)) /\ Cardinality(1..Len(s)) = Len(s)
  BY <1>1, FS_Interval
<1> HIDE DEF f
<1> QED BY <1>2, <1>4, <1>5, <1>6, SameSize

TitleRelation(s) ==
  {p \in (1..Len(s)) \X (1..Len(s)) : TitledBefore(s, p[1], p[2])}

LEMMA TitleRelationIsOrder ==
  ASSUME NEW s \in Seq(Entry)
  PROVE  /\ \A i, j \in 1..Len(s) : <<i, j>> \in TitleRelation(s) <=> TitledBefore(s, i, j)
         /\ \A i \in 1..Len(s) : ~TitledBefore(s, i, i)
         /\ \A i, j, k \in 1..Len(s) :
              TitledBefore(s, i, j) /\ TitledBefore(s, j, k) => TitledBefore(s, i, k)
         /\ \A i, j \in 1..Len(s) :
              i # j => TitledBefore(s, i, j) \/ TitledBefore(s, j, i)
<1>1. DOMAIN s = 1..Len(s) /\ Len(s) \in Nat
  OBVIOUS
<1>2. \A i \in 1..Len(s) : i \in Nat /\ Title[s[i]] \in Nat
  <2>1. \A i \in 1..Len(s) : i \in Nat /\ s[i] \in Entry
    OBVIOUS
  <2> QED BY <2>1, TitleAssumption
<1>3. ASSUME NEW i \in 1..Len(s), NEW j \in 1..Len(s)
      PROVE  <<i, j>> \in TitleRelation(s) <=> TitledBefore(s, i, j)
  <2>1. PICK x : x = <<i, j>>
    OBVIOUS
  <2>2. x[1] = i /\ x[2] = j /\ x \in (1..Len(s)) \X (1..Len(s))
    BY <2>1
  <2>3. TitleRelation(s) = {p \in (1..Len(s)) \X (1..Len(s)) : TitledBefore(s, p[1], p[2])}
    BY Zenon DEF TitleRelation
  <2>4. x \in TitleRelation(s) <=> TitledBefore(s, x[1], x[2])
    BY <2>2, <2>3, Zenon
  <2> QED BY <2>1, <2>2, <2>4, Zenon
<1>4. ASSUME NEW i \in 1..Len(s)
      PROVE  ~TitledBefore(s, i, i)
  BY <1>2 DEF TitledBefore
<1>5. ASSUME NEW i \in 1..Len(s), NEW j \in 1..Len(s), NEW k \in 1..Len(s),
             TitledBefore(s, i, j), TitledBefore(s, j, k)
      PROVE  TitledBefore(s, i, k)
  <2>1. PICK a : a = Title[s[i]]
    OBVIOUS
  <2>2. PICK b : b = Title[s[j]]
    OBVIOUS
  <2>3. PICK c : c = Title[s[k]]
    OBVIOUS
  <2>4. (a < b \/ (a = b /\ i < j)) /\ (b < c \/ (b = c /\ j < k))
    BY <1>5, <2>1, <2>2, <2>3 DEF TitledBefore
  <2>5. a \in Nat /\ b \in Nat /\ c \in Nat /\ i \in Nat /\ j \in Nat /\ k \in Nat
    BY <1>2, <2>1, <2>2, <2>3
  <2>6. a < c \/ (a = c /\ i < k)
    BY <2>4, <2>5
  <2> QED BY <2>1, <2>3, <2>6 DEF TitledBefore
<1>6. ASSUME NEW i \in 1..Len(s), NEW j \in 1..Len(s), i # j
      PROVE  TitledBefore(s, i, j) \/ TitledBefore(s, j, i)
  <2>1. PICK a : a = Title[s[i]]
    OBVIOUS
  <2>2. PICK b : b = Title[s[j]]
    OBVIOUS
  <2>3. a \in Nat /\ b \in Nat /\ i \in Nat /\ j \in Nat
    BY <1>2, <2>1, <2>2
  <2>4. \A x, y \in Nat : x < y \/ x = y \/ y < x
    OBVIOUS
  <2>5. (a < b \/ a = b \/ b < a) /\ (i < j \/ i = j \/ j < i)
    BY <2>3, <2>4, Zenon
  <2>6. (a < b \/ (a = b /\ i < j)) \/ (b < a \/ (b = a /\ j < i))
    BY <1>6, <2>5, Zenon
  <2> QED BY <2>1, <2>2, <2>6 DEF TitledBefore
<1> QED BY <1>3, <1>4, <1>5, <1>6

LEMMA RanksTo ==
  ASSUME NEW n \in Nat, NEW Q,
         \A i \in 1..n : <<i, i>> \notin Q,
         \A i, j, k \in 1..n : <<i, j>> \in Q /\ <<j, k>> \in Q => <<i, k>> \in Q,
         \A i, j \in 1..n : i # j => <<i, j>> \in Q \/ <<j, i>> \in Q
  PROVE  /\ \A i \in 1..n : RankIn(1..n, Q, i) \in 0..(n - 1)
         /\ \A i, j \in 1..n : <<i, j>> \in Q => RankIn(1..n, Q, i) < RankIn(1..n, Q, j)
         /\ \A k \in 0..(n - 1) : \E i \in 1..n : RankIn(1..n, Q, i) = k
<1>1. IsFiniteSet(1..n) /\ Cardinality(1..n) = n
  BY FS_Interval
<1>2. \A S : /\ IsFiniteSet(S)
             /\ \A x \in S : <<x, x>> \notin Q
             /\ \A x, y, z \in S : <<x, y>> \in Q /\ <<y, z>> \in Q => <<x, z>> \in Q
             /\ \A x, y \in S : x # y => <<x, y>> \in Q \/ <<y, x>> \in Q
             => /\ \A x \in S : RankIn(S, Q, x) \in 0..(Cardinality(S) - 1)
                /\ \A x, y \in S : <<x, y>> \in Q => RankIn(S, Q, x) < RankIn(S, Q, y)
                /\ \A k \in 0..(Cardinality(S) - 1) : \E x \in S : RankIn(S, Q, x) = k
  <2> TAKE S
  <2> HAVE /\ IsFiniteSet(S)
           /\ \A x \in S : <<x, x>> \notin Q
           /\ \A x, y, z \in S : <<x, y>> \in Q /\ <<y, z>> \in Q => <<x, z>> \in Q
           /\ \A x, y \in S : x # y => <<x, y>> \in Q \/ <<y, x>> \in Q
  <2> QED BY Ranks
<1> PICK D : D = 1..n
  OBVIOUS
<1>3. /\ \A x \in D : RankIn(D, Q, x) \in 0..(Cardinality(D) - 1)
      /\ \A x, y \in D : <<x, y>> \in Q => RankIn(D, Q, x) < RankIn(D, Q, y)
      /\ \A k \in 0..(Cardinality(D) - 1) : \E x \in D : RankIn(D, Q, x) = k
  BY <1>1, <1>2, Zenon
<1> QED BY <1>1, <1>3

\* The stable sort of the merge is a permutation.
LEMMA TitleOrder ==
  ASSUME NEW s \in Seq(Entry), NEW e
  PROVE  /\ ByTitle(s) \in Seq(Entry) /\ Len(ByTitle(s)) = Len(s)
         /\ Count(ByTitle(s), e) = Count(s, e)
<1> DEFINE D == 1..Len(s)
           n == Len(s)
           t == ByTitle(s)
           R == TitleRelation(s)
<1>1. /\ n \in Nat /\ DOMAIN s = D /\ D = 1..n
      /\ \A i \in D : s[i] \in Entry
  <2>1. D = 1..n /\ n \in Nat /\ \A i \in D : s[i] \in Entry
    OBVIOUS
  <2> QED BY <2>1
<1>2. \A i, j \in D : <<i, j>> \in R <=> TitledBefore(s, i, j)
  BY TitleRelationIsOrder
<1>3. \A i \in D : {j \in D : <<j, i>> \in R} = {j \in D : TitledBefore(s, j, i)}
  BY <1>2
<1>4. \A i \in D : RankIn(D, R, i) = Cardinality({j \in D : TitledBefore(s, j, i)})
  BY <1>3 DEF RankIn
<1>5. /\ DOMAIN t = D /\ t = [k \in DOMAIN t |-> t[k]]
      /\ \A k \in D :
           t[k] = s[CHOOSE i \in D : Cardinality({j \in D : TitledBefore(s, j, i)}) = k - 1]
  BY <1>1 DEF ByTitle
<1>6. /\ \A i \in D : <<i, i>> \notin R
      /\ \A i, j, k \in D : <<i, j>> \in R /\ <<j, k>> \in R => <<i, k>> \in R
      /\ \A i, j \in D : i # j => <<i, j>> \in R \/ <<j, i>> \in R
  BY TitleRelationIsOrder
<1> HIDE DEF D, n, t, R
<1>7. /\ \A i \in D : RankIn(D, R, i) \in 0..(n - 1)
      /\ \A i, j \in D : <<i, j>> \in R => RankIn(D, R, i) < RankIn(D, R, j)
      /\ \A k \in 0..(n - 1) : \E i \in D : RankIn(D, R, i) = k
  <2>1. n \in Nat /\ D = 1..n
    BY <1>1
  <2>2. /\ \A i \in 1..n : <<i, i>> \notin R
        /\ \A i, j, k \in 1..n : <<i, j>> \in R /\ <<j, k>> \in R => <<i, k>> \in R
        /\ \A i, j \in 1..n : i # j => <<i, j>> \in R \/ <<j, i>> \in R
    BY <1>6, <2>1, Zenon
  <2>3. /\ \A i \in 1..n : RankIn(1..n, R, i) \in 0..(n - 1)
        /\ \A i, j \in 1..n : <<i, j>> \in R => RankIn(1..n, R, i) < RankIn(1..n, R, j)
        /\ \A k \in 0..(n - 1) : \E i \in 1..n : RankIn(1..n, R, i) = k
    BY <2>1, <2>2, RanksTo
  <2> QED BY <2>1, <2>3, Zenon
<1> DEFINE p == [k \in D |-> CHOOSE i \in D : RankIn(D, R, i) = k - 1]
<1>8. \A k \in D : p[k] \in D /\ RankIn(D, R, p[k]) = k - 1
  <2> TAKE k \in D
  <2>1. k - 1 \in 0..(n - 1)
    BY <1>1
  <2>2. \E i \in D : RankIn(D, R, i) = k - 1
    BY <1>7, <2>1
  <2> QED BY <2>2
<1>9. \A k \in D : t[k] = s[p[k]]
  <2> TAKE k \in D
  <2>1. t[k] = s[CHOOSE i \in D : Cardinality({j \in D : TitledBefore(s, j, i)}) = k - 1]
    BY <1>5
  <2>2. (CHOOSE i \in D : Cardinality({j \in D : TitledBefore(s, j, i)}) = k - 1)
          = CHOOSE i \in D : RankIn(D, R, i) = k - 1
    BY <1>4
  <2> QED BY <2>1, <2>2
<1> HIDE DEF p
<1>10. DOMAIN t = D /\ t \in Seq(Entry) /\ Len(t) = n
  <2>1. DOMAIN t = D
    BY <1>5
  <2>2. \A k \in D : t[k] \in Entry
    BY <1>1, <1>8, <1>9
  <2>3. t = [k \in 1..n |-> t[k]]
    <3>1. t = [k \in DOMAIN t |-> t[k]]
      BY <1>5
    <3> QED BY <1>1, <2>1, <3>1
  <2>4. t \in [1..n -> Entry]
    BY <1>1, <2>2, <2>3
  <2> QED BY <1>1, <2>1, <2>4
<1>11. p \in [DOMAIN t -> DOMAIN s]
  BY <1>8, <1>10 DEF D, p
<1>12. \A i, j \in DOMAIN t : p[i] = p[j] => i = j
  <2> TAKE i \in DOMAIN t, j \in DOMAIN t
  <2> HAVE p[i] = p[j]
  <2>1. i - 1 = j - 1 /\ i \in Nat /\ j \in Nat
    BY <1>1, <1>8, <1>10
  <2> QED BY <2>1
<1>13. \A j \in At(s, e) : \E k \in DOMAIN t : p[k] = j
  <2> TAKE j \in At(s, e)
  <2>1. j \in D
    BY DEF At, D
  <2> DEFINE k == RankIn(D, R, j) + 1
  <2>2. k \in D /\ k - 1 = RankIn(D, R, j) /\ RankIn(D, R, j) \in Int
    BY <1>1, <1>7, <2>1, SMTT(30)
  <2>3. p[k] \in D /\ RankIn(D, R, p[k]) = RankIn(D, R, j)
    BY <1>8, <2>2
  <2>4. p[k] = j
    <3>1. ~(RankIn(D, R, j) < RankIn(D, R, j))
      BY <2>2
    <3> QED BY <1>6, <1>7, <2>1, <2>3, <3>1
  <2> QED BY <1>10, <2>2, <2>4
<1>14. Takes(t, s, p, e)
  BY <1>9, <1>10, <1>11, <1>12, <1>13 DEF Takes
<1>15. Count(t, e) = Count(s, e)
  BY <1>10, <1>14, CountMoved
<1> QED BY <1>10, <1>15 DEF t, n

-----------------------------------------------------------------------------
\* What the days of a block, and the blocks of a chain, hold.

\* The lists that F gives for the elements of s, one after the other.
Flat(F, s) == FlattenSeq([k \in DOMAIN s |-> F[s[k]]])

GivesLists(F, Y, X) == F \in [Y -> Seq(X)]

LEMMA FlatLists ==
  ASSUME NEW X, NEW Y, NEW F, GivesLists(F, Y, X), NEW s \in Seq(Y)
  PROVE  \E l \in Seq(Seq(X)) :
           /\ Len(l) = Len(s)
           /\ \A k \in 1..Len(s) : l[k] = F[s[k]]
           /\ Flat(F, s) = FlattenSeq(l)
<1> PICK l : l = [k \in DOMAIN s |-> F[s[k]]]
  OBVIOUS
<1>1. DOMAIN s = 1..Len(s) /\ Len(s) \in Nat /\ \A k \in 1..Len(s) : s[k] \in Y
  OBVIOUS
<1>2. \A k \in 1..Len(s) : F[s[k]] \in Seq(X)
  BY <1>1 DEF GivesLists
<1>3. l \in [1..Len(s) -> Seq(X)]
  BY <1>1, <1>2
<1>4. l \in Seq(Seq(X)) /\ Len(l) = Len(s)
  BY <1>1, <1>3
<1>5. \A k \in 1..Len(s) : l[k] = F[s[k]]
  BY <1>1
<1> QED BY <1>1, <1>4, <1>5 DEF Flat

LEMMA FlatConcat ==
  ASSUME NEW X, NEW Y, NEW F, GivesLists(F, Y, X), NEW a \in Seq(Y), NEW b \in Seq(Y)
  PROVE  /\ Flat(F, a) \in Seq(X) /\ Flat(F, b) \in Seq(X)
         /\ Flat(F, a \o b) = Flat(F, a) \o Flat(F, b)
<1>lists. \A s \in Seq(Y) : \E l \in Seq(Seq(X)) :
        /\ Len(l) = Len(s)
        /\ \A k \in 1..Len(s) : l[k] = F[s[k]]
        /\ Flat(F, s) = FlattenSeq(l)
  BY FlatLists
<1> PICK c : c = a \o b
  OBVIOUS
<1>1. c \in Seq(Y) /\ Joined(a, b, c)
  BY ConcatParts
<1>2. PICK la \in Seq(Seq(X)) :
      /\ Len(la) = Len(a)
      /\ \A k \in 1..Len(a) : la[k] = F[a[k]]
      /\ Flat(F, a) = FlattenSeq(la)
  BY <1>lists
<1>3. PICK lb \in Seq(Seq(X)) :
      /\ Len(lb) = Len(b)
      /\ \A k \in 1..Len(b) : lb[k] = F[b[k]]
      /\ Flat(F, b) = FlattenSeq(lb)
  BY <1>lists
<1>4. PICK lc \in Seq(Seq(X)) :
      /\ Len(lc) = Len(c)
      /\ \A k \in 1..Len(c) : lc[k] = F[c[k]]
      /\ Flat(F, c) = FlattenSeq(lc)
  BY <1>lists, <1>1
<1> PICK l : l = la \o lb
  OBVIOUS
<1> PICK Z : Z = Seq(X)
  OBVIOUS
<1>5. l \in Seq(Z) /\ lc \in Seq(Z) /\ Joined(la, lb, l)
  BY <1>2, <1>3, <1>4, ConcatParts
<1>6. Len(l) = Len(c)
  BY <1>1, <1>2, <1>3, <1>5 DEF Joined
<1>7. ASSUME NEW k \in 1..Len(c)
      PROVE  lc[k] = l[k]
  <2>1. CASE k \in 1..Len(a)
    <3>1. c[k] = a[k] /\ l[k] = la[k]
      BY <1>1, <1>2, <1>5, <2>1 DEF Joined
    <3> QED BY <1>2, <1>4, <2>1, <3>1
  <2>2. ASSUME NEW j \in 1..Len(b), k = Len(a) + j
        PROVE  lc[k] = l[k]
    <3>1. c[k] = b[j] /\ l[k] = lb[j]
      BY <1>1, <1>2, <1>3, <1>5, <2>2 DEF Joined
    <3> QED BY <1>3, <1>4, <3>1
  <2> QED BY <1>1, <2>1, <2>2 DEF Joined
<1>8. lc = l
  BY <1>4, <1>5, <1>6, <1>7, SeqEqual
<1>9. FlattenSeq(la \o lb) = FlattenSeq(la) \o FlattenSeq(lb)
      /\ FlattenSeq(la) \in Seq(X) /\ FlattenSeq(lb) \in Seq(X)
  BY <1>2, <1>3, FlattenConcat, FlattenIsSeq
<1> QED BY <1>2, <1>3, <1>4, <1>8, <1>9

LEMMA FlatSmall ==
  ASSUME NEW X, NEW Y, NEW F, GivesLists(F, Y, X), NEW y \in Y
  PROVE  Flat(F, <<>>) = <<>> /\ Flat(F, <<y>>) = F[y]
<1> PICK x : x = F[y]
  OBVIOUS
<1>1. x \in Seq(X)
  BY DEF GivesLists
<1>2. [k \in DOMAIN <<>> |-> F[<<>>[k]]] = <<>>
  OBVIOUS
<1>3. [k \in DOMAIN <<y>> |-> F[<<y>>[k]]] = <<x>>
  OBVIOUS
<1>4. FlattenSeq(<<>>) = <<>> /\ FlattenSeq(<<x>>) = x
  BY <1>1, FlattenSmall
<1> QED BY <1>2, <1>3, <1>4 DEF Flat

DaysOf   == [d \in Day |-> d.entries]
BlocksOf == [b \in Block |-> BlockEntries(b)]

\* The entries of all days up to a block.
DayEntries(b) == Flat(DaysOf, b)

LEMMA Holders ==
  /\ DaysOf \in [Day -> Seq(Entry)]
  /\ BlocksOf \in [Block -> Seq(Entry)]
  /\ \A c \in Seq(Block) : ChainEntries(c) = Flat(BlocksOf, c)
<1>1. \A d \in Day : d.entries \in Seq(Entry)
  BY DEF Day
<1>2. ASSUME NEW b \in Block
      PROVE  BlockEntries(b) \in Seq(Entry)
  <2>1. CASE b = Genesis
    BY <2>1 DEF BlockEntries
  <2>2. CASE b # Genesis
    <3>1. b \in Seq(Day) /\ b # <<>>
      BY <2>2 DEF Block, Genesis
    <3>2. Last(b) \in Day
      BY <3>1 DEF Last
    <3> QED BY <1>1, <2>2, <3>2 DEF BlockEntries
  <2> QED BY <2>1, <2>2
<1>3. ASSUME NEW c \in Seq(Block)
      PROVE  ChainEntries(c) = Flat(BlocksOf, c)
  <2>1. \A i \in DOMAIN c : BlocksOf[c[i]] = BlockEntries(c[i])
    BY DEF BlocksOf
  <2>2. [i \in DOMAIN c |-> BlockEntries(c[i])] = [i \in DOMAIN c |-> BlocksOf[c[i]]]
    BY <2>1
  <2> QED BY <2>2 DEF ChainEntries, Flat
<1> QED BY <1>1, <1>2, <1>3 DEF DaysOf, BlocksOf

LEMMA ChainConcat ==
  ASSUME NEW a \in Seq(Block), NEW b \in Seq(Block), NEW e
  PROVE  /\ ChainEntries(a) \in Seq(Entry)
         /\ ChainEntries(a \o b) = ChainEntries(a) \o ChainEntries(b)
         /\ Copies(a, e) \in Nat
         /\ Copies(a \o b, e) = Copies(a, e) + Copies(b, e)
<1> PICK c : c = a \o b
  OBVIOUS
<1>1. c \in Seq(Block)
  OBVIOUS
<1>2. /\ Flat(BlocksOf, a) \in Seq(Entry) /\ Flat(BlocksOf, b) \in Seq(Entry)
      /\ Flat(BlocksOf, a \o b) = Flat(BlocksOf, a) \o Flat(BlocksOf, b)
  <2>1. GivesLists(BlocksOf, Block, Entry)
    BY Holders DEF GivesLists
  <2> QED BY <2>1, FlatConcat
<1>3. /\ ChainEntries(a) = Flat(BlocksOf, a) /\ ChainEntries(b) = Flat(BlocksOf, b)
      /\ ChainEntries(c) = Flat(BlocksOf, c)
  BY <1>1, Holders
<1>4. ChainEntries(a) \in Seq(Entry) /\ ChainEntries(b) \in Seq(Entry)
      /\ ChainEntries(c) = ChainEntries(a) \o ChainEntries(b)
  BY <1>2, <1>3
<1>5. Count(ChainEntries(a) \o ChainEntries(b), e)
        = Count(ChainEntries(a), e) + Count(ChainEntries(b), e)
      /\ Count(ChainEntries(a), e) \in Nat
  BY <1>4, CountConcat, CountIsNat
<1> QED BY <1>4, <1>5 DEF Copies

LEMMA ChainSmall ==
  ASSUME NEW b \in Block, NEW e
  PROVE  /\ ChainEntries(<<>>) = <<>> /\ ChainEntries(<<b>>) = BlockEntries(b)
         /\ BlockEntries(b) \in Seq(Entry)
         /\ BlockEntries(Genesis) = <<>>
         /\ Copies(<<>>, e) = 0 /\ Copies(<<Genesis>>, e) = 0
<1>1. <<>> \in Seq(Block) /\ <<b>> \in Seq(Block)
  OBVIOUS
<1>2. Genesis \in Block
  BY DEF Genesis, Block
<1>3. \A g \in Block : /\ ChainEntries(<<g>>) = BlockEntries(g)
                       /\ BlockEntries(g) \in Seq(Entry)
                       /\ ChainEntries(<<>>) = <<>>
  <2> TAKE g \in Block
  <2>1. <<>> \in Seq(Block) /\ <<g>> \in Seq(Block)
    OBVIOUS
  <2>2. Flat(BlocksOf, <<>>) = <<>> /\ Flat(BlocksOf, <<g>>) = BlocksOf[g]
    <3>1. GivesLists(BlocksOf, Block, Entry)
      BY Holders DEF GivesLists
    <3> QED BY <3>1, FlatSmall
  <2>3. BlocksOf[g] = BlockEntries(g) /\ BlocksOf[g] \in Seq(Entry)
    BY Holders DEF BlocksOf
  <2> QED BY <2>1, <2>2, <2>3, Holders
<1>4. BlockEntries(Genesis) = <<>>
  BY DEF BlockEntries
<1>5. ChainEntries(<<Genesis>>) = <<>> /\ ChainEntries(<<>>) = <<>>
  BY <1>2, <1>3, <1>4
<1> QED BY <1>3, <1>4, <1>5, CountNone DEF Copies

\* A block has the entries of the block before it, and its own.
LEMMA DaysOfBlock ==
  ASSUME NEW b \in Block, NEW e
  PROVE  /\ Count(DayEntries(b), e) \in Nat
         /\ Count(DayEntries(Genesis), e) = 0
         /\ b # Genesis =>
              /\ PrevHash(b) \in Block
              /\ Count(DayEntries(b), e)
                   = Count(DayEntries(PrevHash(b)), e) + Count(BlockEntries(b), e)
<1>1. GivesLists(DaysOf, Day, Entry)
  BY Holders DEF GivesLists
<1>2. b \in Seq(Day) /\ <<>> \in Seq(Day) /\ Genesis = <<>>
  BY DEF Block, Genesis
<1>3. \A s \in Seq(Day) : Flat(DaysOf, s) \in Seq(Entry)
  BY <1>1, FlatConcat
<1>both. \A s, t \in Seq(Day) : Flat(DaysOf, s \o t) = Flat(DaysOf, s) \o Flat(DaysOf, t)
  BY <1>1, FlatConcat
<1>4. \A s \in Seq(Day) : Count(DayEntries(s), e) \in Nat
  BY <1>3, CountIsNat DEF DayEntries
<1>5. Count(DayEntries(Genesis), e) = 0
  <2>1. \A d \in Day : Flat(DaysOf, <<>>) = <<>>
    BY <1>1, FlatSmall
  <2>2. [date |-> 0, entries |-> <<>>] \in Day
    BY DEF Day
  <2>3. Flat(DaysOf, <<>>) = <<>>
    BY <2>1, <2>2
  <2> QED BY <1>2, <2>3, CountNone DEF DayEntries
<1>6. ASSUME b # Genesis
      PROVE  /\ PrevHash(b) \in Block
             /\ Count(DayEntries(b), e)
                  = Count(DayEntries(PrevHash(b)), e) + Count(BlockEntries(b), e)
  <2> PICK f : f = Front(b)
    OBVIOUS
  <2> PICK d : d = Last(b)
    OBVIOUS
  <2> PICK x : x = <<d>>
    OBVIOUS
  <2>1. f \in Seq(Day) /\ d \in Day /\ b = Append(f, d)
    BY <1>2, <1>6 DEF Front, Last
  <2>2. b = f \o x /\ x \in Seq(Day)
    BY <2>1
  <2>3. Flat(DaysOf, f \o x) = Flat(DaysOf, f) \o Flat(DaysOf, x)
        /\ Flat(DaysOf, f) \in Seq(Entry) /\ Flat(DaysOf, x) \in Seq(Entry)
    BY <1>3, <1>both, <2>1, <2>2
  <2>4. Flat(DaysOf, x) = DaysOf[d]
    BY <1>1, <2>1, FlatSmall
  <2>5. DaysOf[d] = BlockEntries(b)
    BY <1>6, <2>1 DEF DaysOf, BlockEntries
  <2>6. Count(Flat(DaysOf, f) \o Flat(DaysOf, x), e)
          = Count(Flat(DaysOf, f), e) + Count(Flat(DaysOf, x), e)
    BY <2>3, CountConcat
  <2>7. Count(DayEntries(b), e) = Count(DayEntries(f), e) + Count(BlockEntries(b), e)
    BY <2>2, <2>3, <2>4, <2>5, <2>6, Zenon DEF DayEntries
  <2> QED BY <2>1, <2>7 DEF PrevHash, Block
<1> QED BY <1>2, <1>4, <1>5, <1>6 DEF Block

-----------------------------------------------------------------------------
\* Chains that begin with other chains.

Extends(c, g) == Len(c) <= Len(g) /\ \A i \in 1..Len(c) : g[i] = c[i]

LEMMA PrefixOf ==
  ASSUME NEW g \in Seq(Block), NEW n \in 0..Len(g), NEW e
  PROVE  /\ SubSeq(g, 1, n) \in Seq(Block) /\ Len(SubSeq(g, 1, n)) = n
         /\ Extends(SubSeq(g, 1, n), g)
         /\ After(g, n) \in Seq(Block)
         /\ Copies(g, e) = Copies(SubSeq(g, 1, n), e) + Copies(After(g, n), e)
         /\ Copies(SubSeq(g, 1, n), e) <= Copies(g, e)
<1>1. /\ SubSeq(g, 1, n) \in Seq(Block) /\ Len(SubSeq(g, 1, n)) = n
      /\ After(g, n) \in Seq(Block)
      /\ g = SubSeq(g, 1, n) \o After(g, n)
  BY SplitAt DEF After
<1>2. \A i \in 1..n : SubSeq(g, 1, n)[i] = g[i]
  OBVIOUS
<1>3. n <= Len(g)
  OBVIOUS
<1>4. Extends(SubSeq(g, 1, n), g)
  BY <1>1, <1>2, <1>3 DEF Extends
<1>5. /\ Copies(SubSeq(g, 1, n) \o After(g, n), e)
           = Copies(SubSeq(g, 1, n), e) + Copies(After(g, n), e)
      /\ Copies(SubSeq(g, 1, n), e) \in Nat /\ Copies(After(g, n), e) \in Nat
  BY <1>1, ChainConcat
<1>6. Copies(SubSeq(g, 1, n), e) <= Copies(g, e)
  <2>1. PICK x \in Nat : x = Copies(SubSeq(g, 1, n), e)
    BY <1>5
  <2>2. PICK y \in Nat : y = Copies(After(g, n), e)
    BY <1>5
  <2>3. Copies(g, e) = x + y
    BY <1>1, <1>5, <2>1, <2>2, Zenon
  <2>4. x <= x + y
    OBVIOUS
  <2> QED BY <2>1, <2>3, <2>4, Zenon
<1> QED BY <1>1, <1>4, <1>5, <1>6

LEMMA ExtendsIsPrefix ==
  ASSUME NEW c \in Seq(Block), NEW g \in Seq(Block), Extends(c, g), NEW e
  PROVE  /\ Len(c) \in 0..Len(g) /\ c = SubSeq(g, 1, Len(c))
         /\ Copies(c, e) <= Copies(g, e)
<1>1. Len(c) \in 0..Len(g)
  BY DEF Extends
<1> PICK n : n = Len(c)
  OBVIOUS
<1> PICK p : p = SubSeq(g, 1, n)
  OBVIOUS
<1>2. p \in Seq(Block) /\ Len(p) = n /\ Extends(p, g) /\ Copies(p, e) <= Copies(g, e)
  BY <1>1, PrefixOf
<1>3. \A i \in 1..Len(c) : c[i] = p[i]
  BY <1>2 DEF Extends
<1>4. c = p
  BY <1>2, <1>3, SeqEqual
<1> QED BY <1>1, <1>2, <1>4

LEMMA LinkedPrefix ==
  ASSUME NEW c \in Seq(Block), NEW g \in Seq(Block), Extends(c, g), Linked(g)
  PROVE  Linked(c)
<1> SUFFICES ASSUME NEW i \in 2..Len(c)
             PROVE  c[i] # Genesis /\ PrevHash(c[i]) = c[i - 1]
  BY DEF Linked
<1>1. Len(c) \in Nat /\ Len(g) \in Nat
  OBVIOUS
<1>2. i \in 1..Len(c) /\ i - 1 \in 1..Len(c) /\ i \in 2..Len(g)
  BY <1>1 DEF Extends
<1> QED BY <1>2 DEF Extends, Linked

LEMMA LinkedExtension ==
  ASSUME NEW c \in Seq(Block), NEW g \in Seq(Block), Extends(c, g), Linked(c),
         \A i \in Len(c) + 1 .. Len(g) : g[i] # Genesis /\ PrevHash(g[i]) = g[i - 1]
  PROVE  Linked(g)
<1> SUFFICES ASSUME NEW i \in 2..Len(g)
             PROVE  g[i] # Genesis /\ PrevHash(g[i]) = g[i - 1]
  BY DEF Linked
<1>1. Len(c) \in Nat /\ Len(g) \in Nat
  OBVIOUS
<1>2. CASE i \in 1..Len(c)
  <2>1. i \in 2..Len(c) /\ i - 1 \in 1..Len(c)
    BY <1>1, <1>2
  <2> QED BY <1>2, <2>1 DEF Extends, Linked
<1>3. CASE i \notin 1..Len(c)
  <2>1. i \in Len(c) + 1 .. Len(g)
    BY <1>1, <1>3
  <2> QED BY <2>1
<1> QED BY <1>2, <1>3

LEMMA CopiesSum ==
  \A a, b \in Seq(Block) : \A e : Copies(a \o b, e) = Copies(a, e) + Copies(b, e)
<1> TAKE a, b \in Seq(Block)
<1> TAKE e
<1> QED BY ChainConcat

LEMMA GenesisHolds ==
  \A e : Copies(<<Genesis>>, e) = 0 /\ Count(DayEntries(Genesis), e) = 0
<1> TAKE e
<1>1. Genesis \in Block
  BY DEF Genesis, Block
<1> QED BY <1>1, ChainSmall, DaysOfBlock

LEMMA EmptyHolds ==
  \A e : Copies(<<>>, e) = 0
<1> TAKE e
<1>1. Genesis \in Block
  BY DEF Genesis, Block
<1> QED BY <1>1, ChainSmall

\* Up to each block, a chain that verifies holds what the days of the block hold.
LEMMA LinkedEntries ==
  ASSUME NEW c \in Seq(Block), Linked(c), c # <<>>, c[1] = Genesis, NEW e
  PROVE  /\ \A i \in 1..Len(c) : Count(DayEntries(c[i]), e) <= Copies(c, e)
         /\ Copies(c, e) = Count(DayEntries(c[Len(c)]), e)
<1> DEFINE N == Len(c)
           T == {n \in Nat : n + 1 <= N =>
                   Copies(SubSeq(c, 1, n + 1), e) = Count(DayEntries(c[n + 1]), e)}
<1>1. N \in Nat /\ N >= 1 /\ \A i \in 1..N : c[i] \in Block
  OBVIOUS
<1>2. \A n \in 0..N : SubSeq(c, 1, n) \in Seq(Block)
  BY PrefixOf
<1>3. 0 \in T
  <2>1. 1 \in 1..N
    BY <1>1
  <2>2. SubSeq(c, 1, 1) = <<Genesis>>
    <3> PICK s : s = SubSeq(c, 1, 1)
      OBVIOUS
    <3>1. s \in Seq(Block) /\ Len(s) = 1 /\ s[1] = c[1]
      BY <1>1
    <3>2. s = <<s[1]>>
      BY <3>1, SmallLists
    <3> QED BY <3>1, <3>2
  <2>3. Copies(<<Genesis>>, e) = 0 /\ Count(DayEntries(Genesis), e) = 0
    BY GenesisHolds
  <2>4. 0 + 1 = 1 /\ 0 \in Nat
    OBVIOUS
  <2>5. Copies(SubSeq(c, 1, 0 + 1), e) = Count(DayEntries(c[0 + 1]), e)
    BY <2>2, <2>3, <2>4, Zenon
  <2> QED BY <2>4, <2>5, Zenon
<1>4. ASSUME NEW n \in T
      PROVE  n + 1 \in T
  <2>1. n \in Nat
    OBVIOUS
  <2> SUFFICES ASSUME (n + 1) + 1 <= N
               PROVE  Copies(SubSeq(c, 1, (n + 1) + 1), e) = Count(DayEntries(c[(n + 1) + 1]), e)
    BY <2>1
  <2> PICK m : m = n + 1
    OBVIOUS
  <2>2. m \in 1..N /\ m + 1 \in 2..N /\ m + 1 \in 1..N /\ (m + 1) - 1 = m /\ m \in 0..N
    BY <1>1, <2>1
  <2>3. Copies(SubSeq(c, 1, m), e) = Count(DayEntries(c[m]), e)
    BY <1>1, <2>2
  <2>4. c[m + 1] # Genesis /\ PrevHash(c[m + 1]) = c[m]
    BY <2>2 DEF Linked
  <2> PICK b : b = c[m + 1]
    OBVIOUS
  <2>5. b \in Block /\ <<b>> \in Seq(Block)
    BY <1>1, <2>2
  <2>6. Count(DayEntries(b), e) = Count(DayEntries(c[m]), e) + Count(BlockEntries(b), e)
    BY <2>4, <2>5, DaysOfBlock
  <2>7. SubSeq(c, 1, m + 1) = SubSeq(c, 1, m) \o <<b>>
    BY <2>2
  <2>8. Copies(SubSeq(c, 1, m) \o <<b>>, e) = Copies(SubSeq(c, 1, m), e) + Copies(<<b>>, e)
    <3>1. SubSeq(c, 1, m) \in Seq(Block) /\ <<b>> \in Seq(Block)
      BY <1>2, <2>2, <2>5
    <3> HIDE DEF T, N
    <3> QED BY <3>1, CopiesSum, ZenonT(30)
  <2>9. Copies(<<b>>, e) = Count(BlockEntries(b), e)
    BY <2>5, ChainSmall DEF Copies
  <2> QED BY <2>3, <2>6, <2>7, <2>8, <2>9
<1>5. T = Nat
  <2>1. T \in SUBSET Nat
    OBVIOUS
  <2> HIDE DEF T
  <2> QED BY <1>3, <1>4, <2>1, Induction
<1>6. ASSUME NEW i \in 1..N
      PROVE  Copies(SubSeq(c, 1, i), e) = Count(DayEntries(c[i]), e)
  <2>1. i - 1 \in Nat /\ (i - 1) + 1 = i /\ i <= N
    BY <1>1
  <2>2. i - 1 \in T
    BY <1>5, <2>1
  <2> QED BY <2>1, <2>2
<1>7. ASSUME NEW i \in 1..N
      PROVE  Count(DayEntries(c[i]), e) <= Copies(c, e)
  <2>1. Copies(SubSeq(c, 1, i), e) <= Copies(c, e)
    BY <1>1, PrefixOf
  <2> QED BY <1>6, <2>1
<1>8. SubSeq(c, 1, N) = c /\ N \in 1..N
  BY <1>1
<1>9. Copies(c, e) = Count(DayEntries(c[N]), e)
  BY <1>6, <1>8
<1> QED BY <1>7, <1>9

-----------------------------------------------------------------------------
\* The days of a list of entries and the blocks they become.

DatesIn(es) == {Date[e] : e \in ToSet(es)}

DayOn(es, x) ==
  [date |-> x, entries |-> Picked(es, {j \in DOMAIN es : Date[es[j]] = x})]

DaysIn(es) ==
  LET dates == Ascending(DatesIn(es)) IN [k \in DOMAIN dates |-> DayOn(es, dates[k])]

NewBlocks(c, es) ==
  [k \in DOMAIN DaysIn(es) |-> Last(c) \o SubSeq(DaysIn(es), 1, k)]

LEMMA AppendDaysParts ==
  \A c, es : AppendDays(c, es) = c \o NewBlocks(c, es)
BY DEF AppendDays, NewBlocks, DaysIn, DayOn, DatesIn

LEMMA DatesFinite ==
  ASSUME NEW es \in Seq(Entry)
  PROVE  DatesIn(es) \in SUBSET Int /\ IsFiniteSet(DatesIn(es))
<1>1. DOMAIN es = 1..Len(es) /\ Len(es) \in Nat /\ \A k \in 1..Len(es) : es[k] \in Entry
  OBVIOUS
<1>2. \A e \in Entry : Date[e] \in Nat
  BY DateAssumption
<1> DEFINE f == [k \in 1..Len(es) |-> Date[es[k]]]
<1>3. \A x \in DatesIn(es) : \E k \in 1..Len(es) : f[k] = x
  BY <1>1 DEF DatesIn, ToSet
<1>4. \A k \in 1..Len(es) : f[k] \in DatesIn(es) /\ f[k] \in Nat
  BY <1>1, <1>2 DEF DatesIn, ToSet
<1>5. f \in [1..Len(es) -> DatesIn(es)]
  BY <1>4
<1>6. DatesIn(es) \in SUBSET Int
  BY <1>3, <1>4
<1> HIDE DEF f
<1>7. f \in Surjection(1..Len(es), DatesIn(es))
  BY <1>3, <1>5 DEF Surjection
<1>8. IsFiniteSet(1..Len(es))
  BY <1>1, FS_Interval
<1> QED BY <1>6, <1>7, <1>8, FS_Surjection

LEMMA DayTaken ==
  ASSUME NEW es \in Seq(Entry), NEW x \in Nat, NEW e \in Entry
  PROVE  /\ DayOn(es, x) \in Day
         /\ DayOn(es, x).entries \in Seq(Entry)
         /\ Count(DayOn(es, x).entries, e) = IF Date[e] = x THEN Count(es, e) ELSE 0
<1> PICK Y : Y = {y \in Entry : Date[y] = x}
  OBVIOUS
<1> PICK P : P = {j \in DOMAIN es : Date[es[j]] = x}
  OBVIOUS
<1>1. P \in SUBSET DOMAIN es /\ \A j \in DOMAIN es : j \in P <=> es[j] \in Y
  OBVIOUS
<1>2. e \in Y <=> Date[e] = x
  OBVIOUS
<1>3. DayOn(es, x) = [date |-> x, entries |-> Picked(es, P)]
  BY DEF DayOn
<1>4. /\ Picked(es, P) \in Seq(Entry)
      /\ Count(Picked(es, P), e) = IF e \in Y THEN Count(es, e) ELSE 0
  BY <1>1, CountPicked, SMTT(30)
<1>5. DayOn(es, x).entries = Picked(es, P)
  BY <1>3
<1>6. DayOn(es, x) \in Day
  BY <1>3, <1>4 DEF Day
<1> QED BY <1>2, <1>4, <1>5, <1>6, Zenon

LEMMA DaysFacts ==
  ASSUME NEW es \in Seq(Entry)
  PROVE  \E n \in Nat : \E dates \in [1..n -> Nat] :
           /\ DaysIn(es) \in Seq(Day) /\ Len(DaysIn(es)) = n
           /\ \A k \in 1..n : DaysIn(es)[k] = DayOn(es, dates[k])
           /\ \A i, j \in 1..n : i < j => dates[i] < dates[j]
           /\ \A e \in ToSet(es) : \E k \in 1..n : dates[k] = Date[e]
<1> DEFINE S == DatesIn(es)
           A == Ascending(DatesIn(es))
           n == Cardinality(DatesIn(es))
           L == DaysIn(es)
<1>1. /\ n \in Nat /\ DOMAIN A = 1..n
      /\ \A k \in 1..n : A[k] \in S
      /\ \A i, j \in 1..n : i < j => A[i] < A[j]
      /\ \A x \in S : \E k \in 1..n : A[k] = x
      /\ A \in Seq(S) /\ Len(A) = n
  <2>1. S \in SUBSET Int /\ IsFiniteSet(S)
    BY DatesFinite
  <2>2. /\ n \in Nat /\ DOMAIN A = 1..n
        /\ \A k \in 1..n : A[k] \in S
        /\ \A i, j \in 1..n : i < j => A[i] < A[j]
        /\ \A x \in S : \E k \in 1..n : A[k] = x
        /\ A \in Seq(S) /\ Len(A) = n
    BY <2>1, AscendingOrder
  <2> QED BY <2>2
<1>2. /\ DOMAIN L = DOMAIN A /\ L = [k \in DOMAIN A |-> L[k]]
      /\ \A k \in DOMAIN A : L[k] = DayOn(es, A[k])
  BY DEF DaysIn
<1>3. \A e \in ToSet(es) : Date[e] \in S
  BY DEF DatesIn
<1>4. \A x \in S : x \in Nat
  <2>1. \A e \in ToSet(es) : e \in Entry
    BY DEF ToSet
  <2> QED BY <2>1, DateAssumption DEF DatesIn
<1> HIDE DEF S, A, n, L
<1>5. \A k \in 1..n : A[k] \in Nat
  BY <1>1, <1>4
<1>6. \A k \in 1..n : L[k] \in Day
  <2> TAKE k \in 1..n
  <2>1. A[k] \in Nat /\ L[k] = DayOn(es, A[k])
    BY <1>1, <1>2, <1>5
  <2>2. PICK x : x = A[k]
    OBVIOUS
  <2>3. DayOn(es, x) \in Day
    <3>1. CASE es = <<>>
      <4>1. DOMAIN es = {}
        BY <3>1
      <4>2. \A y : y \notin ToSet(es)
        BY <4>1 DEF ToSet
      <4>3. \A y : y \notin S
        BY <4>2 DEF S, DatesIn
      <4> QED BY <1>1, <4>3
    <3>2. CASE es # <<>>
      <4>1. es[1] \in Entry
        BY <3>2
      <4> QED BY <2>1, <2>2, <4>1, DayTaken
    <3> QED BY <3>1, <3>2
  <2> QED BY <2>1, <2>2, <2>3
<1>7. L \in Seq(Day) /\ Len(L) = n
  <2>1. L \in [1..n -> Day]
    BY <1>1, <1>2, <1>6
  <2> QED BY <1>1, <2>1
<1>8. A \in [1..n -> Nat]
  BY <1>1, <1>5
<1>9. /\ L \in Seq(Day) /\ Len(L) = n
      /\ \A k \in 1..n : L[k] = DayOn(es, A[k])
      /\ \A i, j \in 1..n : i < j => A[i] < A[j]
      /\ \A e \in ToSet(es) : \E k \in 1..n : A[k] = Date[e]
  BY <1>1, <1>2, <1>3, <1>7
<1> QED BY <1>1, <1>8, <1>9 DEF L

LEMMA DayLists ==
  ASSUME NEW L \in Seq(Day)
  PROVE  \E l \in Seq(Seq(Entry)) :
           /\ Len(l) = Len(L)
           /\ \A k \in 1..Len(L) : l[k] = DaysOf[L[k]]
           /\ Flat(DaysOf, L) = FlattenSeq(l)
<1>1. GivesLists(DaysOf, Day, Entry)
  BY Holders DEF GivesLists
<1> QED BY <1>1, FlatLists

LEMMA CountDays ==
  ASSUME NEW es \in Seq(Entry), NEW e \in Entry
  PROVE  Count(Flat(DaysOf, DaysIn(es)), e) = Count(es, e)
<1> PICK L : L = DaysIn(es)
  OBVIOUS
<1>length. PICK n \in Nat : \E dates \in [1..n -> Nat] :
        /\ L \in Seq(Day) /\ Len(L) = n
        /\ \A k \in 1..n : L[k] = DayOn(es, dates[k])
        /\ \A i, j \in 1..n : i < j => dates[i] < dates[j]
        /\ \A y \in ToSet(es) : \E k \in 1..n : dates[k] = Date[y]
  BY DaysFacts
<1>1. PICK dates \in [1..n -> Nat] :
        /\ L \in Seq(Day) /\ Len(L) = n
        /\ \A k \in 1..n : L[k] = DayOn(es, dates[k])
        /\ \A i, j \in 1..n : i < j => dates[i] < dates[j]
        /\ \A y \in ToSet(es) : \E k \in 1..n : dates[k] = Date[y]
  BY <1>length
<1>3. PICK l \in Seq(Seq(Entry)) :
        /\ Len(l) = n
        /\ \A k \in 1..n : l[k] = DaysOf[L[k]]
        /\ Flat(DaysOf, L) = FlattenSeq(l)
  <2>1. \E l \in Seq(Seq(Entry)) :
          /\ Len(l) = Len(L)
          /\ \A k \in 1..Len(L) : l[k] = DaysOf[L[k]]
          /\ Flat(DaysOf, L) = FlattenSeq(l)
    BY <1>1, DayLists, Zenon
  <2> QED BY <1>1, <2>1, Zenon
<1>4. PICK p \in [0..n -> Seq(Entry)] :
        /\ p[0] = <<>>
        /\ \A i \in 1..n : p[i] = p[i - 1] \o l[i]
        /\ FlattenSeq(l) = p[n]
  <2>1. \E p \in [0..Len(l) -> Seq(Entry)] :
          /\ p[0] = <<>>
          /\ \A i \in 1..Len(l) : p[i] = p[i - 1] \o l[i]
          /\ FlattenSeq(l) = p[Len(l)]
    BY FlattenRuns
  <2> QED BY <1>3, <2>1, Zenon
<1>5. PICK d : d = Date[e]
  OBVIOUS
<1>6. PICK m \in Nat : m = Count(es, e)
  BY CountIsNat
<1>7. ASSUME NEW k \in 1..n
      PROVE  l[k] \in Seq(Entry) /\ Count(l[k], e) = IF dates[k] = d THEN m ELSE 0
  <2>1. PICK x \in Nat : x = dates[k]
    OBVIOUS
  <2>2. DayOn(es, x) \in Day /\ DayOn(es, x).entries \in Seq(Entry)
        /\ Count(DayOn(es, x).entries, e) = IF d = x THEN m ELSE 0
    BY <1>5, <1>6, DayTaken
  <2>3. l[k] = DayOn(es, x).entries
    <3>1. L[k] = DayOn(es, x)
      BY <1>1, <2>1
    <3>2. DaysOf[DayOn(es, x)] = DayOn(es, x).entries
      BY <2>2 DEF DaysOf
    <3> QED BY <1>3, <3>1, <3>2
  <2> QED BY <2>1, <2>2, <2>3
<1> DEFINE U == {k \in Nat : k <= n =>
                   Count(p[k], e) = IF \E j \in 1..k : dates[j] = d THEN m ELSE 0}
<1>8. 0 \in U
  <2>1. Count(p[0], e) = 0
    BY <1>4, CountNone
  <2> QED BY <2>1
<1>9. ASSUME NEW k \in U
      PROVE  k + 1 \in U
  <2>1. k \in Nat
    OBVIOUS
  <2> SUFFICES ASSUME k + 1 <= n
               PROVE  Count(p[k + 1], e) = IF \E j \in 1..(k + 1) : dates[j] = d THEN m ELSE 0
    BY <2>1
  <2>2. k + 1 \in 1..n /\ (k + 1) - 1 = k /\ k \in 0..n /\ k <= n
    BY <2>1
  <2>3. Count(p[k], e) = IF \E j \in 1..k : dates[j] = d THEN m ELSE 0
    BY <2>2
  <2>4. p[k + 1] = p[k] \o l[k + 1]
    BY <1>4, <2>2
  <2>5. Count(p[k] \o l[k + 1], e) = Count(p[k], e) + Count(l[k + 1], e)
    <3>1. p[k] \in Seq(Entry) /\ l[k + 1] \in Seq(Entry)
      BY <1>7, <2>2
    <3> HIDE DEF U
    <3> QED BY <3>1, CountConcat
  <2>6. Count(l[k + 1], e) = IF dates[k + 1] = d THEN m ELSE 0
    BY <1>7, <2>2
  <2>7. \A j \in 1..k : j \in 1..n /\ j < k + 1
    BY <2>2
  <2>8. (\E j \in 1..k : dates[j] = d) => dates[k + 1] # d
    <3>1. \A j \in 1..k : dates[j] < dates[k + 1] /\ dates[j] \in Nat
      BY <1>1, <2>2, <2>7
    <3> QED BY <3>1
  <2>9. (\E j \in 1..(k + 1) : dates[j] = d)
          <=> (\E j \in 1..k : dates[j] = d) \/ dates[k + 1] = d
    BY <2>1, SMTT(30)
  <2> HIDE DEF U
  <2>10. CASE dates[k + 1] = d
    <3>1. Count(p[k], e) = 0 /\ Count(l[k + 1], e) = m
      BY <2>3, <2>6, <2>8, <2>10
    <3>2. Count(p[k + 1], e) = m
      BY <2>4, <2>5, <3>1
    <3> QED BY <2>9, <2>10, <3>2
  <2>11. CASE dates[k + 1] # d
    <3>1. Count(l[k + 1], e) = 0
      BY <2>6, <2>11
    <3>2. Count(p[k], e) \in Nat
      BY <2>3
    <3>3. Count(p[k + 1], e) = Count(p[k], e)
      BY <2>4, <2>5, <3>1, <3>2
    <3> QED BY <2>3, <2>9, <2>11, <3>3
  <2> QED BY <2>10, <2>11
<1>10. U = Nat
  <2>1. U \in SUBSET Nat
    OBVIOUS
  <2> HIDE DEF U
  <2> QED BY <1>8, <1>9, <2>1, Induction
<1>11. Count(p[n], e) = IF \E j \in 1..n : dates[j] = d THEN m ELSE 0
  <2>1. n <= n
    OBVIOUS
  <2>2. n \in U
    <3> HIDE DEF U
    <3> QED BY <1>10
  <2> QED BY <2>1, <2>2
<1>12. (\E j \in 1..n : dates[j] = d) \/ m = 0
  <2>1. e \in ToSet(es) => \E k \in 1..n : dates[k] = d
    BY <1>1, <1>5
  <2>2. e \notin ToSet(es) => m = 0
    BY <1>6, CountIsNat
  <2> QED BY <2>1, <2>2
<1>13. Count(p[n], e) = m
  BY <1>11, <1>12
<1> QED BY <1>3, <1>4, <1>6, <1>13, Zenon

\* A block and some days more.
Grow(b, L, k) == b \o SubSeq(L, 1, k)

LEMMA Grown ==
  ASSUME NEW b \in Seq(Day), NEW L \in Seq(Day), NEW k \in 1..Len(L)
  PROVE  /\ Grow(b, L, k) \in Seq(Day) /\ Grow(b, L, k) # <<>> /\ Last(Grow(b, L, k)) = L[k]
         /\ Front(Grow(b, L, k)) = Grow(b, L, k - 1)
         /\ k = 1 => Front(Grow(b, L, k)) = b
<1> PICK x : x = b \o SubSeq(L, 1, k)
  OBVIOUS
<1> PICK a : a = SubSeq(L, 1, k - 1)
  OBVIOUS
<1> PICK d : d = L[k]
  OBVIOUS
<1>1. a \in Seq(Day) /\ d \in Day
  OBVIOUS
<1> PICK z : z = SubSeq(L, 1, k)
  OBVIOUS
<1>2. z = Append(a, d)
  OBVIOUS
<1> PICK y : y = b \o a
  OBVIOUS
<1>3. y \in Seq(Day)
  BY <1>1
<1>4. x = Append(y, d)
  <2> PICK w : w = Append(y, d)
    OBVIOUS
  <2>1. Same(w, b \o z)
    BY <1>1, <1>2, AppendJoined, Zenon
  <2> QED BY <2>1, Zenon DEF Same
<1>5. Append(y, d) \in Seq(Day) /\ Append(y, d) # <<>>
      /\ Front(Append(y, d)) = y /\ Last(Append(y, d)) = d
  BY <1>1, <1>3, AppendEnds
<1>6. k = 1 => y = b
  <2>1. k = 1 => a = <<>>
    OBVIOUS
  <2> QED BY <2>1
<1> QED BY <1>4, <1>5, <1>6, Zenon DEF Grow

LEMMA NewBlocksFacts ==
  ASSUME NEW c \in Seq(Block), c # <<>>, NEW es \in Seq(Entry)
  PROVE  \E t \in Seq(Block) :
           /\ NewBlocks(c, es) = t
           /\ \A k \in 1..Len(t) : t[k] # Genesis
           /\ \A k \in 1..Len(t) :
                PrevHash(t[k]) = IF k = 1 THEN c[Len(c)] ELSE t[k - 1]
           /\ \A e \in Entry : Copies(t, e) = Count(es, e)
<1> PICK L : L = DaysIn(es)
  OBVIOUS
<1>1. L \in Seq(Day)
  BY DaysFacts
<1> PICK b : b = Last(c)
  OBVIOUS
<1>2. b \in Seq(Day) /\ b = c[Len(c)]
  <2>1. c[Len(c)] \in Block
    OBVIOUS
  <2> QED BY <2>1 DEF Last, Block
<1> PICK n \in Nat : n = Len(L)
  BY <1>1
<1> PICK t : t = [k \in 1..n |-> Grow(b, L, k)]
  OBVIOUS
<1>3. DOMAIN L = 1..n
  BY <1>1
<1>4. NewBlocks(c, es) = t
  BY <1>3 DEF NewBlocks, Grow
<1>5. ASSUME NEW k \in 1..n
      PROVE  /\ t[k] \in Seq(Day) /\ t[k] # <<>> /\ Last(t[k]) = L[k]
             /\ Front(t[k]) = Grow(b, L, k - 1)
             /\ k = 1 => Front(t[k]) = b
  <2>1. t[k] = Grow(b, L, k)
    OBVIOUS
  <2>2. k \in 1..Len(L)
    OBVIOUS
  <2> QED BY <1>1, <1>2, <2>1, <2>2, Grown
<1>6. t \in [1..n -> Block] /\ t \in Seq(Block) /\ Len(t) = n
  BY <1>5 DEF Block
<1>7. ASSUME NEW k \in 1..n
      PROVE  PrevHash(t[k]) = IF k = 1 THEN c[Len(c)] ELSE t[k - 1]
  <2>1. CASE k = 1
    BY <1>2, <1>5, <2>1 DEF PrevHash
  <2>2. CASE k # 1
    <3>1. k - 1 \in 1..n
      BY <2>2
    <3>2. t[k - 1] = Grow(b, L, k - 1)
      BY <3>1
    <3> QED BY <1>5, <2>2, <3>2 DEF PrevHash
  <2> QED BY <2>1, <2>2
<1>8. ASSUME NEW k \in 1..n
      PROVE  BlocksOf[t[k]] = DaysOf[L[k]]
  <2>1. t[k] \in Block
    BY <1>6
  <2>2. L[k] \in Day
    BY <1>1, <1>3
  <2>3. t[k] # Genesis /\ Last(t[k]) = L[k]
    BY <1>5 DEF Genesis
  <2> QED BY <2>1, <2>2, <2>3 DEF BlocksOf, DaysOf, BlockEntries
<1>9. [k \in DOMAIN t |-> BlocksOf[t[k]]] = [k \in DOMAIN L |-> DaysOf[L[k]]]
  <2>1. DOMAIN t = 1..n
    OBVIOUS
  <2> QED BY <1>3, <1>8, <2>1
<1>10. Flat(BlocksOf, t) = Flat(DaysOf, L)
  BY <1>9, Zenon DEF Flat
<1>11. ChainEntries(t) = Flat(DaysOf, L)
  BY <1>6, <1>10, Holders
<1>12. \A e \in Entry : Copies(t, e) = Count(es, e)
  BY <1>11, CountDays DEF Copies
<1>13. \A k \in 1..n : t[k] # Genesis
  BY <1>5 DEF Genesis
<1> QED BY <1>4, <1>6, <1>7, <1>12, <1>13

\* What appending the days of some entries makes of a chain.
Appends(c, es, g) ==
  /\ g \in Seq(Block) /\ Extends(c, g)
  /\ \A i \in Len(c) + 1 .. Len(g) : g[i] # Genesis /\ PrevHash(g[i]) = g[i - 1]
  /\ \A e \in Entry : Copies(g, e) = Copies(c, e) + Count(es, e)
  /\ ToSet(es) # {} => Len(g) > Len(c)

LEMMA DaysAppended ==
  ASSUME NEW c \in Seq(Block), c # <<>>, NEW es \in Seq(Entry)
  PROVE  Appends(c, es, AppendDays(c, es))
<1>1. PICK t \in Seq(Block) :
        /\ NewBlocks(c, es) = t
        /\ \A k \in 1..Len(t) : t[k] # Genesis
        /\ \A k \in 1..Len(t) :
             PrevHash(t[k]) = IF k = 1 THEN c[Len(c)] ELSE t[k - 1]
        /\ \A e \in Entry : Copies(t, e) = Count(es, e)
  BY NewBlocksFacts
<1> PICK g : g = c \o t
  OBVIOUS
<1>2. AppendDays(c, es) = g
  BY <1>1, AppendDaysParts
<1>3. g \in Seq(Block) /\ Joined(c, t, g)
  BY ConcatParts
<1>4. Extends(c, g)
  BY <1>3 DEF Joined, Extends
<1>5. ASSUME NEW i \in Len(c) + 1 .. Len(g)
      PROVE  g[i] # Genesis /\ PrevHash(g[i]) = g[i - 1]
  <2>1. i \in 1..Len(g) /\ i \notin 1..Len(c) /\ Len(c) \in Nat /\ Len(c) >= 1
    BY <1>3 DEF Joined
  <2>2. PICK k \in 1..Len(t) : i = Len(c) + k
    BY <1>3, <2>1 DEF Joined
  <2>3. g[i] = t[k]
    BY <1>3, <2>2 DEF Joined
  <2>4. CASE k = 1
    <3>1. i - 1 = Len(c) /\ Len(c) \in 1..Len(c)
      BY <2>1, <2>2, <2>4
    <3>2. g[i - 1] = c[Len(c)]
      BY <1>3, <3>1 DEF Joined
    <3> QED BY <1>1, <2>3, <2>4, <3>2
  <2>5. CASE k # 1
    <3>1. k - 1 \in 1..Len(t) /\ i - 1 = Len(c) + (k - 1)
      BY <2>1, <2>2, <2>5
    <3>2. g[i - 1] = t[k - 1]
      BY <1>3, <3>1 DEF Joined
    <3> QED BY <1>1, <2>3, <2>5, <3>2
  <2> QED BY <2>4, <2>5
<1>6. ASSUME NEW e \in Entry
      PROVE  Copies(g, e) = Copies(c, e) + Count(es, e)
  BY <1>1, CopiesSum
<1>7. ASSUME ToSet(es) # {}
      PROVE  Len(g) > Len(c)
  <2>1. PICK e : e \in ToSet(es)
    BY <1>7
  <2>2. e \in Entry /\ Count(es, e) > 0
    <3>1. e \in Entry
      BY <2>1 DEF ToSet
    <3> QED BY <2>1, <3>1, CountIsNat
  <2>3. t # <<>>
    <3> SUFFICES ASSUME t = <<>> PROVE FALSE
      OBVIOUS
    <3>1. Copies(<<>>, e) = 0
      BY EmptyHolds
    <3> QED BY <1>1, <2>2, <3>1
  <2>4. Len(t) >= 1
    BY <2>3
  <2> QED BY <1>3, <2>4 DEF Joined
<1> QED BY <1>2, <1>3, <1>4, <1>5, <1>6, <1>7 DEF Appends

\* A commit appends each entry once.
LEMMA CommitAppended ==
  ASSUME NEW c \in Seq(Block), c # <<>>, NEW S \in SUBSET Entry,
         NEW g, g = CommitEntries(c, S)
  PROVE  /\ g \in Seq(Block) /\ Extends(c, g)
         /\ \A i \in Len(c) + 1 .. Len(g) : g[i] # Genesis /\ PrevHash(g[i]) = g[i - 1]
         /\ \A e \in Entry : Copies(g, e) = Copies(c, e) + (IF e \in S THEN 1 ELSE 0)
         /\ S # {} => Len(g) > Len(c)
<1>1. IsFiniteSet(S)
  BY EntryAssumption, FS_Subset
<1>2. S \in SUBSET Int
  BY EntryAssumption
<1> PICK A : A = Ascending(S)
  OBVIOUS
<1>3. A \in Seq(S) /\ \A e : Count(A, e) = IF e \in S THEN 1 ELSE 0
  BY <1>1, <1>2, CountAscending
<1>4. A \in Seq(Entry)
  BY <1>3
<1>5. Appends(c, A, g)
  <2>1. g = AppendDays(c, A)
    BY DEF CommitEntries
  <2> QED BY <1>4, <2>1, DaysAppended
<1>6. S # {} => ToSet(A) # {}
  <2> SUFFICES ASSUME NEW x \in S PROVE ToSet(A) # {}
    OBVIOUS
  <2>1. Count(A, x) > 0
    BY <1>3
  <2> QED BY <1>4, <2>1, CountIsNat
<1> QED BY <1>3, <1>5, <1>6 DEF Appends

-----------------------------------------------------------------------------
\* What a merge makes of two chains.

LEMMA ForkFacts ==
  ASSUME NEW m \in Seq(Block), NEW t \in Seq(Block), m # <<>>, t # <<>>, m[1] = t[1],
         NEW fork, fork = ForkIndex(m, t)
  PROVE  /\ fork \in 1..Len(m) /\ fork \in 1..Len(t)
         /\ SubSeq(m, 1, fork) = SubSeq(t, 1, fork)
<1>1. Len(m) \in Nat /\ Len(t) \in Nat /\ Len(m) >= 1 /\ Len(t) >= 1
  OBVIOUS
<1> PICK S : S = Shared(m, t)
  OBVIOUS
<1>2. S \in SUBSET (0..Len(m))
  BY DEF Shared
<1>3. ASSUME NEW n \in 0..Len(m), NEW p, p = SubSeq(m, 1, n)
      PROVE  /\ Len(p) = n /\ p \in Seq(Block) /\ SubSeq(p, 1, n) = p
             /\ n \in S <=> n <= Len(t) /\ p = SubSeq(t, 1, n)
  <2>1. p \in Seq(Block) /\ Len(p) = n
    BY <1>3, PrefixOf
  <2>2. SubSeq(p, 1, n) = p
    BY <2>1
  <2>3. n \in S <=> IsPrefix(p, t)
    BY <1>3 DEF Shared
  <2> QED BY <2>1, <2>2, <2>3 DEF IsPrefix
<1>4. 1 \in S
  <2> PICK p : p = SubSeq(m, 1, 1)
    OBVIOUS
  <2> PICK q : q = SubSeq(t, 1, 1)
    OBVIOUS
  <2>1. p \in Seq(Block) /\ Len(p) = 1 /\ p[1] = m[1]
    BY <1>1
  <2>2. q \in Seq(Block) /\ Len(q) = 1 /\ q[1] = t[1]
    BY <1>1
  <2>3. p = q
    <3>1. p = <<p[1]>> /\ q = <<q[1]>>
      BY <2>1, <2>2, SmallLists
    <3> QED BY <2>1, <2>2, <3>1
  <2>4. 1 \in 0..Len(m) /\ 1 <= Len(t)
    BY <1>1
  <2> QED BY <1>3, <2>3, <2>4
<1>6. \E n \in S : \A k \in S : k <= n
  <2> PICK T : T = S \ {0}
    OBVIOUS
  <2>1. T \in SUBSET (1..Len(m)) /\ T # {}
    BY <1>2, <1>4
  <2>2. \E n \in T : \A k \in T : k <= n
    BY <1>1, <2>1, MaxOfSet
  <2>3. PICK n \in T : \A k \in T : k <= n
    BY <2>2
  <2>4. n \in S /\ n \in Nat
    BY <2>1
  <2>5. \A k \in S : k = 0 \/ k \in T
    OBVIOUS
  <2>6. 0 <= n
    BY <2>4
  <2> QED BY <2>3, <2>4, <2>5, <2>6, Zenon
<1>7. fork \in S /\ \A k \in S : k <= fork
  BY <1>6 DEF ForkIndex
<1>8. fork \in 0..Len(m) /\ 1 <= fork
  BY <1>2, <1>4, <1>7
<1>9. fork <= Len(t) /\ SubSeq(m, 1, fork) = SubSeq(t, 1, fork)
  BY <1>3, <1>7, <1>8
<1> QED BY <1>1, <1>8, <1>9

Merges(m, t, g) ==
  /\ g \in Seq(Block) /\ g # <<>> /\ g[1] = m[1] /\ Linked(g)
  /\ \A e \in Entry :
       Copies(g, e) = IF Copies(m, e) > 0 THEN Copies(m, e) ELSE Copies(t, e)

Fresh(late, H) == Picked(late, {j \in DOMAIN late : late[j] \notin H})

LEMMA FreshIsSeq ==
  ASSUME NEW late \in Seq(Entry), NEW H
  PROVE  Fresh(late, H) \in Seq(Entry)
<1> PICK P : P = {j \in DOMAIN late : late[j] \notin H}
  OBVIOUS
<1>1. P \in SUBSET DOMAIN late
  OBVIOUS
<1>2. Picked(late, P) \in Seq(Entry)
  BY <1>1, PickedIsSeq
<1> QED BY <1>2 DEF Fresh

LEMMA CountFresh ==
  ASSUME NEW late \in Seq(Entry), NEW H, NEW e \in Entry
  PROVE  /\ Fresh(late, H) \in Seq(Entry)
         /\ Count(Fresh(late, H), e) = IF e \in H THEN 0 ELSE Count(late, e)
<1> PICK Y : Y = {y \in Entry : y \notin H}
  OBVIOUS
<1> PICK P : P = {j \in DOMAIN late : late[j] \notin H}
  OBVIOUS
<1>1. P \in SUBSET DOMAIN late /\ \A j \in DOMAIN late : j \in P <=> late[j] \in Y
  OBVIOUS
<1>2. e \in Y <=> e \notin H
  OBVIOUS
<1>3. /\ Picked(late, P) \in Seq(Entry)
      /\ Count(Picked(late, P), e) = IF e \in Y THEN Count(late, e) ELSE 0
  BY <1>1, CountPicked
<1> QED BY <1>2, <1>3 DEF Fresh

LEMMA AppendsLinked ==
  ASSUME NEW c \in Seq(Block), c # <<>>, Linked(c), NEW es, NEW g, Appends(c, es, g)
  PROVE  Linked(g) /\ g # <<>> /\ g[1] = c[1]
<1>1. /\ g \in Seq(Block) /\ Extends(c, g)
      /\ \A i \in Len(c) + 1 .. Len(g) : g[i] # Genesis /\ PrevHash(g[i]) = g[i - 1]
  BY DEF Appends
<1>2. Linked(g)
  BY <1>1, LinkedExtension
<1>3. Len(c) >= 1 /\ Len(c) \in Nat /\ Len(g) \in Nat
  BY <1>1
<1>4. 1 \in 1..Len(c) /\ Len(g) >= 1
  BY <1>1, <1>3 DEF Extends
<1>5. g[1] = c[1] /\ g # <<>>
  BY <1>1, <1>4 DEF Extends
<1> QED BY <1>2, <1>5

LEMMA Merged ==
  ASSUME NEW m \in Seq(Block), NEW t \in Seq(Block), m # <<>>, Mergeable(m, t)
  PROVE  Merges(m, t, Merge(m, t))
<1>1. t # <<>> /\ m[1] = t[1] /\ Linked(m) /\ Linked(t)
  BY DEF Mergeable
<1>fresh. \A l \in Seq(Entry) : \A H : \A e \in Entry :
        /\ Fresh(l, H) \in Seq(Entry)
        /\ e \in H => Count(Fresh(l, H), e) = 0
        /\ e \notin H => Count(Fresh(l, H), e) = Count(l, e)
  BY CountFresh
<1> PICK fork : fork = ForkIndex(m, t)
  OBVIOUS
<1>2. /\ fork \in 1..Len(m) /\ fork \in 1..Len(t)
      /\ SubSeq(m, 1, fork) = SubSeq(t, 1, fork)
  BY <1>1, ForkFacts
<1>3. fork \in 0..Len(m) /\ fork \in 0..Len(t)
  BY <1>2
<1> PICK p : p = SubSeq(m, 1, fork)
  OBVIOUS
<1> PICK mLate : mLate = After(m, fork)
  OBVIOUS
<1> PICK tLate : tLate = After(t, fork)
  OBVIOUS
<1>4. /\ p \in Seq(Block) /\ Len(p) = fork /\ Extends(p, m)
      /\ mLate \in Seq(Block) /\ tLate \in Seq(Block)
  BY <1>3, PrefixOf
<1>5. ASSUME NEW e \in Entry
      PROVE  /\ Copies(m, e) = Copies(p, e) + Copies(mLate, e)
             /\ Copies(t, e) = Copies(p, e) + Copies(tLate, e)
             /\ Copies(p, e) \in Nat /\ Copies(mLate, e) \in Nat /\ Copies(tLate, e) \in Nat
  <2>1. Copies(m, e) = Copies(p, e) + Copies(mLate, e)
    BY <1>3, PrefixOf
  <2>2. Copies(t, e) = Copies(p, e) + Copies(tLate, e)
    <3>1. Copies(t, e) = Copies(SubSeq(t, 1, fork), e) + Copies(After(t, fork), e)
      BY <1>3, PrefixOf
    <3> QED BY <1>2, <3>1, Zenon
  <2>3. Copies(p, e) \in Nat /\ Copies(mLate, e) \in Nat /\ Copies(tLate, e) \in Nat
    BY <1>4, ChainConcat
  <2> QED BY <2>1, <2>2, <2>3
<1> PICK a : a = ChainEntries(mLate)
  OBVIOUS
<1> PICK late : late = ChainEntries(tLate)
  OBVIOUS
<1> PICK new : new = Fresh(late, Held(m))
  OBVIOUS
<1> PICK both : both = a \o new
  OBVIOUS
<1> PICK g : g = AppendDays(p, ByTitle(both))
  OBVIOUS
<1>6. Merge(m, t) = IF new = <<>> THEN m ELSE g
  BY DEF Merge, Fresh
<1>7. a \in Seq(Entry) /\ late \in Seq(Entry) /\ ChainEntries(m) \in Seq(Entry)
  BY <1>4, ChainConcat
<1>8. ASSUME NEW e \in Entry
      PROVE  /\ new \in Seq(Entry)
             /\ Count(new, e) = IF Copies(m, e) > 0 THEN 0 ELSE Copies(tLate, e)
  <2>2. /\ new \in Seq(Entry)
        /\ e \in Held(m) => Count(new, e) = 0
        /\ e \notin Held(m) => Count(new, e) = Count(late, e)
    BY <1>7, <1>fresh, ZenonT(30)
  <2>3. e \in Held(m) <=> Copies(m, e) > 0
    BY <1>7, CountIsNat DEF Held, Copies
  <2>4. Count(late, e) = Copies(tLate, e)
    BY DEF Copies
  <2> QED BY <2>2, <2>3, <2>4
<1>9. CASE new = <<>>
  <2>1. ASSUME NEW e \in Entry
        PROVE  Copies(m, e) = IF Copies(m, e) > 0 THEN Copies(m, e) ELSE Copies(t, e)
    <3>1. Count(new, e) = 0
      BY <1>9, CountNone
    <3>2. Copies(m, e) > 0 \/ Copies(tLate, e) = 0
      BY <1>8, <3>1
    <3> QED BY <1>5, <3>2
  <2>2. Merge(m, t) = m
    BY <1>6, <1>9
  <2> QED BY <1>1, <2>1, <2>2 DEF Merges
<1>10. CASE new # <<>>
  <2>1. new \in Seq(Entry)
    BY <1>7, FreshIsSeq
  <2>2. both \in Seq(Entry)
    BY <1>7, <2>1
  <2> PICK s : s = ByTitle(both)
    OBVIOUS
  <2>3. s \in Seq(Entry) /\ \A e \in Entry : Count(s, e) = Count(a, e) + Count(new, e)
    <3>1. ASSUME NEW e \in Entry
          PROVE  s \in Seq(Entry) /\ Count(s, e) = Count(both, e)
      BY <2>2, TitleOrder
    <3>2. ASSUME NEW e \in Entry
          PROVE  Count(both, e) = Count(a, e) + Count(new, e)
      BY <1>7, <2>1, CountConcat
    <3>3. s \in Seq(Entry)
      BY <2>2, TitleOrder
    <3> QED BY <3>1, <3>2, <3>3
  <2>4. p # <<>>
    BY <1>2, <1>4
  <2>5. Appends(p, s, g)
    BY <1>4, <2>3, <2>4, DaysAppended
  <2>6. g \in Seq(Block)
    BY <2>5 DEF Appends
  <2>7. Linked(g) /\ g # <<>> /\ g[1] = p[1]
    <3>1. Linked(p)
      BY <1>1, <1>4, LinkedPrefix
    <3> QED BY <1>4, <2>4, <2>5, <3>1, AppendsLinked
  <2>8. g[1] = m[1]
    <3>1. 1 \in 1..Len(p)
      BY <1>2, <1>4
    <3> QED BY <1>4, <2>7, <3>1 DEF Extends
  <2>9. ASSUME NEW e \in Entry
        PROVE  Copies(g, e) = IF Copies(m, e) > 0 THEN Copies(m, e) ELSE Copies(t, e)
    <3>1. Copies(g, e) = Copies(p, e) + Count(s, e)
      BY <2>5 DEF Appends
    <3>2. Count(s, e) = Count(a, e) + Count(new, e)
      BY <2>3
    <3>3. Count(a, e) = Copies(mLate, e)
      BY DEF Copies
    <3>4. Count(new, e) = IF Copies(m, e) > 0 THEN 0 ELSE Copies(tLate, e)
      BY <1>8
    <3> QED BY <1>5, <3>1, <3>2, <3>3, <3>4
  <2>10. Merge(m, t) = g
    BY <1>6, <1>10
  <2> QED BY <2>6, <2>7, <2>8, <2>9, <2>10 DEF Merges
<1> QED BY <1>9, <1>10

-----------------------------------------------------------------------------
\* What is read from the remote store.

LEMMA LeastOfSet ==
  ASSUME NEW S \in SUBSET Nat, S # {}
  PROVE  Min(S) \in S /\ \A y \in S : Min(S) <= y
<1> DEFINE T == {n \in Nat : \A k \in 0..n : k \notin S}
<1>1. ASSUME \A x \in S : \E y \in S : y < x
      PROVE  FALSE
  <2>1. 0 \in T
    <3>1. 0 \notin S
      BY <1>1
    <3> QED BY <3>1
  <2>2. ASSUME NEW n \in T
        PROVE  n + 1 \in T
    <3>1. n \in Nat /\ \A k \in 0..n : k \notin S
      OBVIOUS
    <3>2. n + 1 \notin S
      <4> SUFFICES ASSUME n + 1 \in S PROVE FALSE
        OBVIOUS
      <4>1. PICK y \in S : y < n + 1
        BY <1>1
      <4>2. y \in 0..n
        BY <3>1, <4>1
      <4> QED BY <3>1, <4>2
    <3>3. \A k \in 0..(n + 1) : k \in 0..n \/ k = n + 1
      BY <3>1
    <3> QED BY <3>1, <3>2, <3>3
  <2>3. T = Nat
    <3>1. T \in SUBSET Nat
      OBVIOUS
    <3> HIDE DEF T
    <3> QED BY <2>1, <2>2, <3>1, Induction
  <2>4. PICK x : x \in S
    OBVIOUS
  <2>5. x \in T
    <3> HIDE DEF T
    <3> QED BY <2>3, <2>4
  <2> QED BY <2>4, <2>5
<1>2. \E x \in S : \A y \in S : x <= y
  BY <1>1
<1> QED BY <1>2 DEF Min

Bounded(S) == \E n \in Nat : S \subseteq 1..n

LEMMA BoundedIsFinite ==
  ASSUME NEW S, Bounded(S)
  PROVE  IsFiniteSet(S) /\ S \in SUBSET Int
<1>1. PICK n \in Nat : S \subseteq 1..n
  BY DEF Bounded
<1>2. IsFiniteSet(1..n)
  BY FS_Interval
<1>3. S \in SUBSET (1..n)
  BY <1>1
<1>4. IsFiniteSet(S)
  BY <1>2, <1>3, FS_Subset
<1> QED BY <1>3, <1>4

LEMMA BoundedSets ==
  /\ Bounded({})
  /\ \A a \in Nat \ {0}, b \in Nat : Bounded(a..b)
  /\ \A S : \A i \in Nat \ {0} : Bounded(S) => Bounded(S \cup {i})
<1>1. Bounded({})
  BY DEF Bounded
<1>2. ASSUME NEW a \in Nat \ {0}, NEW b \in Nat
      PROVE  Bounded(a..b)
  BY DEF Bounded
<1>3. ASSUME NEW S, NEW i \in Nat \ {0}, Bounded(S)
      PROVE  Bounded(S \cup {i})
  <2>1. PICK n \in Nat : S \subseteq 1..n
    BY <1>3 DEF Bounded
  <2>2. S \cup {i} \subseteq 1..(n + i)
    BY <2>1
  <2> QED BY <2>2 DEF Bounded
<1> QED BY <1>1, <1>2, <1>3

\* Reading some of the values of a function, in the order of their positions.
Reads(f, P, X) == Bounded(P) /\ \A i \in P : f[i] \in X

LEMMA PickedOf ==
  ASSUME NEW X, NEW f, NEW P, Reads(f, P, X)
  PROVE  /\ Picked(f, P) \in Seq(X)
         /\ Len(Picked(f, P)) = Cardinality(P)
         /\ \A k \in 1..Len(Picked(f, P)) :
              \E i \in P : Picked(f, P)[k] = f[i] /\ Ascending(P)[k] = i
<1>1. IsFiniteSet(P) /\ P \in SUBSET Int
  BY BoundedIsFinite DEF Reads
<1> DEFINE n == Cardinality(P)
           A == Ascending(P)
<1>2. n \in Nat /\ DOMAIN A = 1..n /\ \A k \in 1..n : A[k] \in P
  BY <1>1, AscendingOrder
<1> HIDE DEF n, A
<1>3. Picked(f, P) = [k \in 1..n |-> f[A[k]]]
  BY <1>2 DEF Picked, A
<1>4. \A k \in 1..n : f[A[k]] \in X
  BY <1>2 DEF Reads
<1>5. Picked(f, P) \in [1..n -> X]
  BY <1>3, <1>4
<1>6. Picked(f, P) \in Seq(X) /\ Len(Picked(f, P)) = n
  BY <1>2, <1>5
<1>7. \A k \in 1..n : Picked(f, P)[k] = f[A[k]] /\ A[k] \in P
  BY <1>2, <1>3
<1> QED BY <1>6, <1>7 DEF A, n

-----------------------------------------------------------------------------
\* The invariant that gives the types.

\* Positions are bounded, and what is to be pushed is in the local chain.
ControlInv ==
  /\ Bounded(DOMAIN rblocks)
  /\ \A d \in Device : Bounded(listed[d])
  /\ \A d \in Device : pc[d] = "push" => todo[d] # {} /\ todo[d] \subseteq DOMAIN chain[d]

TypeInv == TypeOK /\ ControlInv

LEMMA ChainFacts ==
  ASSUME TypeInv, NEW d \in Device
  PROVE  /\ chain[d] \in Seq(Block) /\ chain[d] # <<>> /\ chain[d][1] = Genesis
         /\ DOMAIN chain[d] = 1..Len(chain[d]) /\ Len(chain[d]) \in Nat /\ Len(chain[d]) >= 1
         /\ \A i \in DOMAIN chain[d] : chain[d][i] \in Block
<1>1. chain[d] \in Seq(Block) /\ chain[d] # <<>> /\ chain[d][1] = Genesis
  BY DEF TypeInv, TypeOK
<1> PICK c : c = chain[d]
  OBVIOUS
<1>2. c \in Seq(Block) /\ c # <<>>
  BY <1>1
<1>3. DOMAIN c = 1..Len(c) /\ Len(c) \in Nat /\ Len(c) >= 1 /\ \A i \in DOMAIN c : c[i] \in Block
  BY <1>2
<1> QED BY <1>1, <1>3

LEMMA RemotePicked ==
  ASSUME TypeInv, NEW P \in SUBSET DOMAIN rblocks
  PROVE  /\ Picked(rblocks, P) \in Seq(Block)
         /\ \A k \in 1..Len(Picked(rblocks, P)) :
              \E i \in P : Picked(rblocks, P)[k] = rblocks[i]
<1>1. Bounded(P)
  <2>1. Bounded(DOMAIN rblocks)
    BY DEF TypeInv, ControlInv
  <2> QED BY <2>1 DEF Bounded
<1>2. \A i \in P : rblocks[i] \in Block
  BY DEF TypeInv, TypeOK
<1>3. Reads(rblocks, P, Block)
  BY <1>1, <1>2 DEF Reads
<1> QED BY <1>3, PickedOf

LEMMA RemoteFacts ==
  ASSUME TypeInv
  PROVE  /\ RemoteChain \in Seq(Block)
         /\ \A k \in 1..Len(RemoteChain) : \E i \in DOMAIN rblocks : RemoteChain[k] = rblocks[i]
BY RemotePicked DEF RemoteChain

LEMMA ListOf ==
  ASSUME NEW X, NEW n \in Nat, NEW f \in [1..n -> X]
  PROVE  f \in Seq(X) /\ Len(f) = n
OBVIOUS

LEMMA PulledFacts ==
  ASSUME TypeInv, NEW d \in Device, Beyond(d) # {}, Beyond(d) \subseteq DOMAIN rblocks
  PROVE  /\ Pulled(d) \in Seq(Block)
         /\ \A k \in 1..Len(Pulled(d)) :
              /\ Len(chain[d]) + k \in DOMAIN rblocks
              /\ Pulled(d)[k] = rblocks[Len(chain[d]) + k]
<1> PICK m : m = Len(chain[d])
  OBVIOUS
<1>1. m \in Nat
  BY ChainFacts
<1>2. listed[d] # {}
  BY DEF Beyond
<1>3. PICK n \in Nat : listed[d] \subseteq 1..n
  BY DEF TypeInv, ControlInv, Bounded
<1>4. Max(listed[d]) \in listed[d]
  BY <1>2, <1>3, MaxOfSet
<1>5. PICK x \in Nat : x = Max(listed[d])
  BY <1>3, <1>4
<1>6. Beyond(d) = m + 1 .. x
  BY <1>2, <1>5 DEF Beyond
<1>7. m + 1 <= x
  BY <1>1, <1>6
<1>8. Cardinality(Beyond(d)) = x - m
  <2>1. Cardinality(m + 1 .. x) = IF m + 1 > x THEN 0 ELSE x - (m + 1) + 1
    <3>1. m + 1 \in Int /\ x \in Int
      BY <1>1
    <3> QED BY <3>1, FS_Interval
  <2> QED BY <1>1, <1>6, <1>7, <2>1
<1>9. x - m \in Nat
  BY <1>1, <1>7
<1> PICK k0 \in Nat : k0 = x - m
  BY <1>9
<1>10. \A k \in 1..k0 : m + k \in DOMAIN rblocks
  BY <1>1, <1>6, <1>7
<1>11. \A i \in DOMAIN rblocks : rblocks[i] \in Block
  BY DEF TypeInv, TypeOK
<1> PICK p : p = [k \in 1..k0 |-> rblocks[m + k]]
  OBVIOUS
<1>12. Pulled(d) = p
  BY <1>8 DEF Pulled
<1>13. p \in Seq(Block) /\ Len(p) = k0 /\ \A k \in 1..k0 : p[k] = rblocks[m + k]
  <2>1. p \in [1..k0 -> Block]
    BY <1>10, <1>11
  <2>2. p \in Seq(Block) /\ Len(p) = k0
    BY <2>1, ListOf
  <2>3. \A k \in 1..k0 : p[k] = rblocks[m + k]
    OBVIOUS
  <2> QED BY <2>2, <2>3
<1> QED BY <1>10, <1>12, <1>13

-----------------------------------------------------------------------------
\* What a step does to the chains, and to what they are compared with.

Becomes(d, g) ==
  /\ g \in Seq(Block) /\ g # <<>> /\ g[1] = Genesis
  /\ chain' = [chain EXCEPT ![d] = g]

\* Device d commits the entries in S.
Commits(d, S, g) ==
  /\ Becomes(d, g) /\ Extends(chain[d], g)
  /\ Linked(chain[d]) => Linked(g)
  /\ S \in SUBSET pending[d]
  /\ \A e \in Entry : Copies(g, e) = Copies(chain[d], e) + (IF e \in S THEN 1 ELSE 0)
  /\ pending' = [pending EXCEPT ![d] = @ \ S]
  /\ UNCHANGED <<rblocks, origin, torn>>

\* Device d reverts a commit, because its chain does not verify.
Reverts(d, g) ==
  /\ Becomes(d, g) /\ Extends(chain[d], g)
  /\ ~Linked(chain[d])
  /\ UNCHANGED <<pending, rblocks, origin, torn>>

\* Device d appends blocks of the remote store.
Pulls(d, g) ==
  /\ Becomes(d, g) /\ Extends(chain[d], g)
  /\ \A k \in Len(chain[d]) + 1 .. Len(g) : \E i \in DOMAIN rblocks : g[k] = rblocks[i]
  /\ UNCHANGED <<pending, rblocks, origin, torn>>

\* Device d merges its chain with the remote one.
Joins(d, g) ==
  /\ Becomes(d, g)
  /\ Mergeable(chain[d], RemoteChain)
  /\ g = Merge(chain[d], RemoteChain)
  /\ UNCHANGED <<pending, rblocks, origin, torn>>

\* Device d is killed while it writes its chain.
Tears(d, g) ==
  /\ Becomes(d, g)
  /\ torn' = torn \cup {d}
  /\ UNCHANGED <<pending, rblocks, origin>>

\* Device d leaves the chains alone; it may push one of its blocks.
Rests(d) ==
  /\ UNCHANGED <<pending, chain, origin, torn>>
  /\ \/ UNCHANGED rblocks
     \/ \E i \in DOMAIN chain[d] : PutBlock(d, i)

LEMMA Above ==
  \A m, n \in Nat : \A k \in m + 1 .. n : k \in 1..n /\ k \notin 1..m
OBVIOUS

LEMMA FrontFacts ==
  ASSUME NEW c \in Seq(Block), c # <<>>, NEW g \in Seq(Block), Extends(c, g), Len(g) > Len(c),
         NEW f, f = Front(g)
  PROVE  f \in Seq(Block) /\ f # <<>> /\ f[1] = c[1] /\ Extends(c, f)
<1>1. Len(c) \in Nat /\ Len(c) >= 1 /\ Len(g) \in Nat /\ 1 \in 1..Len(c)
  OBVIOUS
<1>2. f \in Seq(Block) /\ Len(f) = Len(g) - 1 /\ \A i \in 1..Len(f) : f[i] = g[i]
  BY <1>1 DEF Front
<1>3. \A i \in 1..Len(c) : i \in 1..Len(f)
  BY <1>1, <1>2
<1>4. Extends(c, f)
  BY <1>1, <1>2, <1>3 DEF Extends
<1> QED BY <1>1, <1>2, <1>3, <1>4 DEF Extends

LEMMA CutFacts ==
  ASSUME NEW g \in Seq(Block), NEW n \in 1..Len(g), NEW f, f = SubSeq(g, 1, n)
  PROVE  f \in Seq(Block) /\ f # <<>> /\ f[1] = g[1]
<1>1. f \in Seq(Block) /\ Len(f) = n /\ f[1] = g[1]
  OBVIOUS
<1> QED BY <1>1

LEMMA ExtendsFirst ==
  ASSUME NEW c \in Seq(Block), c # <<>>, NEW g \in Seq(Block), Extends(c, g)
  PROVE  g # <<>> /\ g[1] = c[1] /\ Len(g) \in Nat /\ Len(c) \in Nat
<1>1. Len(c) \in Nat /\ Len(c) >= 1 /\ Len(g) \in Nat /\ 1 \in 1..Len(c)
  OBVIOUS
<1> QED BY <1>1 DEF Extends

LEMMA CommitKind ==
  ASSUME TypeInv, NEW d \in Device, Commit(d)
  PROVE  (\E S, g : Commits(d, S, g)) \/ (\E g : Reverts(d, g))
<1>1. PICK S \in (SUBSET pending[d]) \ {{}} :
        LET grown == CommitEntries(chain[d], S) IN
        \/ /\ Linked(grown)
           /\ pending' = [pending EXCEPT ![d] = @ \ S]
           /\ chain' = [chain EXCEPT ![d] = grown]
        \/ /\ ~Linked(grown)
           /\ chain' = [chain EXCEPT ![d] = Front(grown)]
           /\ UNCHANGED <<pending, control>>
  BY DEF Commit
<1>2. UNCHANGED <<rblocks, origin, torn>>
  BY DEF Commit, remote
<1> PICK c : c = chain[d]
  OBVIOUS
<1>3. c \in Seq(Block) /\ c # <<>> /\ c[1] = Genesis
  BY ChainFacts
<1>4. S \in SUBSET Entry /\ S \in SUBSET pending[d] /\ S # {}
  <2>1. pending[d] \in SUBSET Entry
    BY DEF TypeInv, TypeOK
  <2> QED BY <2>1
<1> PICK g : g = CommitEntries(c, S)
  OBVIOUS
<1>5. /\ g \in Seq(Block) /\ Extends(c, g)
      /\ \A i \in Len(c) + 1 .. Len(g) : g[i] # Genesis /\ PrevHash(g[i]) = g[i - 1]
      /\ \A e \in Entry : Copies(g, e) = Copies(c, e) + (IF e \in S THEN 1 ELSE 0)
      /\ Len(g) > Len(c)
  BY <1>3, <1>4, CommitAppended
<1>6. Linked(c) => Linked(g)
  BY <1>3, <1>5, LinkedExtension
<1>7. g # <<>> /\ g[1] = Genesis
  BY <1>3, <1>5, ExtendsFirst
<1>8. CASE /\ Linked(g)
           /\ pending' = [pending EXCEPT ![d] = @ \ S]
           /\ chain' = [chain EXCEPT ![d] = g]
  <2>1. Commits(d, S, g)
    BY <1>2, <1>4, <1>5, <1>6, <1>7, <1>8 DEF Commits, Becomes
  <2> QED BY <2>1
<1>9. CASE /\ ~Linked(g)
           /\ chain' = [chain EXCEPT ![d] = Front(g)]
           /\ UNCHANGED pending
  <2> PICK f : f = Front(g)
    OBVIOUS
  <2>1. f \in Seq(Block) /\ f # <<>> /\ f[1] = c[1] /\ Extends(c, f)
    BY <1>3, <1>5, FrontFacts
  <2>2. Reverts(d, f)
    BY <1>2, <1>3, <1>6, <1>9, <2>1 DEF Reverts, Becomes
  <2> QED BY <2>2
<1> QED BY <1>1, <1>8, <1>9

LEMMA PullNamedKind ==
  ASSUME TypeInv, NEW d \in Device, PullNamed(d)
  PROVE  \E g : Pulls(d, g)
<1>1. PICK failed \in SUBSET listed[d] :
        chain' = [chain EXCEPT ![d] =
                    @ \o Picked(rblocks, (listed[d] \cap DOMAIN rblocks) \ failed)]
  BY DEF PullNamed
<1> PICK got : got = (listed[d] \cap DOMAIN rblocks) \ failed
  OBVIOUS
<1> PICK c : c = chain[d]
  OBVIOUS
<1> PICK t : t = Picked(rblocks, got)
  OBVIOUS
<1> PICK g : g = c \o t
  OBVIOUS
<1>2. c \in Seq(Block) /\ c # <<>> /\ c[1] = Genesis
  BY ChainFacts
<1>3. got \in SUBSET DOMAIN rblocks
  OBVIOUS
<1>4. t \in Seq(Block) /\ \A k \in 1..Len(t) : \E i \in got : t[k] = rblocks[i]
  BY <1>3, RemotePicked
<1>5. g \in Seq(Block) /\ Joined(c, t, g)
  BY <1>2, <1>4, ConcatParts
<1>6. Extends(c, g)
  BY <1>5 DEF Extends, Joined
<1>7. \A k \in Len(c) + 1 .. Len(g) : \E i \in DOMAIN rblocks : g[k] = rblocks[i]
  <2> TAKE k \in Len(c) + 1 .. Len(g)
  <2>1. k \in 1..Len(g) /\ k \notin 1..Len(c)
    <3>1. Len(c) \in Nat /\ Len(g) \in Nat
      BY <1>2, <1>5
    <3> QED BY <3>1, Above
  <2>2. PICK j \in 1..Len(t) : k = Len(c) + j
    BY <1>5, <2>1 DEF Joined
  <2>3. g[k] = t[j]
    BY <1>5, <2>2 DEF Joined
  <2> QED BY <1>3, <1>4, <2>3
<1>8. g # <<>> /\ g[1] = Genesis
  BY <1>2, <1>5, <1>6, ExtendsFirst
<1>9. chain' = [chain EXCEPT ![d] = g]
  BY <1>1
<1>10. UNCHANGED <<pending, rblocks, origin, torn>>
  BY DEF PullNamed, remote
<1>11. Pulls(d, g)
  BY <1>5, <1>6, <1>7, <1>8, <1>9, <1>10 DEF Pulls, Becomes
<1> QED BY <1>11

LEMMA LinkingIsCount ==
  ASSUME NEW c, NEW new, NEW n, n = Linking(c, new), n > 0, Len(new) \in Nat
  PROVE  n \in 1..Len(new) /\ Linked(c \o SubSeq(new, 1, n))
<1> PICK linked : linked = {k \in 1..Len(new) : Linked(c \o SubSeq(new, 1, k))}
  OBVIOUS
<1>1. linked # {}
  BY DEF Linking
<1>2. n = CHOOSE k \in linked : \A m \in linked : m <= k
  BY <1>1 DEF Linking
<1>3. \E k \in linked : \A m \in linked : m <= k
  <2>1. linked \in SUBSET (1..Len(new))
    OBVIOUS
  <2>2. Max(linked) \in linked /\ \A y \in linked : y <= Max(linked)
    BY <1>1, <2>1, MaxOfSet
  <2> QED BY <2>2
<1>4. n \in linked
  BY <1>2, <1>3
<1> QED BY <1>4

LEMMA PullLinkingKind ==
  ASSUME TypeInv, NEW d \in Device, PullLinking(d)
  PROVE  /\ \E g : Pulls(d, g)
         /\ Linked(chain[d]) => Linked(chain'[d])
<1> PICK c : c = chain[d]
  OBVIOUS
<1> PICK p : p = Pulled(d)
  OBVIOUS
<1> PICK n : n = Linking(c, p)
  OBVIOUS
<1> PICK t : t = SubSeq(p, 1, n)
  OBVIOUS
<1> PICK g : g = c \o t
  OBVIOUS
<1>1. n > 0 /\ chain' = [chain EXCEPT ![d] = g]
      /\ Beyond(d) # {} /\ Beyond(d) \subseteq DOMAIN rblocks
  BY DEF PullLinking
<1>2. c \in Seq(Block) /\ c # <<>> /\ c[1] = Genesis
  BY ChainFacts
<1>3. p \in Seq(Block) /\ \A k \in 1..Len(p) : \E i \in DOMAIN rblocks : p[k] = rblocks[i]
  BY <1>1, PulledFacts
<1>4. n \in 1..Len(p) /\ Linked(c \o SubSeq(p, 1, n))
  <2>1. Len(p) \in Nat
    BY <1>3
  <2> QED BY <1>1, <2>1, LinkingIsCount
<1>5. t \in Seq(Block) /\ Len(t) = n /\ \A k \in 1..n : t[k] = p[k] /\ k \in 1..Len(p)
  BY <1>3, <1>4
<1>6. g \in Seq(Block) /\ Joined(c, t, g)
  BY <1>2, <1>5, ConcatParts
<1>7. Extends(c, g)
  BY <1>6 DEF Extends, Joined
<1>8. \A k \in Len(c) + 1 .. Len(g) : \E i \in DOMAIN rblocks : g[k] = rblocks[i]
  <2> TAKE k \in Len(c) + 1 .. Len(g)
  <2>1. k \in 1..Len(g) /\ k \notin 1..Len(c)
    BY <1>6 DEF Joined
  <2>2. PICK j \in 1..Len(t) : k = Len(c) + j
    BY <1>6, <2>1 DEF Joined
  <2>3. g[k] = p[j] /\ j \in 1..Len(p)
    BY <1>5, <1>6, <2>2 DEF Joined
  <2> QED BY <1>3, <2>3
<1>9. g # <<>> /\ g[1] = Genesis
  BY <1>2, <1>6, <1>7, ExtendsFirst
<1>10. UNCHANGED <<pending, rblocks, origin, torn>>
  BY DEF PullLinking, remote
<1>11. Pulls(d, g)
  BY <1>1, <1>6, <1>7, <1>8, <1>9, <1>10 DEF Pulls, Becomes
<1>12. chain'[d] = g
  BY <1>1 DEF TypeInv, TypeOK
<1> QED BY <1>4, <1>11, <1>12

LEMMA MergeKind ==
  ASSUME TypeInv, NEW d \in Device, MergeChains(d)
  PROVE  \E g : Joins(d, g)
<1> PICK g : g = Merge(chain[d], RemoteChain)
  OBVIOUS
<1>1. chain' = [chain EXCEPT ![d] = g] /\ Mergeable(chain[d], RemoteChain)
      /\ UNCHANGED <<pending, rblocks, origin, torn>>
  BY DEF MergeChains, remote
<1>2. Merges(chain[d], RemoteChain, g)
  BY <1>1, ChainFacts, RemoteFacts, Merged
<1>3. Joins(d, g)
  BY <1>1, <1>2, ChainFacts DEF Joins, Becomes, Merges
<1> QED BY <1>3

LEMMA TearKind ==
  ASSUME TypeInv, NEW d \in Device, TearCommit(d) \/ TearMerge(d)
  PROVE  \E g : Tears(d, g)
<1> PICK c : c = chain[d]
  OBVIOUS
<1>1. c \in Seq(Block) /\ c # <<>> /\ c[1] = Genesis
  BY ChainFacts
<1>2. CASE TearCommit(d)
  <2>1. PICK S \in (SUBSET pending[d]) \ {{}} :
          \E n \in Len(c) + 1 .. Len(CommitEntries(c, S)) :
            chain' = [chain EXCEPT ![d] = SubSeq(CommitEntries(c, S), 1, n)]
    BY <1>2 DEF TearCommit
  <2> PICK g : g = CommitEntries(c, S)
    OBVIOUS
  <2>2. S \in SUBSET Entry
    <3>1. pending[d] \in SUBSET Entry
      BY DEF TypeInv, TypeOK
    <3> QED BY <3>1
  <2>3. g \in Seq(Block) /\ Extends(c, g)
    BY <1>1, <2>2, CommitAppended
  <2>4. g # <<>> /\ g[1] = Genesis /\ Len(g) \in Nat /\ Len(c) \in Nat
    BY <1>1, <2>3, ExtendsFirst
  <2>5. PICK n \in Len(c) + 1 .. Len(g) : chain' = [chain EXCEPT ![d] = SubSeq(g, 1, n)]
    BY <2>1
  <2>6. n \in 1..Len(g)
    BY <2>4
  <2> PICK f : f = SubSeq(g, 1, n)
    OBVIOUS
  <2>7. f \in Seq(Block) /\ f # <<>> /\ f[1] = Genesis
    BY <2>3, <2>4, <2>6, CutFacts
  <2>8. UNCHANGED <<pending, rblocks, origin>> /\ torn' = torn \cup {d}
    BY <1>2 DEF TearCommit, remote
  <2>9. Tears(d, f)
    BY <2>5, <2>7, <2>8 DEF Tears, Becomes
  <2> QED BY <2>9
<1>3. CASE TearMerge(d)
  <2> PICK g : g = Merge(c, RemoteChain)
    OBVIOUS
  <2>1. PICK n \in 1 .. Len(g) - 1 : chain' = [chain EXCEPT ![d] = SubSeq(g, 1, n)]
    BY <1>3 DEF TearMerge
  <2>2. Mergeable(c, RemoteChain) /\ UNCHANGED <<pending, rblocks, origin>> /\ torn' = torn \cup {d}
    BY <1>3 DEF TearMerge, remote
  <2>3. Merges(c, RemoteChain, g)
    BY <1>1, <2>2, RemoteFacts, Merged
  <2>4. g \in Seq(Block) /\ g[1] = Genesis /\ Len(g) \in Nat
    BY <1>1, <2>3 DEF Merges
  <2>5. n \in 1..Len(g)
    BY <2>4
  <2> PICK f : f = SubSeq(g, 1, n)
    OBVIOUS
  <2>6. f \in Seq(Block) /\ f # <<>> /\ f[1] = Genesis
    BY <2>4, <2>5, CutFacts
  <2>7. Tears(d, f)
    BY <2>1, <2>2, <2>6 DEF Tears, Becomes
  <2> QED BY <2>7
<1> QED BY <1>2, <1>3

LEMMA RestKind ==
  ASSUME TypeInv, NEW d \in Device,
         \/ SyncOnly(d) \/ FetchIdentical(d) \/ FetchExtended(d) \/ FetchOther(d)
         \/ List(d) \/ Relist(d) \/ PullNothing(d) \/ PullDiverged(d) \/ PullUnrelated(d)
         \/ Decline(d) \/ MergeFails(d) \/ MergeRaises(d)
         \/ PushBlock(d) \/ PushBlockFails(d) \/ PushHashes(d) \/ PushChecksum(d) \/ Kill(d)
  PROVE  Rests(d)
<1>1. CASE SyncOnly(d)
  BY <1>1 DEF SyncOnly, Rests, files, remote
<1>2. CASE FetchIdentical(d) \/ FetchExtended(d) \/ FetchOther(d)
  BY <1>2 DEF FetchIdentical, FetchExtended, FetchOther, Rests, files, remote
<1>3. CASE List(d) \/ Relist(d)
  BY <1>3 DEF List, Relist, Rests, files, remote
<1>4. CASE PullNothing(d) \/ PullDiverged(d) \/ PullUnrelated(d)
  BY <1>4 DEF PullNothing, PullDiverged, PullUnrelated, Rests, files, remote
<1>5. CASE Decline(d) \/ MergeFails(d) \/ MergeRaises(d)
  BY <1>5 DEF Decline, MergeFails, MergeRaises, Rests, files, remote
<1>6. CASE PushBlock(d) \/ PushBlockFails(d)
  <2>1. UNCHANGED <<pending, chain, origin, torn>>
    BY <1>6 DEF PushBlock, PushBlockFails, files
  <2>2. PutBlock(d, Min(todo[d])) \/ UNCHANGED rblocks
    BY <1>6 DEF PushBlock, PushBlockFails
  <2>3. pc[d] = "push"
    BY <1>6 DEF PushBlock, PushBlockFails
  <2>4. todo[d] # {} /\ todo[d] \subseteq DOMAIN chain[d] /\ todo[d] \in SUBSET Positions
    BY <2>3 DEF TypeInv, TypeOK, ControlInv
  <2>5. todo[d] \in SUBSET Nat
    BY <2>4 DEF Positions
  <2>6. Min(todo[d]) \in DOMAIN chain[d]
    BY <2>4, <2>5, LeastOfSet
  <2> QED BY <2>1, <2>2, <2>6 DEF Rests
<1>7. CASE PushHashes(d) \/ PushChecksum(d)
  BY <1>7 DEF PushHashes, PushChecksum, Rests, files
<1>8. CASE Kill(d)
  BY <1>8 DEF Kill, Rests, files, remote
<1> QED BY <1>1, <1>2, <1>3, <1>4, <1>5, <1>6, <1>7, <1>8

LEMMA StepKinds ==
  ASSUME TypeInv, Next
  PROVE  \E d \in Device :
           \/ Rests(d)
           \/ \E S, g : Commits(d, S, g)
           \/ \E g : Reverts(d, g)
           \/ \E g : Pulls(d, g)
           \/ \E g : Joins(d, g)
           \/ \E g : Tears(d, g)
<1>1. PICK d \in Device :
        \/ SyncOnly(d) \/ Commit(d) \/ Continue(d)
        \/ Kill(d) \/ TearCommit(d) \/ TearMerge(d)
  BY DEF Next
<1>2. CASE Commit(d)
  BY <1>2, CommitKind, Zenon
<1>3. CASE TearCommit(d) \/ TearMerge(d)
  BY <1>3, TearKind, Zenon
<1>4. CASE PullNamed(d)
  BY <1>4, PullNamedKind, Zenon
<1>5. CASE PullLinking(d)
  BY <1>5, PullLinkingKind, Zenon
<1>6. CASE MergeChains(d)
  BY <1>6, MergeKind, Zenon
<1>7. CASE \/ SyncOnly(d) \/ FetchIdentical(d) \/ FetchExtended(d) \/ FetchOther(d)
           \/ List(d) \/ Relist(d) \/ PullNothing(d) \/ PullDiverged(d) \/ PullUnrelated(d)
           \/ Decline(d) \/ MergeFails(d) \/ MergeRaises(d)
           \/ PushBlock(d) \/ PushBlockFails(d) \/ PushHashes(d) \/ PushChecksum(d) \/ Kill(d)
  BY <1>7, RestKind, Zenon
<1> QED BY <1>1, <1>2, <1>3, <1>4, <1>5, <1>6, <1>7, Zenon DEF Continue

-----------------------------------------------------------------------------
\* Every step preserves the types.

LEMMA BecomesTyped ==
  ASSUME TypeInv, NEW d \in Device, NEW g, Becomes(d, g)
  PROVE  /\ chain' \in [Device -> Seq(Block)]
         /\ \A o \in Device : chain'[o] # <<>> /\ chain'[o][1] = Genesis
         /\ \A o \in Device : o # d => chain'[o] = chain[o]
         /\ chain'[d] = g
BY DEF Becomes, TypeInv, TypeOK

LEMMA FilesStep ==
  ASSUME TypeInv, Next
  PROVE  /\ pending' \in [Device -> SUBSET Entry]
         /\ chain' \in [Device -> Seq(Block)]
         /\ \A o \in Device : chain'[o] # <<>> /\ chain'[o][1] = Genesis
         /\ DOMAIN rblocks' \subseteq Positions
         /\ rblocks' \in [DOMAIN rblocks' -> Block]
         /\ Bounded(DOMAIN rblocks')
         /\ origin' \in [Entry -> Device]
         /\ torn' \in SUBSET Device
<1>1. PICK d \in Device :
         \/ Rests(d)
         \/ \E S, g : Commits(d, S, g)
         \/ \E g : Reverts(d, g)
         \/ \E g : Pulls(d, g)
         \/ \E g : Joins(d, g)
         \/ \E g : Tears(d, g)
  BY StepKinds
<1>2. /\ pending \in [Device -> SUBSET Entry]
      /\ DOMAIN rblocks \subseteq Positions
      /\ rblocks \in [DOMAIN rblocks -> Block]
      /\ Bounded(DOMAIN rblocks)
      /\ origin \in [Entry -> Device] /\ torn \in SUBSET Device
  BY DEF TypeInv, TypeOK, ControlInv
<1>3. CASE Rests(d)
  <2>1. UNCHANGED <<pending, chain, origin, torn>>
    BY <1>3 DEF Rests
  <2>2. /\ DOMAIN rblocks' \subseteq Positions
        /\ rblocks' \in [DOMAIN rblocks' -> Block]
        /\ Bounded(DOMAIN rblocks')
    <3>1. CASE UNCHANGED rblocks
      BY <1>2, <3>1
    <3>2. CASE \E i \in DOMAIN chain[d] : PutBlock(d, i)
      <4>1. PICK i \in DOMAIN chain[d] : PutBlock(d, i)
        BY <3>2
      <4>2. chain[d][i] \in Block /\ i \in Positions
        BY ChainFacts DEF Positions
      <4>3. DOMAIN rblocks' = DOMAIN rblocks \cup {i}
            /\ rblocks' \in [DOMAIN rblocks \cup {i} -> Block]
        BY <1>2, <4>1, <4>2 DEF PutBlock
      <4>4. Bounded(DOMAIN rblocks \cup {i})
        BY <1>2, <4>2, BoundedSets DEF Positions
      <4> QED BY <1>2, <4>2, <4>3, <4>4
    <3> QED BY <1>3, <3>1, <3>2 DEF Rests
  <2> QED BY <1>2, <2>1, <2>2 DEF TypeInv, TypeOK
<1>4. ASSUME NEW S, NEW g, Commits(d, S, g)
      PROVE  /\ pending' \in [Device -> SUBSET Entry]
             /\ Becomes(d, g) /\ UNCHANGED <<rblocks, origin, torn>>
  BY <1>2, <1>4 DEF Commits
<1>5. ASSUME NEW g, Reverts(d, g) \/ Pulls(d, g) \/ Joins(d, g) \/ Tears(d, g)
      PROVE  /\ Becomes(d, g) /\ UNCHANGED <<pending, rblocks, origin>>
             /\ torn' \in SUBSET Device
  BY <1>2, <1>5 DEF Reverts, Pulls, Joins, Tears
<1>6. ASSUME ~Rests(d)
      PROVE  \E g : /\ Becomes(d, g) /\ UNCHANGED <<rblocks, origin>>
                    /\ pending' \in [Device -> SUBSET Entry]
                    /\ torn' \in SUBSET Device
  <2>1. CASE \E S, g : Commits(d, S, g)
    <3>1. PICK S, g : Commits(d, S, g)
      BY <2>1
    <3> QED BY <1>2, <1>4, <3>1
  <2>2. CASE \E g : Reverts(d, g) \/ Pulls(d, g) \/ Joins(d, g) \/ Tears(d, g)
    <3>1. PICK g : Reverts(d, g) \/ Pulls(d, g) \/ Joins(d, g) \/ Tears(d, g)
      BY <2>2
    <3> QED BY <1>2, <1>5, <3>1
  <2> QED BY <1>1, <1>6, <2>1, <2>2
<1>7. CASE ~Rests(d)
  <2>1. PICK g : /\ Becomes(d, g) /\ UNCHANGED <<rblocks, origin>>
                 /\ pending' \in [Device -> SUBSET Entry]
                 /\ torn' \in SUBSET Device
    BY <1>6, <1>7
  <2>2. /\ chain' \in [Device -> Seq(Block)]
        /\ \A o \in Device : chain'[o] # <<>> /\ chain'[o][1] = Genesis
    BY <2>1, BecomesTyped
  <2> QED BY <1>2, <2>1, <2>2
<1> QED BY <1>3, <1>7

\* Where the sync of d is after a step, and with what it goes on.
Steers(d) ==
  \E l \in Steps : \E L, P \in SUBSET Positions :
    /\ pc' = [pc EXCEPT ![d] = l]
    /\ listed' = [listed EXCEPT ![d] = L]
    /\ todo' = [todo EXCEPT ![d] = P]
    /\ Bounded(L)
    /\ l = "push" => P # {} /\ P \subseteq DOMAIN chain'[d]

LEMMA Kept ==
  ASSUME TypeInv, NEW d \in Device
  PROVE  /\ pc = [pc EXCEPT ![d] = pc[d]]
         /\ listed = [listed EXCEPT ![d] = listed[d]]
         /\ todo = [todo EXCEPT ![d] = todo[d]]
         /\ Bounded(listed[d]) /\ listed[d] \in SUBSET Positions /\ todo[d] \in SUBSET Positions
         /\ pc[d] \in Steps
  BY DEF TypeInv, TypeOK, ControlInv

LEMMA StepsTaken ==
  ASSUME TypeInv, NEW d \in Device
  PROVE  /\ UNCHANGED control /\ pc[d] # "push" => Steers(d)
         /\ \A l \in Steps \ {"push"} : Goto(d, l) => Steers(d)
         /\ Finish(d) => Steers(d)
         /\ \A P \in SUBSET Positions : StartPush(d, P) /\ P \subseteq DOMAIN chain'[d] => Steers(d)
<1>1. /\ pc = [pc EXCEPT ![d] = pc[d]]
      /\ listed = [listed EXCEPT ![d] = listed[d]]
      /\ todo = [todo EXCEPT ![d] = todo[d]]
      /\ Bounded(listed[d]) /\ listed[d] \in SUBSET Positions /\ todo[d] \in SUBSET Positions
      /\ pc[d] \in Steps
  BY Kept
<1>2. Bounded({}) /\ {} \in SUBSET Positions
  BY BoundedSets
<1>3. ASSUME UNCHANGED control, pc[d] # "push"
      PROVE  Steers(d)
  BY <1>1, <1>3 DEF Steers, control
<1>4. ASSUME NEW l \in Steps \ {"push"}, Goto(d, l)
      PROVE  Steers(d)
  BY <1>1, <1>4 DEF Steers, Goto
<1>5. ASSUME Finish(d)
      PROVE  Steers(d)
  <2>1. "idle" \in Steps /\ "idle" # "push"
    BY DEF Steps
  <2> QED BY <1>2, <1>5, <2>1 DEF Steers, Finish
<1>6. ASSUME NEW P \in SUBSET Positions, StartPush(d, P), P \subseteq DOMAIN chain'[d]
      PROVE  Steers(d)
  <2>1. CASE P = {}
    <3>1. "index" \in Steps /\ "index" # "push"
      BY DEF Steps
    <3> QED BY <1>2, <1>6, <2>1, <3>1 DEF Steers, StartPush
  <2>2. CASE P # {}
    <3>1. "push" \in Steps
      BY DEF Steps
    <3> QED BY <1>2, <1>6, <2>2, <3>1 DEF Steers, StartPush
  <2> QED BY <2>1, <2>2
<1> QED BY <1>3, <1>4, <1>5, <1>6

LEMMA Pushing ==
  ASSUME TypeInv, NEW d \in Device, NEW c \in Seq(Block), chain'[d] = c,
         NEW P, P \subseteq DOMAIN c, StartPush(d, P)
  PROVE  Steers(d)
<1>1. DOMAIN c \subseteq Positions
  <2>1. DOMAIN c = 1..Len(c) /\ Len(c) \in Nat
    OBVIOUS
  <2> QED BY <2>1 DEF Positions
<1> QED BY <1>1, StepsTaken

LEMMA PushingMore ==
  ASSUME TypeInv, NEW d \in Device, UNCHANGED chain, NEW P, P \subseteq DOMAIN chain[d], StartPush(d, P)
  PROVE  Steers(d)
<1>1. chain[d] \in Seq(Block) /\ chain'[d] = chain[d]
  BY ChainFacts
<1> QED BY <1>1, Pushing

LEMMA StalePushed ==
  ASSUME TypeInv, NEW d \in Device, UNCHANGED chain, PushOverStale(d)
  PROVE  Steers(d)
<1> PICK n : n = Len(chain[d])
  OBVIOUS
<1> PICK P : P = Missing(chain[d], listed[d]) \cup (IF \E i \in listed[d] : i > n THEN {n} ELSE {})
  OBVIOUS
<1>1. StartPush(d, P)
  BY DEF PushOverStale
<1>2. n \in DOMAIN chain[d]
  BY ChainFacts
<1>3. P \subseteq DOMAIN chain[d]
  BY <1>2 DEF Missing
<1> QED BY <1>1, <1>3, PushingMore

LEMMA MissingInside ==
  \A c, known : Missing(c, known) \subseteq DOMAIN c
BY DEF Missing

LEMMA FetchSteers ==
  ASSUME TypeInv, NEW d \in Device,
         SyncOnly(d) \/ FetchIdentical(d) \/ FetchExtended(d) \/ FetchOther(d)
  PROVE  Steers(d)
<1>1. CASE SyncOnly(d) \/ FetchIdentical(d) \/ FetchOther(d)
  <2>1. {"fetch", "relist", "list"} \subseteq Steps \ {"push"}
    BY DEF Steps
  <2>2. Goto(d, "fetch") \/ Goto(d, "relist") \/ Goto(d, "list")
    BY <1>1 DEF SyncOnly, FetchIdentical, FetchOther
  <2> QED BY <2>1, <2>2, StepsTaken
<1>2. CASE FetchExtended(d)
  <2> PICK L : L = Len(chain[d]) + 1 .. Len(hjson)
    OBVIOUS
  <2>1. /\ pc' = [pc EXCEPT ![d] = "named"]
        /\ listed' = [listed EXCEPT ![d] = L]
        /\ todo' = todo
    BY <1>2 DEF FetchExtended
  <2>2. Len(chain[d]) + 1 \in Nat \ {0} /\ Len(hjson) \in Nat
    <3>1. Len(chain[d]) \in Nat /\ hjson \in Seq(Block)
      BY ChainFacts DEF TypeInv, TypeOK
    <3> QED BY <3>1
  <2>3. Bounded(L) /\ L \in SUBSET Positions
    BY <2>2, BoundedSets DEF Positions
  <2>4. todo' = [todo EXCEPT ![d] = todo[d]] /\ todo[d] \in SUBSET Positions
    BY <2>1, Kept
  <2>5. "named" \in Steps /\ "named" # "push"
    BY DEF Steps
  <2> QED BY <2>1, <2>3, <2>4, <2>5 DEF Steers
<1> QED BY <1>1, <1>2

LEMMA ListSteers ==
  ASSUME TypeInv, NEW d \in Device, List(d) \/ Relist(d)
  PROVE  Steers(d)
<1>1. \A known \in Listing : Bounded(known) /\ known \in SUBSET Positions
  BY BoundedSets DEF Listing, TypeInv, TypeOK, ControlInv
<1>2. CASE List(d)
  <2>1. PICK L \in Listing : listed' = [listed EXCEPT ![d] = L]
    BY <1>2 DEF List
  <2>2. pc' = [pc EXCEPT ![d] = "pull"] /\ todo' = [todo EXCEPT ![d] = todo[d]]
        /\ todo[d] \in SUBSET Positions
    BY <1>2, Kept DEF List
  <2>3. "pull" \in Steps /\ "pull" # "push"
    BY DEF Steps
  <2> QED BY <1>1, <2>1, <2>2, <2>3 DEF Steers
<1>3. CASE Relist(d)
  <2>1. PICK known \in Listing : StartPush(d, Missing(chain[d], known))
    BY <1>3 DEF Relist
  <2>2. UNCHANGED chain
    BY <1>3 DEF Relist, files
  <2> QED BY <2>1, <2>2, MissingInside, PushingMore
<1> QED BY <1>2, <1>3

LEMMA PullSteers ==
  ASSUME TypeInv, NEW d \in Device,
         PullNothing(d) \/ PullDiverged(d) \/ PullUnrelated(d)
  PROVE  Steers(d)
<1>1. UNCHANGED chain
  BY DEF PullNothing, PullDiverged, PullUnrelated, files
<1>2. CASE PullNothing(d)
  <2>1. StartPush(d, Missing(chain[d], listed[d]))
    BY <1>2 DEF PullNothing
  <2> QED BY <1>1, <2>1, MissingInside, PushingMore
<1>3. CASE PullDiverged(d)
  <2>1. "choose" \in Steps \ {"push"}
    BY DEF Steps
  <2> QED BY <1>3, <2>1, StepsTaken DEF PullDiverged
<1>4. CASE PullUnrelated(d)
  BY <1>1, <1>4, StalePushed DEF PullUnrelated
<1> QED BY <1>2, <1>3, <1>4

LEMMA ChooseSteers ==
  ASSUME TypeInv, NEW d \in Device, Decline(d) \/ MergeFails(d) \/ MergeRaises(d)
  PROVE  Steers(d)
<1>1. UNCHANGED chain
  BY DEF Decline, MergeFails, MergeRaises, files
<1>2. CASE Decline(d) \/ MergeFails(d)
  BY <1>1, <1>2, StalePushed DEF Decline, MergeFails
<1>3. CASE MergeRaises(d)
  <2>1. StartPush(d, {})
    BY <1>3 DEF MergeRaises
  <2> QED BY <1>1, <2>1, PushingMore
<1> QED BY <1>2, <1>3

LEMMA PushSteers ==
  ASSUME TypeInv, NEW d \in Device,
         PushBlock(d) \/ PushBlockFails(d) \/ PushHashes(d) \/ PushChecksum(d) \/ Kill(d)
  PROVE  Steers(d)
<1>1. CASE PushBlock(d)
  <2>1. UNCHANGED chain /\ StartPush(d, todo[d] \ {Min(todo[d])})
    BY <1>1 DEF PushBlock, files
  <2>2. todo[d] \ {Min(todo[d])} \subseteq DOMAIN chain[d]
    <3>1. pc[d] = "push"
      BY <1>1 DEF PushBlock
    <3> QED BY <3>1 DEF TypeInv, ControlInv
  <2> QED BY <2>1, <2>2, PushingMore
<1>2. CASE PushBlockFails(d)
  <2>1. UNCHANGED chain /\ StartPush(d, {})
    BY <1>2 DEF PushBlockFails, files
  <2> QED BY <2>1, PushingMore
<1>3. CASE PushHashes(d)
  <2>1. "checksum" \in Steps \ {"push"}
    BY DEF Steps
  <2> QED BY <1>3, <2>1, StepsTaken DEF PushHashes
<1>4. CASE PushChecksum(d) \/ Kill(d)
  BY <1>4, StepsTaken DEF PushChecksum, Kill
<1> QED BY <1>1, <1>2, <1>3, <1>4

LEMMA CommitSteers ==
  ASSUME TypeInv, NEW d \in Device, Commit(d) \/ TearCommit(d)
  PROVE  Steers(d)
<1>1. pc[d] = "idle"
  BY DEF Commit, TearCommit, MayStart
<1>2. UNCHANGED control \/ Goto(d, "fetch")
  BY DEF Commit, TearCommit, control
<1>3. "fetch" \in Steps \ {"push"}
  BY DEF Steps
<1> QED BY <1>1, <1>2, <1>3, StepsTaken

LEMMA NamedSteers ==
  ASSUME TypeInv, NEW d \in Device, PullNamed(d)
  PROVE  Steers(d)
<1>1. pc' = [pc EXCEPT ![d] = "list"] /\ listed' = [listed EXCEPT ![d] = {}] /\ todo' = todo
  BY DEF PullNamed
<1>2. todo' = [todo EXCEPT ![d] = todo[d]] /\ todo[d] \in SUBSET Positions
  BY <1>1, Kept
<1>3. "list" \in Steps /\ "list" # "push" /\ Bounded({}) /\ {} \in SUBSET Positions
  BY BoundedSets DEF Steps
<1> QED BY <1>1, <1>2, <1>3 DEF Steers

LEMMA GrowSteers ==
  ASSUME TypeInv, NEW d \in Device, PullLinking(d) \/ MergeChains(d) \/ TearMerge(d)
  PROVE  Steers(d)
<1>1. CASE PullLinking(d)
  <2> PICK g : g = chain[d] \o SubSeq(Pulled(d), 1, Linking(chain[d], Pulled(d)))
    OBVIOUS
  <2>1. chain' = [chain EXCEPT ![d] = g] /\ StartPush(d, Missing(g, listed[d]))
    BY <1>1 DEF PullLinking
  <2>2. PICK h : Pulls(d, h)
    BY <1>1, PullLinkingKind
  <2>3. chain'[d] = h /\ h \in Seq(Block)
    BY <2>2, BecomesTyped DEF Pulls, Becomes
  <2>4. chain'[d] = g
    BY <2>1 DEF TypeInv, TypeOK
  <2> QED BY <2>1, <2>3, <2>4, MissingInside, Pushing
<1>2. CASE MergeChains(d)
  <2> PICK g : g = Merge(chain[d], RemoteChain)
    OBVIOUS
  <2>1. chain' = [chain EXCEPT ![d] = g] /\ StartPush(d, DOMAIN g)
    BY <1>2 DEF MergeChains
  <2>2. PICK h : Joins(d, h)
    BY <1>2, MergeKind
  <2>3. chain'[d] = h /\ h \in Seq(Block)
    BY <2>2, BecomesTyped DEF Joins, Becomes
  <2>4. chain'[d] = g
    BY <2>1 DEF TypeInv, TypeOK
  <2> QED BY <2>1, <2>3, <2>4, Pushing
<1>3. CASE TearMerge(d)
  BY <1>3, StepsTaken DEF TearMerge
<1> QED BY <1>1, <1>2, <1>3

\* A step of one device leaves the chains of the others alone.
LEMMA OwnChain ==
  ASSUME TypeInv, NEW d \in Device,
         \/ SyncOnly(d) \/ Commit(d) \/ Continue(d)
         \/ Kill(d) \/ TearCommit(d) \/ TearMerge(d)
  PROVE  \A o \in Device : o # d => chain'[o] = chain[o]
<1>1. ASSUME \E g : Becomes(d, g)
      PROVE  \A o \in Device : o # d => chain'[o] = chain[o]
  BY <1>1, BecomesTyped
<1>2. CASE Commit(d)
  BY <1>1, <1>2, CommitKind DEF Commits, Reverts
<1>3. CASE TearCommit(d) \/ TearMerge(d)
  BY <1>1, <1>3, TearKind DEF Tears
<1>4. CASE PullNamed(d)
  BY <1>1, <1>4, PullNamedKind DEF Pulls
<1>5. CASE PullLinking(d)
  BY <1>1, <1>5, PullLinkingKind DEF Pulls
<1>6. CASE MergeChains(d)
  BY <1>1, <1>6, MergeKind DEF Joins
<1>7. CASE \/ SyncOnly(d) \/ FetchIdentical(d) \/ FetchExtended(d) \/ FetchOther(d)
           \/ List(d) \/ Relist(d) \/ PullNothing(d) \/ PullDiverged(d) \/ PullUnrelated(d)
           \/ Decline(d) \/ MergeFails(d) \/ MergeRaises(d)
           \/ PushBlock(d) \/ PushBlockFails(d) \/ PushHashes(d) \/ PushChecksum(d) \/ Kill(d)
  <2>1. Rests(d)
    BY <1>7, RestKind, Zenon
  <2> QED BY <2>1 DEF Rests
<1> QED BY <1>2, <1>3, <1>4, <1>5, <1>6, <1>7, Zenon DEF Continue

LEMMA OwnSteers ==
  ASSUME TypeInv, NEW d \in Device,
         \/ SyncOnly(d) \/ Commit(d) \/ Continue(d)
         \/ Kill(d) \/ TearCommit(d) \/ TearMerge(d)
  PROVE  Steers(d)
<1>1. CASE SyncOnly(d) \/ FetchIdentical(d) \/ FetchExtended(d) \/ FetchOther(d)
  BY <1>1, FetchSteers, Zenon
<1>2. CASE List(d) \/ Relist(d)
  BY <1>2, ListSteers, Zenon
<1>3. CASE PullNothing(d) \/ PullDiverged(d) \/ PullUnrelated(d)
  BY <1>3, PullSteers, Zenon
<1>4. CASE Decline(d) \/ MergeFails(d) \/ MergeRaises(d)
  BY <1>4, ChooseSteers, Zenon
<1>5. CASE PushBlock(d) \/ PushBlockFails(d) \/ PushHashes(d) \/ PushChecksum(d) \/ Kill(d)
  BY <1>5, PushSteers, Zenon
<1>6. CASE Commit(d) \/ TearCommit(d)
  BY <1>6, CommitSteers, Zenon
<1>7. CASE PullNamed(d)
  BY <1>7, NamedSteers, Zenon
<1>8. CASE PullLinking(d) \/ MergeChains(d) \/ TearMerge(d)
  BY <1>8, GrowSteers, Zenon
<1> QED BY <1>1, <1>2, <1>3, <1>4, <1>5, <1>6, <1>7, <1>8, Zenon DEF Continue

LEMMA AnySteers ==
  ASSUME TypeInv, Next
  PROVE  \E d \in Device : Steers(d) /\ \A o \in Device : o # d => chain'[o] = chain[o]
<1>1. PICK d \in Device :
        \/ SyncOnly(d) \/ Commit(d) \/ Continue(d)
        \/ Kill(d) \/ TearCommit(d) \/ TearMerge(d)
  BY DEF Next
<1> QED BY <1>1, OwnChain, OwnSteers, Zenon

LEMMA SteersTyped ==
  ASSUME TypeInv, NEW d \in Device, Steers(d),
         \A o \in Device : o # d => chain'[o] = chain[o]
  PROVE  /\ pc' \in [Device -> Steps]
         /\ listed' \in [Device -> SUBSET Positions]
         /\ todo' \in [Device -> SUBSET Positions]
         /\ \A o \in Device : Bounded(listed'[o])
         /\ \A o \in Device : pc'[o] = "push" => todo'[o] # {} /\ todo'[o] \subseteq DOMAIN chain'[o]
<1>1. PICK l \in Steps : \E L, P \in SUBSET Positions :
        /\ pc' = [pc EXCEPT ![d] = l]
        /\ listed' = [listed EXCEPT ![d] = L]
        /\ todo' = [todo EXCEPT ![d] = P]
        /\ Bounded(L)
        /\ l = "push" => P # {} /\ P \subseteq DOMAIN chain'[d]
  BY DEF Steers
<1>2. PICK L \in SUBSET Positions, P \in SUBSET Positions :
        /\ pc' = [pc EXCEPT ![d] = l]
        /\ listed' = [listed EXCEPT ![d] = L]
        /\ todo' = [todo EXCEPT ![d] = P]
        /\ Bounded(L)
        /\ l = "push" => P # {} /\ P \subseteq DOMAIN chain'[d]
  BY <1>1
<1>3. /\ pc \in [Device -> Steps]
      /\ listed \in [Device -> SUBSET Positions]
      /\ todo \in [Device -> SUBSET Positions]
      /\ \A o \in Device : Bounded(listed[o])
      /\ \A o \in Device : pc[o] = "push" => todo[o] # {} /\ todo[o] \subseteq DOMAIN chain[o]
  BY DEF TypeInv, TypeOK, ControlInv
<1>4. /\ pc' \in [Device -> Steps] /\ pc'[d] = l
      /\ listed' \in [Device -> SUBSET Positions] /\ listed'[d] = L
      /\ todo' \in [Device -> SUBSET Positions] /\ todo'[d] = P
      /\ \A o \in Device : o # d => pc'[o] = pc[o] /\ listed'[o] = listed[o] /\ todo'[o] = todo[o]
  BY <1>2, <1>3
<1>5. ASSUME NEW o \in Device
      PROVE  Bounded(listed'[o])
  BY <1>2, <1>3, <1>4
<1>6. ASSUME NEW o \in Device, pc'[o] = "push"
      PROVE  todo'[o] # {} /\ todo'[o] \subseteq DOMAIN chain'[o]
  <2>1. CASE o = d
    BY <1>2, <1>4, <1>6, <2>1
  <2>2. CASE o # d
    <3>1. chain'[o] = chain[o]
      BY <2>2
    <3>2. pc[o] = "push" /\ todo'[o] = todo[o]
      BY <1>4, <1>6, <2>2
    <3> QED BY <1>3, <3>1, <3>2
  <2> QED BY <2>1, <2>2
<1> QED BY <1>4, <1>5, <1>6

\* The hash index is a chain of some device, or what it was.
LEMMA IndexStep ==
  ASSUME TypeInv, Next
  PROVE  hjson' \in Seq(Block) /\ hsha' \in Seq(Block)
<1>1. hjson \in Seq(Block) /\ hsha \in Seq(Block) /\ \A d \in Device : chain[d] \in Seq(Block)
  BY DEF TypeInv, TypeOK
<1>2. PICK d \in Device :
        \/ SyncOnly(d) \/ Commit(d) \/ Continue(d)
        \/ Kill(d) \/ TearCommit(d) \/ TearMerge(d)
  BY DEF Next
<1>3. CASE PushHashes(d)
  BY <1>1, <1>3 DEF PushHashes
<1>4. CASE PushChecksum(d)
  BY <1>1, <1>4 DEF PushChecksum
<1>5. CASE \/ SyncOnly(d) \/ Commit(d) \/ Kill(d) \/ TearCommit(d) \/ TearMerge(d)
  BY <1>1, <1>5 DEF SyncOnly, Commit, Kill, TearCommit, TearMerge, remote
<1>6. CASE \/ FetchIdentical(d) \/ FetchExtended(d) \/ FetchOther(d) \/ PullNamed(d) \/ List(d)
  BY <1>1, <1>6 DEF FetchIdentical, FetchExtended, FetchOther, PullNamed, List, remote
<1>7. CASE \/ Relist(d) \/ PullLinking(d) \/ PullNothing(d) \/ PullDiverged(d) \/ PullUnrelated(d)
  BY <1>1, <1>7 DEF Relist, PullLinking, PullNothing, PullDiverged, PullUnrelated, remote
<1>8. CASE \/ Decline(d) \/ MergeChains(d) \/ MergeFails(d) \/ MergeRaises(d)
           \/ PushBlock(d) \/ PushBlockFails(d)
  BY <1>1, <1>8 DEF Decline, MergeChains, MergeFails, MergeRaises, PushBlock, PushBlockFails, remote
<1> QED BY <1>2, <1>3, <1>4, <1>5, <1>6, <1>7, <1>8, Zenon DEF Continue

LEMMA TypeInit ==
  ASSUME Init
  PROVE  TypeInv
<1>1. Genesis \in Block /\ <<Genesis>> \in Seq(Block) /\ <<>> \in Seq(Block)
  <2>1. Genesis \in Block
    BY DEF Genesis, Block
  <2> QED BY <2>1
<1>2. "idle" \in Steps /\ {} \in SUBSET Positions /\ "idle" # "push" /\ Bounded({})
  BY BoundedSets DEF Steps
<1>3. chain \in [Device -> Seq(Block)] /\ \A d \in Device : chain[d] = <<Genesis>>
  BY <1>1 DEF Init
<1>4. \A d \in Device : chain[d] # <<>> /\ chain[d][1] = Genesis
  BY <1>3
<1>5. DOMAIN rblocks = {} /\ rblocks = [i \in {} |-> <<>>]
  BY DEF Init
<1>6. rblocks \in [DOMAIN rblocks -> Block] /\ DOMAIN rblocks \subseteq Positions
  BY <1>5
<1>7. /\ pc \in [Device -> Steps] /\ \A d \in Device : pc[d] # "push"
      /\ listed \in [Device -> SUBSET Positions] /\ \A d \in Device : listed[d] = {}
      /\ todo \in [Device -> SUBSET Positions]
  BY <1>2 DEF Init
<1>8. pending \in [Device -> SUBSET Entry] /\ origin \in [Entry -> Device] /\ torn \in SUBSET Device
      /\ hjson \in Seq(Block) /\ hsha \in Seq(Block)
  BY <1>1 DEF Init
<1>9. TypeOK
  BY <1>3, <1>4, <1>6, <1>7, <1>8 DEF TypeOK
<1>10. ControlInv
  BY <1>2, <1>5, <1>7 DEF ControlInv
<1> QED BY <1>9, <1>10 DEF TypeInv

LEMMA TypeStep ==
  TypeInv /\ [Next]_vars => TypeInv'
<1>1. ASSUME TypeInv, Next
      PROVE  TypeInv'
  <2>1. PICK d \in Device : Steers(d) /\ \A o \in Device : o # d => chain'[o] = chain[o]
    BY <1>1, AnySteers
  <2>2. /\ pc' \in [Device -> Steps]
        /\ listed' \in [Device -> SUBSET Positions]
        /\ todo' \in [Device -> SUBSET Positions]
        /\ \A o \in Device : Bounded(listed'[o])
        /\ \A o \in Device : pc'[o] = "push" => todo'[o] # {} /\ todo'[o] \subseteq DOMAIN chain'[o]
    BY <1>1, <2>1, SteersTyped
  <2>3. /\ pending' \in [Device -> SUBSET Entry]
        /\ chain' \in [Device -> Seq(Block)]
        /\ \A o \in Device : chain'[o] # <<>> /\ chain'[o][1] = Genesis
        /\ DOMAIN rblocks' \subseteq Positions
        /\ rblocks' \in [DOMAIN rblocks' -> Block]
        /\ Bounded(DOMAIN rblocks')
        /\ origin' \in [Entry -> Device]
        /\ torn' \in SUBSET Device
    BY <1>1, FilesStep
  <2>4. hjson' \in Seq(Block) /\ hsha' \in Seq(Block)
    BY <1>1, IndexStep
  <2> QED BY <2>2, <2>3, <2>4 DEF TypeInv, TypeOK, ControlInv, Bounded
<1>2. ASSUME TypeInv, UNCHANGED vars
      PROVE  TypeInv'
  BY <1>2 DEF TypeInv, TypeOK, ControlInv, Bounded, vars, files, remote, control
<1> QED BY <1>1, <1>2

\* Whatever is pulled, merged, reverted or cut short by a failure or a kill, the
\* files keep their types: the local chain starts with the genesis block, and
\* push_blocks is only asked for blocks that the local chain has.
THEOREM TypeCorrect == Spec => []TypeOK
<1>1. Init => TypeInv
  BY TypeInit
<1>2. TypeInv /\ [Next]_vars => TypeInv'
  BY TypeStep
<1>3. TypeInv => TypeOK
  BY DEF TypeInv
<1> QED BY <1>1, <1>2, <1>3, PTL DEF Spec

-----------------------------------------------------------------------------
\* Entries are kept.

LEMMA HeldIsCounted ==
  ASSUME NEW c \in Seq(Block)
  PROVE  /\ Held(c) \in SUBSET Entry
         /\ \A e : e \in Held(c) <=> Copies(c, e) > 0
         /\ \A e : Copies(c, e) \in Nat
<1>1. ChainEntries(c) \in Seq(Entry)
  BY ChainConcat
<1>2. Held(c) \in SUBSET Entry
  BY <1>1 DEF Held, ToSet
<1>3. ASSUME NEW e
      PROVE  (e \in Held(c) <=> Copies(c, e) > 0) /\ Copies(c, e) \in Nat
  BY <1>1, CountIsNat DEF Held, Copies
<1> QED BY <1>2, <1>3

LEMMA MoreIsHeld ==
  ASSUME NEW c \in Seq(Block), NEW g \in Seq(Block), NEW e, Copies(c, e) <= Copies(g, e)
  PROVE  e \in Held(c) => e \in Held(g)
<1>1. (e \in Held(c) <=> Copies(c, e) > 0) /\ Copies(c, e) \in Nat
  BY HeldIsCounted
<1>2. (e \in Held(g) <=> Copies(g, e) > 0) /\ Copies(g, e) \in Nat
  BY HeldIsCounted
<1> QED BY <1>1, <1>2

\* What the device has of its own entries.
Has(o, e) == e \in pending[o] \cup Held(chain[o])

LEMMA KeptBy ==
  ASSUME TypeInv, NEW d \in Device, NEW e \in Entry, Has(d, e), d \notin torn',
         \/ Rests(d)
         \/ \E S, g : Commits(d, S, g)
         \/ \E g : Reverts(d, g)
         \/ \E g : Pulls(d, g)
         \/ \E g : Joins(d, g)
         \/ \E g : Tears(d, g)
  PROVE  e \in pending'[d] \cup Held(chain'[d])
<1>1. pending \in [Device -> SUBSET Entry] /\ chain[d] \in Seq(Block) /\ chain[d] # <<>>
  BY ChainFacts DEF TypeInv, TypeOK
<1>2. CASE Rests(d)
  BY <1>2 DEF Rests, Has
<1>3. CASE \E S, g : Commits(d, S, g)
  <2>1. PICK S, g : Commits(d, S, g)
    BY <1>3
  <2>2. g \in Seq(Block) /\ chain'[d] = g
    BY <2>1, BecomesTyped DEF Commits, Becomes
  <2>3. pending'[d] = pending[d] \ S
    BY <1>1, <2>1 DEF Commits
  <2>4. Copies(g, e) = Copies(chain[d], e) + (IF e \in S THEN 1 ELSE 0)
    BY <2>1 DEF Commits
  <2>5. Copies(chain[d], e) \in Nat /\ (e \in Held(chain[d]) <=> Copies(chain[d], e) > 0)
    BY <1>1, HeldIsCounted
  <2>6. e \in Held(g) <=> Copies(g, e) > 0
    BY <2>2, HeldIsCounted
  <2>7. e \in pending[d] \/ e \in Held(chain[d])
    BY DEF Has
  <2>8. e \in S \/ e \in Held(chain[d]) => e \in Held(g)
    BY <2>4, <2>5, <2>6
  <2> QED BY <2>2, <2>3, <2>7, <2>8
<1>4. CASE \E g : Reverts(d, g) \/ Pulls(d, g)
  <2>1. PICK g : Reverts(d, g) \/ Pulls(d, g)
    BY <1>4
  <2>2. g \in Seq(Block) /\ chain'[d] = g /\ Extends(chain[d], g) /\ pending' = pending
    BY <2>1, BecomesTyped DEF Reverts, Pulls, Becomes
  <2>3. Copies(chain[d], e) <= Copies(g, e)
    BY <1>1, <2>2, ExtendsIsPrefix
  <2>4. e \in Held(chain[d]) => e \in Held(g)
    BY <1>1, <2>2, <2>3, MoreIsHeld
  <2> QED BY <2>2, <2>4 DEF Has
<1>5. CASE \E g : Joins(d, g)
  <2>1. PICK g : Joins(d, g)
    BY <1>5
  <2>2. g \in Seq(Block) /\ chain'[d] = g /\ pending' = pending
    BY <2>1, BecomesTyped DEF Joins, Becomes
  <2>3. Merges(chain[d], RemoteChain, g)
    BY <1>1, <2>1, RemoteFacts, Merged DEF Joins
  <2>4. Copies(g, e) = IF Copies(chain[d], e) > 0 THEN Copies(chain[d], e)
                       ELSE Copies(RemoteChain, e)
    BY <2>3 DEF Merges
  <2>5. e \in Held(chain[d]) <=> Copies(chain[d], e) > 0
    BY <1>1, HeldIsCounted
  <2>6. e \in Held(g) <=> Copies(g, e) > 0
    BY <2>2, HeldIsCounted
  <2>7. e \in Held(chain[d]) => e \in Held(g)
    BY <2>4, <2>5, <2>6
  <2> QED BY <2>2, <2>7 DEF Has
<1>6. CASE \E g : Tears(d, g)
  BY <1>6 DEF Tears
<1> QED BY <1>2, <1>3, <1>4, <1>5, <1>6

\* A step leaves alone what other devices have, and never forgets a kill.
LEMMA OthersKept ==
  ASSUME TypeInv, NEW d \in Device,
         \/ Rests(d)
         \/ \E S, g : Commits(d, S, g)
         \/ \E g : Reverts(d, g)
         \/ \E g : Pulls(d, g)
         \/ \E g : Joins(d, g)
         \/ \E g : Tears(d, g)
  PROVE  /\ \A o \in Device : o # d => chain'[o] = chain[o] /\ pending'[o] = pending[o]
         /\ \A o \in Device : pending'[o] \subseteq pending[o]
         /\ origin' = origin /\ torn \subseteq torn'
<1>1. pending \in [Device -> SUBSET Entry]
  BY DEF TypeInv, TypeOK
<1>2. CASE Rests(d)
  BY <1>2 DEF Rests
<1>3. CASE \E S, g : Commits(d, S, g)
  <2>1. PICK S, g : Commits(d, S, g)
    BY <1>3
  <2>2. pending' = [pending EXCEPT ![d] = @ \ S] /\ origin' = origin /\ torn' = torn
    BY <2>1 DEF Commits
  <2>3. \A o \in Device : o # d => chain'[o] = chain[o]
    BY <2>1, BecomesTyped DEF Commits
  <2> QED BY <1>1, <2>2, <2>3
<1>4. CASE \E g : Reverts(d, g) \/ Pulls(d, g) \/ Joins(d, g) \/ Tears(d, g)
  <2>1. PICK g : Reverts(d, g) \/ Pulls(d, g) \/ Joins(d, g) \/ Tears(d, g)
    BY <1>4
  <2>2. Becomes(d, g) /\ pending' = pending /\ origin' = origin /\ torn \subseteq torn'
    BY <2>1 DEF Reverts, Pulls, Joins, Tears
  <2> QED BY <2>2, BecomesTyped
<1> QED BY <1>2, <1>3, <1>4

LEMMA KeptStep ==
  ASSUME TypeInv, EntryKept, Next
  PROVE  EntryKept'
<1>1. PICK d \in Device :
         \/ Rests(d)
         \/ \E S, g : Commits(d, S, g)
         \/ \E g : Reverts(d, g)
         \/ \E g : Pulls(d, g)
         \/ \E g : Joins(d, g)
         \/ \E g : Tears(d, g)
  BY StepKinds
<1>2. /\ \A o \in Device : o # d => chain'[o] = chain[o] /\ pending'[o] = pending[o]
      /\ origin' = origin /\ torn \subseteq torn'
  BY <1>1, OthersKept
<1>3. origin \in [Entry -> Device]
  BY DEF TypeInv, TypeOK
<1> SUFFICES ASSUME NEW e \in Entry, origin'[e] \notin torn'
             PROVE  e \in pending'[origin'[e]] \cup Held(chain'[origin'[e]])
  BY DEF EntryKept, Held, ChainEntries, BlockEntries
<1> PICK o \in Device : o = origin[e]
  BY <1>3
<1>4. Has(o, e) /\ o \notin torn'
  BY <1>2 DEF EntryKept, Has
<1>5. e \in pending'[o] \cup Held(chain'[o])
  <2>1. CASE o = d
    BY <1>1, <1>4, <2>1, KeptBy
  <2>2. CASE o # d
    BY <1>2, <1>4, <2>2 DEF Has
  <2> QED BY <2>1, <2>2
<1> QED BY <1>2, <1>5

\* An entry stays with its device, staged or in its chain, through commits that
\* fail, pulls, merges and reverts; only a kill amid a rewrite may lose it.
THEOREM EntriesAreKept == Spec => []EntryKept
<1>1. Init => TypeInv /\ EntryKept
  <2> SUFFICES ASSUME Init
               PROVE  TypeInv /\ EntryKept
    OBVIOUS
  <2>1. \A e \in Entry : e \in pending[origin[e]]
    BY DEF Init
  <2> QED BY <2>1, TypeInit DEF EntryKept
<1>2. TypeInv /\ EntryKept /\ [Next]_vars => TypeInv' /\ EntryKept'
  <2> SUFFICES ASSUME TypeInv, EntryKept, [Next]_vars
               PROVE  TypeInv' /\ EntryKept'
    OBVIOUS
  <2>1. TypeInv'
    BY TypeStep
  <2>2. CASE Next
    BY <2>1, <2>2, KeptStep
  <2>3. CASE UNCHANGED vars
    BY <2>1, <2>3 DEF EntryKept, Held, ChainEntries, BlockEntries, vars, files
  <2> QED BY <2>2, <2>3
<1> QED BY <1>1, <1>2, PTL DEF Spec

-----------------------------------------------------------------------------
\* Entries are recorded once.

AllVerify == torn = {} /\ \A d \in Device : Linked(chain[d])

\* The days up to block b hold e at most once, and not while e is staged.
Once(b, e) ==
  /\ Count(DayEntries(b), e) <= 1
  /\ e \in pending[origin[e]] => Count(DayEntries(b), e) = 0

OnceInv ==
  /\ \A d \in Device : \A e \in pending[d] : origin[e] = d
  /\ AllVerify =>
       /\ \A i \in DOMAIN rblocks : \A e \in Entry : Once(rblocks[i], e)
       /\ \A d \in Device : \A i \in DOMAIN chain[d] : \A e \in Entry : Once(chain[d][i], e)

\* The inductive step keeps the counts and what is staged.
LEMMA OnceStays ==
  ASSUME NEW b, NEW e, Once(b, e),
         origin' = origin, e \in pending'[origin[e]] => e \in pending[origin[e]]
  PROVE  /\ Count(DayEntries(b), e) <= 1
         /\ e \in pending'[origin[e]] => Count(DayEntries(b), e) = 0
BY DEF Once

\* A chain that verifies holds what its last block and the blocks before it hold.
LEMMA LastHolds ==
  ASSUME NEW c \in Seq(Block), c # <<>>, c[1] = Genesis, Linked(c), NEW e
  PROVE  /\ Len(c) \in DOMAIN c
         /\ Copies(c, e) = Count(DayEntries(c[Len(c)]), e)
         /\ Copies(c, e) \in Nat
         /\ \A i \in DOMAIN c : /\ Count(DayEntries(c[i]), e) <= Copies(c, e)
                                /\ Count(DayEntries(c[i]), e) \in Nat
<1>1. Len(c) \in Nat /\ Len(c) >= 1 /\ DOMAIN c = 1..Len(c) /\ \A i \in 1..Len(c) : c[i] \in Block
  OBVIOUS
<1>2. /\ \A i \in 1..Len(c) : Count(DayEntries(c[i]), e) <= Copies(c, e)
      /\ Copies(c, e) = Count(DayEntries(c[Len(c)]), e)
  BY LinkedEntries
<1>3. Copies(c, e) \in Nat
  BY HeldIsCounted
<1>4. ASSUME NEW i \in 1..Len(c)
      PROVE  Count(DayEntries(c[i]), e) \in Nat
  <2>1. c[i] \in Block
    BY <1>1
  <2> QED BY <2>1, DaysOfBlock
<1> QED BY <1>1, <1>2, <1>3, <1>4

\* A chain that does not verify still does not after a step.
LEMMA VerifiedBefore ==
  ASSUME TypeInv, NEW d \in Device, torn' = {}, \A o \in Device : Linked(chain'[o]),
         \/ Rests(d)
         \/ \E S, g : Commits(d, S, g)
         \/ \E g : Reverts(d, g)
         \/ \E g : Pulls(d, g)
         \/ \E g : Joins(d, g)
         \/ \E g : Tears(d, g)
  PROVE  /\ AllVerify
         /\ \/ Rests(d)
            \/ \E S, g : Commits(d, S, g)
            \/ \E g : Pulls(d, g)
            \/ \E g : Joins(d, g)
<1>1. /\ \A o \in Device : o # d => chain'[o] = chain[o]
      /\ torn \subseteq torn'
  BY OthersKept
<1>2. torn = {}
  BY <1>1
<1>3. chain[d] \in Seq(Block)
  BY ChainFacts
<1>4. ASSUME NEW g, Becomes(d, g), Extends(chain[d], g)
      PROVE  Linked(chain[d])
  <2>1. g \in Seq(Block) /\ chain'[d] = g
    BY <1>4, BecomesTyped DEF Becomes
  <2>2. Linked(g)
    BY <2>1
  <2> QED BY <1>3, <1>4, <2>1, <2>2, LinkedPrefix
<1>5. Linked(chain[d]) /\ ~(\E g : Reverts(d, g)) /\ ~(\E g : Tears(d, g))
  <2>1. CASE Rests(d)
    <3>1. Linked(chain[d])
      BY <2>1 DEF Rests
    <3>2. \A g : ~Reverts(d, g)
      BY <3>1 DEF Reverts
    <3>3. \A g : ~Tears(d, g)
      BY DEF Tears
    <3> QED BY <3>1, <3>2, <3>3
  <2>2. ASSUME Linked(chain[d])
        PROVE  Linked(chain[d]) /\ ~(\E g : Reverts(d, g)) /\ ~(\E g : Tears(d, g))
    BY <2>2 DEF Reverts, Tears
  <2>3. CASE \E S, g : Commits(d, S, g)
    BY <1>4, <2>2, <2>3 DEF Commits
  <2>4. CASE \E g : Reverts(d, g)
    BY <1>4, <2>4 DEF Reverts
  <2>5. CASE \E g : Pulls(d, g)
    BY <1>4, <2>2, <2>5 DEF Pulls
  <2>6. CASE \E g : Joins(d, g)
    BY <2>2, <2>6 DEF Joins, Mergeable
  <2>7. CASE \E g : Tears(d, g)
    BY <2>7 DEF Tears
  <2> QED BY <2>1, <2>3, <2>4, <2>5, <2>6, <2>7
<1>6. ASSUME NEW o \in Device
      PROVE  Linked(chain[o])
  BY <1>1, <1>5
<1>7. AllVerify
  BY <1>2, <1>6 DEF AllVerify
<1> QED BY <1>5, <1>7

\* What a merged or a grown chain holds, its blocks hold.
LEMMA BlocksOnce ==
  ASSUME NEW g \in Seq(Block), g # <<>>, g[1] = Genesis, Linked(g), NEW e \in Entry,
         Copies(g, e) <= 1, e \in pending'[origin[e]] => Copies(g, e) = 0
  PROVE  \A i \in DOMAIN g :
           /\ Count(DayEntries(g[i]), e) <= 1
           /\ e \in pending'[origin[e]] => Count(DayEntries(g[i]), e) = 0
<1> TAKE i \in DOMAIN g
<1>1. /\ Count(DayEntries(g[i]), e) <= Copies(g, e)
      /\ Count(DayEntries(g[i]), e) \in Nat /\ Copies(g, e) \in Nat
  BY LastHolds
<1> QED BY <1>1

\* What device d holds after its step.
LEMMA OwnOnce ==
  ASSUME TypeInv, OnceInv, AllVerify, NEW d \in Device, Linked(chain'[d]), NEW e \in Entry,
         \/ Rests(d)
         \/ \E S, g : Commits(d, S, g)
         \/ \E g : Pulls(d, g)
         \/ \E g : Joins(d, g)
  PROVE  \A i \in DOMAIN chain'[d] :
           /\ Count(DayEntries(chain'[d][i]), e) <= 1
           /\ e \in pending'[origin[e]] => Count(DayEntries(chain'[d][i]), e) = 0
<1>1. chain[d] \in Seq(Block) /\ chain[d] # <<>> /\ chain[d][1] = Genesis
      /\ DOMAIN chain[d] = 1..Len(chain[d])
  BY ChainFacts
<1>2. Linked(chain[d])
  BY DEF AllVerify
<1>3. \A i \in DOMAIN chain[d] : Once(chain[d][i], e)
  BY DEF OnceInv
<1>4. Copies(chain[d], e) \in Nat /\ Copies(chain[d], e) <= 1
      /\ (e \in pending[origin[e]] => Copies(chain[d], e) = 0)
  BY <1>1, <1>2, <1>3, LastHolds DEF Once
<1>5. \A o \in Device : pending'[o] \subseteq pending[o]
  BY OthersKept
<1>6. origin[e] \in Device
  BY DEF TypeInv, TypeOK
<1>7. e \in pending'[origin[e]] => e \in pending[origin[e]]
  BY <1>5, <1>6
<1>8. CASE Rests(d)
  BY <1>3, <1>7, <1>8 DEF Rests, Once
<1>9. CASE \E S, g : Commits(d, S, g)
  <2>1. PICK S, g : Commits(d, S, g)
    BY <1>9
  <2>2. g \in Seq(Block) /\ g # <<>> /\ g[1] = Genesis /\ chain'[d] = g
    BY <2>1, BecomesTyped DEF Commits, Becomes
  <2>3. Copies(g, e) = Copies(chain[d], e) + (IF e \in S THEN 1 ELSE 0)
    BY <2>1 DEF Commits
  <2>4. pending'[d] = pending[d] \ S /\ S \subseteq pending[d]
    BY <2>1 DEF Commits, TypeInv, TypeOK
  <2>5. e \in S => origin[e] = d /\ e \in pending[origin[e]] /\ e \notin pending'[origin[e]]
    BY <2>4 DEF OnceInv
  <2>6. Copies(g, e) <= 1 /\ (e \in pending'[origin[e]] => Copies(g, e) = 0)
    BY <1>4, <1>7, <2>3, <2>5
  <2> QED BY <2>2, <2>6, BlocksOnce
<1>10. CASE \E g : Pulls(d, g)
  <2>1. PICK g : Pulls(d, g)
    BY <1>10
  <2>2. g \in Seq(Block) /\ chain'[d] = g /\ Extends(chain[d], g)
    BY <2>1, BecomesTyped DEF Pulls, Becomes
  <2>3. ASSUME NEW i \in DOMAIN g
        PROVE  Once(g[i], e)
    <3>1. CASE i \in 1..Len(chain[d])
      BY <1>1, <1>3, <2>2, <3>1 DEF Extends
    <3>2. CASE i \notin 1..Len(chain[d])
      <4>1. i \in Len(chain[d]) + 1 .. Len(g)
        <5>1. Len(chain[d]) \in Nat /\ i \in 1..Len(g) /\ Len(g) \in Nat
          BY <1>1, <2>2
        <5> QED BY <3>2, <5>1
      <4>2. \E j \in DOMAIN rblocks : g[i] = rblocks[j]
        BY <2>1, <4>1 DEF Pulls
      <4> QED BY <4>2 DEF OnceInv
    <3> QED BY <3>1, <3>2
  <2> QED BY <1>7, <2>2, <2>3 DEF Once
<1>11. CASE \E g : Joins(d, g)
  <2>1. PICK g : Joins(d, g)
    BY <1>11
  <2>2. g \in Seq(Block) /\ g # <<>> /\ g[1] = Genesis /\ chain'[d] = g
    BY <2>1, BecomesTyped DEF Joins, Becomes
  <2> PICK t : t = RemoteChain
    OBVIOUS
  <2>3. /\ t \in Seq(Block)
        /\ \A k \in 1..Len(t) : \E i \in DOMAIN rblocks : t[k] = rblocks[i]
    BY RemoteFacts
  <2>4. t # <<>> /\ t[1] = Genesis /\ Linked(t) /\ Mergeable(chain[d], t)
    BY <1>1, <2>1 DEF Joins, Mergeable
  <2>5. Merges(chain[d], t, g)
    BY <1>1, <2>1, <2>3, <2>4, Merged DEF Joins
  <2>6. Copies(g, e) = IF Copies(chain[d], e) > 0 THEN Copies(chain[d], e) ELSE Copies(t, e)
    BY <2>5 DEF Merges
  <2>7. Len(t) \in DOMAIN t /\ Copies(t, e) = Count(DayEntries(t[Len(t)]), e)
    BY <2>3, <2>4, LastHolds
  <2>8. Len(t) \in 1..Len(t)
    BY <2>3, <2>7
  <2>9. PICK i \in DOMAIN rblocks : t[Len(t)] = rblocks[i]
    BY <2>3, <2>8
  <2>10. Once(rblocks[i], e)
    BY DEF OnceInv
  <2>11. Copies(t, e) <= 1 /\ (e \in pending[origin[e]] => Copies(t, e) = 0)
    BY <2>7, <2>9, <2>10 DEF Once
  <2>12. Copies(g, e) <= 1 /\ (e \in pending'[origin[e]] => Copies(g, e) = 0)
    BY <1>4, <1>7, <2>6, <2>11
  <2> QED BY <2>2, <2>12, BlocksOnce
<1> QED BY <1>8, <1>9, <1>10, <1>11

LEMMA OnceStep ==
  ASSUME TypeInv, OnceInv, Next
  PROVE  OnceInv'
<1>1. PICK d \in Device :
         \/ Rests(d)
         \/ \E S, g : Commits(d, S, g)
         \/ \E g : Reverts(d, g)
         \/ \E g : Pulls(d, g)
         \/ \E g : Joins(d, g)
         \/ \E g : Tears(d, g)
  BY StepKinds
<1>2. /\ \A o \in Device : o # d => chain'[o] = chain[o]
      /\ \A o \in Device : pending'[o] \subseteq pending[o]
      /\ origin' = origin
  BY <1>1, OthersKept
<1>3. \A o \in Device : \A e \in pending'[o] : origin'[e] = o
  BY <1>2 DEF OnceInv
<1>4. ASSUME torn' = {}, \A o \in Device : Linked(chain'[o]), NEW e \in Entry
      PROVE  /\ \A i \in DOMAIN rblocks' :
                  /\ Count(DayEntries(rblocks'[i]), e) <= 1
                  /\ e \in pending'[origin'[e]] => Count(DayEntries(rblocks'[i]), e) = 0
             /\ \A o \in Device : \A i \in DOMAIN chain'[o] :
                  /\ Count(DayEntries(chain'[o][i]), e) <= 1
                  /\ e \in pending'[origin'[e]] => Count(DayEntries(chain'[o][i]), e) = 0
  <2>1. /\ AllVerify
        /\ \/ Rests(d)
           \/ \E S, g : Commits(d, S, g)
           \/ \E g : Pulls(d, g)
           \/ \E g : Joins(d, g)
    BY <1>1, <1>4, VerifiedBefore
  <2>2. origin[e] \in Device
    BY DEF TypeInv, TypeOK
  <2>3. e \in pending'[origin[e]] => e \in pending[origin[e]]
    BY <1>2, <2>2
  <2>4. /\ \A i \in DOMAIN rblocks : Once(rblocks[i], e)
        /\ \A o \in Device : \A i \in DOMAIN chain[o] : Once(chain[o][i], e)
    BY <2>1 DEF OnceInv
  <2>5. ASSUME NEW i \in DOMAIN rblocks'
        PROVE  Once(rblocks'[i], e)
    <3>1. CASE UNCHANGED rblocks
      BY <2>4, <3>1
    <3>2. CASE \E j \in DOMAIN chain[d] : PutBlock(d, j)
      <4>1. PICK j \in DOMAIN chain[d] : PutBlock(d, j)
        BY <3>2
      <4>2. \/ i = j /\ rblocks'[i] = chain[d][j]
            \/ i \in DOMAIN rblocks /\ rblocks'[i] = rblocks[i]
        BY <4>1 DEF PutBlock
      <4> QED BY <2>4, <4>2
    <3>3. CASE ~Rests(d)
      <4>1. rblocks' = rblocks
        BY <2>1, <3>3 DEF Commits, Pulls, Joins
      <4> QED BY <3>1, <4>1
    <3> QED BY <3>1, <3>2, <3>3 DEF Rests
  <2>6. ASSUME NEW o \in Device, NEW i \in DOMAIN chain'[o]
        PROVE  /\ Count(DayEntries(chain'[o][i]), e) <= 1
               /\ e \in pending'[origin[e]] => Count(DayEntries(chain'[o][i]), e) = 0
    <3>1. CASE o = d
      <4>1. Linked(chain'[d])
        BY <1>4
      <4> QED BY <2>1, <2>6, <3>1, <4>1, OwnOnce
    <3>2. CASE o # d
      <4>1. chain'[o] = chain[o]
        BY <1>2, <3>2
      <4>2. Once(chain'[o][i], e)
        BY <2>4, <4>1
      <4> QED BY <1>2, <2>3, <4>2, OnceStays
    <3> QED BY <3>1, <3>2
  <2>7. ASSUME NEW i \in DOMAIN rblocks'
        PROVE  /\ Count(DayEntries(rblocks'[i]), e) <= 1
               /\ e \in pending'[origin[e]] => Count(DayEntries(rblocks'[i]), e) = 0
    BY <1>2, <2>3, <2>5, OnceStays
  <2> QED BY <1>2, <2>6, <2>7
<1>5. ASSUME AllVerify'
      PROVE  torn' = {} /\ \A o \in Device : Linked(chain'[o])
  BY <1>5 DEF AllVerify
<1>6. ASSUME NEW b, NEW e, Count(DayEntries(b), e) <= 1,
             e \in pending'[origin'[e]] => Count(DayEntries(b), e) = 0
      PROVE  Once(b, e)'
  BY <1>6 DEF Once
<1>7. ASSUME AllVerify'
      PROVE  /\ \A i \in DOMAIN rblocks' : \A e \in Entry : Once(rblocks[i], e)'
             /\ \A o \in Device : \A i \in DOMAIN chain'[o] : \A e \in Entry :
                   Once(chain[o][i], e)'
  BY <1>4, <1>5, <1>6, <1>7
<1> QED BY <1>3, <1>7 DEF OnceInv

LEMMA OnceGivesEntryOnce ==
  ASSUME TypeInv, OnceInv
  PROVE  EntryOnce
<1> SUFFICES ASSUME torn = {}, \A o \in Device : Linked(chain[o]),
                    NEW d \in Device, NEW e \in Entry
             PROVE  Copies(chain[d], e) + (IF e \in pending[d] THEN 1 ELSE 0) <= 1
  BY DEF EntryOnce
<1>1. chain[d] \in Seq(Block) /\ chain[d] # <<>> /\ chain[d][1] = Genesis /\ Linked(chain[d])
  BY ChainFacts
<1>2. \A i \in DOMAIN chain[d] : Once(chain[d][i], e)
  BY DEF OnceInv, AllVerify
<1>3. Copies(chain[d], e) \in Nat /\ Copies(chain[d], e) <= 1
      /\ (e \in pending[origin[e]] => Copies(chain[d], e) = 0)
  BY <1>1, <1>2, LastHolds DEF Once
<1>4. e \in pending[d] => origin[e] = d
  BY DEF OnceInv
<1> QED BY <1>3, <1>4

LEMMA OnceInit ==
  ASSUME Init
  PROVE  OnceInv
<1>1. \A d \in Device : \A e \in pending[d] : origin[e] = d
  BY DEF Init
<1>2. DOMAIN rblocks = {}
  BY DEF Init
<1>3. ASSUME NEW d \in Device, NEW i \in DOMAIN chain[d], NEW e \in Entry
      PROVE  Once(chain[d][i], e)
  <2>1. chain[d] = <<Genesis>>
    BY DEF Init
  <2>2. chain[d][i] = Genesis
    BY <2>1
  <2>3. Count(DayEntries(Genesis), e) = 0
    BY GenesisHolds
  <2> QED BY <2>2, <2>3 DEF Once
<1> QED BY <1>1, <1>2, <1>3 DEF OnceInv

LEMMA OnceHolds ==
  TypeInv /\ OnceInv /\ [Next]_vars => TypeInv' /\ OnceInv'
<1> SUFFICES ASSUME TypeInv, OnceInv, [Next]_vars
             PROVE  TypeInv' /\ OnceInv'
  OBVIOUS
<1>1. TypeInv'
  BY TypeStep
<1>2. CASE Next
  BY <1>1, <1>2, OnceStep
<1>3. CASE UNCHANGED vars
  <2>1. UNCHANGED <<pending, chain, rblocks, origin, torn>>
    BY <1>3 DEF vars, files, remote
  <2> QED BY <1>1, <2>1 DEF OnceInv, AllVerify, Once, Linked, DayEntries, Count
<1> QED BY <1>2, <1>3

\* While the chains verify none records an entry twice, and none an entry that
\* its device still stages: pulling and merging count each entry once.
THEOREM EntriesAreOnce == Spec => []EntryOnce
<1>1. Init => TypeInv /\ OnceInv
  BY TypeInit, OnceInit
<1>2. TypeInv /\ OnceInv /\ [Next]_vars => TypeInv' /\ OnceInv'
  BY OnceHolds
<1>3. TypeInv /\ OnceInv => EntryOnce
  BY OnceGivesEntryOnce
<1> QED BY <1>1, <1>2, <1>3, PTL DEF Spec

-----------------------------------------------------------------------------
\* Merges.

LEMMA MergeStep ==
  ASSUME TypeInv, Next, NEW d \in Device,
         pc[d] = "choose", pc'[d] = "push", chain'[d] # chain[d]
  PROVE  Merges(chain[d], RemoteChain, chain'[d])
<1>1. PICK x \in Device :
        \/ SyncOnly(x) \/ Commit(x) \/ Continue(x)
        \/ Kill(x) \/ TearCommit(x) \/ TearMerge(x)
  BY DEF Next
<1>2. x = d
  BY <1>1, OwnChain
<1>3. pc \in [Device -> Steps]
  BY DEF TypeInv, TypeOK
<1>4. ~Commit(d) /\ ~TearCommit(d) /\ ~PullNamed(d) /\ ~PullLinking(d) /\ ~TearMerge(d)
  BY <1>3 DEF Commit, TearCommit, PullNamed, PullLinking, TearMerge, MayStart, Finish
<1>5. ~Rests(d)
  BY DEF Rests
<1>6. MergeChains(d)
  BY <1>1, <1>2, <1>4, <1>5, RestKind, Zenon DEF Continue
<1>7. PICK g : Joins(d, g)
  BY <1>6, MergeKind
<1>8. chain'[d] = g
  BY <1>7, BecomesTyped DEF Joins
<1>9. Merges(chain[d], RemoteChain, g)
  BY <1>7, ChainFacts, RemoteFacts, Merged DEF Joins
<1> QED BY <1>8, <1>9

LEMMA MergeHolds ==
  ASSUME NEW m \in Seq(Block), NEW t \in Seq(Block), NEW g, Merges(m, t, g)
  PROVE  /\ Linked(g)
         /\ Held(g) = Held(m) \cup Held(t)
         /\ \A e \in Entry : Copies(g, e) <= Copies(m, e) \/ Copies(g, e) <= Copies(t, e)
<1>1. g \in Seq(Block) /\ Linked(g)
  BY DEF Merges
<1>2. ASSUME NEW e \in Entry
      PROVE  /\ Copies(g, e) = IF Copies(m, e) > 0 THEN Copies(m, e) ELSE Copies(t, e)
             /\ Copies(g, e) \in Nat /\ Copies(m, e) \in Nat /\ Copies(t, e) \in Nat
             /\ e \in Held(g) <=> Copies(g, e) > 0
             /\ e \in Held(m) <=> Copies(m, e) > 0
             /\ e \in Held(t) <=> Copies(t, e) > 0
  BY <1>1, HeldIsCounted DEF Merges
<1>3. \A e \in Entry : e \in Held(g) <=> e \in Held(m) \/ e \in Held(t)
  BY <1>2
<1>4. Held(g) \subseteq Entry /\ Held(m) \subseteq Entry /\ Held(t) \subseteq Entry
  BY <1>1, HeldIsCounted
<1>5. Held(g) = Held(m) \cup Held(t)
  BY <1>3, <1>4
<1> QED BY <1>1, <1>2, <1>5

\* What LedgerMerge.merge makes of two chains verifies, holds what either held,
\* and holds nothing more often than one of them did.
THEOREM MergesKeepBoth == Spec => MergeKeepsBoth
<1>1. Init => TypeInv
  BY TypeInit
<1>2. TypeInv /\ [Next]_vars => TypeInv'
  BY TypeStep
<1>3. TypeInv /\ [Next]_vars =>
        [\A d \in Device :
           pc[d] = "choose" /\ pc'[d] = "push" /\ chain'[d] # chain[d] =>
             /\ Linked(chain'[d])
             /\ Held(chain'[d]) = Held(chain[d]) \cup Held(RemoteChain)
             /\ \A e \in Entry :
                  \/ Copies(chain'[d], e) <= Copies(chain[d], e)
                  \/ Copies(chain'[d], e) <= Copies(RemoteChain, e)]_vars
  <2> SUFFICES ASSUME TypeInv, Next, NEW d \in Device,
                      pc[d] = "choose", pc'[d] = "push", chain'[d] # chain[d]
               PROVE  /\ Linked(chain'[d])
                      /\ Held(chain'[d]) = Held(chain[d]) \cup Held(RemoteChain)
                      /\ \A e \in Entry :
                           \/ Copies(chain'[d], e) <= Copies(chain[d], e)
                           \/ Copies(chain'[d], e) <= Copies(RemoteChain, e)
    BY DEF vars
  <2>1. Merges(chain[d], RemoteChain, chain'[d])
    BY MergeStep
  <2> QED BY <2>1, ChainFacts, RemoteFacts, MergeHolds
<1> QED BY <1>1, <1>2, <1>3, PTL DEF Spec, MergeKeepsBoth

-----------------------------------------------------------------------------
\* Chains whose blocks have one entry each, as when no two entries share a day.

Single(b) == b # Genesis => Len(BlockEntries(b)) = 1

OwnDays == \A e, f \in Entry : Date[e] = Date[f] => e = f

LEMMA DayOfOne ==
  ASSUME OwnDays, NEW es \in Seq(Entry), NEW e \in ToSet(es), Count(es, e) <= 1
  PROVE  Len(DayOn(es, Date[e]).entries) = 1
<1>1. DOMAIN es = 1..Len(es) /\ Len(es) \in Nat /\ \A i \in DOMAIN es : es[i] \in Entry
  OBVIOUS
<1>2. e \in Entry
  BY <1>1 DEF ToSet
<1> PICK P : P = {j \in DOMAIN es : Date[es[j]] = Date[e]}
  OBVIOUS
<1>3. P = At(es, e)
  BY <1>1, <1>2 DEF At, OwnDays
<1>4. Cardinality(P) = Count(es, e) /\ Count(es, e) \in Nat /\ Count(es, e) > 0
  BY <1>3, CountIsNat
<1>5. Reads(es, P, Entry)
  <2>1. P \subseteq 1..Len(es) /\ \A i \in P : es[i] \in Entry
    BY <1>1
  <2> QED BY <1>1, <2>1 DEF Reads, Bounded
<1>6. Len(Picked(es, P)) = Cardinality(P)
  BY <1>5, PickedOf
<1>7. DayOn(es, Date[e]).entries = Picked(es, P)
  BY DEF DayOn
<1>8. Count(es, e) = 1
  BY <1>4
<1> QED BY <1>4, <1>6, <1>7, <1>8, Zenon

LEMMA DaysAreOf ==
  ASSUME NEW es \in Seq(Entry), NEW k \in DOMAIN DaysIn(es)
  PROVE  \E e \in ToSet(es) : DaysIn(es)[k] = DayOn(es, Date[e])
<1> PICK S : S = DatesIn(es)
  OBVIOUS
<1>1. S \in SUBSET Int /\ IsFiniteSet(S)
  BY DatesFinite
<1> PICK A : A = Ascending(S)
  OBVIOUS
<1>2. \A i \in DOMAIN A : A[i] \in S
  BY <1>1, AscendingOrder
<1>3. DOMAIN DaysIn(es) = DOMAIN A /\ \A i \in DOMAIN A : DaysIn(es)[i] = DayOn(es, A[i])
  BY DEF DaysIn
<1>4. PICK e \in ToSet(es) : A[k] = Date[e]
  BY <1>2, <1>3 DEF DatesIn
<1> QED BY <1>3, <1>4

LEMMA SingleAppended ==
  ASSUME OwnDays, NEW c \in Seq(Block), c # <<>>, NEW es \in Seq(Entry),
         \A e \in Entry : Count(es, e) <= 1,
         NEW g, g = AppendDays(c, es)
  PROVE  \A i \in Len(c) + 1 .. Len(g) : Single(g[i])
<1> PICK L : L = DaysIn(es)
  OBVIOUS
<1>1. L \in Seq(Day)
  BY DaysFacts
<1> PICK b : b = Last(c)
  OBVIOUS
<1>2. b \in Seq(Day)
  <2>1. c[Len(c)] \in Block
    OBVIOUS
  <2> QED BY <2>1 DEF Last, Block
<1>3. PICK t \in Seq(Block) : NewBlocks(c, es) = t
  BY NewBlocksFacts
<1>4. DOMAIN t = DOMAIN L /\ \A k \in DOMAIN t : t[k] = Grow(b, L, k)
  BY <1>3 DEF NewBlocks, Grow
<1>5. g = c \o t
  BY <1>3, AppendDaysParts
<1>6. g \in Seq(Block) /\ Joined(c, t, g)
  BY <1>5, ConcatParts
<1>7. ASSUME NEW k \in 1..Len(t)
      PROVE  Single(t[k])
  <2>1. k \in 1..Len(L) /\ k \in DOMAIN L /\ k \in DOMAIN t
    BY <1>1, <1>4
  <2>2. Last(t[k]) = L[k] /\ t[k] # <<>>
    BY <1>1, <1>2, <1>4, <2>1, Grown
  <2>3. PICK e \in ToSet(es) : L[k] = DayOn(es, Date[e])
    BY <2>1, DaysAreOf
  <2>4. e \in Entry
    BY DEF ToSet
  <2>5. Len(L[k].entries) = 1
    BY <2>3, <2>4, DayOfOne
  <2>6. t[k] # Genesis => BlockEntries(t[k]) = L[k].entries
    BY <2>2 DEF BlockEntries
  <2> QED BY <2>5, <2>6 DEF Single
<1> TAKE i \in Len(c) + 1 .. Len(g)
<1>8. i \in 1..Len(g) /\ i \notin 1..Len(c)
  <2>1. Len(c) \in Nat /\ Len(g) \in Nat
    BY <1>6
  <2> QED BY <2>1, Above
<1>9. PICK k \in 1..Len(t) : i = Len(c) + k
  BY <1>6, <1>8 DEF Joined
<1>10. g[i] = t[k]
  BY <1>6, <1>9 DEF Joined
<1> QED BY <1>7, <1>10

\* All blocks of a chain that begins with another: those of the other and the rest.
LEMMA SingleExtended ==
  ASSUME NEW c \in Seq(Block), NEW g \in Seq(Block), Extends(c, g),
         \A i \in DOMAIN c : Single(c[i]),
         \A i \in Len(c) + 1 .. Len(g) : Single(g[i])
  PROVE  \A i \in DOMAIN g : Single(g[i])
<1> TAKE i \in DOMAIN g
<1>1. Len(c) \in Nat /\ Len(g) \in Nat /\ DOMAIN c = 1..Len(c) /\ i \in 1..Len(g)
  OBVIOUS
<1>2. CASE i \in 1..Len(c)
  BY <1>1, <1>2 DEF Extends
<1>3. CASE i \notin 1..Len(c)
  <2>1. i \in Len(c) + 1 .. Len(g)
    BY <1>1, <1>3
  <2> QED BY <2>1
<1> QED BY <1>2, <1>3

LEMMA SingleCommitted ==
  ASSUME OwnDays, NEW c \in Seq(Block), c # <<>>, NEW S \in SUBSET Entry,
         NEW g, g = CommitEntries(c, S), \A i \in DOMAIN c : Single(c[i])
  PROVE  \A i \in DOMAIN g : Single(g[i])
<1>1. IsFiniteSet(S) /\ S \in SUBSET Int
  <2>1. IsFiniteSet(S)
    BY EntryAssumption, FS_Subset
  <2> QED BY <2>1, EntryAssumption
<1> PICK A : A = Ascending(S)
  OBVIOUS
<1>2. A \in Seq(S) /\ \A e : Count(A, e) = IF e \in S THEN 1 ELSE 0
  BY <1>1, CountAscending
<1>3. A \in Seq(Entry) /\ \A e \in Entry : Count(A, e) <= 1
  BY <1>2
<1>4. g = AppendDays(c, A)
  BY DEF CommitEntries
<1>5. \A i \in Len(c) + 1 .. Len(g) : Single(g[i])
  BY <1>3, <1>4, SingleAppended
<1>6. g \in Seq(Block) /\ Extends(c, g)
  BY CommitAppended
<1> QED BY <1>5, <1>6, SingleExtended

LEMMA SingleMerged ==
  ASSUME OwnDays, NEW m \in Seq(Block), NEW t \in Seq(Block), m # <<>>, Mergeable(m, t),
         \A e \in Entry : Copies(m, e) <= 1 /\ Copies(t, e) <= 1,
         \A i \in DOMAIN m : Single(m[i]),
         NEW g, g = Merge(m, t)
  PROVE  \A i \in DOMAIN g : Single(g[i])
<1>1. t # <<>> /\ m[1] = t[1]
  BY DEF Mergeable
<1> PICK fork : fork = ForkIndex(m, t)
  OBVIOUS
<1>2. fork \in 1..Len(m) /\ fork \in 1..Len(t)
  BY <1>1, ForkFacts
<1>3. fork \in 0..Len(m) /\ fork \in 0..Len(t)
  BY <1>2
<1> PICK p : p = SubSeq(m, 1, fork)
  OBVIOUS
<1> PICK mLate : mLate = After(m, fork)
  OBVIOUS
<1> PICK tLate : tLate = After(t, fork)
  OBVIOUS
<1>4. /\ p \in Seq(Block) /\ Len(p) = fork /\ Extends(p, m) /\ p # <<>>
      /\ mLate \in Seq(Block) /\ tLate \in Seq(Block)
  <2>1. /\ p \in Seq(Block) /\ Len(p) = fork /\ Extends(p, m)
        /\ mLate \in Seq(Block) /\ tLate \in Seq(Block)
    BY <1>3, PrefixOf
  <2> QED BY <1>2, <2>1
<1> PICK a : a = ChainEntries(mLate)
  OBVIOUS
<1> PICK late : late = ChainEntries(tLate)
  OBVIOUS
<1> PICK new : new = Fresh(late, Held(m))
  OBVIOUS
<1> PICK both : both = a \o new
  OBVIOUS
<1> PICK s : s = ByTitle(both)
  OBVIOUS
<1>5. g = m \/ g = AppendDays(p, s)
  BY DEF Merge, Fresh
<1>6. a \in Seq(Entry) /\ late \in Seq(Entry)
  BY <1>4, ChainConcat
<1>7. both \in Seq(Entry)
  <2>1. new \in Seq(Entry)
    BY <1>6, FreshIsSeq
  <2> QED BY <1>6, <2>1
<1>8. s \in Seq(Entry)
  BY <1>7, TitleOrder
<1>9. CASE g = AppendDays(p, s)
  <2>1. Appends(p, s, g)
    BY <1>4, <1>8, <1>9, DaysAppended
  <2>2. Merges(m, t, g)
    BY Merged
  <2>3. ASSUME NEW e \in Entry
        PROVE  Count(s, e) <= 1
    <3>1. Copies(g, e) = Copies(p, e) + Count(s, e)
      BY <2>1 DEF Appends
    <3>2. Copies(g, e) = IF Copies(m, e) > 0 THEN Copies(m, e) ELSE Copies(t, e)
      BY <2>2 DEF Merges
    <3>3. Copies(g, e) <= 1
      BY <3>2
    <3>4. Copies(p, e) \in Nat /\ Count(s, e) \in Nat
      BY <1>4, <1>8, HeldIsCounted, CountIsNat
    <3> QED BY <3>1, <3>3, <3>4
  <2>4. \A i \in Len(p) + 1 .. Len(g) : Single(g[i])
    BY <1>4, <1>8, <1>9, <2>3, SingleAppended
  <2>5. \A i \in DOMAIN p : Single(p[i])
    <3>1. DOMAIN p = 1..Len(p) /\ DOMAIN m = 1..Len(m)
      BY <1>4
    <3>2. \A i \in 1..Len(p) : i \in 1..Len(m)
      BY <1>2, <1>4
    <3> QED BY <1>4, <3>1, <3>2 DEF Extends
  <2>6. g \in Seq(Block) /\ Extends(p, g)
    BY <2>1 DEF Appends
  <2> QED BY <1>4, <2>4, <2>5, <2>6, SingleExtended
<1> QED BY <1>5, <1>9

\* Such a chain is as long as it holds entries, the genesis block not counted.
LEMMA EntriesAreBlocks ==
  ASSUME NEW c \in Seq(Block), c # <<>>, c[1] = Genesis, Linked(c),
         \A i \in DOMAIN c : Single(c[i])
  PROVE  Len(ChainEntries(c)) = Len(c) - 1
<1> DEFINE N == Len(c)
           T == {n \in Nat : n + 1 <= N => Len(ChainEntries(SubSeq(c, 1, n + 1))) = n}
<1>1. N \in Nat /\ N >= 1 /\ DOMAIN c = 1..N /\ \A i \in 1..N : c[i] \in Block
  OBVIOUS
<1>2. 0 \in T
  <2> PICK s : s = SubSeq(c, 1, 1)
    OBVIOUS
  <2>1. s \in Seq(Block) /\ Len(s) = 1 /\ s[1] = c[1]
    BY <1>1
  <2>2. s = <<Genesis>>
    BY <2>1, SmallLists
  <2>3. Genesis \in Block
    BY DEF Genesis, Block
  <2>4. ChainEntries(s) = <<>>
    BY <2>2, <2>3, ChainSmall
  <2>5. Len(ChainEntries(s)) = 0 /\ 0 + 1 = 1 /\ 0 \in Nat
    BY <2>4
  <2>6. Len(ChainEntries(SubSeq(c, 1, 0 + 1))) = 0
    BY <2>5, Zenon
  <2> QED BY <2>5, <2>6, Zenon
<1>3. ASSUME NEW n \in T
      PROVE  n + 1 \in T
  <2>1. n \in Nat
    OBVIOUS
  <2> SUFFICES ASSUME (n + 1) + 1 <= N
               PROVE  Len(ChainEntries(SubSeq(c, 1, (n + 1) + 1))) = n + 1
    BY <2>1
  <2> PICK m : m = n + 1
    OBVIOUS
  <2>2. m \in 1..N /\ m + 1 \in 1..N /\ m + 1 \in 2..N /\ m \in Nat
    BY <1>1, <2>1
  <2> PICK a : a = SubSeq(c, 1, m)
    OBVIOUS
  <2> PICK b : b = c[m + 1]
    OBVIOUS
  <2>3. a \in Seq(Block) /\ b \in Block /\ <<b>> \in Seq(Block)
    BY <1>1, <2>2
  <2>4. SubSeq(c, 1, m + 1) = a \o <<b>>
    BY <2>2
  <2>5. Len(ChainEntries(a)) = n
    BY <1>1, <2>2
  <2>6. Len(BlockEntries(b)) = 1 /\ BlockEntries(b) \in Seq(Entry)
    <3>1. b # Genesis
      BY <2>2 DEF Linked
    <3>2. Single(b)
      BY <1>1, <2>2
    <3> QED BY <2>3, <3>1, <3>2, ChainSmall DEF Single
  <2>7. ChainEntries(a \o <<b>>) = ChainEntries(a) \o BlockEntries(b)
        /\ ChainEntries(a) \in Seq(Entry)
    BY <2>3, ChainConcat, ChainSmall
  <2>8. Len(ChainEntries(a) \o BlockEntries(b)) = n + 1
    <3> PICK x : x = ChainEntries(a)
      OBVIOUS
    <3> PICK y : y = BlockEntries(b)
      OBVIOUS
    <3>1. x \in Seq(Entry) /\ y \in Seq(Entry) /\ Len(x) = n /\ Len(y) = 1
      BY <2>5, <2>6, <2>7
    <3> PICK z : z = x \o y
      OBVIOUS
    <3>2. Joined(x, y, z)
      BY <3>1, ConcatParts
    <3>3. Len(z) = n + 1
      BY <3>1, <3>2 DEF Joined
    <3> QED BY <3>3
  <2> HIDE DEF T
  <2> QED BY <2>4, <2>7, <2>8, Zenon
<1>4. T = Nat
  <2>1. T \in SUBSET Nat
    OBVIOUS
  <2> HIDE DEF T
  <2> QED BY <1>2, <1>3, <2>1, Induction
<1>5. N - 1 \in Nat /\ (N - 1) + 1 = N /\ SubSeq(c, 1, N) = c
  BY <1>1
<1>6. N - 1 \in T
  <2> HIDE DEF T, N
  <2> QED BY <1>4, <1>5
<1>7. Len(ChainEntries(SubSeq(c, 1, (N - 1) + 1))) = N - 1
  <2>1. (N - 1) + 1 <= N
    BY <1>1
  <2> QED BY <1>6, <2>1
<1>8. SubSeq(c, 1, (N - 1) + 1) = c
  BY <1>5
<1> QED BY <1>7, <1>8

LEMMA LengthIsHeld ==
  ASSUME NEW c \in Seq(Block), c # <<>>, c[1] = Genesis, Linked(c),
         \A i \in DOMAIN c : Single(c[i]), \A e \in Entry : Copies(c, e) <= 1
  PROVE  IsFiniteSet(Held(c)) /\ Cardinality(Held(c)) = Len(c) - 1
<1>1. ChainEntries(c) \in Seq(Entry)
  BY ChainConcat
<1>2. IsFiniteSet(Held(c)) /\ Cardinality(Held(c)) = Len(ChainEntries(c))
  BY <1>1, OnceLength DEF Held, Copies
<1> QED BY <1>2, EntriesAreBlocks

\* Of such chains, the one that holds what the other does is no shorter.
LEMMA MoreIsLonger ==
  ASSUME NEW t \in Seq(Block), t # <<>>, t[1] = Genesis, Linked(t),
         \A i \in DOMAIN t : Single(t[i]), \A e \in Entry : Copies(t, e) <= 1,
         NEW g \in Seq(Block), g # <<>>, g[1] = Genesis, Linked(g),
         \A i \in DOMAIN g : Single(g[i]), \A e \in Entry : Copies(g, e) <= 1,
         Held(t) \subseteq Held(g)
  PROVE  DOMAIN t \subseteq DOMAIN g
<1>1. IsFiniteSet(Held(t)) /\ Cardinality(Held(t)) = Len(t) - 1
  BY LengthIsHeld
<1>2. IsFiniteSet(Held(g)) /\ Cardinality(Held(g)) = Len(g) - 1
  BY LengthIsHeld
<1>3. Cardinality(Held(t)) <= Cardinality(Held(g))
  BY <1>2, FS_Subset
<1>4. DOMAIN t = 1..Len(t) /\ DOMAIN g = 1..Len(g) /\ Len(t) \in Nat /\ Len(g) \in Nat
  OBVIOUS
<1> QED BY <1>1, <1>2, <1>3, <1>4

\* What f has at positions m + 1 to n.
Stretch(f, m, n) == [k \in 1..(n - m) |-> f[m + k]]

LEMMA RunPicked ==
  \A f : \A m, n \in Nat : m <= n => Picked(f, m + 1 .. n) = Stretch(f, m, n)
<1> SUFFICES ASSUME NEW f, NEW m \in Nat, NEW n \in Nat, m <= n
             PROVE  Picked(f, m + 1 .. n) = Stretch(f, m, n)
  OBVIOUS
<1> PICK S : S = m + 1 .. n
  OBVIOUS
<1>1. Cardinality(S) = n - m
  <2>1. m + 1 \in Int /\ n \in Int
    OBVIOUS
  <2>2. Cardinality(m + 1 .. n) = IF m + 1 > n THEN 0 ELSE n - (m + 1) + 1
    BY <2>1, FS_Interval
  <2> QED BY <2>2
<1>2. ASSUME NEW x \in S
      PROVE  Cardinality({y \in S : y < x}) = x - m - 1
  <2>1. x \in Int /\ m + 1 <= x /\ x <= n
    OBVIOUS
  <2>2. {y \in S : y < x} = m + 1 .. x - 1
    BY <2>1
  <2>3. m + 1 \in Int /\ x - 1 \in Int
    BY <2>1
  <2>4. Cardinality(m + 1 .. x - 1) = IF m + 1 > x - 1 THEN 0 ELSE (x - 1) - (m + 1) + 1
    BY <2>3, FS_Interval
  <2>5. Cardinality(m + 1 .. x - 1) = x - m - 1
    BY <2>1, <2>4
  <2> QED BY <2>2, <2>5
<1>3. ASSUME NEW k \in 1..(n - m)
      PROVE  (CHOOSE x \in S : Cardinality({y \in S : y < x}) = k - 1) = m + k
  <2> DEFINE z == CHOOSE x \in S : Cardinality({y \in S : y < x}) = k - 1
  <2>1. m + k \in S /\ (m + k) - m - 1 = k - 1
    OBVIOUS
  <2>2. Cardinality({y \in S : y < m + k}) = k - 1
    BY <1>2, <2>1
  <2>3. z \in S /\ Cardinality({y \in S : y < z}) = k - 1
    BY <2>1, <2>2
  <2> HIDE DEF z
  <2>4. z - m - 1 = k - 1 /\ z \in Int
    BY <1>2, <2>3
  <2>5. z = m + k
    BY <2>4
  <2> QED BY <2>5 DEF z
<1> PICK A : A = Ascending(S)
  OBVIOUS
<1>4. DOMAIN A = 1..(n - m) /\ \A k \in 1..(n - m) : A[k] = m + k
  BY <1>1, <1>3 DEF Ascending
<1>5. Picked(f, S) = [k \in DOMAIN A |-> f[A[k]]]
  BY DEF Picked
<1> QED BY <1>4, <1>5 DEF Stretch

\* The rest of a chain, read from the remote, completes what begins it.
LEMMA ReadRest ==
  ASSUME NEW c \in Seq(Block), NEW h \in Seq(Block), Extends(c, h)
  PROVE  c \o Picked(h, Len(c) + 1 .. Len(h)) = h
<1> PICK m \in Nat : m = Len(c)
  OBVIOUS
<1> PICK n \in Nat : n = Len(h)
  OBVIOUS
<1>1. m <= n
  BY DEF Extends
<1> PICK t : t = Stretch(h, m, n)
  OBVIOUS
<1>2. Picked(h, m + 1 .. n) = t
  BY <1>1, RunPicked, Zenon
<1>3. t \in Seq(Block) /\ Len(t) = n - m
  <2>1. n - m \in Nat /\ \A k \in 1..(n - m) : m + k \in 1..n
    BY <1>1
  <2>2. \A i \in 1..n : h[i] \in Block
    OBVIOUS
  <2>3. t \in [1..(n - m) -> Block]
    BY <2>1, <2>2 DEF Stretch
  <2> QED BY <2>1, <2>3, ListOf
<1> PICK g : g = c \o t
  OBVIOUS
<1>4. g \in Seq(Block) /\ Joined(c, t, g)
  BY <1>3, ConcatParts
<1>5. Len(g) = n
  BY <1>1, <1>3, <1>4 DEF Joined
<1>6. ASSUME NEW i \in 1..Len(g)
      PROVE  g[i] = h[i]
  <2>1. CASE i \in 1..m
    BY <1>4, <2>1 DEF Joined, Extends
  <2>2. CASE i \notin 1..m
    <3>1. PICK k \in 1..Len(t) : i = m + k
      BY <1>4, <2>2 DEF Joined
    <3>2. g[m + k] = t[k]
      BY <1>4, <3>1 DEF Joined
    <3>3. t[k] = h[m + k]
      BY <1>3, <3>1 DEF Stretch
    <3> QED BY <3>1, <3>2, <3>3
  <2> QED BY <2>1, <2>2
<1>7. g = h
  BY <1>4, <1>5, <1>6, SeqEqual
<1> QED BY <1>2, <1>7

LEMMA ReadAll ==
  ASSUME NEW h \in Seq(Block)
  PROVE  Picked(h, DOMAIN h) = h
<1>1. /\ DOMAIN h = 0 + 1 .. Len(h) /\ Len(h) \in Nat /\ 0 <= Len(h)
      /\ Len(h) - 0 = Len(h) /\ \A k \in 1..Len(h) : 0 + k = k
  OBVIOUS
<1>2. Picked(h, 0 + 1 .. Len(h)) = Stretch(h, 0, Len(h))
  <2>1. 0 \in Nat /\ Len(h) \in Nat /\ 0 <= Len(h)
    BY <1>1
  <2> QED BY <2>1, RunPicked, Zenon
<1>3. Stretch(h, 0, Len(h)) = [k \in 1..Len(h) |-> h[k]]
  BY <1>1 DEF Stretch
<1>4. [k \in 1..Len(h) |-> h[k]] = h
  OBVIOUS
<1> QED BY <1>1, <1>2, <1>3, <1>4

LEMMA PrefixIsExtends ==
  ASSUME NEW c \in Seq(Block), NEW h \in Seq(Block)
  PROVE  /\ IsPrefix(c, h) <=> Extends(c, h)
         /\ IsStrictPrefix(c, h) <=> Extends(c, h) /\ Len(c) < Len(h)
<1>1. Len(c) \in Nat /\ Len(h) \in Nat /\ SubSeq(c, 1, Len(c)) = c
  OBVIOUS
<1>2. ASSUME IsPrefix(c, h)
      PROVE  Extends(c, h)
  <2>1. Len(c) <= Len(h) /\ c = SubSeq(h, 1, Len(c))
    BY <1>1, <1>2 DEF IsPrefix
  <2>2. \A i \in 1..Len(c) : SubSeq(h, 1, Len(c))[i] = h[i]
    BY <1>1, <2>1
  <2> QED BY <2>1, <2>2 DEF Extends
<1>3. ASSUME Extends(c, h)
      PROVE  IsPrefix(c, h)
  BY <1>1, <1>3, ExtendsIsPrefix DEF IsPrefix
<1>4. ASSUME Extends(c, h), c # h
      PROVE  Len(c) < Len(h)
  <2>1. Len(c) <= Len(h)
    BY <1>4 DEF Extends
  <2>2. Len(c) = Len(h) => c = h
    <3> HAVE Len(c) = Len(h)
    <3>1. \A i \in 1..Len(c) : c[i] = h[i]
      BY <1>4 DEF Extends
    <3> QED BY <3>1, SeqEqual
  <2> QED BY <1>1, <1>4, <2>1, <2>2
<1> QED BY <1>1, <1>2, <1>3, <1>4 DEF IsStrictPrefix

\* A hash determines all that comes before it.
LEMMA LinkedAgree ==
  ASSUME NEW c \in Seq(Block), NEW h \in Seq(Block), Linked(c), Linked(h),
         NEW k \in 1..Len(c), k \in 1..Len(h), c[k] = h[k]
  PROVE  \A i \in 1..k : c[i] = h[i]
<1> DEFINE T == {j \in Nat : j < k => c[k - j] = h[k - j]}
<1>1. k \in Nat /\ Len(c) \in Nat /\ Len(h) \in Nat /\ k <= Len(c) /\ k <= Len(h) /\ k - 0 = k
  OBVIOUS
<1>2. 0 \in T
  BY <1>1
<1>3. ASSUME NEW j \in T
      PROVE  j + 1 \in T
  <2>1. j \in Nat
    OBVIOUS
  <2> SUFFICES ASSUME j + 1 < k
               PROVE  c[k - (j + 1)] = h[k - (j + 1)]
    BY <2>1
  <2>2. k - j \in 2..Len(c) /\ k - j \in 2..Len(h) /\ (k - j) - 1 = k - (j + 1) /\ j < k
    BY <1>1, <2>1
  <2>3. c[k - j] = h[k - j]
    BY <2>2
  <2>4. PrevHash(c[k - j]) = c[(k - j) - 1] /\ PrevHash(h[k - j]) = h[(k - j) - 1]
    BY <2>2 DEF Linked
  <2> QED BY <2>2, <2>3, <2>4
<1>4. T = Nat
  <2>1. T \in SUBSET Nat
    OBVIOUS
  <2> HIDE DEF T
  <2> QED BY <1>2, <1>3, <2>1, Induction
<1> TAKE i \in 1..k
<1>5. k - i \in Nat /\ k - i < k /\ k - (k - i) = i
  BY <1>1
<1>6. k - i \in T
  <2> HIDE DEF T
  <2> QED BY <1>4, <1>5
<1>7. c[k - (k - i)] = h[k - (k - i)]
  BY <1>5, <1>6
<1> QED BY <1>5, <1>7

-----------------------------------------------------------------------------
\* Syncs of which one runs at a time, without failures, and that merge.

Orderly ==
  /\ Serial
  /\ Answers \subseteq {"merge"}
  /\ Faults \subseteq {"staging"}
  /\ OwnDays

Pushes == {"push", "index", "checksum"}

\* Blocks r of the remote store and hash index h with checksum s are one chain.
Settled(h, s, r) ==
  /\ h = s /\ r = h
  /\ h # <<>> => Linked(h) /\ h[1] = Genesis

\* Of chain c, the remote has all but what is at the positions P.
Covers(c, P, r) ==
  /\ DOMAIN r \subseteq DOMAIN c
  /\ \A i \in DOMAIN c \ P : i \in DOMAIN r /\ r[i] = c[i]

\* How far a sync at l is.
Phase(l, c, L, P, r, h) ==
  /\ l = "relist" => r = c
  /\ l = "named" => IsStrictPrefix(c, h) /\ L = Len(c) + 1 .. Len(h)
  /\ l \in {"list", "pull"} => ~IsStrictPrefix(c, h)
  /\ l = "pull" => L = DOMAIN r
  /\ l = "choose" => h # <<>>
  /\ l = "push" => Covers(c, P, r)
  /\ l \in {"index", "checksum"} => r = c
  /\ l = "checksum" => h = c

Ready(l, c, L, P, r, h, s) ==
  /\ Phase(l, c, L, P, r, h)
  /\ l \notin Pushes => Settled(h, s, r)

LEMMA SameAsChain ==
  ASSUME NEW c \in Seq(Block), NEW r, r \in [DOMAIN r -> Block], Covers(c, {}, r)
  PROVE  r = c
<1>1. c \in [1..Len(c) -> Block] /\ DOMAIN c = 1..Len(c)
  OBVIOUS
<1>2. DOMAIN r = DOMAIN c /\ \A i \in DOMAIN c : r[i] = c[i]
  BY DEF Covers
<1> QED BY <1>1, <1>2

LEMMA ReadyToPush ==
  ASSUME NEW c \in Seq(Block), NEW r, r \in [DOMAIN r -> Block], NEW P, Covers(c, P, r),
         NEW L, NEW h, NEW s
  PROVE  /\ P = {} => Ready("index", c, L, P, r, h, s)
         /\ P # {} => Ready("push", c, L, P, r, h, s)
<1>1. ASSUME P = {}
      PROVE  Ready("index", c, L, P, r, h, s)
  <2>1. r = c
    BY <1>1, SameAsChain
  <2> QED BY <2>1 DEF Ready, Phase, Pushes
<1>2. Ready("push", c, L, P, r, h, s)
  BY DEF Ready, Phase, Pushes
<1> QED BY <1>1, <1>2

SingleBlocks ==
  /\ \A d \in Device : \A i \in DOMAIN chain[d] : Single(chain[d][i])
  /\ \A i \in DOMAIN rblocks : Single(rblocks[i])

SerialInv ==
  /\ torn = {}
  /\ \A d \in Device : Linked(chain[d])
  /\ SingleBlocks
  /\ \A d, o \in Device : pc[d] # "idle" /\ pc[o] # "idle" => d = o
  /\ (\A d \in Device : pc[d] \notin Pushes) => Settled(hjson, hsha, rblocks)
  /\ \A d \in Device : Phase(pc[d], chain[d], listed[d], todo[d], rblocks, hjson)

\* The sync of d is ready for its step, and no other device runs one.
Turn(d) ==
  /\ TypeInv /\ OnceInv /\ SerialInv /\ Orderly
  /\ \A o \in Device : o # d => pc[o] = "idle"
  /\ Ready(pc[d], chain[d], listed[d], todo[d], rblocks, hjson, hsha)

\* The sync of d is ready for the step after.
Turned(d) ==
  /\ Ready(pc'[d], chain'[d], listed'[d], todo'[d], rblocks', hjson', hsha')
  /\ torn' = {} /\ Linked(chain'[d])
  /\ \A i \in DOMAIN chain'[d] : Single(chain'[d][i])
  /\ \A i \in DOMAIN rblocks' : Single(rblocks'[i])

LEMMA TurnOf ==
  ASSUME TypeInv, OnceInv, SerialInv, Orderly, NEW d \in Device, MayStart(d) \/ pc[d] # "idle"
  PROVE  Turn(d)
<1>1. ASSUME NEW o \in Device, o # d
      PROVE  pc[o] = "idle"
  <2>1. CASE MayStart(d)
    BY <2>1 DEF MayStart, Orderly
  <2>2. CASE pc[d] # "idle"
    BY <1>1, <2>2 DEF SerialInv
  <2> QED BY <2>1, <2>2
<1>2. ASSUME pc[d] \notin Pushes
      PROVE  Settled(hjson, hsha, rblocks)
  <2>1. "idle" \notin Pushes
    BY DEF Pushes
  <2>2. \A o \in Device : pc[o] \notin Pushes
    BY <1>1, <1>2, <2>1
  <2> QED BY <2>2 DEF SerialInv
<1>3. Phase(pc[d], chain[d], listed[d], todo[d], rblocks, hjson)
  BY DEF SerialInv
<1> QED BY <1>1, <1>2, <1>3 DEF Turn, Ready

LEMMA Here ==
  ASSUME NEW d \in Device, Turn(d)
  PROVE  /\ chain[d] \in Seq(Block) /\ chain[d] # <<>> /\ chain[d][1] = Genesis
         /\ Linked(chain[d]) /\ Len(chain[d]) \in Nat /\ Len(chain[d]) >= 1
         /\ DOMAIN chain[d] = 1..Len(chain[d])
         /\ \A i \in DOMAIN chain[d] : Single(chain[d][i])
         /\ \A i \in DOMAIN rblocks : Single(rblocks[i])
         /\ hjson \in Seq(Block) /\ DOMAIN hjson = 1..Len(hjson) /\ Len(hjson) \in Nat
         /\ rblocks \in [DOMAIN rblocks -> Block]
         /\ torn = {}
         /\ pc[d] \notin Pushes => Settled(hjson, hsha, rblocks)
         /\ Phase(pc[d], chain[d], listed[d], todo[d], rblocks, hjson)
<1>1. TypeInv
  BY DEF Turn
<1>2. /\ chain[d] \in Seq(Block) /\ chain[d] # <<>> /\ chain[d][1] = Genesis
      /\ DOMAIN chain[d] = 1..Len(chain[d]) /\ Len(chain[d]) \in Nat /\ Len(chain[d]) >= 1
  BY <1>1, ChainFacts
<1>3. hjson \in Seq(Block) /\ rblocks \in [DOMAIN rblocks -> Block]
  BY <1>1 DEF TypeInv, TypeOK
<1>4. DOMAIN hjson = 1..Len(hjson) /\ Len(hjson) \in Nat
  BY <1>3
<1> QED BY <1>2, <1>3, <1>4 DEF Turn, SerialInv, SingleBlocks, Ready

LEMMA Went ==
  ASSUME TypeInv, NEW d \in Device
  PROVE  /\ \A l : Goto(d, l) => pc'[d] = l /\ listed'[d] = listed[d] /\ todo'[d] = todo[d]
         /\ Finish(d) => pc'[d] = "idle"
         /\ \A P : StartPush(d, P) => /\ todo'[d] = P
                                      /\ P = {} => pc'[d] = "index"
                                      /\ P # {} => pc'[d] = "push"
<1>1. pc \in [Device -> Steps] /\ todo \in [Device -> SUBSET Positions]
  BY DEF TypeInv, TypeOK
<1> QED BY <1>1 DEF Goto, Finish, StartPush

LEMMA ReadyIdle ==
  \A l : \A c, L, P, r, h, s :
    l \in {"idle", "fetch"} /\ Settled(h, s, r) => Ready(l, c, L, P, r, h, s)
BY DEF Ready, Phase, Pushes

\* A step that leaves the chains and the remote blocks alone.
LEMMA TurnedAlike ==
  ASSUME NEW d \in Device, Turn(d), UNCHANGED <<chain, rblocks, torn>>,
         Ready(pc'[d], chain[d], listed'[d], todo'[d], rblocks, hjson', hsha')
  PROVE  Turned(d)
BY Here DEF Turned

\* The chain is pushed as far as the remote does not have it.
LEMMA TurnedToPush ==
  ASSUME NEW d \in Device, Turn(d), NEW P, StartPush(d, P), UNCHANGED <<chain, rblocks, torn>>,
         Covers(chain[d], P, rblocks)
  PROVE  Turned(d)
<1>1. /\ todo'[d] = P
      /\ P = {} => pc'[d] = "index"
      /\ P # {} => pc'[d] = "push"
  BY Went DEF Turn
<1>2. Ready(pc'[d], chain[d], listed'[d], todo'[d], rblocks, hjson', hsha')
  <2>1. chain[d] \in Seq(Block) /\ rblocks \in [DOMAIN rblocks -> Block]
    BY Here
  <2>2. /\ P = {} => Ready("index", chain[d], listed'[d], P, rblocks, hjson', hsha')
        /\ P # {} => Ready("push", chain[d], listed'[d], P, rblocks, hjson', hsha')
    BY <2>1, ReadyToPush
  <2> QED BY <1>1, <2>2
<1> QED BY <1>2, TurnedAlike

LEMMA SyncTurned ==
  ASSUME NEW d \in Device, Turn(d), SyncOnly(d)
  PROVE  Turned(d)
<1>1. pc[d] = "idle" /\ Goto(d, "fetch") /\ UNCHANGED <<files, remote, origin, torn>>
  BY DEF SyncOnly, MayStart
<1>2. Settled(hjson, hsha, rblocks)
  BY <1>1, Here DEF Pushes
<1>3. pc'[d] = "fetch"
  BY <1>1, Went DEF Turn
<1>4. Ready(pc'[d], chain[d], listed'[d], todo'[d], rblocks, hjson, hsha)
  BY <1>2, <1>3, ReadyIdle
<1> QED BY <1>1, <1>4, TurnedAlike DEF files, remote

LEMMA FetchTurned ==
  ASSUME NEW d \in Device, Turn(d), FetchIdentical(d) \/ FetchExtended(d) \/ FetchOther(d)
  PROVE  Turned(d)
<1> PICK c : c = chain[d]
  OBVIOUS
<1>1. pc[d] = "fetch" /\ UNCHANGED <<chain, rblocks, hjson, hsha, torn>>
  BY DEF FetchIdentical, FetchExtended, FetchOther, files, remote
<1>2. Settled(hjson, hsha, rblocks)
  BY <1>1, Here DEF Pushes
<1>3. c \in Seq(Block) /\ hjson \in Seq(Block) /\ Len(c) \in Nat /\ Len(c) >= 1
  BY Here
<1>4. CASE FetchIdentical(d)
  <2>1. hjson = c /\ pc'[d] = "relist"
    BY <1>4, Went DEF FetchIdentical, Turn
  <2>2. Ready("relist", c, listed'[d], todo'[d], rblocks, hjson, hsha)
    BY <1>2, <2>1 DEF Ready, Phase, Settled
  <2> QED BY <1>1, <2>1, <2>2, TurnedAlike
<1>5. CASE FetchExtended(d)
  <2>1. IsStrictPrefix(c, hjson) /\ pc'[d] = "named" /\ listed'[d] = Len(c) + 1 .. Len(hjson)
    BY <1>5 DEF FetchExtended, Turn, TypeInv, TypeOK
  <2>2. Ready("named", c, listed'[d], todo'[d], rblocks, hjson, hsha)
    BY <1>2, <2>1 DEF Ready, Phase
  <2> QED BY <1>1, <2>1, <2>2, TurnedAlike
<1>6. CASE FetchOther(d)
  <2>1. pc'[d] = "list"
    BY <1>6, Went DEF FetchOther, Turn
  <2>2. ~IndexIsValid \/ ~IsPrefix(c, hjson)
    <3>1. "pull" \notin Faults
      BY DEF Turn, Orderly
    <3> QED BY <1>6, <3>1 DEF FetchOther
  <2>3. ~IsStrictPrefix(c, hjson)
    <3>1. CASE ~IndexIsValid
      <4>1. hjson = <<>>
        BY <1>2, <3>1 DEF IndexIsValid, Settled
      <4>2. ~(Len(c) < Len(hjson))
        BY <1>3, <4>1
      <4> QED BY <1>3, <4>2, PrefixIsExtends
    <3>2. CASE ~IsPrefix(c, hjson)
      BY <3>2 DEF IsStrictPrefix
    <3> QED BY <2>2, <3>1, <3>2
  <2>4. Ready("list", c, listed'[d], todo'[d], rblocks, hjson, hsha)
    BY <1>2, <2>3 DEF Ready, Phase
  <2> QED BY <1>1, <2>1, <2>4, TurnedAlike
<1> QED BY <1>4, <1>5, <1>6

LEMMA NamedTurned ==
  ASSUME NEW d \in Device, Turn(d), PullNamed(d)
  PROVE  Turned(d)
<1> PICK c : c = chain[d]
  OBVIOUS
<1> PICK h : h = hjson
  OBVIOUS
<1>1. pc[d] = "named" /\ UNCHANGED <<rblocks, hjson, hsha, torn>>
  BY DEF PullNamed, remote
<1>2. Settled(h, hsha, rblocks) /\ IsStrictPrefix(c, h) /\ listed[d] = Len(c) + 1 .. Len(h)
  BY <1>1, Here DEF Pushes, Phase
<1>3. c \in Seq(Block) /\ h \in Seq(Block) /\ Len(c) \in Nat /\ DOMAIN h = 1..Len(h)
      /\ Len(h) \in Nat
  BY Here
<1>4. Extends(c, h) /\ Len(c) < Len(h)
  BY <1>2, <1>3, PrefixIsExtends
<1>5. PICK failed \in SUBSET listed[d] :
        /\ failed # {} => "pull" \in Faults
        /\ chain' = [chain EXCEPT ![d] =
                       @ \o Picked(rblocks, (listed[d] \cap DOMAIN rblocks) \ failed)]
  BY DEF PullNamed
<1>6. failed = {}
  BY <1>5 DEF Turn, Orderly
<1>7. rblocks = h /\ h # <<>> /\ Linked(h)
  BY <1>2, <1>3, <1>4 DEF Settled
<1>8. (listed[d] \cap DOMAIN rblocks) \ failed = Len(c) + 1 .. Len(h)
  BY <1>2, <1>3, <1>6, <1>7
<1>9. c \o Picked(h, Len(c) + 1 .. Len(h)) = h
  BY <1>3, <1>4, ReadRest
<1>10. chain'[d] = c \o Picked(h, Len(c) + 1 .. Len(h))
  <2>1. chain \in [Device -> Seq(Block)]
    BY DEF Turn, TypeInv, TypeOK
  <2>2. chain'[d] = chain[d] \o Picked(rblocks, (listed[d] \cap DOMAIN rblocks) \ failed)
    BY <1>5, <2>1
  <2> QED BY <1>7, <1>8, <2>2
<1>11. chain'[d] = h
  BY <1>9, <1>10
<1>12. pc'[d] = "list"
  BY DEF PullNamed, Turn, TypeInv, TypeOK
<1>13. Ready("list", h, listed'[d], todo'[d], rblocks, hjson, hsha)
  BY <1>2 DEF Ready, Phase, IsStrictPrefix
<1>14. \A i \in DOMAIN rblocks : Single(rblocks[i])
  BY Here
<1>15. torn = {}
  BY Here
<1> QED BY <1>1, <1>7, <1>11, <1>12, <1>13, <1>14, <1>15 DEF Turned

LEMMA ListTurned ==
  ASSUME NEW d \in Device, Turn(d), List(d) \/ Relist(d)
  PROVE  Turned(d)
<1> PICK c : c = chain[d]
  OBVIOUS
<1>1. UNCHANGED <<chain, rblocks, hjson, hsha, torn>>
  BY DEF List, Relist, files, remote
<1>2. Listing = {DOMAIN rblocks}
  BY DEF Listing, Turn, Orderly
<1>3. CASE List(d)
  <2>1. pc[d] = "list" /\ pc'[d] = "pull" /\ listed'[d] = DOMAIN rblocks
    BY <1>2, <1>3 DEF List, Turn, TypeInv, TypeOK
  <2>2. Settled(hjson, hsha, rblocks) /\ ~IsStrictPrefix(c, hjson)
    BY <2>1, Here DEF Pushes, Phase
  <2>3. Ready("pull", c, listed'[d], todo'[d], rblocks, hjson, hsha)
    BY <2>1, <2>2 DEF Ready, Phase
  <2> QED BY <1>1, <2>1, <2>3, TurnedAlike
<1>4. CASE Relist(d)
  <2>1. pc[d] = "relist" /\ StartPush(d, Missing(c, DOMAIN rblocks))
    BY <1>2, <1>4 DEF Relist
  <2>2. rblocks = c
    BY <2>1, Here DEF Phase
  <2>3. Covers(c, Missing(c, DOMAIN rblocks), rblocks)
    BY <2>2 DEF Covers
  <2> QED BY <1>1, <2>1, <2>3, TurnedToPush
<1> QED BY <1>3, <1>4

\* What a device has listed is what there is, and it reads beyond its chain only that.
LEMMA BeyondIsThere ==
  ASSUME NEW d \in Device, Turn(d), pc[d] = "pull"
  PROVE  /\ Settled(hjson, hsha, rblocks) /\ listed[d] = DOMAIN hjson /\ rblocks = hjson
         /\ ~IsStrictPrefix(chain[d], hjson)
         /\ Beyond(d) \subseteq DOMAIN rblocks
         /\ listed[d] # {} => hjson # <<>> /\ 1 \in DOMAIN rblocks
<1>1. Settled(hjson, hsha, rblocks) /\ listed[d] = DOMAIN rblocks
      /\ ~IsStrictPrefix(chain[d], hjson)
  BY Here DEF Pushes, Phase
<1>2. rblocks = hjson
  BY <1>1 DEF Settled
<1>3. DOMAIN hjson = 1..Len(hjson) /\ Len(hjson) \in Nat /\ Len(chain[d]) \in Nat
  BY Here
<1>4. Beyond(d) \subseteq DOMAIN rblocks
  <2>1. CASE listed[d] = {}
    BY <2>1 DEF Beyond
  <2>2. CASE listed[d] # {}
    <3>1. listed[d] \subseteq 1..Len(hjson)
      BY <1>1, <1>2, <1>3
    <3>2. Max(listed[d]) \in listed[d]
      BY <1>3, <2>2, <3>1, MaxOfSet
    <3> PICK x : x = Max(listed[d])
      OBVIOUS
    <3>3. x \in 1..Len(hjson) /\ Beyond(d) = Len(chain[d]) + 1 .. x
      BY <2>2, <3>1, <3>2 DEF Beyond
    <3> QED BY <1>2, <1>3, <3>3
  <2> QED BY <2>1, <2>2
<1>5. ASSUME listed[d] # {}
      PROVE  hjson # <<>> /\ 1 \in DOMAIN rblocks
  BY <1>1, <1>2, <1>3, <1>5
<1> QED BY <1>1, <1>2, <1>4, <1>5

\* What links to a chain that does not begin the remote one: nothing.
LEMMA NeverLinks ==
  ASSUME NEW d \in Device, Turn(d)
  PROVE  ~PullLinking(d)
<1> SUFFICES ASSUME PullLinking(d) PROVE FALSE
  OBVIOUS
<1> PICK c : c = chain[d]
  OBVIOUS
<1> PICK h : h = hjson
  OBVIOUS
<1> PICK p : p = Pulled(d)
  OBVIOUS
<1> PICK n : n = Linking(c, p)
  OBVIOUS
<1>1. pc[d] = "pull" /\ n > 0 /\ Beyond(d) # {} /\ Beyond(d) \subseteq DOMAIN rblocks
  BY DEF PullLinking
<1>2. Settled(h, hsha, rblocks) /\ rblocks = h /\ ~IsStrictPrefix(c, h)
  BY <1>1, BeyondIsThere
<1>3. /\ c \in Seq(Block) /\ Len(c) \in Nat /\ Len(c) >= 1 /\ Linked(c)
      /\ h \in Seq(Block) /\ DOMAIN h = 1..Len(h) /\ Len(h) \in Nat
  BY Here
<1>4. /\ p \in Seq(Block)
      /\ \A k \in 1..Len(p) : Len(c) + k \in DOMAIN h /\ p[k] = h[Len(c) + k]
  BY <1>1, <1>2, PulledFacts DEF Turn
<1>5. n \in 1..Len(p) /\ Linked(c \o SubSeq(p, 1, n))
  <2>1. Len(p) \in Nat
    BY <1>4
  <2> QED BY <1>1, <2>1, LinkingIsCount
<1> PICK t : t = SubSeq(p, 1, n)
  OBVIOUS
<1>6. t \in Seq(Block) /\ Len(t) = n /\ 1 \in 1..n /\ 1 \in 1..Len(p) /\ t[1] = p[1]
  BY <1>4, <1>5
<1> PICK g : g = c \o t
  OBVIOUS
<1>7. g \in Seq(Block) /\ Joined(c, t, g) /\ Linked(g)
  BY <1>3, <1>5, <1>6, ConcatParts
<1> PICK m \in Nat : m = Len(c)
  BY <1>3
<1>8. m + 1 \in 2..Len(g) /\ g[m + 1] = t[1] /\ g[m] = c[m] /\ m \in 1..m
      /\ (m + 1) - 1 = m
  <2>1. m \in 1..m /\ (m + 1) - 1 = m /\ m >= 1
    BY <1>3
  <2>2. g[m] = c[m]
    BY <1>7, <2>1 DEF Joined
  <2>3. g[m + 1] = t[1]
    BY <1>6, <1>7 DEF Joined
  <2>4. Len(g) = m + n /\ n \in Nat /\ n >= 1
    <3>1. Len(g) = m + n
      BY <1>6, <1>7 DEF Joined
    <3> QED BY <1>4, <1>5, <3>1
  <2>5. m + 1 \in 2..Len(g)
    BY <2>1, <2>4
  <2> QED BY <2>1, <2>2, <2>3, <2>5, Zenon
<1>9. PrevHash(t[1]) = c[m]
  <2> PICK k : k = m + 1
    OBVIOUS
  <2>1. k \in 2..Len(g) /\ k - 1 = m /\ g[k] = t[1]
    BY <1>8
  <2>2. \A i \in 2..Len(g) : PrevHash(g[i]) = g[i - 1]
    BY <1>7 DEF Linked
  <2>3. PrevHash(g[k]) = g[k - 1]
    BY <2>1, <2>2, Zenon
  <2> QED BY <1>8, <2>1, <2>3, Zenon
<1>10. t[1] = h[m + 1] /\ m + 1 \in 1..Len(h)
  BY <1>3, <1>4, <1>6
<1>11. Linked(h) /\ m + 1 \in 2..Len(h) /\ m \in 1..Len(h)
  <2>1. h # <<>>
    BY <1>10
  <2> QED BY <1>2, <1>3, <1>10, <2>1 DEF Settled
<1>12. PrevHash(h[m + 1]) = h[m]
  BY <1>8, <1>11 DEF Linked
<1>13. c[m] = h[m]
  BY <1>9, <1>10, <1>12
<1>14. \A i \in 1..m : c[i] = h[i]
  BY <1>3, <1>8, <1>11, <1>13, LinkedAgree
<1>15. Extends(c, h) /\ Len(c) < Len(h)
  BY <1>3, <1>10, <1>14 DEF Extends
<1> QED BY <1>2, <1>3, <1>15, PrefixIsExtends

LEMMA PullTurned ==
  ASSUME NEW d \in Device, Turn(d), PullNothing(d) \/ PullDiverged(d) \/ PullUnrelated(d)
  PROVE  Turned(d)
<1> PICK c : c = chain[d]
  OBVIOUS
<1>1. pc[d] = "pull" /\ UNCHANGED <<chain, rblocks, hjson, hsha, torn>>
  BY DEF PullNothing, PullDiverged, PullUnrelated, files, remote
<1>2. /\ Settled(hjson, hsha, rblocks) /\ listed[d] = DOMAIN hjson /\ rblocks = hjson
      /\ Beyond(d) \subseteq DOMAIN rblocks
      /\ listed[d] # {} => hjson # <<>> /\ 1 \in DOMAIN rblocks
  BY <1>1, BeyondIsThere
<1>3. "pull" \notin Faults
  BY DEF Turn, Orderly
<1>4. CASE PullNothing(d)
  <2>1. listed[d] = {} /\ StartPush(d, Missing(c, listed[d]))
    BY <1>2, <1>3, <1>4 DEF PullNothing
  <2>2. Covers(c, Missing(c, listed[d]), rblocks)
    BY <1>2, <2>1 DEF Covers, Missing
  <2> QED BY <1>1, <2>1, <2>2, TurnedToPush
<1>5. CASE PullDiverged(d)
  <2>1. listed[d] # {} /\ pc'[d] = "choose"
    BY <1>5, Went DEF PullDiverged, NothingLinks, Turn
  <2>2. Ready("choose", c, listed'[d], todo'[d], rblocks, hjson, hsha)
    BY <1>2, <2>1 DEF Ready, Phase
  <2> QED BY <1>1, <2>1, <2>2, TurnedAlike
<1>6. ~PullUnrelated(d)
  BY <1>2, <1>3 DEF PullUnrelated, NothingLinks
<1> QED BY <1>4, <1>5, <1>6

\* The remote holds each entry once, as the chains do.
LEMMA RemoteOnce ==
  ASSUME NEW d \in Device, Turn(d), Settled(hjson, hsha, rblocks), hjson # <<>>
  PROVE  \A e \in Entry : Copies(hjson, e) <= 1 /\ Copies(chain[d], e) <= 1
<1>1. AllVerify
  BY DEF Turn, SerialInv, AllVerify
<1>2. /\ hjson \in Seq(Block) /\ hjson[1] = Genesis /\ Linked(hjson) /\ rblocks = hjson
      /\ chain[d] \in Seq(Block) /\ chain[d] # <<>> /\ chain[d][1] = Genesis /\ Linked(chain[d])
  BY Here DEF Settled
<1> TAKE e \in Entry
<1>3. Len(hjson) \in DOMAIN hjson /\ Copies(hjson, e) = Count(DayEntries(hjson[Len(hjson)]), e)
  BY <1>2, LastHolds
<1>4. Once(hjson[Len(hjson)], e)
  BY <1>1, <1>2, <1>3 DEF Turn, OnceInv
<1>5. Len(chain[d]) \in DOMAIN chain[d]
      /\ Copies(chain[d], e) = Count(DayEntries(chain[d][Len(chain[d])]), e)
  BY <1>2, LastHolds
<1>6. Once(chain[d][Len(chain[d])], e)
  BY <1>1, <1>5 DEF Turn, OnceInv
<1> QED BY <1>3, <1>4, <1>5, <1>6 DEF Once

LEMMA ChooseTurned ==
  ASSUME NEW d \in Device, Turn(d),
         Decline(d) \/ MergeChains(d) \/ MergeFails(d) \/ MergeRaises(d)
  PROVE  Turned(d)
<1> PICK c : c = chain[d]
  OBVIOUS
<1> PICK h : h = hjson
  OBVIOUS
<1>1. pc[d] = "choose"
  BY DEF Decline, MergeChains, MergeFails, MergeRaises
<1>2. Settled(h, hsha, rblocks) /\ h # <<>>
  BY <1>1, Here DEF Pushes, Phase
<1>3. rblocks = h /\ Linked(h) /\ h[1] = Genesis
  BY <1>2 DEF Settled
<1>4. /\ c \in Seq(Block) /\ c # <<>> /\ c[1] = Genesis /\ Linked(c) /\ h \in Seq(Block)
      /\ \A i \in DOMAIN c : Single(c[i])
      /\ \A i \in DOMAIN h : Single(h[i])
  BY <1>3, Here
<1>5. RemoteChain = h
  BY <1>3, <1>4, ReadAll DEF RemoteChain
<1>6. Mergeable(c, h)
  BY <1>2, <1>3, <1>4 DEF Mergeable
<1>7. ~Decline(d) /\ ~MergeFails(d) /\ ~MergeRaises(d)
  <2>1. Answers \cap {"skip", "cancel"} = {}
    BY DEF Turn, Orderly
  <2>2. "pull" \notin Faults /\ "list" \notin Faults
    BY DEF Turn, Orderly
  <2> QED BY <1>5, <1>6, <2>1, <2>2 DEF Decline, MergeFails, MergeRaises
<1>8. MergeChains(d)
  BY <1>7
<1> PICK g : g = Merge(c, h)
  OBVIOUS
<1>9. /\ chain' = [chain EXCEPT ![d] = g] /\ StartPush(d, DOMAIN g)
      /\ UNCHANGED <<rblocks, hjson, hsha, torn>>
  BY <1>5, <1>8 DEF MergeChains, remote
<1>10. chain'[d] = g
  BY <1>9 DEF Turn, TypeInv, TypeOK
<1>11. \A e \in Entry : Copies(h, e) <= 1 /\ Copies(c, e) <= 1
  BY <1>2, RemoteOnce
<1>12. Merges(c, h, g)
  BY <1>4, <1>6, Merged
<1>13. g \in Seq(Block) /\ g # <<>> /\ g[1] = Genesis /\ Linked(g)
  BY <1>4, <1>12 DEF Merges
<1>14. \A i \in DOMAIN g : Single(g[i])
  BY <1>4, <1>6, <1>11, SingleMerged DEF Turn, Orderly
<1>15. \A e \in Entry : Copies(g, e) <= 1
  BY <1>11, <1>12 DEF Merges
<1>16. Held(h) \subseteq Held(g)
  BY <1>4, <1>12, MergeHolds
<1>17. DOMAIN h \subseteq DOMAIN g
  BY <1>2, <1>3, <1>4, <1>11, <1>13, <1>14, <1>15, <1>16, MoreIsLonger
<1>18. Covers(g, DOMAIN g, rblocks)
  BY <1>3, <1>17 DEF Covers
<1>19. Ready("push", g, listed'[d], DOMAIN g, rblocks, hjson, hsha)
  <2>1. DOMAIN g # {}
    BY <1>13
  <2>2. rblocks \in [DOMAIN rblocks -> Block]
    BY Here
  <2> QED BY <1>13, <1>18, <2>1, <2>2, ReadyToPush
<1>20. pc'[d] = "push" /\ todo'[d] = DOMAIN g
  <2>1. DOMAIN g # {}
    BY <1>13
  <2> QED BY <1>9, <2>1, Went DEF Turn
<1>21. torn = {}
  BY Here
<1> QED BY <1>3, <1>4, <1>9, <1>10, <1>13, <1>14, <1>19, <1>20, <1>21 DEF Turned

LEMMA PushTurned ==
  ASSUME NEW d \in Device, Turn(d), PushBlock(d) \/ PushBlockFails(d)
  PROVE  Turned(d)
<1> PICK c : c = chain[d]
  OBVIOUS
<1> PICK P : P = todo[d]
  OBVIOUS
<1> PICK i : i = Min(P)
  OBVIOUS
<1>1. pc[d] = "push" /\ UNCHANGED <<chain, hjson, hsha, torn>>
      /\ PutBlock(d, i) /\ StartPush(d, P \ {i})
  <2>1. ~PushBlockFails(d)
    BY DEF PushBlockFails, Turn, Orderly
  <2>2. PushBlock(d)
    BY <2>1
  <2> QED BY <2>2 DEF PushBlock, files
<1>2. Covers(c, P, rblocks)
  BY <1>1, Here DEF Phase
<1>3. P # {} /\ P \subseteq DOMAIN c
  BY <1>1 DEF Turn, TypeInv, ControlInv
<1>4. /\ c \in Seq(Block) /\ DOMAIN c = 1..Len(c) /\ Linked(c)
      /\ \A k \in DOMAIN c : Single(c[k])
      /\ \A k \in DOMAIN rblocks : Single(rblocks[k])
      /\ rblocks \in [DOMAIN rblocks -> Block]
  BY Here
<1>5. i \in P /\ i \in DOMAIN c
  <2>1. P \in SUBSET Nat
    BY <1>3, <1>4
  <2>2. Min(P) \in P
    BY <1>3, <2>1, LeastOfSet
  <2> QED BY <1>3, <2>2
<1>6. rblocks' = [j \in DOMAIN rblocks \cup {i} |-> IF j = i THEN c[i] ELSE rblocks[j]]
  BY <1>1 DEF PutBlock
<1>7. /\ DOMAIN rblocks' = DOMAIN rblocks \cup {i}
      /\ rblocks'[i] = c[i]
      /\ \A j \in DOMAIN rblocks : j # i => rblocks'[j] = rblocks[j]
  BY <1>6
<1>8. rblocks' \in [DOMAIN rblocks' -> Block]
  <2>1. c[i] \in Block
    BY <1>4, <1>5
  <2> QED BY <1>4, <1>6, <1>7, <2>1
<1>9. \A j \in DOMAIN rblocks' : Single(rblocks'[j])
  BY <1>4, <1>5, <1>7
<1>10. Covers(c, P \ {i}, rblocks')
  <2>1. DOMAIN rblocks' \subseteq DOMAIN c
    BY <1>2, <1>5, <1>7 DEF Covers
  <2>2. ASSUME NEW j \in DOMAIN c \ (P \ {i})
        PROVE  j \in DOMAIN rblocks' /\ rblocks'[j] = c[j]
    <3>1. CASE j = i
      BY <1>7, <3>1
    <3>2. CASE j # i
      <4>1. j \in DOMAIN c \ P
        BY <3>2
      <4> QED BY <1>2, <1>7, <3>2, <4>1 DEF Covers
    <3> QED BY <3>1, <3>2
  <2> QED BY <2>1, <2>2 DEF Covers
<1>11. /\ todo'[d] = P \ {i}
       /\ P \ {i} = {} => pc'[d] = "index"
       /\ P \ {i} # {} => pc'[d] = "push"
  BY <1>1, Went DEF Turn
<1>12. Ready(pc'[d], c, listed'[d], todo'[d], rblocks', hjson, hsha)
  <2>1. /\ P \ {i} = {} => Ready("index", c, listed'[d], P \ {i}, rblocks', hjson, hsha)
        /\ P \ {i} # {} => Ready("push", c, listed'[d], P \ {i}, rblocks', hjson, hsha)
    BY <1>4, <1>8, <1>10, ReadyToPush
  <2> QED BY <1>11, <2>1
<1>13. torn = {}
  BY Here
<1> QED BY <1>1, <1>4, <1>9, <1>12, <1>13 DEF Turned

LEMMA IndexTurned ==
  ASSUME NEW d \in Device, Turn(d), PushHashes(d) \/ PushChecksum(d)
  PROVE  Turned(d)
<1> PICK c : c = chain[d]
  OBVIOUS
<1>1. UNCHANGED <<chain, rblocks, torn>>
  BY DEF PushHashes, PushChecksum, files
<1>2. "push" \notin Faults
  BY DEF Turn, Orderly
<1>3. CASE PushHashes(d)
  <2>1. pc[d] = "index" /\ hjson' = c /\ hsha' = hsha /\ pc'[d] = "checksum"
    BY <1>2, <1>3, Went DEF PushHashes, Turn
  <2>2. rblocks = c
    BY <2>1, Here DEF Phase
  <2>3. Ready("checksum", c, listed'[d], todo'[d], rblocks, hjson', hsha')
    BY <2>1, <2>2 DEF Ready, Phase, Pushes
  <2> QED BY <1>1, <2>1, <2>3, TurnedAlike
<1>4. CASE PushChecksum(d)
  <2>1. pc[d] = "checksum" /\ hsha' = c /\ hjson' = hjson /\ pc'[d] = "idle"
    BY <1>2, <1>4, Went DEF PushChecksum, Turn
  <2>2. rblocks = c /\ hjson = c
    BY <2>1, Here DEF Phase
  <2>3. Linked(c) /\ c[1] = Genesis
    BY Here
  <2>4. Settled(hjson', hsha', rblocks)
    BY <2>1, <2>2, <2>3 DEF Settled
  <2>5. Ready("idle", c, listed'[d], todo'[d], rblocks, hjson', hsha')
    BY <2>4, ReadyIdle
  <2> QED BY <1>1, <2>1, <2>5, TurnedAlike
<1> QED BY <1>3, <1>4

LEMMA CommitTurned ==
  ASSUME NEW d \in Device, Turn(d), Commit(d)
  PROVE  Turned(d)
<1> PICK c : c = chain[d]
  OBVIOUS
<1>1. PICK S \in (SUBSET pending[d]) \ {{}} :
        LET grown == CommitEntries(c, S) IN
        \/ /\ Linked(grown)
           /\ chain' = [chain EXCEPT ![d] = grown]
           /\ Goto(d, "fetch") \/ UNCHANGED control
        \/ ~Linked(grown)
  BY DEF Commit
<1>2. pc[d] = "idle" /\ UNCHANGED <<rblocks, hjson, hsha, torn>>
  BY DEF Commit, MayStart, remote
<1>3. /\ c \in Seq(Block) /\ c # <<>> /\ c[1] = Genesis /\ Linked(c) /\ torn = {}
      /\ \A i \in DOMAIN c : Single(c[i])
      /\ \A i \in DOMAIN rblocks : Single(rblocks[i])
  BY Here
<1>4. S \in SUBSET Entry
  <2>1. pending[d] \in SUBSET Entry
    BY DEF Turn, TypeInv, TypeOK
  <2> QED BY <2>1
<1> PICK g : g = CommitEntries(c, S)
  OBVIOUS
<1>5. /\ g \in Seq(Block) /\ Extends(c, g)
      /\ \A i \in Len(c) + 1 .. Len(g) : g[i] # Genesis /\ PrevHash(g[i]) = g[i - 1]
  BY <1>3, <1>4, CommitAppended
<1>6. Linked(g)
  BY <1>3, <1>5, LinkedExtension
<1>7. chain' = [chain EXCEPT ![d] = g] /\ (Goto(d, "fetch") \/ UNCHANGED control)
  BY <1>1, <1>6
<1>8. chain'[d] = g
  BY <1>7 DEF Turn, TypeInv, TypeOK
<1>9. \A i \in DOMAIN g : Single(g[i])
  BY <1>3, <1>4, SingleCommitted DEF Turn, Orderly
<1>10. pc'[d] \in {"idle", "fetch"}
  BY <1>2, <1>7, Went DEF Turn, control
<1>11. Settled(hjson, hsha, rblocks)
  BY <1>2, Here DEF Pushes
<1>12. Ready(pc'[d], g, listed'[d], todo'[d], rblocks, hjson, hsha)
  BY <1>10, <1>11, ReadyIdle
<1> QED BY <1>2, <1>3, <1>6, <1>8, <1>9, <1>12 DEF Turned

Acts(d) ==
  \/ SyncOnly(d) \/ Commit(d) \/ Continue(d)
  \/ Kill(d) \/ TearCommit(d) \/ TearMerge(d)

\* No step but that of a sync whose turn it is, and each leaves it ready.
LEMMA TakesTurn ==
  ASSUME TypeInv, OnceInv, SerialInv, Orderly, NEW d \in Device, Acts(d)
  PROVE  Turn(d)
<1>1. CASE SyncOnly(d) \/ Commit(d) \/ TearCommit(d)
  <2>1. MayStart(d)
    BY <1>1 DEF SyncOnly, Commit, TearCommit
  <2> QED BY <2>1, TurnOf
<1>2. CASE FetchIdentical(d) \/ FetchExtended(d) \/ FetchOther(d)
           \/ PullNamed(d) \/ List(d) \/ Relist(d)
  <2>1. pc[d] # "idle"
    BY <1>2 DEF FetchIdentical, FetchExtended, FetchOther, PullNamed, List, Relist
  <2> QED BY <2>1, TurnOf
<1>3. CASE PullLinking(d) \/ PullNothing(d) \/ PullDiverged(d) \/ PullUnrelated(d)
  <2>1. pc[d] # "idle"
    BY <1>3 DEF PullLinking, PullNothing, PullDiverged, PullUnrelated
  <2> QED BY <2>1, TurnOf
<1>4. CASE Decline(d) \/ MergeChains(d) \/ MergeFails(d) \/ MergeRaises(d) \/ TearMerge(d)
  <2>1. pc[d] # "idle"
    BY <1>4 DEF Decline, MergeChains, MergeFails, MergeRaises, TearMerge
  <2> QED BY <2>1, TurnOf
<1>5. CASE PushBlock(d) \/ PushBlockFails(d) \/ PushHashes(d) \/ PushChecksum(d) \/ Kill(d)
  <2>1. pc[d] # "idle"
    BY <1>5 DEF PushBlock, PushBlockFails, PushHashes, PushChecksum, Kill
  <2> QED BY <2>1, TurnOf
<1> QED BY <1>1, <1>2, <1>3, <1>4, <1>5, Zenon DEF Acts, Continue

LEMMA ActTurned ==
  ASSUME NEW d \in Device, Turn(d), Acts(d)
  PROVE  Turned(d)
<1>1. ~(Kill(d) \/ TearCommit(d) \/ TearMerge(d))
  <2>1. "kill" \notin Faults
    BY DEF Turn, Orderly
  <2> QED BY <2>1 DEF Kill, TearCommit, TearMerge
<1>2. ~PullLinking(d)
  BY NeverLinks
<1>3. CASE SyncOnly(d)
  BY <1>3, SyncTurned
<1>4. CASE Commit(d)
  BY <1>4, CommitTurned
<1>5. CASE FetchIdentical(d) \/ FetchExtended(d) \/ FetchOther(d)
  BY <1>5, FetchTurned, Zenon
<1>6. CASE PullNamed(d)
  BY <1>6, NamedTurned
<1>7. CASE List(d) \/ Relist(d)
  BY <1>7, ListTurned, Zenon
<1>8. CASE PullNothing(d) \/ PullDiverged(d) \/ PullUnrelated(d)
  BY <1>8, PullTurned, Zenon
<1>9. CASE Decline(d) \/ MergeChains(d) \/ MergeFails(d) \/ MergeRaises(d)
  BY <1>9, ChooseTurned, Zenon
<1>10. CASE PushBlock(d) \/ PushBlockFails(d)
  BY <1>10, PushTurned, Zenon
<1>11. CASE PushHashes(d) \/ PushChecksum(d)
  BY <1>11, IndexTurned, Zenon
<1> QED BY <1>1, <1>2, <1>3, <1>4, <1>5, <1>6, <1>7, <1>8, <1>9, <1>10, <1>11, Zenon
        DEF Acts, Continue

LEMMA SerialStep ==
  ASSUME TypeInv, OnceInv, SerialInv, Orderly, Next
  PROVE  SerialInv'
<1>1. PICK d \in Device : Acts(d)
  BY DEF Next, Acts
<1>2. Turn(d) /\ Turned(d)
  BY <1>1, TakesTurn, ActTurned
<1>3. \A o \in Device : o # d => pc[o] = "idle" /\ pc'[o] = pc[o] /\ chain'[o] = chain[o]
  <2>1. Steers(d) /\ \A o \in Device : o # d => chain'[o] = chain[o]
    BY <1>1, OwnSteers, OwnChain, Zenon DEF Acts
  <2>2. \A o \in Device : o # d => pc'[o] = pc[o]
    BY <2>1 DEF Steers, TypeInv, TypeOK
  <2> QED BY <1>2, <2>1, <2>2 DEF Turn
<1>4. Ready(pc'[d], chain'[d], listed'[d], todo'[d], rblocks', hjson', hsha')
  BY <1>2 DEF Turned
<1>5. torn' = {} /\ \A i \in DOMAIN rblocks' : Single(rblocks'[i])
  BY <1>2 DEF Turned
<1>6. ASSUME NEW o \in Device
      PROVE  /\ Linked(chain'[o])
             /\ \A i \in DOMAIN chain'[o] : Single(chain'[o][i])
  <2>1. CASE o = d
    BY <1>2, <2>1 DEF Turned
  <2>2. CASE o # d
    <3>1. Linked(chain[o]) /\ \A i \in DOMAIN chain[o] : Single(chain[o][i])
      BY DEF SerialInv, SingleBlocks
    <3> QED BY <1>3, <2>2, <3>1
  <2> QED BY <2>1, <2>2
<1>7. ASSUME NEW o \in Device, NEW p \in Device, pc'[o] # "idle", pc'[p] # "idle"
      PROVE  o = p
  BY <1>3, <1>7
<1>8. (\A o \in Device : pc'[o] \notin Pushes) => Settled(hjson', hsha', rblocks')
  BY <1>4 DEF Ready
<1>9. ASSUME NEW o \in Device
      PROVE  Phase(pc'[o], chain'[o], listed'[o], todo'[o], rblocks', hjson')
  <2>1. CASE o = d
    BY <1>4, <2>1 DEF Ready
  <2>2. CASE o # d
    <3>1. pc'[o] = "idle"
      BY <1>3, <2>2
    <3> QED BY <3>1 DEF Phase
  <2> QED BY <2>1, <2>2
<1>10. SingleBlocks'
  BY <1>5, <1>6 DEF SingleBlocks
<1> QED BY <1>5, <1>6, <1>7, <1>8, <1>9, <1>10 DEF SerialInv

LEMMA SerialInit ==
  ASSUME Init
  PROVE  SerialInv
<1>1. /\ torn = {} /\ \A d \in Device : pc[d] = "idle" /\ chain[d] = <<Genesis>>
      /\ rblocks = <<>> /\ hjson = <<>> /\ hsha = <<>>
  BY DEF Init
<1>2. \A d \in Device : Linked(chain[d])
  BY <1>1 DEF Linked
<1>3. SingleBlocks
  <2>1. DOMAIN rblocks = {}
    BY <1>1
  <2>2. \A d \in Device : \A i \in DOMAIN chain[d] : chain[d][i] = Genesis
    BY <1>1
  <2> QED BY <2>1, <2>2 DEF SingleBlocks, Single
<1>4. Settled(hjson, hsha, rblocks)
  BY <1>1 DEF Settled
<1>5. ASSUME NEW d \in Device
      PROVE  Phase(pc[d], chain[d], listed[d], todo[d], rblocks, hjson)
  BY <1>1 DEF Phase
<1> QED BY <1>1, <1>2, <1>3, <1>4, <1>5 DEF SerialInv

LEMMA SerialStays ==
  ASSUME SerialInv, UNCHANGED vars
  PROVE  SerialInv'
BY DEF SerialInv, SingleBlocks, vars, files, remote, control

SerialHolds == TypeInv /\ OnceInv /\ SerialInv

LEMMA SerialHoldsStep ==
  Orderly /\ SerialHolds /\ [Next]_vars => SerialHolds'
<1> SUFFICES ASSUME Orderly, SerialHolds, [Next]_vars
             PROVE  SerialHolds'
  OBVIOUS
<1>1. TypeInv' /\ OnceInv'
  BY OnceHolds DEF SerialHolds
<1>2. SerialInv'
  <2>1. CASE Next
    BY <2>1, SerialStep DEF SerialHolds
  <2>2. CASE UNCHANGED vars
    BY <2>2, SerialStays DEF SerialHolds
  <2> QED BY <2>1, <2>2
<1> QED BY <1>1, <1>2 DEF SerialHolds

\* Where syncs come one after the other and users merge, each local chain
\* verifies, whatever the devices committed meanwhile.
THEOREM ChainsStayLinked ==
  ASSUME Orderly
  PROVE  Spec => []ChainsLinked
<1>1. Init => SerialHolds
  BY TypeInit, OnceInit, SerialInit DEF SerialHolds
<1>2. SerialHolds /\ [Next]_vars => SerialHolds'
  BY SerialHoldsStep
<1>3. SerialHolds => ChainsLinked
  BY DEF SerialHolds, SerialInv, ChainsLinked
<1> QED BY <1>1, <1>2, <1>3, PTL DEF Spec

\* There too, when the blocks of a chain have been pushed, and its hash index is
\* next, the remote blocks are that chain: none is missing, old or left over.
\* Days are of one entry each, since two entries on one day can make a merged
\* chain shorter than the remote one, whose last blocks then stay.
THEOREM PushedChainsAreRemote ==
  ASSUME Orderly
  PROVE  Spec => []PushedChainIsRemote
<1>1. Init => SerialHolds
  BY TypeInit, OnceInit, SerialInit DEF SerialHolds
<1>2. SerialHolds /\ [Next]_vars => SerialHolds'
  BY SerialHoldsStep
<1>3. SerialHolds => PushedChainIsRemote
  <2> SUFFICES ASSUME SerialHolds, NEW d \in Device, pc[d] = "index"
               PROVE  RemoteChain = chain[d]
    BY DEF PushedChainIsRemote
  <2>1. rblocks = chain[d]
    BY DEF SerialHolds, SerialInv, Phase
  <2>2. chain[d] \in Seq(Block)
    BY DEF SerialHolds, TypeInv, TypeOK
  <2> QED BY <2>1, <2>2, ReadAll DEF RemoteChain
<1> QED BY <1>1, <1>2, <1>3, PTL DEF Spec
=============================================================================
