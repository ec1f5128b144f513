------------------------- MODULE DeviceLedger_proofs -------------------------
(***************************************************************************)
(* DeviceLedger keeps its types, loses no entry, keeps each entry once,    *)
(* separates periods, and keeps the index that of the ledger, for any      *)
(* entries, days, titles, durations and bounds.                            *)
(*                                                                         *)
(* First the blocks and what is placed in them, their totals, which block  *)
(* may follow which, and what commits and reverts make of a ledger; then   *)
(* the inductive invariant, one step lemma for each of its parts, and the  *)
(* theorems.                                                               *)
(***************************************************************************)
EXTENDS DeviceLedger, CommonLemmas

-----------------------------------------------------------------------------
\* Blocks, and the entries placed in them.

DayBlk   == [kind : {"day"}, date : Dates, closes : {0}, entries : Seq(Committed)]
Summary  == [kind : {"month_summary", "year_summary"}, date : Nat, closes : Int,
             entries : {<<>>}]
Block    == DayBlk \cup Summary \cup {Genesis(FirstDate)}
PlacedAt == [date : Dates, entry : Committed]

\* The entries of a block of the ledger.
LEMMA DatedIsSeq ==
  ASSUME NEW b \in Block
  PROVE  /\ Dated(b) \in Seq(PlacedAt)
         /\ b.entries \in Seq(Committed)
         /\ Len(Dated(b)) = Len(b.entries)
         /\ ~IsDay(b) => Dated(b) = <<>>
         /\ IsDay(b) <=> b \in DayBlk
<1>1. b.entries \in Seq(Committed) /\ (b \in DayBlk => b.date \in Dates)
      /\ (b \notin DayBlk => b.entries = <<>>) /\ (IsDay(b) <=> b \in DayBlk)
  <2>1. CASE b \in DayBlk
    <3>1. b.entries \in Seq(Committed) /\ b.date \in Dates /\ b.kind = "day"
      BY <2>1 DEF DayBlk
    <3> QED BY <2>1, <3>1 DEF IsDay
  <2>2. CASE b \in Summary \cup {Genesis(FirstDate)}
    <3>1. b.entries = <<>> /\ b.kind # "day"
      BY <2>2 DEF Summary, Genesis
    <3>2. b \notin DayBlk
      BY <3>1 DEF DayBlk
    <3>3. b.entries \in Seq(Committed)
      BY <3>1
    <3> QED BY <3>1, <3>2, <3>3 DEF IsDay
  <2> QED BY <2>1, <2>2 DEF Block
<1>2. \A j \in 1..Len(b.entries) : b.entries[j] \in Committed
  BY <1>1
<1>3. Dated(b) = [j \in 1..Len(b.entries) |-> [date |-> b.date, entry |-> b.entries[j]]]
  BY <1>1 DEF Dated
<1>4. CASE b \in DayBlk
  <2>1. \A j \in 1..Len(b.entries) : [date |-> b.date, entry |-> b.entries[j]] \in PlacedAt
    BY <1>1, <1>2, <1>4 DEF PlacedAt
  <2>2. Dated(b) \in [1..Len(b.entries) -> PlacedAt]
    BY <1>3, <2>1
  <2>3. Len(b.entries) \in Nat
    BY <1>1
  <2> DEFINE n == Len(b.entries)
  <2>4. Dated(b) \in Seq(PlacedAt) /\ Len(Dated(b)) = n
    <3> HIDE DEF n
    <3> QED BY <2>2, <2>3 DEF n
  <2> QED BY <1>1, <1>4, <2>4
<1>5. CASE b \notin DayBlk
  <2>1. b.entries = <<>> /\ DOMAIN b.entries = {}
    BY <1>1, <1>5
  <2>2. Dated(b) = <<>>
    BY <2>1 DEF Dated
  <2> QED BY <1>1, <1>5, <2>1, <2>2
<1> QED BY <1>4, <1>5

\* Placed goes with concatenation.
LEMMA PlacedConcat ==
  ASSUME NEW a \in Seq(Block), NEW b \in Seq(Block)
  PROVE  /\ Placed(a) \in Seq(PlacedAt)
         /\ Placed(b) \in Seq(PlacedAt)
         /\ Placed(a \o b) = Placed(a) \o Placed(b)
<1> DEFINE L(s) == [k \in DOMAIN s |-> Dated(s[k])]
<1>1. ASSUME NEW s \in Seq(Block)
      PROVE  L(s) \in Seq(Seq(PlacedAt)) /\ Len(L(s)) = Len(s)
             /\ DOMAIN L(s) = 1..Len(s) /\ \A k \in 1..Len(s) : L(s)[k] = Dated(s[k])
  <2>1. \A k \in 1..Len(s) : Dated(s[k]) \in Seq(PlacedAt)
    BY DatedIsSeq
  <2>2. DOMAIN s = 1..Len(s) /\ Len(s) \in Nat
    OBVIOUS
  <2>3. L(s) \in [1..Len(s) -> Seq(PlacedAt)]
    BY <2>1, <2>2
  <2> QED BY <2>2, <2>3
<1> PICK ab : ab = a \o b
  OBVIOUS
<1>2. ab \in Seq(Block) /\ Joined(a, b, ab)
  BY ConcatParts
<1>3. L(ab) = L(a) \o L(b)
  <2> DEFINE la == L(a)
             lb == L(b)
             lab == L(ab)
             S == Seq(PlacedAt)
  <2>1. /\ la \in Seq(S) /\ Len(la) = Len(a)
        /\ \A k \in 1..Len(a) : la[k] = Dated(a[k])
    BY <1>1
  <2>2. /\ lb \in Seq(S) /\ Len(lb) = Len(b)
        /\ \A k \in 1..Len(b) : lb[k] = Dated(b[k])
    BY <1>1
  <2>3. /\ lab \in Seq(S) /\ Len(lab) = Len(ab)
        /\ \A k \in 1..Len(ab) : lab[k] = Dated(ab[k])
    BY <1>1, <1>2
  <2> HIDE DEF la, lb, lab, L, S
  <2> PICK lc : lc = la \o lb
    OBVIOUS
  <2>4. lc \in Seq(S) /\ Joined(la, lb, lc)
    BY <2>1, <2>2, ConcatParts
  <2>5. Len(lc) = Len(ab)
    BY <1>2, <2>1, <2>2, <2>4 DEF Joined
  <2>6. ASSUME NEW k \in 1..Len(ab)
        PROVE  lab[k] = lc[k]
    <3>1. CASE k \in 1..Len(a)
      <4>1. lab[k] = Dated(ab[k]) /\ ab[k] = a[k]
        BY <1>2, <2>3, <3>1 DEF Joined
      <4>2. lc[k] = la[k] /\ la[k] = Dated(a[k])
        BY <2>1, <2>4, <3>1 DEF Joined
      <4> QED BY <4>1, <4>2
    <3>2. ASSUME NEW j \in 1..Len(b), k = Len(a) + j
          PROVE  lab[k] = lc[k]
      <4>1. lab[k] = Dated(ab[k]) /\ ab[k] = b[j]
        BY <1>2, <2>3, <3>2 DEF Joined
      <4>2. lc[k] = lb[j] /\ lb[j] = Dated(b[j])
        BY <2>1, <2>2, <2>4, <3>2 DEF Joined
      <4> QED BY <4>1, <4>2
    <3> QED BY <1>2, <3>1, <3>2 DEF Joined
  <2>7. lab = lc
    BY <2>3, <2>4, <2>5, <2>6, SeqEqual
  <2> QED BY <2>7 DEF lab, la, lb
<1>4. Placed(ab) = FlattenSeq(L(ab)) /\ Placed(a) = FlattenSeq(L(a))
      /\ Placed(b) = FlattenSeq(L(b))
  BY DEF Placed
<1>5. L(a) \in Seq(Seq(PlacedAt)) /\ L(b) \in Seq(Seq(PlacedAt))
  BY <1>1
<1> DEFINE la == L(a)
           lb == L(b)
<1>6. FlattenSeq(la \o lb) = FlattenSeq(la) \o FlattenSeq(lb)
      /\ FlattenSeq(la) \in Seq(PlacedAt) /\ FlattenSeq(lb) \in Seq(PlacedAt)
  <2>1. la \in Seq(Seq(PlacedAt)) /\ lb \in Seq(Seq(PlacedAt))
    BY <1>5
  <2> HIDE DEF la, lb
  <2> QED BY <2>1, FlattenConcat, FlattenIsSeq
<1> HIDE DEF L
<1> QED BY <1>3, <1>4, <1>6 DEF la, lb

\* No block, one block, and one block more.
LEMMA PlacedSmall ==
  ASSUME NEW b \in Block
  PROVE  Placed(<<>>) = <<>> /\ Placed(<<b>>) = Dated(b)
<1>1. Placed(<<>>) = FlattenSeq(<<>>)
  BY DEF Placed
<1>2. [k \in DOMAIN <<b>> |-> Dated(<<b>>[k])] = <<Dated(b)>>
  OBVIOUS
<1>3. Placed(<<b>>) = FlattenSeq(<<Dated(b)>>)
  BY <1>2 DEF Placed
<1>4. Dated(b) \in Seq(PlacedAt)
  BY DatedIsSeq
<1> QED BY <1>1, <1>3, <1>4, FlattenSmall

LEMMA PlacedAppend ==
  ASSUME NEW a \in Seq(Block), NEW b \in Block
  PROVE  /\ Append(a, b) \in Seq(Block)
         /\ Placed(Append(a, b)) = Placed(a) \o Dated(b)
         /\ ~IsDay(b) => Placed(Append(a, b)) = Placed(a)
<1>1. <<b>> \in Seq(Block) /\ Append(a, b) = a \o <<b>>
  OBVIOUS
<1>2. Placed(Append(a, b)) = Placed(a) \o Dated(b) /\ Placed(a) \in Seq(PlacedAt)
  BY <1>1, PlacedConcat, PlacedSmall
<1>3. ~IsDay(b) => Dated(b) = <<>>
  BY DatedIsSeq
<1>4. Placed(a) \o <<>> = Placed(a)
  BY <1>2, ConcatEmptySeq
<1>5. Append(a, b) \in Seq(Block)
  OBVIOUS
<1>6. ~IsDay(b) => Placed(Append(a, b)) = Placed(a)
  BY <1>2, <1>3, <1>4
<1> QED BY <1>2, <1>5, <1>6

\* A ledger in two parts.
LEMMA PlacedSplit ==
  ASSUME NEW s \in Seq(Block), NEW n \in 1..Len(s)
  PROVE  /\ SubSeq(s, 1, n - 1) \in Seq(Block)
         /\ SubSeq(s, n, Len(s)) \in Seq(Block)
         /\ s = SubSeq(s, 1, n - 1) \o SubSeq(s, n, Len(s))
         /\ Placed(s) = Placed(SubSeq(s, 1, n - 1)) \o Placed(SubSeq(s, n, Len(s)))
<1>1. SubSeq(s, 1, n - 1) \in Seq(Block) /\ SubSeq(s, n, Len(s)) \in Seq(Block)
  OBVIOUS
<1>2. s = SubSeq(s, 1, n - 1) \o SubSeq(s, n, Len(s))
  OBVIOUS
<1> QED BY <1>1, <1>2, PlacedConcat

-----------------------------------------------------------------------------
\* Ids of placed entries, and whether an id is there once.

IdsOf(placed) == {placed[k].entry.id : k \in DOMAIN placed}

OnceIn(placed) ==
  \A k, m \in DOMAIN placed : placed[k].entry.id = placed[m].entry.id => k = m

LEMMA IdsConcat ==
  ASSUME NEW a \in Seq(PlacedAt), NEW b \in Seq(PlacedAt)
  PROVE  /\ IdsOf(a \o b) = IdsOf(a) \cup IdsOf(b)
         /\ OnceIn(a \o b) <=> OnceIn(a) /\ OnceIn(b) /\ IdsOf(a) \cap IdsOf(b) = {}
<1> PICK c : c = a \o b
  OBVIOUS
<1>0. Joined(a, b, c)
  BY ConcatParts
<1>1. /\ Len(a) \in Nat /\ Len(b) \in Nat /\ Len(c) = Len(a) + Len(b)
      /\ DOMAIN a = 1..Len(a) /\ DOMAIN b = 1..Len(b) /\ DOMAIN c = 1..Len(c)
      /\ \A k \in 1..Len(a) : c[k] = a[k] /\ k \in 1..Len(c)
      /\ \A k \in 1..Len(b) : c[Len(a) + k] = b[k] /\ Len(a) + k \in 1..Len(c)
      /\ \A k \in 1..Len(c) : k \in 1..Len(a) \/ \E j \in 1..Len(b) : k = Len(a) + j
  BY <1>0 DEF Joined
<1>2. \A k \in DOMAIN c : k \in 1..Len(a) \/ \E j \in 1..Len(b) : k = Len(a) + j
  BY <1>1
<1>3. IdsOf(c) = IdsOf(a) \cup IdsOf(b)
  <2>1. \A x \in IdsOf(c) : x \in IdsOf(a) \cup IdsOf(b)
    <3> TAKE x \in IdsOf(c)
    <3>1. PICK k \in DOMAIN c : x = c[k].entry.id
      BY DEF IdsOf
    <3>2. CASE k \in 1..Len(a)
      BY <1>1, <3>1, <3>2 DEF IdsOf
    <3>3. ASSUME NEW j \in 1..Len(b), k = Len(a) + j
          PROVE  x \in IdsOf(b)
      <4>1. c[k] = b[j] /\ j \in DOMAIN b
        BY <1>1, <3>3
      <4> QED BY <3>1, <4>1 DEF IdsOf
    <3> QED BY <1>2, <3>2, <3>3
  <2>2. \A x \in IdsOf(a) : x \in IdsOf(c)
    BY <1>1 DEF IdsOf
  <2>3. \A x \in IdsOf(b) : x \in IdsOf(c)
    <3> TAKE x \in IdsOf(b)
    <3>1. PICK j \in 1..Len(b) : x = b[j].entry.id
      BY <1>1 DEF IdsOf
    <3>2. Len(a) + j \in DOMAIN c /\ c[Len(a) + j] = b[j]
      BY <1>1
    <3> QED BY <3>1, <3>2 DEF IdsOf
  <2> QED BY <2>1, <2>2, <2>3
<1>4. ASSUME OnceIn(c)
      PROVE  OnceIn(a) /\ OnceIn(b) /\ IdsOf(a) \cap IdsOf(b) = {}
  <2>1. OnceIn(a)
    BY <1>1, <1>4 DEF OnceIn
  <2>2. OnceIn(b)
    <3> SUFFICES ASSUME NEW k \in 1..Len(b), NEW m \in 1..Len(b),
                        b[k].entry.id = b[m].entry.id
                 PROVE  k = m
      BY <1>1 DEF OnceIn
    <3>0. c[Len(a) + k] = b[k] /\ c[Len(a) + m] = b[m]
          /\ Len(a) + k \in DOMAIN c /\ Len(a) + m \in DOMAIN c
      BY <1>1
    <3>1. Len(a) + k = Len(a) + m
      BY <1>4, <3>0 DEF OnceIn
    <3> QED BY <1>1, <3>1
  <2>3. ASSUME NEW x \in IdsOf(a), x \in IdsOf(b)
        PROVE  FALSE
    <3>1. PICK k \in 1..Len(a) : x = a[k].entry.id
      BY <1>1 DEF IdsOf
    <3>2. PICK j \in 1..Len(b) : x = b[j].entry.id
      BY <1>1, <2>3 DEF IdsOf
    <3>3. c[k] = a[k] /\ k \in DOMAIN c /\ c[Len(a) + j] = b[j] /\ Len(a) + j \in DOMAIN c
      BY <1>1
    <3>4. c[k].entry.id = c[Len(a) + j].entry.id
      BY <3>1, <3>2, <3>3
    <3>5. \A i1, i2 \in DOMAIN c : c[i1].entry.id = c[i2].entry.id => i1 = i2
      BY <1>4 DEF OnceIn
    <3>6. k = Len(a) + j
      BY <3>3, <3>4, <3>5, Zenon
    <3> QED BY <1>1, <3>6
  <2> QED BY <2>1, <2>2, <2>3
<1>5. ASSUME OnceIn(a), OnceIn(b), IdsOf(a) \cap IdsOf(b) = {}
      PROVE  OnceIn(c)
  <2> SUFFICES ASSUME NEW k \in DOMAIN c, NEW m \in DOMAIN c,
                      c[k].entry.id = c[m].entry.id
               PROVE  k = m
    BY DEF OnceIn
  <2>1. CASE k \in 1..Len(a) /\ m \in 1..Len(a)
    BY <1>1, <1>5, <2>1 DEF OnceIn
  <2>2. ASSUME NEW i \in 1..Len(a), NEW j \in 1..Len(b),
               c[i].entry.id = c[Len(a) + j].entry.id
        PROVE  FALSE
    <3>1. c[i].entry.id \in IdsOf(a)
      BY <1>1 DEF IdsOf
    <3>2. c[Len(a) + j].entry.id \in IdsOf(b)
      BY <1>1 DEF IdsOf
    <3> QED BY <1>5, <2>2, <3>1, <3>2
  <2>3. ASSUME NEW i \in 1..Len(b), NEW j \in 1..Len(b), k = Len(a) + i, m = Len(a) + j
        PROVE  k = m
    <3>1. b[i].entry.id = b[j].entry.id
      BY <1>1, <2>3
    <3> QED BY <1>1, <1>5, <2>3, <3>1 DEF OnceIn
  <2> QED BY <1>2, <2>1, <2>2, <2>3
<1> QED BY <1>3, <1>4, <1>5

\* Nothing, and what is in a prefix.
LEMMA IdsNone == IdsOf(<<>>) = {} /\ OnceIn(<<>>)
BY DEF IdsOf, OnceIn

LEMMA IdsPlaced ==
  ASSUME NEW placed \in Seq(PlacedAt)
  PROVE  {p.entry.id : p \in ToSet(placed)} = IdsOf(placed) /\ IdsOf(placed) \subseteq Entry
<1>1. \A k \in DOMAIN placed : placed[k] \in PlacedAt
  OBVIOUS
<1>2. \A k \in DOMAIN placed : placed[k].entry.id \in Entry
  BY <1>1 DEF PlacedAt, Committed
<1>3. \A x \in IdsOf(placed) : x \in {p.entry.id : p \in ToSet(placed)}
  BY DEF IdsOf, ToSet
<1>4. \A x \in {p.entry.id : p \in ToSet(placed)} : x \in IdsOf(placed)
  BY DEF IdsOf, ToSet
<1> QED BY <1>2, <1>3, <1>4 DEF IdsOf

-----------------------------------------------------------------------------
\* Totals.

\* What one placed entry adds to cell c.
Amount(q, c) == IF CellOf(q.date, q.entry) = c THEN q.entry.duration ELSE 0

LEMMA AmountIsNat ==
  ASSUME NEW q \in PlacedAt, NEW c
  PROVE  Amount(q, c) \in Nat
BY DEF PlacedAt, Committed, Amount

\* Total as a running sum.
LEMMA TotalRuns ==
  ASSUME NEW s \in Seq(PlacedAt), NEW c
  PROVE  \E p \in [0..Len(s) -> Nat] :
           /\ p[0] = 0
           /\ \A i \in 1..Len(s) : p[i] = p[i - 1] + Amount(s[i], c)
           /\ Total(s, c) = p[Len(s)]
<1> DEFINE N == Len(s)
           h == [i \in Nat |-> [q \in Nat |->
                   IF i \in 1..N THEN q + Amount(s[i], c) ELSE 0]]
<1>1. N \in Nat /\ \A i \in 1..N : s[i] \in PlacedAt
  OBVIOUS
<1>2. \A i \in 1..N : Amount(s[i], c) \in Nat
  BY <1>1, AmountIsNat
<1> HIDE DEF N
<1>3. h \in [Nat -> [Nat -> Nat]]
  BY <1>2
<1>4. PICK p \in [0..N -> Nat] : IsRun(p, 0, h, N)
  <2> HIDE DEF h
  <2> QED BY <1>1, <1>3, PrimitiveRecursion
<1>5. p[0] = 0 /\ \A i \in 1..N : p[i] = p[i - 1] + Amount(s[i], c)
  <2>1. p[0] = 0
    BY <1>4 DEF IsRun
  <2>2. ASSUME NEW i \in 1..N
        PROVE  p[i] = p[i - 1] + Amount(s[i], c)
    <3>1. i \in Nat /\ p[i - 1] \in Nat
      BY <1>1
    <3>2. p[i] = h[i][p[i - 1]]
      <4> HIDE DEF h
      <4> QED BY <1>4 DEF IsRun
    <3> QED BY <3>1, <3>2
  <2> QED BY <2>1, <2>2
<1> HIDE DEF h
<1> DEFINE Runs(f) == f = [k \in 0..N |->
             IF k = 0 THEN 0
             ELSE IF CellOf(s[k].date, s[k].entry) = c
                    THEN f[k - 1] + s[k].entry.duration ELSE f[k - 1]]
           g == CHOOSE f : Runs(f)
<1>6. Total(s, c) = g[N]
  BY DEF Total, N
<1>7. \A k \in 1..N : p[k] = IF CellOf(s[k].date, s[k].entry) = c
                               THEN p[k - 1] + s[k].entry.duration ELSE p[k - 1]
  <2> TAKE k \in 1..N
  <2>1. p[k] = p[k - 1] + Amount(s[k], c)
    BY <1>5
  <2>2. k - 1 \in 0..N
    BY <1>1
  <2>3. p[k - 1] \in Nat
    BY <2>2
  <2> QED BY <2>1, <2>3 DEF Amount
<1>8. Runs(p)
  <2>1. \A k \in 0..N : k # 0 => k \in 1..N
    BY <1>1
  <2>2. p = [k \in 0..N |-> p[k]]
    OBVIOUS
  <2> QED BY <1>5, <1>7, <2>1, <2>2
<1>9. Runs(g)
  <2> HIDE DEF Runs
  <2> QED BY <1>8
<1> DEFINE T == {i \in Nat : i \in 0..N => g[i] = p[i]}
<1>10. g[0] = 0
  <2> HIDE DEF g
  <2>1. 0 \in 0..N
    BY <1>1
  <2> QED BY <1>9, <2>1
<1>11. \A k \in 1..N : g[k] = IF CellOf(s[k].date, s[k].entry) = c
                                THEN g[k - 1] + s[k].entry.duration ELSE g[k - 1]
  <2> HIDE DEF g
  <2>1. \A k \in 1..N : k # 0 /\ k \in 0..N
    BY <1>1
  <2> QED BY <1>9, <2>1
<1> HIDE DEF g
<1>12. T = Nat
  <2>1. 0 \in T
    BY <1>5, <1>10
  <2>2. ASSUME NEW i \in T
        PROVE  i + 1 \in T
    <3>1. i + 1 \in 0..N => i + 1 \in 1..N /\ i \in 0..N /\ (i + 1) - 1 = i
      BY <1>1
    <3>2. i + 1 \in 0..N => g[i] = p[i]
      BY <3>1
    <3>3. i + 1 \in 0..N => g[i + 1] = p[i + 1]
      BY <1>7, <1>11, <3>1, <3>2
    <3> QED BY <3>3
  <2>3. T \in SUBSET Nat
    OBVIOUS
  <2> HIDE DEF T
  <2> QED BY <2>1, <2>2, <2>3, Induction
<1>13. g[N] = p[N]
  <2>1. N \in T /\ N \in 0..N
    BY <1>1, <1>12
  <2> QED BY <2>1
<1> QED BY <1>5, <1>6, <1>13 DEF N

LEMMA TotalIsNat ==
  ASSUME NEW s \in Seq(PlacedAt), NEW c
  PROVE  Total(s, c) \in Nat
<1>1. PICK p \in [0..Len(s) -> Nat] : Total(s, c) = p[Len(s)]
  BY TotalRuns
<1> QED BY <1>1

\* Totals add up.
LEMMA TotalConcat ==
  ASSUME NEW a \in Seq(PlacedAt), NEW b \in Seq(PlacedAt), NEW c
  PROVE  Total(a \o b, c) = Total(a, c) + Total(b, c)
<1> PICK ab : ab = a \o b
  OBVIOUS
<1>1. ab \in Seq(PlacedAt) /\ Joined(a, b, ab)
  BY ConcatParts
<1> DEFINE M == Len(a)
           N == Len(b)
<1>2. /\ M \in Nat /\ N \in Nat /\ Len(ab) = M + N
      /\ \A i \in 1..M : ab[i] = a[i]
      /\ \A j \in 1..N : ab[M + j] = b[j] /\ b[j] \in PlacedAt
  <2>1. \A j \in 1..N : b[j] \in PlacedAt
    OBVIOUS
  <2> QED BY <1>1, <2>1 DEF Joined
<1>3. PICK p \in [0..M -> Nat] :
        /\ p[0] = 0
        /\ \A i \in 1..M : p[i] = p[i - 1] + Amount(a[i], c)
        /\ Total(a, c) = p[M]
  BY TotalRuns
<1>4. PICK q \in [0..N -> Nat] :
        /\ q[0] = 0
        /\ \A i \in 1..N : q[i] = q[i - 1] + Amount(b[i], c)
        /\ Total(b, c) = q[N]
  BY TotalRuns
<1> HIDE DEF M, N
<1>5. PICK r \in [0..(M + N) -> Nat] :
        /\ r[0] = 0
        /\ \A i \in 1..(M + N) : r[i] = r[i - 1] + Amount(ab[i], c)
        /\ Total(ab, c) = r[M + N]
  <2>1. PICK r \in [0..Len(ab) -> Nat] :
          /\ r[0] = 0
          /\ \A i \in 1..Len(ab) : r[i] = r[i - 1] + Amount(ab[i], c)
          /\ Total(ab, c) = r[Len(ab)]
    BY <1>1, TotalRuns
  <2> QED BY <1>2, <2>1
<1> DEFINE T == {i \in Nat : i <= M => r[i] = p[i]}
           U == {j \in Nat : j <= N => r[M + j] = p[M] + q[j]}
<1>6. T = Nat
  <2>1. 0 \in T
    BY <1>3, <1>5
  <2>2. ASSUME NEW i \in T
        PROVE  i + 1 \in T
    <3> SUFFICES ASSUME i + 1 <= M PROVE r[i + 1] = p[i + 1]
      OBVIOUS
    <3>1. i + 1 \in 1..M /\ i + 1 \in 1..(M + N) /\ (i + 1) - 1 = i /\ i <= M
      BY <1>2
    <3>2. r[i + 1] = r[i] + Amount(ab[i + 1], c)
      BY <1>5, <3>1
    <3>3. p[i + 1] = p[i] + Amount(a[i + 1], c)
      BY <1>3, <3>1
    <3> QED BY <1>2, <3>1, <3>2, <3>3
  <2>3. T \in SUBSET Nat
    OBVIOUS
  <2> HIDE DEF T
  <2> QED BY <2>1, <2>2, <2>3, Induction
<1>7. r[M] = p[M] /\ p[M] \in Nat
  <2>1. M \in T
    BY <1>2, <1>6
  <2> QED BY <1>2, <2>1
<1>8. U = Nat
  <2>1. 0 \in U
    BY <1>2, <1>4, <1>7
  <2>2. ASSUME NEW j \in U
        PROVE  j + 1 \in U
    <3>0. j \in Nat /\ j + 1 \in Nat
      OBVIOUS
    <3> SUFFICES ASSUME j + 1 <= N PROVE r[M + (j + 1)] = p[M] + q[j + 1]
      BY <3>0
    <3>1. /\ j + 1 \in 1..N /\ M + (j + 1) \in 1..(M + N)
          /\ (j + 1) - 1 = j /\ (M + (j + 1)) - 1 = M + j /\ j <= N /\ j \in 0..N
      BY <1>2
    <3>2. r[M + (j + 1)] = r[M + j] + Amount(ab[M + (j + 1)], c)
      BY <1>5, <3>1
    <3>3. ab[M + (j + 1)] = b[j + 1] /\ Amount(b[j + 1], c) \in Nat
      BY <1>2, <3>1, AmountIsNat
    <3>4. q[j + 1] = q[j] + Amount(b[j + 1], c)
      BY <1>4, <3>1
    <3>5. r[M + j] = p[M] + q[j] /\ q[j] \in Nat
      BY <3>1
    <3> QED BY <1>7, <3>2, <3>3, <3>4, <3>5
  <2>3. U \in SUBSET Nat
    OBVIOUS
  <2> HIDE DEF U
  <2> QED BY <2>1, <2>2, <2>3, Induction
<1>9. r[M + N] = p[M] + q[N]
  <2>1. N \in U
    BY <1>2, <1>8
  <2> QED BY <1>2, <2>1
<1> QED BY <1>3, <1>4, <1>5, <1>9

LEMMA TotalNone == \A c : Total(<<>>, c) = 0
<1> TAKE c
<1>1. <<>> \in Seq(PlacedAt) /\ Len(<<>>) = 0
  OBVIOUS
<1>2. PICK p \in [0..0 -> Nat] : p[0] = 0 /\ Total(<<>>, c) = p[0]
  <2>1. PICK p \in [0..Len(<<>>) -> Nat] : p[0] = 0 /\ Total(<<>>, c) = p[Len(<<>>)]
    BY <1>1, TotalRuns
  <2> QED BY <1>1, <2>1
<1> QED BY <1>2

LEMMA TotalOne ==
  ASSUME NEW q \in PlacedAt, NEW c
  PROVE  Total(<<q>>, c) = Amount(q, c)
<1>1. <<q>> \in Seq(PlacedAt) /\ Len(<<q>>) = 1 /\ <<q>>[1] = q /\ 1 \in 1..1 /\ 1 - 1 = 0
  OBVIOUS
<1>2. PICK p \in [0..Len(<<q>>) -> Nat] :
        /\ p[0] = 0
        /\ \A i \in 1..Len(<<q>>) : p[i] = p[i - 1] + Amount(<<q>>[i], c)
        /\ Total(<<q>>, c) = p[Len(<<q>>)]
  BY <1>1, TotalRuns
<1>3. p[1] = p[0] + Amount(q, c)
  BY <1>1, <1>2
<1>4. Amount(q, c) \in Nat
  BY AmountIsNat
<1> QED BY <1>1, <1>2, <1>3, <1>4

\* One more of a list of entries, none of it and all of it.
LEMMA TotalPrefix ==
  ASSUME NEW s \in Seq(PlacedAt), NEW c
  PROVE  /\ Total(SubSeq(s, 1, 0), c) = 0
         /\ SubSeq(s, 1, Len(s)) = s
         /\ \A k \in 0..Len(s) : /\ Total(SubSeq(s, 1, k), c) \in Nat
                                 /\ Total(SubSeq(s, 1, k), c) <= Total(s, c)
         /\ \A k \in 0..(Len(s) - 1) :
              Total(SubSeq(s, 1, k + 1), c) = Total(SubSeq(s, 1, k), c) + Amount(s[k + 1], c)
<1>1. SubSeq(s, 1, 0) = <<>>
  OBVIOUS
<1>2. SubSeq(s, 1, Len(s)) = s
  OBVIOUS
<1>3. ASSUME NEW k \in 0..Len(s)
      PROVE  /\ Total(SubSeq(s, 1, k), c) \in Nat
             /\ Total(SubSeq(s, 1, k), c) <= Total(s, c)
  <2> DEFINE x == SubSeq(s, 1, k)
             y == SubSeq(s, k + 1, Len(s))
  <2>1. x \in Seq(PlacedAt) /\ y \in Seq(PlacedAt) /\ s = x \o y
    BY SplitAt
  <2> HIDE DEF x, y
  <2>2. Total(x, c) \in Nat /\ Total(y, c) \in Nat
    BY <2>1, TotalIsNat
  <2>3. Total(x \o y, c) = Total(x, c) + Total(y, c)
    BY <2>1, TotalConcat
  <2>4. Total(s, c) = Total(x, c) + Total(y, c)
    BY <2>1, <2>3
  <2>5. Total(x, c) \in Nat /\ Total(x, c) <= Total(s, c)
    BY <2>2, <2>4
  <2> QED BY <2>5 DEF x
<1>4. ASSUME NEW k \in 0..(Len(s) - 1)
      PROVE  Total(SubSeq(s, 1, k + 1), c) = Total(SubSeq(s, 1, k), c) + Amount(s[k + 1], c)
  <2> DEFINE x == SubSeq(s, 1, k)
             q == s[k + 1]
             z == SubSeq(s, 1, k + 1)
  <2>1. k + 1 \in 1..Len(s) /\ k \in Nat
    OBVIOUS
  <2>2. x \in Seq(PlacedAt) /\ q \in PlacedAt /\ <<q>> \in Seq(PlacedAt)
    BY <2>1
  <2>3. z = x \o <<q>>
    BY <2>1
  <2> HIDE DEF x, q, z
  <2>4. Total(x \o <<q>>, c) = Total(x, c) + Amount(q, c)
    <3>1. Total(<<q>>, c) = Amount(q, c)
      BY <2>2, TotalOne
    <3> DEFINE y == <<q>>
    <3>2. y \in Seq(PlacedAt) /\ Total(y, c) = Amount(q, c)
      BY <2>2, <3>1
    <3> HIDE DEF y
    <3>3. Total(x \o y, c) = Total(x, c) + Total(y, c)
      BY <2>2, <3>2, TotalConcat
    <3> QED BY <3>2, <3>3 DEF y
  <2> QED BY <2>3, <2>4 DEF x, q, z
<1> QED BY <1>1, <1>2, <1>3, <1>4, TotalNone

-----------------------------------------------------------------------------
\* Which block may follow which.

Fits(p, b) ==
  /\ IsDay(p) /\ IsDay(b) => ~(Month(b.date) > Month(p.date))
  /\ IsSummary(b) /\ b.kind = p.kind => b.closes # p.closes

AllFit(s) == \A i \in 2..Len(s) : Fits(s[i - 1], s[i])

LEMMA BlockFacts ==
  ASSUME NEW b \in Block
  PROVE  b.date \in Nat /\ b.closes \in Int
<1>1. CASE b \in DayBlk
  <2>1. b.date \in Dates /\ b.closes = 0
    BY <1>1 DEF DayBlk
  <2>2. Dates \subseteq Nat
    BY DatesAssumption
  <2>3. b.closes \in Int
    BY <2>1
  <2> QED BY <2>1, <2>2, <2>3
<1>2. CASE b \in Summary
  BY <1>2 DEF Summary
<1>3. CASE b = Genesis(FirstDate)
  BY <1>3, DatesAssumption DEF Genesis
<1> QED BY <1>1, <1>2, <1>3 DEF Block

\* The blocks of a ledger, after a genesis block.
Chain(s) ==
  /\ s \in Seq(Block) /\ Len(s) >= 1 /\ s[1] = Genesis(FirstDate)
  /\ \A i \in 2..Len(s) : s[i] \in DayBlk \cup Summary

LEMMA FitAppend ==
  ASSUME NEW s \in Seq(Block), NEW b \in Block, Len(s) >= 1
  PROVE  AllFit(Append(s, b)) <=> AllFit(s) /\ Fits(Last(s), b)
<1> DEFINE t == Append(s, b)
           n == Len(s)
<1>1. /\ n \in Nat /\ n >= 1 /\ Len(t) = n + 1 /\ t[n + 1] = b
      /\ \A i \in 1..n : t[i] = s[i]
  OBVIOUS
<1>2. Last(s) = s[n]
  BY DEF Last
<1> HIDE DEF t, n
<1>3. ASSUME AllFit(t)
      PROVE  AllFit(s) /\ Fits(s[n], b)
  <2>1. ASSUME NEW i \in 2..n
        PROVE  Fits(s[i - 1], s[i])
    <3>1. i \in 2..(n + 1) /\ i \in 1..n /\ i - 1 \in 1..n
      BY <1>1
    <3>2. Fits(t[i - 1], t[i])
      BY <1>1, <1>3, <3>1 DEF AllFit
    <3> QED BY <1>1, <3>1, <3>2
  <2>2. Fits(s[n], b)
    <3>1. n + 1 \in 2..(n + 1) /\ (n + 1) - 1 = n /\ n \in 1..n
      BY <1>1
    <3>2. Fits(t[(n + 1) - 1], t[n + 1])
      BY <1>1, <1>3, <3>1 DEF AllFit
    <3> QED BY <1>1, <3>1, <3>2
  <2> QED BY <2>1, <2>2 DEF AllFit, n
<1>4. ASSUME AllFit(s), Fits(s[n], b)
      PROVE  AllFit(t)
  <2> SUFFICES ASSUME NEW i \in 2..(n + 1) PROVE Fits(t[i - 1], t[i])
    BY <1>1 DEF AllFit
  <2>1. CASE i = n + 1
    <3>1. i - 1 = n /\ n \in 1..n
      BY <1>1, <2>1
    <3> QED BY <1>1, <1>4, <2>1, <3>1
  <2>2. CASE i # n + 1
    <3>1. i \in 2..n /\ i \in 1..n /\ i - 1 \in 1..n
      BY <1>1, <2>2
    <3>2. Fits(s[i - 1], s[i])
      BY <1>4, <3>1 DEF AllFit, n
    <3> QED BY <1>1, <3>1, <3>2
  <2> QED BY <2>1, <2>2
<1> QED BY <1>2, <1>3, <1>4 DEF t

LEMMA FitPrefix ==
  ASSUME NEW s \in Seq(Block), NEW n \in 0..Len(s), AllFit(s)
  PROVE  AllFit(SubSeq(s, 1, n))
<1> DEFINE t == SubSeq(s, 1, n)
<1>1. Len(t) = n /\ (\A i \in 1..n : t[i] = s[i]) /\ n \in Nat /\ n <= Len(s) /\ Len(s) \in Nat
  OBVIOUS
<1> HIDE DEF t
<1>2. ASSUME NEW i \in 2..n
      PROVE  Fits(t[i - 1], t[i])
  <2>1. i \in 2..Len(s) /\ i \in 1..n /\ i - 1 \in 1..n
    BY <1>1
  <2>2. Fits(s[i - 1], s[i])
    BY <2>1 DEF AllFit
  <2> QED BY <1>1, <2>1, <2>2
<1>3. AllFit(t)
  BY <1>1, <1>2 DEF AllFit
<1> QED BY <1>3 DEF t

LEMMA ChainAppend ==
  ASSUME NEW s, Chain(s), NEW b \in DayBlk \cup Summary
  PROVE  /\ Chain(Append(s, b))
         /\ Last(s) \in Block
         /\ Last(Append(s, b)) = b
<1> DEFINE t == Append(s, b)
           n == Len(s)
<1>1. s \in Seq(Block) /\ n \in Nat /\ n >= 1 /\ b \in Block
  BY DEF Chain, Block
<1>2. t \in Seq(Block) /\ Len(t) = n + 1 /\ t[n + 1] = b /\ \A i \in 1..n : t[i] = s[i]
  BY <1>1
<1>3. s[n] \in Block /\ Last(s) = s[n] /\ Last(t) = t[n + 1]
  BY <1>1, <1>2 DEF Last
<1> HIDE DEF t, n
<1>4. t[1] = Genesis(FirstDate)
  <2>1. 1 \in 1..n
    BY <1>1
  <2> QED BY <1>2, <2>1 DEF Chain
<1>5. ASSUME NEW i \in 2..(n + 1)
      PROVE  t[i] \in DayBlk \cup Summary
  <2>1. CASE i = n + 1
    BY <1>2, <2>1
  <2>2. CASE i # n + 1
    <3>1. i \in 2..n /\ i \in 1..n
      BY <1>1, <2>2
    <3> QED BY <1>2, <3>1 DEF Chain, n
  <2> QED BY <2>1, <2>2
<1>6. Chain(t)
  BY <1>1, <1>2, <1>4, <1>5 DEF Chain
<1> QED BY <1>2, <1>3, <1>6 DEF t

LEMMA ChainPrefix ==
  ASSUME NEW s, Chain(s), NEW n \in 1..Len(s)
  PROVE  Chain(SubSeq(s, 1, n))
<1> DEFINE t == SubSeq(s, 1, n)
<1>1. s \in Seq(Block) /\ Len(s) \in Nat
  BY DEF Chain
<1>2. t \in Seq(Block) /\ Len(t) = n /\ (\A i \in 1..n : t[i] = s[i]) /\ n >= 1
  BY <1>1
<1> HIDE DEF t
<1>3. 1 \in 1..n /\ \A i \in 2..n : i \in 1..n /\ i \in 2..Len(s)
  BY <1>1
<1>4. Chain(t)
  BY <1>2, <1>3 DEF Chain
<1> QED BY <1>4 DEF t

\* What the summary policy puts between a block and a day fits.
Between(p, sums, day) ==
  /\ sums \in Seq(Summary)
  /\ \/ sums = <<>> /\ Fits(p, day)
     \/ Len(sums) = 1 /\ Fits(p, sums[1]) /\ Fits(sums[1], day)
     \/ Len(sums) = 2 /\ Fits(p, sums[1]) /\ Fits(sums[1], sums[2]) /\ Fits(sums[2], day)

LEMMA BetweenLists ==
  ASSUME NEW p, NEW day \in DayBlk, NEW y \in Summary, NEW m \in Summary,
         y.kind = "year_summary", m.kind = "month_summary",
         NEW hasYear \in BOOLEAN, NEW hasMonth \in BOOLEAN,
         hasYear => Fits(p, y), hasMonth /\ ~hasYear => Fits(p, m),
         ~hasYear /\ ~hasMonth => Fits(p, day)
  PROVE  Between(p, (IF hasYear THEN <<y>> ELSE <<>>) \o (IF hasMonth THEN <<m>> ELSE <<>>), day)
<1>1. Fits(y, day) /\ Fits(m, day) /\ Fits(y, m)
  BY DEF Fits, IsDay, IsSummary, DayBlk
<1>2. CASE hasYear /\ hasMonth
  <2>1. <<y>> \o <<m>> = <<y, m>>
    BY PairConcat
  <2>2. <<y, m>> \in Seq(Summary) /\ Len(<<y, m>>) = 2
    OBVIOUS
  <2> QED BY <1>1, <1>2, <2>1, <2>2 DEF Between
<1>3. CASE hasYear /\ ~hasMonth
  <2>1. <<y>> \o <<>> = <<y>>
    OBVIOUS
  <2>2. <<y>> \in Seq(Summary) /\ Len(<<y>>) = 1
    OBVIOUS
  <2> QED BY <1>1, <1>3, <2>1, <2>2 DEF Between
<1>4. CASE ~hasYear /\ hasMonth
  <2>1. <<>> \o <<m>> = <<m>>
    OBVIOUS
  <2>2. <<m>> \in Seq(Summary) /\ Len(<<m>>) = 1
    OBVIOUS
  <2> QED BY <1>1, <1>4, <2>1, <2>2 DEF Between
<1>5. CASE ~hasYear /\ ~hasMonth
  <2>1. <<>> \o <<>> = <<>>
    OBVIOUS
  <2>2. <<>> \in Seq(Summary)
    OBVIOUS
  <2> QED BY <1>5, <2>1, <2>2 DEF Between
<1> QED BY <1>2, <1>3, <1>4, <1>5

\* Months and years of days.
LEMMA MonthsAndYears ==
  ASSUME NEW a \in Nat, NEW b \in Nat
  PROVE  /\ Month(a) \in Nat /\ Year(a) \in Nat /\ Year(a) = Month(a) \div 12
         /\ Month(b) > Month(a) =>
              \/ Year(b) > Year(a)
              \/ MonthOfYear(Month(b)) > MonthOfYear(Month(a))
<1>1. Month(a) \in Nat /\ Month(b) \in Nat /\ Year(a) \in Nat /\ Year(b) \in Nat
  BY DEF Month, Year
<1>2. Year(a) = Month(a) \div 12 /\ Year(b) = Month(b) \div 12
  BY DEF Month, Year
<1>3. \A x, y \in Nat : x > y /\ ~(x \div 12 > y \div 12) => x % 12 > y % 12
  OBVIOUS
<1> QED BY <1>1, <1>2, <1>3 DEF MonthOfYear

\* YearMonthSummaryPolicy.
LEMMA SummariesBetween ==
  ASSUME NEW p \in Block, NEW day \in DayBlk
  PROVE  Between(p, Summaries(p, day.date), day)
<1> DEFINE date == day.date
           was == EffectiveMonth(p)
           closing == Month(date) - 1
           y == YearSummary(was \div 12, date)
           m == MonthSummary(closing, date)
           hasYear == YearGrew(p, date) /\ p.kind # "year_summary"
           changed == \/ MonthOfYear(Month(date)) # MonthOfYear(was)
                      \/ YearGrew(p, date)
           year == IF hasYear THEN <<y>> ELSE <<>>
           covered == year # <<>> /\ MonthOfYear(closing) = 11
           hasMonth == changed /\ ~Repeated(p, date) /\ ~covered
<1>1. date \in Nat /\ p.date \in Nat /\ p.closes \in Int
  <2>1. day.date \in Nat
    BY DatesAssumption DEF DayBlk
  <2> QED BY <2>1, BlockFacts
<1>2. was \in Int /\ closing \in Int
  BY <1>1 DEF EffectiveMonth, Month
<1>3. y \in Summary /\ m \in Summary /\ y.kind = "year_summary" /\ m.kind = "month_summary"
      /\ m.closes = closing
  BY <1>1, <1>2 DEF Summary, YearSummary, MonthSummary
<1>4. Summaries(p, date) = year \o (IF hasMonth THEN <<m>> ELSE <<>>)
  BY DEF Summaries
<1>5. hasYear => Fits(p, y)
  BY <1>3 DEF Fits, IsDay
<1>6. hasMonth => Fits(p, m)
  BY <1>3 DEF Fits, IsDay, Repeated
<1>7. ~hasYear /\ ~hasMonth => Fits(p, day)
  <2> SUFFICES ASSUME ~hasYear, ~hasMonth, IsDay(p), Month(date) > Month(p.date) PROVE FALSE
    BY DEF Fits, IsSummary, DayBlk
  <2>1. was = Month(p.date) /\ p.kind = "day"
    BY DEF EffectiveMonth, IsDay
  <2>2. YearGrew(p, date) <=> Year(date) > Year(p.date)
    BY <1>1, <2>1, MonthsAndYears DEF YearGrew
  <2>3. MonthOfYear(Month(date)) \in Int /\ MonthOfYear(was) \in Int
    BY <1>1, <1>2, MonthsAndYears DEF MonthOfYear
  <2>4. changed
    BY <1>1, <2>1, <2>2, <2>3, MonthsAndYears
  <2>5. ~Repeated(p, date)
    BY <2>1 DEF Repeated
  <2>6. year = <<>>
    OBVIOUS
  <2> QED BY <2>4, <2>5, <2>6
<1>8. hasYear \in BOOLEAN /\ hasMonth \in BOOLEAN
  BY DEF YearGrew, Repeated
<1> HIDE DEF y, m, hasYear, hasMonth
<1> QED BY <1>3, <1>4, <1>5, <1>6, <1>7, <1>8, BetweenLists

\* The summaries of version 0.3.0.
LEMMA LegacyBetween ==
  ASSUME NEW p \in Block, NEW day \in DayBlk
  PROVE  Between(p, LegacySummaries(p, day.date), day)
<1> DEFINE date == day.date
           y == YearSummary(Year(p.date), date)
           m == MonthSummary(Month(p.date), date)
           hasYear == Year(date) > Year(p.date) /\ p.kind # "year_summary"
           year == IF hasYear THEN <<y>> ELSE <<>>
           last == IF year = <<>> THEN p ELSE year[1]
           hasMonth == /\ MonthOfYear(Month(date)) > MonthOfYear(Month(p.date))
                       /\ last.kind # "month_summary"
<1>1. date \in Nat /\ p.date \in Nat
  <2>1. day.date \in Nat
    BY DatesAssumption DEF DayBlk
  <2> QED BY <2>1, BlockFacts
<1>2. Month(p.date) \in Nat /\ Year(p.date) \in Nat
  BY <1>1 DEF Month, Year
<1>3. y \in Summary /\ m \in Summary /\ y.kind = "year_summary" /\ m.kind = "month_summary"
  BY <1>1, <1>2 DEF Summary, YearSummary, MonthSummary
<1>4. LegacySummaries(p, date) = year \o (IF hasMonth THEN <<m>> ELSE <<>>)
  BY DEF LegacySummaries
<1>5. hasYear => Fits(p, y)
  BY <1>3 DEF Fits, IsDay
<1>6. hasMonth /\ ~hasYear => Fits(p, m)
  BY <1>3 DEF Fits, IsDay
<1>7. ~hasYear /\ ~hasMonth => Fits(p, day)
  <2> SUFFICES ASSUME ~hasYear, ~hasMonth, IsDay(p), Month(date) > Month(p.date) PROVE FALSE
    BY DEF Fits, IsSummary, DayBlk
  <2>1. p.kind = "day" /\ year = <<>>
    BY DEF IsDay
  <2>2. last = p
    BY <2>1
  <2> QED BY <1>1, <2>1, <2>2, MonthsAndYears
<1>8. hasYear \in BOOLEAN /\ hasMonth \in BOOLEAN
  OBVIOUS
<1> HIDE DEF y, m, hasYear, hasMonth
<1> QED BY <1>3, <1>4, <1>5, <1>6, <1>7, <1>8, BetweenLists

-----------------------------------------------------------------------------
\* Staged entries, and the day blocks made of them.

StagedOnce(st) == \A i, j \in DOMAIN st : st[i].id = st[j].id => i = j

LEMMA PickedIds ==
  ASSUME NEW st \in Seq(Staged), NEW P \in SUBSET DOMAIN st
  PROVE  /\ Picked(st, P) \in Seq(Staged)
         /\ Ids(Picked(st, P)) = {st[i].id : i \in P}
         /\ StagedOnce(st) => StagedOnce(Picked(st, P))
<1> DEFINE w == Picked(st, P)
           A == Ascending(P)
           n == Cardinality(P)
<1>1. /\ w \in Seq(Staged) /\ n \in Nat /\ DOMAIN w = 1..n
      /\ \A k \in 1..n : w[k] = st[A[k]] /\ A[k] \in P
      /\ \A i, j \in 1..n : i # j => A[i] # A[j]
      /\ \A x \in P : \E k \in 1..n : A[k] = x /\ w[k] = st[x]
  BY PickedIsSeq
<1> HIDE DEF w, A, n
<1>2. Ids(w) = {st[i].id : i \in P}
  <2>1. \A x \in Ids(w) : x \in {st[i].id : i \in P}
    BY <1>1 DEF Ids
  <2>2. ASSUME NEW i \in P
        PROVE  st[i].id \in Ids(w)
    <3>1. PICK k \in 1..n : w[k] = st[i]
      BY <1>1
    <3> QED BY <1>1, <3>1 DEF Ids
  <2> QED BY <2>1, <2>2
<1>3. ASSUME StagedOnce(st), NEW i \in 1..n, NEW j \in 1..n, w[i].id = w[j].id
      PROVE  i = j
  <2>1. st[A[i]].id = st[A[j]].id /\ A[i] \in DOMAIN st /\ A[j] \in DOMAIN st
    BY <1>1, <1>3
  <2>2. A[i] = A[j]
    BY <1>3, <2>1 DEF StagedOnce
  <2> QED BY <1>1, <2>2
<1>4. StagedOnce(st) => StagedOnce(w)
  BY <1>1, <1>3 DEF StagedOnce
<1> QED BY <1>1, <1>2, <1>4 DEF w

\* The ids placed by blocks are those of each of them.
LEMMA PlacedIds ==
  ASSUME NEW s \in Seq(Block)
  PROVE  /\ \A x : x \in IdsOf(Placed(s)) <=> \E k \in 1..Len(s) : x \in IdsOf(Dated(s[k]))
         /\ /\ \A k \in 1..Len(s) : OnceIn(Dated(s[k]))
            /\ \A k, m \in 1..Len(s) : k < m => IdsOf(Dated(s[k])) \cap IdsOf(Dated(s[m])) = {}
            => OnceIn(Placed(s))
<1> DEFINE N == Len(s)
           Apart == /\ \A k \in 1..N : OnceIn(Dated(s[k]))
                    /\ \A k, m \in 1..N : k < m => IdsOf(Dated(s[k])) \cap IdsOf(Dated(s[m])) = {}
           part(n) == SubSeq(s, 1, n)
           Holds(n) ==
             /\ \A x : x \in IdsOf(Placed(part(n))) <=> \E k \in 1..n : x \in IdsOf(Dated(s[k]))
             /\ Apart => OnceIn(Placed(part(n)))
           T == {n \in Nat : n <= N => Holds(n)}
<1>1. N \in Nat /\ \A k \in 1..N : s[k] \in Block
  OBVIOUS
<1>2. 0 \in T
  <2>1. part(0) = <<>>
    OBVIOUS
  <2>2. Placed(part(0)) = <<>>
    <3>1. Genesis(FirstDate) \in Block
      BY DEF Block
    <3> QED BY <2>1, <3>1, PlacedSmall
  <2>3. ~ \E k \in 1..0 : TRUE
    OBVIOUS
  <2> HIDE DEF part, Apart
  <2>4. Holds(0)
    BY <2>2, <2>3, IdsNone
  <2> QED BY <2>4
<1>3. ASSUME NEW n \in T
      PROVE  n + 1 \in T
  <2>0. n \in Nat /\ n + 1 \in Nat
    OBVIOUS
  <2> SUFFICES ASSUME n + 1 <= N PROVE Holds(n + 1)
    BY <2>0
  <2>1. n + 1 \in 1..N /\ n \in 0..N /\ n <= N
    BY <1>1, <2>0
  <2>2. Holds(n)
    <3> HIDE DEF Holds
    <3> QED BY <2>1
  <2>3. part(n) \in Seq(Block) /\ part(n + 1) = Append(part(n), s[n + 1])
    BY <2>0, <2>1
  <2>4. s[n + 1] \in Block
    BY <1>1, <2>1
  <2> DEFINE d == Dated(s[n + 1])
             p == Placed(part(n))
             q == Placed(part(n + 1))
  <2>5. d \in Seq(PlacedAt) /\ p \in Seq(PlacedAt)
    BY <2>3, <2>4, DatedIsSeq, PlacedConcat
  <2>6. q = p \o d
    BY <2>3, <2>4, PlacedAppend
  <2> HIDE DEF p, q, part
  <2>7. /\ IdsOf(q) = IdsOf(p) \cup IdsOf(d)
        /\ OnceIn(p) /\ OnceIn(d) /\ IdsOf(p) \cap IdsOf(d) = {} => OnceIn(q)
    <3> HIDE DEF d
    <3> QED BY <2>5, <2>6, IdsConcat
  <2>8. /\ \A x : x \in IdsOf(p) <=> \E k \in 1..n : x \in IdsOf(Dated(s[k]))
        /\ Apart => OnceIn(p)
    <3> HIDE DEF Apart
    <3> QED BY <2>2 DEF p
  <2>9. \A k : k \in 1..(n + 1) <=> k \in 1..n \/ k = n + 1
    BY <2>0
  <2>10. ASSUME NEW x
         PROVE  x \in IdsOf(q) <=> \E k \in 1..(n + 1) : x \in IdsOf(Dated(s[k]))
    <3>1. x \in IdsOf(q) <=> x \in IdsOf(p) \/ x \in IdsOf(d)
      BY <2>7
    <3>2. (\E k \in 1..(n + 1) : x \in IdsOf(Dated(s[k])))
            <=> (\E k \in 1..n : x \in IdsOf(Dated(s[k]))) \/ x \in IdsOf(Dated(s[n + 1]))
      BY <2>9
    <3> QED BY <2>8, <3>1, <3>2
  <2>11. ASSUME Apart
         PROVE  OnceIn(q)
    <3>1. OnceIn(d)
      BY <2>1, <2>11
    <3>2. ASSUME NEW x, x \in IdsOf(p), x \in IdsOf(d)
          PROVE  FALSE
      <4>1. PICK k \in 1..n : x \in IdsOf(Dated(s[k]))
        BY <2>8, <3>2
      <4>2. k \in 1..N /\ k < n + 1
        BY <1>1, <2>0, <2>1
      <4>3. IdsOf(Dated(s[k])) \cap IdsOf(Dated(s[n + 1])) = {}
        BY <2>1, <2>11, <4>2
      <4> QED BY <3>2, <4>1, <4>3
    <3>3. OnceIn(p)
      <4> HIDE DEF Apart
      <4> QED BY <2>8, <2>11
    <3>4. IdsOf(p) \cap IdsOf(d) = {}
      BY <3>2
    <3> QED BY <2>7, <3>1, <3>3, <3>4
  <2> HIDE DEF Apart
  <2> QED BY <2>10, <2>11 DEF q
<1>4. T = Nat
  <2>1. T \in SUBSET Nat
    OBVIOUS
  <2> HIDE DEF T
  <2> QED BY <1>2, <1>3, <2>1, Induction
<1>5. Holds(N)
  <2>1. N \in T
    BY <1>1, <1>4
  <2> HIDE DEF Holds
  <2> QED BY <1>1, <2>1
<1>6. part(N) = s
  BY SubSeqFull
<1> HIDE DEF part
<1> QED BY <1>5, <1>6

\* The entries of days taken from staging are the entries that were picked.
LEMMA DaysOfPicked ==
  ASSUME staging \in Seq(Staged), start \in [Captured -> Dates], Ids(staging) \subseteq Captured,
         NEW P \in SUBSET DOMAIN staging, P # {}
  PROVE  /\ DaysOf(P) \in Seq(DayBlk) /\ DaysOf(P) # <<>>
         /\ IdsOf(Placed(DaysOf(P))) = {staging[i].id : i \in P}
         /\ StagedOnce(staging) => OnceIn(Placed(DaysOf(P)))
<1> DEFINE w == Picked(staging, P)
           n == Cardinality(P)
<1>1. /\ w \in Seq(Staged) /\ n \in Nat /\ DOMAIN w = 1..n /\ Len(w) = n
      /\ \A k \in 1..n : w[k] \in Staged
      /\ Ids(w) = {staging[i].id : i \in P}
      /\ StagedOnce(staging) => StagedOnce(w)
  <2>1. w \in Seq(Staged) /\ n \in Nat /\ DOMAIN w = 1..n /\ Len(w) = n
    BY PickedIsSeq
  <2>2. /\ Ids(w) = {staging[i].id : i \in P}
        /\ StagedOnce(staging) => StagedOnce(w)
    BY PickedIds
  <2>3. \A k \in 1..n : w[k] \in Staged
    BY <2>1
  <2> QED BY <2>1, <2>2, <2>3
<1>2. n # 0 /\ n >= 1
  <2>1. IsFiniteSet(P)
    BY PickedIsSeq
  <2>2. n # 0
    BY <2>1, FS_EmptySet
  <2> QED BY <1>1, <2>2
<1> DEFINE day(j) == start[w[j].id]
           S == {day(j) : j \in DOMAIN w}
           dates == Ascending(S)
           Q(k) == {j \in DOMAIN w : day(j) = dates[k]}
           c == Cardinality(S)
<1>3. \A j \in 1..n : day(j) \in Dates
  <2> TAKE j \in 1..n
  <2>1. w[j].id \in Ids(w)
    BY <1>1 DEF Ids
  <2>2. w[j].id \in Captured
    BY <1>1, <2>1 DEF Ids
  <2> QED BY <2>2
<1> HIDE DEF w, n
<1>4. IsFiniteSet(S) /\ S \in SUBSET Dates /\ S \in SUBSET Int
  <2>1. S \in SUBSET Dates
    BY <1>1, <1>3
  <2>2. Dates \subseteq Nat
    BY DatesAssumption
  <2> DEFINE f == [j \in 1..n |-> day(j)]
  <2>3. IsFiniteSet(1..n)
    BY <1>1, FS_Interval
  <2>4. f \in Surjection(1..n, S)
    BY <1>1 DEF Surjection
  <2>5. IsFiniteSet(S)
    <3> HIDE DEF f, S
    <3> QED BY <2>3, <2>4, FS_Surjection
  <2> HIDE DEF S
  <2>6. \A x \in S : x \in Nat
    BY <2>1, <2>2
  <2>7. \A x \in S : x \in Int
    BY <2>6
  <2> QED BY <2>1, <2>5, <2>7
<1>5. /\ c \in Nat /\ DOMAIN dates = 1..c
      /\ \A k \in 1..c : dates[k] \in S
      /\ \A i, j \in 1..c : i < j => dates[i] < dates[j]
      /\ \A x \in S : \E k \in 1..c : dates[k] = x
  <2> HIDE DEF S
  <2> QED BY <1>4, AscendingOrder
<1>6. c # 0 /\ c >= 1
  <2>1. 1 \in DOMAIN w
    BY <1>1, <1>2
  <2>2. S # {}
    BY <2>1
  <2> HIDE DEF S
  <2>3. c # 0
    BY <1>4, <2>2, FS_EmptySet
  <2> QED BY <1>5, <2>3
<1> DEFINE group(k) == Picked(w, Q(k))
           block(k) == DayBlock(dates[k], [j \in DOMAIN group(k) |-> Prepared(group(k)[j])])
           ds == DaysOf(P)
<1>7. ds = [k \in 1..c |-> block(k)]
  <2> DEFINE g == GroupByDate(w, start)
  <2>1. g = [k \in 1..c |-> DayBlock(dates[k], group(k))]
    <3> HIDE DEF c
    <3> QED BY <1>5 DEF GroupByDate
  <2>2. ds = [k \in DOMAIN g |->
                [g[k] EXCEPT !.entries = [j \in DOMAIN @ |-> Prepared(@[j])]]]
    BY DEF DaysOf, w
  <2> HIDE DEF g, c, dates, S, Q
  <2>3. \A k \in 1..c : [g[k] EXCEPT !.entries = [j \in DOMAIN @ |-> Prepared(@[j])]] = block(k)
    BY <2>1 DEF DayBlock
  <2>4. DOMAIN g = 1..c
    BY <2>1
  <2> HIDE DEF block
  <2> QED BY <2>2, <2>3, <2>4
<1> HIDE DEF ds
<1> HIDE DEF S, c, dates
<1>8. ASSUME NEW k \in 1..c
      PROVE  /\ block(k) \in DayBlk
             /\ IdsOf(Dated(block(k))) = {w[j].id : j \in Q(k)}
             /\ StagedOnce(w) => OnceIn(Dated(block(k)))
  <2> DEFINE m == Cardinality(Q(k))
             x == group(k)
             y == [j \in DOMAIN x |-> Prepared(x[j])]
  <2>1. Q(k) \in SUBSET DOMAIN w
    OBVIOUS
  <2>2. x \in Seq(Staged) /\ DOMAIN x = 1..m /\ m \in Nat
    BY <1>1, <2>1, PickedIsSeq
  <2>3. Ids(x) = {w[j].id : j \in Q(k)} /\ (StagedOnce(w) => StagedOnce(x))
    BY <1>1, <2>1, PickedIds
  <2> HIDE DEF x, m, Q
  <2>4. \A j \in 1..m : y[j] = Prepared(x[j]) /\ Prepared(x[j]) \in Committed
                        /\ Prepared(x[j]).id = x[j].id
    <3> TAKE j \in 1..m
    <3>1. x[j] \in Staged
      BY <2>2
    <3>2. x[j].id \in Entry /\ x[j].duration \in Nat
      BY <3>1 DEF Staged
    <3> QED BY <2>2, <3>2 DEF Prepared, Committed
  <2>5. y \in [1..m -> Committed]
    BY <2>2, <2>4
  <2>6. y \in Seq(Committed) /\ Len(y) = m
    <3> HIDE DEF y
    <3> QED BY <2>2, <2>5
  <2>7. dates[k] \in Dates
    BY <1>4, <1>5
  <2>8. block(k) = [kind |-> "day", date |-> dates[k], closes |-> 0, entries |-> y]
    BY DEF DayBlock, x
  <2> HIDE DEF y, block
  <2>9. block(k) \in DayBlk
    BY <2>6, <2>7, <2>8 DEF DayBlk
  <2> DEFINE d == Dated(block(k))
  <2>10. DOMAIN d = 1..m /\ \A j \in 1..m : d[j].entry.id = x[j].id
    <3>1. block(k).entries = y /\ block(k).date = dates[k] /\ DOMAIN y = 1..m
      BY <2>5, <2>8
    <3> QED BY <2>4, <3>1 DEF Dated
  <2> HIDE DEF d
  <2>11. IdsOf(d) = Ids(x)
    <3>1. \A i \in IdsOf(d) : i \in Ids(x)
      BY <2>2, <2>10 DEF IdsOf, Ids
    <3>2. \A i \in Ids(x) : i \in IdsOf(d)
      BY <2>2, <2>10 DEF IdsOf, Ids
    <3> QED BY <3>1, <3>2
  <2>12. StagedOnce(x) => OnceIn(d)
    BY <2>2, <2>10 DEF StagedOnce, OnceIn
  <2> QED BY <2>3, <2>9, <2>11, <2>12 DEF d
<1> HIDE DEF block
<1>9. ds \in Seq(DayBlk) /\ ds # <<>> /\ ds \in Seq(Block) /\ Len(ds) = c
  <2>1. ds \in [1..c -> DayBlk]
    BY <1>7, <1>8
  <2>2. ds \in Seq(DayBlk) /\ Len(ds) = c
    BY <1>5, <2>1
  <2>3. ds # <<>>
    BY <1>6, <2>2
  <2>4. ds \in Seq(Block)
    BY <2>2 DEF Block
  <2> QED BY <2>2, <2>3, <2>4
<1>10. /\ \A x : x \in IdsOf(Placed(ds)) <=> \E k \in 1..c : x \in IdsOf(Dated(ds[k]))
       /\ /\ \A k \in 1..c : OnceIn(Dated(ds[k]))
          /\ \A k, m \in 1..c : k < m => IdsOf(Dated(ds[k])) \cap IdsOf(Dated(ds[m])) = {}
          => OnceIn(Placed(ds))
  BY <1>9, PlacedIds
<1>11. \A k \in 1..c : ds[k] = block(k)
  BY <1>7
<1>12. \A x : x \in IdsOf(Placed(ds)) <=> x \in Ids(w)
  <2> TAKE x
  <2>1. ASSUME x \in IdsOf(Placed(ds)) PROVE x \in Ids(w)
    <3>1. PICK k \in 1..c : x \in IdsOf(Dated(block(k)))
      BY <1>10, <1>11, <2>1
    <3>2. x \in {w[j].id : j \in Q(k)}
      BY <1>8, <3>1
    <3> QED BY <3>2 DEF Ids
  <2>2. ASSUME x \in Ids(w) PROVE x \in IdsOf(Placed(ds))
    <3>1. PICK j \in DOMAIN w : x = w[j].id
      BY <2>2 DEF Ids
    <3>2. day(j) \in S
      BY DEF S
    <3>3. PICK k \in 1..c : dates[k] = day(j)
      BY <1>5, <3>2
    <3>4. j \in Q(k)
      BY <3>3
    <3>5. x \in IdsOf(Dated(block(k)))
      BY <1>8, <3>1, <3>4
    <3> QED BY <1>10, <1>11, <3>5
  <2> QED BY <2>1, <2>2
<1>13. ASSUME StagedOnce(w)
       PROVE  OnceIn(Placed(ds))
  <2>1. \A k \in 1..c : OnceIn(Dated(ds[k]))
    BY <1>8, <1>11, <1>13
  <2>2. ASSUME NEW k \in 1..c, NEW m \in 1..c, k < m, NEW x,
               x \in IdsOf(Dated(ds[k])), x \in IdsOf(Dated(ds[m]))
        PROVE  FALSE
    <3>1. PICK i \in Q(k) : x = w[i].id
      BY <1>8, <1>11, <2>2
    <3>2. PICK j \in Q(m) : x = w[j].id
      BY <1>8, <1>11, <2>2
    <3>3. i = j
      BY <1>13, <3>1, <3>2 DEF StagedOnce
    <3>4. dates[k] = dates[m]
      BY <3>3
    <3>5. dates[k] < dates[m] /\ dates[k] \in Int
      BY <1>4, <1>5, <2>2
    <3> QED BY <3>4, <3>5
  <2> QED BY <1>10, <2>1, <2>2
<1> QED BY <1>1, <1>9, <1>12, <1>13 DEF ds

-----------------------------------------------------------------------------
\* Ledgers that grow by a day and are cut.

LEMMA ChainGrow ==
  ASSUME NEW s, Chain(s), NEW sums, NEW day \in DayBlk, Between(Last(s), sums, day),
         NEW t, t = s \o Append(sums, day)
  PROVE  /\ Chain(t) /\ Last(t) = day
         /\ AllFit(s) => AllFit(t)
         /\ Placed(t) = Placed(s) \o Dated(day)
<1>0. Chain(s) /\ t = s \o Append(sums, day)
  OBVIOUS
<1>1. s \in Seq(Block) /\ Len(s) >= 1 /\ day \in Block /\ sums \in Seq(Summary)
      /\ sums \in Seq(Block)
  BY DEF Chain, Block, Between
<1>2. ASSUME NEW u, Chain(u), AllFit(s) => AllFit(u), Placed(u) = Placed(s),
             Fits(Last(u), day), t = Append(u, day)
      PROVE  /\ Chain(t) /\ Last(t) = day
             /\ AllFit(s) => AllFit(t)
             /\ Placed(t) = Placed(s) \o Dated(day)
  <2>1. u \in Seq(Block) /\ Len(u) >= 1
    BY <1>2 DEF Chain
  <2>2. Chain(t) /\ Last(t) = day
    BY <1>2, ChainAppend
  <2>3. AllFit(u) => AllFit(t)
    BY <1>1, <1>2, <2>1, FitAppend
  <2>4. Placed(t) = Placed(u) \o Dated(day)
    BY <1>1, <1>2, <2>1, PlacedAppend
  <2> QED BY <1>2, <2>2, <2>3, <2>4
<1>3. ASSUME NEW u, Chain(u), AllFit(s) => AllFit(u), Placed(u) = Placed(s),
             NEW b \in Summary, Fits(Last(u), b), NEW v, v = Append(u, b)
      PROVE  /\ Chain(v)
             /\ AllFit(s) => AllFit(v)
             /\ Placed(v) = Placed(s) /\ Last(v) = b
  <2>1. u \in Seq(Block) /\ Len(u) >= 1 /\ b \in Block /\ ~IsDay(b)
    BY <1>3 DEF Chain, Block, Summary, IsDay
  <2>2. Chain(v) /\ Last(v) = b
    BY <1>3, ChainAppend
  <2>3. AllFit(u) => AllFit(v)
    BY <1>3, <2>1, FitAppend
  <2>4. Placed(v) = Placed(u)
    BY <1>3, <2>1, PlacedAppend
  <2> QED BY <1>3, <2>2, <2>3, <2>4
<1>4. CASE sums = <<>> /\ Fits(Last(s), day)
  <2>1. t = Append(s, day)
    <3>1. s \o Append(<<>>, day) = Append(s, day)
      BY <1>1, AppendLast
    <3> QED BY <1>0, <1>4, <3>1
  <2> QED BY <1>2, <1>4, <2>1
<1>5. CASE Len(sums) = 1 /\ Fits(Last(s), sums[1]) /\ Fits(sums[1], day)
  <2>1. sums[1] \in Summary
    <3>1. 1 \in 1..Len(sums)
      BY <1>5
    <3> QED BY <1>1, <3>1
  <2>2. PICK u : u = Append(s, sums[1])
    OBVIOUS
  <2>3. t = Append(u, day)
    <3>1. Same(t, Append(u, day))
      BY <1>0, <1>1, <1>5, <2>2, AppendAfterOne, Zenon
    <3> QED BY <3>1 DEF Same
  <2>4. Chain(u) /\ (AllFit(s) => AllFit(u)) /\ Placed(u) = Placed(s) /\ Last(u) = sums[1]
    BY <1>0, <1>3, <1>5, <2>1, <2>2
  <2> QED BY <1>2, <1>5, <2>3, <2>4
<1>6. CASE Len(sums) = 2 /\ Fits(Last(s), sums[1]) /\ Fits(sums[1], sums[2])
           /\ Fits(sums[2], day)
  <2>1. sums[1] \in Summary /\ sums[2] \in Summary
    <3>1. 1 \in 1..Len(sums) /\ 2 \in 1..Len(sums)
      BY <1>6
    <3> QED BY <1>1, <3>1
  <2>2. PICK u : u = Append(s, sums[1])
    OBVIOUS
  <2>3. PICK v : v = Append(u, sums[2])
    OBVIOUS
  <2>4. t = Append(v, day)
    <3>1. Same(t, Append(v, day))
      BY <1>0, <1>1, <1>6, <2>2, <2>3, AppendAfterTwo, Zenon
    <3> QED BY <3>1 DEF Same
  <2>5. Chain(u) /\ (AllFit(s) => AllFit(u)) /\ Placed(u) = Placed(s) /\ Last(u) = sums[1]
    BY <1>0, <1>3, <1>6, <2>1, <2>2
  <2>6. Chain(v) /\ (AllFit(s) => AllFit(v)) /\ Placed(v) = Placed(s) /\ Last(v) = sums[2]
    BY <1>3, <1>6, <2>1, <2>3, <2>5
  <2> QED BY <1>2, <1>6, <2>4, <2>6
<1> QED BY <1>4, <1>5, <1>6 DEF Between

\* The commit of version 0.3.0.
LEMMA LegacyCommitGrows ==
  ASSUME NEW s, Chain(s), NEW ds \in Seq(DayBlk)
  PROVE  /\ Chain(LegacyCommit(s, ds))
         /\ AllFit(s) => AllFit(LegacyCommit(s, ds))
         /\ Placed(LegacyCommit(s, ds)) = Placed(s) \o Placed(ds)
<1> DEFINE N == Len(ds)
           Y == {x \in Seq(Block) : Chain(x)}
           h == [k \in Nat |-> [x \in Y |-> IF k \in 1..N THEN LegacyAppend(x, ds[k]) ELSE x]]
<1>1. N \in Nat /\ s \in Y /\ ds \in Seq(Block) /\ \A k \in 1..N : ds[k] \in DayBlk /\ ds[k] \in Block
  BY DEF Chain, Block
<1>2. ASSUME NEW x \in Y, NEW d \in DayBlk
      PROVE  /\ LegacyAppend(x, d) \in Y
             /\ AllFit(x) => AllFit(LegacyAppend(x, d))
             /\ Placed(LegacyAppend(x, d)) = Placed(x) \o Dated(d)
  <2>1. Chain(x)
    OBVIOUS
  <2>2. Last(x) \in Block
    BY <2>1, ChainAppend
  <2>21. PICK sums : sums = LegacySummaries(Last(x), d.date)
    OBVIOUS
  <2>3. Between(Last(x), sums, d)
    BY <2>2, <2>21, LegacyBetween
  <2>31. PICK t : t = LegacyAppend(x, d)
    OBVIOUS
  <2>4. t = x \o Append(sums, d)
    BY <2>21, <2>31 DEF LegacyAppend
  <2>5. Chain(t) /\ (AllFit(x) => AllFit(t)) /\ Placed(t) = Placed(x) \o Dated(d)
    BY <2>1, <2>3, <2>4, ChainGrow, ZenonT(30)
  <2>6. t \in Y
    BY <2>5 DEF Chain
  <2> QED BY <2>31, <2>5, <2>6
<1> HIDE DEF N, Y
<1>3. h \in [Nat -> [Y -> Y]]
  BY <1>1, <1>2
<1>4. PICK p \in [0..N -> Y] : IsRun(p, s, h, N)
  <2> HIDE DEF h
  <2> QED BY <1>1, <1>3, PrimitiveRecursion
<1>5. p[0] = s /\ \A k \in 1..N : p[k] = LegacyAppend(p[k - 1], ds[k])
  <2>1. p[0] = s
    BY <1>4 DEF IsRun
  <2>2. ASSUME NEW k \in 1..N
        PROVE  p[k] = LegacyAppend(p[k - 1], ds[k])
    <3>1. k \in Nat /\ p[k - 1] \in Y
      BY <1>1
    <3>2. p[k] = h[k][p[k - 1]]
      <4> HIDE DEF h
      <4> QED BY <1>4 DEF IsRun
    <3> QED BY <3>1, <3>2
  <2> QED BY <2>1, <2>2
<1> HIDE DEF h
<1> DEFINE Runs(f) == f = [k \in 0..N |-> IF k = 0 THEN s ELSE LegacyAppend(f[k - 1], ds[k])]
           g == CHOOSE f : Runs(f)
<1>6. LegacyCommit(s, ds) = g[N]
  BY DEF LegacyCommit, N
<1>7. Runs(p)
  <2>1. \A k \in 0..N : k # 0 => k \in 1..N
    BY <1>1
  <2>2. p = [k \in 0..N |-> p[k]]
    OBVIOUS
  <2> QED BY <1>5, <2>1, <2>2
<1>8. Runs(g)
  <2> HIDE DEF Runs
  <2> QED BY <1>7
<1>9. g[0] = s /\ \A k \in 1..N : g[k] = LegacyAppend(g[k - 1], ds[k])
  <2> HIDE DEF g
  <2>1. 0 \in 0..N /\ \A k \in 1..N : k # 0 /\ k \in 0..N
    BY <1>1
  <2> QED BY <1>8, <2>1
<1> HIDE DEF g
<1> DEFINE part(n) == SubSeq(ds, 1, n)
           Grown(n) == /\ g[n] \in Y /\ (AllFit(s) => AllFit(g[n]))
                       /\ Placed(g[n]) = Placed(s) \o Placed(part(n))
           T == {n \in Nat : n <= N => Grown(n)}
<1>10. Placed(s) \in Seq(PlacedAt)
  <2>1. s \in Seq(Block)
    BY DEF Chain
  <2> QED BY <2>1, PlacedConcat
<1>11. 0 \in T
  <2>1. part(0) = <<>>
    OBVIOUS
  <2>2. Placed(<<>>) = <<>>
    <3>1. Genesis(FirstDate) \in Block
      BY DEF Block
    <3> QED BY <3>1, PlacedSmall
  <2> HIDE DEF part
  <2>3. Placed(s) \o <<>> = Placed(s)
    BY <1>10, ConcatEmptySeq
  <2>4. Grown(0)
    BY <1>1, <1>9, <2>1, <2>2, <2>3
  <2> QED BY <2>4
<1>12. ASSUME NEW n \in T
       PROVE  n + 1 \in T
  <2>0. n \in Nat /\ n + 1 \in Nat
    OBVIOUS
  <2> SUFFICES ASSUME n + 1 <= N PROVE Grown(n + 1)
    BY <2>0
  <2>1. n + 1 \in 1..N /\ n \in 0..N /\ n <= N /\ (n + 1) - 1 = n
    BY <1>1, <2>0
  <2>2. Grown(n)
    <3> HIDE DEF Grown
    <3> QED BY <2>1
  <2>3. g[n + 1] = LegacyAppend(g[n], ds[n + 1]) /\ ds[n + 1] \in DayBlk
    BY <1>1, <1>9, <2>1
  <2>4. /\ g[n + 1] \in Y
        /\ AllFit(g[n]) => AllFit(g[n + 1])
        /\ Placed(g[n + 1]) = Placed(g[n]) \o Dated(ds[n + 1])
    BY <1>2, <2>2, <2>3
  <2>5. part(n) \in Seq(Block) /\ part(n + 1) = Append(part(n), ds[n + 1])
    BY <1>1, <2>0, <2>1 DEF N
  <2> HIDE DEF part
  <2>6. ds[n + 1] \in Block
    BY <1>1, <2>1
  <2> PICK x : x = Placed(s)
    OBVIOUS
  <2> PICK y : y = Placed(part(n))
    OBVIOUS
  <2> PICK z : z = Dated(ds[n + 1])
    OBVIOUS
  <2>7. x \in Seq(PlacedAt) /\ y \in Seq(PlacedAt) /\ z \in Seq(PlacedAt)
        /\ Placed(part(n + 1)) = y \o z
    BY <1>10, <2>5, <2>6, PlacedConcat, PlacedAppend, DatedIsSeq
  <2>8. (x \o y) \o z = x \o (y \o z)
    BY <2>7, SMTT(30)
  <2> QED BY <2>2, <2>4, <2>7, <2>8
<1>13. T = Nat
  <2>1. T \in SUBSET Nat
    OBVIOUS
  <2> HIDE DEF T
  <2> QED BY <1>11, <1>12, <2>1, Induction
<1>14. Grown(N)
  <2>1. N \in T
    BY <1>1, <1>13
  <2> HIDE DEF Grown
  <2> QED BY <1>1, <2>1
<1>15. part(N) = ds
  BY SubSeqFull DEF N
<1> HIDE DEF part
<1> QED BY <1>6, <1>14, <1>15 DEF Y

\* A revert cuts at a day block, after the genesis block.
LEMMA RevertCut ==
  ASSUME NEW s, Chain(s), NEW n \in 1..Cardinality(DayPositions(s))
  PROVE  RevertStart(s, n) \in DayPositions(s) /\ RevertStart(s, n) \in 2..Len(s)
<1> DEFINE D == DayPositions(s)
           c == Cardinality(D)
<1>1. s \in Seq(Block) /\ Len(s) \in Nat /\ Len(s) >= 1 /\ ~IsDay(s[1])
  BY DEF Chain, Genesis, IsDay
<1>2. D \in SUBSET (2..Len(s))
  <2>1. \A i \in D : i \in 1..Len(s) /\ i # 1
    BY <1>1 DEF DayPositions
  <2>2. \A i \in D : i \in 2..Len(s)
    BY <1>1, <2>1
  <2> QED BY <2>2
<1> HIDE DEF D
<1>3. IsFiniteSet(D) /\ D \in SUBSET Int
  <2>1. IsFiniteSet(2..Len(s))
    BY <1>1, FS_Interval
  <2>2. \A i \in D : i \in Int
    BY <1>2
  <2> QED BY <1>2, <2>1, <2>2, FS_Subset
<1>4. c \in Nat /\ Len(Ascending(D)) = c /\ \A k \in 1..c : Ascending(D)[k] \in D
  BY <1>3, AscendingOrder
<1> HIDE DEF c
<1>5. n \in 1..c
  BY DEF c, D
<1>6. c - n + 1 \in 1..c
  BY <1>4, <1>5
<1>7. RevertStart(s, n) = Ascending(D)[c - n + 1]
  BY <1>4 DEF RevertStart, D
<1>8. RevertStart(s, n) \in D
  BY <1>4, <1>6, <1>7
<1> QED BY <1>2, <1>8 DEF D

-----------------------------------------------------------------------------
\* The inductive invariant.

\* What a revert of n day blocks takes from a ledger.
Taken(s, n) == Placed(SubSeq(s, RevertStart(s, n), Len(s)))

ChosenIds == {staging[i].id : i \in chosen}

\* Types, those of the blocks and of the control among them.
TypeInv ==
  /\ staging \in Seq(Staged)
  /\ Chain(ledger)
  /\ stale \in BOOLEAN
  /\ index \in [sealed : Index, plain : Index, wrapped : BOOLEAN]
  /\ pc \in Steps
  /\ days \in Seq(DayBlk)
  /\ owed \in Seq(Summary)
  /\ counted \in Nat /\ reverting \in Nat
  /\ chosen \subseteq DOMAIN staging
  /\ Captured \subseteq Entry /\ start \in [Captured -> Dates]
  /\ removed \subseteq Captured /\ dropped \subseteq Captured
  /\ remote \subseteq Entry \X Dates
  /\ disturbed \in Nat

\* What the variables of the command are at each of its steps.
ControlInv ==
  /\ pc \in {"idle", "select"} => chosen = {}
  /\ pc = "append" => days # <<>> /\ counted <= Len(days[1].entries)
  /\ pc \notin {"append", "uncount", "truncate"} => counted = 0
  /\ pc = "verify" => IsDay(Last(ledger))
  /\ pc \in {"uncount", "truncate"} => reverting \in 1..Cardinality(DayPositions(ledger))
  /\ pc = "uncount" => counted <= Len(RevertedEntries)
  /\ stale => disturbed # 0

\* Whose entries are where.
KnownInv ==
  /\ Ids(staging) \subseteq Captured
  /\ IdsOf(Placed(ledger)) \subseteq Captured \cup Foreign
  /\ pc = "append" => IdsOf(Placed(days)) \subseteq Captured
  /\ \A p \in remote : p[1] \in Captured \cup Foreign

\* Entries that a sync dropped for one like them in the remote ledger.
Superseded ==
  {e \in dropped : \E p \in remote : Title[p[1]] = Title[e] /\ p[2] = start[e]}

\* What a step is about to drop is elsewhere.
KeptInv ==
  /\ Captured \subseteq Ids(staging) \cup IdsOf(Placed(ledger)) \cup removed \cup Superseded
  /\ pc = "append" => ChosenIds \subseteq IdsOf(Placed(ledger)) \cup IdsOf(Placed(days))
  /\ pc \in {"verify", "remove", "index030", "staging030"}
       => ChosenIds \subseteq IdsOf(Placed(ledger))
  /\ pc = "truncate" => IdsOf(RevertedEntries) \subseteq Ids(staging)

\* What is in two places is about to be dropped from one of them.
Dropped(i) ==
  \/ pc \in {"append", "verify", "remove", "index030", "staging030"} /\ i \in chosen
  \/ pc = "truncate" /\ staging[i].id \in IdsOf(RevertedEntries)

OnceInv ==
  disturbed = 0 =>
    /\ StagedOnce(staging)
    /\ OnceIn(Placed(ledger))
    /\ \A i \in DOMAIN staging : staging[i].id \in IdsOf(Placed(ledger)) => Dropped(i)
    /\ pc = "append" =>
         /\ OnceIn(Placed(days))
         /\ IdsOf(Placed(ledger)) \cap IdsOf(Placed(days)) = {}
         /\ \A i \in DOMAIN staging : staging[i].id \in IdsOf(Placed(days)) => i \in chosen

\* Every block fits the one before it, and so will those to come.
PeriodInv ==
  /\ AllFit(ledger)
  /\ pc = "append" => Between(Last(ledger), owed, days[1])

\* How far the index is from the ledger in the middle of a command.
IndexInv ==
  disturbed = 0 => \A c \in Cell :
    /\ pc \in {"idle", "select", "verify", "remove", "staging030"} =>
         Loaded[c] = Total(Placed(ledger), c)
    /\ pc = "append" =>
         Loaded[c] = Total(Placed(ledger), c) + Total(SubSeq(Dated(days[1]), 1, counted), c)
    /\ pc = "uncount" =>
         Loaded[c] + Total(SubSeq(RevertedEntries, 1, counted), c) = Total(Placed(ledger), c)
    /\ pc = "truncate" =>
         Loaded[c] + Total(RevertedEntries, c) = Total(Placed(ledger), c)
    /\ pc = "index030" =>
         Loaded[c] + Total(Placed(days), c) = Total(Placed(ledger), c)

Inv == TypeInv /\ ControlInv /\ KnownInv /\ KeptInv /\ OnceInv /\ PeriodInv /\ IndexInv

-----------------------------------------------------------------------------
\* Lists of staged entries.

LEMMA StagedConcat ==
  ASSUME NEW a \in Seq(Staged), NEW b \in Seq(Staged), NEW c, c = a \o b
  PROVE  /\ c \in Seq(Staged)
         /\ Ids(c) = Ids(a) \cup Ids(b)
         /\ StagedOnce(a) /\ StagedOnce(b) /\ Ids(a) \cap Ids(b) = {} => StagedOnce(c)
         /\ StagedOnce(c) => StagedOnce(a) /\ StagedOnce(b) /\ Ids(a) \cap Ids(b) = {}
         /\ \A i \in DOMAIN a : i \in DOMAIN c /\ c[i] = a[i]
<1>0. Joined(a, b, c) /\ c \in Seq(Staged)
  BY ConcatParts
<1>1. /\ Len(a) \in Nat /\ Len(b) \in Nat /\ Len(c) = Len(a) + Len(b)
      /\ DOMAIN a = 1..Len(a) /\ DOMAIN b = 1..Len(b) /\ DOMAIN c = 1..Len(c)
      /\ \A k \in 1..Len(a) : c[k] = a[k] /\ k \in 1..Len(c)
      /\ \A k \in 1..Len(b) : c[Len(a) + k] = b[k] /\ Len(a) + k \in 1..Len(c)
      /\ \A k \in 1..Len(c) : k \in 1..Len(a) \/ \E j \in 1..Len(b) : k = Len(a) + j
  BY <1>0 DEF Joined
<1>2. \A k \in DOMAIN c : k \in 1..Len(a) \/ \E j \in 1..Len(b) : k = Len(a) + j
  BY <1>1
<1>3. Ids(c) = Ids(a) \cup Ids(b)
  <2>1. ASSUME NEW x \in Ids(c)
        PROVE  x \in Ids(a) \cup Ids(b)
    <3>1. PICK k \in DOMAIN c : x = c[k].id
      BY DEF Ids
    <3>2. CASE k \in 1..Len(a)
      BY <1>1, <3>1, <3>2 DEF Ids
    <3>3. ASSUME NEW j \in 1..Len(b), k = Len(a) + j
          PROVE  x \in Ids(b)
      <4>1. c[k] = b[j] /\ j \in DOMAIN b
        BY <1>1, <3>3
      <4> QED BY <3>1, <4>1 DEF Ids
    <3> QED BY <1>2, <3>2, <3>3
  <2>2. ASSUME NEW x \in Ids(a)
        PROVE  x \in Ids(c)
    <3>1. PICK k \in DOMAIN a : x = a[k].id
      BY DEF Ids
    <3>2. k \in DOMAIN c /\ c[k] = a[k]
      BY <1>1
    <3> QED BY <3>1, <3>2 DEF Ids
  <2>3. ASSUME NEW x \in Ids(b)
        PROVE  x \in Ids(c)
    <3>1. PICK k \in DOMAIN b : x = b[k].id
      BY DEF Ids
    <3>2. Len(a) + k \in DOMAIN c /\ c[Len(a) + k] = b[k]
      BY <1>1
    <3> QED BY <3>1, <3>2 DEF Ids
  <2> QED BY <2>1, <2>2, <2>3
<1>4. ASSUME StagedOnce(c)
      PROVE  StagedOnce(a) /\ StagedOnce(b) /\ Ids(a) \cap Ids(b) = {}
  <2>1. StagedOnce(a)
    BY <1>1, <1>4 DEF StagedOnce
  <2>2. StagedOnce(b)
    <3> SUFFICES ASSUME NEW k \in DOMAIN b, NEW m \in DOMAIN b, b[k].id = b[m].id
                 PROVE  k = m
      BY DEF StagedOnce
    <3>1. /\ c[Len(a) + k] = b[k] /\ c[Len(a) + m] = b[m]
          /\ Len(a) + k \in DOMAIN c /\ Len(a) + m \in DOMAIN c
      BY <1>1
    <3>2. Len(a) + k = Len(a) + m
      BY <1>4, <3>1 DEF StagedOnce
    <3> QED BY <1>1, <3>2
  <2>3. ASSUME NEW x \in Ids(a), x \in Ids(b)
        PROVE  FALSE
    <3>1. PICK k \in DOMAIN a : x = a[k].id
      BY DEF Ids
    <3>2. PICK m \in DOMAIN b : x = b[m].id
      BY <2>3 DEF Ids
    <3>3. /\ c[k] = a[k] /\ c[Len(a) + m] = b[m]
          /\ k \in DOMAIN c /\ Len(a) + m \in DOMAIN c
      BY <1>1
    <3>4. k = Len(a) + m
      BY <1>4, <3>1, <3>2, <3>3 DEF StagedOnce
    <3> QED BY <1>1, <3>4
  <2> QED BY <2>1, <2>2, <2>3
<1>5. ASSUME StagedOnce(a), StagedOnce(b), Ids(a) \cap Ids(b) = {}
      PROVE  StagedOnce(c)
  <2> SUFFICES ASSUME NEW k \in DOMAIN c, NEW m \in DOMAIN c, c[k].id = c[m].id
               PROVE  k = m
    BY DEF StagedOnce
  <2>1. ASSUME k \in 1..Len(a), m \in 1..Len(a)
        PROVE  k = m
    BY <1>1, <1>5, <2>1 DEF StagedOnce
  <2>2. ASSUME NEW i \in 1..Len(a), NEW j \in 1..Len(b), c[i].id = c[Len(a) + j].id
        PROVE  FALSE
    <3>1. a[i].id = b[j].id /\ i \in DOMAIN a /\ j \in DOMAIN b
      BY <1>1, <2>2
    <3>2. a[i].id \in Ids(a) /\ b[j].id \in Ids(b)
      BY <3>1 DEF Ids
    <3> QED BY <1>5, <3>1, <3>2
  <2>3. ASSUME NEW i \in 1..Len(b), k = Len(a) + i, NEW j \in 1..Len(b), m = Len(a) + j
        PROVE  k = m
    <3>1. b[i].id = b[j].id
      BY <1>1, <2>3
    <3> QED BY <1>1, <1>5, <2>3, <3>1 DEF StagedOnce
  <2> QED BY <1>2, <2>1, <2>2, <2>3
<1>6. \A i \in DOMAIN a : i \in DOMAIN c /\ c[i] = a[i]
  BY <1>1
<1> QED BY <1>0, <1>3, <1>4, <1>5, <1>6

LEMMA StagedAppend ==
  ASSUME NEW a \in Seq(Staged), NEW e \in Staged, NEW c, c = Append(a, e)
  PROVE  /\ c \in Seq(Staged)
         /\ Ids(c) = Ids(a) \cup {e.id}
         /\ StagedOnce(a) /\ e.id \notin Ids(a) => StagedOnce(c)
<1>1. PICK b : b = <<e>>
  OBVIOUS
<1>2. b \in Seq(Staged) /\ DOMAIN b = {1} /\ b[1] = e
  BY <1>1
<1>3. c = a \o b
  BY <1>1
<1>4. Ids(b) = {e.id} /\ StagedOnce(b)
  BY <1>2 DEF Ids, StagedOnce
<1>5. /\ c \in Seq(Staged)
      /\ Ids(c) = Ids(a) \cup Ids(b)
      /\ StagedOnce(a) /\ StagedOnce(b) /\ Ids(a) \cap Ids(b) = {} => StagedOnce(c)
  BY <1>2, <1>3, StagedConcat
<1> QED BY <1>4, <1>5

LEMMA StagedRemove ==
  ASSUME NEW a \in Seq(Staged), NEW i \in DOMAIN a, NEW c, c = RemoveAt(a, i)
  PROVE  /\ c \in Seq(Staged)
         /\ Ids(c) \subseteq Ids(a)
         /\ Ids(a) \subseteq Ids(c) \cup {a[i].id}
         /\ StagedOnce(a) => StagedOnce(c)
<1>1. PICK x : x = SubSeq(a, 1, i - 1)
  OBVIOUS
<1>2. PICK z : z = SubSeq(a, i + 1, Len(a))
  OBVIOUS
<1>3. PICK n : n = Len(a)
  OBVIOUS
<1>4. n \in Nat /\ i \in 1..n
  BY <1>3
<1>5. /\ x \in Seq(Staged) /\ z \in Seq(Staged)
      /\ Len(x) = i - 1 /\ Len(z) = n - i
      /\ DOMAIN x = 1..(i - 1) /\ DOMAIN z = 1..(n - i)
      /\ \A k \in 1..(i - 1) : x[k] = a[k]
      /\ \A k \in 1..(n - i) : z[k] = a[i + k]
  <2>1. x \in Seq(Staged) /\ Len(x) = i - 1 /\ \A k \in 1..(i - 1) : x[k] = a[k]
    BY <1>1, <1>3, <1>4
  <2>2. z \in Seq(Staged) /\ Len(z) = n - i /\ \A k \in 1..(n - i) : z[k] = a[(i + 1) + k - 1]
    BY <1>2, <1>3, <1>4
  <2>3. \A k \in 1..(n - i) : (i + 1) + k - 1 = i + k
    BY <1>4
  <2> QED BY <2>1, <2>2, <2>3
<1>6. c = x \o z
  BY <1>1, <1>2 DEF RemoveAt
<1>7. /\ c \in Seq(Staged)
      /\ Ids(c) = Ids(x) \cup Ids(z)
      /\ StagedOnce(x) /\ StagedOnce(z) /\ Ids(x) \cap Ids(z) = {} => StagedOnce(c)
  BY <1>5, <1>6, StagedConcat
<1>8. ASSUME NEW k \in DOMAIN x
      PROVE  x[k] = a[k] /\ k \in DOMAIN a /\ k < i /\ k \in Int
  BY <1>3, <1>4, <1>5
<1>9. ASSUME NEW k \in DOMAIN z
      PROVE  z[k] = a[i + k] /\ i + k \in DOMAIN a /\ i + k > i /\ k \in Int
  BY <1>3, <1>4, <1>5
<1>10. Ids(c) \subseteq Ids(a)
  <2>1. ASSUME NEW v \in Ids(x) PROVE v \in Ids(a)
    BY <1>8 DEF Ids
  <2>2. ASSUME NEW v \in Ids(z) PROVE v \in Ids(a)
    BY <1>9 DEF Ids
  <2> QED BY <1>7, <2>1, <2>2
<1>11. ASSUME NEW v \in Ids(a), v # a[i].id
       PROVE  v \in Ids(c)
  <2>1. PICK k \in 1..n : v = a[k].id
    BY <1>3 DEF Ids
  <2>2. CASE k < i
    <3>1. k \in DOMAIN x /\ x[k] = a[k]
      BY <1>4, <1>5, <2>2
    <3> QED BY <1>7, <2>1, <3>1 DEF Ids
  <2>3. CASE k > i
    <3>1. k - i \in DOMAIN z /\ z[k - i] = a[i + (k - i)] /\ i + (k - i) = k
      BY <1>4, <1>5, <2>3
    <3> QED BY <1>7, <2>1, <3>1 DEF Ids
  <2>4. k # i
    BY <1>11, <2>1
  <2> QED BY <1>4, <2>2, <2>3, <2>4
<1>12. ASSUME StagedOnce(a)
       PROVE  StagedOnce(c)
  <2>1. StagedOnce(x)
    BY <1>8, <1>12 DEF StagedOnce
  <2>2. StagedOnce(z)
    <3> SUFFICES ASSUME NEW k \in DOMAIN z, NEW m \in DOMAIN z, z[k].id = z[m].id
                 PROVE  k = m
      BY DEF StagedOnce
    <3>1. i + k = i + m
      BY <1>9, <1>12 DEF StagedOnce
    <3> QED BY <1>4, <1>9, <3>1
  <2>3. ASSUME NEW v \in Ids(x), v \in Ids(z)
        PROVE  FALSE
    <3>1. PICK k \in DOMAIN x : v = x[k].id
      BY DEF Ids
    <3>2. PICK m \in DOMAIN z : v = z[m].id
      BY <2>3 DEF Ids
    <3>3. a[k].id = a[i + m].id /\ k \in DOMAIN a /\ i + m \in DOMAIN a
      BY <1>8, <1>9, <3>1, <3>2
    <3>4. k = i + m
      BY <1>12, <3>3, Zenon DEF StagedOnce
    <3> QED BY <1>8, <1>9, <3>4
  <2> QED BY <1>7, <2>1, <2>2, <2>3
<1> QED BY <1>7, <1>10, <1>11, <1>12

\* The entries a revert writes to staging.
LEMMA RestoredIds ==
  ASSUME NEW r \in Seq(PlacedAt), NEW b, b = [k \in DOMAIN r |-> Restored(r[k].entry)]
  PROVE  b \in Seq(Staged) /\ Ids(b) = IdsOf(r) /\ (OnceIn(r) => StagedOnce(b))
<1>0. \A k \in 1..Len(r) : r[k] \in PlacedAt
  OBVIOUS
<1>1. \A k \in 1..Len(r) : r[k].entry \in Committed
  BY <1>0 DEF PlacedAt
<1>2. ASSUME NEW k \in 1..Len(r)
      PROVE  Restored(r[k].entry) \in Staged /\ Restored(r[k].entry).id = r[k].entry.id
  <2>1. r[k].entry \in Committed
    BY <1>1
  <2>2. r[k].entry.id \in Entry /\ r[k].entry.duration \in Nat
    BY <2>1 DEF Committed
  <2> QED BY <2>2 DEF Restored, Staged
<1>3. b = [k \in 1..Len(r) |-> Restored(r[k].entry)]
  OBVIOUS
<1>4. b \in Seq(Staged) /\ DOMAIN b = DOMAIN r /\ \A k \in DOMAIN r : b[k].id = r[k].entry.id
  <2>1. b \in Seq(Staged)
    BY <1>2, <1>3
  <2>2. DOMAIN b = 1..Len(r) /\ DOMAIN r = 1..Len(r)
    BY <1>3
  <2> QED BY <1>2, <1>3, <2>1, <2>2
<1>5. Ids(b) = IdsOf(r)
  BY <1>4 DEF Ids, IdsOf
<1>6. OnceIn(r) => StagedOnce(b)
  BY <1>4 DEF OnceIn, StagedOnce
<1> QED BY <1>4, <1>5, <1>6

-----------------------------------------------------------------------------
\* What the steps compute.

\* A ledger that is reverted, in two parts.
LEMMA RevertParts ==
  ASSUME NEW s, Chain(s), NEW n \in 1..Cardinality(DayPositions(s)),
         NEW kept, kept = SubSeq(s, 1, RevertStart(s, n) - 1)
  PROVE  /\ Chain(kept) /\ (AllFit(s) => AllFit(kept))
         /\ Placed(kept) \in Seq(PlacedAt) /\ Taken(s, n) \in Seq(PlacedAt)
         /\ Placed(s) = Placed(kept) \o Taken(s, n)
<1> DEFINE p == RevertStart(s, n)
<1>1. p \in 2..Len(s)
  BY RevertCut
<1>2. s \in Seq(Block) /\ Len(s) \in Nat
  BY DEF Chain
<1> HIDE DEF p
<1>3. p - 1 \in 1..Len(s) /\ p - 1 \in 0..Len(s) /\ p \in 1..Len(s)
  BY <1>1, <1>2
<1>4. kept = SubSeq(s, 1, p - 1)
  BY DEF p
<1>5. Chain(kept)
  BY <1>3, <1>4, ChainPrefix
<1>6. AllFit(s) => AllFit(kept)
  BY <1>2, <1>3, <1>4, FitPrefix
<1>7. PICK rest : rest = SubSeq(s, p, Len(s))
  OBVIOUS
<1>8. kept \in Seq(Block) /\ rest \in Seq(Block) /\ Placed(s) = Placed(kept) \o Placed(rest)
  BY <1>2, <1>3, <1>4, <1>7, PlacedSplit
<1>9. Placed(kept) \in Seq(PlacedAt) /\ Placed(rest) \in Seq(PlacedAt)
  BY <1>8, PlacedConcat
<1>10. Taken(s, n) = Placed(rest)
  BY <1>7 DEF Taken, p
<1> QED BY <1>5, <1>6, <1>8, <1>9, <1>10

\* The summaries still owed after the first of them.
LEMMA BetweenTail ==
  ASSUME NEW p, NEW sums, NEW day, Between(p, sums, day), sums # <<>>
  PROVE  /\ sums[1] \in Summary /\ Fits(p, sums[1])
         /\ Between(sums[1], Tail(sums), day)
<1>1. PICK rest : rest = Tail(sums)
  OBVIOUS
<1>2. sums \in Seq(Summary)
  BY DEF Between
<1>3. sums[1] \in Summary /\ rest \in Seq(Summary) /\ Len(rest) = Len(sums) - 1
      /\ Len(sums) \in Nat /\ Len(sums) # 0
      /\ \A i \in 1..Len(rest) : rest[i] = sums[i + 1]
  BY <1>1, <1>2
<1>4. CASE Len(sums) = 1 /\ Fits(p, sums[1]) /\ Fits(sums[1], day)
  <2>1. rest = <<>>
    BY <1>3, <1>4
  <2> QED BY <1>1, <1>3, <1>4, <2>1 DEF Between
<1>5. CASE Len(sums) = 2 /\ Fits(p, sums[1]) /\ Fits(sums[1], sums[2]) /\ Fits(sums[2], day)
  <2>1. Len(rest) = 1 /\ rest[1] = sums[2]
    <3>1. 1 \in 1..1 /\ 1 + 1 = 2
      OBVIOUS
    <3> QED BY <1>3, <1>5, <3>1
  <2> QED BY <1>1, <1>3, <1>5, <2>1 DEF Between
<1> QED BY <1>4, <1>5 DEF Between

\* The days entries start on, after a revert.
LEMMA StartsAreKnown ==
  ASSUME start \in [Captured -> Dates], Captured \subseteq Entry,
         RevertedEntries \in Seq(PlacedAt)
  PROVE  /\ StartsKnown \in [Captured \cup IdsOf(RevertedEntries) -> Dates]
         /\ Captured \cup IdsOf(RevertedEntries) \subseteq Entry
<1>1. PICK back : back = ToSet(RevertedEntries)
  OBVIOUS
<1>2. {r.entry.id : r \in back} = IdsOf(RevertedEntries) /\ IdsOf(RevertedEntries) \subseteq Entry
  BY <1>1, IdsPlaced
<1>3. \A r \in back : r \in PlacedAt
  BY <1>1 DEF ToSet
<1>4. \A r \in back : r.date \in Dates
  BY <1>3 DEF PlacedAt
<1>5. ASSUME NEW e \in {r.entry.id : r \in back}
      PROVE  (CHOOSE r \in back : r.entry.id = e).date \in Dates
  <2>1. PICK r \in back : r.entry.id = e
    OBVIOUS
  <2>2. (CHOOSE x \in back : x.entry.id = e) \in back
    BY <2>1
  <2> QED BY <1>4, <2>2
<1>6. StartsKnown = [e \in Captured \cup {r.entry.id : r \in back} |->
                       IF e \in Captured THEN start[e]
                       ELSE (CHOOSE r \in back : r.entry.id = e).date]
  BY <1>1 DEF StartsKnown
<1>7. \A e \in Captured : start[e] \in Dates
  OBVIOUS
<1> QED BY <1>2, <1>5, <1>6, <1>7

\* IndexManager.update, as long as no total falls below zero.
LEMMA AdjustedIs ==
  ASSUME NEW cells \in Index, NEW q \in PlacedAt, NEW delta \in Int,
         NEW at, at = CellOf(q.date, q.entry), cells[at] + delta >= 0,
         NEW new, new = Adjusted(cells, at, delta)
  PROVE  /\ at \in Cell /\ new \in Index
         /\ \A c \in Cell : new[c] = IF c = at THEN cells[c] + delta ELSE cells[c]
<1>1. at \in Cell
  <2>1. q.date \in Dates /\ q.entry.id \in Entry
    BY DEF PlacedAt, Committed
  <2> QED BY <2>1 DEF CellOf, Cell
<1>2. cells[at] \in Nat
  BY <1>1 DEF Index
<1>3. (IF cells[at] + delta > 0 THEN cells[at] + delta ELSE 0) = cells[at] + delta
      /\ cells[at] + delta \in Nat
  BY <1>2
<1>4. PICK v : v = cells[at] + delta
  OBVIOUS
<1>5. new = [cells EXCEPT ![at] = v]
  BY <1>3, <1>4 DEF Adjusted
<1>6. v \in Nat
  BY <1>3, <1>4
<1> QED BY <1>1, <1>4, <1>5, <1>6 DEF Index

\* The title of any entry has a cell on any day, also while totals may be off.
LEMMA AdjustedInIndex ==
  ASSUME NEW cells \in Index, NEW at, NEW delta \in Int
  PROVE  Adjusted(cells, at, delta) \in Index
<1>1. CASE at \in Cell
  <2>1. cells[at] + delta \in Int
    BY <1>1 DEF Index
  <2>2. (IF cells[at] + delta > 0 THEN cells[at] + delta ELSE 0) \in Nat
    BY <2>1
  <2>3. PICK v \in Nat : v = IF cells[at] + delta > 0 THEN cells[at] + delta ELSE 0
    BY <2>2
  <2>4. Adjusted(cells, at, delta) = [cells EXCEPT ![at] = v]
    BY <2>3 DEF Adjusted
  <2> QED BY <2>4 DEF Index
<1>2. CASE at \notin Cell
  BY <1>2 DEF Adjusted, Index
<1> QED BY <1>1, <1>2

-----------------------------------------------------------------------------
\* The steps by what they change.

\* A staged entry is changed, and keeps its place.
Edit ==
  /\ pc = "idle"
  /\ staging' \in Seq(Staged) /\ Len(staging') = Len(staging)
  /\ \A i \in DOMAIN staging : staging'[i].id = staging[i].id
  /\ UNCHANGED <<ledger, stale, index, remote, control, history>>

\* An entry is put at the end of staging.
Captures ==
  /\ pc = "idle"
  /\ \E s \in Staged, date \in Dates :
       /\ s.id \notin Captured \cup Foreign
       /\ staging' = Append(staging, s)
       /\ start' = [x \in Captured \cup {s.id} |-> IF x = s.id THEN date ELSE start[x]]
  /\ UNCHANGED <<ledger, stale, index, remote, control, removed, dropped, disturbed>>

Removes    == \E i \in DOMAIN staging : RemoveStaged(i)
Selections == (SUBSET DOMAIN staging) \ {{}}
Syncs      == \E positions \in Selections : Select(positions)
Syncs030   == \E positions \in Selections : SyncDay030(positions)
Reverts    == \E n \in 1..Len(ledger) : StartRevert(n)
Publishes  == \E i \in DayPositions(ledger) : Publish(i)

\* Entries are dropped for those like them in the remote ledger.
Forgets ==
  /\ pc = "idle" /\ pc' = "select"
  /\ \E gone \in SUBSET DOMAIN staging :
       /\ staging' = Without(gone)
       /\ dropped' = dropped \cup {staging[i].id : i \in gone}
       /\ \A i \in gone : \E p \in remote :
            Title[p[1]] = Title[staging[i].id] /\ p[2] = start[staging[i].id]
  /\ UNCHANGED <<ledger, stale, index, remote, days, owed, counted, chosen, reverting,
                 start, removed, disturbed>>

\* Entries that blocks of others may hold.
Elsewhere == Foreign \cup {p[1] : p \in remote}

\* A day of another device comes, or one of this device comes back.
Pulls ==
  /\ pc = "idle"
  /\ \E day \in DayBlk, e \in Elsewhere :
       /\ IdsOf(Dated(day)) = {e}
       /\ ledger' = ledger \o Append(Summaries(Last(ledger), day.date), day)
       /\ remote \subseteq remote' /\ \A p \in remote' \ remote : p = <<e, day.date>>
  /\ disturbed' # 0 /\ disturbed' \in Nat
  /\ UNCHANGED <<staging, stale, index, control, start, removed, dropped>>

\* What is in the remote ledger stays there.
LEMMA SupersededGrows ==
  ASSUME dropped \subseteq Captured, dropped \subseteq dropped', remote \subseteq remote',
         \A e \in Captured : start'[e] = start[e]
  PROVE  Superseded \subseteq Superseded'
<1> SUFFICES ASSUME NEW e \in Superseded
             PROVE  e \in Superseded'
  OBVIOUS
<1>1. PICK p \in remote : Title[p[1]] = Title[e] /\ p[2] = start[e]
  BY DEF Superseded
<1>2. e \in dropped' /\ p \in remote' /\ start'[e] = start[e]
  BY DEF Superseded
<1>3. e \in dropped' /\ \E q \in remote' : Title[q[1]] = Title[e] /\ q[2] = start'[e]
  BY <1>1, <1>2
<1> QED BY <1>3 DEF Superseded

LEMMA ChangeIsEdit ==
  ASSUME TypeInv, NEW i \in DOMAIN staging, NEW new \in Staged, new.id = staging[i].id,
         NEW interface, Change(i, new, interface),
         UNCHANGED <<ledger, stale, index, remote, history>>
  PROVE  Edit
<1>1. PICK x : x = IF interface = "v030" THEN new ELSE Tokenised(new)
  OBVIOUS
<1>2. x \in Staged /\ x.id = staging[i].id
  BY <1>1 DEF Tokenised, Staged
<1>3. staging' = [staging EXCEPT ![i] = x]
  BY <1>1 DEF Change
<1>4. staging \in Seq(Staged)
  BY DEF TypeInv
<1>5. /\ staging' \in Seq(Staged) /\ Len(staging') = Len(staging)
      /\ \A k \in DOMAIN staging : staging'[k].id = staging[k].id
  BY <1>2, <1>3, <1>4
<1> QED BY <1>5 DEF Edit, Change, Idle

LEMMA StagedFacts ==
  ASSUME TypeInv, NEW i \in DOMAIN staging
  PROVE  /\ staging[i] \in Staged /\ staging[i].id \in Entry
         /\ staging[i].closed \in Nat /\ staging[i].open \in Nat
<1>1. staging[i] \in Staged
  BY DEF TypeInv
<1> QED BY <1>1 DEF Staged

LEMMA DurationIsNat ==
  ASSUME NEW s, s.id \in Entry, s.closed \in Nat
  PROVE  Duration(s) \in Nat
<1>1. Span[s.id] \in Nat
  BY SpanAssumption
<1> QED BY <1>1 DEF Duration

LEMMA ClosingIs ==
  ASSUME NEW s \in Staged
  PROVE  Closing(s) \in Staged /\ Closing(s).id = s.id /\ Closing(s).closed \in Nat
<1>1. s.closed + 1 \in Nat
  BY DEF Staged
<1>2. PICK n \in Nat : n = s.closed + 1
  BY <1>1
<1>3. Closing(s) = [s EXCEPT !.status = "active", !.closed = n, !.open = 0]
  BY <1>2 DEF Closing
<1>4. PICK c : c = Closing(s)
  OBVIOUS
<1>5. c = [id |-> s.id, format |-> s.format, status |-> "active",
           closed |-> n, open |-> 0, duration |-> s.duration]
  BY <1>3, <1>4 DEF Staged
<1>6. s.id \in Entry /\ s.format \in {"token", "legacy", "plain"} /\ s.duration \in Nat
  BY DEF Staged
<1>7. c \in Staged
  BY <1>5, <1>6 DEF Staged
<1>8. c.id = s.id /\ c.closed = n
  BY <1>5
<1> QED BY <1>4, <1>7, <1>8

LEMMA EditSteps ==
  ASSUME TypeInv, NEW i \in DOMAIN staging, NEW interface
  PROVE  /\ Pause(i, interface) => Edit
         /\ Unpause(i, interface) => Edit
         /\ End(i, interface) => Edit
         /\ Modify(i) => Edit
<1> DEFINE s == staging[i]
<1>1. s \in Staged /\ s.id \in Entry /\ s.closed \in Nat /\ s.open \in Nat
  BY StagedFacts
<1>2. ASSUME Pause(i, interface)
      PROVE  Edit
  <2>1. PICK new : new = [s EXCEPT !.status = "paused", !.open = @ + 1]
    OBVIOUS
  <2>2. new \in Staged /\ new.id = s.id
    <3>1. s.open + 1 \in Nat
      BY <1>1
    <3> QED BY <1>1, <2>1, <3>1 DEF Staged
  <2>3. Change(i, new, interface) /\ UNCHANGED <<ledger, stale, index, remote, history>>
    BY <1>2, <2>1 DEF Pause
  <2> QED BY <2>2, <2>3, ChangeIsEdit
<1>3. ASSUME Unpause(i, interface)
      PROVE  Edit
  <2>1. Closing(s) \in Staged /\ Closing(s).id = s.id
    BY <1>1, ClosingIs
  <2>2. Change(i, Closing(s), interface) /\ UNCHANGED <<ledger, stale, index, remote, history>>
    BY <1>3 DEF Unpause
  <2> QED BY <2>1, <2>2, ChangeIsEdit
<1>4. ASSUME End(i, interface)
      PROVE  Edit
  <2>1. PICK c : c = IF s.status = "paused" THEN Closing(s) ELSE s
    OBVIOUS
  <2>2. c \in Staged /\ c.id = s.id /\ c.closed \in Nat
    BY <1>1, <2>1, ClosingIs
  <2>3. PICK d : d = Duration(c)
    OBVIOUS
  <2>4. d \in Nat
    BY <1>1, <2>2, <2>3, DurationIsNat
  <2>5. PICK new : new = [c EXCEPT !.status = "ended", !.duration = d]
    OBVIOUS
  <2>6. new \in Staged /\ new.id = s.id
    BY <2>2, <2>4, <2>5 DEF Staged
  <2>7. Change(i, new, interface) /\ UNCHANGED <<ledger, stale, index, remote, history>>
    BY <1>4, <2>1, <2>3, <2>5 DEF End
  <2> QED BY <2>6, <2>7, ChangeIsEdit
<1>5. ASSUME Modify(i)
      PROVE  Edit
  <2>1. PICK d : d = Duration(s)
    OBVIOUS
  <2>2. d \in Nat
    BY <1>1, <2>1, DurationIsNat
  <2>3. PICK new : new = [s EXCEPT !.duration = d]
    OBVIOUS
  <2>4. new \in Staged /\ new.id = s.id
    BY <1>1, <2>2, <2>3 DEF Staged
  <2>5. Change(i, new, "v030") /\ UNCHANGED <<ledger, stale, index, remote, history>>
    BY <1>5, <2>1, <2>3 DEF Modify
  <2> QED BY <2>4, <2>5, ChangeIsEdit
<1> QED BY <1>2, <1>3, <1>4, <1>5

LEMMA RewriteIsEdit ==
  ASSUME TypeInv, Rewrite
  PROVE  Edit
<1>1. staging \in Seq(Staged)
  BY DEF TypeInv
<1>2. \A i \in DOMAIN staging : Tokenised(staging[i]) \in Staged
                                /\ Tokenised(staging[i]).id = staging[i].id
  <2> TAKE i \in DOMAIN staging
  <2>1. staging[i] \in Staged
    BY StagedFacts
  <2> QED BY <2>1 DEF Tokenised, Staged
<1>3. staging' = [i \in 1..Len(staging) |-> Tokenised(staging[i])]
  BY <1>1 DEF Rewrite
<1>4. /\ staging' \in Seq(Staged) /\ Len(staging') = Len(staging)
      /\ \A i \in DOMAIN staging : staging'[i].id = staging[i].id
  BY <1>1, <1>2, <1>3
<1> QED BY <1>4 DEF Edit, Rewrite, Idle

LEMMA CaptureCaptures ==
  ASSUME TypeInv, NEW e \in Entry, NEW date \in Dates, NEW status \in {"active", "ended"},
         NEW interface, Capture(e, date, status, interface)
  PROVE  Captures
<1>1. PICK s : s = [id |-> e,
                    format |-> IF interface = "v030" THEN "legacy" ELSE "token",
                    status |-> status, closed |-> 0, open |-> 0,
                    duration |-> IF status = "ended" THEN Span[e] ELSE 0]
  OBVIOUS
<1>2. Span[e] \in Nat
  BY SpanAssumption
<1>3. s \in Staged /\ s.id = e
  BY <1>1, <1>2 DEF Staged
<1>4. /\ s.id \notin Captured \cup Foreign
      /\ staging' = Append(staging, s)
      /\ start' = [x \in Captured \cup {s.id} |-> IF x = s.id THEN date ELSE start[x]]
  BY <1>1, <1>3 DEF Capture
<1> QED BY <1>3, <1>4 DEF Captures, Capture, Idle

LEMMA ForgetsEntries ==
  ASSUME StartSync
  PROVE  Forgets
<1>1. PICK seen \in SUBSET remote :
        /\ staging' = Without({i \in DOMAIN staging : Recognised(i, seen)})
        /\ dropped' = dropped \cup {staging[i].id : i \in {j \in DOMAIN staging : Recognised(j, seen)}}
  BY DEF StartSync
<1>2. PICK gone : gone = {i \in DOMAIN staging : Recognised(i, seen)}
  OBVIOUS
<1>3. gone \in SUBSET DOMAIN staging
  BY <1>2
<1>4. staging' = Without(gone) /\ dropped' = dropped \cup {staging[i].id : i \in gone}
  BY <1>1, <1>2
<1>5. ASSUME NEW i \in gone
      PROVE  \E p \in remote : Title[p[1]] = Title[staging[i].id] /\ p[2] = start[staging[i].id]
  <2>1. <<Title[staging[i].id], start[staging[i].id]>> \in {<<Title[p[1]], p[2]>> : p \in seen}
    BY <1>2 DEF Recognised
  <2> QED BY <2>1
<1> QED BY <1>3, <1>4, <1>5 DEF Forgets, StartSync

\* The entries of a block are among those of its ledger.
LEMMA PublishedAre ==
  ASSUME TypeInv, NEW i \in DayPositions(ledger)
  PROVE  \A p \in Shown(ledger[i]) : p[1] \in IdsOf(Placed(ledger)) /\ p \in Entry \X Dates
<1>1. ledger \in Seq(Block) /\ i \in 1..Len(ledger) /\ IsDay(ledger[i]) /\ ledger[i] \in Block
  <2>1. ledger \in Seq(Block)
    BY DEF TypeInv, Chain
  <2>2. i \in 1..Len(ledger) /\ IsDay(ledger[i])
    BY <2>1 DEF DayPositions
  <2> QED BY <2>1, <2>2
<1>2. PICK b : b = ledger[i]
  OBVIOUS
<1>3. b \in DayBlk /\ b \in Block
  BY <1>1, <1>2, DatedIsSeq
<1>4. b.entries \in Seq(Committed) /\ b.date \in Dates /\ Dated(b) \in Seq(PlacedAt)
  BY <1>3, DatedIsSeq DEF DayBlk
<1>5. IdsOf(Dated(b)) \subseteq IdsOf(Placed(ledger))
  <2>1. PICK x : x = SubSeq(ledger, 1, i)
    OBVIOUS
  <2>2. PICK y : y = SubSeq(ledger, i + 1, Len(ledger))
    OBVIOUS
  <2>3. x \in Seq(Block) /\ y \in Seq(Block) /\ ledger = x \o y
    BY <1>1, <2>1, <2>2, SplitAt
  <2>4. PICK w : w = SubSeq(ledger, 1, i - 1)
    OBVIOUS
  <2>5. w \in Seq(Block) /\ Len(w) = i - 1 /\ x = Append(w, b)
    <3>1. i - 1 \in 0..Len(ledger)
      BY <1>1
    <3>2. w \in Seq(Block) /\ Len(w) = i - 1 /\ \A k \in 1..(i - 1) : w[k] = ledger[k]
      BY <1>1, <2>4, <3>1
    <3>3. PICK v : v = Append(w, b)
      OBVIOUS
    <3>4. v \in Seq(Block) /\ Len(v) = i /\ \A k \in 1..i : v[k] = ledger[k]
      BY <1>1, <1>2, <1>3, <3>2, <3>3
    <3>5. x \in Seq(Block) /\ Len(x) = i /\ \A k \in 1..i : x[k] = ledger[k]
      BY <1>1, <2>1, <2>3
    <3>6. v = x
      BY <3>4, <3>5, SeqEqual
    <3> QED BY <3>2, <3>3, <3>6
  <2>6. Placed(x) = Placed(w) \o Dated(b) /\ Placed(w) \in Seq(PlacedAt)
        /\ Placed(ledger) = Placed(x) \o Placed(y) /\ Placed(x) \in Seq(PlacedAt)
        /\ Placed(y) \in Seq(PlacedAt)
    BY <1>3, <2>3, <2>5, PlacedAppend, PlacedConcat
  <2>7. IdsOf(Placed(x)) = IdsOf(Placed(w)) \cup IdsOf(Dated(b))
    BY <1>4, <2>6, IdsConcat
  <2>8. IdsOf(Placed(ledger)) = IdsOf(Placed(x)) \cup IdsOf(Placed(y))
    <3>1. PICK px, py : px = Placed(x) /\ py = Placed(y)
      OBVIOUS
    <3>2. px \in Seq(PlacedAt) /\ py \in Seq(PlacedAt)
      BY <2>6, <3>1
    <3>3. IdsOf(px \o py) = IdsOf(px) \cup IdsOf(py)
      BY <3>2, IdsConcat
    <3> QED BY <2>6, <3>1, <3>3
  <2> QED BY <2>7, <2>8
<1>6. ASSUME NEW p \in Shown(b)
      PROVE  p[1] \in IdsOf(Dated(b)) /\ p \in Entry \X Dates
  <2>1. PICK k \in DOMAIN b.entries : p = <<b.entries[k].id, b.date>>
    BY DEF Shown, ToSet
  <2>2. b.entries[k] \in Committed
    BY <1>4
  <2>3. k \in DOMAIN Dated(b) /\ Dated(b)[k].entry = b.entries[k]
    BY DEF Dated
  <2>4. p[1] \in IdsOf(Dated(b))
    BY <2>1, <2>3 DEF IdsOf
  <2> QED BY <1>4, <2>1, <2>2, <2>4 DEF Committed
<1> QED BY <1>2, <1>5, <1>6

LEMMA PullPulls ==
  ASSUME TypeInv, NEW e \in Entry, NEW date \in Dates, NEW sealed \in BOOLEAN,
         Pull(e, date, sealed)
  PROVE  Pulls
<1>1. PICK c : c = [id |-> e, sealed |-> sealed, duration |-> Span[e]]
  OBVIOUS
<1>2. Span[e] \in Nat
  BY SpanAssumption
<1>3. c \in Committed /\ c.id = e
  BY <1>1, <1>2 DEF Committed
<1>4. PICK day : day = DayBlock(date, <<c>>)
  OBVIOUS
<1>5. day \in DayBlk /\ day.date = date /\ day.entries = <<c>>
  BY <1>3, <1>4 DEF DayBlock, DayBlk
<1>6. IdsOf(Dated(day)) = {e}
  BY <1>3, <1>5 DEF Dated, IdsOf
<1>7. ledger' = ledger \o Append(Summaries(Last(ledger), day.date), day)
  BY <1>1, <1>4, <1>5 DEF Pull
<1>8. disturbed' # 0 /\ disturbed' \in Nat
  BY DEF Pull, Disturb, TypeInv
<1>9. remote' = remote \cup Shown(day) /\ \A p \in Shown(day) : p = <<e, day.date>>
  <2>1. ToSet(day.entries) = {c}
    BY <1>5 DEF ToSet
  <2>2. \A p \in Shown(day) : p = <<e, day.date>>
    BY <1>3, <2>1 DEF Shown
  <2>3. remote' = remote \cup Shown(day)
    BY <1>1, <1>4 DEF Pull
  <2> QED BY <2>2, <2>3
<1>10. e \in Elsewhere
  <2>1. e \in Foreign \ Captured \/ <<e, date>> \in remote
    BY DEF Pull
  <2>2. <<e, date>>[1] = e
    OBVIOUS
  <2> QED BY <2>1, <2>2 DEF Elsewhere
<1>11. remote \subseteq remote' /\ \A p \in remote' \ remote : p = <<e, day.date>>
  BY <1>9
<1>12. pc = "idle" /\ UNCHANGED <<staging, stale, index, control, start, removed, dropped>>
  BY DEF Pull, Idle
<1> QED BY <1>5, <1>6, <1>7, <1>8, <1>10, <1>11, <1>12 DEF Pulls

\* Every step is one of these, or one of the steps of a command.
StepKinds ==
  \/ Edit \/ Captures \/ Removes \/ Forgets \/ SelectNothing \/ Syncs \/ Syncs030
  \/ AppendSummary \/ CountEntry \/ AppendDay
  \/ VerifyHolds \/ VerifyFails \/ RemoveSynced
  \/ Reverts \/ UncountEntry \/ RestoreStaging \/ TruncateLedger
  \/ Index030 \/ Staging030
  \/ Kill \/ Reseal \/ Publishes \/ Pulls

LEMMA NextIsOneOf == TypeInv /\ Next => StepKinds
<1> SUFFICES ASSUME TypeInv, Next PROVE StepKinds
  OBVIOUS
<1>1. CASE \E interface \in Interfaces :
             \/ \E e \in Entry, date \in Dates, status \in {"active", "ended"} :
                  Capture(e, date, status, interface)
             \/ \E i \in DOMAIN staging :
                  Pause(i, interface) \/ Unpause(i, interface) \/ End(i, interface)
  BY <1>1, CaptureCaptures, EditSteps DEF StepKinds
<1>2. CASE \E i \in DOMAIN staging : Modify(i) \/ RemoveStaged(i)
  BY <1>2, EditSteps DEF StepKinds, Removes
<1>3. CASE Rewrite
  BY <1>3, RewriteIsEdit DEF StepKinds
<1>4. CASE \E positions \in (SUBSET Pending) \ {{}} :
             \/ Select(positions)
             \/ "v030" \in Interfaces /\ SyncDay030(positions)
  <2>1. PICK positions \in (SUBSET Pending) \ {{}} : Select(positions) \/ SyncDay030(positions)
    BY <1>4
  <2>2. positions \in Selections
    <3>1. \A i \in positions : i \in Pending
      BY <2>1
    <3>2. \A i \in positions : i \in DOMAIN staging
      BY <3>1 DEF Pending
    <3>3. positions # {}
      BY <2>1
    <3> QED BY <3>2, <3>3 DEF Selections
  <2> QED BY <2>1, <2>2 DEF StepKinds, Syncs, Syncs030
<1>5. CASE \E n \in 1..Len(ledger) : StartRevert(n)
  BY <1>5 DEF StepKinds, Reverts
<1>6. CASE \E e \in Entry, date \in Dates, sealed \in BOOLEAN : Pull(e, date, sealed)
  BY <1>6, PullPulls DEF StepKinds
<1>7. CASE \/ AppendSummary \/ CountEntry \/ AppendDay
           \/ VerifyHolds \/ VerifyFails \/ RemoveSynced
           \/ UncountEntry \/ RestoreStaging \/ TruncateLedger
           \/ Index030 \/ Staging030 \/ Kill \/ Reseal \/ SelectNothing
           \/ \E i \in DayPositions(ledger) : Publish(i)
  BY <1>7 DEF StepKinds, Publishes
<1>8. CASE "cli" \in Interfaces /\ StartSync
  BY <1>8, ForgetsEntries DEF StepKinds
<1> QED BY <1>1, <1>2, <1>3, <1>4, <1>5, <1>6, <1>7, <1>8 DEF Next

-----------------------------------------------------------------------------
\* Types.

\* Where the ledger stands in a revert.
LEMMA RevertedAre ==
  ASSUME TypeInv, ControlInv, pc \in {"uncount", "truncate"},
         NEW kept, kept = SubSeq(ledger, 1, FirstReverted - 1)
  PROVE  /\ Chain(kept) /\ (AllFit(ledger) => AllFit(kept))
         /\ Placed(kept) \in Seq(PlacedAt) /\ RevertedEntries \in Seq(PlacedAt)
         /\ Placed(ledger) = Placed(kept) \o RevertedEntries
<1>1. Chain(ledger) /\ reverting \in 1..Cardinality(DayPositions(ledger))
  BY DEF TypeInv, ControlInv
<1>2. kept = SubSeq(ledger, 1, RevertStart(ledger, reverting) - 1)
  BY DEF FirstReverted
<1>3. RevertedEntries = Taken(ledger, reverting)
  BY DEF RevertedEntries, Taken, FirstReverted
<1> QED BY <1>1, <1>2, <1>3, RevertParts

LEMMA IndexTypes ==
  ASSUME TypeInv
  PROVE  /\ Loaded \in Index
         /\ \A cells \in Index :
              Flushed(cells) \in [sealed : Index, plain : Index, wrapped : BOOLEAN]
<1>1. EmptyIndex \in Index
  BY DEF EmptyIndex, Index
<1>2. Loaded \in Index
  BY DEF TypeInv, Loaded
<1> QED BY <1>1, <1>2 DEF Flushed

\* The days and summaries a commit starts with.
LEMMA StartOfCommit ==
  ASSUME TypeInv, KnownInv, NEW positions \in Selections,
         NEW ds, ds = DaysOf(positions)
  PROVE  /\ ds \in Seq(DayBlk) /\ ds # <<>> /\ ds[1] \in DayBlk
         /\ Between(Last(ledger), Summaries(Last(ledger), ds[1].date), ds[1])
         /\ IdsOf(Placed(ds)) = {staging[i].id : i \in positions}
         /\ StagedOnce(staging) => OnceIn(Placed(ds))
         /\ positions \subseteq DOMAIN staging /\ Placed(ds) \in Seq(PlacedAt)
<1>1. positions \in SUBSET DOMAIN staging /\ positions # {}
  BY DEF Selections
<1>2. /\ ds \in Seq(DayBlk) /\ ds # <<>>
      /\ IdsOf(Placed(ds)) = {staging[i].id : i \in positions}
      /\ StagedOnce(staging) => OnceIn(Placed(ds))
  BY <1>1, DaysOfPicked DEF TypeInv, KnownInv
<1>3. ds[1] \in DayBlk
  BY <1>2
<1>4. Last(ledger) \in Block
  BY <1>3, ChainAppend DEF TypeInv
<1>5. Between(Last(ledger), Summaries(Last(ledger), ds[1].date), ds[1])
  BY <1>3, <1>4, SummariesBetween
<1>6. ds \in Seq(Block)
  BY <1>2 DEF Block
<1>7. Placed(ds) \in Seq(PlacedAt)
  BY <1>6, PlacedConcat
<1> QED BY <1>1, <1>2, <1>3, <1>5, <1>7

\* What follows in a commit after a day block.
LEMMA NextDay ==
  ASSUME TypeInv, ControlInv, AppendDay
  PROVE  /\ days[1] \in DayBlk /\ days[1] \in Block /\ days' \in Seq(DayBlk)
         /\ Chain(ledger') /\ Last(ledger') = days[1]
         /\ Placed(ledger') = Placed(ledger) \o Dated(days[1])
         /\ Placed(days) = Dated(days[1]) \o Placed(days')
         /\ Placed(ledger) \in Seq(PlacedAt) /\ Dated(days[1]) \in Seq(PlacedAt)
         /\ Placed(days') \in Seq(PlacedAt)
         /\ AllFit(ledger) /\ Fits(Last(ledger), days[1]) => AllFit(ledger')
         /\ days' # <<>> => Between(Last(ledger'), owed', days'[1])
<1>1. PICK day : day = days[1]
  OBVIOUS
<1>2. PICK rest : rest = Tail(days)
  OBVIOUS
<1>3. days \in Seq(DayBlk) /\ days # <<>> /\ Chain(ledger) /\ pc = "append"
  BY DEF TypeInv, ControlInv, AppendDay
<1>4. day \in DayBlk /\ rest \in Seq(DayBlk) /\ days = <<day>> \o rest
  <2>1. day \in DayBlk /\ rest \in Seq(DayBlk)
    BY <1>1, <1>2, <1>3
  <2>2. PICK x : x = <<day>> \o rest
    OBVIOUS
  <2>3. /\ x \in Seq(DayBlk) /\ Len(x) = Len(days)
        /\ \A i \in 1..Len(days) : x[i] = days[i]
    <3>1. /\ Len(rest) = Len(days) - 1 /\ Len(days) \in Nat
          /\ \A i \in 1..Len(rest) : rest[i] = days[i + 1]
      BY <1>2, <1>3
    <3>2. PICK one : one = <<day>>
      OBVIOUS
    <3>3. one \in Seq(DayBlk) /\ Len(one) = 1 /\ one[1] = day /\ 1 \in 1..1
      BY <2>1, <3>2
    <3>4. x \in Seq(DayBlk) /\ Joined(one, rest, x)
      BY <2>1, <2>2, <3>2, <3>3, ConcatParts
    <3>5. Len(x) = Len(days)
      BY <3>1, <3>3, <3>4 DEF Joined
    <3>6. ASSUME NEW i \in 1..Len(days)
          PROVE  x[i] = days[i]
      <4>1. CASE i = 1
        BY <1>1, <3>3, <3>4, <4>1 DEF Joined
      <4>2. CASE i # 1
        <5>1. i - 1 \in 1..Len(rest) /\ 1 + (i - 1) = i /\ (i - 1) + 1 = i
          BY <3>1, <4>2
        <5>2. x[1 + (i - 1)] = rest[i - 1]
          BY <3>3, <3>4, <5>1 DEF Joined
        <5>3. rest[i - 1] = days[(i - 1) + 1]
          BY <3>1, <5>1
        <5> QED BY <5>1, <5>2, <5>3
      <4> QED BY <4>1, <4>2
    <3> QED BY <3>4, <3>5, <3>6
  <2>4. x = days
    BY <1>3, <2>3, SeqEqual
  <2> QED BY <2>1, <2>2, <2>4
<1>5. ledger' = Append(ledger, day) /\ days' = rest
  BY <1>1, <1>2 DEF AppendDay
<1>6. day \in Block /\ <<day>> \in Seq(Block) /\ rest \in Seq(Block) /\ ledger \in Seq(Block)
      /\ Len(ledger) >= 1
  BY <1>3, <1>4 DEF Block, Chain
<1>7. Chain(ledger') /\ Last(ledger') = day
  BY <1>3, <1>4, <1>5, ChainAppend
<1>8. Placed(ledger') = Placed(ledger) \o Dated(day)
  BY <1>5, <1>6, PlacedAppend
<1>9. Placed(days) = Dated(day) \o Placed(rest) /\ Placed(rest) \in Seq(PlacedAt)
  <2>1. PICK one : one = <<day>>
    OBVIOUS
  <2>2. one \in Seq(Block) /\ days = one \o rest /\ Placed(one) = Dated(day)
    BY <1>4, <1>6, <2>1, PlacedSmall
  <2> QED BY <1>6, <2>2, PlacedConcat
<1>10. Placed(ledger) \in Seq(PlacedAt) /\ Dated(day) \in Seq(PlacedAt)
  BY <1>6, PlacedConcat, DatedIsSeq
<1>11. AllFit(ledger) /\ Fits(Last(ledger), day) => AllFit(ledger')
  BY <1>5, <1>6, FitAppend
<1>12. ASSUME rest # <<>>
       PROVE  Between(Last(ledger'), owed', rest[1])
  <2>1. owed' = Summaries(day, rest[1].date)
    BY <1>1, <1>5, <1>12 DEF AppendDay
  <2>2. rest[1] \in DayBlk
    BY <1>4, <1>12
  <2> QED BY <1>6, <1>7, <2>1, <2>2, SummariesBetween
<1> QED BY <1>1, <1>4, <1>5, <1>6, <1>7, <1>8, <1>9, <1>10, <1>11, <1>12

\* The commit of version 0.3.0, and a day from another device.
LEMMA LedgerGrows ==
  ASSUME TypeInv, KnownInv
  PROVE  /\ Syncs030 =>
              /\ Chain(ledger') /\ (AllFit(ledger) => AllFit(ledger'))
              /\ days' \in Seq(DayBlk) /\ chosen' \subseteq DOMAIN staging
              /\ Placed(ledger') = Placed(ledger) \o Placed(days')
              /\ Placed(ledger) \in Seq(PlacedAt) /\ Placed(days') \in Seq(PlacedAt)
              /\ IdsOf(Placed(days')) = {staging[i].id : i \in chosen'}
              /\ StagedOnce(staging) => OnceIn(Placed(days'))
         /\ Pulls =>
              /\ Chain(ledger') /\ (AllFit(ledger) => AllFit(ledger'))
              /\ IdsOf(Placed(ledger')) \subseteq IdsOf(Placed(ledger)) \cup Elsewhere
              /\ IdsOf(Placed(ledger)) \subseteq IdsOf(Placed(ledger'))
<1>1. Chain(ledger) /\ ledger \in Seq(Block) /\ Placed(ledger) \in Seq(PlacedAt)
  <2>1. Chain(ledger) /\ ledger \in Seq(Block)
    BY DEF TypeInv, Chain
  <2> QED BY <2>1, PlacedConcat
<1>2. ASSUME NEW positions \in Selections, SyncDay030(positions)
      PROVE  /\ Chain(ledger') /\ (AllFit(ledger) => AllFit(ledger'))
             /\ days' \in Seq(DayBlk) /\ chosen' \subseteq DOMAIN staging
             /\ Placed(ledger') = Placed(ledger) \o Placed(days')
             /\ Placed(ledger) \in Seq(PlacedAt) /\ Placed(days') \in Seq(PlacedAt)
             /\ IdsOf(Placed(days')) = {staging[i].id : i \in chosen'}
             /\ StagedOnce(staging) => OnceIn(Placed(days'))
  <2>1. days' = DaysOf(positions) /\ chosen' = positions /\ ledger' = LegacyCommit(ledger, days')
    BY <1>2 DEF SyncDay030
  <2>2. /\ days' \in Seq(DayBlk)
        /\ IdsOf(Placed(days')) = {staging[i].id : i \in positions}
        /\ StagedOnce(staging) => OnceIn(Placed(days'))
        /\ positions \subseteq DOMAIN staging /\ Placed(days') \in Seq(PlacedAt)
    BY <2>1, StartOfCommit
  <2>3. /\ Chain(ledger') /\ (AllFit(ledger) => AllFit(ledger'))
        /\ Placed(ledger') = Placed(ledger) \o Placed(days')
    BY <1>1, <2>1, <2>2, LegacyCommitGrows
  <2> QED BY <1>1, <2>1, <2>2, <2>3
<1>3. ASSUME NEW day \in DayBlk, NEW e \in Elsewhere, IdsOf(Dated(day)) = {e},
             ledger' = ledger \o Append(Summaries(Last(ledger), day.date), day)
      PROVE  /\ Chain(ledger') /\ (AllFit(ledger) => AllFit(ledger'))
             /\ IdsOf(Placed(ledger')) \subseteq IdsOf(Placed(ledger)) \cup Elsewhere
             /\ IdsOf(Placed(ledger)) \subseteq IdsOf(Placed(ledger'))
  <2>1. Last(ledger) \in Block
    BY <1>1, ChainAppend
  <2>2. PICK sums : sums = Summaries(Last(ledger), day.date)
    OBVIOUS
  <2>3. Between(Last(ledger), sums, day)
    BY <2>1, <2>2, SummariesBetween
  <2>4. PICK t : t = ledger'
    OBVIOUS
  <2>5. t = ledger \o Append(sums, day)
    BY <1>3, <2>2, <2>4
  <2>6. Chain(t) /\ (AllFit(ledger) => AllFit(t)) /\ Placed(t) = Placed(ledger) \o Dated(day)
    BY <1>1, <2>3, <2>5, ChainGrow, ZenonT(30)
  <2>7. Dated(day) \in Seq(PlacedAt)
    <3>1. day \in Block
      BY DEF Block
    <3> QED BY <3>1, DatedIsSeq
  <2>8. IdsOf(Placed(t)) = IdsOf(Placed(ledger)) \cup IdsOf(Dated(day))
    BY <1>1, <2>6, <2>7, IdsConcat
  <2> QED BY <1>3, <2>4, <2>6, <2>8
<1>4. ASSUME Syncs030
      PROVE  \E positions \in Selections : SyncDay030(positions)
  BY <1>4 DEF Syncs030
<1>5. ASSUME Pulls
      PROVE  \E day \in DayBlk, e \in Elsewhere :
               /\ IdsOf(Dated(day)) = {e}
               /\ ledger' = ledger \o Append(Summaries(Last(ledger), day.date), day)
  BY <1>5 DEF Pulls
<1> QED BY <1>2, <1>3, <1>4, <1>5

LEMMA TypeInit == Init => TypeInv
<1> SUFFICES ASSUME Init PROVE TypeInv
  OBVIOUS
<1>1. staging \in Seq(Staged) /\ owed \in Seq(Summary) /\ days \in Seq(DayBlk)
  BY DEF Init
<1>2. Chain(ledger)
  <2>1. ledger = <<Genesis(FirstDate)>> /\ Genesis(FirstDate) \in Block
    BY DEF Init, Block
  <2>2. ledger \in Seq(Block) /\ Len(ledger) = 1 /\ ledger[1] = Genesis(FirstDate)
    BY <2>1
  <2> QED BY <2>2 DEF Chain
<1>3. EmptyIndex \in Index
  BY DEF EmptyIndex, Index
<1>4. index \in [sealed : Index, plain : Index, wrapped : BOOLEAN]
  BY <1>3 DEF Init
<1>5. Captured = {} /\ start \in [Captured -> Dates]
  BY DEF Init, Captured
<1>6. chosen \subseteq DOMAIN staging /\ removed \subseteq Captured /\ Captured \subseteq Entry
      /\ dropped \subseteq Captured /\ remote \subseteq Entry \X Dates
  BY <1>5 DEF Init
<1>7. /\ stale \in BOOLEAN /\ pc \in Steps /\ counted \in Nat /\ reverting \in Nat
      /\ disturbed \in Nat
  BY DEF Init, Steps
<1> QED BY <1>1, <1>2, <1>4, <1>5, <1>6, <1>7 DEF TypeInv

LEMMA TypeStep ==
  ASSUME TypeInv, ControlInv, KnownInv, StepKinds \/ UNCHANGED vars
  PROVE  TypeInv'
<1> USE DEF TypeInv
<1>1. CASE UNCHANGED vars
  BY <1>1 DEF vars, files, control, history, Captured, Loaded
<1>2. CASE Edit
  <2>1. DOMAIN staging' = DOMAIN staging
    BY <1>2 DEF Edit
  <2> QED BY <1>2, <2>1 DEF Edit, control, history, Captured
<1>3. CASE Captures
  <2>1. PICK s \in Staged, date \in Dates :
          /\ staging' = Append(staging, s)
          /\ start' = [x \in Captured \cup {s.id} |-> IF x = s.id THEN date ELSE start[x]]
    BY <1>3 DEF Captures
  <2>2. staging' \in Seq(Staged) /\ s.id \in Entry
    BY <2>1 DEF Staged
  <2>3. Captured' = Captured \cup {s.id}
    BY <2>1 DEF Captured
  <2>4. start' \in [Captured' -> Dates]
    BY <2>1, <2>3
  <2>5. chosen' \subseteq DOMAIN staging'
    BY <1>3, <2>1 DEF Captures, control, ControlInv
  <2> QED BY <1>3, <2>2, <2>3, <2>4, <2>5 DEF Captures, control
<1>4. CASE Removes
  <2>1. PICK i \in DOMAIN staging : RemoveStaged(i)
    BY <1>4 DEF Removes
  <2>2. staging' \in Seq(Staged)
    BY <2>1, StagedRemove DEF RemoveStaged
  <2>3. staging[i].id \in Captured
    BY DEF KnownInv, Ids
  <2>4. removed' \subseteq Captured /\ chosen' = {}
    BY <2>1, <2>3 DEF RemoveStaged, ControlInv, Idle, control
  <2> QED BY <2>1, <2>2, <2>4 DEF RemoveStaged, Idle, control, Captured
<1>5. CASE Syncs
  <2>1. PICK positions \in Selections : Select(positions)
    BY <1>5 DEF Syncs
  <2>2. /\ days' \in Seq(DayBlk) /\ positions \subseteq DOMAIN staging
        /\ Between(Last(ledger), Summaries(Last(ledger), days'[1].date), days'[1])
    BY <2>1, StartOfCommit DEF Select
  <2>3. owed' \in Seq(Summary)
    BY <2>1, <2>2 DEF Select, Between
  <2> QED BY <2>1, <2>2, <2>3 DEF Select, history, files, Captured, Steps
<1>6. CASE Syncs030
  <2>1. Chain(ledger') /\ days' \in Seq(DayBlk) /\ chosen' \subseteq DOMAIN staging
    BY <1>6, LedgerGrows
  <2> QED BY <1>6, <2>1 DEF Syncs030, SyncDay030, history, Captured, Steps
<1>7. CASE AppendSummary
  <2>1. owed[1] \in Summary /\ owed' \in Seq(Summary)
    BY <1>7 DEF AppendSummary
  <2>2. Chain(ledger')
    BY <1>7, <2>1, ChainAppend DEF AppendSummary
  <2> QED BY <1>7, <2>1, <2>2 DEF AppendSummary, history, Captured
<1>8. CASE CountEntry
  <2>1. PICK q : q = days[1].entries[counted + 1]
    OBVIOUS
  <2>2. q.duration \in Nat
    <3>1. days[1] \in DayBlk
      BY <1>8 DEF CountEntry, ControlInv
    <3>2. days[1].entries \in Seq(Committed)
      BY <3>1 DEF DayBlk
    <3>3. counted + 1 \in 1..Len(days[1].entries)
      BY <1>8, <3>2 DEF CountEntry
    <3>4. q \in Committed
      BY <2>1, <3>2, <3>3
    <3> QED BY <3>4 DEF Committed
  <2>3. PICK cells : cells = Adjusted(Loaded, CellOf(days[1].date, q), q.duration)
    OBVIOUS
  <2>4. cells \in Index
    BY <2>2, <2>3, IndexTypes, AdjustedInIndex
  <2>5. index' = Flushed(cells)
    BY <1>8, <2>1, <2>3 DEF CountEntry
  <2>6. index' \in [sealed : Index, plain : Index, wrapped : BOOLEAN]
    BY <2>4, <2>5, IndexTypes
  <2> QED BY <1>8, <2>6 DEF CountEntry, history, Captured
<1>9. CASE AppendDay
  <2>1. days' \in Seq(DayBlk) /\ Chain(ledger')
    BY <1>9, NextDay
  <2>2. owed' \in Seq(Summary) /\ pc' \in Steps
    <3>1. days' # <<>> => owed' \in Seq(Summary)
      BY <1>9, NextDay DEF Between
    <3>2. days' = <<>> => owed' = <<>>
      BY <1>9 DEF AppendDay
    <3>3. pc' = pc \/ pc' = "verify"
      BY <1>9 DEF AppendDay
    <3>4. pc' \in Steps
      BY <3>3 DEF Steps
    <3>5. <<>> \in Seq(Summary)
      OBVIOUS
    <3> QED BY <3>1, <3>2, <3>4, <3>5
  <2> QED BY <1>9, <2>1, <2>2 DEF AppendDay, history, Captured
<1>10. CASE VerifyHolds
  BY <1>10 DEF VerifyHolds, files, history, Captured, Steps
<1>11. CASE VerifyFails
  BY <1>11 DEF VerifyFails, files, history, Captured, Steps
<1>12. CASE RemoveSynced \/ Staging030
  <2>1. staging' = Without(chosen) /\ DOMAIN staging \ chosen \in SUBSET DOMAIN staging
    BY <1>12 DEF RemoveSynced, Staging030
  <2>2. staging' \in Seq(Staged)
    BY <2>1, PickedIds DEF Without
  <2>3. /\ pc' = "idle" /\ days' = <<>> /\ owed' = <<>> /\ counted' = 0 /\ chosen' = {}
        /\ reverting' = 0
        /\ UNCHANGED <<ledger, stale, index, remote, start, removed, dropped, disturbed>>
    BY <1>12 DEF RemoveSynced, Staging030, Done
  <2>4. pc' \in Steps /\ days' \in Seq(DayBlk) /\ owed' \in Seq(Summary)
    BY <2>3 DEF Steps
  <2>5. Captured' = Captured
    BY <2>3 DEF Captured
  <2> QED BY <2>2, <2>3, <2>4, <2>5
<1>13. CASE Reverts
  BY <1>13 DEF Reverts, StartRevert, files, history, Captured, Steps
<1>14. CASE UncountEntry
  <2>1. PICK r : r = RevertedEntries[counted + 1]
    OBVIOUS
  <2>2. r.entry.duration \in Nat
    <3>1. RevertedEntries \in Seq(PlacedAt)
      BY <1>14, RevertedAre DEF UncountEntry
    <3>2. counted + 1 \in 1..Len(RevertedEntries)
      BY <1>14, <3>1 DEF UncountEntry
    <3>3. r \in PlacedAt
      BY <2>1, <3>1, <3>2
    <3> QED BY <3>3 DEF PlacedAt, Committed
  <2>3. PICK cells : cells = Adjusted(Loaded, CellOf(r.date, r.entry), 0 - r.entry.duration)
    OBVIOUS
  <2>4. cells \in Index
    <3>1. 0 - r.entry.duration \in Int
      BY <2>2
    <3> QED BY <2>3, <3>1, IndexTypes, AdjustedInIndex
  <2>5. index' = Flushed(cells)
    BY <1>14, <2>1, <2>3 DEF UncountEntry
  <2>6. index' \in [sealed : Index, plain : Index, wrapped : BOOLEAN]
    BY <2>4, <2>5, IndexTypes
  <2> QED BY <1>14, <2>6 DEF UncountEntry, history, Captured
<1>15. CASE RestoreStaging
  <2>1. PICK back : back = [k \in DOMAIN RevertedEntries |-> Restored(RevertedEntries[k].entry)]
    OBVIOUS
  <2>2. RevertedEntries \in Seq(PlacedAt)
    BY <1>15, RevertedAre DEF RestoreStaging
  <2>3. back \in Seq(Staged)
    BY <2>1, <2>2, RestoredIds
  <2>4. staging' = staging \o back
    BY <1>15, <2>1 DEF RestoreStaging
  <2>5. staging' \in Seq(Staged) /\ \A i \in DOMAIN staging : i \in DOMAIN staging'
    BY <2>3, <2>4, StagedConcat
  <2>6. /\ StartsKnown \in [Captured \cup IdsOf(RevertedEntries) -> Dates]
        /\ Captured \cup IdsOf(RevertedEntries) \subseteq Entry
    BY <2>2, StartsAreKnown
  <2>7. Captured' = Captured \cup IdsOf(RevertedEntries)
    BY <1>15, <2>6 DEF RestoreStaging, Captured
  <2>8. start' \in [Captured' -> Dates]
    BY <1>15, <2>6, <2>7 DEF RestoreStaging
  <2> QED BY <1>15, <2>5, <2>6, <2>7, <2>8 DEF RestoreStaging, Steps
<1>16. CASE TruncateLedger
  <2>1. Chain(ledger')
    BY <1>16, RevertedAre DEF TruncateLedger
  <2> QED BY <1>16, <2>1 DEF TruncateLedger, Done, Captured, Steps
<1>17. CASE Index030
  <2>1. PICK total : total = [c \in Cell |-> index.plain[c] + Total(Placed(days), c)]
    OBVIOUS
  <2>2. total \in Index
    <3>1. days \in Seq(Block)
      BY DEF Block
    <3>2. \A c : Total(Placed(days), c) \in Nat
      BY <3>1, PlacedConcat, TotalIsNat
    <3>3. \A c \in Cell : index.plain[c] + Total(Placed(days), c) \in Nat
      BY <3>2 DEF Index
    <3> QED BY <2>1, <3>3 DEF Index
  <2>3. index' = [index EXCEPT !.plain = total]
    BY <1>17, <2>1 DEF Index030
  <2>4. index' \in [sealed : Index, plain : Index, wrapped : BOOLEAN]
    BY <2>2, <2>3
  <2> QED BY <1>17, <2>4 DEF Index030, Captured, Steps
<1>18. CASE Kill
  BY <1>18 DEF Kill, Done, Disturb, files, Captured, Steps
<1>19. CASE Reseal
  BY <1>19 DEF Reseal, Idle, Disturb, control, Captured
<1>20. CASE Pulls
  <2>1. Chain(ledger')
    BY <1>20, LedgerGrows
  <2>2. remote' \subseteq Entry \X Dates
    <3>1. PICK day \in DayBlk, e \in Elsewhere : \A p \in remote' \ remote : p = <<e, day.date>>
      BY <1>20 DEF Pulls
    <3>2. e \in Entry /\ day.date \in Dates
      BY EntriesAssumption DEF Elsewhere, DayBlk
    <3> QED BY <3>1, <3>2
  <2> QED BY <1>20, <2>1, <2>2 DEF Pulls, control, Captured
<1>21. CASE Forgets
  <2>1. PICK gone \in SUBSET DOMAIN staging :
          staging' = Without(gone) /\ dropped' = dropped \cup {staging[i].id : i \in gone}
    BY <1>21 DEF Forgets
  <2>2. staging' \in Seq(Staged)
    <3>1. DOMAIN staging \ gone \in SUBSET DOMAIN staging
      OBVIOUS
    <3> QED BY <2>1, <3>1, PickedIds DEF Without
  <2>3. dropped' \subseteq Captured
    BY <2>1 DEF KnownInv, Ids
  <2>4. chosen' = {}
    BY <1>21 DEF Forgets, ControlInv
  <2> QED BY <1>21, <2>2, <2>3, <2>4 DEF Forgets, Captured, Steps
<1>22. CASE SelectNothing
  BY <1>22 DEF SelectNothing, Done, Captured, Steps
<1>23. CASE Publishes
  <2>1. PICK i \in DayPositions(ledger) : Publish(i)
    BY <1>23 DEF Publishes
  <2>2. remote' \subseteq Entry \X Dates
    BY <2>1, PublishedAre DEF Publish
  <2> QED BY <2>1, <2>2 DEF Publish, Idle, control, history, Captured
<1> QED BY <1>1, <1>2, <1>3, <1>4, <1>5, <1>6, <1>7, <1>8, <1>9, <1>10, <1>11, <1>12, <1>13,
           <1>14, <1>15, <1>16, <1>17, <1>18, <1>19, <1>20, <1>21, <1>22, <1>23 DEF StepKinds

-----------------------------------------------------------------------------
\* The variables of a command.

LEMMA OneDay ==
  ASSUME NEW s, Chain(s), IsDay(Last(s))
  PROVE  1 \in 1..Cardinality(DayPositions(s))
<1> DEFINE D == DayPositions(s)
<1>1. s \in Seq(Block) /\ Len(s) \in Nat /\ Len(s) >= 1
  BY DEF Chain
<1>2. Len(s) \in D
  <2>1. Len(s) \in DOMAIN s
    BY <1>1
  <2> QED BY <2>1 DEF DayPositions, Last
<1>3. IsFiniteSet(D)
  <2>1. IsFiniteSet(1..Len(s))
    BY <1>1, FS_Interval
  <2>2. D \subseteq 1..Len(s)
    BY <1>1 DEF DayPositions
  <2> QED BY <2>1, <2>2, FS_Subset
<1> HIDE DEF D
<1>4. Cardinality(D) \in Nat /\ Cardinality(D) # 0
  BY <1>2, <1>3, FS_CardinalityType, FS_EmptySet
<1> QED BY <1>4 DEF D

LEMMA ControlInit == Init => ControlInv
BY DEF Init, ControlInv

LEMMA ControlStep ==
  ASSUME TypeInv, ControlInv, KnownInv, StepKinds \/ UNCHANGED vars
  PROVE  ControlInv'
<1> USE DEF ControlInv
<1>1. CASE UNCHANGED vars
  <2>1. RevertedEntries' = RevertedEntries
    BY <1>1 DEF vars, files, control, RevertedEntries, FirstReverted
  <2> QED BY <1>1, <2>1 DEF vars, files, control, history
<1>2. CASE Edit
  BY <1>2 DEF Edit, control, history
<1>3. CASE Captures
  BY <1>3 DEF Captures, control
<1>4. CASE Removes
  BY <1>4 DEF Removes, RemoveStaged, Idle, control
<1>5. CASE Syncs
  <2>1. PICK positions \in Selections : Select(positions)
    BY <1>5 DEF Syncs
  <2>2. days' # <<>> /\ days'[1] \in DayBlk
    BY <2>1, StartOfCommit DEF Select
  <2>3. Len(days'[1].entries) \in Nat
    BY <2>2 DEF DayBlk
  <2> QED BY <2>1, <2>2, <2>3 DEF Select, history, files
<1>6. CASE Syncs030
  BY <1>6 DEF Syncs030, SyncDay030, history
<1>7. CASE AppendSummary
  BY <1>7 DEF AppendSummary, history
<1>8. CASE CountEntry
  <2>1. days[1] \in DayBlk
    BY <1>8 DEF CountEntry, TypeInv
  <2>2. Len(days[1].entries) \in Nat /\ counted \in Nat
    BY <2>1 DEF DayBlk, TypeInv
  <2>3. counted' <= Len(days[1].entries)
    BY <1>8, <2>2 DEF CountEntry
  <2> QED BY <1>8, <2>3 DEF CountEntry, history
<1>9. CASE AppendDay
  <2>1. Last(ledger') = days[1] /\ days[1] \in DayBlk /\ days' \in Seq(DayBlk)
    BY <1>9, NextDay
  <2>2. IsDay(Last(ledger'))
    BY <2>1 DEF DayBlk, IsDay
  <2>3. days' # <<>> => Len(days'[1].entries) \in Nat
    <3>1. days' # <<>> => days'[1] \in DayBlk
      BY <2>1
    <3> QED BY <3>1 DEF DayBlk
  <2>4. CASE days' = <<>>
    BY <1>9, <2>2, <2>4 DEF AppendDay, history
  <2>5. CASE days' # <<>>
    BY <1>9, <2>3, <2>5 DEF AppendDay, history
  <2> QED BY <2>4, <2>5
<1>10. CASE VerifyHolds
  BY <1>10 DEF VerifyHolds, files, history
<1>11. CASE VerifyFails \/ Reverts
  <2>1. /\ pc' = "uncount" /\ counted' = 0 /\ ledger' = ledger
        /\ stale' = stale /\ disturbed' = disturbed
    BY <1>11 DEF VerifyFails, Reverts, StartRevert, files, history
  <2>2. reverting' \in 1..Cardinality(DayPositions(ledger'))
    <3>1. CASE VerifyFails
      BY <3>1, OneDay DEF VerifyFails, files, TypeInv
    <3>2. CASE Reverts
      BY <3>2 DEF Reverts, StartRevert, files
    <3> QED BY <1>11, <3>1, <3>2
  <2>3. PICK n : n = reverting'
    OBVIOUS
  <2>4. PICK s : s = ledger'
    OBVIOUS
  <2>5. Chain(s) /\ n \in 1..Cardinality(DayPositions(s))
    BY <2>1, <2>2, <2>3, <2>4 DEF TypeInv
  <2>6. Taken(s, n) \in Seq(PlacedAt)
    BY <2>5, RevertParts
  <2>7. RevertedEntries' = Taken(s, n)
    BY <2>3, <2>4 DEF RevertedEntries, FirstReverted, Taken
  <2>8. Len(RevertedEntries') \in Nat
    BY <2>6, <2>7
  <2> QED BY <2>1, <2>2, <2>8
<1>12. CASE RemoveSynced \/ Staging030 \/ TruncateLedger
  <2>1. /\ pc' = "idle" /\ counted' = 0 /\ chosen' = {} /\ disturbed' = disturbed
    BY <1>12 DEF RemoveSynced, Staging030, TruncateLedger, Done
  <2>2. CASE RemoveSynced \/ Staging030
    BY <2>1, <2>2 DEF RemoveSynced, Staging030
  <2>3. CASE TruncateLedger
    <3>1. stale' = (stale /\ Len(ledger') > 1)
      BY <2>3 DEF TruncateLedger
    <3> QED BY <2>1, <3>1
  <2> QED BY <1>12, <2>2, <2>3
<1>13. CASE UncountEntry
  <2>1. RevertedEntries' = RevertedEntries
    BY <1>13 DEF UncountEntry, RevertedEntries, FirstReverted
  <2>2. RevertedEntries \in Seq(PlacedAt) /\ counted \in Nat
    BY <1>13, RevertedAre DEF UncountEntry, TypeInv
  <2>3. counted' <= Len(RevertedEntries)
    BY <1>13, <2>2 DEF UncountEntry
  <2> QED BY <1>13, <2>1, <2>3 DEF UncountEntry, history
<1>14. CASE RestoreStaging
  BY <1>14 DEF RestoreStaging
<1>15. CASE Index030
  BY <1>15 DEF Index030
<1>16. CASE Kill
  BY <1>16 DEF Kill, Done, Disturb, files, TypeInv
<1>17. CASE Reseal
  BY <1>17 DEF Reseal, Idle, Disturb, control, TypeInv
<1>18. CASE Pulls
  BY <1>18 DEF Pulls, control
<1>19. CASE Forgets
  BY <1>19 DEF Forgets
<1>20. CASE SelectNothing
  BY <1>20 DEF SelectNothing, Done
<1>21. CASE Publishes
  BY <1>21 DEF Publishes, Publish, Idle, control, history
<1> QED BY <1>1, <1>2, <1>3, <1>4, <1>5, <1>6, <1>7, <1>8, <1>9, <1>10, <1>11, <1>12, <1>13,
           <1>14, <1>15, <1>16, <1>17, <1>18, <1>19, <1>20, <1>21 DEF StepKinds

-----------------------------------------------------------------------------
\* Whose entries are where.

LEMMA KnownInit == Init => KnownInv
<1> SUFFICES ASSUME Init PROVE KnownInv
  OBVIOUS
<1>1. Ids(staging) = {}
  BY DEF Init, Ids
<1>2. IdsOf(Placed(ledger)) = {}
  <2>1. Genesis(FirstDate) \in Block /\ ~IsDay(Genesis(FirstDate))
    BY DEF Block, Genesis, IsDay
  <2>2. Placed(ledger) = <<>>
    BY <2>1, PlacedSmall, DatedIsSeq DEF Init
  <2> QED BY <2>2, IdsNone
<1>3. pc = "idle" /\ remote = {}
  BY DEF Init
<1> QED BY <1>1, <1>2, <1>3 DEF KnownInv

\* What an edit leaves: the ids of staging.
LEMMA EditIds ==
  ASSUME TypeInv, Edit
  PROVE  /\ DOMAIN staging' = DOMAIN staging
         /\ Ids(staging') = Ids(staging)
         /\ StagedOnce(staging) => StagedOnce(staging')
<1>1. DOMAIN staging' = DOMAIN staging
  BY DEF TypeInv, Edit
<1>2. \A i \in DOMAIN staging : staging'[i].id = staging[i].id
  BY DEF Edit
<1> QED BY <1>1, <1>2 DEF Ids, StagedOnce

\* What a revert puts back.
LEMMA RestoredAre ==
  ASSUME TypeInv, ControlInv, RestoreStaging
  PROVE  /\ Ids(staging') = Ids(staging) \cup IdsOf(RevertedEntries)
         /\ Captured' = Captured \cup IdsOf(RevertedEntries)
         /\ RevertedEntries' = RevertedEntries
         /\ IdsOf(RevertedEntries) \subseteq IdsOf(Placed(ledger))
         /\ /\ StagedOnce(staging) /\ OnceIn(Placed(ledger))
            /\ Ids(staging) \cap IdsOf(Placed(ledger)) = {}
            => StagedOnce(staging')
<1>1. PICK back : back = [k \in DOMAIN RevertedEntries |-> Restored(RevertedEntries[k].entry)]
  OBVIOUS
<1>2. PICK kept : kept = SubSeq(ledger, 1, FirstReverted - 1)
  OBVIOUS
<1>3. /\ Placed(kept) \in Seq(PlacedAt) /\ RevertedEntries \in Seq(PlacedAt)
      /\ Placed(ledger) = Placed(kept) \o RevertedEntries
  BY <1>2, RevertedAre DEF RestoreStaging
<1>4. back \in Seq(Staged) /\ Ids(back) = IdsOf(RevertedEntries)
      /\ (OnceIn(RevertedEntries) => StagedOnce(back))
  BY <1>1, <1>3, RestoredIds
<1>5. staging' = staging \o back /\ staging \in Seq(Staged)
  BY <1>1 DEF RestoreStaging, TypeInv
<1>6. /\ Ids(staging') = Ids(staging) \cup Ids(back)
      /\ StagedOnce(staging) /\ StagedOnce(back) /\ Ids(staging) \cap Ids(back) = {}
           => StagedOnce(staging')
  BY <1>4, <1>5, StagedConcat
<1>7. /\ IdsOf(Placed(ledger)) = IdsOf(Placed(kept)) \cup IdsOf(RevertedEntries)
      /\ OnceIn(Placed(ledger)) => OnceIn(RevertedEntries)
  BY <1>3, IdsConcat
<1>8. StartsKnown \in [Captured \cup IdsOf(RevertedEntries) -> Dates]
  BY <1>3, StartsAreKnown DEF TypeInv
<1>9. Captured' = Captured \cup IdsOf(RevertedEntries)
  BY <1>8 DEF RestoreStaging, Captured
<1>10. RevertedEntries' = RevertedEntries
  BY DEF RestoreStaging, RevertedEntries, FirstReverted
<1> QED BY <1>4, <1>6, <1>7, <1>9, <1>10

\* What a revert takes from the ledger.
LEMMA TruncatedAre ==
  ASSUME TypeInv, ControlInv, TruncateLedger
  PROVE  /\ IdsOf(Placed(ledger)) = IdsOf(Placed(ledger')) \cup IdsOf(RevertedEntries)
         /\ OnceIn(Placed(ledger)) =>
              /\ OnceIn(Placed(ledger'))
              /\ IdsOf(Placed(ledger')) \cap IdsOf(RevertedEntries) = {}
         /\ AllFit(ledger) => AllFit(ledger')
         /\ \A c : Total(Placed(ledger), c) = Total(Placed(ledger'), c) + Total(RevertedEntries, c)
<1>1. PICK kept : kept = ledger'
  OBVIOUS
<1>2. kept = SubSeq(ledger, 1, FirstReverted - 1)
  BY <1>1 DEF TruncateLedger
<1>3. /\ Placed(kept) \in Seq(PlacedAt) /\ RevertedEntries \in Seq(PlacedAt)
      /\ Placed(ledger) = Placed(kept) \o RevertedEntries
      /\ AllFit(ledger) => AllFit(kept)
  BY <1>2, RevertedAre DEF TruncateLedger
<1>4. /\ IdsOf(Placed(ledger)) = IdsOf(Placed(kept)) \cup IdsOf(RevertedEntries)
      /\ OnceIn(Placed(ledger)) => /\ OnceIn(Placed(kept))
                                   /\ IdsOf(Placed(kept)) \cap IdsOf(RevertedEntries) = {}
  BY <1>3, IdsConcat
<1>5. \A c : Total(Placed(ledger), c) = Total(Placed(kept), c) + Total(RevertedEntries, c)
  BY <1>3, TotalConcat
<1> QED BY <1>1, <1>3, <1>4, <1>5

\* What a commit takes from staging once it is in the ledger.
LEMMA DroppedAre ==
  ASSUME TypeInv, staging' = Without(chosen)
  PROVE  /\ Ids(staging') = {staging[i].id : i \in DOMAIN staging \ chosen}
         /\ StagedOnce(staging) => StagedOnce(staging')
<1>1. staging \in Seq(Staged) /\ DOMAIN staging \ chosen \in SUBSET DOMAIN staging
  BY DEF TypeInv
<1> QED BY <1>1, PickedIds DEF Without

\* What a sync drops for entries like those in the remote ledger.
LEMMA ForgottenAre ==
  ASSUME TypeInv, KnownInv, Forgets
  PROVE  /\ Ids(staging') \subseteq Ids(staging)
         /\ Ids(staging) \subseteq Ids(staging') \cup Superseded'
         /\ StagedOnce(staging) => StagedOnce(staging')
<1>1. PICK gone \in SUBSET DOMAIN staging :
        /\ staging' = Without(gone)
        /\ dropped' = dropped \cup {staging[i].id : i \in gone}
        /\ \A i \in gone : \E p \in remote :
             Title[p[1]] = Title[staging[i].id] /\ p[2] = start[staging[i].id]
  BY DEF Forgets
<1>2. staging \in Seq(Staged) /\ DOMAIN staging \ gone \in SUBSET DOMAIN staging
  BY DEF TypeInv
<1>3. /\ Ids(staging') = {staging[i].id : i \in DOMAIN staging \ gone}
      /\ StagedOnce(staging) => StagedOnce(staging')
  BY <1>1, <1>2, PickedIds DEF Without
<1>4. remote' = remote /\ start' = start
  BY DEF Forgets
<1>5. ASSUME NEW i \in gone
      PROVE  staging[i].id \in Superseded'
  <2>1. PICK e : e = staging[i].id
    OBVIOUS
  <2>2. e \in dropped' /\ \E p \in remote' : Title[p[1]] = Title[e] /\ p[2] = start'[e]
    BY <1>1, <1>4, <2>1
  <2> QED BY <2>1, <2>2 DEF Superseded
<1> QED BY <1>3, <1>5 DEF Ids

\* An entry that was not there before.
LEMMA CapturedIs ==
  ASSUME TypeInv, Captures
  PROVE  \E e \in Entry :
           /\ e \notin Captured \cup Foreign
           /\ Captured' = Captured \cup {e}
           /\ Ids(staging') = Ids(staging) \cup {e}
           /\ StagedOnce(staging) /\ e \notin Ids(staging) => StagedOnce(staging')
<1>1. PICK s \in Staged, date \in Dates :
        /\ s.id \notin Captured \cup Foreign
        /\ staging' = Append(staging, s)
        /\ start' = [x \in Captured \cup {s.id} |-> IF x = s.id THEN date ELSE start[x]]
  BY DEF Captures
<1>2. Captured' = Captured \cup {s.id} /\ s.id \in Entry
  BY <1>1 DEF Captured, Staged
<1>3. staging \in Seq(Staged)
  BY DEF TypeInv
<1>4. /\ Ids(staging') = Ids(staging) \cup {s.id}
      /\ StagedOnce(staging) /\ s.id \notin Ids(staging) => StagedOnce(staging')
  BY <1>1, <1>3, StagedAppend
<1> QED BY <1>1, <1>2, <1>4

\* Steps that move no entry.
Still == /\ UNCHANGED <<staging, ledger, remote, start, removed, dropped>>
         /\ pc' = "append" => pc = "append" /\ days' = days

LEMMA StillSteps ==
  ASSUME \/ CountEntry \/ VerifyHolds \/ VerifyFails \/ Reverts \/ UncountEntry
         \/ Index030 \/ Kill \/ Reseal \/ SelectNothing \/ UNCHANGED vars
  PROVE  Still
BY DEF SelectNothing, CountEntry, VerifyHolds, VerifyFails, Reverts, StartRevert, UncountEntry, Index030,
       Kill, Done, Reseal, Idle, vars, files, control, history, Still

LEMMA KnownStep ==
  ASSUME TypeInv, ControlInv, KnownInv, StepKinds \/ UNCHANGED vars
  PROVE  KnownInv'
<1> USE DEF KnownInv
<1>1. CASE Still
  BY <1>1 DEF Still, Captured
<1>2. CASE Edit
  BY <1>2, EditIds DEF Edit, Captured, control, history
<1>3. CASE Captures
  BY <1>3, CapturedIs DEF Captures, control
<1>4. CASE Removes
  <2>1. PICK i \in DOMAIN staging : RemoveStaged(i)
    BY <1>4 DEF Removes
  <2>2. Ids(staging') \subseteq Ids(staging)
    BY <2>1, StagedRemove DEF RemoveStaged, TypeInv
  <2> QED BY <2>1, <2>2 DEF RemoveStaged, Idle, control, Captured
<1>5. CASE Syncs
  <2>1. PICK positions \in Selections : Select(positions)
    BY <1>5 DEF Syncs
  <2>2. IdsOf(Placed(days')) = {staging[i].id : i \in positions} /\ positions \subseteq DOMAIN staging
    BY <2>1, StartOfCommit DEF Select
  <2>3. IdsOf(Placed(days')) \subseteq Captured
    BY <2>2 DEF Ids
  <2> QED BY <2>1, <2>3 DEF Select, history, files, Captured
<1>6. CASE Syncs030
  <2>1. /\ Placed(ledger') = Placed(ledger) \o Placed(days')
        /\ Placed(ledger) \in Seq(PlacedAt) /\ Placed(days') \in Seq(PlacedAt)
        /\ IdsOf(Placed(days')) = {staging[i].id : i \in chosen'}
        /\ chosen' \subseteq DOMAIN staging
    BY <1>6, LedgerGrows
  <2>2. IdsOf(Placed(ledger')) = IdsOf(Placed(ledger)) \cup IdsOf(Placed(days'))
    BY <2>1, IdsConcat
  <2>3. IdsOf(Placed(days')) \subseteq Captured
    BY <2>1 DEF Ids
  <2> QED BY <1>6, <2>2, <2>3 DEF Syncs030, SyncDay030, history, Captured
<1>7. CASE AppendSummary
  <2>1. owed[1] \in Block /\ ~IsDay(owed[1])
    <3>1. owed[1] \in Summary
      BY <1>7 DEF AppendSummary, TypeInv
    <3> QED BY <3>1 DEF Block, Summary, IsDay
  <2>2. Placed(ledger') = Placed(ledger)
    BY <1>7, <2>1, PlacedAppend DEF AppendSummary, TypeInv, Chain
  <2> QED BY <1>7, <2>2 DEF AppendSummary, history, Captured
<1>8. CASE AppendDay
  <2>1. /\ Placed(ledger') = Placed(ledger) \o Dated(days[1])
        /\ Placed(days) = Dated(days[1]) \o Placed(days')
        /\ Placed(ledger) \in Seq(PlacedAt) /\ Dated(days[1]) \in Seq(PlacedAt)
        /\ Placed(days') \in Seq(PlacedAt)
    BY <1>8, NextDay
  <2>2. /\ IdsOf(Placed(ledger')) = IdsOf(Placed(ledger)) \cup IdsOf(Dated(days[1]))
        /\ IdsOf(Placed(days)) = IdsOf(Dated(days[1])) \cup IdsOf(Placed(days'))
    BY <2>1, IdsConcat
  <2> QED BY <1>8, <2>2 DEF AppendDay, history, Captured
<1>9. CASE RemoveSynced \/ Staging030
  <2>1. Ids(staging') = {staging[i].id : i \in DOMAIN staging \ chosen}
    BY <1>9, DroppedAre DEF RemoveSynced, Staging030
  <2>2. Ids(staging') \subseteq Ids(staging)
    BY <2>1 DEF Ids
  <2> QED BY <1>9, <2>2 DEF RemoveSynced, Staging030, Done, Captured
<1>10. CASE RestoreStaging
  BY <1>10, RestoredAre DEF RestoreStaging
<1>11. CASE TruncateLedger
  BY <1>11, TruncatedAre DEF TruncateLedger, Done, Captured
<1>12. CASE Pulls
  <2>1. IdsOf(Placed(ledger')) \subseteq IdsOf(Placed(ledger)) \cup Elsewhere
    BY <1>12, LedgerGrows
  <2>2. Elsewhere \subseteq Captured \cup Foreign /\ Captured' = Captured
    BY <1>12 DEF Elsewhere, Pulls, Captured
  <2>3. \A p \in remote' : p[1] \in Captured \cup Foreign
    <3>1. PICK day \in DayBlk, e \in Elsewhere : \A p \in remote' \ remote : p = <<e, day.date>>
      BY <1>12 DEF Pulls
    <3>2. <<e, day.date>>[1] = e
      OBVIOUS
    <3> QED BY <2>2, <3>1, <3>2
  <2> QED BY <1>12, <2>1, <2>2, <2>3 DEF Pulls, control
<1>13. CASE Forgets
  <2>1. Ids(staging') \subseteq Ids(staging)
    BY <1>13, ForgottenAre
  <2> QED BY <1>13, <2>1 DEF Forgets, Captured
<1>14. CASE Publishes
  <2>1. PICK i \in DayPositions(ledger) : Publish(i)
    BY <1>14 DEF Publishes
  <2>2. \A p \in remote' : p[1] \in Captured \cup Foreign
    BY <2>1, PublishedAre DEF Publish
  <2> QED BY <2>1, <2>2 DEF Publish, Idle, control, history, Captured
<1> QED BY <1>1, <1>2, <1>3, <1>4, <1>5, <1>6, <1>7, <1>8, <1>9, <1>10, <1>11, <1>12, <1>13,
           <1>14, StillSteps DEF StepKinds

\* Where the ids of a commit are, before and after each of its writes.
LEMMA NextDayIds ==
  ASSUME TypeInv, ControlInv, AppendDay
  PROVE  /\ IdsOf(Placed(ledger')) \cup IdsOf(Placed(days'))
              = IdsOf(Placed(ledger)) \cup IdsOf(Placed(days))
         /\ days' = <<>> => IdsOf(Placed(days')) = {}
         /\ /\ OnceIn(Placed(ledger)) /\ OnceIn(Placed(days))
            /\ IdsOf(Placed(ledger)) \cap IdsOf(Placed(days)) = {}
            => /\ OnceIn(Placed(ledger')) /\ OnceIn(Placed(days'))
               /\ IdsOf(Placed(ledger')) \cap IdsOf(Placed(days')) = {}
<1>1. /\ Placed(ledger') = Placed(ledger) \o Dated(days[1])
      /\ Placed(days) = Dated(days[1]) \o Placed(days')
      /\ Placed(ledger) \in Seq(PlacedAt) /\ Dated(days[1]) \in Seq(PlacedAt)
      /\ Placed(days') \in Seq(PlacedAt) /\ days[1] \in Block
  BY NextDay
<1>2. /\ IdsOf(Placed(ledger')) = IdsOf(Placed(ledger)) \cup IdsOf(Dated(days[1]))
      /\ OnceIn(Placed(ledger')) <=> OnceIn(Placed(ledger)) /\ OnceIn(Dated(days[1]))
           /\ IdsOf(Placed(ledger)) \cap IdsOf(Dated(days[1])) = {}
  BY <1>1, IdsConcat
<1>3. /\ IdsOf(Placed(days)) = IdsOf(Dated(days[1])) \cup IdsOf(Placed(days'))
      /\ OnceIn(Placed(days)) <=> OnceIn(Dated(days[1])) /\ OnceIn(Placed(days'))
           /\ IdsOf(Dated(days[1])) \cap IdsOf(Placed(days')) = {}
  BY <1>1, IdsConcat
<1>4. days' = <<>> => IdsOf(Placed(days')) = {}
  BY <1>1, PlacedSmall, IdsNone
<1> QED BY <1>2, <1>3, <1>4

LEMMA SummaryIds ==
  ASSUME TypeInv, AppendSummary
  PROVE  Placed(ledger') = Placed(ledger)
<1>1. owed[1] \in Summary
  BY DEF AppendSummary, TypeInv
<1>2. owed[1] \in Block /\ ~IsDay(owed[1])
  BY <1>1 DEF Block, Summary, IsDay
<1> QED BY <1>2, PlacedAppend DEF AppendSummary, TypeInv, Chain

\* What commits of version 0.3.0 put into the ledger.
LEMMA Ids030 ==
  ASSUME TypeInv, KnownInv, Syncs030
  PROVE  /\ IdsOf(Placed(ledger')) = IdsOf(Placed(ledger)) \cup {staging[i].id : i \in chosen'}
         /\ chosen' \subseteq DOMAIN staging
         /\ /\ StagedOnce(staging) /\ OnceIn(Placed(ledger))
            /\ IdsOf(Placed(ledger)) \cap {staging[i].id : i \in chosen'} = {}
            => OnceIn(Placed(ledger'))
<1>1. /\ Placed(ledger') = Placed(ledger) \o Placed(days')
      /\ Placed(ledger) \in Seq(PlacedAt) /\ Placed(days') \in Seq(PlacedAt)
      /\ IdsOf(Placed(days')) = {staging[i].id : i \in chosen'}
      /\ chosen' \subseteq DOMAIN staging
      /\ StagedOnce(staging) => OnceIn(Placed(days'))
  BY LedgerGrows
<1> QED BY <1>1, IdsConcat

-----------------------------------------------------------------------------
\* What a step is about to drop is elsewhere.

\* An entry like one that was dropped stays in the remote ledger.
LEMMA SupersededStays ==
  ASSUME TypeInv, ControlInv, KnownInv, StepKinds \/ UNCHANGED vars
  PROVE  Superseded \subseteq Superseded'
<1>0. dropped \subseteq Captured
  BY DEF TypeInv
<1>1. CASE Captures
  <2>1. \A e \in Captured : start'[e] = start[e]
    BY <1>1 DEF Captures
  <2> QED BY <1>0, <1>1, <2>1, SupersededGrows DEF Captures
<1>2. CASE RestoreStaging
  <2>1. RevertedEntries \in Seq(PlacedAt)
    BY <1>2, RevertedAre DEF RestoreStaging
  <2>2. start' = StartsKnown
    BY <1>2 DEF RestoreStaging
  <2>3. \A e \in Captured : start'[e] = start[e]
    BY <2>2 DEF StartsKnown
  <2> QED BY <1>0, <1>2, <2>3, SupersededGrows DEF RestoreStaging
<1>3. CASE ~Captures /\ ~RestoreStaging
  <2>1. start' = start
    BY <1>3 DEF StepKinds, vars, files, history, Edit, control, Removes, RemoveStaged, Forgets,
       SelectNothing, Done, Syncs, Select, Syncs030, SyncDay030, AppendSummary, CountEntry,
       AppendDay, VerifyHolds, VerifyFails, RemoveSynced, Reverts, StartRevert, UncountEntry,
       TruncateLedger, Index030, Staging030, Kill, Reseal, Publishes, Publish, Pulls
  <2>2. dropped \subseteq dropped'
    BY <1>3 DEF StepKinds, vars, files, history, Edit, control, Removes, RemoveStaged, Forgets,
       SelectNothing, Done, Syncs, Select, Syncs030, SyncDay030, AppendSummary, CountEntry,
       AppendDay, VerifyHolds, VerifyFails, RemoveSynced, Reverts, StartRevert, UncountEntry,
       TruncateLedger, Index030, Staging030, Kill, Reseal, Publishes, Publish, Pulls
  <2>3. remote \subseteq remote'
    BY <1>3 DEF StepKinds, vars, files, history, Edit, control, Removes, RemoveStaged, Forgets,
       SelectNothing, Done, Syncs, Select, Syncs030, SyncDay030, AppendSummary, CountEntry,
       AppendDay, VerifyHolds, VerifyFails, RemoveSynced, Reverts, StartRevert, UncountEntry,
       TruncateLedger, Index030, Staging030, Kill, Reseal, Publishes, Publish, Pulls
  <2> QED BY <1>0, <2>1, <2>2, <2>3, SupersededGrows
<1> QED BY <1>1, <1>2, <1>3

LEMMA KeptInit == Init => KeptInv
BY DEF Init, KeptInv, Captured

LEMMA KeptStep ==
  ASSUME TypeInv, ControlInv, KnownInv, KeptInv, StepKinds \/ UNCHANGED vars
  PROVE  KeptInv'
<1>0. Superseded \subseteq Superseded'
  BY SupersededStays
<1> USE <1>0 DEF KeptInv
<1>1. CASE UNCHANGED vars
  <2>1. RevertedEntries' = RevertedEntries /\ ChosenIds' = ChosenIds /\ Captured' = Captured
    BY <1>1 DEF vars, files, control, history, RevertedEntries, FirstReverted, ChosenIds, Captured
  <2> QED BY <1>1, <2>1 DEF vars, files, control, history
<1>2. CASE Edit
  BY <1>2, EditIds DEF Edit, Captured, control, history
<1>3. CASE Captures
  BY <1>3, CapturedIs DEF Captures, control
<1>4. CASE Removes
  <2>1. PICK i \in DOMAIN staging : RemoveStaged(i)
    BY <1>4 DEF Removes
  <2>2. Ids(staging) \subseteq Ids(staging') \cup {staging[i].id}
    BY <2>1, StagedRemove DEF RemoveStaged, TypeInv
  <2> QED BY <2>1, <2>2 DEF RemoveStaged, Idle, control, Captured
<1>5. CASE Syncs
  <2>1. PICK positions \in Selections : Select(positions)
    BY <1>5 DEF Syncs
  <2>2. IdsOf(Placed(days')) = {staging[i].id : i \in positions}
    BY <2>1, StartOfCommit DEF Select
  <2>3. ChosenIds' = {staging[i].id : i \in positions}
    BY <2>1 DEF Select, history, files, ChosenIds
  <2> QED BY <2>1, <2>2, <2>3 DEF Select, history, files, Captured
<1>6. CASE Syncs030
  <2>1. IdsOf(Placed(ledger')) = IdsOf(Placed(ledger)) \cup {staging[i].id : i \in chosen'}
    BY <1>6, Ids030
  <2>2. pc' = "index030" /\ UNCHANGED <<staging, start, removed>>
    BY <1>6 DEF Syncs030, SyncDay030, history
  <2>3. ChosenIds' = {staging[i].id : i \in chosen'}
    BY <2>2 DEF ChosenIds
  <2> QED BY <2>1, <2>2, <2>3 DEF Captured
<1>7. CASE AppendSummary
  <2>1. Placed(ledger') = Placed(ledger)
    BY <1>7, SummaryIds
  <2>2. ChosenIds' = ChosenIds
    BY <1>7 DEF AppendSummary, ChosenIds
  <2> QED BY <1>7, <2>1, <2>2 DEF AppendSummary, history, Captured
<1>8. CASE CountEntry
  <2>1. ChosenIds' = ChosenIds
    BY <1>8 DEF CountEntry, ChosenIds
  <2> QED BY <1>8, <2>1 DEF CountEntry, history, Captured
<1>9. CASE AppendDay
  <2>1. /\ IdsOf(Placed(ledger')) \cup IdsOf(Placed(days'))
             = IdsOf(Placed(ledger)) \cup IdsOf(Placed(days))
        /\ days' = <<>> => IdsOf(Placed(days')) = {}
        /\ IdsOf(Placed(ledger)) \subseteq IdsOf(Placed(ledger'))
    <3>1. /\ Placed(ledger') = Placed(ledger) \o Dated(days[1])
          /\ Placed(ledger) \in Seq(PlacedAt) /\ Dated(days[1]) \in Seq(PlacedAt)
      BY <1>9, NextDay
    <3>2. IdsOf(Placed(ledger')) = IdsOf(Placed(ledger)) \cup IdsOf(Dated(days[1]))
      BY <3>1, IdsConcat
    <3> QED BY <1>9, <3>2, NextDayIds
  <2>2. ChosenIds' = ChosenIds /\ pc = "append" /\ UNCHANGED <<staging, start, removed>>
    BY <1>9 DEF AppendDay, ChosenIds, history
  <2>3. (pc' = "verify" /\ days' = <<>>) \/ pc' = "append"
    BY <1>9 DEF AppendDay
  <2> QED BY <2>1, <2>2, <2>3 DEF Captured
<1>10. CASE VerifyHolds \/ Index030
  <2>1. /\ ChosenIds' = ChosenIds /\ pc \in {"verify", "index030"}
        /\ pc' \in {"remove", "staging030"} /\ UNCHANGED <<staging, ledger, start, removed>>
    BY <1>10 DEF VerifyHolds, Index030, files, history, ChosenIds
  <2> QED BY <2>1 DEF Captured
<1>11. CASE VerifyFails \/ Reverts \/ UncountEntry
  <2>1. pc' = "uncount" /\ UNCHANGED <<staging, ledger, start, removed>>
    BY <1>11 DEF VerifyFails, Reverts, StartRevert, UncountEntry, files, history
  <2> QED BY <2>1 DEF Captured
<1>12. CASE RemoveSynced \/ Staging030
  <2>1. Ids(staging') = {staging[i].id : i \in DOMAIN staging \ chosen}
    BY <1>12, DroppedAre DEF RemoveSynced, Staging030
  <2>2. ChosenIds \subseteq IdsOf(Placed(ledger))
    BY <1>12 DEF RemoveSynced, Staging030
  <2>3. Ids(staging) \subseteq Ids(staging') \cup IdsOf(Placed(ledger))
    BY <2>1, <2>2 DEF Ids, ChosenIds
  <2> QED BY <1>12, <2>3 DEF RemoveSynced, Staging030, Done, Captured
<1>13. CASE RestoreStaging
  BY <1>13, RestoredAre DEF RestoreStaging
<1>14. CASE TruncateLedger
  BY <1>14, TruncatedAre DEF TruncateLedger, Done, Captured
<1>15. CASE Kill \/ SelectNothing
  BY <1>15 DEF Kill, SelectNothing, Done, Captured
<1>16. CASE Reseal
  BY <1>16 DEF Reseal, Idle, control, Captured
<1>17. CASE Pulls
  <2>1. IdsOf(Placed(ledger)) \subseteq IdsOf(Placed(ledger'))
    BY <1>17, LedgerGrows
  <2> QED BY <1>17, <2>1 DEF Pulls, control, Captured
<1>18. CASE Forgets
  <2>1. Ids(staging) \subseteq Ids(staging') \cup Superseded'
    BY <1>18, ForgottenAre
  <2> QED BY <1>18, <2>1 DEF Forgets, Captured
<1>19. CASE Publishes
  BY <1>19 DEF Publishes, Publish, Idle, control, history, Captured
<1> QED BY <1>1, <1>2, <1>3, <1>4, <1>5, <1>6, <1>7, <1>8, <1>9, <1>10, <1>11, <1>12, <1>13,
           <1>14, <1>15, <1>16, <1>17, <1>18, <1>19 DEF StepKinds

-----------------------------------------------------------------------------
\* What is in two places is about to be dropped from one of them.

LEMMA OnceInit == Init => OnceInv
<1> SUFFICES ASSUME Init PROVE OnceInv
  OBVIOUS
<1>1. Genesis(FirstDate) \in Block /\ ~IsDay(Genesis(FirstDate))
  BY DEF Block, Genesis, IsDay
<1>2. Placed(ledger) = <<>>
  BY <1>1, PlacedSmall, DatedIsSeq DEF Init
<1>3. OnceIn(Placed(ledger)) /\ IdsOf(Placed(ledger)) = {}
  BY <1>2, IdsNone
<1>4. StagedOnce(staging) /\ pc = "idle"
  BY DEF Init, StagedOnce
<1> QED BY <1>3, <1>4 DEF OnceInv

LEMMA OnceStep ==
  ASSUME TypeInv, ControlInv, KnownInv, KeptInv, OnceInv, StepKinds \/ UNCHANGED vars,
         disturbed' = 0
  PROVE  OnceInv'
<1> USE DEF OnceInv
<1>1. CASE UNCHANGED vars
  <2>1. RevertedEntries' = RevertedEntries
    BY <1>1 DEF vars, files, control, RevertedEntries, FirstReverted
  <2> QED BY <1>1, <2>1 DEF vars, files, control, history, Dropped
<1>2. CASE Edit
  <2>1. pc' = "idle" /\ disturbed = 0 /\ pc = "idle" /\ ledger' = ledger
    BY <1>2 DEF Edit, control, history
  <2>2. StagedOnce(staging') /\ DOMAIN staging' = DOMAIN staging
    BY <1>2, <2>1, EditIds
  <2>3. \A i \in DOMAIN staging' : staging'[i].id \notin IdsOf(Placed(ledger))
    BY <1>2, <2>1, <2>2 DEF Edit, Dropped
  <2> QED BY <2>1, <2>2, <2>3
<1>3. CASE Captures
  <2>1. pc' = "idle" /\ disturbed = 0 /\ pc = "idle" /\ ledger' = ledger
    BY <1>3 DEF Captures, control
  <2>2. PICK e \in Entry :
          /\ e \notin Captured \cup Foreign
          /\ Ids(staging') = Ids(staging) \cup {e}
          /\ StagedOnce(staging) /\ e \notin Ids(staging) => StagedOnce(staging')
    BY <1>3, CapturedIs
  <2>3. e \notin Ids(staging) /\ e \notin IdsOf(Placed(ledger))
    BY <2>2 DEF KnownInv
  <2>4. \A x \in Ids(staging) : x \notin IdsOf(Placed(ledger))
    BY <2>1 DEF Ids, Dropped
  <2>5. \A i \in DOMAIN staging' : staging'[i].id \in Ids(staging')
    BY DEF Ids
  <2> QED BY <2>1, <2>2, <2>3, <2>4, <2>5
<1>4. CASE Removes
  <2>1. PICK i \in DOMAIN staging : RemoveStaged(i)
    BY <1>4 DEF Removes
  <2>2. pc' = "idle" /\ disturbed = 0 /\ pc = "idle" /\ ledger' = ledger
    BY <2>1 DEF RemoveStaged, Idle, control
  <2>3. Ids(staging') \subseteq Ids(staging) /\ StagedOnce(staging')
    BY <2>1, <2>2, StagedRemove DEF RemoveStaged, TypeInv
  <2>4. \A x \in Ids(staging) : x \notin IdsOf(Placed(ledger))
    BY <2>2 DEF Ids, Dropped
  <2>5. \A k \in DOMAIN staging' : staging'[k].id \in Ids(staging')
    BY DEF Ids
  <2> QED BY <2>2, <2>3, <2>4, <2>5
<1>5. CASE Syncs
  <2>1. PICK positions \in Selections : Select(positions)
    BY <1>5 DEF Syncs
  <2>2. /\ pc' = "append" /\ disturbed = 0 /\ pc = "select" /\ ledger' = ledger
        /\ staging' = staging /\ chosen' = positions
    BY <2>1 DEF Select, history, files
  <2>3. /\ IdsOf(Placed(days')) = {staging[i].id : i \in positions}
        /\ OnceIn(Placed(days')) /\ positions \subseteq DOMAIN staging
    BY <2>1, <2>2, StartOfCommit DEF Select
  <2>4. \A i \in DOMAIN staging : staging[i].id \notin IdsOf(Placed(ledger))
    BY <2>2 DEF Dropped
  <2>5. \A i \in DOMAIN staging : staging[i].id \in IdsOf(Placed(days')) => i \in positions
    BY <2>2, <2>3 DEF StagedOnce
  <2>6. IdsOf(Placed(ledger)) \cap IdsOf(Placed(days')) = {}
    BY <2>3, <2>4
  <2> QED BY <2>2, <2>3, <2>4, <2>5, <2>6
<1>6. CASE Syncs030
  <2>1. pc' = "index030" /\ disturbed = 0 /\ pc = "idle" /\ staging' = staging
    BY <1>6 DEF Syncs030, SyncDay030, history
  <2>2. \A i \in DOMAIN staging : staging[i].id \notin IdsOf(Placed(ledger))
    BY <2>1 DEF Dropped
  <2>3. /\ IdsOf(Placed(ledger')) = IdsOf(Placed(ledger)) \cup {staging[i].id : i \in chosen'}
        /\ chosen' \subseteq DOMAIN staging
        /\ OnceIn(Placed(ledger'))
    BY <1>6, <2>1, <2>2, Ids030
  <2>4. \A i \in DOMAIN staging : staging[i].id \in IdsOf(Placed(ledger')) => i \in chosen'
    BY <2>1, <2>2, <2>3 DEF StagedOnce
  <2>5. \A i \in DOMAIN staging' : staging'[i].id \in IdsOf(Placed(ledger')) => Dropped(i)'
    BY <2>1, <2>4 DEF Dropped
  <2> QED BY <2>1, <2>3, <2>5
<1>7. CASE AppendSummary
  <2>1. Placed(ledger') = Placed(ledger)
    BY <1>7, SummaryIds
  <2> QED BY <1>7, <2>1 DEF AppendSummary, history, Dropped
<1>8. CASE CountEntry
  BY <1>8 DEF CountEntry, history, Dropped
<1>9. CASE AppendDay
  <2>1. /\ pc = "append" /\ disturbed = 0 /\ UNCHANGED <<staging, chosen>>
        /\ pc' \in {"verify", "append"}
    BY <1>9 DEF AppendDay, history
  <2>2. /\ OnceIn(Placed(ledger')) /\ OnceIn(Placed(days'))
        /\ IdsOf(Placed(ledger')) \cap IdsOf(Placed(days')) = {}
        /\ IdsOf(Placed(ledger')) \cup IdsOf(Placed(days'))
             = IdsOf(Placed(ledger)) \cup IdsOf(Placed(days))
    BY <1>9, <2>1, NextDayIds
  <2>3. \A i \in DOMAIN staging :
          staging[i].id \in IdsOf(Placed(ledger)) \cup IdsOf(Placed(days)) => i \in chosen
    BY <2>1 DEF Dropped
  <2>4. \A i \in DOMAIN staging' : staging'[i].id \in IdsOf(Placed(ledger')) => Dropped(i)'
    BY <2>1, <2>2, <2>3 DEF Dropped
  <2>5. \A i \in DOMAIN staging' : staging'[i].id \in IdsOf(Placed(days')) => i \in chosen'
    BY <2>1, <2>2, <2>3
  <2> QED BY <2>1, <2>2, <2>4, <2>5
<1>10. CASE VerifyHolds \/ Index030
  <2>1. /\ pc \in {"verify", "index030"} /\ disturbed = 0
        /\ pc' \in {"remove", "staging030"} /\ UNCHANGED <<staging, ledger, chosen>>
    <3>1. CASE VerifyHolds
      BY <3>1 DEF VerifyHolds, files, history
    <3>2. CASE Index030
      BY <3>2 DEF Index030
    <3> QED BY <1>10, <3>1, <3>2
  <2>2. \A i \in DOMAIN staging : staging[i].id \in IdsOf(Placed(ledger)) => i \in chosen
    BY <2>1 DEF Dropped
  <2>3. \A i \in DOMAIN staging' : staging'[i].id \in IdsOf(Placed(ledger')) => Dropped(i)'
    BY <2>1, <2>2 DEF Dropped
  <2> QED BY <2>1, <2>3
<1>11. CASE VerifyFails
  BY <1>11 DEF VerifyFails, history, ControlInv
<1>12. CASE Reverts \/ UncountEntry
  <2>1. pc' = "uncount" /\ disturbed = 0 /\ pc \in {"idle", "uncount"}
        /\ UNCHANGED <<staging, ledger>>
    BY <1>12 DEF Reverts, StartRevert, UncountEntry, files, history
  <2>2. \A i \in DOMAIN staging : staging[i].id \notin IdsOf(Placed(ledger))
    BY <2>1 DEF Dropped
  <2> QED BY <2>1, <2>2
<1>13. CASE RemoveSynced \/ Staging030
  <2>1. /\ pc \in {"remove", "staging030"} /\ pc' = "idle" /\ disturbed = 0
        /\ ledger' = ledger /\ staging' = Without(chosen)
    BY <1>13 DEF RemoveSynced, Staging030, Done
  <2>2. Ids(staging') = {staging[i].id : i \in DOMAIN staging \ chosen} /\ StagedOnce(staging')
    BY <2>1, DroppedAre
  <2>3. \A i \in DOMAIN staging \ chosen : staging[i].id \notin IdsOf(Placed(ledger))
    BY <2>1 DEF Dropped
  <2>4. \A i \in DOMAIN staging' : staging'[i].id \in Ids(staging')
    BY DEF Ids
  <2> QED BY <2>1, <2>2, <2>3, <2>4
<1>14. CASE RestoreStaging
  <2>1. pc = "uncount" /\ pc' = "truncate" /\ disturbed = 0 /\ ledger' = ledger
    BY <1>14 DEF RestoreStaging
  <2>2. Ids(staging) \cap IdsOf(Placed(ledger)) = {}
    BY <2>1 DEF Ids, Dropped
  <2>3. /\ Ids(staging') = Ids(staging) \cup IdsOf(RevertedEntries)
        /\ RevertedEntries' = RevertedEntries
        /\ StagedOnce(staging')
    BY <1>14, <2>1, <2>2, RestoredAre
  <2>4. \A i \in DOMAIN staging' : staging'[i].id \in Ids(staging')
    BY DEF Ids
  <2>5. \A i \in DOMAIN staging' : staging'[i].id \in IdsOf(Placed(ledger')) => Dropped(i)'
    BY <2>1, <2>2, <2>3, <2>4 DEF Dropped
  <2> QED BY <2>1, <2>3, <2>5
<1>15. CASE TruncateLedger
  <2>1. pc = "truncate" /\ pc' = "idle" /\ disturbed = 0 /\ staging' = staging
    BY <1>15 DEF TruncateLedger, Done
  <2>2. /\ IdsOf(Placed(ledger)) = IdsOf(Placed(ledger')) \cup IdsOf(RevertedEntries)
        /\ OnceIn(Placed(ledger'))
        /\ IdsOf(Placed(ledger')) \cap IdsOf(RevertedEntries) = {}
    BY <1>15, <2>1, TruncatedAre
  <2>3. \A i \in DOMAIN staging : staging[i].id \notin IdsOf(Placed(ledger'))
    BY <2>1, <2>2 DEF Dropped
  <2> QED BY <2>1, <2>2, <2>3
<1>16. CASE Kill \/ Reseal \/ Pulls
  BY <1>16 DEF Kill, Reseal, Pulls, Disturb, TypeInv
<1>17. CASE Forgets
  <2>1. pc = "idle" /\ pc' = "select" /\ disturbed = 0 /\ ledger' = ledger
    BY <1>17 DEF Forgets
  <2>2. Ids(staging') \subseteq Ids(staging) /\ StagedOnce(staging')
    BY <1>17, <2>1, ForgottenAre
  <2>3. \A x \in Ids(staging) : x \notin IdsOf(Placed(ledger))
    BY <2>1 DEF Ids, Dropped
  <2>4. \A k \in DOMAIN staging' : staging'[k].id \in Ids(staging')
    BY DEF Ids
  <2> QED BY <2>1, <2>2, <2>3, <2>4
<1>18. CASE SelectNothing \/ Publishes
  <2>1. pc \in {"idle", "select"} /\ pc' = "idle" /\ disturbed = 0 /\ UNCHANGED <<ledger, staging>>
    BY <1>18 DEF SelectNothing, Done, Publishes, Publish, Idle, control, history
  <2>2. \A i \in DOMAIN staging : staging[i].id \notin IdsOf(Placed(ledger))
    BY <2>1 DEF Dropped
  <2> QED BY <2>1, <2>2
<1> QED BY <1>1, <1>2, <1>3, <1>4, <1>5, <1>6, <1>7, <1>8, <1>9, <1>10, <1>11, <1>12, <1>13,
           <1>14, <1>15, <1>16, <1>17, <1>18 DEF StepKinds

-----------------------------------------------------------------------------
\* Every block fits the one before it.

LEMMA PeriodInit == Init => PeriodInv
<1> SUFFICES ASSUME Init PROVE PeriodInv
  OBVIOUS
<1>1. Len(ledger) = 1 /\ pc = "idle"
  BY DEF Init
<1>2. AllFit(ledger)
  BY <1>1 DEF AllFit
<1> QED BY <1>1, <1>2 DEF PeriodInv

LEMMA PeriodStep ==
  ASSUME TypeInv, ControlInv, KnownInv, PeriodInv, StepKinds \/ UNCHANGED vars
  PROVE  PeriodInv'
<1> USE DEF PeriodInv
<1>1. CASE UNCHANGED vars
  BY <1>1 DEF vars, files, control
<1>2. CASE Edit \/ Captures \/ Removes
  BY <1>2 DEF Edit, Captures, Removes, RemoveStaged, Idle, control
<1>3. CASE Syncs
  <2>1. PICK positions \in Selections : Select(positions)
    BY <1>3 DEF Syncs
  <2>2. Between(Last(ledger), Summaries(Last(ledger), days'[1].date), days'[1])
    BY <2>1, StartOfCommit DEF Select
  <2> QED BY <2>1, <2>2 DEF Select, history, files
<1>4. CASE Syncs030
  <2>1. AllFit(ledger')
    BY <1>4, LedgerGrows
  <2> QED BY <1>4, <2>1 DEF Syncs030, SyncDay030, history
<1>5. CASE AppendSummary
  <2>1. owed[1] \in Summary /\ Fits(Last(ledger), owed[1])
        /\ Between(owed[1], Tail(owed), days[1])
    BY <1>5, BetweenTail DEF AppendSummary
  <2>2. ledger' = Append(ledger, owed[1]) /\ Last(ledger') = owed[1]
    BY <1>5, <2>1, ChainAppend DEF AppendSummary, TypeInv
  <2>3. AllFit(ledger')
    <3>1. ledger \in Seq(Block) /\ Len(ledger) >= 1 /\ owed[1] \in Block
      BY <2>1 DEF TypeInv, Chain, Block
    <3> QED BY <2>1, <2>2, <3>1, FitAppend
  <2> QED BY <1>5, <2>1, <2>2, <2>3 DEF AppendSummary
<1>6. CASE CountEntry
  BY <1>6 DEF CountEntry
<1>7. CASE AppendDay
  <2>1. owed = <<>> /\ Fits(Last(ledger), days[1])
    <3>1. owed = <<>> /\ Between(Last(ledger), owed, days[1])
      BY <1>7 DEF AppendDay
    <3> QED BY <3>1 DEF Between
  <2>2. AllFit(ledger')
    BY <1>7, <2>1, NextDay
  <2>3. days' # <<>> => Between(Last(ledger'), owed', days'[1])
    BY <1>7, NextDay
  <2>4. days' = <<>> => pc' = "verify"
    BY <1>7 DEF AppendDay
  <2> QED BY <2>2, <2>3, <2>4
<1>8. CASE \/ VerifyHolds \/ VerifyFails \/ RemoveSynced \/ Reverts \/ UncountEntry
           \/ RestoreStaging \/ Index030 \/ Staging030 \/ Kill \/ Reseal
           \/ Forgets \/ SelectNothing \/ Publishes
  <2>1. ledger' = ledger /\ (pc' # "append" \/ UNCHANGED control)
    BY <1>8 DEF Forgets, SelectNothing, Publishes, Publish, history, VerifyHolds, VerifyFails, RemoveSynced, Done, Reverts, StartRevert, UncountEntry,
       RestoreStaging, Index030, Staging030, Kill, Reseal, Idle, files
  <2> QED BY <2>1 DEF control
<1>9. CASE TruncateLedger
  <2>1. AllFit(ledger')
    BY <1>9, TruncatedAre
  <2> QED BY <1>9, <2>1 DEF TruncateLedger, Done
<1>10. CASE Pulls
  <2>1. AllFit(ledger')
    BY <1>10, LedgerGrows
  <2> QED BY <1>10, <2>1 DEF Pulls, control
<1> QED BY <1>1, <1>2, <1>3, <1>4, <1>5, <1>6, <1>7, <1>8, <1>9, <1>10 DEF StepKinds

-----------------------------------------------------------------------------
\* How far the index is from the ledger.

LEMMA IndexInit == Init => IndexInv
<1> SUFFICES ASSUME Init PROVE IndexInv
  OBVIOUS
<1>1. Genesis(FirstDate) \in Block /\ ~IsDay(Genesis(FirstDate))
  BY DEF Block, Genesis, IsDay
<1>2. Placed(ledger) = <<>>
  BY <1>1, PlacedSmall, DatedIsSeq DEF Init
<1>3. pc = "idle" /\ Loaded = EmptyIndex
  BY DEF Init, Loaded
<1>4. \A c \in Cell : Loaded[c] = 0
  BY <1>3 DEF EmptyIndex
<1> QED BY <1>2, <1>3, <1>4, TotalNone DEF IndexInv

\* An entry is added to the index: the engine counts the entries one by one.
LEMMA CountedIs ==
  ASSUME NEW cells \in Index, NEW s \in Seq(PlacedAt), NEW k \in 0..(Len(s) - 1),
         NEW q, q = s[k + 1], NEW new,
         new = Adjusted(cells, CellOf(q.date, q.entry), q.entry.duration)
  PROVE  /\ q \in PlacedAt
         /\ \A c \in Cell : new[c] - cells[c]
              = Total(SubSeq(s, 1, k + 1), c) - Total(SubSeq(s, 1, k), c)
<1>1. k + 1 \in 1..Len(s) /\ k \in 0..Len(s) /\ k \in Nat
  OBVIOUS
<1>2. q \in PlacedAt
  BY <1>1
<1>3. PICK d : d = q.entry.duration
  OBVIOUS
<1>4. d \in Nat
  BY <1>2, <1>3 DEF PlacedAt, Committed
<1>5. PICK at : at = CellOf(q.date, q.entry)
  OBVIOUS
<1>6. at \in Cell
  <2>1. q.date \in Dates /\ q.entry.id \in Entry
    BY <1>2 DEF PlacedAt, Committed
  <2> QED BY <1>5, <2>1 DEF CellOf, Cell
<1>7. cells[at] + d >= 0 /\ d \in Int
  BY <1>4, <1>6 DEF Index
<1>8. \A c \in Cell : new[c] = IF c = at THEN cells[c] + d ELSE cells[c]
  BY <1>2, <1>3, <1>5, <1>7, AdjustedIs
<1>9. ASSUME NEW c \in Cell
      PROVE  new[c] - cells[c] = Total(SubSeq(s, 1, k + 1), c) - Total(SubSeq(s, 1, k), c)
  <2>1. PICK x : x = Total(SubSeq(s, 1, k), c)
    OBVIOUS
  <2>2. PICK y : y = Total(SubSeq(s, 1, k + 1), c)
    OBVIOUS
  <2>3. x \in Nat /\ y = x + Amount(q, c)
    <3>1. Total(SubSeq(s, 1, k), c) \in Nat
      BY <1>1, TotalPrefix
    <3>2. Total(SubSeq(s, 1, k + 1), c) = Total(SubSeq(s, 1, k), c) + Amount(s[k + 1], c)
      BY TotalPrefix
    <3> QED BY <2>1, <2>2, <3>1, <3>2
  <2>4. Amount(q, c) = IF c = at THEN d ELSE 0
    BY <1>3, <1>5 DEF Amount
  <2>5. cells[c] \in Nat
    BY DEF Index
  <2> QED BY <1>4, <1>8, <2>1, <2>2, <2>3, <2>4, <2>5
<1> QED BY <1>2, <1>9

\* An entry is taken from the index, that has it.
LEMMA UncountedIs ==
  ASSUME NEW cells \in Index, NEW s \in Seq(PlacedAt), NEW k \in 0..(Len(s) - 1),
         NEW q, q = s[k + 1], NEW new,
         new = Adjusted(cells, CellOf(q.date, q.entry), 0 - q.entry.duration),
         \A c \in Cell : cells[c] + Total(SubSeq(s, 1, k), c) >= Total(s, c)
  PROVE  \A c \in Cell : cells[c] - new[c]
           = Total(SubSeq(s, 1, k + 1), c) - Total(SubSeq(s, 1, k), c)
<1>1. k + 1 \in 1..Len(s) /\ k \in 0..Len(s) /\ k \in Nat /\ k + 1 \in 0..Len(s)
  OBVIOUS
<1>2. q \in PlacedAt
  BY <1>1
<1>3. PICK d : d = q.entry.duration
  OBVIOUS
<1>4. d \in Nat
  BY <1>2, <1>3 DEF PlacedAt, Committed
<1>5. PICK at : at = CellOf(q.date, q.entry)
  OBVIOUS
<1>6. at \in Cell
  <2>1. q.date \in Dates /\ q.entry.id \in Entry
    BY <1>2 DEF PlacedAt, Committed
  <2> QED BY <1>5, <2>1 DEF CellOf, Cell
<1>7. ASSUME NEW c \in Cell
      PROVE  /\ Total(SubSeq(s, 1, k), c) \in Nat /\ Total(s, c) \in Nat
             /\ Total(SubSeq(s, 1, k + 1), c) <= Total(s, c)
             /\ Total(SubSeq(s, 1, k + 1), c)
                  = Total(SubSeq(s, 1, k), c) + (IF c = at THEN d ELSE 0)
  <2>1. Total(SubSeq(s, 1, k), c) \in Nat /\ Total(SubSeq(s, 1, k + 1), c) <= Total(s, c)
    BY <1>1, TotalPrefix
  <2>2. Total(SubSeq(s, 1, k + 1), c) = Total(SubSeq(s, 1, k), c) + Amount(s[k + 1], c)
    BY TotalPrefix
  <2>3. Amount(q, c) = IF c = at THEN d ELSE 0
    BY <1>3, <1>5 DEF Amount
  <2>4. Total(s, c) \in Nat
    BY TotalIsNat
  <2> QED BY <2>1, <2>2, <2>3, <2>4
<1>8. \A c \in Cell : cells[c] \in Nat
  BY DEF Index
<1>9. cells[at] + (0 - d) >= 0 /\ 0 - d \in Int
  <2>1. PICK x : x = Total(SubSeq(s, 1, k), at)
    OBVIOUS
  <2>2. PICK y : y = Total(SubSeq(s, 1, k + 1), at)
    OBVIOUS
  <2>3. PICK z : z = Total(s, at)
    OBVIOUS
  <2>4. x \in Nat /\ z \in Nat /\ y <= z /\ y = x + d /\ cells[at] + x >= z /\ cells[at] \in Nat
    BY <1>6, <1>7, <1>8, <2>1, <2>2, <2>3
  <2> QED BY <1>4, <2>4
<1>10. \A c \in Cell : new[c] = IF c = at THEN cells[c] + (0 - d) ELSE cells[c]
  BY <1>2, <1>3, <1>5, <1>9, AdjustedIs
<1>11. ASSUME NEW c \in Cell
       PROVE  cells[c] - new[c] = Total(SubSeq(s, 1, k + 1), c) - Total(SubSeq(s, 1, k), c)
  <2>1. PICK x : x = Total(SubSeq(s, 1, k), c)
    OBVIOUS
  <2>2. PICK y : y = Total(SubSeq(s, 1, k + 1), c)
    OBVIOUS
  <2>3. x \in Nat /\ y = x + (IF c = at THEN d ELSE 0) /\ cells[c] \in Nat
    BY <1>7, <1>8, <2>1, <2>2
  <2> QED BY <1>4, <1>10, <2>1, <2>2, <2>3
<1> QED BY <1>11

LEMMA IndexStep ==
  ASSUME TypeInv, ControlInv, KnownInv, IndexInv, StepKinds \/ UNCHANGED vars,
         disturbed' = 0
  PROVE  IndexInv'
<1> USE DEF IndexInv
<1> SUFFICES ASSUME NEW c \in Cell
             PROVE  /\ pc' \in {"idle", "select", "verify", "remove", "staging030"} =>
                         Loaded'[c] = Total(Placed(ledger'), c)
                    /\ pc' = "append" =>
                         Loaded'[c] = Total(Placed(ledger'), c)
                                      + Total(SubSeq(Dated(days'[1]), 1, counted'), c)
                    /\ pc' = "uncount" =>
                         Loaded'[c] + Total(SubSeq(RevertedEntries', 1, counted'), c)
                           = Total(Placed(ledger'), c)
                    /\ pc' = "truncate" =>
                         Loaded'[c] + Total(RevertedEntries', c) = Total(Placed(ledger'), c)
                    /\ pc' = "index030" =>
                         Loaded'[c] + Total(Placed(days'), c) = Total(Placed(ledger'), c)
  BY DEF Cell
<1>0. Placed(ledger) \in Seq(PlacedAt) /\ Total(Placed(ledger), c) \in Nat
      /\ Loaded \in Index /\ Loaded[c] \in Nat
  <2>1. ledger \in Seq(Block)
    BY DEF TypeInv, Chain
  <2>2. Placed(ledger) \in Seq(PlacedAt)
    BY <2>1, PlacedConcat
  <2> QED BY <2>2, TotalIsNat, IndexTypes DEF Index
<1>none. \A s \in Seq(PlacedAt) : Total(SubSeq(s, 1, 0), c) = 0
  BY TotalPrefix
<1>1. CASE UNCHANGED vars
  <2>1. RevertedEntries' = RevertedEntries /\ Loaded' = Loaded
    BY <1>1 DEF vars, files, control, RevertedEntries, FirstReverted, Loaded
  <2> QED BY <1>1, <2>1 DEF vars, files, control, history
<1>2. CASE Edit \/ Captures \/ Removes
  <2>1. pc = "idle" /\ pc' = "idle" /\ UNCHANGED <<ledger, index, disturbed>>
    BY <1>2 DEF Edit, Captures, Removes, RemoveStaged, Idle, control, history
  <2>2. Loaded' = Loaded
    BY <2>1 DEF Loaded
  <2> QED BY <2>1, <2>2
<1>3. CASE Syncs
  <2>1. PICK positions \in Selections : Select(positions)
    BY <1>3 DEF Syncs
  <2>2. /\ pc = "select" /\ pc' = "append" /\ UNCHANGED <<ledger, index, disturbed>>
        /\ counted' = 0
    BY <2>1 DEF Select, history, files, ControlInv
  <2>3. Loaded' = Loaded
    BY <2>2 DEF Loaded
  <2>4. days'[1] \in DayBlk
    BY <2>1, StartOfCommit DEF Select
  <2>5. Dated(days'[1]) \in Seq(PlacedAt)
    <3>1. days'[1] \in Block
      BY <2>4 DEF Block
    <3> QED BY <3>1, DatedIsSeq
  <2> QED BY <1>0, <1>none, <2>2, <2>3, <2>5
<1>4. CASE Syncs030
  <2>1. /\ Placed(ledger') = Placed(ledger) \o Placed(days')
        /\ Placed(days') \in Seq(PlacedAt)
    BY <1>4, LedgerGrows
  <2>2. Total(Placed(ledger'), c) = Total(Placed(ledger), c) + Total(Placed(days'), c)
    BY <1>0, <2>1, TotalConcat
  <2>3. pc = "idle" /\ pc' = "index030" /\ UNCHANGED <<index, disturbed>>
    BY <1>4 DEF Syncs030, SyncDay030, history
  <2>4. Loaded' = Loaded
    BY <2>3 DEF Loaded
  <2> QED BY <2>2, <2>3, <2>4
<1>5. CASE AppendSummary
  <2>1. Placed(ledger') = Placed(ledger)
    BY <1>5, SummaryIds
  <2>2. /\ pc = "append" /\ pc' = pc /\ UNCHANGED <<index, disturbed, days, counted>>
    BY <1>5 DEF AppendSummary, history
  <2>3. Loaded' = Loaded
    BY <2>2 DEF Loaded
  <2> QED BY <2>1, <2>2, <2>3
<1>6. CASE CountEntry
  <2>1. PICK day : day = days[1]
    OBVIOUS
  <2>2. PICK s : s = Dated(day)
    OBVIOUS
  <2>3. day \in DayBlk /\ day \in Block /\ pc = "append" /\ pc' = "append"
        /\ UNCHANGED <<ledger, days, disturbed>> /\ counted' = counted + 1
        /\ counted < Len(day.entries) /\ counted \in Nat
    BY <1>6, <2>1 DEF CountEntry, TypeInv, ControlInv, Block, history
  <2>4. s \in Seq(PlacedAt) /\ Len(s) = Len(day.entries) /\ day.entries \in Seq(Committed)
    BY <2>2, <2>3, DatedIsSeq
  <2>5. counted \in 0..(Len(s) - 1) /\ counted + 1 \in 1..Len(day.entries)
    BY <2>3, <2>4
  <2>6. PICK q : q = s[counted + 1]
    OBVIOUS
  <2>7. q.date = day.date /\ q.entry = day.entries[counted + 1]
    <3>1. counted + 1 \in DOMAIN day.entries
      BY <2>4, <2>5
    <3> QED BY <2>2, <2>6, <3>1 DEF Dated
  <2>8. PICK new : new = Adjusted(Loaded, CellOf(q.date, q.entry), q.entry.duration)
    OBVIOUS
  <2>9. Loaded' = new
    <3>1. index' = Flushed(new)
      BY <1>6, <2>1, <2>7, <2>8 DEF CountEntry
    <3> QED BY <3>1 DEF Flushed, Loaded
  <2>10. new[c] - Loaded[c]
           = Total(SubSeq(s, 1, counted + 1), c) - Total(SubSeq(s, 1, counted), c)
    BY <1>0, <2>4, <2>5, <2>6, <2>8, CountedIs
  <2>11. PICK x : x = Total(SubSeq(s, 1, counted), c)
    OBVIOUS
  <2>12. PICK y : y = Total(SubSeq(s, 1, counted + 1), c)
    OBVIOUS
  <2>13. Loaded[c] = Total(Placed(ledger), c) + x
    BY <2>1, <2>2, <2>3, <2>11
  <2>14. x \in Nat /\ y \in Nat
    <3>1. counted \in 0..Len(s) /\ counted + 1 \in 0..Len(s)
      BY <2>4, <2>5
    <3> QED BY <2>4, <2>11, <2>12, <3>1, TotalPrefix
  <2>15. new \in Index
    <3>1. q.entry.duration \in Int
      <4>1. counted + 1 \in 1..Len(s)
        BY <2>4, <2>5
      <4>2. q \in PlacedAt
        BY <2>4, <2>6, <4>1
      <4> QED BY <4>2 DEF PlacedAt, Committed
    <3> QED BY <1>0, <2>8, <3>1, AdjustedInIndex
  <2>16. new[c] \in Nat
    BY <2>15 DEF Index
  <2>17. new[c] = Total(Placed(ledger), c) + y
    BY <1>0, <2>10, <2>11, <2>12, <2>13, <2>14, <2>16, SMTT(30)
  <2> QED BY <2>1, <2>2, <2>3, <2>9, <2>12, <2>17
<1>7. CASE AppendDay
  <2>1. /\ days[1] \in Block /\ days' \in Seq(DayBlk)
        /\ Placed(ledger') = Placed(ledger) \o Dated(days[1])
        /\ Dated(days[1]) \in Seq(PlacedAt)
    BY <1>7, NextDay
  <2>2. Total(Placed(ledger'), c) = Total(Placed(ledger), c) + Total(Dated(days[1]), c)
    BY <1>0, <2>1, TotalConcat
  <2>3. /\ pc = "append" /\ counted = Len(days[1].entries) /\ counted' = 0
        /\ UNCHANGED <<index, disturbed>> /\ pc' \in {"append", "verify"}
        /\ pc' = "append" => days' # <<>>
    BY <1>7 DEF AppendDay, history
  <2>4. Len(Dated(days[1])) = Len(days[1].entries)
    BY <2>1, DatedIsSeq
  <2>5. SubSeq(Dated(days[1]), 1, counted) = Dated(days[1])
    BY <2>1, <2>3, <2>4, TotalPrefix
  <2>6. Loaded' = Loaded
    BY <2>3 DEF Loaded
  <2>7. Loaded'[c] = Total(Placed(ledger'), c)
    BY <2>2, <2>3, <2>5, <2>6
  <2>8. ASSUME days' # <<>>
        PROVE  Total(SubSeq(Dated(days'[1]), 1, 0), c) = 0
    <3>1. days'[1] \in DayBlk
      BY <2>1, <2>8
    <3>2. days'[1] \in Block
      BY <3>1 DEF Block
    <3> QED BY <1>none, <3>2, DatedIsSeq
  <2>9. Total(Placed(ledger'), c) \in Nat
    <3>1. Total(Dated(days[1]), c) \in Nat
      BY <2>1, TotalIsNat
    <3> QED BY <1>0, <2>2, <3>1
  <2> QED BY <2>3, <2>7, <2>8, <2>9
<1>8. CASE VerifyHolds \/ RemoveSynced \/ Staging030
  <2>1. /\ pc \in {"verify", "remove", "staging030"} /\ pc' \in {"remove", "idle"}
        /\ UNCHANGED <<ledger, index, disturbed>>
    BY <1>8 DEF VerifyHolds, RemoveSynced, Staging030, Done, files, history
  <2>2. Loaded' = Loaded
    BY <2>1 DEF Loaded
  <2> QED BY <2>1, <2>2
<1>9. CASE VerifyFails
  BY <1>9 DEF VerifyFails, history, ControlInv
<1>10. CASE Reverts
  <2>1. /\ pc = "idle" /\ pc' = "uncount" /\ UNCHANGED <<ledger, index, disturbed>>
        /\ counted' = 0 /\ reverting' \in 1..Cardinality(DayPositions(ledger))
    BY <1>10 DEF Reverts, StartRevert, files, history, ControlInv
  <2>2. RevertedEntries' = Taken(ledger, reverting')
    BY <2>1 DEF RevertedEntries, FirstReverted, Taken
  <2>3. PICK n : n = reverting'
    OBVIOUS
  <2>4. Taken(ledger, n) \in Seq(PlacedAt)
    BY <2>1, <2>3, RevertParts DEF TypeInv
  <2>5. Total(SubSeq(RevertedEntries', 1, counted'), c) = 0
    BY <1>none, <2>1, <2>2, <2>3, <2>4
  <2>6. Loaded' = Loaded
    BY <2>1 DEF Loaded
  <2> QED BY <1>0, <2>1, <2>5, <2>6
<1>11. CASE UncountEntry
  <2>1. PICK kept : kept = SubSeq(ledger, 1, FirstReverted - 1)
    OBVIOUS
  <2>2. PICK s : s = RevertedEntries
    OBVIOUS
  <2>3. /\ pc = "uncount" /\ pc' = "uncount" /\ UNCHANGED <<ledger, reverting, disturbed>>
        /\ counted' = counted + 1 /\ counted < Len(s) /\ counted \in Nat
    BY <1>11, <2>2 DEF UncountEntry, TypeInv, history
  <2>4. RevertedEntries' = s
    BY <2>2, <2>3 DEF RevertedEntries, FirstReverted
  <2>5. Placed(kept) \in Seq(PlacedAt) /\ s \in Seq(PlacedAt) /\ Placed(ledger) = Placed(kept) \o s
    BY <2>1, <2>2, <2>3, RevertedAre
  <2>6. counted \in 0..(Len(s) - 1) /\ counted \in 0..Len(s) /\ counted + 1 \in 0..Len(s)
    BY <2>3, <2>5
  <2>7. PICK q : q = s[counted + 1]
    OBVIOUS
  <2>8. PICK new : new = Adjusted(Loaded, CellOf(q.date, q.entry), 0 - q.entry.duration)
    OBVIOUS
  <2>9. Loaded' = new
    <3>1. index' = Flushed(new)
      BY <1>11, <2>2, <2>7, <2>8 DEF UncountEntry
    <3> QED BY <3>1 DEF Flushed, Loaded
  <2>10. \A x \in Cell : Loaded[x] + Total(SubSeq(s, 1, counted), x) = Total(Placed(ledger), x)
    BY <2>2, <2>3
  <2>11. \A x \in Cell : Loaded[x] + Total(SubSeq(s, 1, counted), x) >= Total(s, x)
    <3> TAKE x \in Cell
    <3>1. Total(Placed(ledger), x) = Total(Placed(kept), x) + Total(s, x)
      BY <2>5, TotalConcat
    <3>2. Total(Placed(kept), x) \in Nat /\ Total(s, x) \in Nat
      BY <2>5, TotalIsNat
    <3>3. Total(Placed(ledger), x) >= Total(s, x)
      BY <3>1, <3>2
    <3> QED BY <2>10, <3>3
  <2>12. Loaded[c] - new[c]
           = Total(SubSeq(s, 1, counted + 1), c) - Total(SubSeq(s, 1, counted), c)
    BY <1>0, <2>5, <2>6, <2>7, <2>8, <2>11, UncountedIs, SMTT(30)
  <2>13. PICK x : x = Total(SubSeq(s, 1, counted), c)
    OBVIOUS
  <2>14. PICK y : y = Total(SubSeq(s, 1, counted + 1), c)
    OBVIOUS
  <2>15. x \in Nat /\ y \in Nat
    BY <2>5, <2>6, <2>13, <2>14, TotalPrefix
  <2>16. new[c] \in Nat
    <3>1. 0 - q.entry.duration \in Int
      <4>1. counted + 1 \in 1..Len(s)
        BY <2>5, <2>6
      <4>2. q \in PlacedAt
        BY <2>5, <2>7, <4>1
      <4>3. q.entry.duration \in Nat
        BY <4>2 DEF PlacedAt, Committed
      <4> QED BY <4>3
    <3>2. new \in Index
      BY <1>0, <2>8, <3>1, AdjustedInIndex
    <3> QED BY <3>2 DEF Index
  <2>17. new[c] + y = Total(Placed(ledger), c)
    <3>1. Loaded[c] + x = Total(Placed(ledger), c) /\ Loaded[c] - new[c] = y - x
      BY <2>10, <2>12, <2>13, <2>14
    <3> QED BY <1>0, <2>15, <2>16, <3>1
  <2> QED BY <2>3, <2>4, <2>9, <2>14, <2>17
<1>12. CASE RestoreStaging
  <2>1. /\ pc = "uncount" /\ pc' = "truncate" /\ UNCHANGED <<ledger, index, disturbed>>
        /\ counted = Len(RevertedEntries)
    BY <1>12 DEF RestoreStaging
  <2>2. RevertedEntries' = RevertedEntries
    BY <1>12 DEF RestoreStaging, RevertedEntries, FirstReverted
  <2>3. SubSeq(RevertedEntries, 1, counted) = RevertedEntries
    BY <2>1, RevertedAre, TotalPrefix
  <2>4. Loaded' = Loaded
    BY <2>1 DEF Loaded
  <2> QED BY <2>1, <2>2, <2>3, <2>4
<1>13. CASE TruncateLedger
  <2>1. /\ pc = "truncate" /\ pc' = "idle" /\ UNCHANGED <<index, disturbed>>
    BY <1>13 DEF TruncateLedger, Done
  <2>2. Total(Placed(ledger), c) = Total(Placed(ledger'), c) + Total(RevertedEntries, c)
    BY <1>13, TruncatedAre
  <2>3. Loaded' = Loaded /\ Loaded[c] + Total(RevertedEntries, c) = Total(Placed(ledger), c)
    BY <2>1 DEF Loaded
  <2>4. Total(Placed(ledger'), c) \in Nat /\ Total(RevertedEntries, c) \in Nat
    <3>1. RevertedEntries \in Seq(PlacedAt)
      BY <2>1, RevertedAre
    <3>2. ledger' \in Seq(Block)
      BY <1>13, RevertedAre DEF TruncateLedger, Chain
    <3>3. Placed(ledger') \in Seq(PlacedAt)
      BY <3>2, PlacedConcat
    <3> QED BY <3>1, <3>3, TotalIsNat
  <2> QED BY <1>0, <2>1, <2>2, <2>3, <2>4
<1>14. CASE Index030
  <2>1. /\ pc = "index030" /\ pc' = "staging030" /\ UNCHANGED <<ledger, days>>
        /\ disturbed' = IF index.wrapped /\ disturbed = 0 THEN 1 ELSE disturbed
    BY <1>14 DEF Index030
  <2>2. disturbed = 0 /\ ~index.wrapped
    BY <2>1 DEF TypeInv
  <2>3. PICK total : total = [x \in Cell |-> index.plain[x] + Total(Placed(days), x)]
    OBVIOUS
  <2>4. index' = [index EXCEPT !.plain = total] /\ Loaded = index.plain
    BY <1>14, <2>2, <2>3 DEF Index030, Loaded
  <2>5. Loaded' = total
    BY <2>2, <2>4 DEF Loaded, TypeInv
  <2>6. Loaded'[c] = Loaded[c] + Total(Placed(days), c)
    BY <2>3, <2>4, <2>5
  <2> QED BY <2>1, <2>2, <2>6
<1>15. CASE Kill \/ Reseal \/ Pulls
  BY <1>15 DEF Kill, Reseal, Pulls, Disturb, TypeInv
<1>16. CASE Forgets \/ SelectNothing \/ Publishes
  <2>1. pc \in {"idle", "select"} /\ pc' \in {"idle", "select"} /\ UNCHANGED <<ledger, index, disturbed>>
    BY <1>16 DEF Forgets, SelectNothing, Done, Publishes, Publish, Idle, control, history
  <2>2. Loaded' = Loaded
    BY <2>1 DEF Loaded
  <2> QED BY <2>1, <2>2
<1> QED BY <1>1, <1>2, <1>3, <1>4, <1>5, <1>6, <1>7, <1>8, <1>9, <1>10, <1>11, <1>12, <1>13,
           <1>14, <1>15, <1>16 DEF StepKinds

-----------------------------------------------------------------------------
\* The invariant holds, and the properties follow.

THEOREM Invariance == Spec => []Inv
<1>1. Init => Inv
  BY TypeInit, ControlInit, KnownInit, KeptInit, OnceInit, PeriodInit, IndexInit DEF Inv
<1>2. Inv /\ [Next]_vars => Inv'
  <2> SUFFICES ASSUME Inv, [Next]_vars PROVE Inv'
    OBVIOUS
  <2>1. TypeInv /\ ControlInv /\ KnownInv /\ KeptInv /\ OnceInv /\ PeriodInv /\ IndexInv
    BY DEF Inv
  <2>2. StepKinds \/ UNCHANGED vars
    BY <2>1, NextIsOneOf
  <2>3. TypeInv' /\ ControlInv' /\ KnownInv'
    BY <2>1, <2>2, TypeStep, ControlStep, KnownStep
  <2>4. KeptInv' /\ PeriodInv'
    BY <2>1, <2>2, KeptStep, PeriodStep
  <2>5. OnceInv'
    <3>1. CASE disturbed' = 0
      BY <2>1, <2>2, <3>1, OnceStep
    <3>2. CASE disturbed' # 0
      BY <3>2 DEF OnceInv
    <3> QED BY <3>1, <3>2
  <2>6. IndexInv'
    <3>1. CASE disturbed' = 0
      BY <2>1, <2>2, <3>1, IndexStep
    <3>2. CASE disturbed' # 0
      BY <3>2 DEF IndexInv
    <3> QED BY <3>1, <3>2
  <2> QED BY <2>3, <2>4, <2>5, <2>6 DEF Inv
<1> QED BY <1>1, <1>2, PTL DEF Spec

\* Files, control and history have their types, whatever is killed.
THEOREM TypeCorrect == Spec => []TypeOK
<1>1. Inv => TypeOK
  <2> SUFFICES ASSUME Inv PROVE TypeOK
    OBVIOUS
  <2>1. TypeInv
    BY DEF Inv
  <2>2. ledger \in Seq(Block) /\ Len(ledger) >= 1 /\ ledger[1] = Genesis(FirstDate)
    BY <2>1 DEF TypeInv, Chain
  <2>3. ASSUME NEW i \in 2..Len(ledger)
        PROVE  \/ ledger[i].kind = "day" /\ ledger[i].entries \in Seq(Committed)
               \/ IsSummary(ledger[i]) /\ ledger[i].entries = <<>>
    <3>1. ledger[i] \in DayBlk \cup Summary
      BY <2>1 DEF TypeInv, Chain
    <3>2. CASE ledger[i] \in DayBlk
      BY <3>2 DEF DayBlk
    <3>3. CASE ledger[i] \in Summary
      BY <3>3 DEF Summary, IsSummary
    <3> QED BY <3>1, <3>2, <3>3
  <2>4. ledger # <<>>
    BY <2>2
  <2> QED BY <2>1, <2>2, <2>3, <2>4 DEF TypeOK, TypeInv
<1> QED BY <1>1, Invariance, PTL

LEMMA InLedgerIs ==
  ASSUME TypeInv
  PROVE  InLedger = IdsOf(Placed(ledger)) /\ Placed(ledger) \in Seq(PlacedAt)
<1>1. ledger \in Seq(Block)
  BY DEF TypeInv, Chain
<1>2. Placed(ledger) \in Seq(PlacedAt)
  BY <1>1, PlacedConcat
<1> QED BY <1>2, IdsPlaced DEF InLedger

\* What a user captured and did not remove is staged or committed, whatever step
\* of whatever command a kill interrupts, or a sync dropped it and the remote
\* ledger has an entry of its day and title.
THEOREM EntriesAreKept == Spec => []EntryKept
<1>1. Inv => EntryKept
  BY InLedgerIs DEF Inv, KeptInv, EntryKept, Superseded
<1> QED BY <1>1, Invariance, PTL

LEMMA AtMostOne ==
  ASSUME NEW S, \A x, y \in S : x = y
  PROVE  /\ Cardinality(S) \in Nat /\ Cardinality(S) <= 1
         /\ S = {} => Cardinality(S) = 0
<1>1. CASE S = {}
  BY <1>1, FS_EmptySet
<1>2. CASE S # {}
  <2>1. PICK x : S = {x}
    BY <1>2
  <2> QED BY <2>1, FS_Singleton
<1> QED BY <1>1, <1>2

\* Commands that run to their end leave an entry in one place, once.
THEOREM EntriesAreOnce == Spec => []EntryOnce
<1>1. Inv => EntryOnce
  <2> SUFFICES ASSUME Inv, pc = "idle", disturbed = 0, NEW e \in Entry
               PROVE  CopiesOf(e) <= 1
    BY DEF EntryOnce
  <2>1. /\ StagedOnce(staging) /\ OnceIn(Placed(ledger))
        /\ \A i \in DOMAIN staging : staging[i].id \notin IdsOf(Placed(ledger))
    BY DEF Inv, OnceInv, Dropped
  <2> DEFINE A == {i \in DOMAIN staging : staging[i].id = e}
             B == {k \in DOMAIN Placed(ledger) : Placed(ledger)[k].entry.id = e}
  <2>2. \A x, y \in A : x = y
    BY <2>1 DEF StagedOnce
  <2>3. \A x, y \in B : x = y
    BY <2>1 DEF OnceIn
  <2>4. A = {} \/ B = {}
    BY <2>1 DEF IdsOf
  <2>5. CopiesOf(e) = Cardinality(A) + Cardinality(B)
    BY DEF CopiesOf
  <2> HIDE DEF A, B
  <2>6. Cardinality(A) \in Nat /\ Cardinality(A) <= 1 /\ (A = {} => Cardinality(A) = 0)
    BY <2>2, AtMostOne
  <2>7. Cardinality(B) \in Nat /\ Cardinality(B) <= 1 /\ (B = {} => Cardinality(B) = 0)
    BY <2>3, AtMostOne
  <2> QED BY <2>4, <2>5, <2>6, <2>7
<1> QED BY <1>1, Invariance, PTL

\* Between days of two months in a row there is a summary, also after reverts,
\* kills and blocks of other devices.
THEOREM PeriodsAreSeparated == Spec => []PeriodsSeparated
<1>1. Inv => PeriodsSeparated
  <2> SUFFICES ASSUME Inv, NEW i \in DayPositions(ledger), NEW j \in DayPositions(ledger),
                      i < j, Month(ledger[j].date) > Month(ledger[i].date),
                      \A k \in (i + 1)..(j - 1) : ~IsDay(ledger[k])
               PROVE  \E k \in (i + 1)..(j - 1) : IsSummary(ledger[k])
    BY DEF PeriodsSeparated
  <2>1. Chain(ledger) /\ AllFit(ledger)
    BY DEF Inv, TypeInv, PeriodInv
  <2>2. ledger \in Seq(Block)
    BY <2>1 DEF Chain
  <2>3. i \in 1..Len(ledger) /\ j \in 1..Len(ledger) /\ IsDay(ledger[i]) /\ IsDay(ledger[j])
    BY <2>2 DEF DayPositions
  <2>4. CASE j = i + 1
    <3>1. j \in 2..Len(ledger) /\ j - 1 = i
      BY <2>2, <2>3, <2>4
    <3>2. Fits(ledger[i], ledger[j])
      BY <2>1, <3>1 DEF AllFit
    <3> QED BY <2>3, <3>2 DEF Fits
  <2>5. CASE j # i + 1
    <3>1. i + 1 \in (i + 1)..(j - 1) /\ i + 1 \in 2..Len(ledger)
      BY <2>2, <2>3, <2>5
    <3>2. ledger[i + 1] \in DayBlk \cup Summary
      BY <2>1, <3>1 DEF Chain
    <3>3. ~IsDay(ledger[i + 1])
      BY <3>1
    <3>4. ledger[i + 1] \in Summary
      BY <3>2, <3>3 DEF DayBlk, IsDay
    <3>5. IsSummary(ledger[i + 1])
      BY <3>4 DEF Summary, IsSummary
    <3> QED BY <3>1, <3>5
  <2> QED BY <2>4, <2>5
<1> QED BY <1>1, Invariance, PTL

\* No month or year is closed twice in a row.
THEOREM PeriodsAreClosedOnce == Spec => []NoPeriodClosedTwice
<1>1. Inv => NoPeriodClosedTwice
  BY DEF Inv, PeriodInv, AllFit, Fits, NoPeriodClosedTwice
<1> QED BY <1>1, Invariance, PTL

\* The index is the one rebuild_index would make of the ledger.
THEOREM IndexIsThatOfLedger == Spec => []IndexMatchesLedger
<1>1. Inv => IndexMatchesLedger
  BY DEF Inv, IndexInv, IndexMatchesLedger
<1> QED BY <1>1, Invariance, PTL
=============================================================================
