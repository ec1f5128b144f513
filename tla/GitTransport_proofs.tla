-------------------------- MODULE GitTransport_proofs --------------------------
(***************************************************************************)
(* Proofs about GitTransport, for any devices, paths, faults and numbers   *)
(* of pushes.                                                              *)
(*                                                                         *)
(* The invariant says of every clone that its commits name blobs pushed so *)
(* far and no conflict markers, and that main is in order: at each path a  *)
(* commit puts a newer blob in the place of those before it, and the first *)
(* fits the remote commits below (Sound).  In the midst of a call the same *)
(* holds of HEAD, which may be detached, except at the path of the call,   *)
(* where HEAD has the call's blob (InCall).  The retry of a push may start *)
(* again from main, which must then have nothing newer than the blob       *)
(* (DeviceSound).  A rebase keeps the order commit by commit (Replayed, by *)
(* induction on the number of commits).                                    *)
(***************************************************************************)
EXTENDS GitTransport, CommonLemmas

-----------------------------------------------------------------------------
(***************************************************************************)
(* The blobs after some commits.                                           *)
(***************************************************************************)
Touches(s, p) == \E i \in DOMAIN s : s[i].path = p

\* The last commit at p is number j.
LastAt(s, p, j) ==
  /\ j \in DOMAIN s /\ s[j].path = p
  /\ \A i \in DOMAIN s : i > j => s[i].path # p

LEMMA LastExists ==
  ASSUME NEW S, NEW s \in Seq(S), NEW p, Touches(s, p)
  PROVE  \E j \in DOMAIN s : LastAt(s, p, j) /\ j = Max({i \in DOMAIN s : s[i].path = p})
<1> DEFINE T == {i \in DOMAIN s : s[i].path = p}
<1>1. DOMAIN s = 1..Len(s) /\ Len(s) \in Nat
  OBVIOUS
<1>2. T \in SUBSET (1..Len(s)) /\ T # {}
  BY <1>1 DEF Touches
<1>3. Max(T) \in T /\ \A y \in T : y <= Max(T)
  <2> HIDE DEF T
  <2> QED BY <1>1, <1>2, MaxOfSet
<1> DEFINE j == Max(T)
<1>4. j \in DOMAIN s /\ s[j].path = p /\ \A i \in DOMAIN s : s[i].path = p => i <= j
  BY <1>3
<1> HIDE DEF j
<1>5. LastAt(s, p, j)
  BY <1>1, <1>4 DEF LastAt
<1> QED BY <1>4, <1>5 DEF j

LEMMA FirstExists ==
  ASSUME NEW S, NEW s \in Seq(S), NEW p, Touches(s, p)
  PROVE  \E i \in DOMAIN s : s[i].path = p /\ \A k \in DOMAIN s : s[k].path = p => i <= k
<1> DEFINE N == Len(s)
           T == {m \in 1..N : s[(N + 1) - m].path = p}
<1>1. N \in Nat /\ DOMAIN s = 1..N
  OBVIOUS
<1> HIDE DEF N
<1>2. \A i \in 1..N : /\ (N + 1) - i \in 1..N /\ (N + 1) - ((N + 1) - i) = i
                      /\ s[i].path = p => (N + 1) - i \in T
  BY <1>1
<1>3. T # {} /\ T \in SUBSET (1..N)
  BY <1>1, <1>2 DEF Touches
<1> DEFINE m == Max(T)
<1>4. m \in T /\ \A y \in T : y <= m
  <2> HIDE DEF T
  <2> QED BY <1>1, <1>3, MaxOfSet
<1> HIDE DEF m
<1>5. (N + 1) - m \in 1..N /\ s[(N + 1) - m].path = p /\ m \in 1..N
  BY <1>1, <1>4
<1>6. ASSUME NEW k \in 1..N, s[k].path = p
      PROVE  (N + 1) - m <= k
  <2>1. (N + 1) - k <= m
    BY <1>2, <1>4, <1>6
  <2> QED BY <1>1, <1>5, <2>1
<1> QED BY <1>1, <1>5, <1>6

LEMMA TreeAt ==
  ASSUME NEW S, NEW s \in Seq(S), NEW p \in Path
  PROVE  /\ ~Touches(s, p) => Tree(s)[p] = None
         /\ \A j : LastAt(s, p, j) => Tree(s)[p] = s[j].to
<1> DEFINE T == {i \in DOMAIN s : s[i].path = p}
<1>1. Tree(s)[p] = IF T = {} THEN None ELSE s[Max(T)].to
  BY DEF Tree
<1>2. ~Touches(s, p) => T = {}
  BY DEF Touches
<1>3. ASSUME NEW j, LastAt(s, p, j)
      PROVE  T # {} /\ j = Max(T)
  <2>1. Touches(s, p)
    BY <1>3 DEF Touches, LastAt
  <2>2. PICK k \in DOMAIN s : LastAt(s, p, k) /\ k = Max(T)
    BY <2>1, LastExists
  <2>3. j = k
    <3>1. DOMAIN s = 1..Len(s) /\ Len(s) \in Nat
      OBVIOUS
    <3> QED BY <1>3, <2>2, <3>1 DEF LastAt
  <2> QED BY <1>3, <2>2, <2>3 DEF LastAt
<1> HIDE DEF T
<1> QED BY <1>1, <1>2, <1>3

\* What some more commits change.
LEMMA TreeConcat ==
  ASSUME NEW S, NEW s \in Seq(S), NEW t \in Seq(S), NEW p \in Path
  PROVE  Tree(s \o t)[p] = IF Touches(t, p) THEN Tree(t)[p] ELSE Tree(s)[p]
<1> DEFINE st == s \o t
<1>1. /\ st \in Seq(S) /\ Len(s) \in Nat /\ Len(t) \in Nat
      /\ DOMAIN s = 1..Len(s) /\ DOMAIN t = 1..Len(t)
      /\ DOMAIN st = 1..(Len(s) + Len(t))
      /\ \A i \in 1..Len(s) : st[i] = s[i]
      /\ \A i \in 1..Len(t) : st[Len(s) + i] = t[i]
  OBVIOUS
<1> HIDE DEF st
<1>2. \A i \in DOMAIN st : i \in 1..Len(s) \/ i - Len(s) \in 1..Len(t)
  BY <1>1
<1>3. CASE Touches(t, p)
  <2>1. PICK j \in DOMAIN t : LastAt(t, p, j)
    BY <1>3, LastExists
  <2>2. LastAt(st, p, Len(s) + j)
    <3>1. Len(s) + j \in DOMAIN st /\ st[Len(s) + j].path = p
      BY <1>1, <2>1 DEF LastAt
    <3>2. ASSUME NEW i \in DOMAIN st, i > Len(s) + j
          PROVE  st[i].path # p
      <4>1. i - Len(s) \in 1..Len(t) /\ i - Len(s) > j /\ Len(s) + (i - Len(s)) = i
        BY <1>1, <1>2, <3>2, <2>1
      <4> QED BY <1>1, <2>1, <4>1 DEF LastAt
    <3> QED BY <3>1, <3>2 DEF LastAt
  <2>3. Tree(st)[p] = st[Len(s) + j].to /\ Tree(t)[p] = t[j].to
    BY <1>1, <2>1, <2>2, TreeAt
  <2> QED BY <1>1, <1>3, <2>1, <2>3 DEF st
<1>4. CASE ~Touches(t, p) /\ Touches(s, p)
  <2>1. PICK j \in DOMAIN s : LastAt(s, p, j)
    BY <1>4, LastExists
  <2>2. LastAt(st, p, j)
    <3>1. ASSUME NEW i \in DOMAIN st, i > j
          PROVE  st[i].path # p
      <4>1. CASE i \in 1..Len(s)
        BY <1>1, <2>1, <3>1, <4>1 DEF LastAt
      <4>2. CASE i - Len(s) \in 1..Len(t)
        <5>1. st[i] = t[i - Len(s)]
          <6>1. Len(s) + (i - Len(s)) = i
            BY <1>1
          <6> QED BY <1>1, <4>2, <6>1
        <5> QED BY <1>1, <1>4, <4>2, <5>1 DEF Touches
      <4> QED BY <1>2, <4>1, <4>2
    <3> QED BY <1>1, <2>1, <3>1 DEF LastAt
  <2>3. Tree(st)[p] = st[j].to /\ Tree(s)[p] = s[j].to
    BY <1>1, <2>1, <2>2, TreeAt
  <2> QED BY <1>1, <1>4, <2>1, <2>3 DEF st
<1>5. CASE ~Touches(t, p) /\ ~Touches(s, p)
  <2>1. ~Touches(st, p)
    <3>1. ASSUME NEW i \in DOMAIN st
          PROVE  st[i].path # p
      <4>1. CASE i \in 1..Len(s)
        BY <1>1, <1>5, <4>1 DEF Touches
      <4>2. CASE i - Len(s) \in 1..Len(t)
        <5>1. st[i] = t[i - Len(s)]
          <6>1. Len(s) + (i - Len(s)) = i
            BY <1>1
          <6> QED BY <1>1, <4>2, <6>1
        <5> QED BY <1>1, <1>5, <4>2, <5>1 DEF Touches
      <4> QED BY <1>2, <4>1, <4>2
    <3> QED BY <3>1 DEF Touches
  <2> QED BY <1>1, <1>5, <2>1, TreeAt DEF st
<1> QED BY <1>3, <1>4, <1>5

-----------------------------------------------------------------------------
(***************************************************************************)
(* What a clone is like between any two calls of git.                      *)
(***************************************************************************)
\* Blobs numbered up to n, or none.
Kept(n) == (1..n) \cup {None}

\* Commits that name such blobs, without conflict markers, and change something.
Good(n) == {x \in [path : Path, from : Kept(n), to : Kept(n)] : x.from # x.to}

\* Of the commits at p each puts a newer blob in the place of those before it,
RisingAt(s, p) ==
  \A i, j \in DOMAIN s :
    /\ i <= j /\ s[i].path = p /\ s[j].path = p
    /\ s[i].from # None /\ s[j].to # None
    => s[j].to > s[i].from

\* and the first fits the commits below.
RootedAt(below, s, p) ==
  \A j \in DOMAIN s :
    s[j].path = p /\ (\A i \in DOMAIN s : i < j => s[i].path # p) =>
      s[j].from = Tree(below)[p]

Base(r, n) == SubSeq(r, 1, n)

Ordered(r, b, s) == \A p \in Path : RisingAt(s, p) /\ RootedAt(Base(r, b), s, p)

HeadAt(r, c) == Tree(Base(r, HeadOf(c).base) \o HeadOf(c).ahead)

\* A clone of the repository with commits r; its own name blobs up to n.
Sound(r, c, n) ==
  /\ c \in Clone /\ c.base <= Len(r) /\ c.ahead \in Seq(Good(n))
  /\ Ordered(r, c.base, c.ahead)
  /\ c.rebase # None => /\ c.rebase.base <= Len(r)
                        /\ c.rebase.ahead \in Seq(Good(n))
  /\ \A p \in Path : c.files[p] = Garbled => c.conflict = p
  /\ c.rebase = None => c.conflict = None /\ c.files = HeadAt(r, c)

RemoteSound(r, n) == n \in 0..MaxPushes /\ r \in Seq(Good(n))

LEMMA GoodCommits ==
  ASSUME NEW n \in 0..MaxPushes
  PROVE  /\ Kept(n) \subseteq Content /\ Garbled \notin Kept(n) /\ None \in Kept(n)
         /\ Good(n) \subseteq Commit
         /\ \A s \in Seq(Good(n)) : s \in Seq(Commit)
<1>1. /\ Kept(n) \subseteq Content /\ Garbled \notin Kept(n) /\ None \in Kept(n)
  BY NamesAssumption, BoundsAssumption DEF Kept, Content, Blob
<1>2. Good(n) \subseteq Commit
  BY <1>1 DEF Good, Commit
<1> QED BY <1>1, <1>2

LEMMA GoodGrows ==
  ASSUME NEW n \in Nat, NEW m \in Nat, n <= m
  PROVE  Kept(n) \subseteq Kept(m) /\ \A s \in Seq(Good(n)) : s \in Seq(Good(m))
<1>1. Kept(n) \subseteq Kept(m)
  BY DEF Kept
<1>2. Good(n) \subseteq Good(m)
  BY <1>1 DEF Good
<1> QED BY <1>1, <1>2

LEMMA TreeValues ==
  ASSUME NEW n \in 0..MaxPushes, NEW s \in Seq(Good(n))
  PROVE  /\ Tree(s) \in [Path -> Content]
         /\ \A p \in Path : Tree(s)[p] \in Kept(n) /\ Tree(s)[p] # Garbled
<1>1. ASSUME NEW p \in Path
      PROVE  Tree(s)[p] \in Kept(n)
  <2>1. CASE ~Touches(s, p)
    BY <2>1, TreeAt, GoodCommits
  <2>2. CASE Touches(s, p)
    <3>1. PICK j \in DOMAIN s : LastAt(s, p, j)
      BY <2>2, LastExists
    <3>2. Tree(s)[p] = s[j].to
      BY <3>1, TreeAt
    <3>3. s[j] \in Good(n)
      OBVIOUS
    <3> QED BY <3>2, <3>3 DEF Good
  <2> QED BY <2>1, <2>2
<1>2. Tree(s) = [p \in Path |-> Tree(s)[p]]
  BY DEF Tree
<1> QED BY <1>1, <1>2, GoodCommits

\* The commits of a branch of the remote's.
LEMMA BaseSound ==
  ASSUME NEW n, RemoteSound(remote, n), NEW b \in 0..Len(remote), NEW s \in Seq(Good(n))
  PROVE  /\ Base(remote, b) \in Seq(Good(n)) /\ Len(Base(remote, b)) = b
         /\ Commits(b, s) = Base(remote, b) \o s /\ Commits(b, s) \in Seq(Good(n))
         /\ Base(remote, Len(remote)) = remote
BY DEF RemoteSound, Base, Commits

LEMMA HeadSound ==
  ASSUME NEW n, RemoteSound(remote, n), NEW c, Sound(remote, c, n)
  PROVE  /\ HeadOf(c) = [base |-> HeadOf(c).base, ahead |-> HeadOf(c).ahead]
         /\ HeadOf(c).base \in 0..Len(remote) /\ HeadOf(c).ahead \in Seq(Good(n))
         /\ HeadTree(c) = HeadAt(remote, c)
         /\ HeadTree(c) \in [Path -> Content]
         /\ \A p \in Path : HeadTree(c)[p] \in Kept(n) /\ HeadTree(c)[p] # Garbled
<1>1. /\ HeadOf(c) = [base |-> HeadOf(c).base, ahead |-> HeadOf(c).ahead]
      /\ HeadOf(c).base \in 0..Len(remote) /\ HeadOf(c).ahead \in Seq(Good(n))
  <2>1. CASE c.rebase = None
    BY <2>1 DEF Sound, Clone, HeadOf
  <2>2. CASE c.rebase # None
    <3>1. c.rebase \in Branch
      BY <2>2 DEF Sound, Clone
    <3> QED BY <2>2, <3>1 DEF Sound, HeadOf, Branch
  <2> QED BY <2>1, <2>2
<1>2. /\ Commits(HeadOf(c).base, HeadOf(c).ahead) = Base(remote, HeadOf(c).base) \o HeadOf(c).ahead
      /\ Base(remote, HeadOf(c).base) \o HeadOf(c).ahead \in Seq(Good(n))
  <2> DEFINE b == HeadOf(c).base
             s == HeadOf(c).ahead
  <2>1. b \in 0..Len(remote) /\ s \in Seq(Good(n))
    BY <1>1
  <2> HIDE DEF b, s
  <2>2. Commits(b, s) = Base(remote, b) \o s /\ Commits(b, s) \in Seq(Good(n))
    BY <2>1, BaseSound
  <2> QED BY <2>2 DEF b, s
<1>3. HeadTree(c) = HeadAt(remote, c)
  BY <1>2 DEF HeadTree, HeadAt
<1>4. n \in 0..MaxPushes
  BY DEF RemoteSound
<1> QED BY <1>1, <1>2, <1>3, <1>4, TreeValues DEF HeadAt

\* A clone on main, made or got back to.
LEMMA OnMainSound ==
  ASSUME NEW n, RemoteSound(remote, n), NEW b \in 0..Len(remote), NEW s \in Seq(Good(n)),
         Ordered(remote, b, s), NEW c, c = OnMain(b, s)
  PROVE  /\ Sound(remote, c, n)
         /\ c.base = b /\ c.ahead = s
         /\ c.rebase = None /\ c.conflict = None /\ c.files = Tree(Base(remote, b) \o s)
<1>1. /\ c.base = b /\ c.ahead = s
      /\ c.rebase = None /\ c.conflict = None /\ c.files = Tree(Commits(b, s))
  BY DEF OnMain
<1>2. /\ Commits(b, s) = Base(remote, b) \o s /\ Commits(b, s) \in Seq(Good(n))
  BY BaseSound
<1>3. n \in 0..MaxPushes
  BY DEF RemoteSound
<1>4. /\ Tree(Commits(b, s)) \in [Path -> Content]
      /\ \A p \in Path : Tree(Commits(b, s))[p] # Garbled
  BY <1>2, <1>3, TreeValues
<1>5. s \in Seq(Commit)
  BY <1>3, GoodCommits
<1>6. c \in Clone
  BY <1>4, <1>5 DEF OnMain, Clone
<1>7. HeadAt(remote, c) = c.files
  BY <1>1, <1>2 DEF HeadAt, HeadOf
<1>8. c.base <= Len(remote) /\ Ordered(remote, c.base, c.ahead) /\ c.ahead \in Seq(Good(n))
  BY <1>1 DEF RemoteSound
<1>9. Sound(remote, c, n)
  BY <1>1, <1>4, <1>6, <1>7, <1>2, <1>8 DEF Sound
<1> QED BY <1>1, <1>2, <1>9

LEMMA AbortedSound ==
  ASSUME NEW n, RemoteSound(remote, n), NEW c, Sound(remote, c, n)
  PROVE  /\ Sound(remote, Aborted(c), n)
         /\ Aborted(c).base = c.base /\ Aborted(c).ahead = c.ahead
         /\ Aborted(c).rebase = None
<1>1. /\ c.base \in 0..Len(remote) /\ c.ahead \in Seq(Good(n))
      /\ Ordered(remote, c.base, c.ahead)
  BY DEF Sound, Clone
<1> QED BY <1>1, OnMainSound DEF Aborted

\* A new clone has no commits of its own.
LEMMA OpenedSound ==
  ASSUME NEW n, RemoteSound(remote, n), NEW d \in Device,
         clone[d] \in Clone => Sound(remote, clone[d], n),
         clone[d] \in Clone \cup {None, Occupied},
         NEW online, NEW c \in Opened(d, online)
  PROVE  /\ Sound(remote, c, n)
         /\ clone[d] = None \/ clone[d] \in Clone
         /\ clone[d] \in Clone => c = clone[d]
         /\ clone[d] = None => c.ahead = <<>> /\ c.base = Len(remote)
<1>1. /\ <<>> \in Seq(Good(n)) /\ \A b : Ordered(remote, b, <<>>)
      /\ Len(remote) \in 0..Len(remote)
  BY DEF Ordered, RisingAt, RootedAt, RemoteSound
<1>2. CASE clone[d] # None
  BY <1>2, NamesAssumption DEF Opened
<1>3. CASE clone[d] = None
  <2> DEFINE s == <<>>
             b == Len(remote)
  <2>1. s \in Seq(Good(n)) /\ Ordered(remote, b, s) /\ b \in 0..Len(remote)
    BY <1>1
  <2>2. c = OnMain(b, s)
    BY <1>3 DEF Opened
  <2> HIDE DEF s, b
  <2>3. Sound(remote, c, n)
    BY <2>1, <2>2, OnMainSound
  <2>4. c.base = b /\ c.ahead = s
    BY <2>2 DEF OnMain
  <2> QED BY <1>3, <2>3, <2>4, NamesAssumption DEF s, b
<1> QED BY <1>2, <1>3


-----------------------------------------------------------------------------
(***************************************************************************)
(* What git pull --rebase makes of the commits of a clone, one by one.     *)
(***************************************************************************)
\* The commits of s that are not upstream's are on top of it, or are those of c.
From(s, t) == \A j \in DOMAIN s : \E m \in DOMAIN t : s[j] = t[m]

\* The first i commits of s have been replayed.
Replayed(st, s, i, n) ==
  /\ st = [ahead |-> st.ahead, stop |-> st.stop] /\ st.ahead \in Seq(Good(n))
  /\ \A j \in DOMAIN st.ahead : \E m \in 1..i : st.ahead[j] = s[m]
  /\ \A p \in Path : RisingAt(st.ahead, p) /\ RootedAt(remote, st.ahead, p)
  /\ st.stop = None \/ \E m \in 1..i : st.stop = s[m]
  /\ st.stop = None =>
       \A p \in Path, m \in 1..i :
         s[m].path = p /\ (\A k \in (m + 1)..i : s[k].path # p) =>
           Tree(remote \o st.ahead)[p] = s[m].to

LEMMA TreeAppend ==
  ASSUME NEW S, NEW s \in Seq(S), NEW x \in S, NEW p \in Path
  PROVE  Tree(Append(s, x))[p] = IF x.path = p THEN x.to ELSE Tree(s)[p]
<1> DEFINE t == <<x>>
<1>1. Append(s, x) = s \o t /\ t \in Seq(S) /\ DOMAIN t = {1} /\ t[1] = x
  OBVIOUS
<1> HIDE DEF t
<1>2. Touches(t, p) <=> x.path = p
  BY <1>1 DEF Touches
<1>3. x.path = p => LastAt(t, p, 1)
  BY <1>1 DEF LastAt
<1>4. x.path = p => Tree(t)[p] = x.to
  BY <1>1, <1>3, TreeAt
<1> QED BY <1>1, <1>2, <1>4, TreeConcat

\* A commit on top of others, to be newer than what they put there and to fit.
LEMMA OrderedAppend ==
  ASSUME NEW S, NEW r \in Seq(S), NEW s \in Seq(S), NEW x \in S, NEW p \in Path,
         RisingAt(s, p), RootedAt(r, s, p),
         x.path = p =>
           /\ \A i \in DOMAIN s : s[i].path = p /\ s[i].from # None /\ x.to # None
                                   => x.to > s[i].from
           /\ x.from # None /\ x.to # None => x.to > x.from
           /\ x.from = Tree(r \o s)[p]
  PROVE  RisingAt(Append(s, x), p) /\ RootedAt(r, Append(s, x), p)
<1> DEFINE t == Append(s, x)
<1>1. /\ Len(s) \in Nat /\ DOMAIN s = 1..Len(s) /\ DOMAIN t = 1..(Len(s) + 1)
      /\ \A i \in DOMAIN s : t[i] = s[i]
      /\ t[Len(s) + 1] = x
  OBVIOUS
<1> HIDE DEF t
<1>2. RisingAt(t, p)
  <2> SUFFICES ASSUME NEW i \in DOMAIN t, NEW j \in DOMAIN t, i <= j,
                      t[i].path = p, t[j].path = p, t[i].from # None, t[j].to # None
               PROVE  t[j].to > t[i].from
    BY DEF RisingAt
  <2>1. CASE j \in DOMAIN s
    <3>1. i \in DOMAIN s
      BY <1>1, <2>1
    <3> QED BY <1>1, <2>1, <3>1 DEF RisingAt
  <2>2. CASE j = Len(s) + 1 /\ i \in DOMAIN s
    BY <1>1, <2>2
  <2>3. CASE j = Len(s) + 1 /\ i = Len(s) + 1
    BY <1>1, <2>3
  <2> QED BY <1>1, <2>1, <2>2, <2>3
<1>3. RootedAt(r, t, p)
  <2> SUFFICES ASSUME NEW j \in DOMAIN t, t[j].path = p,
                      \A i \in DOMAIN t : i < j => t[i].path # p
               PROVE  t[j].from = Tree(r)[p]
    BY DEF RootedAt
  <2>1. CASE j \in DOMAIN s
    <3>1. \A i \in DOMAIN s : i < j => s[i].path # p
      BY <1>1
    <3> QED BY <1>1, <2>1, <3>1 DEF RootedAt
  <2>2. CASE j = Len(s) + 1
    <3>1. ~Touches(s, p)
      BY <1>1, <2>2 DEF Touches
    <3>2. Tree(r \o s)[p] = Tree(r)[p]
      BY <3>1, TreeConcat
    <3> QED BY <1>1, <2>2, <3>2
  <2> QED BY <1>1, <2>1, <2>2
<1> QED BY <1>2, <1>3 DEF t

LEMMA ReplayStep ==
  ASSUME NEW n, RemoteSound(remote, n), NEW s \in Seq(Good(n)),
         \A p \in Path : RisingAt(s, p),
         NEW i \in 1..Len(s), NEW st, Replayed(st, s, i - 1, n)
  PROVE  Replayed(Replay(st, s[i]), s, i, n)
<1> DEFINE x == s[i]
           u == Tree(remote \o st.ahead)[x.path]
<1>1. /\ x \in Good(n) /\ x.path \in Path /\ x.from \in Kept(n) /\ x.to \in Kept(n)
      /\ x.from # x.to /\ i \in Nat /\ i - 1 \in Nat
      /\ DOMAIN s = 1..Len(s) /\ Len(s) \in Nat
  <2>1. x \in Good(n)
    OBVIOUS
  <2> QED BY <2>1 DEF Good
<1>2. \A m \in 1..(i - 1) : m \in 1..i /\ m \in DOMAIN s /\ m < i
  BY <1>1
<1>3. remote \in Seq(Good(n))
  BY DEF RemoteSound
<1>4. st.ahead \in Seq(Good(n)) /\ u = Tree(remote \o st.ahead)[x.path]
      /\ Len(st.ahead) \in Nat /\ DOMAIN st.ahead = 1..Len(st.ahead)
  BY DEF Replayed
<1>5. Replay(st, x) = IF st.stop # None \/ u = x.to THEN st
                      ELSE IF u = x.from THEN [st EXCEPT !.ahead = Append(@, x)]
                                         ELSE [st EXCEPT !.stop = x]
  BY DEF Replay
<1>6. st = [ahead |-> st.ahead, stop |-> st.stop] /\ x # None
  <2>1. x \in Commit
    BY <1>1, GoodCommits DEF RemoteSound
  <2> QED BY <2>1, NamesAssumption DEF Replayed
<1> HIDE DEF x, u
<1>7. x = s[i]
  BY DEF x
\* The last commit at p of the first i.
<1>8. ASSUME NEW p \in Path, NEW m \in 1..i, s[m].path = p,
             \A k \in (m + 1)..i : s[k].path # p
      PROVE  \/ m = i /\ p = x.path
             \/ /\ m \in 1..(i - 1) /\ p # x.path
                /\ \A k \in (m + 1)..(i - 1) : s[k].path # p
  <2>1. CASE m = i
    BY <1>7, <1>8, <2>1
  <2>2. CASE m # i
    <3>1. m \in 1..(i - 1) /\ i \in (m + 1)..i /\ \A k \in (m + 1)..(i - 1) : k \in (m + 1)..i
      BY <1>1, <2>2
    <3> QED BY <1>7, <1>8, <3>1
  <2> QED BY <2>1, <2>2
<1>9. CASE st.stop # None
  <2>1. Replay(st, x) = st
    BY <1>5, <1>9
  <2>2. /\ \A j \in DOMAIN st.ahead : \E m \in 1..i : st.ahead[j] = s[m]
        /\ \E m \in 1..i : st.stop = s[m]
    BY <1>2, <1>9 DEF Replayed
  <2> QED BY <1>6, <1>7, <1>9, <2>1, <2>2 DEF Replayed
<1>10. CASE st.stop = None /\ u = x.to
  <2>1. Replay(st, x) = st
    BY <1>5, <1>10
  <2>2. \A j \in DOMAIN st.ahead : \E m \in 1..i : st.ahead[j] = s[m]
    BY <1>2 DEF Replayed
  <2>3. ASSUME NEW p \in Path, NEW m \in 1..i, s[m].path = p,
               \A k \in (m + 1)..i : s[k].path # p
        PROVE  Tree(remote \o st.ahead)[p] = s[m].to
    BY <1>4, <1>7, <1>8, <1>10, <2>3 DEF Replayed
  <2> QED BY <1>6, <1>7, <1>10, <2>1, <2>2, <2>3 DEF Replayed
<1>11. CASE st.stop = None /\ u # x.to /\ u = x.from
  <2> DEFINE new == Append(st.ahead, x)
             all == remote \o st.ahead
  <2>1. Replay(st, x) = [ahead |-> new, stop |-> None]
    <3>1. Replay(st, x) = [st EXCEPT !.ahead = Append(@, x)]
      BY <1>5, <1>11
    <3> QED BY <1>6, <1>11, <3>1
  <2>2. /\ new \in Seq(Good(n)) /\ all \in Seq(Good(n)) /\ remote \o new = Append(all, x)
        /\ DOMAIN new = 1..(Len(st.ahead) + 1) /\ new[Len(st.ahead) + 1] = x
        /\ \A j \in DOMAIN st.ahead : new[j] = st.ahead[j]
    BY <1>1, <1>3, <1>4, SMTT(30)
  <2>3. u = Tree(all)[x.path]
    BY <1>4
  <2> HIDE DEF all
  <2>4. \A p \in Path : Tree(remote \o new)[p] = IF x.path = p THEN x.to ELSE Tree(all)[p]
    BY <1>1, <2>2, TreeAppend
  <2>5. ASSUME NEW p \in Path
        PROVE  RisingAt(new, p) /\ RootedAt(remote, new, p)
    <3>1. ASSUME NEW k \in DOMAIN st.ahead, st.ahead[k].path = p, x.path = p,
                 st.ahead[k].from # None, x.to # None
          PROVE  x.to > st.ahead[k].from
      <4>1. PICK m \in 1..(i - 1) : st.ahead[k] = s[m]
        BY DEF Replayed
      <4> QED BY <1>1, <1>2, <1>7, <3>1, <4>1 DEF RisingAt
    <3>2. x.path = p /\ x.from # None /\ x.to # None => x.to > x.from
      BY <1>1, <1>7 DEF RisingAt
    <3>3. RisingAt(st.ahead, p) /\ RootedAt(remote, st.ahead, p)
      BY DEF Replayed
    <3>4. x.path = p => x.from = Tree(remote \o st.ahead)[p]
      BY <1>4, <1>11
    <3> QED BY <1>1, <1>3, <1>4, <3>1, <3>2, <3>3, <3>4, OrderedAppend
  <2>6. ASSUME NEW j \in DOMAIN new
        PROVE  \E m \in 1..i : new[j] = s[m]
    <3>1. CASE j \in DOMAIN st.ahead
      BY <1>2, <2>2, <3>1 DEF Replayed
    <3>2. CASE j = Len(st.ahead) + 1
      BY <1>1, <1>7, <2>2, <3>2
    <3> QED BY <1>4, <2>2, <3>1, <3>2
  <2>7. ASSUME NEW p \in Path, NEW m \in 1..i, s[m].path = p,
               \A k \in (m + 1)..i : s[k].path # p
        PROVE  Tree(remote \o new)[p] = s[m].to
    BY <1>7, <1>8, <1>11, <2>4, <2>7 DEF Replayed, all
  <2>8. new \in Seq(Good(n))
    BY <2>2
  <2> HIDE DEF new
  <2> DEFINE st2 == Replay(st, x)
  <2>9. st2.ahead = new /\ st2.stop = None /\ st2 = [ahead |-> st2.ahead, stop |-> st2.stop]
    BY <2>1
  <2>10. \A p \in Path, m \in 1..i :
           s[m].path = p /\ (\A k \in (m + 1)..i : s[k].path # p) =>
             Tree(remote \o new)[p] = s[m].to
    BY <2>7
  <2> HIDE DEF st2
  <2>11. Replayed(st2, s, i, n)
    BY <2>5, <2>6, <2>8, <2>9, <2>10 DEF Replayed
  <2> QED BY <1>7, <2>11 DEF st2
<1>12. CASE st.stop = None /\ u # x.to /\ u # x.from
  <2>1. Replay(st, x) = [ahead |-> st.ahead, stop |-> x]
    <3>1. Replay(st, x) = [st EXCEPT !.stop = x]
      BY <1>5, <1>12
    <3> QED BY <1>6, <1>12, <3>1
  <2>2. /\ \A j \in DOMAIN st.ahead : \E m \in 1..i : st.ahead[j] = s[m]
        /\ \E m \in 1..i : x = s[m]
    BY <1>1, <1>2, <1>7 DEF Replayed
  <2> QED BY <1>6, <1>7, <2>1, <2>2 DEF Replayed
<1> QED BY <1>7, <1>9, <1>10, <1>11, <1>12

\* The state of a rebase of the commits s after the last of them.
LEMMA RebaseEnds ==
  ASSUME NEW n, RemoteSound(remote, n), NEW s \in Seq(Good(n)),
         \A p \in Path : RisingAt(s, p),
         NEW done,
         done = [i \in 0..Len(s) |->
                   IF i = 0 THEN [ahead |-> <<>>, stop |-> None]
                            ELSE Replay(done[i - 1], s[i])]
  PROVE  Replayed(done[Len(s)], s, Len(s), n)
<1> DEFINE T == {i \in Nat : i <= Len(s) => Replayed(done[i], s, i, n)}
<1>1. Len(s) \in Nat
  OBVIOUS
<1>2. Replayed(done[0], s, 0, n)
  <2> DEFINE none == <<>>
  <2>1. done[0] = [ahead |-> none, stop |-> None]
    BY <1>1
  <2>2. none \in Seq(Good(n)) /\ DOMAIN none = {}
    OBVIOUS
  <2>3. 1..0 = {}
    OBVIOUS
  <2> HIDE DEF none
  <2> QED BY <2>1, <2>2, <2>3 DEF Replayed, RisingAt, RootedAt
<1>3. ASSUME NEW i \in T
      PROVE  i + 1 \in T
  <2> SUFFICES ASSUME i + 1 <= Len(s) PROVE Replayed(done[i + 1], s, i + 1, n)
    OBVIOUS
  <2>1. i \in Nat /\ i + 1 \in 1..Len(s) /\ (i + 1) - 1 = i /\ Replayed(done[i], s, i, n)
    BY <1>1
  <2>2. done[i + 1] = Replay(done[i], s[i + 1])
    <3>1. i + 1 \in 0..Len(s) /\ i + 1 # 0
      BY <1>1, <2>1
    <3> QED BY <2>1, <3>1
  <2> DEFINE k == i + 1
  <2>3. k \in 1..Len(s) /\ Replayed(done[i], s, k - 1, n) /\ done[k] = Replay(done[i], s[k])
    BY <2>1, <2>2
  <2> HIDE DEF k
  <2>4. Replayed(done[k], s, k, n)
    BY <2>3, ReplayStep
  <2> QED BY <2>4 DEF k
<1>4. 0 \in T
  BY <1>2
<1> HIDE DEF T
<1>5. T \in SUBSET Nat
  BY DEF T
<1>6. T = Nat
  BY <1>3, <1>4, <1>5, Induction
<1>7. Len(s) \in T
  BY <1>1, <1>6
<1> QED BY <1>7, <1>1 DEF T

\* A rebase of c has ended in the state end, which is new on main.
RebasedTo(c, end, new, n) ==
  /\ Replayed(end, c.ahead, Len(c.ahead), n)
  /\ new = OnMain(Len(remote), end.ahead)
  /\ end.stop = None => Rebased(c) = new
  /\ end.stop # None =>
       Rebased(c) =
         [c EXCEPT !.rebase = [base |-> new.base, ahead |-> new.ahead],
                   !.conflict = end.stop.path,
                   !.files = [new.files EXCEPT ![end.stop.path] =
                                Merged(end.stop, @)]]

LEMMA RebasedIs ==
  ASSUME NEW n, RemoteSound(remote, n), NEW c, c.ahead \in Seq(Good(n)),
         \A p \in Path : RisingAt(c.ahead, p)
  PROVE  \E end, new : RebasedTo(c, end, new, n)
<1> DEFINE N == Len(c.ahead)
           first == [ahead |-> <<>>, stop |-> None]
           Body(p, k) == [i \in 0..k |-> IF i = 0 THEN first
                                         ELSE Replay(p[i - 1], c.ahead[i])]
<1>0. N \in Nat
  OBVIOUS
<1>1. \E p : p = Body(p, N)
  <2> DEFINE T == {k \in Nat : \E p : p = Body(p, k)}
  <2> HIDE DEF first, N
  <2>1. 0 \in T
    <3> DEFINE p == [i \in 0..0 |-> first]
    <3>1. p = Body(p, 0)
      OBVIOUS
    <3> HIDE DEF p
    <3> QED BY <3>1
  <2>2. ASSUME NEW k \in T
        PROVE  k + 1 \in T
    <3>1. PICK p : p = Body(p, k)
      OBVIOUS
    <3> DEFINE q == Body(p, k + 1)
    <3>2. \A i \in 0..k : q[i] = p[i]
      BY <3>1
    <3>3. \A i \in 0..(k + 1) : i # 0 => i - 1 \in 0..k
      OBVIOUS
    <3>4. \A i \in 0..(k + 1) :
            i # 0 => Replay(q[i - 1], c.ahead[i]) = Replay(p[i - 1], c.ahead[i])
      BY <3>2, <3>3
    <3>5. q = Body(q, k + 1)
      BY <3>4
    <3> HIDE DEF q, Body
    <3>6. \E r : r = Body(r, k + 1)
      BY <3>5
    <3> QED BY <3>6
  <2> HIDE DEF T
  <2>3. T \in SUBSET Nat
    BY DEF T
  <2>4. T = Nat
    BY <2>1, <2>2, <2>3, Induction
  <2> QED BY <1>0, <2>4 DEF T
<1> DEFINE done == CHOOSE p : p = Body(p, N)
           end == done[N]
           new == OnMain(Len(remote), end.ahead)
<1>2. done = Body(done, N)
  <2> HIDE DEF Body
  <2> QED BY <1>1
<1>3. Rebased(c) =
        IF end.stop = None THEN new
        ELSE [c EXCEPT !.rebase = [base |-> new.base, ahead |-> new.ahead],
                       !.conflict = end.stop.path,
                       !.files = [new.files EXCEPT ![end.stop.path] =
                                    Merged(end.stop, @)]]
  BY DEF Rebased
<1> HIDE DEF done
<1>4. Replayed(end, c.ahead, Len(c.ahead), n)
  BY <1>2, RebaseEnds
<1> HIDE DEF end, new
<1>5. RebasedTo(c, end, new, n)
  BY <1>3, <1>4 DEF RebasedTo, new
<1> QED BY <1>5

-----------------------------------------------------------------------------
(***************************************************************************)
(* What a clone is like when a call has refreshed it.                      *)
(***************************************************************************)
\* The clone c has been made of one with the commits s ahead: if its rebase
\* stopped these are still there, and otherwise their last blobs are.
Refreshing(r, s, c, n) ==
  /\ Sound(r, c, n)
  /\ Ordered(r, HeadOf(c).base, HeadOf(c).ahead)
  /\ From(c.ahead, s)
  /\ \A p \in Path : c.files[p] # HeadAt(r, c)[p] => c.conflict = p
  /\ c.rebase # None => c.ahead = s /\ c.conflict # None /\ Touches(s, c.conflict)
  /\ c.rebase = None => \A p \in Path : \A m : LastAt(s, p, m) => c.files[p] = s[m].to

\* What its files are if the remote was reached.
UpToDate(r, s, c) ==
  \A p \in Path :
    \/ c.files[p] = Tree(r)[p]
    \/ \E i \in DOMAIN s : s[i].path = p /\ c.files[p] \in {s[i].to, Garbled}

\* The blob at p is upstream's or that of a commit on top of it.
LEMMA TreeOnTop ==
  ASSUME NEW S, NEW r \in Seq(S), NEW a \in Seq(S), NEW s, From(a, s), NEW p \in Path
  PROVE  \/ Tree(r \o a)[p] = Tree(r)[p]
         \/ \E i \in DOMAIN s : s[i].path = p /\ Tree(r \o a)[p] = s[i].to
<1>1. CASE Touches(a, p)
  <2>1. PICK j \in DOMAIN a : LastAt(a, p, j)
    BY <1>1, LastExists
  <2>2. Tree(r \o a)[p] = a[j].to /\ a[j].path = p
    BY <1>1, <2>1, TreeAt, TreeConcat DEF LastAt
  <2> QED BY <2>2 DEF From
<1>2. CASE ~Touches(a, p)
  BY <1>2, TreeConcat
<1> QED BY <1>1, <1>2

LEMMA RebasedSound ==
  ASSUME NEW n, RemoteSound(remote, n), NEW c, Sound(remote, c, n), c.rebase = None
  PROVE  /\ Refreshing(remote, c.ahead, Rebased(c), n)
         /\ UpToDate(remote, c.ahead, Rebased(c))
<1> DEFINE s == c.ahead
           N == Len(remote)
           c2 == Rebased(c)
<1>1. /\ s \in Seq(Good(n)) /\ (\A p \in Path : RisingAt(s, p)) /\ c \in Clone
      /\ c.base <= N /\ Ordered(remote, c.base, s)
      /\ DOMAIN s = 1..Len(s)
  BY DEF Sound, Clone, Ordered
<1>2. PICK end, new : RebasedTo(c, end, new, n)
  <2>1. c.ahead \in Seq(Good(n)) /\ \A p \in Path : RisingAt(c.ahead, p)
    BY <1>1
  <2> QED BY <2>1, RebasedIs
<1> DEFINE a == end.ahead
<1>3. a \in Seq(Good(n)) /\ From(a, s)
  BY <1>1, <1>2 DEF RebasedTo, Replayed, From
<1>4. N \in 0..Len(remote) /\ Base(remote, N) = remote /\ remote \in Seq(Good(n))
      /\ n \in 0..MaxPushes
  BY DEF RemoteSound, Base
<1>5. Ordered(remote, N, a)
  BY <1>2, <1>4 DEF RebasedTo, Ordered, Replayed
<1> HIDE DEF a, s, N, c2
<1>6. /\ Sound(remote, new, n)
      /\ new.base = N /\ new.ahead = a
      /\ new.rebase = None /\ new.conflict = None /\ new.files = Tree(remote \o a)
  <2>1. new = OnMain(N, a)
    BY <1>2 DEF RebasedTo, a, N
  <2>2. /\ Sound(remote, new, n) /\ new.rebase = None /\ new.conflict = None
        /\ new.files = Tree(Base(remote, N) \o a)
    BY <1>3, <1>4, <1>5, <2>1, OnMainSound
  <2>3. new.base = N /\ new.ahead = a
    BY <2>1 DEF OnMain
  <2> QED BY <1>4, <2>2, <2>3
<1>7. \A p \in Path : \/ new.files[p] = Tree(remote)[p]
                      \/ \E i \in DOMAIN s : s[i].path = p /\ new.files[p] = s[i].to
  BY <1>3, <1>4, <1>6, TreeOnTop
<1>8. CASE end.stop = None
  <2>1. c2 = new
    BY <1>2, <1>8 DEF RebasedTo, c2
  <2>2. HeadOf(c2).base = N /\ HeadOf(c2).ahead = a /\ c2.files = HeadAt(remote, c2)
    BY <1>6, <2>1 DEF HeadOf, Sound
  <2>3. ASSUME NEW p \in Path, NEW m, LastAt(s, p, m)
        PROVE  c2.files[p] = s[m].to
    <3>1. m \in 1..Len(s) /\ s[m].path = p /\ \A k \in (m + 1)..Len(s) : s[k].path # p
      BY <1>1, <2>3 DEF LastAt, s
    <3> QED BY <1>2, <1>6, <1>8, <2>1, <3>1 DEF RebasedTo, Replayed, a, s
  <2>4. Refreshing(remote, s, c2, n)
    BY <1>3, <1>5, <1>6, <2>1, <2>2, <2>3 DEF Refreshing
  <2>5. UpToDate(remote, s, c2)
    BY <1>7, <2>1 DEF UpToDate
  <2> QED BY <1>6, <2>1, <2>4, <2>5 DEF s, c2
<1>9. CASE end.stop # None
  <2> DEFINE x == end.stop
             branch == [base |-> N, ahead |-> a]
             u == Tree(remote \o a)[x.path]
  <2>1. PICK m \in DOMAIN s : x = s[m]
    BY <1>1, <1>2, <1>9 DEF RebasedTo, Replayed, s
  <2>2. x \in Good(n)
    BY <1>1, <2>1 DEF s
  <2>3. x.path \in Path /\ x.to \in Content
    BY <1>4, <2>2, GoodCommits DEF Good
  <2>4. /\ Tree(remote \o a) \in [Path -> Content]
        /\ \A p \in Path : Tree(remote \o a)[p] # Garbled
    <3>1. remote \o a \in Seq(Good(n))
      BY <1>3, <1>4
    <3> QED BY <1>4, <3>1, TreeValues
  <2>5. Merged(x, u) \in {x.to, Garbled, u} /\ Merged(x, u) \in Content
    BY <2>3, <2>4 DEF Merged, Content
  <2> HIDE DEF x
  <2>6. /\ c2 \in Clone /\ c2.base = c.base /\ c2.ahead = s
        /\ c2.rebase = branch /\ c2.conflict = x.path
        /\ c2.files = [Tree(remote \o a) EXCEPT ![x.path] = Merged(x, u)]
    <3>1. c2 = [c EXCEPT !.rebase = branch, !.conflict = x.path,
                         !.files = [Tree(remote \o a) EXCEPT ![x.path] = Merged(x, u)]]
      BY <1>2, <1>6, <1>9 DEF RebasedTo, c2, x
    <3>2. branch \in Branch
      <4>1. a \in Seq(Commit)
        BY <1>3, <1>4, GoodCommits
      <4>2. N \in Nat
        BY <1>4
      <4> QED BY <4>1, <4>2 DEF Branch
    <3>3. [Tree(remote \o a) EXCEPT ![x.path] = Merged(x, u)] \in [Path -> Content]
      BY <2>4, <2>5
    <3> HIDE DEF branch, u
    <3> QED BY <1>1, <2>3, <3>1, <3>2, <3>3 DEF Clone, s
  <2>7. branch # None /\ x.path # None
    <3>1. branch \in Branch
      <4>1. a \in Seq(Commit)
        BY <1>3, <1>4, GoodCommits
      <4>2. N \in Nat
        BY <1>4
      <4> QED BY <4>1, <4>2 DEF Branch
    <3> QED BY <2>3, <3>1, NamesAssumption
  <2>8. HeadOf(c2).base = N /\ HeadOf(c2).ahead = a
    BY <2>6, <2>7 DEF HeadOf
  <2>9. HeadAt(remote, c2) = Tree(remote \o a)
    BY <1>4, <2>8 DEF HeadAt
  <2>10. \A p \in Path : p # x.path => c2.files[p] = Tree(remote \o a)[p]
    BY <2>4, <2>6
  <2>11. c2.files[x.path] \in {x.to, Garbled, u}
    BY <2>3, <2>4, <2>5, <2>6
  <2>12. Sound(remote, c2, n)
    <3>1. c2.rebase.base <= Len(remote) /\ c2.rebase.ahead \in Seq(Good(n))
      BY <1>3, <1>4, <2>6 DEF N
    <3>2. \A p \in Path : c2.files[p] = Garbled => c2.conflict = p
      BY <2>4, <2>6, <2>10
    <3> QED BY <1>1, <2>6, <2>7, <3>1, <3>2 DEF Sound, N
  <2>13. Refreshing(remote, s, c2, n)
    <3>1. Touches(s, x.path)
      BY <2>1 DEF Touches
    <3>2. From(s, s)
      BY DEF From
    <3> QED BY <1>5, <2>6, <2>7, <2>8, <2>9, <2>10, <2>12, <3>1, <3>2 DEF Refreshing
  <2>14. UpToDate(remote, s, c2)
    <3>1. ASSUME NEW p \in Path, p # x.path
          PROVE  \/ c2.files[p] = Tree(remote)[p]
                 \/ \E i \in DOMAIN s : s[i].path = p /\ c2.files[p] = s[i].to
      BY <1>6, <1>7, <2>10, <3>1
    <3>2. \/ c2.files[x.path] = Tree(remote)[x.path]
          \/ \E i \in DOMAIN s : s[i].path = x.path /\ c2.files[x.path] \in {s[i].to, Garbled}
      BY <1>6, <1>7, <2>1, <2>3, <2>11
    <3> QED BY <3>1, <3>2 DEF UpToDate
  <2> QED BY <2>6, <2>13, <2>14 DEF s, c2
<1> QED BY <1>8, <1>9

\* A clone that is not rebased has its own blobs.
LEMMA OnMainRefreshed ==
  ASSUME NEW n, RemoteSound(remote, n), NEW c, Sound(remote, c, n), c.rebase = None
  PROVE  /\ Refreshing(remote, c.ahead, c, n)
         /\ remote = <<>> => UpToDate(remote, c.ahead, c)
         /\ c.base = Len(remote) => UpToDate(remote, c.ahead, c)
<1> DEFINE s == c.ahead
           b == Base(remote, c.base)
<1>1. /\ s \in Seq(Good(n)) /\ c.base \in 0..Len(remote) /\ HeadOf(c).base = c.base
      /\ HeadOf(c).ahead = s /\ Ordered(remote, c.base, s)
      /\ c.files = HeadAt(remote, c) /\ b \in Seq(Good(n))
  BY BaseSound DEF Sound, Clone, HeadOf
<1>2. c.files = Tree(b \o s)
  BY <1>1 DEF HeadAt
<1>3. remote = <<>> \/ c.base = Len(remote) => b = remote
  <2>1. Base(remote, Len(remote)) = remote
    BY DEF RemoteSound, Base
  <2>2. remote = <<>> => c.base = Len(remote)
    BY <1>1
  <2> QED BY <2>1, <2>2
<1> HIDE DEF s, b
<1>4. From(s, s)
  BY DEF From
<1>5. ASSUME NEW p \in Path, NEW m, LastAt(s, p, m)
      PROVE  c.files[p] = s[m].to
  <2>1. Touches(s, p)
    BY <1>5 DEF Touches, LastAt
  <2> QED BY <1>1, <1>2, <1>5, <2>1, TreeConcat, TreeAt
<1>6. Refreshing(remote, s, c, n)
  BY <1>1, <1>4, <1>5 DEF Refreshing, s
<1>7. ASSUME b = remote
      PROVE  UpToDate(remote, s, c)
  BY <1>1, <1>2, <1>4, <1>7, TreeOnTop DEF UpToDate
<1> QED BY <1>3, <1>6, <1>7 DEF s

LEMMA RefreshedSound ==
  ASSUME NEW n, RemoteSound(remote, n), NEW c, Sound(remote, c, n), NEW online
  PROVE  /\ Refreshing(remote, c.ahead, Refreshed(c, online), n)
         /\ online => UpToDate(remote, c.ahead, Refreshed(c, online))
<1> DEFINE c1 == Aborted(c)
           c2 == Refreshed(c, online)
<1>1. /\ Sound(remote, c1, n) /\ c1.base = c.base /\ c1.ahead = c.ahead
      /\ c1.rebase = None
  BY AbortedSound
<1>2. c2 = IF online /\ remote # <<>> /\ c1.rebase = None
             THEN Rebased(c1) ELSE c1
  BY DEF Refreshed
<1> HIDE DEF c1, c2
<1>3. CASE online /\ remote # <<>>
  BY <1>1, <1>2, <1>3, RebasedSound DEF c2
<1>4. CASE ~(online /\ remote # <<>>)
  <2>1. c2 = c1
    BY <1>2, <1>4
  <2>2. /\ Refreshing(remote, c.ahead, c2, n)
        /\ remote = <<>> => UpToDate(remote, c.ahead, c2)
        /\ c.base = Len(remote) => UpToDate(remote, c.ahead, c2)
    BY <1>1, <2>1, OnMainRefreshed
  <2> QED BY <1>1, <1>4, <2>1, <2>2 DEF c2
<1> QED BY <1>3, <1>4

-----------------------------------------------------------------------------
(***************************************************************************)
(* What a clone is like with a blob added and committed.                   *)
(***************************************************************************)
LEMMA SetToSeqSmall ==
  ASSUME NEW p
  PROVE  SetToSeq({}) = <<>> /\ SetToSeq({p}) = <<p>>
<1>1. SetToSeq({}) = <<>>
  <2>1. 1..0 = {} /\ <<>> \in [1..0 -> {}] /\ IsInjective(<<>>)
    BY DEF IsInjective
  <2>2. \A f \in [1..0 -> {}] : f = <<>>
    BY <2>1
  <2> QED BY <2>1, <2>2, FS_EmptySet DEF SetToSeq
<1>2. SetToSeq({p}) = <<p>>
  <2>1. 1..1 = {1}
    OBVIOUS
  <2>2. <<p>> \in [1..1 -> {p}] /\ IsInjective(<<p>>)
    BY <2>1 DEF IsInjective
  <2>3. \A f \in [1..1 -> {p}] : f = <<p>>
    BY <2>1
  <2>4. Cardinality({p}) = 1
    BY FS_Singleton
  <2> QED BY <2>2, <2>3, <2>4 DEF SetToSeq
<1> QED BY <1>1, <1>2

\* The commit of blob b at p on top of c.
CommitOf(r, c, p, b) == [path |-> p, from |-> HeadAt(r, c)[p], to |-> b]

\* A commit of the one path that has changed.
LEMMA CommittedIs ==
  ASSUME NEW c, c \in Clone, HeadTree(c) = HeadAt(remote, c), NEW p \in Path,
         \A q \in Path : q # p => c.files[q] = HeadTree(c)[q]
  PROVE  /\ c.files[p] = HeadTree(c)[p] => Committed(c) = c
         /\ c.files[p] # HeadTree(c)[p] =>
              Committed(c) =
                IF c.rebase = None
                  THEN [c EXCEPT !.ahead = Append(@, CommitOf(remote, c, p, c.files[p]))]
                  ELSE [c EXCEPT !.rebase.ahead =
                          Append(@, CommitOf(remote, c, p, c.files[p]))]
<1> DEFINE old == HeadTree(c)
           T == {q \in Path : c.files[q] # old[q]}
           changed == SetToSeq(T)
           new == [i \in DOMAIN changed |->
                     [path |-> changed[i], from |-> old[changed[i]],
                      to |-> c.files[changed[i]]]]
           x == CommitOf(remote, c, p, c.files[p])
<1>1. Committed(c) = IF c.rebase = None THEN [c EXCEPT !.ahead = @ \o new]
                                        ELSE [c EXCEPT !.rebase.ahead = @ \o new]
  BY DEF Committed
<1>2. /\ c.ahead \in Seq(Commit)
      /\ c.rebase # None => c.rebase \in Branch /\ c.rebase.ahead \in Seq(Commit)
  BY DEF Clone, Branch
<1>3. CASE c.files[p] = old[p]
  <2>1. T = {}
    BY <1>3
  <2>2. changed = <<>>
    BY <2>1, SetToSeqSmall
  <2>3. new = <<>>
    <3>1. DOMAIN changed = {}
      BY <2>2
    <3> HIDE DEF changed
    <3> QED BY <3>1
  <2> HIDE DEF new
  <2>4. Committed(c) = c
    BY <1>1, <1>2, <2>3 DEF Clone, Branch
  <2> QED BY <1>3, <2>4
<1>4. CASE c.files[p] # old[p]
  <2>1. T = {p}
    BY <1>4
  <2>2. changed = <<p>>
    BY <2>1, SetToSeqSmall
  <2>3. new = <<x>>
    <3>1. x = [path |-> p, from |-> old[p], to |-> c.files[p]]
      BY DEF CommitOf
    <3> HIDE DEF x, old, changed
    <3>2. DOMAIN changed = {1} /\ changed[1] = p
      BY <2>2
    <3> QED BY <2>2, <3>1, <3>2
  <2> HIDE DEF new, x
  <2>4. c.ahead \o new = Append(c.ahead, x)
    BY <1>2, <2>3
  <2>5. c.rebase # None => c.rebase.ahead \o new = Append(c.rebase.ahead, x)
    BY <1>2, <2>3
  <2> QED BY <1>1, <1>4, <2>4, <2>5 DEF x
<1> QED BY <1>3, <1>4

\* A refreshed clone in which b has been written at p.
LEMMA AddedSound ==
  ASSUME NEW n, RemoteSound(remote, n), NEW s, NEW c, Refreshing(remote, s, c, n),
         NEW p \in Path, NEW k \in 0..MaxPushes, n <= k, NEW b \in Kept(k),
         NEW c2, c2 = Added(c, p, b)
  PROVE  /\ c2 \in Clone /\ c2.base = c.base /\ c2.ahead = c.ahead
         /\ c2.rebase = c.rebase /\ HeadOf(c2) = HeadOf(c)
         /\ HeadTree(c2) = HeadAt(remote, c2) /\ HeadAt(remote, c2) = HeadAt(remote, c)
         /\ c2.files[p] = b /\ \A q \in Path : q # p => c2.files[q] = c.files[q]
         /\ c2.conflict = IF c.conflict = p THEN None ELSE c.conflict
         /\ c2.conflict = None =>
              \A q \in Path : q # p => c2.files[q] = HeadTree(c2)[q]
         /\ ~CanCommit(c2) => Sound(remote, c2, k)
<1>1. Sound(remote, c, n) /\ c \in Clone /\ c.files \in [Path -> Content]
      /\ c.conflict \in Path \cup {None} /\ n \in Nat /\ k \in Nat
      /\ None \notin Path
  BY NamesAssumption, BoundsAssumption DEF Refreshing, Sound, Clone, RemoteSound
<1>2. b \in Content /\ b # Garbled
  BY GoodCommits
<1> DEFINE f == [c.files EXCEPT ![p] = b]
           t == IF c.conflict = p THEN None ELSE c.conflict
<1>3. f \in [Path -> Content] /\ f[p] = b /\ \A q \in Path : q # p => f[q] = c.files[q]
  BY <1>1, <1>2
<1>4. t \in Path \cup {None}
  BY <1>1
<1>5. c2 = [c EXCEPT !.files = f, !.conflict = t]
  BY <1>1 DEF Added, Clone
<1> HIDE DEF f, t
<1>6. /\ c2 \in Clone /\ c2.base = c.base /\ c2.ahead = c.ahead
      /\ c2.rebase = c.rebase /\ c2.files = f /\ c2.conflict = t
  BY <1>1, <1>3, <1>4, <1>5 DEF Clone
<1>7. HeadOf(c2) = HeadOf(c)
  BY <1>6 DEF HeadOf
<1>8. HeadTree(c2) = HeadAt(remote, c2) /\ HeadAt(remote, c2) = HeadAt(remote, c)
  <2>1. HeadTree(c) = HeadAt(remote, c)
    BY <1>1, HeadSound
  <2> QED BY <1>7, <2>1 DEF HeadTree, HeadAt
<1>9. c2.conflict = None => \A q \in Path : q # p => c2.files[q] = HeadTree(c2)[q]
  BY <1>1, <1>3, <1>6, <1>8 DEF Refreshing, t
<1>10. ASSUME ~CanCommit(c2)
       PROVE  Sound(remote, c2, k)
  <2>1. c2.ahead \in Seq(Good(k)) /\ Ordered(remote, c2.base, c2.ahead)
        /\ c2.base <= Len(remote)
    BY <1>1, <1>6, GoodGrows DEF Sound
  <2>2. c2.rebase # None => c2.rebase.base <= Len(remote) /\ c2.rebase.ahead \in Seq(Good(k))
    BY <1>1, <1>6, GoodGrows DEF Sound
  <2>3. \A q \in Path : c2.files[q] = Garbled => c2.conflict = q
    BY <1>1, <1>2, <1>3, <1>6 DEF Sound, t
  <2>4. c2.rebase = None => c2.conflict = None /\ c2.files = HeadAt(remote, c2)
    <3>1. c2.rebase = None => c2.conflict = None
      BY <1>1, <1>6 DEF Sound, t
    <3> QED BY <1>8, <1>10, <3>1 DEF CanCommit
  <2> QED BY <1>6, <2>1, <2>2, <2>3, <2>4 DEF Sound
<1> QED BY <1>3, <1>6, <1>7, <1>8, <1>9, <1>10 DEF t

\* In a call that is about to push, the head has the call's blob, and its other
\* commits are in order.
InCall(r, c, p, b) ==
  /\ c.conflict = None /\ p \in Path /\ HeadAt(r, c)[p] = b
  /\ \A q \in Path : q # p =>
       RisingAt(HeadOf(c).ahead, q) /\ RootedAt(Base(r, HeadOf(c).base), HeadOf(c).ahead, q)

\* Blob b is newer than what the commits of s at p put something in the place of.
Newest(s, p, b) ==
  b # None => \A i \in DOMAIN s : s[i].path = p => s[i].from \in Kept(b - 1)

LEMMA CommitSound ==
  ASSUME NEW n, RemoteSound(remote, n), NEW s, NEW c, Refreshing(remote, s, c, n),
         NEW p \in Path, NEW k \in 0..MaxPushes, n <= k, NEW b \in Kept(k),
         NEW c2, c2 = Added(c, p, b), c2.conflict = None,
         c.rebase = None =>
           Newest(c.ahead, p, b) /\ (b # None => HeadAt(remote, c)[p] \in Kept(b))
  PROVE  /\ Sound(remote, Committed(c2), k)
         /\ InCall(remote, Committed(c2), p, b)
         /\ Committed(c2).rebase # None <=> c.rebase # None
         /\ c.rebase # None => Committed(c2).ahead = c.ahead
         /\ c.rebase = None =>
              \/ Committed(c2).ahead = Append(c.ahead, CommitOf(remote, c, p, b))
              \/ c2.files = HeadTree(c2) /\ Committed(c2).ahead = c.ahead
<1> DEFINE c3 == Committed(c2)
           h == HeadAt(remote, c)
           x == CommitOf(remote, c, p, b)
           a == HeadOf(c).ahead
           below == Base(remote, HeadOf(c).base)
<1>1. Sound(remote, c, n) /\ n \in Nat /\ k \in Nat /\ c \in Clone /\ n \in 0..MaxPushes
      /\ (c.rebase # None => c.rebase \in Branch)
  BY DEF Refreshing, RemoteSound, Sound, Clone
<1>2. /\ c2 \in Clone /\ c2.base = c.base /\ c2.ahead = c.ahead
      /\ c2.rebase = c.rebase /\ HeadOf(c2) = HeadOf(c)
      /\ HeadTree(c2) = h /\ HeadAt(remote, c2) = h
      /\ c2.files[p] = b /\ \A q \in Path : q # p => c2.files[q] = h[q]
      /\ ~CanCommit(c2) => Sound(remote, c2, k)
  BY AddedSound
<1>3. /\ HeadOf(c).base \in 0..Len(remote) /\ a \in Seq(Good(n)) /\ below \in Seq(Good(n))
      /\ h = Tree(below \o a) /\ h \in [Path -> Content] /\ h[p] \in Kept(n)
      /\ h[p] # Garbled
  <2>1. /\ HeadOf(c).base \in 0..Len(remote) /\ a \in Seq(Good(n))
        /\ h = HeadTree(c) /\ h \in [Path -> Content] /\ h[p] \in Kept(n) /\ h[p] # Garbled
    BY <1>1, HeadSound
  <2>2. below \in Seq(Good(n))
    BY <2>1, BaseSound
  <2> QED BY <2>1, <2>2 DEF HeadAt
<1>4. \A q \in Path : RisingAt(a, q) /\ RootedAt(below, a, q)
  BY DEF Refreshing, Ordered
<1> HIDE DEF c3, h, a, below, x
<1>5. CASE b = h[p]
  <2>1. c3 = c2
    BY <1>2, <1>5, CommittedIs DEF c3, h
  <2>2. c2.files = HeadTree(c2)
    <3>1. c2.files \in [Path -> Content]
      BY <1>2 DEF Clone
    <3> QED BY <1>2, <1>3, <1>5, <3>1
  <2>3. Sound(remote, c3, k)
    BY <1>2, <2>1, <2>2 DEF CanCommit
  <2>4. InCall(remote, c3, p, b)
    BY <1>2, <1>4, <1>5, <2>1 DEF InCall, a, below
  <2> QED BY <1>2, <2>1, <2>2, <2>3, <2>4 DEF c3
<1>6. CASE b # h[p]
  <2>1. /\ c3 = IF c.rebase = None THEN [c2 EXCEPT !.ahead = Append(@, x)]
                                   ELSE [c2 EXCEPT !.rebase.ahead = Append(@, x)]
    <3>1. CommitOf(remote, c2, p, c2.files[p]) = x
      BY <1>2 DEF CommitOf, x, h
    <3> QED BY <1>2, <1>6, <3>1, CommittedIs DEF c3, h
  <2>2. x = [path |-> p, from |-> h[p], to |-> b]
    BY DEF x, CommitOf, h
  <2>3. x \in Good(k) /\ a \in Seq(Good(k)) /\ below \in Seq(Good(k))
    <3>1. h[p] \in Kept(k) /\ a \in Seq(Good(k)) /\ below \in Seq(Good(k))
      BY <1>1, <1>3, GoodGrows
    <3> QED BY <1>6, <2>2, <3>1 DEF Good
  <2>4. /\ HeadOf(c3).base = HeadOf(c).base /\ HeadOf(c3).ahead = Append(a, x)
        /\ c3 \in Clone /\ c3.base = c.base /\ c3.files = c2.files
        /\ c3.conflict = None
        /\ c3.rebase # None <=> c.rebase # None
        /\ c.rebase # None => c3.ahead = c.ahead /\ c3.rebase.base = c.rebase.base
                              /\ c3.rebase.ahead = Append(a, x)
        /\ c.rebase = None => c3.ahead = Append(a, x) /\ a = c.ahead
    <3>1. x \in Commit
      BY <2>3, GoodCommits
    <3>2. CASE c.rebase = None
      <4>1. c3 = [c2 EXCEPT !.ahead = Append(c.ahead, x)]
        BY <1>2, <2>1, <3>2
      <4>2. Append(c.ahead, x) \in Seq(Commit)
        BY <1>1, <3>1 DEF Clone
      <4> DEFINE v == Append(c.ahead, x)
      <4> HIDE DEF v
      <4>3. /\ c3 \in Clone /\ c3.ahead = v /\ c3.rebase = None /\ c3.base = c.base
            /\ c3.files = c2.files /\ c3.conflict = None
        BY <1>2, <3>2, <4>1, <4>2 DEF Clone, v
      <4>4. a = c.ahead /\ HeadOf(c3).base = HeadOf(c).base /\ HeadOf(c3).ahead = v
        BY <3>2, <4>3 DEF HeadOf, a
      <4> QED BY <3>2, <4>3, <4>4 DEF v
    <3>3. CASE c.rebase # None
      <4> DEFINE v == [base |-> c.rebase.base, ahead |-> Append(c.rebase.ahead, x)]
      <4>1. c3 = [c2 EXCEPT !.rebase = v]
        <5>1. c3 = [c2 EXCEPT !.rebase = [c2.rebase EXCEPT !.ahead = Append(@, x)]]
          BY <2>1, <3>3
        <5>2. c2.rebase \in Branch
          BY <1>1, <1>2, <3>3
        <5>3. [c2.rebase EXCEPT !.ahead = Append(@, x)] = v
          <6>1. c2.rebase = [base |-> c2.rebase.base, ahead |-> c2.rebase.ahead]
            BY <5>2 DEF Branch
          <6> QED BY <1>2, <6>1
        <5> HIDE DEF v
        <5> QED BY <5>1, <5>3
      <4>2. v \in Branch
        BY <1>1, <3>1, <3>3 DEF Branch
      <4>3. v # None
        BY <4>2, NamesAssumption
      <4>4. v.base = c.rebase.base /\ v.ahead = Append(c.rebase.ahead, x)
        OBVIOUS
      <4> HIDE DEF v
      <4>5. /\ c3 \in Clone /\ c3.ahead = c.ahead /\ c3.rebase = v /\ c3.base = c.base
            /\ c3.files = c2.files /\ c3.conflict = None
        BY <1>2, <4>1, <4>2 DEF Clone
      <4>6. a = c.rebase.ahead /\ HeadOf(c3) = v /\ HeadOf(c) = c.rebase
        BY <3>3, <4>3, <4>5 DEF HeadOf, a
      <4> QED BY <3>3, <4>3, <4>4, <4>5, <4>6
    <3> QED BY <3>2, <3>3
  <2>5. HeadAt(remote, c3) = c2.files
    <3>1. HeadAt(remote, c3) = Tree(below \o Append(a, x))
      BY <2>4 DEF HeadAt, below
    <3>2. below \o Append(a, x) = Append(below \o a, x) /\ below \o a \in Seq(Good(k))
      BY <2>3
    <3>3. \A q \in Path : Tree(below \o Append(a, x))[q] = c2.files[q]
      <4> DEFINE all == below \o a
      <4>1. all \in Seq(Good(k)) /\ below \o Append(a, x) = Append(all, x) /\ h = Tree(all)
        BY <1>3, <3>2
      <4>2. x.path = p /\ x.to = b
        BY <2>2
      <4> HIDE DEF all
      <4>3. \A q \in Path : Tree(Append(all, x))[q] = IF p = q THEN b ELSE h[q]
        BY <2>3, <4>1, <4>2, TreeAppend
      <4> QED BY <1>2, <4>1, <4>3
    <3>4. c2.files \in [Path -> Content]
      BY <1>2 DEF Clone
    <3>5. DOMAIN Tree(below \o Append(a, x)) = Path
          /\ Tree(below \o Append(a, x)) = [q \in Path |-> Tree(below \o Append(a, x))[q]]
      BY DEF Tree
    <3> QED BY <3>1, <3>3, <3>4, <3>5
  <2>6. \A q \in Path : q # p => RisingAt(Append(a, x), q) /\ RootedAt(below, Append(a, x), q)
    <3>1. x.path = p
      BY <2>2
    <3> QED BY <1>4, <2>3, <3>1, OrderedAppend
  <2>7. InCall(remote, c3, p, b)
    BY <1>2, <2>4, <2>5, <2>6 DEF InCall, below
  <2>8. c.rebase = None => Ordered(remote, c3.base, c3.ahead)
    <3> SUFFICES ASSUME c.rebase = None
                 PROVE  RisingAt(Append(a, x), p) /\ RootedAt(below, Append(a, x), p)
      <4>1. c.rebase = None => below = Base(remote, c3.base)
        BY <2>4 DEF below, HeadOf
      <4> QED BY <2>4, <2>6, <4>1 DEF Ordered
    <3>1. ASSUME b # None
          PROVE  /\ \A i \in DOMAIN a : a[i].path = p /\ a[i].from # None => b > a[i].from
                 /\ h[p] # None => b > h[p]
      <4>1. b \in Nat /\ b - 1 < b
        BY <3>1 DEF Kept
      <4>2. \A i \in DOMAIN a : a[i].path = p => a[i].from \in Kept(b - 1)
        BY <2>4, <3>1 DEF Newest
      <4>3. h[p] \in Kept(b)
        BY <3>1 DEF h
      <4> QED BY <1>6, <4>1, <4>2, <4>3 DEF Kept
    <3>2. h[p] = Tree(below \o a)[p]
      BY <1>3
    <3> QED BY <1>4, <2>2, <2>3, <3>1, <3>2, OrderedAppend
  <2>9. Sound(remote, c3, k)
    <3>1. c3.ahead \in Seq(Good(k)) /\ c3.base <= Len(remote) /\ Ordered(remote, c3.base, c3.ahead)
      <4>1. CASE c.rebase = None
        <5>1. Append(a, x) \in Seq(Good(k))
          BY <2>3
        <5> QED BY <1>1, <2>4, <2>8, <4>1, <5>1 DEF Sound
      <4>2. CASE c.rebase # None
        BY <1>1, <2>4, <4>2, GoodGrows DEF Sound
      <4> QED BY <4>1, <4>2
    <3>2. c3.rebase # None => c3.rebase.base <= Len(remote) /\ c3.rebase.ahead \in Seq(Good(k))
      <4>1. Append(a, x) \in Seq(Good(k))
        BY <2>3
      <4> QED BY <1>1, <2>4, <4>1 DEF Sound
    <3>3. \A q \in Path : c3.files[q] # Garbled
      <4>1. b # Garbled
        BY GoodCommits
      <4>2. \A q \in Path : h[q] # Garbled
        BY <1>1, HeadSound DEF h
      <4> QED BY <1>2, <2>4, <4>1, <4>2
    <3> QED BY <2>4, <2>5, <3>1, <3>2, <3>3 DEF Sound
  <2> QED BY <2>4, <2>7, <2>9 DEF c3, x
<1> QED BY <1>5, <1>6

-----------------------------------------------------------------------------
(***************************************************************************)
(* What a push that arrives does to the clones.                            *)
(***************************************************************************)
LEMMA LandedSound ==
  ASSUME NEW n, RemoteSound(remote, n), NEW c, Sound(remote, c, n), FastForward(c),
         NEW r, r = remote \o HeadOf(c).ahead, NEW c2, c2 = Landed(c)
  PROVE  /\ RemoteSound(r, n) /\ Sound(r, c2, n)
         /\ Tree(r) = HeadAt(remote, c)
<1> DEFINE a == HeadOf(c).ahead
           N == Len(remote)
           all == N + Len(a)
           none == <<>>
<1>1. /\ a \in Seq(Good(n)) /\ HeadOf(c).base = N /\ remote \in Seq(Good(n))
      /\ N \in Nat /\ Len(a) \in Nat /\ n \in 0..MaxPushes
  BY HeadSound DEF RemoteSound, FastForward
<1>2. r = remote \o a
  OBVIOUS
<1>3. /\ r \in Seq(Good(n)) /\ Len(r) = all /\ all \in Nat /\ N <= all
      /\ Base(r, all) = r /\ \A b \in 0..N : Base(r, b) = Base(remote, b)
      /\ Base(remote, N) = remote
  <2> HIDE DEF a
  <2> QED BY <1>1, <1>2 DEF Base
<1>4. RemoteSound(r, n)
  BY <1>1, <1>3 DEF RemoteSound
<1>5. Tree(r) = HeadAt(remote, c)
  BY <1>1, <1>2, <1>3 DEF HeadAt
<1>6. none \in Seq(Good(n)) /\ none \in Seq(Commit) /\ DOMAIN none = {} /\ r \o none = r
  BY <1>3
<1>7. c2 = IF c.rebase = None THEN [c EXCEPT !.base = all, !.ahead = none]
                              ELSE [c EXCEPT !.rebase = [base |-> all, ahead |-> none]]
  BY DEF Landed
<1>8. /\ c \in Clone /\ c.base \in 0..N /\ Ordered(remote, c.base, c.ahead)
      /\ c.ahead \in Seq(Good(n)) /\ (\A p \in Path : c.files[p] = Garbled => c.conflict = p)
      /\ c.rebase = None => c.conflict = None /\ c.files = HeadAt(remote, c)
  BY DEF Sound, Clone
<1> HIDE DEF a, all, none, N
<1>9. CASE c.rebase = None
  <2>1. /\ c2 \in Clone /\ c2.base = all /\ c2.ahead = none /\ c2.rebase = None
        /\ c2.files = c.files /\ c2.conflict = None
    BY <1>3, <1>6, <1>7, <1>8, <1>9 DEF Clone
  <2>2. Ordered(r, all, none)
    BY <1>6 DEF Ordered, RisingAt, RootedAt
  <2>3. HeadAt(r, c2) = Tree(r)
    BY <1>3, <1>6, <2>1 DEF HeadAt, HeadOf
  <2>4. Sound(r, c2, n)
    BY <1>3, <1>5, <1>6, <1>8, <1>9, <2>1, <2>2, <2>3 DEF Sound
  <2> QED BY <1>4, <1>5, <2>4
<1>10. CASE c.rebase # None
  <2> DEFINE v == [base |-> all, ahead |-> none]
  <2>1. v \in Branch /\ v.base = all /\ v.ahead = none
    BY <1>3, <1>6 DEF Branch
  <2>2. c2 = [c EXCEPT !.rebase = v]
    BY <1>7, <1>10
  <2> HIDE DEF v
  <2>3. /\ c2 \in Clone /\ c2.base = c.base /\ c2.ahead = c.ahead /\ c2.rebase = v
        /\ c2.files = c.files /\ c2.conflict = c.conflict
    BY <1>8, <2>1, <2>2 DEF Clone
  <2>4. v # None
    BY <2>1, NamesAssumption
  <2>5. Ordered(r, c2.base, c2.ahead)
    BY <1>3, <1>8, <2>3 DEF Ordered
  <2>6. c2.base <= Len(r) /\ v.base <= Len(r)
    BY <1>1, <1>3, <1>8, <2>1, <2>3
  <2>7. Sound(r, c2, n)
    BY <1>6, <1>8, <2>1, <2>3, <2>4, <2>5, <2>6 DEF Sound
  <2> QED BY <1>4, <1>5, <2>7
<1> QED BY <1>9, <1>10

\* The other clones stay behind a remote that grows.
LEMMA GrownSound ==
  ASSUME NEW n, RemoteSound(remote, n), NEW c, Sound(remote, c, n),
         NEW m \in 0..MaxPushes, n <= m, NEW a \in Seq(Good(m)),
         NEW r, r = remote \o a
  PROVE  /\ Sound(r, c, m)
         /\ \A p, b : InCall(remote, c, p, b) => InCall(r, c, p, b)
<1>1. /\ remote \in Seq(Good(n)) /\ Len(remote) \in Nat /\ n \in Nat /\ m \in Nat
      /\ HeadOf(c).base \in 0..Len(remote)
      /\ c.base \in 0..Len(remote)
      /\ c.rebase # None => c.rebase.base \in 0..Len(remote)
  <2>1. n \in Nat /\ m \in Nat /\ remote \in Seq(Good(n)) /\ Len(remote) \in Nat
    BY DEF RemoteSound
  <2>2. HeadOf(c).base \in 0..Len(remote)
    BY HeadSound
  <2>3. c.base \in 0..Len(remote)
    BY DEF Sound, Clone
  <2>4. c.rebase # None => c.rebase.base \in 0..Len(remote)
    BY DEF Sound, Clone, Branch
  <2> QED BY <2>1, <2>2, <2>3, <2>4
<1>2. /\ \A b \in 0..Len(remote) : Base(r, b) = Base(remote, b)
      /\ Len(remote) <= Len(r) /\ Len(r) \in Nat
  <2>1. remote \in Seq(Good(m))
    BY <1>1, GoodGrows
  <2> QED BY <1>1, <2>1 DEF Base
<1>3. HeadAt(r, c) = HeadAt(remote, c)
  BY <1>1, <1>2 DEF HeadAt
<1>4. Sound(r, c, m)
  <2>1. c.ahead \in Seq(Good(m)) /\ (c.rebase # None => c.rebase.ahead \in Seq(Good(m)))
    BY <1>1, GoodGrows DEF Sound
  <2>2. Ordered(r, c.base, c.ahead)
    BY <1>1, <1>2 DEF Ordered, Sound
  <2>3. c.base <= Len(r) /\ (c.rebase # None => c.rebase.base <= Len(r))
    BY <1>1, <1>2
  <2> QED BY <1>3, <2>1, <2>2, <2>3 DEF Sound
<1>5. ASSUME NEW p, NEW b, InCall(remote, c, p, b)
      PROVE  InCall(r, c, p, b)
  BY <1>1, <1>2, <1>3, <1>5 DEF InCall
<1> QED BY <1>4, <1>5

-----------------------------------------------------------------------------
(***************************************************************************)
(* The invariant.                                                          *)
(***************************************************************************)
Steps == {"idle", "push", "retry", "delete"}
Calls == [path : Path \cup {None}, blob : Blob \cup {None}]

\* A device with clone c, at a step of call k.  The retry of a push may have to
\* start again from main, where it must find commits older than its blob.
DeviceSound(r, c, step, k, n) ==
  /\ c \in Clone \cup {None, Occupied} /\ step \in Steps /\ k \in Calls
  /\ c \in Clone => Sound(r, c, n)
  /\ k.blob # None => k.path \in Path /\ k.blob \in 1..n
  /\ step # "idle" => c \in Clone /\ InCall(r, c, k.path, k.blob)
  /\ step = "push" =>
       /\ k.blob # None /\ c.ahead \in Seq(Good(k.blob)) /\ Touches(c.ahead, k.path)
       /\ \A i \in DOMAIN c.ahead : c.ahead[i].path = k.path => c.ahead[i].from # k.blob

Answered == answer.kind = "pulled" => answer.value \in Content

IInv ==
  /\ RemoteSound(remote, pushes) /\ Answered
  /\ clone \in [Device -> Clone \cup {None, Occupied}]
  /\ pc \in [Device -> Steps] /\ call \in [Device -> Calls]
  /\ \A d \in Device : DeviceSound(remote, clone[d], pc[d], call[d], pushes)

LEMMA DeviceGrows ==
  ASSUME NEW n, RemoteSound(remote, n), NEW c, NEW step, NEW k,
         DeviceSound(remote, c, step, k, n),
         NEW m \in 0..MaxPushes, n <= m, NEW a \in Seq(Good(m)),
         NEW r, r = remote \o a
  PROVE  DeviceSound(r, c, step, k, m)
<1>1. n \in Nat /\ m \in Nat
  BY DEF RemoteSound
<1>2. c \in Clone => Sound(r, c, m) /\ \A p, b : InCall(remote, c, p, b) => InCall(r, c, p, b)
  BY GrownSound DEF DeviceSound
<1> QED BY <1>1, <1>2 DEF DeviceSound

\* One device moves, the remote may grow, and the others stay as they are.
LEMMA OneMoves ==
  ASSUME IInv, NEW d \in Device, NEW c, NEW step, NEW k,
         clone' = [clone EXCEPT ![d] = c], pc' = [pc EXCEPT ![d] = step],
         call' = [call EXCEPT ![d] = k],
         pushes' \in 0..MaxPushes, pushes <= pushes',
         \E a \in Seq(Good(pushes')) : remote' = remote \o a,
         RemoteSound(remote', pushes'),
         DeviceSound(remote', c, step, k, pushes'), Answered'
  PROVE  IInv'
<1>1. /\ c \in Clone \cup {None, Occupied} /\ step \in Steps /\ k \in Calls
  BY DEF DeviceSound
<1>2. /\ clone' \in [Device -> Clone \cup {None, Occupied}] /\ pc' \in [Device -> Steps]
      /\ call' \in [Device -> Calls]
      /\ clone'[d] = c /\ pc'[d] = step /\ call'[d] = k
      /\ \A e \in Device : e # d =>
           clone'[e] = clone[e] /\ pc'[e] = pc[e] /\ call'[e] = call[e]
  BY <1>1 DEF IInv
<1>3. PICK a \in Seq(Good(pushes')) : remote' = remote \o a
  OBVIOUS
<1>4. ASSUME NEW e \in Device, e # d
      PROVE  DeviceSound(remote', clone[e], pc[e], call[e], pushes')
  <2> DEFINE ce == clone[e]
             se == pc[e]
             ke == call[e]
             r  == remote'
             m  == pushes'
  <2>1. RemoteSound(remote, pushes) /\ DeviceSound(remote, ce, se, ke, pushes)
    BY DEF IInv
  <2>2. m \in 0..MaxPushes /\ pushes <= m /\ a \in Seq(Good(m)) /\ r = remote \o a
    BY <1>3
  <2> HIDE DEF ce, se, ke, r, m
  <2>3. DeviceSound(r, ce, se, ke, m)
    BY <2>1, <2>2, DeviceGrows
  <2> QED BY <2>3 DEF ce, se, ke, r, m
<1>5. \A e \in Device : DeviceSound(remote', clone'[e], pc'[e], call'[e], pushes')
  BY <1>2, <1>4
<1> QED BY <1>2, <1>5 DEF IInv

\* The same when neither the remote nor the number of blobs changes.
LEMMA OneMovesAlone ==
  ASSUME IInv, NEW d \in Device, NEW c, NEW step, NEW k,
         clone' = [clone EXCEPT ![d] = c], pc' = [pc EXCEPT ![d] = step],
         call' = [call EXCEPT ![d] = k], UNCHANGED <<remote, pushes>>,
         DeviceSound(remote, c, step, k, pushes), Answered'
  PROVE  IInv'
<1>1. RemoteSound(remote, pushes)
  BY DEF IInv
<1>2. \E a \in Seq(Good(pushes)) : remote = remote \o a
  <2>1. <<>> \in Seq(Good(pushes)) /\ remote \o <<>> = remote
    BY <1>1 DEF RemoteSound
  <2> QED BY <2>1
<1>3. pushes \in 0..MaxPushes /\ pushes <= pushes
  BY <1>1 DEF RemoteSound
<1> QED BY <1>1, <1>2, <1>3, OneMoves

LEMMA InitIInv == Init => IInv
<1> SUFFICES ASSUME Init PROVE IInv
  OBVIOUS
<1>1. RemoteSound(remote, pushes)
  BY BoundsAssumption DEF Init, RemoteSound
<1>2. NoCall \in Calls /\ NoCall.blob = None
  BY DEF NoCall, Calls
<1>3. ASSUME NEW d \in Device
      PROVE  DeviceSound(remote, clone[d], pc[d], call[d], pushes)
  <2>1. clone[d] = None /\ pc[d] = "idle" /\ call[d] = NoCall
    BY DEF Init
  <2> QED BY <1>2, <2>1, NamesAssumption DEF DeviceSound, Steps
<1>4. Answered
  BY DEF Init, Answered, NoAnswer
<1> QED BY <1>1, <1>2, <1>3, <1>4 DEF Init, IInv, Steps

\* What every step of a device starts from.
LEMMA Before ==
  ASSUME IInv, NEW d \in Device
  PROVE  /\ RemoteSound(remote, pushes) /\ pushes \in 0..MaxPushes /\ pushes \in Nat
         /\ DeviceSound(remote, clone[d], pc[d], call[d], pushes)
         /\ clone[d] \in Clone => Sound(remote, clone[d], pushes)
         /\ clone[d] \in Clone \cup {None, Occupied}
         /\ pc[d] \in Steps /\ call[d] \in Calls
         /\ clone = [clone EXCEPT ![d] = clone[d]] /\ pc = [pc EXCEPT ![d] = pc[d]]
         /\ call = [call EXCEPT ![d] = call[d]]
BY DEF IInv, DeviceSound, RemoteSound

\* A device at rest.
LEMMA Resting ==
  ASSUME NEW r, NEW c, NEW n, Sound(r, c, n), NEW k \in Calls,
         k.blob # None => k.path \in Path /\ k.blob \in 1..n
  PROVE  DeviceSound(r, c, "idle", k, n)
<1>1. c \in Clone /\ c # None
  BY NamesAssumption DEF Sound
<1> QED BY <1>1 DEF DeviceSound, Steps

LEMMA PullKeeps ==
  ASSUME IInv, NEW d \in Device, NEW p \in Path, NEW online, Pull(d, p, online)
  PROVE  IInv'
<1>1. PICK c0 \in Opened(d, online) :
        /\ SetClone(d, Refreshed(c0, online))
        /\ Answer("pulled", Refreshed(c0, online).files[p])
  BY DEF Pull
<1>2. Sound(remote, c0, pushes)
  BY Before, OpenedSound
<1> DEFINE c == Refreshed(c0, online)
<1>3. Sound(remote, c, pushes)
  BY <1>2, Before, RefreshedSound DEF Refreshing
<1>4. c.files[p] \in Content
  BY <1>3 DEF Sound, Clone
<1>5. /\ clone' = [clone EXCEPT ![d] = c] /\ answer'.value = c.files[p]
      /\ pc[d] = "idle" /\ UNCHANGED <<remote, pc, call, pushes>>
  BY <1>1 DEF SetClone, Answer, Pull
<1> HIDE DEF c
<1>6. DeviceSound(remote, c, pc[d], call[d], pushes)
  BY <1>3, <1>5, Before, Resting DEF DeviceSound
<1>7. Answered'
  BY <1>4, <1>5 DEF Answered
<1> QED BY <1>5, <1>6, <1>7, Before, OneMovesAlone

LEMMA ListKeeps ==
  ASSUME IInv, NEW d \in Device, NEW online, List(d, online)
  PROVE  IInv'
<1>1. PICK c0 \in Opened(d, online) :
        \E c \in {Refreshed(c0, online), Aborted(c0)} :
          SetClone(d, c) /\ answer'.kind = "listed"
  BY DEF List, Answer
<1>0. PICK c \in {Refreshed(c0, online), Aborted(c0)} :
        SetClone(d, c) /\ answer'.kind = "listed"
  BY <1>1
<1>2. Sound(remote, c0, pushes)
  BY Before, OpenedSound
<1>3. Sound(remote, c, pushes)
  BY <1>2, Before, RefreshedSound, AbortedSound DEF Refreshing
<1>4. /\ clone' = [clone EXCEPT ![d] = c]
      /\ pc[d] = "idle" /\ UNCHANGED <<remote, pc, call, pushes>>
  BY <1>0 DEF SetClone, List
<1>5. DeviceSound(remote, c, pc[d], call[d], pushes)
  BY <1>3, <1>4, Before, Resting DEF DeviceSound
<1>6. Answered'
  BY <1>0 DEF Answered
<1> QED BY <1>4, <1>5, <1>6, Before, OneMovesAlone

\* A commit of b at p, and where a push or delete stands after it.
LEMMA BeginKeeps ==
  ASSUME IInv, NEW d \in Device, pc[d] = "idle", UNCHANGED remote,
         NEW s, NEW c, Refreshing(remote, s, c, pushes),
         NEW p \in Path, NEW b, NEW step \in {"push", "delete"},
         Begin(d, Added(c, p, b), step),
         call' = [call EXCEPT ![d] = [path |-> p, blob |-> b]],
         \/ step = "delete" /\ b = None /\ pushes' = pushes
         \/ step = "push" /\ b = pushes + 1 /\ pushes' = b /\ b <= MaxPushes
  PROVE  IInv'
<1> DEFINE n == pushes
           m == pushes'
           k == [path |-> p, blob |-> b]
           c2 == Added(c, p, b)
           c3 == Committed(c2)
<1>1. /\ n \in 0..MaxPushes /\ n \in Nat /\ m \in 0..MaxPushes /\ m \in Nat /\ n <= m
      /\ RemoteSound(remote, n) /\ RemoteSound(remote, m) /\ remote \in Seq(Good(m))
      /\ b \in Kept(m) /\ k \in Calls /\ k.path = p /\ k.blob = b
      /\ b # None => b = n + 1 /\ b \in 1..m
  <2>1. n \in 0..MaxPushes /\ n \in Nat /\ RemoteSound(remote, n)
    BY Before
  <2>2. m \in 0..MaxPushes /\ m \in Nat /\ n <= m
    BY <2>1, BoundsAssumption
  <2>3. RemoteSound(remote, m) /\ remote \in Seq(Good(m))
    BY <2>1, <2>2, GoodGrows DEF RemoteSound
  <2>4. b \in Kept(m) /\ b \in Blob \cup {None} /\ (b # None => b = n + 1 /\ b \in 1..m)
    BY <2>1, <2>2 DEF Kept, Blob
  <2>5. k \in Calls
    BY <2>4 DEF Calls
  <2> QED BY <2>1, <2>2, <2>3, <2>4, <2>5
<1>2. Sound(remote, c, n) /\ c \in Clone
  BY DEF Refreshing, Sound
<1>3. \E a \in Seq(Good(m)) : remote' = remote \o a
  <2>1. <<>> \in Seq(Good(m)) /\ remote \o <<>> = remote
    BY <1>1
  <2> QED BY <2>1
<1> HIDE DEF n, m, k, c2, c3
<1>4. CASE CanCommit(c2)
  <2>1. clone' = [clone EXCEPT ![d] = c3] /\ pc' = [pc EXCEPT ![d] = step]
        /\ answer' = NoAnswer
    BY <1>4 DEF Begin, SetClone, Goto, c2, c3
  <2>2. c2.conflict = None
    BY <1>4 DEF CanCommit
  <2>3. c.rebase = None => Newest(c.ahead, p, b) /\ (b # None => HeadAt(remote, c)[p] \in Kept(b))
    <3> SUFFICES ASSUME c.rebase = None, b # None
                 PROVE  /\ \A i \in DOMAIN c.ahead : c.ahead[i].from \in Kept(b - 1)
                        /\ HeadAt(remote, c)[p] \in Kept(b)
      BY DEF Newest
    <3>1. b - 1 = n /\ b \in Nat /\ n <= b
      BY <1>1
    <3>2. c.ahead \in Seq(Good(n))
      BY <1>2 DEF Sound
    <3>3. \A i \in DOMAIN c.ahead : c.ahead[i] \in Good(n)
      BY <3>2
    <3>4. HeadAt(remote, c)[p] \in Kept(n)
      BY <1>1, <1>2, HeadSound
    <3> QED BY <1>1, <3>1, <3>3, <3>4, GoodGrows DEF Good
  <2>4. /\ Sound(remote, c3, m)
        /\ InCall(remote, c3, p, b)
        /\ c3.rebase # None <=> c.rebase # None
        /\ c.rebase # None => c3.ahead = c.ahead
        /\ c.rebase = None =>
             \/ c3.ahead = Append(c.ahead, CommitOf(remote, c, p, b))
             \/ c2.files = HeadTree(c2) /\ c3.ahead = c.ahead
    <3>1. RemoteSound(remote, n) /\ Refreshing(remote, s, c, n) /\ c2 = Added(c, p, b)
      BY <1>1 DEF n, c2
    <3> QED BY <1>1, <2>2, <2>3, <3>1, CommitSound DEF c3
  <2>5. ASSUME step = "push"
        PROVE  /\ b # None /\ c3.ahead \in Seq(Good(b)) /\ Touches(c3.ahead, p)
               /\ \A i \in DOMAIN c3.ahead : c3.ahead[i].path = p => c3.ahead[i].from # b
    <3>1. b = n + 1 /\ m = b /\ b \in Nat
      BY <1>1, <2>5, NamesAssumption DEF n, m
    <3>2. b # None
      BY <1>1, <3>1, NamesAssumption DEF Blob
    <3>3. \A x \in Good(n) : x.from # b
      BY <1>1, <3>1, <3>2 DEF Good, Kept
    <3>4. c.ahead \in Seq(Good(n)) /\ \A i \in DOMAIN c.ahead : c.ahead[i].from # b
      <4>1. c.ahead \in Seq(Good(n))
        BY <1>2 DEF Sound
      <4>2. \A i \in DOMAIN c.ahead : c.ahead[i] \in Good(n)
        BY <4>1
      <4> QED BY <3>3, <4>1, <4>2
    <3>5. c3.ahead \in Seq(Good(b))
      BY <2>4, <3>1 DEF Sound
    <3>6. CASE c.rebase # None
      <4>1. Touches(c.ahead, p)
        <5>1. c.conflict # None /\ Touches(c.ahead, c.conflict)
          BY <3>6 DEF Refreshing
        <5>2. c2.conflict = IF c.conflict = p THEN None ELSE c.conflict
          BY <1>2 DEF Added, Clone, c2
        <5> QED BY <2>2, <5>1, <5>2
      <4> QED BY <2>4, <3>2, <3>4, <3>5, <3>6, <4>1
    <3>7. CASE c.rebase = None
      <4> DEFINE x == CommitOf(remote, c, p, b)
      <4>1. c3.ahead = Append(c.ahead, x)
        <5>1. c2.files # HeadTree(c2)
          BY <1>4 DEF CanCommit
        <5> QED BY <2>4, <3>7, <5>1
      <4>2. x.path = p /\ x.from # b
        <5>1. HeadAt(remote, c)[p] \in Kept(n)
          BY <1>1, <1>2, HeadSound
        <5> QED BY <1>1, <3>1, <3>2, <5>1 DEF CommitOf, Kept
      <4> HIDE DEF x
      <4>3. /\ DOMAIN c3.ahead = 1..(Len(c.ahead) + 1) /\ Len(c.ahead) \in Nat
            /\ DOMAIN c.ahead = 1..Len(c.ahead)
            /\ c3.ahead[Len(c.ahead) + 1] = x
            /\ \A i \in 1..Len(c.ahead) : c3.ahead[i] = c.ahead[i]
        BY <3>4, <4>1
      <4>4. \A i \in DOMAIN c3.ahead : c3.ahead[i].from # b
        BY <3>4, <4>2, <4>3
      <4>5. Touches(c3.ahead, p)
        BY <4>2, <4>3 DEF Touches
      <4> QED BY <3>2, <3>5, <4>4, <4>5
    <3> QED BY <3>6, <3>7
  <2>6. DeviceSound(remote, c3, step, k, m)
    <3>1. c3 \in Clone /\ c3 # None
      BY <2>4, NamesAssumption DEF Sound
    <3> QED BY <1>1, <2>4, <2>5, <3>1 DEF DeviceSound, Steps
  <2>7. Answered'
    BY <2>1 DEF Answered, NoAnswer
  <2> QED BY <1>1, <1>3, <2>1, <2>6, <2>7, OneMoves DEF k, m, n
<1>5. CASE ~CanCommit(c2)
  <2>1. clone' = [clone EXCEPT ![d] = c2] /\ pc' = [pc EXCEPT ![d] = "idle"]
        /\ answer'.kind \in {"same", "unmerged"}
    BY <1>5 DEF Begin, SetClone, Goto, End, Answer, c2
  <2>2. Sound(remote, c2, m)
    <3>1. RemoteSound(remote, n) /\ Refreshing(remote, s, c, n) /\ c2 = Added(c, p, b)
      BY <1>1 DEF n, c2
    <3> QED BY <1>1, <1>5, <3>1, AddedSound
  <2>3. DeviceSound(remote, c2, "idle", k, m)
    BY <1>1, <2>2, Resting
  <2>4. Answered'
    BY <2>1 DEF Answered
  <2> QED BY <1>1, <1>3, <2>1, <2>3, <2>4, OneMoves DEF k, m, n
<1> QED BY <1>4, <1>5

LEMMA StartPushKeeps ==
  ASSUME IInv, NEW d \in Device, NEW p \in Path, StartPush(d, p)
  PROVE  IInv'
<1>1. PICK online \in Online : \E c0 \in Opened(d, online) :
        Begin(d, Added(Refreshed(c0, online), p, pushes'), "push")
  BY DEF StartPush
<1>2. PICK c0 \in Opened(d, online) :
        Begin(d, Added(Refreshed(c0, online), p, pushes'), "push")
  BY <1>1
<1>3. Sound(remote, c0, pushes)
  BY Before, OpenedSound
<1>4. Refreshing(remote, c0.ahead, Refreshed(c0, online), pushes)
  BY <1>3, Before, RefreshedSound
<1>5. /\ pc[d] = "idle" /\ pushes' = pushes + 1 /\ UNCHANGED remote
      /\ call' = [call EXCEPT ![d] = [path |-> p, blob |-> pushes']]
      /\ pushes < MaxPushes
  BY DEF StartPush
<1>6. pushes + 1 <= MaxPushes
  BY <1>5, Before, BoundsAssumption
<1> DEFINE b == pushes + 1
           step == "push"
           c == Refreshed(c0, online)
<1>7. /\ Refreshing(remote, c0.ahead, c, pushes) /\ Begin(d, Added(c, p, b), step)
      /\ call' = [call EXCEPT ![d] = [path |-> p, blob |-> b]]
      /\ step = "push" /\ b = pushes + 1 /\ pushes' = b /\ b <= MaxPushes
      /\ step \in {"push", "delete"}
  BY <1>2, <1>4, <1>5, <1>6
<1> HIDE DEF b, step, c
<1> QED BY <1>5, <1>7, BeginKeeps

LEMMA StartDeleteKeeps ==
  ASSUME IInv, NEW d \in Device, NEW p \in Path, StartDelete(d, p)
  PROVE  IInv'
<1>1. pc[d] = "idle" /\ UNCHANGED <<remote, pushes>>
  BY DEF StartDelete
<1>2. PICK online \in Online : \E c0 \in Opened(d, online) :
        LET c == Refreshed(c0, online) IN
        \/ \E c1 \in {c0, c} : SetClone(d, c1) /\ End(d, answer'.kind)
                               /\ answer'.kind \in {"absent", "same"} /\ UNCHANGED call
        \/ /\ Begin(d, Added(c, p, None), "delete")
           /\ call' = [call EXCEPT ![d] = [path |-> p, blob |-> None]]
  BY DEF StartDelete, End, Answer
<1>3. PICK c0 \in Opened(d, online) :
        LET c == Refreshed(c0, online) IN
        \/ \E c1 \in {c0, c} : SetClone(d, c1) /\ End(d, answer'.kind)
                               /\ answer'.kind \in {"absent", "same"} /\ UNCHANGED call
        \/ /\ Begin(d, Added(c, p, None), "delete")
           /\ call' = [call EXCEPT ![d] = [path |-> p, blob |-> None]]
  BY <1>2
<1> DEFINE c == Refreshed(c0, online)
           b == None
           step == "delete"
<1>4. Sound(remote, c0, pushes)
  BY Before, OpenedSound
<1>5. Refreshing(remote, c0.ahead, c, pushes)
  BY <1>4, Before, RefreshedSound
<1>6. CASE \E c1 \in {c0, c} : SetClone(d, c1) /\ End(d, answer'.kind)
                               /\ answer'.kind \in {"absent", "same"} /\ UNCHANGED call
  <2>1. PICK c1 \in {c0, c} : SetClone(d, c1) /\ End(d, answer'.kind)
                              /\ answer'.kind \in {"absent", "same"} /\ UNCHANGED call
    BY <1>6
  <2>2. Sound(remote, c1, pushes)
    BY <1>4, <1>5 DEF Refreshing
  <2>3. clone' = [clone EXCEPT ![d] = c1] /\ pc' = [pc EXCEPT ![d] = "idle"]
        /\ call' = [call EXCEPT ![d] = call[d]]
    BY <2>1, Before DEF SetClone, End, Goto
  <2>4. DeviceSound(remote, c1, "idle", call[d], pushes)
    BY <2>2, Before, Resting DEF DeviceSound
  <2>5. Answered'
    BY <2>1 DEF Answered
  <2> QED BY <1>1, <2>3, <2>4, <2>5, OneMovesAlone
<1>7. CASE /\ Begin(d, Added(c, p, None), "delete")
           /\ call' = [call EXCEPT ![d] = [path |-> p, blob |-> None]]
  <2>1. /\ Refreshing(remote, c0.ahead, c, pushes) /\ Begin(d, Added(c, p, b), step)
        /\ call' = [call EXCEPT ![d] = [path |-> p, blob |-> b]]
        /\ step = "delete" /\ b = None /\ step \in {"push", "delete"}
    BY <1>5, <1>7
  <2> HIDE DEF b, step, c
  <2> QED BY <1>1, <2>1, BeginKeeps
<1> QED BY <1>3, <1>6, <1>7

\* The clone has the blob already: there is nothing to commit.
LEMMA RepeatPushKeeps ==
  ASSUME IInv, NEW d \in Device, RepeatPush(d)
  PROVE  IInv'
<1>1. PICK online \in Online : \E c0 \in Opened(d, online) :
        /\ Refreshed(c0, online).conflict = None
        /\ Begin(d, Refreshed(c0, online), "push")
  BY DEF RepeatPush
<1>2. PICK c0 \in Opened(d, online) :
        /\ Refreshed(c0, online).conflict = None
        /\ Begin(d, Refreshed(c0, online), "push")
  BY <1>1
<1> DEFINE c == Refreshed(c0, online)
<1>3. /\ pc[d] = "idle" /\ call[d].blob # None /\ UNCHANGED <<remote, call, pushes>>
  BY DEF RepeatPush
<1>4. Refreshing(remote, c0.ahead, c, pushes)
  <2>1. Sound(remote, c0, pushes)
    BY Before, OpenedSound
  <2> QED BY <2>1, Before, RefreshedSound
<1>5. c.conflict = None /\ Begin(d, c, "push")
  BY <1>2
<1> HIDE DEF c
<1>6. Sound(remote, c, pushes) /\ c.rebase = None
  BY <1>4, <1>5 DEF Refreshing
<1>7. ~CanCommit(c)
  <2>1. HeadTree(c) = HeadAt(remote, c)
    BY <1>6, Before, HeadSound
  <2> QED BY <1>6, <2>1 DEF CanCommit, Sound
<1>8. clone' = [clone EXCEPT ![d] = c] /\ pc' = [pc EXCEPT ![d] = "idle"]
      /\ answer'.kind = "same"
  BY <1>5, <1>7 DEF Begin, SetClone, End, Goto, Answer
<1>9. DeviceSound(remote, c, "idle", call[d], pushes)
  BY <1>6, Before, Resting DEF DeviceSound
<1>10. Answered'
  BY <1>8 DEF Answered
<1> QED BY <1>3, <1>8, <1>9, <1>10, Before, OneMovesAlone

\* Without a clone and without a repository, a push leaves a directory.
LEMMA PushNowhereKeeps ==
  ASSUME IInv, NEW d \in Device, NEW p \in Path, PushNowhere(d, p)
  PROVE  IInv'
<1> DEFINE k == [path |-> p, blob |-> pushes + 1]
           m == pushes + 1
<1>1. /\ clone' = [clone EXCEPT ![d] = Occupied] /\ pc' = [pc EXCEPT ![d] = "idle"]
      /\ call' = [call EXCEPT ![d] = k] /\ pushes' = m /\ UNCHANGED remote
      /\ answer'.kind = "failed" /\ pushes < MaxPushes
  BY DEF PushNowhere, SetClone, End, Goto, Answer
<1>2. /\ RemoteSound(remote, pushes) /\ pushes \in Nat /\ m \in 0..MaxPushes /\ pushes <= m
      /\ m \in 1..m /\ m \in Blob
  BY <1>1, Before, BoundsAssumption DEF Blob
<1>3. k.path = p /\ k.blob = m /\ k \in Calls
  BY <1>2 DEF Calls
<1>4. \E a \in Seq(Good(m)) : remote' = remote \o a
  <2>1. <<>> \in Seq(Good(m)) /\ remote \o <<>> = remote
    BY <1>2 DEF RemoteSound
  <2> QED BY <1>1, <2>1
<1>5. RemoteSound(remote', m)
  BY <1>1, <1>2, GoodGrows DEF RemoteSound
<1> HIDE DEF k, m
<1>6. DeviceSound(remote', Occupied, "idle", k, m)
  BY <1>2, <1>3, NamesAssumption DEF DeviceSound, Steps
<1>7. Answered'
  BY <1>1 DEF Answered
<1> QED BY <1>1, <1>2, <1>4, <1>5, <1>6, <1>7, OneMoves

\* The calls that find nothing there leave it so.
LEMMA ReadNothingKeeps ==
  ASSUME IInv, NEW d \in Device, ReadNothing(d)
  PROVE  IInv'
<1>1. UNCHANGED <<remote, clone, pc, call, pushes>>
  BY DEF ReadNothing
<1>2. Answered'
  <2>1. None \in Content
    BY DEF Content
  <2> QED BY <2>1 DEF ReadNothing, Answer, Answered
<1> QED BY <1>1, <1>2 DEF IInv

\* A git push that arrives, and the end of its call.
LEMMA ArriveKeeps ==
  ASSUME IInv, NEW d \in Device, pc[d] # "idle", Arrive(d),
         pc' = [pc EXCEPT ![d] = "idle"], answer'.kind # "pulled",
         UNCHANGED <<call, pushes>>
  PROVE  IInv' /\ Tree(remote') = HeadAt(remote, clone[d])
<1> DEFINE c == clone[d]
           r == remote'
           c2 == Landed(clone[d])
           k == call[d]
<1>1. Sound(remote, c, pushes) /\ k \in Calls
      /\ (k.blob # None => k.path \in Path /\ k.blob \in 1..pushes)
  BY Before DEF DeviceSound
<1>2. FastForward(c) /\ r = remote \o HeadOf(c).ahead /\ clone' = [clone EXCEPT ![d] = c2]
  BY DEF Arrive, SetClone
<1>3. /\ RemoteSound(remote, pushes) /\ pushes \in 0..MaxPushes /\ pushes <= pushes
      /\ call' = [call EXCEPT ![d] = k]
  BY Before
<1>4. c2 = Landed(c)
  OBVIOUS
<1> HIDE DEF c, r, c2, k
<1>5. RemoteSound(r, pushes) /\ Sound(r, c2, pushes) /\ Tree(r) = HeadAt(remote, c)
  BY <1>1, <1>2, <1>3, <1>4, LandedSound
<1>6. HeadOf(c).ahead \in Seq(Good(pushes))
  BY <1>1, <1>3, HeadSound
<1>7. DeviceSound(r, c2, "idle", k, pushes)
  BY <1>1, <1>5, Resting
<1>8. Answered'
  BY DEF Answered
<1>9. IInv'
  BY <1>2, <1>3, <1>5, <1>6, <1>7, <1>8, OneMoves DEF r
<1> QED BY <1>5, <1>9 DEF r, c

\* A call ends where it is.
LEMMA EndKeeps ==
  ASSUME IInv, NEW d \in Device, pc[d] # "idle", UNCHANGED <<remote, clone, call, pushes>>,
         pc' = [pc EXCEPT ![d] = "idle"], answer'.kind # "pulled"
  PROVE  IInv'
<1>1. DeviceSound(remote, clone[d], "idle", call[d], pushes)
  BY Before, Resting DEF DeviceSound
<1>2. Answered'
  BY DEF Answered
<1> QED BY <1>1, <1>2, Before, OneMovesAlone

\* The retry of a push.
LEMMA RetryPushKeeps ==
  ASSUME IInv, NEW d \in Device, RetryPush(d)
  PROVE  IInv'
<1> DEFINE c0 == clone[d]
           s == clone[d].ahead
           n == pushes
           k == call[d]
           p == call[d].path
           b == call[d].blob
<1>1. PICK online \in Online :
        LET c2 == Added(Refreshed(c0, online), p, b) IN
        IF c2.conflict = None
          THEN SetClone(d, Committed(c2)) /\ Goto(d, "retry") /\ answer' = NoAnswer
          ELSE SetClone(d, c2) /\ End(d, "unmerged")
  BY DEF RetryPush, Rewritten
<1> DEFINE c == Refreshed(c0, online)
           c2 == Added(c, p, b)
           c3 == Committed(c2)
<1>2. pc[d] = "push" /\ UNCHANGED <<remote, call, pushes>>
  BY DEF RetryPush
<1>3. /\ RemoteSound(remote, n) /\ n \in 0..MaxPushes /\ n \in Nat /\ n <= n
      /\ Sound(remote, c0, n) /\ k \in Calls /\ p \in Path /\ b \in 1..n /\ b # None
      /\ s \in Seq(Good(b)) /\ Touches(s, p)
      /\ \A i \in DOMAIN s : s[i].path = p => s[i].from # b
      /\ call' = [call EXCEPT ![d] = k] /\ k.path = p /\ k.blob = b
  BY <1>2, Before DEF DeviceSound
<1>4. Refreshing(remote, s, c, n)
  BY <1>3, RefreshedSound
<1>5. IF c2.conflict = None
        THEN SetClone(d, c3) /\ Goto(d, "retry") /\ answer' = NoAnswer
        ELSE SetClone(d, c2) /\ End(d, "unmerged")
  BY <1>1
<1>6. c2 = Added(c, p, b) /\ c3 = Committed(c2)
  OBVIOUS
<1>7. b \in Kept(n) /\ b \in Nat
  BY <1>3 DEF Kept
<1> HIDE DEF c0, s, n, k, p, b, c, c2, c3
<1>8. CASE c2.conflict = None
  <2>1. c.rebase = None => Newest(c.ahead, p, b) /\ HeadAt(remote, c)[p] \in Kept(b)
    <3> SUFFICES ASSUME c.rebase = None
                 PROVE  Newest(c.ahead, p, b) /\ HeadAt(remote, c)[p] \in Kept(b)
      OBVIOUS
    <3>1. \A i \in DOMAIN s : s[i] \in Good(b)
      BY <1>3
    <3>2. ASSUME NEW i \in DOMAIN c.ahead, c.ahead[i].path = p
          PROVE  c.ahead[i].from \in Kept(b - 1)
      <4>1. PICK j \in DOMAIN s : c.ahead[i] = s[j]
        BY <1>4 DEF Refreshing, From
      <4>2. s[j].from \in Kept(b) /\ s[j].from # b
        BY <1>3, <3>1, <3>2, <4>1 DEF Good
      <4> QED BY <1>7, <4>1, <4>2 DEF Kept
    <3>3. PICK j \in DOMAIN s : LastAt(s, p, j)
      BY <1>3, LastExists
    <3>4. c.files[p] = s[j].to /\ c.files = HeadAt(remote, c)
      BY <1>3, <1>4, <3>3 DEF Refreshing, Sound
    <3>5. s[j].to \in Kept(b)
      BY <3>1, <3>3 DEF Good
    <3> QED BY <3>2, <3>4, <3>5 DEF Newest
  <2>2. Sound(remote, c3, n) /\ InCall(remote, c3, p, b)
    BY <1>3, <1>4, <1>6, <1>7, <1>8, <2>1, CommitSound
  <2>3. clone' = [clone EXCEPT ![d] = c3] /\ pc' = [pc EXCEPT ![d] = "retry"]
        /\ answer' = NoAnswer
    BY <1>5, <1>8 DEF SetClone, Goto
  <2>4. DeviceSound(remote, c3, "retry", k, n)
    <3>1. c3 \in Clone /\ c3 # None
      BY <2>2, NamesAssumption DEF Sound
    <3> QED BY <1>3, <2>2, <3>1 DEF DeviceSound, Steps
  <2>5. Answered'
    BY <2>3 DEF Answered, NoAnswer
  <2> QED BY <1>2, <1>3, <2>3, <2>4, <2>5, OneMovesAlone DEF n
<1>9. CASE c2.conflict # None
  <2>1. ~CanCommit(c2)
    BY <1>9 DEF CanCommit
  <2>2. Sound(remote, c2, n)
    BY <1>3, <1>4, <1>6, <1>7, <2>1, AddedSound
  <2>3. clone' = [clone EXCEPT ![d] = c2] /\ pc' = [pc EXCEPT ![d] = "idle"]
        /\ answer'.kind = "unmerged"
    BY <1>5, <1>9 DEF SetClone, End, Goto, Answer
  <2>4. DeviceSound(remote, c2, "idle", k, n)
    BY <1>3, <2>2, Resting
  <2>5. Answered'
    BY <2>3 DEF Answered
  <2> QED BY <1>2, <1>3, <2>3, <2>4, <2>5, OneMovesAlone DEF n
<1> QED BY <1>8, <1>9

\* The invariant is inductive.
LEMMA NextIInv == IInv /\ [Next]_vars => IInv'
<1> SUFFICES ASSUME IInv, [Next]_vars
             PROVE  IInv'
  OBVIOUS
<1>1. ASSUME NEW d \in Device, FinishPush(d)
      PROVE  IInv'
  BY <1>1, ArriveKeeps DEF FinishPush, End, Goto, Answer
<1>2. ASSUME NEW d \in Device, Rejected(d)
      PROVE  IInv'
  BY <1>2, EndKeeps DEF Rejected, End, Goto, Answer
<1>3. ASSUME NEW d \in Device, PushFails(d)
      PROVE  IInv'
  <2>1. pc[d] # "idle" /\ pc' = [pc EXCEPT ![d] = "idle"] /\ answer'.kind # "pulled"
        /\ UNCHANGED <<call, pushes>>
    BY <1>3 DEF PushFails, End, Goto, Answer
  <2>2. CASE UNCHANGED <<remote, clone>>
    BY <2>1, <2>2, EndKeeps
  <2>3. CASE Arrive(d)
    BY <2>1, <2>3, ArriveKeeps
  <2> QED BY <1>3, <2>2, <2>3 DEF PushFails
<1>4. CASE UNCHANGED vars
  BY <1>4 DEF vars, IInv, Answered
<1>5. CASE Next
  <2>1. PICK d \in Device :
          \/ \E online \in Online : List(d, online) \/ \E p \in Path : Pull(d, p, online)
          \/ \E p \in Path : StartDelete(d, p) \/ StartPush(d, p) \/ PushNowhere(d, p)
          \/ ReadNothing(d) \/ RepeatPush(d) \/ FinishPush(d) \/ RetryPush(d) \/ Rejected(d) \/ PushFails(d)
    BY <1>5 DEF Next
  <2> QED BY <1>1, <1>2, <1>3, <2>1, ListKeeps, PullKeeps, StartDeleteKeeps,
             StartPushKeeps, PushNowhereKeeps, ReadNothingKeeps, RepeatPushKeeps,
             RetryPushKeeps
<1> QED BY <1>4, <1>5

LEMMA Invariance == Spec => []IInv
<1>1. Init => IInv
  BY InitIInv
<1>2. IInv /\ [Next]_vars => IInv'
  BY NextIInv
<1> QED BY <1>1, <1>2, PTL DEF Spec

-----------------------------------------------------------------------------
(***************************************************************************)
(* The theorems.                                                           *)
(***************************************************************************)
\* Every clone, commit and answer is well typed, and no commit of the remote
\* leaves its path as it was (git commit without changes makes none).
THEOREM TypeCorrectness == Spec => []TypeOK
<1>1. IInv => TypeOK
  <2> SUFFICES ASSUME IInv PROVE TypeOK
    OBVIOUS
  <2>1. remote \in Seq(Commit) /\ \A i \in DOMAIN remote : remote[i].from # remote[i].to
    <3>1. remote \in Seq(Good(pushes)) /\ pushes \in 0..MaxPushes
      BY DEF IInv, RemoteSound
    <3>2. remote \in Seq(Commit)
      BY <3>1, GoodCommits
    <3>3. \A i \in DOMAIN remote : remote[i] \in Good(pushes)
      BY <3>1
    <3> QED BY <3>2, <3>3 DEF Good
  <2>2. ASSUME NEW d \in Device
        PROVE  /\ pc[d] \in {"idle", "push", "retry", "delete"}
               /\ clone[d] \in Clone \cup {None, Occupied}
               /\ pc[d] # "idle" => clone[d] \in Clone /\ clone[d].conflict = None
    BY Before DEF DeviceSound, InCall, Steps
  <2>3. ASSUME NEW d \in Device, clone[d] \in Clone
        PROVE  /\ clone[d].base <= Len(remote)
               /\ clone[d].rebase = None =>
                    clone[d].conflict = None /\ clone[d].files = HeadTree(clone[d])
    <3>1. Sound(remote, clone[d], pushes)
      BY <2>3, Before
    <3>2. HeadTree(clone[d]) = HeadAt(remote, clone[d])
      BY <3>1, Before, HeadSound
    <3> QED BY <3>1, <3>2 DEF Sound
  <2>4. answer.kind = "pulled" => answer.value \in Content
    BY DEF IInv, Answered
  <2> QED BY <2>1, <2>2, <2>3, <2>4 DEF TypeOK
<1> QED BY <1>1, Invariance, PTL

\* No conflict markers reach the remote, whatever calls fail and whatever is
\* left over from them (git add of one path, then git commit).
THEOREM RemoteHasNoMarkers == Spec => []NoMarkersOnRemote
<1>1. IInv => NoMarkersOnRemote
  <2> SUFFICES ASSUME IInv, NEW i \in DOMAIN remote PROVE remote[i].to # Garbled
    BY DEF NoMarkersOnRemote
  <2>1. remote \in Seq(Good(pushes)) /\ pushes \in 0..MaxPushes
    BY DEF IInv, RemoteSound
  <2>2. remote[i] \in Good(pushes)
    BY <2>1
  <2> QED BY <2>1, <2>2, GoodCommits DEF Good
<1> QED BY <1>1, Invariance, PTL

\* When push or delete returns, the remote has what it was called with.
THEOREM PushesLand == Spec => PushLands
<1> DEFINE Landing ==
      \A d \in Device :
        pc[d] # "idle" /\ answer'.kind = "done" /\ pc'[d] = "idle" =>
          Tree(remote')[call[d].path] = call[d].blob
<1>1. IInv /\ [Next]_vars => [Landing]_vars
  <2> SUFFICES ASSUME IInv, Next,
                      NEW d \in Device, pc[d] # "idle", answer'.kind = "done", pc'[d] = "idle"
               PROVE  Tree(remote')[call[d].path] = call[d].blob
    OBVIOUS
  <2>1. PICK e \in Device :
          \/ \E online \in Online : List(e, online) \/ \E p \in Path : Pull(e, p, online)
          \/ \E p \in Path : StartDelete(e, p) \/ StartPush(e, p) \/ PushNowhere(e, p)
          \/ ReadNothing(e) \/ RepeatPush(e) \/ FinishPush(e) \/ RetryPush(e) \/ Rejected(e) \/ PushFails(e)
    BY DEF Next
  <2>2. FinishPush(e)
    <3>1. ~ \E online \in Online : List(e, online) \/ \E p \in Path : Pull(e, p, online)
      BY DEF List, Pull, Answer
    <3>2. ~ \E p \in Path : StartDelete(e, p) \/ StartPush(e, p) \/ PushNowhere(e, p)
      BY DEF StartDelete, StartPush, PushNowhere, Begin, End, Answer, NoAnswer
    <3>3. ~(ReadNothing(e) \/ RepeatPush(e) \/ RetryPush(e) \/ Rejected(e) \/ PushFails(e))
      BY DEF ReadNothing, RepeatPush, RetryPush, Rejected, PushFails, Begin, End, Answer, NoAnswer
    <3> QED BY <2>1, <3>1, <3>2, <3>3
  <2>3. pc[e] # "idle" /\ Arrive(e) /\ pc' = [pc EXCEPT ![e] = "idle"]
        /\ answer'.kind # "pulled" /\ UNCHANGED <<call, pushes>>
    BY <2>2 DEF FinishPush, End, Goto, Answer
  <2>4. e = d
    BY <2>3 DEF IInv
  <2>5. Tree(remote') = HeadAt(remote, clone[d])
    BY <2>3, <2>4, ArriveKeeps
  <2>6. HeadAt(remote, clone[d])[call[d].path] = call[d].blob
    BY Before DEF DeviceSound, InCall
  <2> QED BY <2>5, <2>6
<1>2. [][Landing]_vars => PushLands
  BY PTL DEF PushLands
<1> QED BY <1>1, <1>2, Invariance, PTL DEF Spec

\* A pull that reaches the remote is told what is there, or what this clone has
\* not managed to push.
THEOREM PullsAreFresh == Spec => PullFresh
<1> DEFINE Fresh ==
      \A d \in Device, p \in Path :
        answer'.kind = "pulled" /\ Pull(d, p, TRUE) =>
          \/ answer'.value = Tree(remote)[p]
          \/ clone[d] # None /\ \E i \in DOMAIN clone[d].ahead :
               /\ clone[d].ahead[i].path = p
               /\ answer'.value \in {clone[d].ahead[i].to, Garbled}
<1>1. IInv /\ [Next]_vars => [Fresh]_vars
  <2> SUFFICES ASSUME IInv, NEW d \in Device, NEW p \in Path, Pull(d, p, TRUE)
               PROVE  \/ answer'.value = Tree(remote)[p]
                      \/ clone[d] # None /\ \E i \in DOMAIN clone[d].ahead :
                           /\ clone[d].ahead[i].path = p
                           /\ answer'.value \in {clone[d].ahead[i].to, Garbled}
    OBVIOUS
  <2> DEFINE online == TRUE
  <2>2. online /\ Pull(d, p, online)
    OBVIOUS
  <2> HIDE DEF online
  <2>1. PICK c0 \in Opened(d, online) : answer'.value = Refreshed(c0, online).files[p]
    <3>1. PICK c0 \in Opened(d, online) : Answer("pulled", Refreshed(c0, online).files[p])
      BY <2>2 DEF Pull
    <3> QED BY <3>1 DEF Answer
  <2>3. /\ RemoteSound(remote, pushes) /\ Sound(remote, c0, pushes)
        /\ clone[d] = None \/ clone[d] \in Clone
        /\ clone[d] \in Clone => c0 = clone[d]
        /\ clone[d] = None => c0.ahead = <<>>
    BY Before, OpenedSound
  <2>4. UpToDate(remote, c0.ahead, Refreshed(c0, online))
    BY <2>2, <2>3, RefreshedSound
  <2>5. CASE clone[d] = None
    BY <2>1, <2>3, <2>4, <2>5 DEF UpToDate
  <2>6. CASE clone[d] \in Clone
    BY <2>1, <2>3, <2>4, <2>6, NamesAssumption DEF UpToDate
  <2> QED BY <2>3, <2>5, <2>6
<1>2. [][Fresh]_vars => PullFresh
  BY PTL DEF PullFresh
<1> QED BY <1>1, <1>2, Invariance, PTL DEF Spec

\* What a push brings to other paths than its own never replaces a newer blob.
THEOREM OnlyGapsAreFilled == Spec => LeftoversFillGaps
<1> DEFINE Filling ==
      \A p \in Path :
        LET old == Tree(remote)[p]
            new == Tree(remote')[p]
        IN /\ new # old /\ None \notin {new, old}
           /\ \A d \in Device : pc'[d] # pc[d] => call[d].blob # new
           => new # Garbled /\ new > old
<1>1. IInv /\ [Next]_vars => [Filling]_vars
  <2> SUFFICES ASSUME IInv, Next, NEW p \in Path,
                      Tree(remote')[p] # Tree(remote)[p],
                      None \notin {Tree(remote')[p], Tree(remote)[p]},
                      \A d \in Device : pc'[d] # pc[d] => call[d].blob # Tree(remote')[p]
               PROVE  Tree(remote')[p] # Garbled /\ Tree(remote')[p] > Tree(remote)[p]
    BY Zenon
  <2>1. PICK d \in Device :
          \/ \E online \in Online : List(d, online) \/ \E q \in Path : Pull(d, q, online)
          \/ \E q \in Path : StartDelete(d, q) \/ StartPush(d, q) \/ PushNowhere(d, q)
          \/ ReadNothing(d) \/ RepeatPush(d) \/ FinishPush(d) \/ RetryPush(d) \/ Rejected(d) \/ PushFails(d)
    BY DEF Next
  <2>2. remote' # remote
    OBVIOUS
  <2>3. FinishPush(d) \/ PushFails(d)
    <3>1. ~ \E online \in Online : List(d, online) \/ \E q \in Path : Pull(d, q, online)
      BY <2>2 DEF List, Pull
    <3>2. ~ \E q \in Path : StartDelete(d, q) \/ StartPush(d, q) \/ PushNowhere(d, q)
      BY <2>2 DEF StartDelete, StartPush, PushNowhere
    <3>3. ~(ReadNothing(d) \/ RepeatPush(d) \/ RetryPush(d) \/ Rejected(d))
      BY <2>2 DEF ReadNothing, RepeatPush, RetryPush, Rejected
    <3> QED BY <2>1, <3>1, <3>2, <3>3
  <2>4. pc[d] # "idle" /\ Arrive(d) /\ pc' = [pc EXCEPT ![d] = "idle"]
        /\ answer'.kind # "pulled" /\ UNCHANGED <<call, pushes>>
    BY <2>2, <2>3 DEF FinishPush, PushFails, End, Goto, Answer
  <2> DEFINE c == clone[d]
             n == pushes
             a == HeadOf(clone[d]).ahead
  <2>5. /\ Sound(remote, c, n) /\ InCall(remote, c, call[d].path, call[d].blob)
        /\ RemoteSound(remote, n) /\ FastForward(c) /\ remote' = remote \o a
    BY <2>4, Before DEF DeviceSound, Arrive
  <2>6. Tree(remote') = HeadAt(remote, c)
    BY <2>4, ArriveKeeps
  <2>7. p # call[d].path
    <3>1. pc'[d] # pc[d]
      BY <2>4 DEF IInv
    <3> QED BY <2>5, <2>6, <3>1 DEF InCall
  <2>8. /\ a \in Seq(Good(n)) /\ remote \in Seq(Good(n)) /\ n \in 0..MaxPushes
        /\ HeadOf(c).base = Len(remote) /\ Base(remote, Len(remote)) = remote
    BY <2>5, HeadSound DEF RemoteSound, FastForward, Base
  <2>9. RisingAt(a, p) /\ RootedAt(remote, a, p)
    BY <2>5, <2>7, <2>8 DEF InCall
  <2> HIDE DEF c, n, a
  <2>10. Touches(a, p)
    BY <2>5, <2>8, TreeConcat
  <2>11. PICK j \in DOMAIN a : LastAt(a, p, j)
    BY <2>8, <2>10, LastExists
  <2>12. Tree(remote')[p] = a[j].to /\ a[j].path = p
    BY <2>5, <2>8, <2>10, <2>11, TreeAt, TreeConcat DEF LastAt
  <2>13. PICK i \in DOMAIN a : a[i].path = p /\ a[i].from = Tree(remote)[p] /\ i <= j
    <3>1. PICK i \in DOMAIN a : a[i].path = p /\ \A k \in DOMAIN a : a[k].path = p => i <= k
      BY <2>8, <2>10, FirstExists
    <3>2. \A k \in DOMAIN a : k < i => a[k].path # p
      BY <2>8, <3>1
    <3> QED BY <2>9, <2>11, <3>1, <3>2 DEF RootedAt, LastAt
  <2>14. a[j] \in Good(n) /\ a[i] \in Good(n)
    BY <2>8
  <2>15. a[j].to # Garbled
    BY <2>8, <2>14, GoodCommits DEF Good
  <2>16. a[j].to > a[i].from
    BY <2>9, <2>12, <2>13 DEF RisingAt
  <2> QED BY <2>12, <2>13, <2>15, <2>16
<1>2. [][Filling]_vars => LeftoversFillGaps
  BY PTL DEF LeftoversFillGaps
<1> QED BY <1>1, <1>2, Invariance, PTL DEF Spec
=============================================================================
