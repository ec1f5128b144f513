-------------------------- MODULE KeyRotation_proofs --------------------------
(***************************************************************************)
(* For any entries, committers, faults and number of versions: no rotation *)
(* loses a staged entry or a title of the index, a hard rotation has a     *)
(* complete backup before it writes, chains of day blocks that carry a     *)
(* version verify, and the files keep their types.                         *)
(*                                                                         *)
(* A rotation works on the ledger as it was when it began, so the version  *)
(* it derives from that copy is still the one of the file (CopyIsCurrent); *)
(* what staging and index hold is then a matter of how far it has come.    *)
(* Genesis remembers a hash for every earlier version (TypedLedger), so    *)
(* that a soft rotation leaves every link as it was and a hard one finds   *)
(* every hash it has to replace (RewrittenBlocks, by induction on the      *)
(* number of blocks).                                                      *)
(***************************************************************************)
EXTENDS KeyRotation, CommonLemmas

\* What a rotation has read is what the file holds until it writes it.
CopyIsCurrent ==
  /\ pc \in Steps
  /\ ledger.version \in Nat
  /\ ctx = [kind |-> ctx.kind, ledger |-> ctx.ledger, titles |-> ctx.titles]
  /\ index = [version |-> index.version, titles |-> index.titles]
  /\ pc # "idle" => ctx.ledger = ledger /\ Verified(ctx.ledger)

\* The version staged entries are under at each step.
StagedUnder(v) == \A e \in DOMAIN staging : staging[e] = v

StagingInv ==
  ~interrupted =>
    /\ captured = DOMAIN staging \cup committed
    /\ pc \in {"idle", "backup", "staging"} => StagedUnder(ledger.version)
    /\ pc \in {"index", "ledger"} => StagedUnder(NextVersion)

\* Titles already under the next version.
Moved == IF index.version = NextVersion THEN index.titles ELSE {}

IndexInv ==
  ~interrupted =>
    /\ committed = {} => index.titles = {}
    /\ pc \in {"idle", "backup", "staging"} =>
         /\ index.titles = committed
         /\ committed # {} => index.version = ledger.version
    /\ pc = "index" => committed = ctx.titles \cup Moved
    /\ pc = "ledger" =>
         /\ index.titles = committed
         /\ committed # {} => index.version = NextVersion

\* What a backup taken by the running rotation still covers.
BackupInv ==
  ctx.kind = "hard" /\ pc \in {"staging", "index", "ledger"} =>
    \E b \in backups : b.ledger = ctx.ledger /\ DOMAIN staging \subseteq DOMAIN b.staging

IInv == CopyIsCurrent /\ StagingInv /\ IndexInv /\ BackupInv

-----------------------------------------------------------------------------
\* A rotation that runs keeps its copy of the ledger, and with it the version
\* it is going to write.
LEMMA CopyKept ==
  ASSUME IInv, pc # "idle", ledger' = ledger,
         ctx' = ctx \/ \E t : ctx' = [ctx EXCEPT !.titles = t]
  PROVE  /\ ctx' = [kind |-> ctx'.kind, ledger |-> ctx'.ledger,
                    titles |-> ctx'.titles]
         /\ ctx'.kind = ctx.kind /\ ctx'.ledger = ctx.ledger
         /\ ctx'.ledger = ledger' /\ Verified(ctx'.ledger)
         /\ NextVersion' = NextVersion /\ NextVersion = ledger.version + 1
         /\ ledger'.version \in Nat
<1>1. /\ ctx' = [kind |-> ctx'.kind, ledger |-> ctx'.ledger,
                 titles |-> ctx'.titles]
      /\ ctx'.kind = ctx.kind /\ ctx'.ledger = ctx.ledger
  BY DEF IInv, CopyIsCurrent
<1>2. ctx.ledger = ledger /\ Verified(ctx.ledger) /\ ledger.version \in Nat
  BY DEF IInv, CopyIsCurrent
<1> QED
  BY <1>1, <1>2 DEF NextVersion

LEMMA InitIInv == Init => IInv
BY DEF Init, IInv, CopyIsCurrent, StagingInv, IndexInv, BackupInv, StagedUnder,
       Moved, Idle, Steps

\* The invariant is inductive: a rotation moves staging and index to the next
\* version before the ledger says so, and nothing else runs in between.
LEMMA NextIInv == IInv /\ [Next]_vars => IInv'
<1> SUFFICES ASSUME IInv, [Next]_vars
             PROVE  IInv'
  OBVIOUS
<1> USE DEF IInv
<1>1. ASSUME NEW e \in Entry, Stage(e)
      PROVE  IInv'
  <2> USE <1>1 DEF Stage
  <2>1. CopyIsCurrent'
    BY DEF CopyIsCurrent
  <2>2. StagingInv'
    BY DEF StagingInv, StagedUnder, NextVersion
  <2>3. IndexInv'
    BY DEF IndexInv
  <2>4. BackupInv'
    BY DEF BackupInv
  <2> QED
    BY <2>1, <2>2, <2>3, <2>4
<1>2. ASSUME NEW e \in Entry, NEW c \in Committers, Commit(e, c)
      PROVE  IInv'
  <2> USE <1>2
  <2>1. /\ pc = "idle" /\ pc' = pc /\ ctx' = ctx
        /\ interrupted' = interrupted /\ captured' = captured
        /\ e \in DOMAIN staging
        /\ staging' = [x \in DOMAIN staging \ {e} |-> staging[x]]
        /\ committed' = committed \cup {e}
        /\ index' = [version |-> ledger.version,
                     titles  |-> {e} \cup
                       (IF index.version = ledger.version THEN index.titles
                                                          ELSE {})]
    BY DEF Commit
  <2>2. ledger'.version = ledger.version
    BY DEF Commit
  <2>3. CopyIsCurrent'
    BY <2>1, <2>2 DEF CopyIsCurrent
  <2>4. StagingInv'
    BY <2>1, <2>2 DEF StagingInv, StagedUnder
  <2>5. IndexInv'
    BY <2>1, <2>2 DEF IndexInv
  <2>6. BackupInv'
    BY <2>1 DEF BackupInv
  <2> QED
    BY <2>3, <2>4, <2>5, <2>6
<1>3. ASSUME NEW kind \in Kinds, Prepare(kind)
      PROVE  IInv'
  <2> USE <1>3 DEF Prepare, files, history
  <2>1. CopyIsCurrent'
    BY DEF CopyIsCurrent, Steps
  <2>2. StagingInv'
    BY DEF StagingInv, StagedUnder
  <2>3. IndexInv'
    BY DEF IndexInv
  <2>4. BackupInv'
    BY DEF BackupInv, Kinds
  <2> QED
    BY <2>1, <2>2, <2>3, <2>4
<1>4. ASSUME Backup
      PROVE  IInv'
  <2> USE <1>4 DEF Backup, history
  <2>1. CASE pc' = "staging" /\ ctx' = ctx
    <3>1. CopyIsCurrent'
      BY <2>1 DEF CopyIsCurrent, Steps
    <3>2. StagingInv'
      BY <2>1 DEF StagingInv, StagedUnder
    <3>3. IndexInv'
      BY <2>1 DEF IndexInv
    <3>4. BackupInv'
      BY <2>1 DEF BackupInv, CopyIsCurrent, Return
    <3> QED
      BY <3>1, <3>2, <3>3, <3>4
  <2>2. CASE Return
    <3>1. CopyIsCurrent'
      BY <2>2 DEF CopyIsCurrent, Steps, Return, Idle
    <3>2. StagingInv'
      BY <2>2 DEF StagingInv, StagedUnder, Return
    <3>3. IndexInv'
      BY <2>2 DEF IndexInv, Return
    <3>4. BackupInv'
      BY <2>2 DEF BackupInv, Return
    <3> QED
      BY <3>1, <3>2, <3>3, <3>4
  <2> QED
    BY <2>1, <2>2
<1>5. ASSUME RotateStaging
      PROVE  IInv'
  <2> USE <1>5 DEF RotateStaging, history
  <2>1. /\ ctx' = [kind |-> ctx'.kind, ledger |-> ctx'.ledger,
                   titles |-> ctx'.titles]
        /\ ctx'.kind = ctx.kind /\ ctx'.ledger = ctx.ledger
        /\ ctx'.ledger = ledger' /\ Verified(ctx'.ledger)
        /\ NextVersion' = NextVersion /\ NextVersion = ledger.version + 1
        /\ ledger'.version \in Nat
    BY CopyKept
  <2>2. CopyIsCurrent'
    BY <2>1 DEF CopyIsCurrent, Steps
  <2>3. ASSUME ~interrupted
        PROVE  {x \in DOMAIN staging : staging[x] = ctx.ledger.version}
                 = DOMAIN staging
    <3>1. ctx.ledger = ledger
      BY DEF CopyIsCurrent
    <3>2. \A x \in DOMAIN staging : staging[x] = ctx.ledger.version
      BY <2>3, <3>1 DEF StagingInv, StagedUnder
    <3> QED
      BY <3>2
  <2>4. StagingInv'
    BY <2>1, <2>3 DEF StagingInv, StagedUnder
  <2>5. IndexInv'
    BY <2>1 DEF IndexInv, Moved, CopyIsCurrent
  <2>6. BackupInv'
    BY <2>1 DEF BackupInv
  <2> QED
    BY <2>2, <2>4, <2>5, <2>6
<1>6. ASSUME NEW t \in Entry, RotateTitle(t)
      PROVE  IInv'
  <2> USE <1>6 DEF RotateTitle, history
  <2>1. /\ ctx' = [kind |-> ctx'.kind, ledger |-> ctx'.ledger,
                   titles |-> ctx'.titles]
        /\ ctx'.kind = ctx.kind /\ ctx'.ledger = ctx.ledger
        /\ ctx'.ledger = ledger' /\ Verified(ctx'.ledger)
        /\ NextVersion' = NextVersion /\ NextVersion = ledger.version + 1
        /\ ledger'.version \in Nat
    BY CopyKept
  <2>2. ctx'.titles = ctx.titles \ {t}
    BY DEF CopyIsCurrent
  <2>3. index'.version = NextVersion /\ index'.titles = {t} \cup Moved
    BY DEF Moved
  <2>4. CopyIsCurrent'
    BY <2>1 DEF CopyIsCurrent
  <2>5. StagingInv'
    BY <2>1 DEF StagingInv, StagedUnder
  <2>6. Moved' = {t} \cup Moved
    BY <2>1, <2>3 DEF Moved
  <2>7. IndexInv'
    BY <2>2, <2>6 DEF IndexInv
  <2>8. BackupInv'
    BY <2>1 DEF BackupInv
  <2> QED
    BY <2>4, <2>5, <2>7, <2>8
<1>7. ASSUME RotateCookie
      PROVE  IInv'
  <2> USE <1>7 DEF RotateCookie, files, history
  <2>1. CopyIsCurrent'
    BY DEF CopyIsCurrent, Steps
  <2>2. NextVersion' = NextVersion
    BY DEF NextVersion
  <2>3. StagingInv'
    BY <2>2 DEF StagingInv, StagedUnder
  <2>4. IndexInv'
    BY <2>2 DEF IndexInv, Moved
  <2>5. BackupInv'
    BY DEF BackupInv
  <2> QED
    BY <2>1, <2>3, <2>4, <2>5
<1>8. ASSUME WriteLedger
      PROVE  IInv'
  <2> USE <1>8 DEF WriteLedger, history
  <2>1. pc' = "idle" /\ ctx' = Idle /\ ledger'.version = NextVersion
    BY DEF Return
  <2>2. NextVersion \in Nat
    BY DEF NextVersion, CopyIsCurrent
  <2>3. CopyIsCurrent'
    BY <2>1, <2>2 DEF CopyIsCurrent, Idle, Steps
  <2>4. StagingInv'
    BY <2>1 DEF StagingInv, StagedUnder
  <2>5. IndexInv'
    BY <2>1 DEF IndexInv
  <2>6. BackupInv'
    BY <2>1 DEF BackupInv
  <2> QED
    BY <2>3, <2>4, <2>5, <2>6
<1>9. ASSUME Kill
      PROVE  IInv'
  <2> USE <1>9 DEF Kill, Return, files
  <2>1. CopyIsCurrent'
    BY DEF CopyIsCurrent, Idle, Steps
  <2>2. StagingInv' /\ IndexInv' /\ BackupInv'
    BY DEF StagingInv, IndexInv, BackupInv
  <2> QED
    BY <2>1, <2>2
<1>10. CASE UNCHANGED vars
  <2> USE <1>10 DEF vars, files, history
  <2>1. CopyIsCurrent'
    BY DEF CopyIsCurrent
  <2>2. NextVersion' = NextVersion
    BY DEF NextVersion
  <2>3. StagingInv' /\ IndexInv' /\ BackupInv'
    BY <2>2 DEF StagingInv, StagedUnder, IndexInv, Moved, BackupInv
  <2> QED
    BY <2>1, <2>3
<1> QED
  BY <1>1, <1>2, <1>3, <1>4, <1>5, <1>6, <1>7, <1>8, <1>9, <1>10 DEF Next

LEMMA InvariantHolds == Spec => []IInv
<1>1. Init => IInv
  BY InitIInv
<1>2. IInv /\ [Next]_vars => IInv'
  BY NextIInv
<1> QED
  BY <1>1, <1>2, PTL DEF Spec

-----------------------------------------------------------------------------
\* Between rotations that ran to their end, every captured entry is committed
\* or staged under the current key (LocalStagingCache, _rotate_mutable_state).
THEOREM StagingSurvivesRotation == Spec => []StagedReadable
<1>1. IInv => StagedReadable
  BY DEF IInv, StagingInv, StagedUnder, StagedReadable
<1> QED
  BY <1>1, InvariantHolds, PTL

\* The same for the titles of the index, which are written one after the other
\* while the ledger still has the old version (_rotate_mutable_state).
THEOREM IndexSurvivesRotation == Spec => []IndexReadable
<1>1. IInv => IndexReadable
  BY DEF IInv, IndexInv, IndexReadable
<1> QED
  BY <1>1, InvariantHolds, PTL

\* When a hard rotation changes a file, a backup has the ledger it works on,
\* which verifies, and all that is still staged (hard_rotate, create_backup).
THEOREM BackupsAreComplete == Spec => []BackupComplete
<1>1. IInv => BackupComplete
  BY DEF IInv, CopyIsCurrent, BackupInv, BackupComplete
<1> QED
  BY <1>1, InvariantHolds, PTL

-----------------------------------------------------------------------------
BlockFields == {"kind", "id", "kv", "sealed", "enc", "prev"}

TypedBlock(b) ==
  /\ DOMAIN b = BlockFields
  /\ b = [f \in BlockFields |-> b[f]]
  /\ b.kind \in {"day", "summary"} /\ b.id \in Entry
  /\ b.kv \in Version \cup {NoVersion}
  /\ b.sealed \in Version /\ b.enc \in Version

\* A genesis block remembers the hash of every earlier version.
TypedLedger(l) ==
  /\ l.version \in Version
  /\ DOMAIN l.old = 1..(l.version - 1)
  /\ \E T : l.blocks \in Seq(T)
  /\ \A i \in DOMAIN l.blocks : TypedBlock(l.blocks[i])

\* A day block that has been encrypted, linked and sealed again.
Resealed(b, v, prev) == b.sealed = v /\ b.enc = v /\ b.prev = prev

\* A hard rotation keeps the blocks and gives all of them the new version; of a
\* chain of day blocks that verifies it makes one that is linked and sealed
\* under that version, since it finds every hash it has to replace.
LEMMA RewrittenBlocks ==
  ASSUME NEW l, TypedLedger(l), NEW v \in Version
  PROVE  /\ \E T : Rewritten(l, v) \in Seq(T)
         /\ DOMAIN Rewritten(l, v) = DOMAIN l.blocks
         /\ \A i \in DOMAIN l.blocks :
              /\ TypedBlock(Rewritten(l, v)[i]) /\ Rewritten(l, v)[i].kv = v
              /\ Rewritten(l, v)[i].kind = l.blocks[i].kind
         /\ Verified(l) /\ (\A i \in DOMAIN l.blocks : l.blocks[i].kind = "day") =>
              \A i \in DOMAIN l.blocks :
                Resealed(Rewritten(l, v)[i], v,
                         IF i = 1 THEN GenesisHash(v)
                                  ELSE HashOf(Rewritten(l, v)[i - 1]))
<1> DEFINE known == {l.hash} \cup Range(l.old)
           first == [blocks |-> <<>>, hashes |-> [h \in known |-> GenesisHash(v)]]
           New(before, b) ==
             IF b.kind = "day"
               THEN [b EXCEPT !.kv = v, !.sealed = v, !.enc = v,
                              !.prev = Relinked(before.hashes, @)]
               ELSE [b EXCEPT !.kv = v]
           Rewrite(before, b) ==
             [blocks |-> Append(before.blocks, New(before, b)),
              hashes |-> IF b.kind = "day"
                           THEN [h \in DOMAIN before.hashes \cup {HashOf(b)} |->
                                   IF h = HashOf(b) THEN HashOf(New(before, b))
                                                    ELSE before.hashes[h]]
                           ELSE before.hashes]
           N == Len(l.blocks)
           Body(p, n) == [i \in 0..n |-> IF i = 0 THEN first
                                         ELSE Rewrite(p[i - 1], l.blocks[i])]
<1>0. N \in Nat /\ DOMAIN l.blocks = 1..N
  BY DEF TypedLedger
<1>1. \E p : p = Body(p, N)
  <2> DEFINE T == {n \in Nat : \E p : p = Body(p, n)}
  <2> HIDE DEF first, Rewrite, N
  <2>1. 0 \in T
    <3> DEFINE p == [i \in 0..0 |-> first]
    <3>1. p = Body(p, 0)
      OBVIOUS
    <3> HIDE DEF p
    <3> QED BY <3>1
  <2>2. ASSUME NEW n \in T
        PROVE  n + 1 \in T
    <3>1. PICK p : p = Body(p, n)
      OBVIOUS
    <3> DEFINE q == Body(p, n + 1)
    <3>2. \A i \in 0..n : q[i] = p[i]
      BY <3>1
    <3>3. \A i \in 0..(n + 1) : i # 0 => i - 1 \in 0..n
      OBVIOUS
    <3>4. \A i \in 0..(n + 1) :
            i # 0 => Rewrite(q[i - 1], l.blocks[i]) = Rewrite(p[i - 1], l.blocks[i])
      BY <3>2, <3>3
    <3>5. q = Body(q, n + 1)
      BY <3>4
    <3> HIDE DEF q, Body
    <3>6. \E r : r = Body(r, n + 1)
      BY <3>5
    <3> QED BY <3>6
  <2> HIDE DEF T
  <2>3. T \in SUBSET Nat
    BY DEF T
  <2>4. T = Nat
    BY <2>1, <2>2, <2>3, Induction
  <2> QED BY <1>0, <2>4 DEF T
<1> DEFINE done == CHOOSE p : p = Body(p, N)
<1>2. done = Body(done, N)
  BY <1>1
<1>3. Rewritten(l, v) = done[N].blocks
  BY DEF Rewritten
<1> HIDE DEF done
<1>4. done[0] = first /\ \A n \in 1..N : done[n] = Rewrite(done[n - 1], l.blocks[n])
  <2> HIDE DEF first, Rewrite, N
  <2>1. \A n \in 1..N : n \in 0..N /\ n # 0
    BY <1>0
  <2> QED BY <1>0, <1>2, <2>1
<1> HIDE DEF Body
<1> DEFINE AllDays == Verified(l) /\ \A i \in DOMAIN l.blocks : l.blocks[i].kind = "day"
           B(n) == done[n].blocks
           H(n) == done[n].hashes
           Good(n) ==
             /\ \E T : B(n) \in Seq(T)
             /\ Len(B(n)) = n
             /\ \A i \in 1..n : /\ TypedBlock(B(n)[i]) /\ B(n)[i].kv = v
                                /\ B(n)[i].kind = l.blocks[i].kind
             /\ AllDays =>
                  /\ \A i \in 1..n :
                       Resealed(B(n)[i], v, IF i = 1 THEN GenesisHash(v)
                                                     ELSE HashOf(B(n)[i - 1]))
                  /\ n = 0 => H(n) = [h \in known |-> GenesisHash(v)]
                  /\ n # 0 => /\ HashOf(l.blocks[n]) \in DOMAIN H(n)
                              /\ H(n)[HashOf(l.blocks[n])] = HashOf(B(n)[n])
<1>5. Good(0)
  <2>1. B(0) = <<>> /\ H(0) = [h \in known |-> GenesisHash(v)]
    <3> HIDE DEF known, Rewrite
    <3>1. done[0] = first
      BY <1>4
    <3> QED BY <3>1
  <2>2. <<>> \in Seq({}) /\ Len(<<>>) = 0
    OBVIOUS
  <2> QED BY <2>1, <2>2
<1>6. ASSUME NEW n \in Nat, n + 1 <= N, Good(n)
      PROVE  Good(n + 1)
  <2> DEFINE b == l.blocks[n + 1]
             c == New(done[n], b)
  <2>1. n + 1 \in 1..N /\ (n + 1) - 1 = n
    BY <1>0, <1>6
  <2>2. /\ B(n + 1) = Append(B(n), c)
        /\ H(n + 1) = IF b.kind = "day"
                        THEN [h \in DOMAIN H(n) \cup {HashOf(b)} |->
                                IF h = HashOf(b) THEN HashOf(c) ELSE H(n)[h]]
                        ELSE H(n)
    <3>1. done[n + 1] = Rewrite(done[n], b)
      <4> HIDE DEF Rewrite, first
      <4> QED BY <1>4, <2>1
    <3> HIDE DEF New
    <3> QED BY <3>1
  <2>3. TypedBlock(b)
    BY <1>0, <2>1 DEF TypedLedger
  <2>4. /\ TypedBlock(c) /\ c.kv = v /\ c.kind = b.kind
        /\ b.kind = "day" => Resealed(c, v, Relinked(H(n), b.prev))
    <3>1. CASE b.kind = "day"
      BY <2>3, <3>1 DEF TypedBlock, BlockFields, Resealed
    <3>2. CASE b.kind # "day"
      BY <2>3, <3>2 DEF TypedBlock, BlockFields
    <3> QED BY <3>1, <3>2
  <2> HIDE DEF c, New
  <2>5. /\ \E T : B(n + 1) \in Seq(T)
        /\ Len(B(n + 1)) = n + 1
        /\ \A i \in 1..n : B(n + 1)[i] = B(n)[i]
        /\ B(n + 1)[n + 1] = c
    <3>1. (\E T : B(n) \in Seq(T)) /\ Len(B(n)) = n
      BY <1>6
    <3> DEFINE s == B(n)
    <3>0. PICK S : s \in Seq(S)
      BY <3>1
    <3>2. /\ \E T : Append(s, c) \in Seq(T)
          /\ Len(Append(s, c)) = Len(s) + 1
          /\ \A i \in 1..Len(s) : Append(s, c)[i] = s[i]
          /\ Append(s, c)[Len(s) + 1] = c
      <4> HIDE DEF s
      <4>1. s \in Seq(S \cup {c})
        BY <3>0
      <4> QED BY <4>1
    <3> HIDE DEF B
    <3> QED BY <2>2, <3>1, <3>2 DEF s
  <2>6. \A i \in 1..(n + 1) : i \in 1..n \/ i = n + 1
    OBVIOUS
  <2>7. \A i \in 1..(n + 1) : /\ TypedBlock(B(n + 1)[i]) /\ B(n + 1)[i].kv = v
                              /\ B(n + 1)[i].kind = l.blocks[i].kind
    BY <1>6, <2>4, <2>5, <2>6
  <2>8. ASSUME AllDays
        PROVE  /\ b.kind = "day"
               /\ Relinked(H(n), b.prev) = IF n = 0 THEN GenesisHash(v)
                                                    ELSE HashOf(B(n)[n])
    <3>1. b.kind = "day" /\ b.prev = HashBefore(l, n + 1) /\ b.kv <= l.version
      BY <1>0, <2>1, <2>8 DEF Verified
    <3>2. CASE n = 0
      <4>1. b.prev = GenesisHashFor(l, b.kv)
        BY <3>1, <3>2 DEF HashBefore
      <4>2. b.prev \in known
        <5>1. b.kv \in DOMAIN l.old \/ b.kv = l.version \/ b.kv = NoVersion
          BY <2>3, <3>1 DEF TypedBlock, TypedLedger, Version, NoVersion
        <5>2. CASE b.kv \in DOMAIN l.old
          <6>1. b.kv # NoVersion
            BY <5>2 DEF TypedLedger, NoVersion, Version
          <6> QED BY <4>1, <5>2, <6>1 DEF GenesisHashFor, Range
        <5> QED BY <4>1, <5>1, <5>2 DEF GenesisHashFor
      <4>3. H(n) = [h \in known |-> GenesisHash(v)]
        BY <1>6, <2>8, <3>2
      <4> QED BY <3>1, <3>2, <4>2, <4>3 DEF Relinked
    <3>3. CASE n # 0
      <4>1. b.prev = HashOf(l.blocks[n])
        BY <3>1, <3>3, <2>1 DEF HashBefore
      <4>2. /\ HashOf(l.blocks[n]) \in DOMAIN H(n)
            /\ H(n)[HashOf(l.blocks[n])] = HashOf(B(n)[n])
        BY <1>6, <2>8, <3>3
      <4> QED BY <3>1, <3>3, <4>1, <4>2 DEF Relinked
    <3> QED BY <3>2, <3>3
  <2>9. ASSUME AllDays
        PROVE  /\ \A i \in 1..(n + 1) :
                    Resealed(B(n + 1)[i], v, IF i = 1 THEN GenesisHash(v)
                                             ELSE HashOf(B(n + 1)[i - 1]))
               /\ HashOf(l.blocks[n + 1]) \in DOMAIN H(n + 1)
               /\ H(n + 1)[HashOf(l.blocks[n + 1])] = HashOf(B(n + 1)[n + 1])
    <3>1. \A i \in 1..n : i # 1 => B(n + 1)[i - 1] = B(n)[i - 1]
      <4>1. \A i \in 1..n : i # 1 => i - 1 \in 1..n
        OBVIOUS
      <4> QED BY <2>5, <4>1
    <3>2. n # 0 => B(n + 1)[n] = B(n)[n] /\ (n + 1) - 1 = n
      BY <2>5
    <3>3. Resealed(B(n + 1)[n + 1], v, IF n + 1 = 1 THEN GenesisHash(v)
                                       ELSE HashOf(B(n + 1)[(n + 1) - 1]))
      BY <2>4, <2>5, <2>8, <2>9, <3>2
    <3>4. \A i \in 1..n : Resealed(B(n + 1)[i], v, IF i = 1 THEN GenesisHash(v)
                                                   ELSE HashOf(B(n + 1)[i - 1]))
      BY <1>6, <2>5, <2>9, <3>1
    <3>5. H(n + 1)[HashOf(b)] = HashOf(c) /\ HashOf(b) \in DOMAIN H(n + 1)
      BY <2>2, <2>8, <2>9
    <3> QED BY <2>5, <2>6, <3>3, <3>4, <3>5
  <2> QED BY <2>5, <2>7, <2>9
<1>7. Good(N)
  <2> DEFINE T == {n \in Nat : n <= N => Good(n)}
  <2> HIDE DEF Good, N
  <2>1. 0 \in T
    BY <1>5
  <2>2. ASSUME NEW n \in T
        PROVE  n + 1 \in T
    BY <1>0, <1>6
  <2> HIDE DEF T
  <2>3. T \in SUBSET Nat
    BY DEF T
  <2>4. T = Nat
    BY <2>1, <2>2, <2>3, Induction
  <2> QED BY <1>0, <2>4 DEF T
<1>8. DOMAIN B(N) = 1..N
  BY <1>7, <1>0
<1> QED BY <1>0, <1>3, <1>7, <1>8

-----------------------------------------------------------------------------
\* Every file is of its type, and a rotation that runs has a version to go to.
TypeInv ==
  /\ ledger = [version |-> ledger.version, hash |-> ledger.hash,
               old |-> ledger.old, blocks |-> ledger.blocks]
  /\ TypedLedger(ledger)
  /\ DOMAIN staging \subseteq captured
  /\ \A e \in DOMAIN staging : staging[e] \in Version
  /\ index.version \in Version /\ index.titles \subseteq Entry
  /\ pc = "idle" => ctx = Idle
  /\ pc # "idle" => ledger.version + 1 \in Version
  /\ committed \subseteq captured /\ captured \subseteq Entry
  /\ interrupted \in BOOLEAN

ChainInv == Stamped(ledger) => Verified(ledger)

LInv == TypeInv /\ ChainInv

LEMMA InitLInv == Init => LInv
<1> SUFFICES ASSUME Init PROVE LInv
  OBVIOUS
<1>1. 1 \in Version
  BY VersionAssumption DEF Version
<1>2. ledger.blocks \in Seq({}) /\ DOMAIN ledger.blocks = {}
  BY DEF Init
<1>3. DOMAIN ledger.old = 1..0 /\ ledger.version = 1
  BY DEF Init
<1>4. TypedLedger(ledger)
  BY <1>1, <1>2, <1>3 DEF TypedLedger
<1>5. ChainInv
  BY <1>2 DEF ChainInv, Verified
<1>6. /\ ledger = [version |-> ledger.version, hash |-> ledger.hash,
                   old |-> ledger.old, blocks |-> ledger.blocks]
      /\ DOMAIN staging = {}
      /\ index.version \in Version /\ index.titles = {}
  BY <1>1 DEF Init
<1> QED BY <1>4, <1>5, <1>6 DEF Init, LInv, TypeInv

\* A commit appends typed blocks, and if all blocks are day blocks with a version
\* the new one is linked and sealed under the version of the ledger.
LEMMA CommitExtends ==
  ASSUME TypeInv, ChainInv, NEW e \in Entry, NEW c \in Committers, Commit(e, c)
  PROVE  TypedLedger(ledger)' /\ ChainInv'
<1> DEFINE v  == ledger.version
           kv == IF c = "stamped" THEN v ELSE NoVersion
           New(kind, prev) == [kind |-> kind, id |-> e, kv |-> kv, sealed |-> v,
                               enc |-> v, prev |-> prev]
           first == New("summary", LastHash(ledger.blocks, ledger.hash))
           before == ledger.blocks \o (IF c = "summary" THEN <<first>> ELSE <<>>)
           day   == New("day", LastHash(before, ledger.hash))
           n     == Len(ledger.blocks)
<1>1. v \in Version /\ v \in Nat /\ NoVersion \notin Version
  BY DEF TypeInv, TypedLedger, Version, NoVersion
<1>2. \A kind \in {"day", "summary"} : \A prev : TypedBlock(New(kind, prev))
  BY <1>1 DEF TypedBlock, BlockFields
<1>3. TypedBlock(first) /\ TypedBlock(day) /\ day.kind = "day" /\ day.kv = kv
  BY <1>2
<1>4. ledger' = [ledger EXCEPT !.blocks = Append(before, day)]
  BY DEF Commit
<1>5. /\ ledger'.version = v /\ ledger'.hash = ledger.hash /\ ledger'.old = ledger.old
      /\ ledger'.blocks = Append(before, day)
  <2> HIDE DEF before, day
  <2> QED BY <1>4 DEF TypeInv
<1>6. PICK S : ledger.blocks \in Seq(S)
  BY DEF TypeInv, TypedLedger
<1>7. n \in Nat /\ DOMAIN ledger.blocks = 1..n
  BY <1>6
<1>8. CASE c # "summary"
  <2>1. before = ledger.blocks
    BY <1>6, <1>8
  <2> HIDE DEF before, day
  <2>2. ledger.blocks \in Seq(S \cup {day})
    BY <1>6
  <2>3. /\ ledger'.blocks \in Seq(S \cup {day})
        /\ DOMAIN ledger'.blocks = 1..(n + 1)
        /\ \A i \in 1..n : ledger'.blocks[i] = ledger.blocks[i]
        /\ ledger'.blocks[n + 1] = day
    BY <1>5, <2>1, <2>2
  <2>4. \A i \in 1..(n + 1) : i \in 1..n \/ i = n + 1
    BY <1>7
  <2>5. TypedLedger(ledger)'
    BY <1>3, <1>5, <1>7, <2>3, <2>4 DEF TypeInv, TypedLedger
  <2>6. ASSUME Stamped(ledger')
        PROVE  Verified(ledger')
    <3>1. \A i \in 1..(n + 1) : /\ ledger'.blocks[i].kind = "day"
                                /\ ledger'.blocks[i].kv # NoVersion
      BY <2>3, <2>6 DEF Stamped
    <3>2. n + 1 \in 1..(n + 1) /\ \A i \in 1..n : i \in 1..(n + 1)
      BY <1>7
    <3>3. Stamped(ledger)
      BY <1>7, <2>3, <3>1, <3>2 DEF Stamped
    <3>4. Verified(ledger)
      BY <3>3 DEF ChainInv
    <3>5. kv = v
      BY <1>3, <2>3, <3>1, <3>2
    <3>6. day.prev = LastHash(ledger.blocks, ledger.hash) /\ day.sealed = v /\ day.enc = v
      BY <2>1 DEF day
    <3>7. n = 0 => day.prev = HashBefore(ledger', 1)
      <4>1. v \notin DOMAIN ledger.old
        BY <1>1 DEF TypeInv, TypedLedger
      <4>2. n = 0 => ledger.blocks = <<>>
        BY <1>6
      <4> QED BY <1>1, <1>3, <1>5, <2>3, <3>5, <3>6, <4>1, <4>2
              DEF HashBefore, GenesisHashFor, LastHash
    <3>8. n # 0 => day.prev = HashBefore(ledger', n + 1)
      <4>1. n # 0 => ledger.blocks # <<>> /\ Last(ledger.blocks) = ledger.blocks[n]
        BY <1>6 DEF Last
      <4>2. n # 0 => n + 1 # 1 /\ (n + 1) - 1 = n /\ n \in 1..n
        BY <1>7
      <4> QED BY <2>3, <3>6, <4>1, <4>2 DEF HashBefore, LastHash
    <3>9. \A i \in 1..n : HashBefore(ledger', i) = HashBefore(ledger, i)
      <4>1. \A i \in 1..n : i # 1 => i - 1 \in 1..n
        BY <1>7
      <4>2. \A x : GenesisHashFor(ledger', x) = GenesisHashFor(ledger, x)
        BY <1>5 DEF GenesisHashFor
      <4> QED BY <2>3, <4>1, <4>2 DEF HashBefore
    <3>10. \A i \in 1..n : /\ ledger'.blocks[i].prev = HashBefore(ledger', i)
                           /\ ledger'.blocks[i].sealed = KeyOf(ledger', ledger'.blocks[i])
                           /\ ledger'.blocks[i].enc = KeyOf(ledger', ledger'.blocks[i])
                           /\ ledger'.blocks[i].kv <= ledger'.version
      BY <1>5, <1>7, <2>3, <3>1, <3>2, <3>4, <3>9 DEF Verified, KeyOf
    <3>11. /\ day.prev = HashBefore(ledger', n + 1)
           /\ day.sealed = KeyOf(ledger', day) /\ day.enc = KeyOf(ledger', day)
           /\ day.kv <= ledger'.version
      BY <1>1, <1>3, <1>5, <3>5, <3>6, <3>7, <3>8 DEF KeyOf
    <3> QED BY <2>3, <2>4, <3>10, <3>11 DEF Verified
  <2> QED BY <2>5, <2>6 DEF ChainInv
<1>9. CASE c = "summary"
  <2>1. before = ledger.blocks \o <<first>>
    BY <1>9
  <2> HIDE DEF before, first, day
  <2>2. ledger.blocks \in Seq(S \cup {first, day}) /\ <<first>> \in Seq(S \cup {first, day})
    BY <1>6
  <2>3. /\ before \in Seq(S \cup {first, day}) /\ Len(before) = n + 1
        /\ \A i \in 1..n : before[i] = ledger.blocks[i]
        /\ before[n + 1] = first
    BY <1>7, <2>1, <2>2
  <2>4. /\ ledger'.blocks \in Seq(S \cup {first, day})
        /\ DOMAIN ledger'.blocks = 1..(n + 2)
        /\ \A i \in 1..n : ledger'.blocks[i] = ledger.blocks[i]
        /\ ledger'.blocks[n + 1] = first /\ ledger'.blocks[n + 2] = day
    BY <1>5, <1>7, <2>3
  <2>5. \A i \in 1..(n + 2) : i \in 1..n \/ i = n + 1 \/ i = n + 2
    BY <1>7
  <2>6. TypedLedger(ledger)'
    BY <1>3, <1>5, <1>7, <2>4, <2>5 DEF TypeInv, TypedLedger
  <2>7. ~Stamped(ledger')
    <3>1. day.kv = NoVersion /\ n + 2 \in 1..(n + 2)
      BY <1>3, <1>7, <1>9
    <3> QED BY <2>4, <3>1 DEF Stamped
  <2> QED BY <2>6, <2>7 DEF ChainInv
<1> QED BY <1>8, <1>9

\* A rotation writes a ledger of the next version that remembers the hash of the
\* version it leaves, and what verified before verifies after.
LEMMA RotationKeepsChain ==
  ASSUME IInv, TypeInv, ChainInv, WriteLedger
  PROVE  /\ ledger' = [version |-> ledger'.version, hash |-> ledger'.hash,
                       old |-> ledger'.old, blocks |-> ledger'.blocks]
         /\ TypedLedger(ledger)' /\ ChainInv'
<1> DEFINE v == ledger.version
           w == v + 1
           old == [x \in DOMAIN ledger.old \cup {v} |->
                     IF x = v THEN ledger.hash ELSE ledger.old[x]]
           n == Len(ledger.blocks)
<1>1. ctx.ledger = ledger /\ Verified(ledger) /\ NextVersion = w
  BY DEF IInv, CopyIsCurrent, WriteLedger, NextVersion
<1>2. v \in Version /\ w \in Version /\ v \in Nat /\ v # 0
  BY DEF TypeInv, TypedLedger, Version, WriteLedger
<1>3. /\ ledger' = [version |-> w, hash |-> GenesisHash(w), old |-> old,
                    blocks |-> ledger'.blocks]
      /\ ledger'.blocks = IF ctx.kind = "hard" THEN Rewritten(ledger, w)
                                               ELSE ledger.blocks
  BY <1>1 DEF WriteLedger
<1>4. ledger'.version = w /\ ledger'.hash = GenesisHash(w) /\ ledger'.old = old
  BY <1>3
<1>5. /\ DOMAIN old = 1..(w - 1) /\ w \notin DOMAIN old /\ v \in DOMAIN old
      /\ old[v] = ledger.hash
      /\ \A x \in DOMAIN ledger.old : x \in DOMAIN old /\ old[x] = ledger.old[x]
  BY <1>2 DEF TypeInv, TypedLedger
<1>6. /\ DOMAIN ledger.blocks = 1..n /\ n \in Nat /\ TypedLedger(ledger)
      /\ \A i \in 1..n : i # 1 => i - 1 \in 1..n
  <2>1. PICK S : ledger.blocks \in Seq(S)
    BY DEF TypeInv, TypedLedger
  <2> QED BY <2>1 DEF TypeInv
<1> HIDE DEF old, n
<1>7. CASE ctx.kind = "hard"
  <2> DEFINE new == Rewritten(ledger, w)
  <2>1. /\ \E T : new \in Seq(T)
        /\ DOMAIN new = 1..n
        /\ \A i \in 1..n : /\ TypedBlock(new[i]) /\ new[i].kv = w
                           /\ new[i].kind = ledger.blocks[i].kind
        /\ (\A i \in 1..n : ledger.blocks[i].kind = "day") =>
             \A i \in 1..n : Resealed(new[i], w, IF i = 1 THEN GenesisHash(w)
                                                 ELSE HashOf(new[i - 1]))
    <3> HIDE DEF new, w
    <3>1. /\ \E T : new \in Seq(T)
          /\ DOMAIN new = DOMAIN ledger.blocks
          /\ \A i \in DOMAIN ledger.blocks :
               /\ TypedBlock(new[i]) /\ new[i].kv = w
               /\ new[i].kind = ledger.blocks[i].kind
          /\ Verified(ledger)
               /\ (\A i \in DOMAIN ledger.blocks : ledger.blocks[i].kind = "day") =>
               \A i \in DOMAIN ledger.blocks :
                 Resealed(new[i], w, IF i = 1 THEN GenesisHash(w)
                                             ELSE HashOf(new[i - 1]))
      BY <1>2, <1>6, RewrittenBlocks, Zenon DEF new
    <3> QED BY <1>1, <1>6, <3>1
  <2>2. ledger'.blocks = new
    BY <1>3, <1>7
  <2> HIDE DEF new
  <2>3. TypedLedger(ledger)'
    BY <1>2, <1>4, <1>5, <2>1, <2>2 DEF TypedLedger
  <2>4. ASSUME Stamped(ledger')
        PROVE  Verified(ledger')
    <3>1. \A i \in 1..n : Resealed(new[i], w, IF i = 1 THEN GenesisHash(w)
                                              ELSE HashOf(new[i - 1]))
      BY <2>1, <2>2, <2>4 DEF Stamped
    <3>2. GenesisHashFor(ledger', w) = GenesisHash(w)
      BY <1>4, <1>5, <1>2 DEF GenesisHashFor, NoVersion
    <3>3. \A i \in 1..n : new[i].prev = HashBefore(ledger', i)
      BY <2>1, <2>2, <3>1, <3>2 DEF HashBefore, Resealed
    <3> QED BY <1>2, <1>4, <2>1, <2>2, <3>1, <3>3
            DEF Verified, KeyOf, Resealed, NoVersion
  <2> QED BY <1>3, <1>4, <2>3, <2>4 DEF ChainInv
<1>8. CASE ctx.kind # "hard"
  <2>1. ledger'.blocks = ledger.blocks
    BY <1>3, <1>8
  <2>2. TypedLedger(ledger)'
    BY <1>2, <1>4, <1>5, <1>6, <2>1 DEF TypedLedger
  <2>3. ASSUME Stamped(ledger')
        PROVE  Verified(ledger')
    <3>1. \A i \in 1..n : /\ ledger.blocks[i].kind = "day"
                          /\ ledger.blocks[i].kv # NoVersion
                          /\ ledger.blocks[i].kv \in Version
                          /\ ledger.blocks[i].kv <= v
      BY <1>1, <1>6, <2>1, <2>3 DEF Stamped, TypedLedger, TypedBlock, Verified
    <3>2. \A i \in 1..n : KeyOf(ledger', ledger.blocks[i]) = KeyOf(ledger, ledger.blocks[i])
      BY <3>1 DEF KeyOf
    <3>3. n # 0 => GenesisHashFor(ledger', ledger.blocks[1].kv)
                     = GenesisHashFor(ledger, ledger.blocks[1].kv)
      <4>1. n # 0 => 1 \in 1..n
        BY <1>6
      <4>2. n # 0 => \/ ledger.blocks[1].kv = v
                     \/ ledger.blocks[1].kv \in DOMAIN ledger.old
        BY <1>2, <1>6, <3>1, <4>1 DEF TypedLedger, Version
      <4>3. v \notin DOMAIN ledger.old
        BY <1>2, <1>6 DEF TypedLedger
      <4> QED BY <1>4, <1>5, <3>1, <4>1, <4>2, <4>3 DEF GenesisHashFor
    <3>4. \A i \in 1..n : HashBefore(ledger', i) = HashBefore(ledger, i)
      BY <1>6, <2>1, <3>3 DEF HashBefore
    <3>5. \A i \in 1..n : ledger.blocks[i].kv <= w
      BY <1>2, <3>1 DEF Version
    <3> QED BY <1>1, <1>4, <1>6, <2>1, <3>2, <3>4, <3>5 DEF Verified
  <2> QED BY <1>3, <1>4, <2>2, <2>3 DEF ChainInv
<1> QED BY <1>7, <1>8

LEMMA NextLInv == IInv /\ LInv /\ [Next]_vars => LInv'
<1> SUFFICES ASSUME IInv, LInv, [Next]_vars
             PROVE  LInv'
  OBVIOUS
<1> USE DEF LInv
<1>0. ASSUME UNCHANGED ledger
      PROVE  ChainInv' /\ TypedLedger(ledger)'
  BY <1>0 DEF ChainInv, TypeInv
<1>1. ASSUME NEW e \in Entry, Stage(e)
      PROVE  LInv'
  <2>1. ledger' = ledger /\ ledger.version \in Version
    BY <1>1 DEF Stage, TypeInv, TypedLedger
  <2> QED BY <1>0, <1>1, <2>1 DEF Stage, TypeInv
<1>2. ASSUME NEW e \in Entry, NEW c \in Committers, Commit(e, c)
      PROVE  LInv'
  <2>1. /\ pc = "idle" /\ pc' = pc /\ ctx' = ctx
        /\ interrupted' = interrupted /\ captured' = captured
        /\ e \in DOMAIN staging
        /\ staging' = [x \in DOMAIN staging \ {e} |-> staging[x]]
        /\ committed' = committed \cup {e}
        /\ index' = [version |-> ledger.version,
                     titles  |-> {e} \cup
                       (IF index.version = ledger.version THEN index.titles
                                                          ELSE {})]
    BY <1>2 DEF Commit
  <2>2. \E b : ledger' = [ledger EXCEPT !.blocks = b]
    BY <1>2 DEF Commit
  <2>3. /\ ledger' = [version |-> ledger'.version, hash |-> ledger'.hash,
                      old |-> ledger'.old, blocks |-> ledger'.blocks]
        /\ ledger.version \in Version
    BY <2>2 DEF TypeInv, TypedLedger
  <2>4. TypedLedger(ledger)' /\ ChainInv'
    BY <1>2, CommitExtends
  <2> QED BY <2>1, <2>3, <2>4 DEF TypeInv
<1>3. ASSUME NEW kind \in Kinds, Prepare(kind)
      PROVE  LInv'
  <2>1. ledger' = ledger /\ ledger.version + 1 \in Version
    BY <1>3, VersionAssumption DEF Prepare, files, TypeInv, TypedLedger, Version
  <2> QED BY <1>0, <1>3, <2>1 DEF Prepare, files, history, TypeInv
<1>4. ASSUME Backup
      PROVE  LInv'
  <2>1. ledger' = ledger
    BY <1>4 DEF Backup
  <2> QED BY <1>0, <1>4, <2>1 DEF Backup, Return, history, TypeInv
<1>5. ASSUME RotateStaging
      PROVE  LInv'
  <2>1. ledger' = ledger /\ NextVersion \in Version
    BY <1>5 DEF RotateStaging, NextVersion, TypeInv, IInv, CopyIsCurrent
  <2> HIDE DEF NextVersion
  <2> QED BY <1>0, <1>5, <2>1 DEF RotateStaging, history, TypeInv
<1>6. ASSUME NEW t \in Entry, RotateTitle(t)
      PROVE  LInv'
  <2>1. ledger' = ledger /\ NextVersion \in Version /\ pc # "idle"
    BY <1>6 DEF RotateTitle, NextVersion, TypeInv, IInv, CopyIsCurrent
  <2>2. index'.version = NextVersion /\ index'.titles \subseteq index.titles \cup {t}
    BY <1>6 DEF RotateTitle
  <2> QED BY <1>0, <1>6, <2>1, <2>2 DEF RotateTitle, history, TypeInv
<1>7. ASSUME RotateCookie
      PROVE  LInv'
  BY <1>0, <1>7 DEF RotateCookie, files, history, TypeInv
<1>8. ASSUME WriteLedger
      PROVE  LInv'
  BY <1>8, RotationKeepsChain DEF WriteLedger, Return, history, TypeInv
<1>9. ASSUME Kill
      PROVE  LInv'
  BY <1>0, <1>9 DEF Kill, Return, files, TypeInv
<1>10. CASE UNCHANGED vars
  BY <1>0, <1>10 DEF vars, files, history, TypeInv
<1> QED
  BY <1>1, <1>2, <1>3, <1>4, <1>5, <1>6, <1>7, <1>8, <1>9, <1>10 DEF Next

LEMMA LedgerInvariantHolds == Spec => [](IInv /\ LInv)
<1>1. Init => LInv
  BY InitLInv
<1>2. IInv /\ LInv /\ [Next]_vars => LInv'
  BY NextLInv
<1> QED
  BY <1>1, <1>2, InvariantHolds, PTL DEF Spec

\* A chain of day blocks that carry a version verifies after any soft and hard
\* rotations, in any order, with kills and commits between (rotate_keys.py,
\* LedgerChain.verify with a key for every version).
THEOREM StampedChainsVerify == Spec => []StampedChainVerifies
<1>1. LInv => StampedChainVerifies
  BY DEF LInv, ChainInv, StampedChainVerifies
<1> QED
  BY <1>1, LedgerInvariantHolds, PTL

\* Every file of a device keeps its type: versions stay within those that
\* rotations may reach, and what is staged or indexed was captured.
THEOREM TypeCorrectness == Spec => []TypeOK
<1>1. ASSUME IInv, LInv
      PROVE  TypeOK
  <2>1. pc # "idle" => ctx # Idle
    <3>1. pc # "idle" => ctx.ledger = ledger
      BY <1>1 DEF IInv, CopyIsCurrent
    <3>2. "version" \in DOMAIN ledger
      BY <1>1 DEF LInv, TypeInv
    <3>3. ledger # <<>>
      BY <3>2
    <3> QED BY <3>1, <3>3 DEF Idle
  <2>2. DOMAIN ledger.old \subseteq Version
    BY <1>1, VersionAssumption DEF LInv, TypeInv, TypedLedger, Version
  <2> QED
    BY <1>1, <2>1, <2>2
       DEF IInv, CopyIsCurrent, LInv, TypeInv, TypedLedger, TypedBlock, TypeOK
<1> QED
  BY <1>1, LedgerInvariantHolds, PTL
=============================================================================
