------------------------- MODULE StagingSync_proofs -------------------------
(***************************************************************************)
(* Proofs about StagingSync, for any devices, entries, commands and faults.*)
(*                                                                         *)
(* The first part is about claims, skipped pushes and commits; it relates  *)
(* the remote cookie, the blob and the hash of the last push.  The second  *)
(* is about custody: no unsynced entry is lost, and StagingSync implements *)
(* EntryCustody, as long as no confirmation selects and marks entries at   *)
(* once ("syncBoth").  Its invariant says that all copies hold only        *)
(* captured entries, that every captured entry is held or settled, and     *)
(* that what a sync is about to drop is settled.  Most steps keep what the *)
(* devices hold and merge the remote blob into it at most (Keeps).         *)
(***************************************************************************)
EXTENDS StagingSync, FiniteSetTheorems, TLAPS

-----------------------------------------------------------------------------
(***************************************************************************)
(* What the helpers of the model return.                                   *)
(***************************************************************************)
LEMMA MergeIsContent ==
  ASSUME NEW mine \in Content, NEW theirs \in Content
  PROVE  Merge(mine, theirs) \in Content
BY DEF Merge, Content

LEMMA WithoutIsContent ==
  ASSUME NEW content \in Content, NEW gone
  PROVE  Without(content, gone) \in Content
BY DEF Without, Content

LEMMA EmptyContentIsContent == EmptyContent \in Content
BY DEF EmptyContent, Content

\* Only entries before e count, and there are finitely many of them.
LEMMA PositionIsNat ==
  ASSUME NEW content, NEW e \in Entry
  PROVE  Position(content, e) \in Nat
<1> DEFINE Before == {x \in Present(content) : x < e}
<1>1. ASSUME NEW x \in Before
      PROVE  x \in 0..e
  BY EntryAssumption DEF Present
<1>2. IsFiniteSet(0..e)
  BY FS_Interval, EntryAssumption
<1>3. IsFiniteSet(Before)
  BY <1>1, <1>2, FS_Subset
<1> QED
  BY <1>3, FS_CardinalityType DEF Position

-----------------------------------------------------------------------------
(***************************************************************************)
(* What the parts that actions share do to the types.                      *)
(***************************************************************************)
LEMMA GotoType ==
  ASSUME ControlOK, NEW d \in Device, NEW l \in Steps, Goto(d, l)
  PROVE  ControlOK'
BY DEF ControlOK, Goto

LEMMA FinishType ==
  ASSUME ControlOK, NEW d \in Device, Finish(d)
  PROVE  ControlOK'
BY DEF ControlOK, Finish, Steps

LEMMA ProceedType ==
  ASSUME ControlOK, NEW d \in Device, Proceed(d)
  PROVE  ControlOK'
<1>1. CASE cmd[d] \in {"view", "login"} /\ Finish(d)
  BY <1>1, FinishType
<1>2. CASE /\ cmd[d] \in TwoGates /\ round[d] = 1
           /\ pc' = [pc EXCEPT ![d] = "gate"]
           /\ round' = [round EXCEPT ![d] = 2]
           /\ UNCHANGED <<cmd, pending, marked>>
  BY <1>2 DEF ControlOK, Steps
<1>3. CASE Goto(d, "act")
  BY <1>3, GotoType DEF Steps
<1> QED
  BY <1>1, <1>2, <1>3 DEF Proceed

LEMMA ReauthType ==
  ASSUME ControlOK, SessionOK, NEW d \in Device, Reauth(d)
  PROVE  ControlOK' /\ SessionOK'
<1>1. CASE /\ pc' = [pc EXCEPT ![d] = "recPull"]
           /\ session' = [session EXCEPT ![d] = TRUE]
           /\ UNCHANGED <<cmd, round, pending, marked>>
  BY <1>1 DEF ControlOK, SessionOK, Steps
<1>2. CASE Finish(d) /\ session' = [session EXCEPT ![d] = FALSE]
  BY <1>2, FinishType DEF SessionOK
<1>3. CASE Finish(d) /\ UNCHANGED session
  BY <1>3, FinishType DEF SessionOK
<1>4. CASE Goto(d, "act") /\ UNCHANGED session
  BY <1>4, GotoType DEF SessionOK, Steps
<1> QED
  BY <1>1, <1>2, <1>3, <1>4 DEF Reauth

LEMMA RewriteType ==
  ASSUME FilesOK, NEW d \in Device, NEW content \in Content, Rewrite(d, content)
  PROVE  FilesOK'
BY DEF FilesOK, Rewrite

LEMMA DestroyCookieType ==
  ASSUME CookiesOK, NEW d \in Device, DestroyCookie(d)
  PROVE  CookiesOK'
BY DeviceAssumption DEF CookiesOK, DestroyCookie, Orphaned

LEMMA TouchCookieType ==
  ASSUME CookiesOK, NEW d \in Device, TouchCookie(d)
  PROVE  CookiesOK'
BY DEF CookiesOK, TouchCookie

LEMMA PullMergesType ==
  ASSUME FilesOK, BlobOK, NEW d \in Device, PullMerges(d)
  PROVE  FilesOK'
<1>1. Merge(local[d], blob.entries) \in Content
  BY MergeIsContent DEF FilesOK, BlobOK
<1> QED
  BY <1>1, RewriteType DEF PullMerges

LEMMA BlobType ==
  ASSUME FilesOK, BlobOK, NEW d \in Device, blob' \in {blob, Blob(local[d])}
  PROVE  BlobOK'
BY DEF FilesOK, BlobOK, Blob

-----------------------------------------------------------------------------
(***************************************************************************)
(* Every action keeps the types.                                           *)
(***************************************************************************)
LEMMA InitType == Init => TypeOK
BY EmptyContentIsContent, DeviceAssumption
   DEF Init, TypeOK, FilesOK, CookiesOK, ControlOK, SessionOK, BlobOK, FactsOK,
       NoBlob, Steps

LEMMA StartType ==
  ASSUME TypeOK, NEW d \in Device, Start(d)
  PROVE  TypeOK'
<1> USE DEF TypeOK
<1>1. ASSUME NEW c \in Commands, StartCommand(d, c)
      PROVE  TypeOK'
  <2>1. FilesOK'
    BY <1>1 DEF StartCommand, ReplaySkips, ReplayPushes, FilesOK
  <2>2. ControlOK' /\ SessionOK'
    BY <1>1, CommandsAssumption
       DEF StartCommand, ReplaySkips, ReplayPushes, ControlOK, SessionOK, Steps,
           Pushing
  <2>3. CookiesOK' /\ BlobOK' /\ FactsOK'
    BY <1>1 DEF StartCommand, cookies, facts, CookiesOK, BlobOK, FactsOK
  <2> QED
    BY <2>1, <2>2, <2>3
<1>2. CASE Login(d)
  <2>1. CookiesOK'
    BY <1>2, DestroyCookieType DEF Login
  <2>2. ControlOK' /\ SessionOK'
    BY <1>2, CommandsAssumption
       DEF Login, MayStart, ControlOK, SessionOK, Steps
  <2>3. FilesOK' /\ BlobOK' /\ FactsOK'
    BY <1>2 DEF Login, files, facts, FilesOK, BlobOK, FactsOK
  <2> QED
    BY <2>1, <2>2, <2>3
<1>3. CASE Logout(d)
  BY <1>3
     DEF Logout, files, cookies, control, facts, FilesOK, CookiesOK, ControlOK,
         SessionOK, BlobOK, FactsOK
<1> QED
  BY <1>1, <1>2, <1>3 DEF Start

LEMMA GateType ==
  ASSUME TypeOK, NEW d \in Device, Gate(d)
  PROVE  TypeOK'
<1> USE DEF TypeOK
<1>1. FilesOK' /\ BlobOK' /\ FactsOK'
  BY DEF Gate, GateNothingStaged, GateExpired, GateNoCookie, GateCompare,
         GateUnreachable, files, facts, FilesOK, BlobOK, FactsOK
<1>2. CookiesOK'
  <2>1. UNCHANGED cookies \/ DestroyCookie(d) \/ TouchCookie(d)
    BY DEF Gate, GateNothingStaged, GateExpired, GateNoCookie, GateCompare,
           GateUnreachable
  <2> QED
    BY <2>1, DestroyCookieType, TouchCookieType DEF cookies, CookiesOK
<1>3. ControlOK' /\ SessionOK'
  <2>1. \/ UNCHANGED session
           /\ (Proceed(d) \/ Finish(d) \/ Goto(d, "recPull") \/ Goto(d, "fastPull"))
        \/ Reauth(d)
    BY DEF Gate, GateNothingStaged, GateExpired, GateNoCookie, GateCompare,
           GateUnreachable
  <2>2. CASE Reauth(d)
    BY <2>2, ReauthType
  <2>3. CASE UNCHANGED session /\ (Proceed(d) \/ Finish(d))
    BY <2>3, ProceedType, FinishType DEF SessionOK
  <2>4. CASE /\ UNCHANGED session
             /\ Goto(d, "recPull") \/ Goto(d, "fastPull")
    BY <2>4, GotoType DEF SessionOK, Steps
  <2> QED
    BY <2>1, <2>2, <2>3, <2>4
<1> QED
  BY <1>1, <1>2, <1>3

LEMMA PullType ==
  ASSUME TypeOK, NEW d \in Device, Pull(d)
  PROVE  TypeOK'
<1> USE DEF TypeOK
<1>1. SessionOK' /\ BlobOK' /\ FactsOK'
  BY DEF Pull, FastPull, ReconcilePull, ReconcileKeyMismatch,
         ReconcileUnreachable, facts, SessionOK, BlobOK, FactsOK
<1>2. FilesOK'
  <2>1. UNCHANGED files \/ PullMerges(d)
    BY DEF Pull, FastPull, ReconcilePull, ReconcileKeyMismatch,
           ReconcileUnreachable, PullLeavesStaging
  <2> QED
    BY <2>1, PullMergesType DEF files, FilesOK
<1>3. CookiesOK'
  <2>1. UNCHANGED cookies \/ TouchCookie(d)
    BY DEF Pull, FastPull, ReconcilePull, ReconcileKeyMismatch,
           ReconcileUnreachable
  <2> QED
    BY <2>1, TouchCookieType DEF cookies, CookiesOK
<1>4. ControlOK'
  <2>1. Proceed(d) \/ Finish(d) \/ Goto(d, "fastPush") \/ Goto(d, "recPush")
    BY DEF Pull, FastPull, ReconcilePull, ReconcileKeyMismatch,
           ReconcileUnreachable
  <2> QED
    BY <2>1, ProceedType, FinishType, GotoType DEF Steps, Pushing
<1> QED
  BY <1>1, <1>2, <1>3, <1>4

LEMMA PushType ==
  ASSUME TypeOK, NEW d \in Device, Push(d)
  PROVE  TypeOK'
<1> USE DEF TypeOK
<1>1. SessionOK' /\ FactsOK'
  BY DEF Push, PushBlob, PushBlobFails, ClaimCookie, facts, SessionOK, FactsOK
<1>2. FilesOK'
  BY DEF Push, PushBlob, PushBlobFails, ClaimCookie, files, FilesOK
<1>3. BlobOK'
  <2>1. blob' \in {blob, Blob(local[d])}
    BY DEF Push, PushBlob, PushBlobFails, ClaimCookie
  <2> QED
    BY <2>1, BlobType
<1>4. CookiesOK'
  <2>1. CASE PushBlob(d) \/ PushBlobFails(d)
    <3>1. UNCHANGED cookies \/ TouchCookie(d)
      BY <2>1 DEF PushBlob, PushBlobFails
    <3> QED
      BY <3>1, TouchCookieType DEF cookies, CookiesOK
  <2>2. CASE ClaimCookie(d)
    BY <2>2, DeviceAssumption DEF ClaimCookie, CookiesOK, Orphaned
  <2> QED
    BY <2>1, <2>2 DEF Push
<1>5. ControlOK'
  <2>1. \/ Proceed(d) \/ Finish(d) \/ Goto(d, "gate") \/ Goto(d, "walCookie")
        \/ Goto(d, "recCookie") \/ Goto(d, "syncCookie")
    BY DEF Push, PushBlob, PushBlobFails, ClaimCookie
  <2> QED
    BY <2>1, ProceedType, FinishType, GotoType DEF Steps, Claiming
<1> QED
  BY <1>1, <1>2, <1>3, <1>4, <1>5

LEMMA LocalWorkType ==
  ASSUME TypeOK, NEW d \in Device, LocalWork(d)
  PROVE  TypeOK'
<1> USE DEF TypeOK
<1>1. SessionOK' /\ BlobOK'
  BY DEF LocalWork, Capture, ChangeActive, NothingToDo, LegacyCommandRaises,
         WriteWal, SessionOK, BlobOK
<1>2. FactsOK'
  BY DEF LocalWork, Capture, ChangeActive, NothingToDo, LegacyCommandRaises,
         WriteWal, facts, FactsOK
<1>3. ASSUME NEW e \in Entry, NEW from, NEW to \in Status, Change(d, e, from, to)
      PROVE  FilesOK'
  <2>1. [local[d] EXCEPT ![e] = to] \in Content
    BY DEF FilesOK, Content
  <2> QED
    BY <1>3, <2>1, RewriteType DEF Change
<1>4. FilesOK'
  BY <1>3
     DEF LocalWork, Capture, ChangeActive, NothingToDo, LegacyCommandRaises,
         WriteWal, files, FilesOK, Status
<1>5. CookiesOK'
  <2>1. UNCHANGED cookies \/ TouchCookie(d)
    BY DEF LocalWork, Capture, ChangeActive, NothingToDo, LegacyCommandRaises,
           WriteWal
  <2> QED
    BY <2>1, TouchCookieType DEF cookies, CookiesOK
<1>6. ControlOK'
  <2>1. Finish(d) \/ Goto(d, "walWrite")
    BY DEF LocalWork, Capture, ChangeActive, NothingToDo, LegacyCommandRaises,
           WriteWal
  <2> QED
    BY <2>1, FinishType, GotoType DEF Steps
<1> QED
  BY <1>1, <1>2, <1>4, <1>5, <1>6

LEMMA SyncType ==
  ASSUME TypeOK, NEW d \in Device, Sync(d)
  PROVE  TypeOK'
<1> USE DEF TypeOK
<1>1. SessionOK' /\ BlobOK'
  BY DEF Sync, CommitEntries, MarkEntries, CommitNothing, DropCommitted,
         DropMarked, SessionOK, BlobOK
<1>2. CookiesOK'
  <2>1. UNCHANGED cookies \/ TouchCookie(d)
    BY DEF Sync, CommitEntries, MarkEntries, CommitNothing, DropCommitted,
           DropMarked
  <2> QED
    BY <2>1, TouchCookieType DEF cookies, CookiesOK
<1>3. FilesOK'
  <2>1. UNCHANGED files \/ \E gone : Rewrite(d, Without(local[d], gone))
    BY DEF Sync, CommitEntries, MarkEntries, CommitNothing, DropCommitted,
           DropMarked
  <2>2. local[d] \in Content
    BY DEF FilesOK
  <2> QED
    BY <2>1, <2>2, WithoutIsContent, RewriteType DEF files, FilesOK
<1>4. FactsOK'
  BY DEF Sync, CommitEntries, MarkEntries, CommitNothing, DropCommitted,
         DropMarked, facts, FactsOK, Ended
<1>5. ControlOK'
  <2>1. CASE CommitEntries(d)
    <3>1. PICK chosen \in SUBSET Ended(d), unwanted \in SUBSET Ended(d) :
            /\ pending' = [pending EXCEPT ![d] = chosen]
            /\ marked' = [marked EXCEPT ![d] =
                            {Position(local[d], e) : e \in unwanted}]
      BY <2>1 DEF CommitEntries
    <3>2. {Position(local[d], e) : e \in unwanted} \in SUBSET Nat
      BY PositionIsNat DEF Ended
    <3> QED
      BY <2>1, <3>1, <3>2 DEF CommitEntries, ControlOK, Steps, Ended
  <2>2. CASE MarkEntries(d)
    <3>1. PICK unwanted \in SUBSET Ended(d) :
            marked' = [marked EXCEPT ![d] =
                        {Position(local[d], e) : e \in unwanted}]
      BY <2>2 DEF MarkEntries
    <3>2. {Position(local[d], e) : e \in unwanted} \in SUBSET Nat
      BY PositionIsNat DEF Ended
    <3> QED
      BY <2>2, <3>1, <3>2 DEF MarkEntries, ControlOK, Steps
  <2>3. CASE CommitNothing(d)
    BY <2>3, FinishType DEF CommitNothing
  <2>4. CASE DropCommitted(d) \/ DropMarked(d)
    <3>1. Goto(d, "syncPush") \/ Goto(d, "dropMarked")
      BY <2>4 DEF DropCommitted, DropMarked
    <3> QED
      BY <3>1, GotoType DEF Steps, Pushing
  <2> QED
    BY <2>1, <2>2, <2>3, <2>4 DEF Sync
<1> QED
  BY <1>1, <1>2, <1>3, <1>4, <1>5

LEMMA MishapType ==
  ASSUME TypeOK, NEW d \in Device, Mishap(d)
  PROVE  TypeOK'
<1> USE DEF TypeOK
<1>1. CASE Crash(d)
  <2>1. CookiesOK'
    BY <1>1, DestroyCookieType DEF Crash, cookies, CookiesOK
  <2> QED
    BY <1>1, <2>1, FinishType
       DEF Crash, files, facts, FilesOK, SessionOK, BlobOK, FactsOK
<1>2. CASE ExpireCookie(d) \/ AgeWal(d)
  BY <1>2
     DEF ExpireCookie, AgeWal, files, cookies, control, facts, FilesOK,
         CookiesOK, ControlOK, SessionOK, BlobOK, FactsOK
<1> QED
  BY <1>1, <1>2 DEF Mishap

LEMMA ForeignWriteType ==
  ASSUME TypeOK, ForeignWrite
  PROVE  TypeOK'
BY EmptyContentIsContent, DeviceAssumption
   DEF ForeignWrite, ForeignBlob, files, control, facts, TypeOK, FilesOK,
       CookiesOK, ControlOK, SessionOK, BlobOK, FactsOK

LEMMA StutterType ==
  ASSUME TypeOK, UNCHANGED vars
  PROVE  TypeOK'
BY DEF TypeOK, vars, files, cookies, control, facts, FilesOK, CookiesOK,
       ControlOK, SessionOK, BlobOK, FactsOK

\* Type correctness of the staging client for any number of devices, entries,
\* commands and faults.
THEOREM TypeCorrectness == Spec => []TypeOK
<1>1. ASSUME TypeOK, [Next]_vars
      PROVE  TypeOK'
  <2>1. ASSUME NEW d \in Device,
               \/ Start(d) \/ Gate(d) \/ Pull(d) \/ Push(d)
               \/ LocalWork(d) \/ Sync(d) \/ Mishap(d)
        PROVE  TypeOK'
    BY <1>1, <2>1, StartType, GateType, PullType, PushType, LocalWorkType,
       SyncType, MishapType
  <2>2. CASE ForeignWrite
    BY <1>1, <2>2, ForeignWriteType
  <2> QED
    BY <1>1, <2>1, <2>2, StutterType DEF Next
<1> QED
  BY InitType, <1>1, PTL DEF Spec

-----------------------------------------------------------------------------
(***************************************************************************)
(* What is claimed has been pushed.                                        *)
(***************************************************************************)
\* Between the push of the blob and the push of the cookie the staging file
\* stays as it was pushed: nothing but the device's own command writes it.
ClaimsClean == \A d \in Device : pc[d] \in Claiming => ~dirty[d]

LEMMA ClaimsCleanStep ==
  ASSUME TypeOK, ClaimsClean, [Next]_vars
  PROVE  ClaimsClean'
<1> USE DEF TypeOK, FilesOK, ControlOK
<1>1. ASSUME NEW d \in Device, Goto(d, "recPull") \/ Goto(d, "fastPull")
                \/ Goto(d, "fastPush") \/ Goto(d, "recPush")
                \/ Goto(d, "gate") \/ Goto(d, "act") \/ Goto(d, "walWrite")
                \/ Goto(d, "syncPush") \/ Goto(d, "dropMarked")
      PROVE  pc' \in [Device -> Steps] /\ pc'[d] \notin Claiming
                /\ \A o \in Device \ {d} : pc'[o] = pc[o]
  BY <1>1 DEF Goto, Claiming, Steps, Pushing
<1>2. ASSUME NEW d \in Device, Finish(d) \/ Proceed(d) \/ Reauth(d)
      PROVE  /\ pc'[d] \notin Claiming
             /\ \A o \in Device \ {d} : pc'[o] = pc[o]
  BY <1>2 DEF Finish, Proceed, Reauth, Goto, Claiming
<1>3. ASSUME NEW d \in Device, NEW content, Rewrite(d, content)
      PROVE  \A o \in Device \ {d} : dirty'[o] = dirty[o]
  BY <1>3 DEF Rewrite
<1> DEFINE Harmless(d) ==
      /\ pc'[d] \in Claiming => pc[d] \in Claiming /\ dirty'[d] = dirty[d]
      /\ \A o \in Device \ {d} : pc'[o] = pc[o] /\ dirty'[o] = dirty[o]
<1>4. ASSUME NEW d \in Device, Harmless(d)
      PROVE  ClaimsClean'
  BY <1>4 DEF ClaimsClean
<1> HIDE DEF Harmless
<1>5. ASSUME NEW d \in Device, Start(d)
      PROVE  ClaimsClean'
  <2>1. Harmless(d)
    BY <1>5 DEF Harmless, Start, StartCommand, ReplaySkips, ReplayPushes, Login,
                Logout, files, control, Claiming
  <2> QED
    BY <2>1, <1>4
<1>6. ASSUME NEW d \in Device, Gate(d)
      PROVE  ClaimsClean'
  <2>1. /\ UNCHANGED files
        /\ Goto(d, "recPull") \/ Goto(d, "fastPull") \/ Finish(d) \/ Proceed(d)
             \/ Reauth(d)
    BY <1>6 DEF Gate, GateNothingStaged, GateExpired, GateNoCookie, GateCompare,
                GateUnreachable
  <2>2. Harmless(d)
    BY <2>1, <1>1, <1>2 DEF Harmless, files
  <2> QED
    BY <2>2, <1>4
<1>7. ASSUME NEW d \in Device, Pull(d)
      PROVE  ClaimsClean'
  <2>1. /\ UNCHANGED files \/ \E content : Rewrite(d, content)
        /\ Goto(d, "fastPush") \/ Goto(d, "recPush") \/ Finish(d) \/ Proceed(d)
    BY <1>7 DEF Pull, FastPull, ReconcilePull, ReconcileKeyMismatch,
                ReconcileUnreachable, PullMerges, PullLeavesStaging
  <2>2. Harmless(d)
    BY <2>1, <1>1, <1>2, <1>3 DEF Harmless, files
  <2> QED
    BY <2>2, <1>4
<1>8. ASSUME NEW d \in Device, Push(d)
      PROVE  ClaimsClean'
  <2>1. CASE PushBlob(d)
    <3>1. ~dirty'[d] /\ \A o \in Device \ {d} : dirty'[o] = dirty[o]
      BY <2>1 DEF PushBlob
    <3>2. \A o \in Device \ {d} : pc'[o] = pc[o]
      BY <2>1, <1>2 DEF PushBlob, Goto
    <3> QED
      BY <3>1, <3>2 DEF ClaimsClean
  <2>2. CASE PushBlobFails(d) \/ ClaimCookie(d)
    <3>1. /\ dirty' = dirty
          /\ Goto(d, "gate") \/ Finish(d) \/ Proceed(d)
      BY <2>2 DEF PushBlobFails, ClaimCookie, files
    <3>2. Harmless(d)
      BY <3>1, <1>1, <1>2 DEF Harmless
    <3> QED
      BY <3>2, <1>4
  <2> QED
    BY <1>8, <2>1, <2>2 DEF Push
<1>9. ASSUME NEW d \in Device, LocalWork(d)
      PROVE  ClaimsClean'
  <2>1. /\ dirty' = dirty \/ \E content : Rewrite(d, content)
        /\ Goto(d, "walWrite") \/ Finish(d)
    BY <1>9 DEF LocalWork, Capture, ChangeActive, NothingToDo,
                LegacyCommandRaises, WriteWal, Change, files
  <2>2. Harmless(d)
    BY <2>1, <1>1, <1>2, <1>3 DEF Harmless
  <2> QED
    BY <2>2, <1>4
<1>10. ASSUME NEW d \in Device, Sync(d)
       PROVE  ClaimsClean'
  <2>1. CASE CommitEntries(d) \/ MarkEntries(d)
    <3>1. Harmless(d)
      BY <2>1 DEF CommitEntries, MarkEntries, files, Harmless, Claiming
    <3> QED
      BY <3>1, <1>4
  <2>2. CASE CommitNothing(d) \/ DropCommitted(d) \/ DropMarked(d)
    <3>1. /\ dirty' = dirty \/ \E content : Rewrite(d, content)
          /\ Goto(d, "syncPush") \/ Goto(d, "dropMarked") \/ Finish(d)
      BY <2>2 DEF CommitNothing, DropCommitted, DropMarked, files
    <3>2. Harmless(d)
      BY <3>1, <1>1, <1>2, <1>3 DEF Harmless
    <3> QED
      BY <3>2, <1>4
  <2> QED
    BY <1>10, <2>1, <2>2 DEF Sync
<1>11. ASSUME NEW d \in Device, Mishap(d)
       PROVE  ClaimsClean'
  <2>1. /\ dirty' = dirty
        /\ Finish(d) \/ pc' = pc
    BY <1>11 DEF Mishap, Crash, ExpireCookie, AgeWal, files, control
  <2>2. Harmless(d)
    BY <2>1, <1>2 DEF Harmless
  <2> QED
    BY <2>2, <1>4
<1>12. CASE ForeignWrite \/ UNCHANGED vars
  BY <1>12 DEF ForeignWrite, vars, files, control, ClaimsClean
<1> QED
  BY <1>5, <1>6, <1>7, <1>8, <1>9, <1>10, <1>11, <1>12 DEF Next

LEMMA ClaimsCleanInvariant == Spec => [](TypeOK /\ ClaimsClean)
<1>1. Init => ClaimsClean
  BY DEF Init, ClaimsClean, Claiming
<1>2. TypeOK /\ ClaimsClean /\ [Next]_vars => ClaimsClean'
  BY ClaimsCleanStep
<1> QED
  BY <1>1, <1>2, TypeCorrectness, PTL DEF Spec

\* Only a device that is claiming brings the remote cookie to a new device, and
\* it names itself.
LEMMA CookieMoves ==
  ASSUME TypeOK, [Next]_vars
  PROVE  \/ rcookie' \in {rcookie, "orphan"}
         \/ \E d \in Device :
              rcookie' = d /\ pc[d] \in Claiming /\ UNCHANGED dirty
<1>1. ASSUME NEW d \in Device, DestroyCookie(d) \/ TouchCookie(d) \/ UNCHANGED cookies
      PROVE  rcookie' \in {rcookie, "orphan"}
  BY <1>1 DEF DestroyCookie, Orphaned, TouchCookie, cookies
<1>2. ASSUME NEW d \in Device, Start(d) \/ Gate(d) \/ Pull(d)
      PROVE  rcookie' \in {rcookie, "orphan"}
  <2>1. DestroyCookie(d) \/ TouchCookie(d) \/ UNCHANGED cookies
    BY <1>2
       DEF Start, StartCommand, Login, Logout, Gate, GateNothingStaged,
           GateExpired, GateNoCookie, GateCompare, GateUnreachable, Pull, FastPull,
           ReconcilePull, ReconcileKeyMismatch, ReconcileUnreachable
  <2> QED
    BY <1>1, <2>1
<1>3. ASSUME NEW d \in Device, PushBlob(d) \/ PushBlobFails(d) \/ LocalWork(d)
      PROVE  rcookie' \in {rcookie, "orphan"}
  <2>1. TouchCookie(d) \/ UNCHANGED cookies
    BY <1>3
       DEF PushBlob, PushBlobFails, LocalWork, Capture, ChangeActive,
           NothingToDo, LegacyCommandRaises, WriteWal
  <2> QED
    BY <1>1, <2>1
<1>4. ASSUME NEW d \in Device, Sync(d) \/ Mishap(d)
      PROVE  rcookie' \in {rcookie, "orphan"}
  <2>1. CASE ExpireCookie(d)
    BY <2>1 DEF ExpireCookie
  <2>2. CASE Sync(d) \/ Crash(d) \/ AgeWal(d)
    <3>1. DestroyCookie(d) \/ TouchCookie(d) \/ UNCHANGED cookies
      BY <2>2 DEF Sync, CommitEntries, MarkEntries, CommitNothing, DropCommitted,
                  DropMarked, Crash, AgeWal
    <3> QED
      BY <1>1, <3>1
  <2> QED
    BY <1>4, <2>1, <2>2 DEF Mishap
<1>5. ASSUME NEW d \in Device, ClaimCookie(d)
      PROVE  \/ rcookie' \in {rcookie, "orphan"}
             \/ rcookie' = d /\ pc[d] \in Claiming /\ UNCHANGED dirty
  BY <1>5 DEF ClaimCookie, Orphaned
<1>6. CASE ForeignWrite \/ UNCHANGED vars
  BY <1>6 DEF ForeignWrite, vars, cookies
<1> QED
  BY <1>2, <1>3, <1>4, <1>5, <1>6 DEF Next, Push

\* For any number of devices, a remote cookie comes to name a device only when
\* the device has pushed what it has staged.
THEOREM ClaimsFollowPushes == Spec => ClaimFollowsPush
<1>1. ASSUME TypeOK, ClaimsClean, [Next]_vars, NEW d \in Device,
             rcookie # d, rcookie' = d
      PROVE  ~dirty[d] /\ ~dirty'[d]
  BY <1>1, CookieMoves, DeviceAssumption DEF ClaimsClean
<1>2. TypeOK /\ ClaimsClean /\ [Next]_vars
        => [\A d \in Device :
              (rcookie # d /\ rcookie' = d) => ~dirty[d] /\ ~dirty'[d]]_vars
  BY <1>1
<1> QED
  BY <1>2, ClaimsCleanInvariant, PTL DEF Spec, ClaimFollowsPush

\* A stale WAL survives every step but the one that follows its own push: it is
\* cleared only with nothing left to push.
THEOREM StaleWalSurvives == Spec => ReplayKeepsWal
<1> DEFINE Kept(d) == \A o \in Device :
      wal[o] = "stale" /\ wal'[o] = "none" => o = d /\ pc[d] \in Claiming /\ UNCHANGED dirty
<1>1. ASSUME TypeOK, NEW d \in Device, Start(d) \/ Gate(d)
      PROVE  Kept(d)
  BY <1>1
     DEF TypeOK, FilesOK, Start, StartCommand, ReplaySkips, ReplayPushes, Login,
         Logout, Gate, GateNothingStaged, GateExpired, GateNoCookie, GateCompare,
         GateUnreachable, files
<1>2. ASSUME TypeOK, NEW d \in Device, NEW content, Rewrite(d, content)
      PROVE  Kept(d)
  BY <1>2 DEF Rewrite, TypeOK, FilesOK
<1>3. ASSUME TypeOK, NEW d \in Device, Pull(d) \/ LocalWork(d) \/ Sync(d)
      PROVE  Kept(d)
  <2>1. UNCHANGED wal \/ (\E content : Rewrite(d, content)) \/ WriteWal(d)
    BY <1>3
       DEF Pull, FastPull, ReconcilePull, ReconcileKeyMismatch,
           ReconcileUnreachable, PullMerges, PullLeavesStaging, LocalWork,
           Capture, ChangeActive, NothingToDo, LegacyCommandRaises, Change, Sync,
           CommitEntries, MarkEntries, CommitNothing, DropCommitted, DropMarked,
           files
  <2> QED
    BY <1>2, <1>3, <2>1 DEF WriteWal, TypeOK, FilesOK
<1>4. ASSUME TypeOK, NEW d \in Device, Push(d) \/ Mishap(d)
      PROVE  Kept(d)
  BY <1>4
     DEF TypeOK, FilesOK, Push, PushBlob, PushBlobFails, ClaimCookie, Mishap,
         Crash, ExpireCookie, AgeWal, files, Claiming
<1>5. ASSUME TypeOK, ClaimsClean, [Next]_vars, NEW d \in Device,
             wal[d] = "stale", wal'[d] = "none"
      PROVE  ~dirty[d]
  <2>1. CASE ForeignWrite \/ UNCHANGED vars
    BY <1>5, <2>1 DEF ForeignWrite, vars, files
  <2> QED
    BY <1>1, <1>3, <1>4, <1>5, <2>1 DEF Next, ClaimsClean
<1>6. TypeOK /\ ClaimsClean /\ [Next]_vars
        => [\A d \in Device :
              (wal[d] = "stale" /\ wal'[d] = "none") => ~dirty[d]]_vars
  BY <1>5
<1> QED
  BY <1>6, ClaimsCleanInvariant, PTL DEF Spec, ReplayKeepsWal

-----------------------------------------------------------------------------
(***************************************************************************)
(* What a step of device d does to its staging and to the blob, and to the *)
(* control of the others: the four theorems that follow rest on it.        *)
(***************************************************************************)
Step(d) == \/ Start(d) \/ Gate(d) \/ Pull(d) \/ Push(d)
           \/ LocalWork(d) \/ Sync(d) \/ Mishap(d)

\* Rewriting what stays empty is no change.
LEMMA RewriteChanges ==
  ASSUME FilesOK, NEW d \in Device, NEW content \in Content, Rewrite(d, content)
  PROVE  dirty'[d] \/ (local'[d] = local[d] /\ dirty'[d] = dirty[d])
<1>1. local[d] \in Content
  BY DEF FilesOK
<1>2. Present(content) \cup Present(local[d]) # {} \/ content = local[d]
  BY <1>1 DEF Present, Content
<1> QED
  BY <1>2 DEF Rewrite, FilesOK

LEMMA StagingStep ==
  ASSUME TypeOK, NEW d \in Device, Step(d)
  PROVE  \/ UNCHANGED <<local, dirty, blob>>
         \/ (\E content \in Content : Rewrite(d, content)) /\ UNCHANGED blob
         \/ PushBlob(d) \/ PushBlobFails(d)
<1> USE DEF TypeOK
<1>1. local[d] \in Content
  BY DEF FilesOK
<1>2. CASE Start(d) \/ Gate(d) \/ Mishap(d)
  BY <1>2 DEF Start, StartCommand, Login, Logout, Gate, GateNothingStaged,
              GateExpired, GateNoCookie, GateCompare, GateUnreachable, Mishap,
              Crash, ExpireCookie, AgeWal, files
<1>3. CASE Pull(d)
  <2>1. UNCHANGED blob /\ (UNCHANGED files \/ PullMerges(d))
    BY <1>3 DEF Pull, FastPull, ReconcilePull, ReconcileKeyMismatch,
                ReconcileUnreachable, PullLeavesStaging
  <2>2. Merge(local[d], blob.entries) \in Content
    BY <1>1, MergeIsContent DEF BlobOK
  <2> QED BY <2>1, <2>2 DEF PullMerges, files
<1>4. CASE Push(d)
  BY <1>4 DEF Push, ClaimCookie
<1>5. CASE LocalWork(d)
  <2>1. ASSUME NEW e \in Entry, NEW from, NEW to \in Status, Change(d, e, from, to)
        PROVE  \E content \in Content : Rewrite(d, content)
    <3>1. [local[d] EXCEPT ![e] = to] \in Content
      BY <1>1 DEF Content
    <3> QED BY <2>1, <3>1 DEF Change
  <2> QED
    BY <1>5, <2>1 DEF LocalWork, Capture, ChangeActive, NothingToDo,
                      LegacyCommandRaises, WriteWal, files, Status
<1>6. CASE Sync(d)
  <2>1. \/ UNCHANGED <<local, dirty, blob>>
        \/ (\E gone : Rewrite(d, Without(local[d], gone))) /\ UNCHANGED blob
    BY <1>6 DEF Sync, CommitEntries, MarkEntries, CommitNothing, DropCommitted,
                DropMarked, files
  <2> QED BY <1>1, <2>1, WithoutIsContent
<1> QED BY <1>2, <1>3, <1>4, <1>5, <1>6 DEF Step

LEMMA OthersStay ==
  ASSUME TypeOK, NEW d \in Device, Step(d), NEW o \in Device \ {d}
  PROVE  local'[o] = local[o] /\ dirty'[o] = dirty[o] /\ pc'[o] = pc[o]
<1> USE DEF TypeOK, FilesOK, ControlOK
<1>1. local'[o] = local[o] /\ dirty'[o] = dirty[o]
  <2>1. \/ UNCHANGED <<local, dirty>>
        \/ \E content : Rewrite(d, content)
        \/ PushBlob(d) \/ PushBlobFails(d)
    BY StagingStep
  <2> QED BY <2>1 DEF Rewrite, PushBlob, PushBlobFails, files
<1>2. ASSUME Proceed(d) \/ Finish(d) \/ Reauth(d) \/ \E l : Goto(d, l)
      PROVE  pc'[o] = pc[o]
  BY <1>2 DEF Proceed, Finish, Reauth, Goto
<1>3. ASSUME Start(d) \/ Mishap(d) \/ CommitEntries(d) \/ MarkEntries(d)
      PROVE  pc'[o] = pc[o]
  BY <1>3, <1>2 DEF Start, StartCommand, ReplaySkips, ReplayPushes, Login, Logout,
                    Mishap, Crash, ExpireCookie, AgeWal, CommitEntries,
                    MarkEntries, control
<1>4. CASE Gate(d) \/ Pull(d) \/ Push(d)
  <2>1. Proceed(d) \/ Finish(d) \/ Reauth(d) \/ \E l : Goto(d, l)
    BY <1>4 DEF Gate, GateNothingStaged, GateExpired, GateNoCookie, GateCompare,
                GateUnreachable, Pull, FastPull, ReconcilePull,
                ReconcileKeyMismatch, ReconcileUnreachable, Push, PushBlob,
                PushBlobFails, ClaimCookie
  <2> QED BY <1>1, <1>2, <2>1
<1>5. CASE LocalWork(d) \/ CommitNothing(d) \/ DropCommitted(d) \/ DropMarked(d)
  <2>1. Finish(d) \/ \E l : Goto(d, l)
    BY <1>5 DEF LocalWork, Capture, ChangeActive, NothingToDo,
                LegacyCommandRaises, WriteWal, CommitNothing, DropCommitted,
                DropMarked
  <2> QED BY <1>1, <1>2, <2>1
<1> QED BY <1>1, <1>3, <1>4, <1>5 DEF Step, Sync

-----------------------------------------------------------------------------
(***************************************************************************)
(* A skipped push is redundant.                                            *)
(***************************************************************************)
\* One device whose remote no other identity writes: whenever its staging hash
\* is the last pushed one, the remote blob is what it has staged, whatever
\* fails (_push_on_fast_path of service.py skips the push then).
THEOREM SkipsAreRedundant ==
  ASSUME \A a, b \in Device : a = b, "foreign" \notin Faults
  PROVE  Spec => []SkippedPushIsRedundant
<1>1. ASSUME TypeOK, SkippedPushIsRedundant, NEW d \in Device, Step(d)
      PROVE  SkippedPushIsRedundant'
  <2>1. CASE UNCHANGED <<local, dirty, blob>>
    BY <1>1, <2>1 DEF SkippedPushIsRedundant
  <2>2. CASE (\E content \in Content : Rewrite(d, content)) /\ UNCHANGED blob
    <3>1. dirty'[d] \/ (local'[d] = local[d] /\ dirty'[d] = dirty[d])
      BY <1>1, <2>2, RewriteChanges DEF TypeOK
    <3> QED BY <1>1, <2>2, <3>1 DEF SkippedPushIsRedundant
  <2>3. CASE PushBlob(d)
    BY <1>1, <2>3 DEF PushBlob, SkippedPushIsRedundant
  <2>4. CASE PushBlobFails(d)
    BY <1>1, <2>4 DEF PushBlobFails, SkippedPushIsRedundant, files
  <2> QED BY <1>1, <2>1, <2>2, <2>3, <2>4, StagingStep
<1>2. TypeOK /\ SkippedPushIsRedundant /\ [Next]_vars => SkippedPushIsRedundant'
  <2>1. ~ForeignWrite
    BY DEF ForeignWrite
  <2>2. UNCHANGED vars /\ SkippedPushIsRedundant => SkippedPushIsRedundant'
    BY DEF vars, files, SkippedPushIsRedundant
  <2> QED BY <1>1, <2>1, <2>2 DEF Next, Step
<1>3. Init => SkippedPushIsRedundant
  BY DEF Init, SkippedPushIsRedundant
<1> QED BY <1>2, <1>3, TypeCorrectness, PTL DEF Spec

-----------------------------------------------------------------------------
(***************************************************************************)
(* Reconciling spares a foreign blob.                                      *)
(***************************************************************************)
\* Commands do not interleave with the writer of foreign blobs.
NoForeignToPush ==
  \A d \in Device : pc[d] = "recPush" => blob.kind # "foreign"

\* A device comes to push what it has reconciled with a blob it could decrypt.
LEMMA RecPushEntered ==
  ASSUME TypeOK, NEW d \in Device, Step(d), pc'[d] = "recPush"
  PROVE  blob' = blob /\ (pc[d] = "recPush" \/ blob.kind # "foreign")
<1> USE DEF TypeOK, ControlOK
<1>1. ASSUME Proceed(d) \/ Finish(d) \/ Reauth(d)
      PROVE  FALSE
  BY <1>1 DEF Proceed, Finish, Reauth, Goto
<1>2. CASE Start(d) \/ Mishap(d) \/ CommitEntries(d) \/ MarkEntries(d)
  <2>1. pc'[d] = pc[d] /\ blob' = blob
    BY <1>1, <1>2 DEF Start, StartCommand, ReplaySkips, ReplayPushes, Login,
                Logout, Mishap, Crash, ExpireCookie, AgeWal, CommitEntries,
                MarkEntries, control
  <2> QED BY <2>1
<1>3. CASE Gate(d)
  BY <1>1, <1>3 DEF Gate, GateNothingStaged, GateExpired, GateNoCookie,
                    GateCompare, GateUnreachable, Goto
<1>4. CASE Pull(d)
  BY <1>1, <1>4 DEF Pull, FastPull, ReconcilePull, ReconcileKeyMismatch,
                    ReconcileUnreachable, PullMerges, PullLeavesStaging, Goto
<1>5. CASE Push(d)
  BY <1>1, <1>5 DEF Push, PushBlob, PushBlobFails, ClaimCookie, Goto
<1>6. CASE LocalWork(d)
  BY <1>1, <1>6 DEF LocalWork, Capture, ChangeActive, NothingToDo,
                    LegacyCommandRaises, WriteWal, Goto
<1>7. CASE CommitNothing(d) \/ DropCommitted(d) \/ DropMarked(d)
  BY <1>1, <1>7 DEF CommitNothing, DropCommitted, DropMarked, Goto
<1> QED BY <1>2, <1>3, <1>4, <1>5, <1>6, <1>7 DEF Step, Sync

\* When commands run one at a time, a blob under another master key is never
\* replaced by what a device pushes after reconciling, for any devices and
\* whatever else fails (service.py:911-918, BLOB_KEY_MISMATCH).
THEOREM ReconcilingSparesForeign ==
  ASSUME Serial
  PROVE  Spec => ReconcileSparesForeign
<1>1. ASSUME TypeOK, NoForeignToPush, NEW d \in Device, Step(d)
      PROVE  NoForeignToPush'
  <2>1. \A o \in Device \ {d} : pc'[o] = pc[o]
    BY <1>1, OthersStay
  <2>2. blob' = blob \/ blob'.kind = "staging"
    <3>1. blob' = blob \/ PushBlob(d) \/ PushBlobFails(d)
      BY <1>1, StagingStep
    <3> QED BY <3>1 DEF PushBlob, PushBlobFails, Blob
  <2>3. pc'[d] = "recPush" => blob'.kind # "foreign"
    BY <1>1, RecPushEntered DEF NoForeignToPush
  <2> QED BY <1>1, <2>1, <2>2, <2>3 DEF NoForeignToPush
<1>2. TypeOK /\ NoForeignToPush /\ [Next]_vars => NoForeignToPush'
  <2>1. ForeignWrite => NoForeignToPush'
    BY DEF ForeignWrite, control, NoForeignToPush
  <2>2. UNCHANGED vars /\ NoForeignToPush => NoForeignToPush'
    BY DEF vars, control, NoForeignToPush
  <2> QED BY <1>1, <2>1, <2>2 DEF Next, Step
<1>3. Init => NoForeignToPush
  BY DEF Init, NoForeignToPush
<1>4. NoForeignToPush =>
        [(blob.kind = "foreign" /\ blob'.kind # "foreign")
           => \A d \in Device : pc[d] = "recPush" => pc'[d] = "recPush"]_vars
  BY DEF NoForeignToPush
<1> QED BY <1>2, <1>3, <1>4, TypeCorrectness, PTL DEF Spec, ReconcileSparesForeign

-----------------------------------------------------------------------------
(***************************************************************************)
(* The holder of the remote cookie is current.                             *)
(*                                                                         *)
(* When users run one command at a time, a device that pushes is either    *)
(* the holder, or about to claim the cookie (HolderOrClaimant): the fast   *)
(* path, the only push that does not end with a claim, runs for the holder *)
(* alone (FastHolds).                                                      *)
(***************************************************************************)
OneAtATime ==
  \A a, b \in Device : pc[a] # "idle" /\ pc[b] # "idle" => a = b

FastHolds ==
  \A d \in Device : pc[d] \in {"fastPull", "fastPush"} => rcookie = d

ClaimedIsBlob ==
  \A d \in Device : pc[d] \in Claiming => blob = Blob(local[d])

HolderOrClaimant ==
  \A d \in Device : rcookie = d /\ ~dirty[d]
    => \/ blob = Blob(local[d])
       \/ \E o \in Device \ {d} : pc[o] \in Claiming

HolderInv == OneAtATime /\ FastHolds /\ ClaimedIsBlob /\ HolderOrClaimant

\* Only the environment acts on a device while another one runs a command.
LEMMA OthersWait ==
  ASSUME Serial, NEW d \in Device, Step(d), pc[d] = "idle",
         NEW o \in Device, pc[o] # "idle"
  PROVE  ExpireCookie(d) \/ AgeWal(d)
<1>1. \A c : ~MayStart(d, c)
  BY DEF MayStart
<1> QED
  BY <1>1 DEF Step, Start, StartCommand, Login, Logout, Gate, GateNothingStaged,
       GateExpired, GateNoCookie, GateCompare, GateUnreachable, Pull, FastPull,
       ReconcilePull, ReconcileKeyMismatch, ReconcileUnreachable, Push, PushBlob,
       PushBlobFails, ClaimCookie, Pushing, Claiming, LocalWork, Capture,
       ChangeActive, NothingToDo, LegacyCommandRaises, WriteWal, Sync,
       CommitEntries, MarkEntries, CommitNothing, DropCommitted, DropMarked,
       Mishap, Crash

\* How a device comes to its fast path or to a claim.
LEMMA FastOrClaimEntered ==
  ASSUME TypeOK, NEW d \in Device, Step(d)
  PROVE  /\ pc'[d] \in {"fastPull", "fastPush"} =>
              rcookie' = rcookie /\ (rcookie = d \/ pc[d] = "fastPull" \/ pc'[d] = pc[d])
         /\ pc'[d] \in Claiming =>
              PushBlob(d) \/ (pc'[d] = pc[d] /\ UNCHANGED <<local, blob>>)
<1> USE DEF TypeOK, ControlOK
<1>1. ASSUME Proceed(d) \/ Finish(d) \/ Reauth(d)
      PROVE  pc'[d] \notin {"fastPull", "fastPush"} \cup Claiming
  BY <1>1 DEF Proceed, Finish, Reauth, Goto, Claiming
<1>2. CASE Start(d)
  <2>1. ASSUME NEW c \in Commands, StartCommand(d, c)
        PROVE  pc'[d] \notin {"fastPull", "fastPush"} \cup Claiming
    BY <2>1 DEF StartCommand, ReplaySkips, ReplayPushes, Claiming
  <2>2. ASSUME Login(d)
        PROVE  pc'[d] \notin {"fastPull", "fastPush"} \cup Claiming
    BY <2>2 DEF Login, Claiming
  <2>3. ASSUME Logout(d)
        PROVE  pc'[d] \notin {"fastPull", "fastPush"} \cup Claiming
    <3>1. pc[d] = "idle" /\ pc' = pc
      BY <2>3 DEF Logout, MayStart, control
    <3> QED BY <3>1 DEF Claiming
  <2> QED BY <1>2, <2>1, <2>2, <2>3 DEF Start
<1>3. CASE Mishap(d)
  BY <1>1, <1>3 DEF Mishap, Crash, ExpireCookie, AgeWal, Claiming, files, control,
                    cookies
<1>4. CASE CommitEntries(d) \/ MarkEntries(d)
  BY <1>4 DEF CommitEntries, MarkEntries, Claiming
<1>5. CASE Gate(d)
  BY <1>1, <1>5 DEF Gate, GateNothingStaged, GateExpired, GateNoCookie,
                    GateCompare, GateUnreachable, Goto, Claiming, cookies
<1>6. CASE Pull(d)
  BY <1>1, <1>6 DEF Pull, FastPull, ReconcilePull, ReconcileKeyMismatch,
                    ReconcileUnreachable, Goto, Claiming, cookies
<1>7. CASE Push(d)
  BY <1>1, <1>7 DEF Push, PushBlob, PushBlobFails, ClaimCookie, Goto, Claiming
<1>8. CASE LocalWork(d)
  BY <1>1, <1>8 DEF LocalWork, Capture, ChangeActive, NothingToDo,
                    LegacyCommandRaises, WriteWal, Goto, Claiming
<1>9. CASE CommitNothing(d) \/ DropCommitted(d) \/ DropMarked(d)
  BY <1>1, <1>9 DEF CommitNothing, DropCommitted, DropMarked, Goto, Claiming
<1> QED BY <1>2, <1>3, <1>4, <1>5, <1>6, <1>7, <1>8, <1>9 DEF Step, Sync

\* What follows the push of the blob, when nothing fails.
LEMMA ClaimFollows ==
  ASSUME NEW d \in Device, Step(d), pc[d] \in Claiming,
         Faults \cap {"network", "crash"} = {}
  PROVE  /\ UNCHANGED <<local, dirty, blob>>
         /\ ExpireCookie(d) \/ rcookie' = d
<1>1. ExpireCookie(d) \/ ClaimCookie(d)
  BY DEF Step, Start, StartCommand, Login, Logout, MayStart, Gate, GateNothingStaged,
       GateExpired, GateNoCookie, GateCompare, GateUnreachable, Pull, FastPull,
       ReconcilePull, ReconcileKeyMismatch, ReconcileUnreachable, Push, PushBlob,
       PushBlobFails, Pushing, Claiming, LocalWork, Capture,
       ChangeActive, NothingToDo, LegacyCommandRaises, WriteWal, Sync,
       CommitEntries, MarkEntries, CommitNothing, DropCommitted, DropMarked,
       Mishap, Crash, AgeWal
<1> QED BY <1>1 DEF ExpireCookie, ClaimCookie, files

LEMMA HolderStep ==
  ASSUME Serial, Faults \cap {"network", "crash"} = {},
         TypeOK, HolderInv, NEW d \in Device, Step(d)
  PROVE  HolderInv'
<1> USE DEF HolderInv
<1>1. CASE ExpireCookie(d) \/ AgeWal(d)
  <2>1. UNCHANGED <<local, dirty, blob, rcookie, pc>>
    BY <1>1 DEF ExpireCookie, AgeWal, files, cookies, control
  <2> QED
    BY <2>1 DEF OneAtATime, FastHolds, ClaimedIsBlob, HolderOrClaimant
<1>2. CASE ~(ExpireCookie(d) \/ AgeWal(d))
  <2>1. \A o \in Device \ {d} :
          /\ pc[o] = "idle" /\ pc'[o] = "idle"
          /\ local'[o] = local[o] /\ dirty'[o] = dirty[o]
    <3>1. \A o \in Device \ {d} : pc[o] = "idle"
      BY <1>2, OthersWait DEF OneAtATime
    <3> QED BY <3>1, OthersStay
  <2>2. "idle" \notin Claiming
    BY DEF Claiming
  <2>3. OneAtATime'
    BY <2>1 DEF OneAtATime
  <2>4. FastHolds'
    BY <2>1, FastOrClaimEntered DEF FastHolds
  <2>5. ClaimedIsBlob'
    <3>1. PushBlob(d) => blob' = Blob(local'[d])
      BY DEF PushBlob
    <3> QED BY <2>1, <2>2, <3>1, FastOrClaimEntered DEF ClaimedIsBlob
  <2>6. ~PushBlobFails(d)
    BY DEF PushBlobFails
  <2>7. [Next]_vars
    BY DEF Next, Step
  <2>8. ASSUME NEW h \in Device, rcookie' = h, ~dirty'[h], h = d
        PROVE  blob' = Blob(local'[h])
    <3>1. CASE rcookie = d
      <4>1. UNCHANGED <<local, dirty, blob>> => blob' = Blob(local'[h])
        BY <2>1, <2>2, <2>8, <3>1 DEF HolderOrClaimant
      <4>2. ASSUME NEW content \in Content, Rewrite(d, content), blob' = blob
            PROVE  blob' = Blob(local'[h])
        <5>1. local'[d] = local[d] /\ dirty'[d] = dirty[d]
          BY <2>8, <4>2, RewriteChanges DEF TypeOK
        <5> QED BY <2>1, <2>2, <2>8, <3>1, <4>2, <5>1 DEF HolderOrClaimant
      <4>3. PushBlob(d) => blob' = Blob(local'[h])
        BY <2>8 DEF PushBlob
      <4> QED BY <2>6, <4>1, <4>2, <4>3, StagingStep
    <3>2. CASE rcookie # d
      <4>1. pc[d] \in Claiming
        BY <2>7, <2>8, <3>2, CookieMoves, DeviceAssumption
      <4>2. UNCHANGED <<local, dirty, blob>>
        BY <4>1, ClaimFollows
      <4> QED BY <2>8, <4>1, <4>2 DEF ClaimedIsBlob
    <3> QED BY <3>1, <3>2
  <2>9. ASSUME NEW h \in Device, rcookie' = h, ~dirty'[h], h # d
        PROVE  blob' = Blob(local'[h]) \/ pc'[d] \in Claiming
    <3>1. rcookie = h
      BY <2>1, <2>2, <2>7, <2>9, CookieMoves, DeviceAssumption
    <3>2. ~dirty[h] /\ local'[h] = local[h]
      BY <2>1, <2>9
    <3>3. pc[d] \notin Claiming
      BY <1>2, <2>9, ClaimFollows
    <3>4. blob = Blob(local[h])
      BY <2>1, <2>2, <3>1, <3>2, <3>3 DEF HolderOrClaimant
    <3>5. blob' = blob \/ PushBlob(d)
      BY <2>6, StagingStep
    <3>6. CASE PushBlob(d)
      <4>1. pc[d] # "fastPush"
        BY <2>9, <3>1 DEF FastHolds
      <4> QED BY <3>6, <4>1 DEF PushBlob, Goto, Claiming, TypeOK, ControlOK
    <3> QED BY <3>2, <3>4, <3>5, <3>6
  <2>10. HolderOrClaimant'
    <3>1. \A h \in Device : rcookie' = h /\ ~dirty'[h] =>
            \/ blob' = Blob(local'[h])
            \/ h # d /\ pc'[d] \in Claiming
      BY <2>8, <2>9
    <3> QED BY <3>1 DEF HolderOrClaimant
  <2> QED BY <2>3, <2>4, <2>5, <2>10
<1> QED BY <1>1, <1>2

\* When users run one command at a time and neither the network nor a command
\* fails, the device the remote cookie names finds in the remote blob exactly
\* what it has staged, unless it has changed that since, for any devices: this
\* is what allows the fast path to push without a merge.
THEOREM HolderStaysCurrent ==
  ASSUME Serial, Faults \cap {"network", "crash", "foreign"} = {}
  PROVE  Spec => []HolderIsCurrent
<1>1. TypeOK /\ HolderInv /\ [Next]_vars => HolderInv'
  <2>1. ~ForeignWrite
    BY DEF ForeignWrite
  <2>2. UNCHANGED vars /\ HolderInv => HolderInv'
    BY DEF vars, files, cookies, control, HolderInv, OneAtATime, FastHolds,
           ClaimedIsBlob, HolderOrClaimant
  <2> QED BY <2>1, <2>2, HolderStep DEF Next, Step
<1>2. Init => HolderInv
  BY DEF Init, HolderInv, OneAtATime, FastHolds, ClaimedIsBlob, HolderOrClaimant,
         Claiming
<1>3. HolderInv => HolderIsCurrent
  BY DEF HolderInv, HolderOrClaimant, HolderIsCurrent, Claiming
<1> QED BY <1>1, <1>2, <1>3, TypeCorrectness, PTL DEF Spec

-----------------------------------------------------------------------------
(***************************************************************************)
(* No entry is committed twice.                                            *)
(*                                                                         *)
(* Staging and the blob may still hold what is in the ledger only until    *)
(* the sync that committed it has dropped it and pushed what is left; what *)
(* a gate pulls before the next commit holds nothing of it.                *)
(***************************************************************************)
CapturedOnly ==
  \A e \in Entry :
    commits[e] > 0 \/ blob.entries[e] # Absent \/ (\E d \in Device : local[d][e] # Absent)
      => e \in captured

CommittedGone ==
  \A d \in Device : \A e \in Entry : commits[e] > 0 =>
    /\ local[d][e] # Absent => pc[d] = "drop" /\ e \in pending[d]
    /\ blob.entries[e] # Absent => pc[d] \in {"drop", "dropMarked", "syncPush"}

CommitInv == NoDoubleCommit /\ CapturedOnly /\ CommittedGone

\* A step that leaves staging, blob and ledger alone, and does not leave a sync
\* that is about to drop or to push.
LEMMA QuietCommitInv ==
  ASSUME CommitInv, NEW d \in Device, \A a, b \in Device : a = b,
         UNCHANGED <<local, blob, commits, captured>>,
         \/ UNCHANGED <<pc, pending>>
         \/ pc[d] \notin {"drop", "dropMarked", "syncPush"}
  PROVE  CommitInv'
BY DEF CommitInv, NoDoubleCommit, CapturedOnly, CommittedGone

\* Staging comes to hold nothing that a blob did not hold, outside of a sync.
LEMMA MergingCommitInv ==
  ASSUME CommitInv, NEW d \in Device, \A a, b \in Device : a = b,
         UNCHANGED <<blob, commits, captured>>,
         pc[d] \notin {"drop", "dropMarked", "syncPush"},
         \A e \in Entry : local'[d][e] # Absent
                            => local[d][e] # Absent \/ blob.entries[e] # Absent
  PROVE  CommitInv'
BY DEF CommitInv, NoDoubleCommit, CapturedOnly, CommittedGone

LEMMA CommitStep ==
  ASSUME \A a, b \in Device : a = b, Faults \cap {"network", "crash"} = {},
         TypeOK, CommitInv, NEW d \in Device, Step(d)
  PROVE  CommitInv'
<1> USE DEF TypeOK
<1>1. local \in [Device -> Content] /\ blob.entries \in Content
      /\ commits \in [Entry -> 0..2] /\ pending \in [Device -> SUBSET Entry]
      /\ pc \in [Device -> Steps]
  BY DEF FilesOK, BlobOK, FactsOK, ControlOK
<1>2. CASE Start(d) \/ Gate(d)
  BY <1>2, QuietCommitInv
     DEF Start, StartCommand, Login, Logout, MayStart, Gate, GateNothingStaged,
         GateExpired, GateNoCookie, GateCompare, GateUnreachable, files, facts
<1>3. CASE Mishap(d)
  BY <1>3, QuietCommitInv
     DEF Mishap, Crash, ExpireCookie, AgeWal, files, control, facts
<1>4. CASE Pull(d)
  <2>1. /\ UNCHANGED <<blob, commits, captured>>
        /\ pc[d] \notin {"drop", "dropMarked", "syncPush"}
        /\ UNCHANGED local \/ local' = [local EXCEPT ![d] = Merge(local[d], blob.entries)]
    BY <1>4 DEF Pull, FastPull, ReconcilePull, ReconcileKeyMismatch,
                ReconcileUnreachable, PullMerges, PullLeavesStaging, Rewrite, files,
                facts
  <2>2. \A e \in Entry : local'[d][e] # Absent
                           => local[d][e] # Absent \/ blob.entries[e] # Absent
    BY <1>1, <2>1 DEF Merge
  <2> QED BY <2>1, <2>2, MergingCommitInv
<1>5. CASE Push(d)
  <2>1. CASE PushBlob(d)
    <3>1. UNCHANGED <<local, commits, captured>> /\ blob'.entries = local[d]
          /\ pc[d] \notin {"drop", "dropMarked"}
      BY <2>1 DEF PushBlob, Blob, Pushing, facts
    <3>2. \A e \in Entry : commits[e] > 0 => local[d][e] = Absent
      BY <3>1 DEF CommitInv, CommittedGone
    <3> QED
      BY <3>1, <3>2 DEF CommitInv, NoDoubleCommit, CapturedOnly, CommittedGone
  <2>2. CASE ClaimCookie(d)
    BY <2>2, QuietCommitInv DEF ClaimCookie, Claiming, facts
  <2>3. ~PushBlobFails(d)
    BY DEF PushBlobFails
  <2> QED BY <1>5, <2>1, <2>2, <2>3 DEF Push
<1>6. CASE LocalWork(d)
  <2>1. CASE NothingToDo(d) \/ LegacyCommandRaises(d) \/ WriteWal(d)
    BY <2>1, QuietCommitInv
       DEF NothingToDo, LegacyCommandRaises, WriteWal, files, facts
  <2>2. CASE ChangeActive(d)
    <3>1. PICK e \in Entry, to \in Status :
            local[d][e] \in Running /\ Rewrite(d, [local[d] EXCEPT ![e] = to])
      BY <2>2 DEF ChangeActive, Change, Status
    <3>2. local' = [local EXCEPT ![d] = [local[d] EXCEPT ![e] = to]]
      BY <3>1 DEF Rewrite
    <3>3. \A x \in Entry : local'[d][x] # Absent => local[d][x] # Absent
      BY <1>1, <3>1, <3>2 DEF Content, Running, Absent
    <3>4. UNCHANGED <<blob, commits, captured>> /\ pc[d] = "act"
      BY <2>2 DEF ChangeActive, facts
    <3> QED BY <3>3, <3>4, MergingCommitInv
  <2>3. CASE Capture(d)
    <3>1. PICK e \in Entry \ captured, to \in Status :
            /\ Rewrite(d, [local[d] EXCEPT ![e] = to])
            /\ captured' = captured \cup {e}
      BY <2>3 DEF Capture, Change, Status
    <3>2. local' = [local EXCEPT ![d] = [local[d] EXCEPT ![e] = to]]
      BY <3>1 DEF Rewrite
    <3>3. \A x \in Entry : local'[d][x] # Absent => local[d][x] # Absent \/ x = e
      BY <1>1, <3>2 DEF Content
    <3>4. UNCHANGED <<blob, commits>> /\ pc[d] = "act"
      BY <2>3 DEF Capture
    <3>5. ~(commits[e] > 0)
      BY <3>1 DEF CommitInv, CapturedOnly
    <3> QED
      BY <3>1, <3>3, <3>4, <3>5
         DEF CommitInv, NoDoubleCommit, CapturedOnly, CommittedGone
  <2> QED BY <1>6, <2>1, <2>2, <2>3 DEF LocalWork
<1>7. CASE Sync(d)
  <2>1. CASE MarkEntries(d) \/ CommitNothing(d)
    BY <2>1, QuietCommitInv DEF MarkEntries, CommitNothing, files, facts
  <2>2. CASE CommitEntries(d)
    <3>1. PICK chosen \in SUBSET Ended(d) :
            /\ pending' = [pending EXCEPT ![d] = chosen]
            /\ commits' = [e \in Entry |->
                 IF e \in chosen /\ commits[e] < 2 THEN commits[e] + 1 ELSE commits[e]]
      BY <2>2 DEF CommitEntries
    <3>2. UNCHANGED <<local, blob, captured>> /\ pc[d] = "act" /\ pc'[d] = "drop"
      BY <1>1, <2>2 DEF CommitEntries, files
    <3>3. \A e \in chosen : e \in Entry /\ local[d][e] = "ended"
      BY DEF Ended
    <3>4. \A e \in Entry : commits[e] > 0 => local[d][e] = Absent /\ blob.entries[e] = Absent
      BY <3>2 DEF CommitInv, CommittedGone
    <3>5. \A e \in chosen : commits[e] = 0
      BY <1>1, <3>3, <3>4 DEF Absent
    <3>6. /\ \A e \in chosen : commits'[e] = 1
          /\ \A e \in Entry \ chosen : commits'[e] = commits[e]
      BY <1>1, <3>1, <3>3, <3>5
    <3>7. NoDoubleCommit'
      BY <3>6 DEF CommitInv, NoDoubleCommit
    <3>8. CapturedOnly'
      <4>1. \A e \in chosen : e \in captured
        BY <3>3 DEF CommitInv, CapturedOnly, Absent
      <4> QED BY <3>2, <3>6, <4>1 DEF CommitInv, CapturedOnly
    <3>9. CommittedGone'
      <4>1. \A e \in Entry : commits'[e] > 0 /\ local[d][e] # Absent => e \in chosen
        BY <3>4, <3>6
      <4>2. pending'[d] = chosen
        BY <1>1, <3>1
      <4> QED BY <3>2, <4>1, <4>2 DEF CommittedGone
    <3> QED BY <3>7, <3>8, <3>9 DEF CommitInv
  <2>3. CASE DropCommitted(d)
    <3>1. /\ local' = [local EXCEPT ![d] = Without(local[d], pending[d])]
          /\ UNCHANGED <<blob, commits, captured>>
          /\ pc[d] = "drop" /\ pc'[d] \in {"syncPush", "dropMarked"}
      BY <1>1, <2>3 DEF DropCommitted, Rewrite, Goto, facts
    <3>2. \A e \in Entry : local'[d][e] # Absent => local[d][e] # Absent /\ e \notin pending[d]
      BY <1>1, <3>1 DEF Without
    <3> QED
      BY <3>1, <3>2 DEF CommitInv, NoDoubleCommit, CapturedOnly, CommittedGone
  <2>4. CASE DropMarked(d)
    <3>1. /\ \E gone : local' = [local EXCEPT ![d] = Without(local[d], gone)]
          /\ UNCHANGED <<blob, commits, captured>>
          /\ pc[d] = "dropMarked" /\ pc'[d] = "syncPush"
      BY <1>1, <2>4 DEF DropMarked, Rewrite, Goto, facts
    <3>2. \A e \in Entry : local'[d][e] # Absent => local[d][e] # Absent
      BY <1>1, <3>1 DEF Without
    <3> QED
      BY <3>1, <3>2 DEF CommitInv, NoDoubleCommit, CapturedOnly, CommittedGone
  <2> QED BY <1>7, <2>1, <2>2, <2>3, <2>4 DEF Sync
<1> QED BY <1>2, <1>3, <1>4, <1>5, <1>6, <1>7 DEF Step

\* One device whose commands run to their end and reach the store commits no
\* entry twice, whatever blobs appear, merges raise or cookies and WALs age: a
\* sync pushes what it has dropped before anything pulls the blob again.
THEOREM CommitsAtMostOnce ==
  ASSUME \A a, b \in Device : a = b, Faults \cap {"network", "crash"} = {}
  PROVE  Spec => []NoDoubleCommit
<1>1. TypeOK /\ CommitInv /\ [Next]_vars => CommitInv'
  <2>1. ForeignWrite /\ CommitInv => CommitInv'
    BY DEF ForeignWrite, ForeignBlob, EmptyContent, files, control, facts,
           CommitInv, NoDoubleCommit, CapturedOnly, CommittedGone
  <2>2. UNCHANGED vars /\ CommitInv => CommitInv'
    BY DEF vars, files, control, facts, CommitInv, NoDoubleCommit, CapturedOnly,
           CommittedGone
  <2> QED BY <2>1, <2>2, CommitStep DEF Next, Step
<1>2. Init => CommitInv
  BY DEF Init, NoBlob, EmptyContent, CommitInv, NoDoubleCommit, CapturedOnly,
         CommittedGone
<1>3. CommitInv => NoDoubleCommit
  BY DEF CommitInv
<1> QED BY <1>1, <1>2, <1>3, TypeCorrectness, PTL DEF Spec

-----------------------------------------------------------------------------
(***************************************************************************)
(* What the helpers do to the entries a content holds.                     *)
(***************************************************************************)
LEMMA MergeHolds ==
  ASSUME NEW mine \in Content, NEW theirs \in Content
  PROVE  Present(Merge(mine, theirs)) = Present(mine) \cup Present(theirs)
BY DEF Merge, Present, Content

LEMMA WithoutHolds ==
  ASSUME NEW content \in Content, NEW gone
  PROVE  Present(Without(content, gone)) = Present(content) \ gone
BY DEF Without, Present, Content

LEMMA ChangeHolds ==
  ASSUME NEW content \in Content, NEW e \in Entry, NEW to \in Status
  PROVE  Present([content EXCEPT ![e] = to]) = Present(content) \cup {e}
BY DEF Present, Content, Status, Absent

\* Two staged entries never share a position.
LEMMA PositionSeparates ==
  ASSUME NEW content, NEW e \in Present(content), NEW f \in Present(content),
         Position(content, e) = Position(content, f)
  PROVE  e = f
<1> DEFINE Before(x) == {y \in Present(content) : y < x}
<1>1. ASSUME NEW x \in Present(content), NEW y \in Present(content), x < y
      PROVE  Position(content, x) # Position(content, y)
  <2>1. ASSUME NEW z \in Before(y)
        PROVE  z \in 0..y
    BY EntryAssumption DEF Present, Before
  <2>2. y \in Nat /\ x \in Nat
    BY EntryAssumption DEF Present
  <2> HIDE DEF Before
  <2>3. IsFiniteSet(Before(y))
    <3>1. IsFiniteSet(0..y)
      BY <2>2, FS_Interval
    <3> QED
      BY <3>1, <2>1, FS_Subset
  <2>4. ASSUME NEW z \in Before(x)
        PROVE  z \in Before(y)
    BY <1>1, <2>2, EntryAssumption DEF Present, Before
  <2>5. x \in Before(y) /\ x \notin Before(x)
    BY <1>1, <2>2 DEF Before
  <2>6. Before(x) \subseteq Before(y) /\ Before(x) # Before(y)
    BY <2>4, <2>5
  <2>7. Cardinality(Before(x)) # Cardinality(Before(y))
    BY <2>3, <2>6, FS_Subset
  <2> QED
    BY <2>7 DEF Position, Before
<1>2. e \in Nat /\ f \in Nat
  BY EntryAssumption DEF Present
<1> QED
  BY <1>1, <1>2

-----------------------------------------------------------------------------
(***************************************************************************)
(* The invariant.                                                          *)
(***************************************************************************)
OnlyCaptured == Held \cup Settled \cup Present(blob.entries) \subseteq captured

AllHeld == captured \subseteq Held \cup Settled

CmdIssued == \A d \in Device : cmd[d] \in Commands \cup {"none"}

DropsSettled ==
  \A d \in Device :
    /\ pc[d] = "drop" => pending[d] \subseteq Settled /\ marked[d] = {}
    /\ pc[d] = "dropMarked" =>
         \A e \in Present(local[d]) :
           Position(local[d], e) \in marked[d] => e \in Settled

InCustody == OnlyCaptured /\ AllHeld /\ CmdIssued /\ DropsSettled

LEMMA InitInCustody == Init => InCustody
<1>1. Present(EmptyContent) = {}
  BY DEF Present, EmptyContent
<1> QED
  BY <1>1 DEF Init, InCustody, OnlyCaptured, AllHeld, CmdIssued, DropsSettled,
              Held, Settled, NoBlob

-----------------------------------------------------------------------------
(***************************************************************************)
(* Steps that keep what is held.                                           *)
(***************************************************************************)
\* The control of d moves, but not to a place where sync drops entries.
Moves(d) ==
  /\ pc'[d] \notin {"drop", "dropMarked"}
  /\ cmd'[d] \in {cmd[d], "none"} \cup Commands
  /\ \A o \in Device \ {d} :
       /\ pc'[o] = pc[o] /\ cmd'[o] = cmd[o]
       /\ pending'[o] = pending[o] /\ marked'[o] = marked[o]

\* Device d may take entries from the remote blob and may replace that blob.
Keeps(d) ==
  /\ Moves(d) \/ UNCHANGED <<local, pc, cmd, pending, marked>>
  /\ \A o \in Device \ {d} : local'[o] = local[o]
  /\ Present(local[d]) \subseteq Present(local'[d])
  /\ Present(local'[d]) \subseteq Present(local[d]) \cup Present(blob.entries)
  /\ blob' \in {blob, Blob(local[d])}
  /\ UNCHANGED facts

LEMMA KeepsCustody ==
  ASSUME InCustody, NEW d \in Device, Keeps(d)
  PROVE  InCustody' /\ Custody!Settle
<1>1. Settled' = Settled /\ captured' = captured
  BY DEF Keeps, facts, Settled
<1>2. Held \subseteq Held' /\ Held' \subseteq Held \cup Present(blob.entries)
  BY DEF Keeps, Held, Present
<1>3. Present(blob'.entries) \subseteq Held \cup Present(blob.entries)
  BY DEF Keeps, Blob, Held, Present
<1>4. OnlyCaptured' /\ AllHeld'
  BY <1>1, <1>2, <1>3 DEF InCustody, OnlyCaptured, AllHeld
<1>5. CmdIssued'
  BY DEF InCustody, CmdIssued, Keeps, Moves
<1>6. DropsSettled'
  BY <1>1 DEF InCustody, DropsSettled, Keeps, Moves
<1>7. Custody!Settle
  BY <1>1, <1>2, <1>4 DEF Custody!Settle, InCustody, OnlyCaptured, AllHeld
<1> QED
  BY <1>4, <1>5, <1>6, <1>7 DEF InCustody

\* Control operators and file operators, as Moves and Keeps need them.
LEMMA ControlMoves ==
  ASSUME TypeOK, NEW d \in Device,
         \/ Finish(d) \/ Proceed(d) \/ Reauth(d)
         \/ \E l \in Steps \ {"drop", "dropMarked"} : Goto(d, l)
  PROVE  Moves(d)
<1> USE DEF TypeOK, ControlOK
<1>1. CASE Finish(d) \/ \E l \in Steps \ {"drop", "dropMarked"} : Goto(d, l)
  BY <1>1 DEF Finish, Goto, Moves
<1>2. CASE Proceed(d)
  BY <1>2 DEF Proceed, Finish, Goto, Moves
<1>3. CASE Reauth(d)
  BY <1>3 DEF Reauth, Finish, Goto, Moves
<1> QED
  BY <1>1, <1>2, <1>3

\* What a step writes to the staging file of d: nothing, or some content.
LEMMA Rewrites ==
  ASSUME TypeOK, NEW d \in Device, NEW content \in Content, Rewrite(d, content)
  PROVE  /\ local'[d] = content
         /\ \A o \in Device \ {d} : local'[o] = local[o]
BY DEF Rewrite, TypeOK, FilesOK

LEMMA StartKeeps ==
  ASSUME TypeOK, NEW d \in Device, Start(d)
  PROVE  Keeps(d)
<1> USE DEF TypeOK, ControlOK
<1>1. ASSUME NEW c \in Commands, StartCommand(d, c)
      PROVE  Moves(d)
  BY <1>1 DEF StartCommand, ReplaySkips, ReplayPushes, Moves
<1>2. ASSUME Login(d)
      PROVE  Moves(d)
  BY <1>2 DEF Login, MayStart, Moves
<1>3. Moves(d) \/ UNCHANGED <<local, pc, cmd, pending, marked>>
  BY <1>1, <1>2 DEF Start, Logout, files, control
<1>4. UNCHANGED <<local, blob, facts>>
  BY DEF Start, StartCommand, Login, Logout, files
<1> QED
  BY <1>3, <1>4 DEF Keeps

LEMMA GateKeeps ==
  ASSUME TypeOK, NEW d \in Device, Gate(d)
  PROVE  Keeps(d)
<1>1. /\ UNCHANGED <<local, blob, facts>>
      /\ \/ Goto(d, "recPull") \/ Goto(d, "fastPull")
         \/ Finish(d) \/ Proceed(d) \/ Reauth(d)
  BY DEF Gate, GateNothingStaged, GateExpired, GateNoCookie, GateCompare,
         GateUnreachable, files
<1>2. Moves(d)
  BY <1>1, ControlMoves DEF Steps
<1> QED
  BY <1>1, <1>2 DEF Keeps

LEMMA PullKeeps ==
  ASSUME TypeOK, NEW d \in Device, Pull(d)
  PROVE  Keeps(d)
<1>1. /\ UNCHANGED <<blob, facts>>
      /\ UNCHANGED local \/ PullMerges(d)
      /\ Goto(d, "fastPush") \/ Goto(d, "recPush") \/ Finish(d) \/ Proceed(d)
  BY DEF Pull, FastPull, ReconcilePull, ReconcileKeyMismatch,
         ReconcileUnreachable, PullLeavesStaging, files
<1>2. Moves(d)
  BY <1>1, ControlMoves DEF Steps, Pushing
<1>3. CASE PullMerges(d)
  <2>1. local[d] \in Content /\ blob.entries \in Content
    BY DEF TypeOK, FilesOK, BlobOK
  <2>2. Merge(local[d], blob.entries) \in Content
    BY <2>1, MergeIsContent
  <2>3. /\ local'[d] = Merge(local[d], blob.entries)
        /\ \A o \in Device \ {d} : local'[o] = local[o]
    BY <1>3, <2>2, Rewrites DEF PullMerges
  <2>4. Present(local'[d]) = Present(local[d]) \cup Present(blob.entries)
    BY <2>1, <2>3, MergeHolds
  <2> QED
    BY <1>1, <1>2, <2>3, <2>4 DEF Keeps
<1>4. CASE UNCHANGED local
  BY <1>1, <1>2, <1>4 DEF Keeps
<1> QED
  BY <1>1, <1>3, <1>4

LEMMA PushKeeps ==
  ASSUME TypeOK, NEW d \in Device, Push(d)
  PROVE  Keeps(d)
<1>1. /\ UNCHANGED <<local, facts>>
      /\ blob' \in {blob, Blob(local[d])}
      /\ \/ Goto(d, "gate") \/ Goto(d, "walCookie") \/ Goto(d, "recCookie")
         \/ Goto(d, "syncCookie") \/ Finish(d) \/ Proceed(d)
  BY DEF Push, PushBlob, PushBlobFails, ClaimCookie, files
<1>2. Moves(d)
  BY <1>1, ControlMoves DEF Steps, Claiming
<1> QED
  BY <1>1, <1>2 DEF Keeps

LEMMA MishapKeeps ==
  ASSUME TypeOK, NEW d \in Device, Mishap(d)
  PROVE  Keeps(d)
<1>1. /\ UNCHANGED <<local, blob, facts>>
      /\ Finish(d) \/ UNCHANGED <<pc, cmd, pending, marked>>
  BY DEF Mishap, Crash, ExpireCookie, AgeWal, files, control
<1> QED
  BY <1>1, ControlMoves DEF Keeps

\* Ending, pausing and resuming, the WAL bookmark, and commands with nothing to
\* do: all local work but capturing.
LEMMA WorkKeeps ==
  ASSUME TypeOK, NEW d \in Device,
         ChangeActive(d) \/ NothingToDo(d) \/ LegacyCommandRaises(d) \/ WriteWal(d)
  PROVE  Keeps(d)
<1>1. UNCHANGED <<blob, facts>> /\ (Goto(d, "walWrite") \/ Finish(d))
  BY DEF ChangeActive, NothingToDo, LegacyCommandRaises, WriteWal
<1>2. Moves(d)
  BY <1>1, ControlMoves DEF Steps
<1>3. CASE ChangeActive(d)
  <2>1. PICK e \in Entry, to \in Status : Change(d, e, Running, to)
    BY <1>3 DEF ChangeActive, Status
  <2>2. local[d] \in Content
    BY DEF TypeOK, FilesOK
  <2>3. [local[d] EXCEPT ![e] = to] \in Content
    BY <2>2 DEF Content
  <2>4. /\ local'[d] = [local[d] EXCEPT ![e] = to]
        /\ \A o \in Device \ {d} : local'[o] = local[o]
    BY <2>1, <2>3, Rewrites DEF Change
  <2>5. e \in Present(local[d])
    BY <2>1 DEF Change, Running, Present, Absent
  <2>6. Present(local'[d]) = Present(local[d])
    BY <2>2, <2>4, <2>5, ChangeHolds
  <2> QED
    BY <1>1, <1>2, <2>4, <2>6 DEF Keeps
<1>4. CASE NothingToDo(d) \/ LegacyCommandRaises(d) \/ WriteWal(d)
  BY <1>1, <1>2, <1>4 DEF Keeps, NothingToDo, LegacyCommandRaises, WriteWal, files
<1> QED
  BY <1>3, <1>4

-----------------------------------------------------------------------------
(***************************************************************************)
(* Steps that capture, settle and drop entries.                            *)
(***************************************************************************)
LEMMA CaptureCustody ==
  ASSUME TypeOK, InCustody, NEW d \in Device, Capture(d)
  PROVE  InCustody' /\ Custody!Next
<1>1. PICK e \in Entry \ captured, to \in Status :
        /\ Change(d, e, {Absent}, to)
        /\ captured' = captured \cup {e}
  BY DEF Capture, Status
<1>2. UNCHANGED <<blob, discarded, commits>> /\ Moves(d)
  BY ControlMoves DEF Capture, Steps
<1>3. Settled' = Settled
  BY <1>2 DEF Settled
<1>4. local[d] \in Content /\ [local[d] EXCEPT ![e] = to] \in Content
  BY DEF TypeOK, FilesOK, Content
<1>5. /\ local'[d] = [local[d] EXCEPT ![e] = to]
      /\ \A o \in Device \ {d} : local'[o] = local[o]
  BY <1>1, <1>4, Rewrites DEF Change
<1>6. Present(local'[d]) = Present(local[d]) \cup {e}
  BY <1>4, <1>5, ChangeHolds
<1>7. Held' = Held \cup {e}
  BY <1>5, <1>6 DEF Held
<1>8. OnlyCaptured' /\ AllHeld'
  BY <1>1, <1>2, <1>3, <1>7 DEF InCustody, OnlyCaptured, AllHeld
<1>9. CmdIssued' /\ DropsSettled'
  BY <1>2, <1>3, <1>5 DEF InCustody, CmdIssued, DropsSettled, Moves
<1>10. Custody!Capture(e)
  BY <1>1, <1>3, <1>7 DEF Custody!Capture
<1> QED
  BY <1>8, <1>9, <1>10 DEF InCustody, Custody!Next

\* Settling leaves the copies alone: what is settled is in the staging file.
LEMMA SettlesCustody ==
  ASSUME InCustody, UNCHANGED <<local, blob, captured>>,
         Settled \subseteq Settled', Settled' \subseteq Settled \cup Held
  PROVE  OnlyCaptured' /\ AllHeld' /\ Custody!Settle
<1>1. Held' = Held
  BY DEF Held
<1>2. OnlyCaptured' /\ AllHeld'
  BY <1>1 DEF InCustody, OnlyCaptured, AllHeld
<1>3. Custody!Settle
  BY <1>1, <1>2 DEF Custody!Settle, OnlyCaptured
<1> QED
  BY <1>2, <1>3

LEMMA CommitCustody ==
  ASSUME "syncBoth" \notin Commands, TypeOK, InCustody,
         NEW d \in Device, CommitEntries(d)
  PROVE  InCustody' /\ Custody!Settle
<1> USE DEF TypeOK, ControlOK
<1>1. PICK chosen \in SUBSET Ended(d), unwanted \in SUBSET Ended(d) :
        /\ (unwanted # {}) <=> (cmd[d] = "syncBoth")
        /\ pending' = [pending EXCEPT ![d] = chosen]
        /\ marked' = [marked EXCEPT ![d] = {Position(local[d], e) : e \in unwanted}]
        /\ discarded' = discarded \cup unwanted
        /\ commits' = [e \in Entry |->
             IF e \in chosen /\ commits[e] < 2 THEN commits[e] + 1 ELSE commits[e]]
  BY DEF CommitEntries
<1>2. /\ pc' = [pc EXCEPT ![d] = "drop"]
      /\ UNCHANGED <<local, blob, cmd, captured>>
  BY DEF CommitEntries, files
<1>3. unwanted = {} /\ discarded' = discarded /\ marked'[d] = {}
  BY <1>1 DEF InCustody, CmdIssued
<1>4. \A e \in Entry : commits'[e] > 0 <=> commits[e] > 0 \/ e \in chosen
  BY <1>1 DEF FactsOK, Ended
<1>5. Settled' = Settled \cup chosen
  BY <1>3, <1>4 DEF Settled, Ended
<1>6. chosen \subseteq Held
  BY DEF Ended, Held, Present, Absent
<1>7. OnlyCaptured' /\ AllHeld' /\ Custody!Settle
  BY <1>2, <1>5, <1>6, SettlesCustody
<1>8. CmdIssued'
  BY <1>2 DEF InCustody, CmdIssued
<1>9. ASSUME NEW o \in Device \ {d}
      PROVE  pc'[o] = pc[o] /\ pending'[o] = pending[o] /\ marked'[o] = marked[o]
  BY <1>1, <1>2
<1>10. pc'[d] = "drop" /\ pending'[d] = chosen
  BY <1>1, <1>2
<1>11. DropsSettled'
  BY <1>2, <1>3, <1>5, <1>9, <1>10 DEF InCustody, DropsSettled
<1> QED
  BY <1>7, <1>8, <1>11 DEF InCustody

LEMMA MarkCustody ==
  ASSUME TypeOK, InCustody, NEW d \in Device, MarkEntries(d)
  PROVE  InCustody' /\ Custody!Settle
<1> USE DEF TypeOK, ControlOK
<1>1. PICK unwanted \in SUBSET Ended(d) :
        /\ marked' = [marked EXCEPT ![d] = {Position(local[d], e) : e \in unwanted}]
        /\ discarded' = discarded \cup unwanted
  BY DEF MarkEntries
<1>2. /\ pc' = [pc EXCEPT ![d] = "dropMarked"]
      /\ UNCHANGED <<local, blob, cmd, pending, captured, commits>>
  BY DEF MarkEntries, files
<1>3. Settled' = Settled \cup unwanted
  BY <1>1, <1>2 DEF Settled
<1>4. unwanted \subseteq Present(local[d])
  BY DEF Ended, Present, Absent
<1>5. OnlyCaptured' /\ AllHeld' /\ Custody!Settle
  BY <1>2, <1>3, <1>4, SettlesCustody DEF Held, Present
<1>6. CmdIssued'
  BY <1>2 DEF InCustody, CmdIssued
<1>7. ASSUME NEW o \in Device \ {d}
      PROVE  pc'[o] = pc[o] /\ marked'[o] = marked[o]
  BY <1>1, <1>2
<1>8. pc'[d] = "dropMarked" /\ marked'[d] = {Position(local[d], e) : e \in unwanted}
  BY <1>1, <1>2
<1>9. ASSUME NEW e \in Present(local[d]), Position(local[d], e) \in marked'[d]
      PROVE  e \in Settled'
  <2>1. PICK f \in unwanted : Position(local[d], e) = Position(local[d], f)
    BY <1>8, <1>9
  <2>2. e = f
    BY <1>4, <2>1, PositionSeparates
  <2> QED
    BY <1>3, <2>2
<1>10. DropsSettled'
  BY <1>2, <1>3, <1>7, <1>8, <1>9 DEF InCustody, DropsSettled
<1> QED
  BY <1>5, <1>6, <1>10 DEF InCustody

LEMMA DropCustody ==
  ASSUME TypeOK, InCustody, NEW d \in Device, DropCommitted(d) \/ DropMarked(d)
  PROVE  InCustody' /\ Custody!Settle
<1> DEFINE gone == IF pc[d] = "drop" THEN pending[d]
                   ELSE {e \in Present(local[d]) : Position(local[d], e) \in marked[d]}
<1>1. Rewrite(d, Without(local[d], gone)) /\ Goto(d, "syncPush")
  BY DEF DropCommitted, DropMarked, InCustody, DropsSettled
<1>2. gone \subseteq Settled
  BY DEF DropCommitted, DropMarked, InCustody, DropsSettled
<1> HIDE DEF gone
<1>3. local[d] \in Content /\ Without(local[d], gone) \in Content
  BY WithoutIsContent DEF TypeOK, FilesOK
<1>4. /\ local'[d] = Without(local[d], gone)
      /\ \A o \in Device \ {d} : local'[o] = local[o]
  BY <1>1, <1>3, Rewrites
<1>5. Present(local'[d]) = Present(local[d]) \ gone
  BY <1>3, <1>4, WithoutHolds
<1>6. UNCHANGED <<blob, facts>> /\ Moves(d)
  BY <1>1, ControlMoves DEF DropCommitted, DropMarked, Steps, Pushing
<1>7. Settled' = Settled /\ captured' = captured
  BY <1>6 DEF facts, Settled
<1>8. Held' \subseteq Held /\ Held \subseteq Held' \cup gone
  BY <1>4, <1>5 DEF Held
<1>9. OnlyCaptured' /\ AllHeld'
  BY <1>2, <1>6, <1>7, <1>8 DEF InCustody, OnlyCaptured, AllHeld
<1>10. CmdIssued' /\ DropsSettled'
  BY <1>4, <1>6, <1>7 DEF InCustody, CmdIssued, DropsSettled, Moves
<1>11. Custody!Settle
  BY <1>2, <1>7, <1>8, <1>9 DEF Custody!Settle, OnlyCaptured
<1> QED
  BY <1>9, <1>10, <1>11 DEF InCustody

\* A blob under another key holds no entries of this identity.
LEMMA ForeignCustody ==
  ASSUME InCustody, ForeignWrite
  PROVE  InCustody' /\ Custody!Settle
<1>1. Present(blob'.entries) = {}
  BY DEF ForeignWrite, ForeignBlob, EmptyContent, Present
<1>2. UNCHANGED <<local, pc, cmd, pending, marked, captured, discarded, commits>>
  BY DEF ForeignWrite, files, control, facts
<1>3. Held' = Held /\ Settled' = Settled
  BY <1>2 DEF Held, Settled
<1>4. InCustody'
  BY <1>1, <1>2, <1>3
     DEF InCustody, OnlyCaptured, AllHeld, CmdIssued, DropsSettled
<1>5. Custody!Settle
  BY <1>2, <1>3 DEF Custody!Settle, InCustody, OnlyCaptured
<1> QED
  BY <1>4, <1>5

-----------------------------------------------------------------------------
(***************************************************************************)
(* Every step, and the theorems.                                           *)
(***************************************************************************)
LEMMA CustodyStep ==
  ASSUME "syncBoth" \notin Commands, TypeOK, InCustody, [Next]_vars
  PROVE  InCustody' /\ [Custody!Next]_(Custody!vars)
<1>1. ASSUME NEW d \in Device,
             Start(d) \/ Gate(d) \/ Pull(d) \/ Push(d) \/ Mishap(d)
      PROVE  InCustody' /\ Custody!Settle
  <2>1. Keeps(d)
    BY <1>1, StartKeeps, GateKeeps, PullKeeps, PushKeeps, MishapKeeps
  <2> QED
    BY <2>1, KeepsCustody
<1>2. ASSUME NEW d \in Device, LocalWork(d)
      PROVE  InCustody' /\ Custody!Next
  BY <1>2, CaptureCustody, WorkKeeps, KeepsCustody DEF LocalWork, Custody!Next
<1>3. ASSUME NEW d \in Device, Sync(d)
      PROVE  InCustody' /\ Custody!Settle
  <2>1. CASE CommitNothing(d)
    <3>1. UNCHANGED <<local, blob, facts>> /\ Moves(d)
      BY <2>1, ControlMoves DEF CommitNothing, files
    <3>2. Keeps(d)
      BY <3>1 DEF Keeps
    <3> QED
      BY <3>2, KeepsCustody
  <2>2. CASE CommitEntries(d) \/ MarkEntries(d) \/ DropCommitted(d) \/ DropMarked(d)
    BY <2>2, CommitCustody, MarkCustody, DropCustody
  <2> QED
    BY <1>3, <2>1, <2>2 DEF Sync
<1>4. CASE ForeignWrite
  BY <1>4, ForeignCustody DEF Custody!Next
<1>5. CASE UNCHANGED vars
  <2>1. UNCHANGED <<local, blob, pc, cmd, pending, marked, captured, discarded,
                    commits>>
    BY <1>5 DEF vars, files, control, facts
  <2>2. InCustody' /\ Held' = Held /\ Settled' = Settled
    BY <2>1 DEF InCustody, OnlyCaptured, AllHeld, CmdIssued, DropsSettled, Held,
                Settled
  <2> QED
    BY <2>1, <2>2 DEF Custody!vars
<1> QED
  BY <1>1, <1>2, <1>3, <1>4, <1>5 DEF Next, Custody!Next

\* Whatever fails and however many devices push over one another, a captured
\* entry that no user removed and no ledger holds is staged on some device.
THEOREM NoEntryIsLost ==
  ASSUME "syncBoth" \notin Commands
  PROVE  Spec => []NoEntryLost
<1>1. TypeOK /\ InCustody /\ [Next]_vars => InCustody'
  BY CustodyStep
<1>2. TypeOK /\ InCustody => NoEntryLost
  BY DEF InCustody, AllHeld, Held, Settled, NoEntryLost, TypeOK, FactsOK
<1> QED
  BY InitInCustody, TypeCorrectness, <1>1, <1>2, PTL DEF Spec

\* The staging protocol implements the custody of entries: every step captures
\* one entry, settles held entries or lets settled ones go, or stutters.
THEOREM CustodyRefined ==
  ASSUME "syncBoth" \notin Commands
  PROVE  Spec => CustodySpec
<1>1. TypeOK /\ InCustody /\ [Next]_vars
        => InCustody' /\ [Custody!Next]_(Custody!vars)
  BY CustodyStep
<1>2. Init => Custody!Init
  <2>1. Present(EmptyContent) = {}
    BY DEF Present, EmptyContent
  <2> QED
    BY <2>1 DEF Init, Custody!Init, Held, Settled
<1> QED
  BY InitInCustody, TypeCorrectness, <1>1, <1>2, PTL
     DEF Spec, CustodySpec, Custody!Spec
=============================================================================
