----------------------------- MODULE GitTransport -----------------------------
(***************************************************************************)
(* The git transport, src/core/sync/git_transport.py: every device keeps a *)
(* working copy of one remote repository and pulls, pushes, deletes and    *)
(* lists blobs through it.                                                 *)
(*                                                                         *)
(* A commit changes the blob at one path.  The remote is the sequence of   *)
(* its commits; a clone is the number of those it starts from and its own  *)
(* commits ahead of them.  git itself (fetch, rebase, checkout, push) is   *)
(* modelled from how the transport calls it.  Between two calls of git that*)
(* reach the remote, other devices run, and each such call may fail.       *)
(***************************************************************************)
EXTENDS Integers, Sequences, SequencesExt, FiniteSets

CONSTANTS
  Device, Path,
  Text,        \* the paths whose blobs git merges as text
  None,        \* no blob, no clone, no conflict
  Occupied,    \* a directory with files in the place of a clone
  Garbled,     \* a file with conflict markers
  Faults,      \* a subset of AllFaults
  MaxPushes,   \* bound on the blobs that are pushed
  MaxCommits   \* bound on the commits of the remote at which a call begins

AllFaults == {"offline",  \* a call of git does not reach the remote
              "lost",     \* a push arrives and its answer does not
              "unknown"}  \* git clone is told that there is no such repository

ASSUME TextAssumption   == Text \subseteq Path
ASSUME FaultsAssumption == Faults \subseteq AllFaults
ASSUME BoundsAssumption == MaxPushes \in Nat /\ MaxCommits \in Nat

VARIABLES
  remote,   \* the commits of the remote repository
  clone,    \* the working copy of each device, None or Occupied
  pc,       \* the step each device is at
  call,     \* its last push or delete
  answer,   \* what the call that ended last returned, until the next step
  pushes    \* blobs pushed so far

vars == <<remote, clone, pc, call, answer, pushes>>

Blob    == 1..MaxPushes
Content == Blob \cup {None, Garbled}

Commit  == [path : Path, from : Content, to : Content]
Branch  == [base : Nat, ahead : Seq(Commit)]
Clone   == [base : Nat, ahead : Seq(Commit),
            rebase : Branch \cup {None}, conflict : Path \cup {None},
            files : [Path -> Content]]

ASSUME NamesAssumption ==
  /\ None \notin Path \cup Blob \cup {Garbled} \cup Commit \cup Branch \cup Clone
  /\ Garbled \notin Blob
  /\ Occupied \notin Clone \cup {None}

NoCall   == [path |-> None, blob |-> None]
NoAnswer == [kind |-> "none", value |-> None]

-----------------------------------------------------------------------------
\* Repositories.

\* The blobs after some commits.
Tree(commits) ==
  [p \in Path |->
     LET touching == {i \in DOMAIN commits : commits[i].path = p}
     IN IF touching = {} THEN None ELSE commits[Max(touching)].to]

Commits(base, ahead) == SubSeq(remote, 1, base) \o ahead

\* A clone on its branch main.
OnMain(base, ahead) ==
  [base |-> base, ahead |-> ahead, rebase |-> None, conflict |-> None,
   files |-> Tree(Commits(base, ahead))]

\* Where HEAD is: on main, or detached by a rebase that stopped.
HeadOf(c) ==
  IF c.rebase = None THEN [base |-> c.base, ahead |-> c.ahead] ELSE c.rebase

HeadTree(c) == Tree(Commits(HeadOf(c).base, HeadOf(c).ahead))

\* Mutant of Aborted: the rebase is left as it stopped.
StillStuck(c) == c

\* Mutant of Aborted: the rebase is given up and the files stay.
QuitRebase(c) == [c EXCEPT !.rebase = None, !.conflict = None]

\* _recover_git_abort_stuck_rebase: main is what it was, and the files with it.
Aborted(c) == OnMain(c.base, c.ahead)

\* What git leaves in the file when commit x does not fit blob u of upstream.
Merged(x, u) ==
  IF u = None THEN x.to
              ELSE IF x.path \in Text /\ x.to # None THEN Garbled ELSE u

\* Mutant of Replay: a commit that does not fit is applied all the same.
ReplayTheirs(done, x) ==
  IF done.stop # None THEN done ELSE
  LET u == Tree(remote \o done.ahead)[x.path] IN
  IF u = x.to THEN done
  ELSE [done EXCEPT !.ahead = Append(@, [x EXCEPT !.from = u])]

\* git rebase, one commit: it is dropped when upstream has it, applied when it
\* fits, and else the rebase stops.
Replay(done, x) ==
  LET u == Tree(remote \o done.ahead)[x.path] IN
  IF done.stop # None \/ u = x.to THEN done
  ELSE IF u = x.from THEN [done EXCEPT !.ahead = Append(@, x)]
                     ELSE [done EXCEPT !.stop = x]

\* git pull --rebase.
Rebased(c) ==
  LET done[i \in 0..Len(c.ahead)] ==
        IF i = 0 THEN [ahead |-> <<>>, stop |-> None]
                 ELSE Replay(done[i - 1], c.ahead[i])
      end == done[Len(c.ahead)]
      new == OnMain(Len(remote), end.ahead)
  IN IF end.stop = None THEN new
     ELSE [c EXCEPT !.rebase = [base |-> new.base, ahead |-> new.ahead],
                    !.conflict = end.stop.path,
                    !.files = [new.files EXCEPT ![end.stop.path] =
                                 Merged(end.stop, @)]]

\* pull, push and delete begin with this; that git pull fails is no error.
Refreshed(c, online) ==
  IF online /\ remote # <<>> /\ Aborted(c).rebase = None
    THEN Rebased(Aborted(c))
    ELSE Aborted(c)

\* Mutant of Added: everything is added.
AddedAll(c, p, b) == [c EXCEPT !.files[p] = b, !.conflict = None]

\* write_bytes or git rm, and git add: this resolves a conflict at p.
Added(c, p, b) ==
  [c EXCEPT !.files[p] = b, !.conflict = IF @ = p THEN None ELSE @]

\* git commit refuses when there are conflicts, or no changes.
CanCommit(c) == c.conflict = None /\ c.files # HeadTree(c)

Committed(c) ==
  LET old     == HeadTree(c)
      changed == SetToSeq({p \in Path : c.files[p] # old[p]})
      new     == [i \in DOMAIN changed |->
                    [path |-> changed[i], from |-> old[changed[i]],
                     to |-> c.files[changed[i]]]]
  IN IF c.rebase = None THEN [c EXCEPT !.ahead = @ \o new]
                        ELSE [c EXCEPT !.rebase.ahead = @ \o new]

\* git push, or push origin HEAD:refs/heads/main when HEAD is detached.
FastForward(c) == HeadOf(c).base = Len(remote)

Landed(c) ==
  LET all == Len(remote) + Len(HeadOf(c).ahead) IN
  IF c.rebase = None THEN [c EXCEPT !.base = all, !.ahead = <<>>]
                     ELSE [c EXCEPT !.rebase = [base |-> all, ahead |-> <<>>]]

\* _ensure_clone: the clone there is, or a new one.  When it cannot be made, and
\* when files are in its place, the call raises and changes nothing.
Opened(d, online) ==
  IF clone[d] = None
    THEN IF online THEN {OnMain(Len(remote), <<>>)} ELSE {}
    ELSE {clone[d]} \ {Occupied}

Online == IF "offline" \in Faults THEN BOOLEAN ELSE {TRUE}

-----------------------------------------------------------------------------
TypeOK ==
  /\ answer.kind = "pulled" => answer.value \in Content
  /\ remote \in Seq(Commit)
  /\ \A i \in DOMAIN remote : remote[i].from # remote[i].to
  /\ \A d \in Device :
       /\ pc[d] \in {"idle", "push", "retry", "delete"}
       /\ clone[d] \in Clone \cup {None, Occupied}
       /\ pc[d] # "idle" => clone[d] \in Clone /\ clone[d].conflict = None
       /\ clone[d] \in Clone =>
            LET c == clone[d] IN
            /\ c.base <= Len(remote)
            /\ c.rebase = None => c.conflict = None /\ c.files = HeadTree(c)

Init ==
  /\ remote = <<>>
  /\ clone  = [d \in Device |-> None]
  /\ pc     = [d \in Device |-> "idle"]
  /\ call   = [d \in Device |-> NoCall]
  /\ answer = NoAnswer
  /\ pushes = 0

Goto(d, step) == pc' = [pc EXCEPT ![d] = step]

SetClone(d, c) == clone' = [clone EXCEPT ![d] = c]

Answer(kind, value) == answer' = [kind |-> kind, value |-> value]

\* The call ends: it returns, or raises RuntimeError.
End(d, kind) == Goto(d, "idle") /\ Answer(kind, None)

\* pull: the file as it is after git pull.
Pull(d, p, online) ==
  /\ pc[d] = "idle"
  /\ \E c0 \in Opened(d, online) :
       LET c == Refreshed(c0, online) IN
       /\ SetClone(d, c)
       /\ Answer("pulled", c.files[p])
  /\ UNCHANGED <<remote, pc, call, pushes>>

\* list_files: a clone that has commits is not refreshed.
List(d, online) ==
  /\ pc[d] = "idle"
  /\ \E c0 \in Opened(d, online) :
       LET a == Aborted(c0)
           c == IF Commits(a.base, a.ahead) = <<>> THEN Refreshed(c0, online) ELSE a
       IN /\ SetClone(d, c)
          /\ Answer("listed", {p \in Path : HeadTree(c)[p] # None})
  /\ UNCHANGED <<remote, pc, call, pushes>>

\* Blob b of call `step` is added and committed, or git refuses to.
Begin(d, c, step) ==
  /\ IF CanCommit(c)
       THEN SetClone(d, Committed(c)) /\ Goto(d, step) /\ answer' = NoAnswer
       ELSE SetClone(d, c) /\ End(d, IF c.conflict = None THEN "same" ELSE "unmerged")

\* push of a new blob, up to its first git push.
StartPush(d, p) ==
  /\ pc[d] = "idle" /\ Len(remote) < MaxCommits /\ pushes < MaxPushes
  /\ pushes' = pushes + 1
  /\ call' = [call EXCEPT ![d] = [path |-> p, blob |-> pushes']]
  /\ \E online \in Online : \E c0 \in Opened(d, online) :
       Begin(d, Added(Refreshed(c0, online), p, pushes'), "push")
  /\ UNCHANGED remote

\* push of the blob of the last call, which the clone has, arrived or not.
RepeatPush(d) ==
  /\ pc[d] = "idle" /\ call[d].blob # None
  /\ \E online \in Online : \E c0 \in Opened(d, online) :
       LET c == Refreshed(c0, online) IN
       /\ c.conflict = None /\ c.files[call[d].path] = call[d].blob
       /\ Begin(d, c, "push")
  /\ UNCHANGED <<remote, call, pushes>>

\* delete looks at the file before it refreshes the clone.
StartDelete(d, p) ==
  /\ pc[d] = "idle" /\ Len(remote) < MaxCommits
  /\ \E online \in Online : \E c0 \in Opened(d, online) :
       LET c == Refreshed(c0, online) IN
       CASE c0.files[p] = None -> /\ SetClone(d, c0) /\ End(d, "absent")
                                  /\ UNCHANGED call
         [] c0.files[p] # None /\ c.files[p] = None ->
              SetClone(d, c) /\ End(d, "same") /\ UNCHANGED call
         [] OTHER ->
              /\ Begin(d, Added(c, p, None), "delete")
              /\ call' = [call EXCEPT ![d] = [path |-> p, blob |-> None]]
  /\ UNCHANGED <<remote, pushes>>

\* git clone is told that there is no repository, which _ensure_clone takes for
\* an empty one.  Its git init and git remote add run in the directory of the
\* process, and raise when that has an origin; no clone comes of them.  (That
\* directory is taken to have no commits.)
TakenForEmpty(d) ==
  "unknown" \in Faults /\ pc[d] = "idle" /\ clone[d] = None

\* pull, list_files and delete find no file.
ReadNothing(d) ==
  /\ TakenForEmpty(d)
  /\ \/ Answer("pulled", None)
     \/ Answer("listed", {})
     \/ Answer("absent", None)
  /\ UNCHANGED <<remote, clone, pc, call, pushes>>

\* push writes its blob where the clone should be, and git add raises.  From then
\* on git clone refuses the directory.
PushNowhere(d, p) ==
  /\ TakenForEmpty(d) /\ pushes < MaxPushes
  /\ pushes' = pushes + 1
  /\ call' = [call EXCEPT ![d] = [path |-> p, blob |-> pushes']]
  /\ SetClone(d, Occupied)
  /\ End(d, "failed")
  /\ UNCHANGED remote

\* A git push that arrives.
Arrive(d) ==
  /\ FastForward(clone[d])
  /\ remote' = remote \o HeadOf(clone[d]).ahead
  /\ SetClone(d, Landed(clone[d]))

\* push and delete end when git push succeeds.
FinishPush(d) ==
  /\ pc[d] # "idle"
  /\ Arrive(d)
  /\ End(d, "done")
  /\ UNCHANGED <<call, pushes>>

\* Mutant of Rewritten: the retry trusts the rebase to keep the blob.
NotRewritten(c, p, b) == [c EXCEPT !.conflict = None]

\* The retry writes the blob again, over whatever the rebase left.
Rewritten(c, p, b) == Added(c, p, b)

\* push, when git push is rejected: refresh, write and commit again.  A commit
\* without changes is allowed now.
RetryPush(d) ==
  /\ pc[d] = "push"
  /\ ~FastForward(clone[d])
  /\ \E online \in Online :
       LET c == Rewritten(Refreshed(clone[d], online), call[d].path, call[d].blob) IN
       IF c.conflict = None
         THEN SetClone(d, Committed(c)) /\ Goto(d, "retry") /\ answer' = NoAnswer
         ELSE SetClone(d, c) /\ End(d, "unmerged")
  /\ UNCHANGED <<remote, call, pushes>>

\* A second rejection, or one of a delete.
Rejected(d) ==
  /\ pc[d] \in {"retry", "delete"}
  /\ ~FastForward(clone[d])
  /\ End(d, "rejected")
  /\ UNCHANGED <<remote, clone, call, pushes>>

\* git push fails for another reason, or the command is killed before it; it may
\* have arrived all the same.
PushFails(d) ==
  /\ pc[d] # "idle"
  /\ \/ "offline" \in Faults /\ UNCHANGED <<remote, clone>>
     \/ "lost" \in Faults /\ Arrive(d)
  /\ End(d, "failed")
  /\ UNCHANGED <<call, pushes>>

Next ==
  \E d \in Device :
    \/ \E online \in Online : List(d, online) \/ \E p \in Path : Pull(d, p, online)
    \/ \E p \in Path : StartDelete(d, p) \/ StartPush(d, p) \/ PushNowhere(d, p)
    \/ ReadNothing(d)
    \/ RepeatPush(d) \/ FinishPush(d) \/ RetryPush(d) \/ Rejected(d) \/ PushFails(d)

Spec == Init /\ [][Next]_vars

-----------------------------------------------------------------------------
\* Properties.

\* No conflict markers are ever committed where others read them: git add names
\* one path, and git commit refuses while another has conflicts.
NoMarkersOnRemote ==
  \A i \in DOMAIN remote : remote[i].to # Garbled

\* When push returns, its blob is what the remote has, whichever commits came in
\* between; when delete returns, the remote has none (push, Re-write after rebase).
PushLands ==
  [][\A d \in Device :
       pc[d] # "idle" /\ answer'.kind = "done" /\ pc'[d] = "idle" =>
         Tree(remote')[call[d].path] = call[d].blob]_vars

\* A pull that reaches the remote answers with the remote's blob, unless this
\* clone has commits of its own at that path which never arrived: then it may be
\* what one of them wrote, or markers.  A rebase that stopped in an earlier call
\* does not hide what others pushed since (_recover_git_abort_stuck_rebase).
PullFresh ==
  [][\A d \in Device, p \in Path :
       answer'.kind = "pulled" /\ Pull(d, p, TRUE) =>
         \/ answer'.value = Tree(remote)[p]
         \/ clone[d] # None /\ \E i \in DOMAIN clone[d].ahead :
              /\ clone[d].ahead[i].path = p
              /\ answer'.value \in {clone[d].ahead[i].to, Garbled}]_vars

\* Commits left over from calls that failed never put an older blob in the place
\* of a newer one: what they may fill is a gap (blobs are numbered by age).
LeftoversFillGaps ==
  [][\A p \in Path :
       LET old == Tree(remote)[p]
           new == Tree(remote')[p]
       IN /\ new # old /\ None \notin {new, old}
          /\ \A d \in Device : pc'[d] # pc[d] => call[d].blob # new
          => new # Garbled /\ new > old]_vars
=============================================================================
