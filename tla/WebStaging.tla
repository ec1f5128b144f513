------------------------------ MODULE WebStaging ------------------------------
(***************************************************************************)
(* Staging in the browser client (src/phpoc-web/src/sync): edits of the    *)
(* local store, the debounced push that follows each of them, the gate     *)
(* with its device cookie, reconciliation, commits, and the monitor of the *)
(* cookie's age.                                                           *)
(*                                                                         *)
(* Nothing is locked.  Every call on the store or the transport is         *)
(* awaited, so that an edit, pushes and a sync of the same client          *)
(* interleave, and pushes that are under way arrive in any order.          *)
(*                                                                         *)
(* An entry stands for its identifier and its stage; a client knows an     *)
(* entry by its place in a list, which is here the entry itself.  The      *)
(* staging hash index is left out: blobs are padded at random, so that the *)
(* checksums it compares are never equal and no push is ever skipped.      *)
(***************************************************************************)
EXTENDS Integers, Sequences, FiniteSets, SequencesExt

CONSTANTS
  Device,     \* the browsers whose steps are modelled
  Entry,
  None,       \* no blob, no cookie, nothing under way
  Stale,      \* a cookie no browser holds the other half of
  Foreign,    \* stagings that other clients may push
  Faults,     \* what may come from outside, a subset of AllFaults
  MaxPushes,  \* bound on the pushes of all browsers under way
  MaxEdits,   \* bound on the edits of all browsers
  MaxFaults   \* bound on what comes from outside

AllFaults == {"push",    \* a write to the remote fails, done or not
              "pull",    \* a read of the remote fails
              "expire",  \* a cookie grows too old
              "close",   \* the page is closed or reloaded
             "other"}   \* another client of the identity writes

ASSUME FaultsAssumption == Faults \subseteq AllFaults
ASSUME BoundAssumption  == MaxPushes \in Nat \ {0} /\ {MaxEdits, MaxFaults} \subseteq Nat
ASSUME NoneAssumption   == None \notin Device /\ Stale \notin Device

VARIABLES
  \* ---- each browser
  local,   \* its staging
  cookie,  \* its cookie: "none", "fresh" or "expired"
  key,     \* is a master key cached?
  timer,   \* is the debounce timer armed?
  edit,    \* the staging an edit is about to write, or None
  pushes,  \* pushes under way, in the order in which they read staging
  pc,      \* where its sync is
  work,    \* the staging its sync has pulled or merged
  \* ---- the remote
  blob,    \* the staging blob with the browser that wrote it, if it is here
  rcookie, \* the browser whose cookie it holds
  \* ---- history
  ledger,  \* entries committed anywhere
  had,     \* entries a browser captured or merged, and did not remove
  owed,    \* a push failed, was left out, or came after a later one
  raced,   \* two writes of a browser's staging overlapped
  edits,   \* number of edits
  faults   \* number of faults

browser == <<local, cookie, key, timer, edit, pushes>>
syncing == <<pc, work>>
remote  == <<blob, rcookie>>
history == <<ledger, had, owed, raced, edits, faults>>
vars    == <<browser, syncing, remote, history>>

Stage == {"absent", "active", "ended", "committed"}

Staging == [Entry -> Stage]

Push == [of : Staging, for : {"edit", "gate", "claim", "commit"},
         at : {"blob", "cookie"}, late : BOOLEAN]

ASSUME ForeignAssumption == Foreign \subseteq Staging
ASSUME NoneIsNoStaging   == None \notin Staging

\* What a sync does next; "send" while its own push is under way.
Steps == {"idle", "pull", "merge", "write", "send", "claim", "publish"}

\* The pushes under way, by browser and place.
UnderWay == UNION {{d} \X DOMAIN pushes[d] : d \in Device}

TypeOK ==
  /\ local \in [Device -> Staging]
  /\ cookie \in [Device -> {"none", "fresh", "expired"}]
  /\ key \in [Device -> BOOLEAN] /\ timer \in [Device -> BOOLEAN]
  /\ edit \in [Device -> Staging \cup {None}]
  /\ \A d \in Device :
       /\ \A i \in DOMAIN pushes[d] : pushes[d][i] \in Push
       /\ pc[d] \in Steps
       /\ (pc[d] \in {"merge", "write"}) = (work[d] # None)
       /\ (pc[d] = "send") =
            (\E i \in DOMAIN pushes[d] : pushes[d][i].for # "edit")
  /\ Cardinality(UnderWay) <= MaxPushes
  /\ blob = None \/ blob \in [of : Staging, by : Device \cup {None}]
  /\ rcookie \in Device \cup {None, Stale}
  /\ ledger \subseteq Entry /\ had \in [Device -> SUBSET Entry]
  /\ edits \in 0..MaxEdits /\ faults \in 0..MaxFaults

Empty == [e \in Entry |-> "absent"]

\* A browser after onboarding: a key, no cookie, nothing staged or pushed.
Init ==
  /\ local   = [d \in Device |-> Empty]
  /\ cookie  = [d \in Device |-> "none"]
  /\ key     = [d \in Device |-> TRUE]
  /\ timer   = [d \in Device |-> FALSE]
  /\ edit    = [d \in Device |-> None]
  /\ pushes  = [d \in Device |-> <<>>]
  /\ pc      = [d \in Device |-> "idle"]
  /\ work    = [d \in Device |-> None]
  /\ blob    = None
  /\ rcookie = None
  /\ ledger  = {}
  /\ had     = [d \in Device |-> {}]
  /\ owed    = [d \in Device |-> FALSE]
  /\ raced   = [d \in Device |-> FALSE]
  /\ edits   = 0
  /\ faults  = 0

-----------------------------------------------------------------------------
\* What the steps share.

Staged(s) == {e \in Entry : s[e] # "absent"}

\* Mutant of Merge: the staging of this browser is replaced.
MergeRemoteOnly(mine, theirs) == theirs

\* mergeEntries: the remote wins, but a commit is never taken back.
Merge(mine, theirs) ==
  [e \in Entry |-> IF theirs[e] = "absent" \/ mine[e] = "committed"
                     THEN mine[e] ELSE theirs[e]]

\* Committed entries leave staging when it is reconciled.
Uncommitted(s) == [e \in Entry |-> IF s[e] = "committed" THEN "absent" ELSE s[e]]

\* _touchLocalCookie renews any cookie there is, expired or not.
Touched(c) == IF c = "none" THEN "none" ELSE "fresh"

\* A push of the staging s for one of the callers of pushBlob.
Sending(d, s, caller) ==
  /\ Cardinality(UnderWay) < MaxPushes
  /\ pushes' = [pushes EXCEPT ![d] =
       Append(@, [of |-> s, for |-> caller, at |-> "blob", late |-> FALSE])]

\* One of the faults this instance has.
Fault(f) == f \in Faults /\ faults < MaxFaults /\ faults' = faults + 1

Goto(d, step) == pc' = [pc EXCEPT ![d] = step]

\* A write of staging lands between the read and the write of another one.
Overlaps(d, other) == raced' = [raced EXCEPT ![d] = @ \/ other]

-----------------------------------------------------------------------------
\* Edits and the debounced push.

\* An identifier that nothing bears.
New(e) ==
  /\ e \notin ledger
  /\ \A x \in Device :
       /\ e \notin had[x] /\ local[x][e] = "absent"
       /\ work[x] # None => work[x][e] = "absent"
  /\ blob # None => blob.of[e] = "absent"

\* capture, end, modify, remove ... read staging and compute what to write.
BeginEdit(d, e, s) ==
  /\ edit[d] = None /\ edits < MaxEdits
  /\ \/ New(e) /\ s \in {"active", "ended"}
     \/ local[d][e] = "active" /\ s = "ended"
     \/ local[d][e] # "absent" /\ s = "absent"
  /\ edit' = [edit EXCEPT ![d] = [local[d] EXCEPT ![e] = s]]
  /\ had' = [had EXCEPT ![d] = IF s = "absent" THEN @ \ {e} ELSE @ \cup {e}]
  /\ edits' = edits + 1
  /\ UNCHANGED <<local, cookie, key, timer, pushes, syncing, remote, ledger,
                 owed, raced, faults>>

\* Mutant of Schedule: a push that is under way is taken to cover the edit.
ScheduleUnlessPushing(d) ==
  /\ timer' = [timer EXCEPT ![d] = @ \/ (key[d] /\ pushes[d] = <<>>)]
  /\ owed' = [owed EXCEPT ![d] = @ \/ ~key[d]]

\* _schedulePush arms the timer again, unless there is no key.
Schedule(d) ==
  /\ timer' = [timer EXCEPT ![d] = @ \/ key[d]]
  /\ owed' = [owed EXCEPT ![d] = @ \/ ~key[d]]

\* The edit writes the whole list of entries.
EndEdit(d) ==
  /\ edit[d] # None
  /\ local' = [local EXCEPT ![d] = edit[d]]
  /\ edit' = [edit EXCEPT ![d] = None]
  /\ cookie' = [cookie EXCEPT ![d] = Touched(@)]
  /\ Schedule(d)
  /\ Overlaps(d, pc[d] = "write")
  /\ UNCHANGED <<key, pushes, syncing, remote, ledger, had, edits, faults>>

\* The timer fires; pushToRemote reads staging.  The key it uses was cached
\* when the timer was armed.
Fire(d) ==
  /\ timer[d]
  /\ timer' = [timer EXCEPT ![d] = FALSE]
  /\ Sending(d, local[d], "edit")
  /\ UNCHANGED <<local, cookie, key, edit, syncing, remote, history>>

-----------------------------------------------------------------------------
\* The store receives pushes, in any order.

\* Pushes that read staging before push i did have been overtaken.
Overtaken(s, i) ==
  [j \in DOMAIN s |-> IF j < i THEN [s[j] EXCEPT !.late = TRUE] ELSE s[j]]

\* A push is not owed any more once the only one under way has brought what is
\* staged now.
Settle(d, p) ==
  owed' = [owed EXCEPT ![d] =
    p.late \/ (@ /\ ~(p.of = local[d] /\ Len(pushes[d]) = 1))]

\* pushBlob returns to pushToRemote, which pushes its cookie next, to the fast
\* path, to _reconcileDifferentDevice, or to commitEntries.
Arrive(d, i) ==
  LET p    == pushes[d][i]
      rest == Overtaken(pushes[d], i)
  IN /\ p.at = "blob"
     /\ blob' = [of |-> p.of, by |-> d]
     /\ pushes' = [pushes EXCEPT ![d] =
          IF p.for = "edit" THEN [rest EXCEPT ![i].at = "cookie"]
                            ELSE RemoveAt(rest, i)]
     /\ cookie' = [cookie EXCEPT ![d] = IF p.for = "gate" THEN Touched(@) ELSE @]
     /\ pc' = [pc EXCEPT ![d] = CASE p.for = "edit"  -> @
                                  [] p.for = "claim" -> "claim"
                                  [] OTHER           -> "idle"]
     /\ Settle(d, p)
     /\ UNCHANGED <<local, key, timer, edit, work, rcookie, ledger, had, raced,
                    edits, faults>>

\* pushBlob raises.  Nobody tries again; a sync ends, and forgets the key if it
\* was one of a re-authentication.
Fail(d, i) ==
  LET p == pushes[d][i]
  IN /\ Fault("push")
     /\ p.at = "blob"
     /\ blob' \in {blob, [of |-> p.of, by |-> d]}
     /\ pushes' = [pushes EXCEPT ![d] = RemoveAt(Overtaken(@, i), i)]
     /\ pc' = [pc EXCEPT ![d] = IF p.for = "edit" THEN @ ELSE "idle"]
     /\ key' \in {key, [key EXCEPT ![d] = @ /\ p.for # "claim"]}
     /\ owed' = [owed EXCEPT ![d] = TRUE]
     /\ UNCHANGED <<local, cookie, timer, edit, work, rcookie, ledger, had,
                    raced, edits>>

\* pushToRemote renews the cookie of this browser, or makes one, and pushes it;
\* its failure is swallowed.
ArriveCookie(d, i) ==
  /\ pushes[d][i].at = "cookie"
  /\ pushes' = [pushes EXCEPT ![d] = RemoveAt(@, i)]
  /\ cookie' = [cookie EXCEPT ![d] = "fresh"]
  /\ \/ rcookie' = d /\ UNCHANGED faults
     \/ /\ Fault("push")
        /\ rcookie' = IF rcookie = d /\ cookie[d] = "none" THEN Stale ELSE rcookie
  /\ UNCHANGED <<local, key, timer, edit, syncing, blob, ledger, had, owed, raced,
                 edits>>

-----------------------------------------------------------------------------
\* checkAndSync and _reconcileAndClaim.  Chains share their genesis block.

\* Too old a cookie is deleted: re-authentication is needed.
GateExpired(d) ==
  /\ pc[d] = "idle" /\ cookie[d] = "expired"
  /\ cookie' = [cookie EXCEPT ![d] = "none"]
  /\ UNCHANGED <<local, key, timer, edit, pushes, syncing, remote, history>>

\* The fast path: both cookies match, and staging is pushed without a pull.
GateMatches(d) ==
  /\ pc[d] = "idle" /\ cookie[d] = "fresh" /\ rcookie = d /\ key[d]
  /\ Sending(d, local[d], "gate")
  /\ Goto(d, "send")
  /\ UNCHANGED <<local, cookie, key, timer, edit, work, remote, history>>

\* There is no cookie on the remote: the browser reconciles.
GateUnclaimed(d) ==
  /\ pc[d] = "idle" /\ cookie[d] = "fresh" /\ rcookie = None /\ key[d]
  /\ Goto(d, "pull")
  /\ UNCHANGED <<browser, work, remote, history>>

\* The passphrase is asked for without a cookie, without a key, or when another
\* device wrote last; then the browser reconciles.
Reauthenticate(d) ==
  /\ pc[d] = "idle"
  /\ cookie[d] = "none" \/ ~key[d] \/ rcookie \notin {d, None}
  /\ key' = [key EXCEPT ![d] = TRUE]
  /\ Goto(d, "pull")
  /\ UNCHANGED <<local, cookie, timer, edit, pushes, work, remote, history>>

\* pullBlob finds a blob, or none: then staging is pushed as it is.
Pull(d) ==
  /\ pc[d] = "pull"
  /\ IF blob = None
       THEN Sending(d, local[d], "claim") /\ Goto(d, "send") /\ UNCHANGED work
       ELSE /\ work' = [work EXCEPT ![d] = blob.of]
            /\ Goto(d, "merge") /\ UNCHANGED pushes
  /\ UNCHANGED <<local, cookie, key, timer, edit, remote, history>>

\* Mutant of PullFails: the sync goes on with nothing pulled.
PullFailsUnseen(d) ==
  /\ Fault("pull") /\ pc[d] = "pull"
  /\ Goto(d, "merge")
  /\ UNCHANGED <<browser, work, remote, ledger, had, owed, raced, edits>>

\* The remote cannot be read: OFFLINE.
PullFails(d) ==
  /\ Fault("pull") /\ pc[d] = "pull"
  /\ Goto(d, "idle")
  /\ UNCHANGED <<browser, work, remote, ledger, had, owed, raced, edits>>

\* readEntries and mergeEntries.
MergeEntries(d) ==
  /\ pc[d] = "merge"
  /\ work' = [work EXCEPT ![d] = Uncommitted(Merge(local[d], @))]
  /\ had' = [had EXCEPT ![d] = @ \cup (Staged(work[d]) \ ledger)]
  /\ Goto(d, "write")
  /\ UNCHANGED <<browser, remote, ledger, owed, raced, edits, faults>>

\* writeEntries, then pushBlobOnly of what was written.
WriteMerged(d) ==
  /\ pc[d] = "write"
  /\ local' = [local EXCEPT ![d] = work[d]]
  /\ work' = [work EXCEPT ![d] = None]
  /\ Sending(d, work[d], "claim")
  /\ Goto(d, "send")
  /\ Overlaps(d, edit[d] # None)
  /\ UNCHANGED <<cookie, key, timer, edit, remote, ledger, had, owed, edits,
                 faults>>

\* A cookie with a new specifier; the push of its other half may fail.
Claim(d) ==
  /\ pc[d] = "claim"
  /\ cookie' = [cookie EXCEPT ![d] = "fresh"]
  /\ \/ rcookie' = d /\ UNCHANGED faults
     \/ Fault("push") /\ rcookie' = IF rcookie = d THEN Stale ELSE rcookie
  /\ Goto(d, "idle")
  /\ UNCHANGED <<local, key, timer, edit, pushes, work, blob, ledger, had,
                 owed, raced, edits>>

-----------------------------------------------------------------------------
\* Commits and the age of the cookie.

\* commitEntries: completed entries go to the ledger and are marked.
Commit(d) ==
  /\ pc[d] = "idle" /\ key[d]
  /\ \E S \in (SUBSET {e \in Entry : local[d][e] = "ended"}) \ {{}} :
       /\ ledger' = ledger \cup S
       /\ local' = [local EXCEPT ![d] =
            [e \in Entry |-> IF e \in S THEN "committed" ELSE @[e]]]
  /\ Goto(d, "publish")
  /\ Overlaps(d, edit[d] # None)
  /\ UNCHANGED <<cookie, key, timer, edit, pushes, work, remote, had, owed,
                 edits, faults>>

\* After the blocks of the ledger the blob is pushed, unless that failed or the
\* key has been forgotten.
Publish(d) ==
  /\ pc[d] = "publish"
  /\ \/ /\ key[d] /\ Sending(d, local[d], "commit") /\ Goto(d, "send")
        /\ UNCHANGED <<owed, faults>>
     \/ /\ \/ ~key[d] /\ UNCHANGED faults
           \/ key[d] /\ Fault("push")
        /\ owed' = [owed EXCEPT ![d] = TRUE]
        /\ Goto(d, "idle") /\ UNCHANGED pushes
  /\ UNCHANGED <<local, cookie, key, timer, edit, work, remote, ledger, had,
                 raced, edits>>

\* A client that is not modelled pushes a staging of its own, and claims the
\* remote or does not; what it marks as committed is in the ledger.
OtherClient ==
  /\ Fault("other")
  /\ \E s \in Foreign :
       /\ blob' = [of |-> s, by |-> None]
       /\ ledger' = ledger \cup {e \in Entry : s[e] = "committed"}
  /\ rcookie' \in {rcookie, Stale}
  /\ UNCHANGED <<browser, syncing, had, owed, raced, edits>>

Expire(d) ==
  /\ Fault("expire") /\ cookie[d] = "fresh"
  /\ cookie' = [cookie EXCEPT ![d] = "expired"]
  /\ UNCHANGED <<local, key, timer, edit, pushes, syncing, remote, ledger, had,
                 owed, raced, edits>>

\* The monitor polls: the cookie is deleted and the key forgotten.
Monitor(d) ==
  /\ cookie[d] = "expired"
  /\ cookie' = [cookie EXCEPT ![d] = "none"]
  /\ key' = [key EXCEPT ![d] = FALSE]
  /\ UNCHANGED <<local, timer, edit, pushes, syncing, remote, history>>

\* A closed page leaves what the store holds, the staging and the cookie.
Close(d) ==
  /\ Fault("close")
  /\ owed' = [owed EXCEPT ![d] = @ \/ timer[d] \/ pushes[d] # <<>>
                                    \/ pc[d] = "publish"]
  /\ key' = [key EXCEPT ![d] = FALSE] /\ timer' = [timer EXCEPT ![d] = FALSE]
  /\ edit' = [edit EXCEPT ![d] = None] /\ work' = [work EXCEPT ![d] = None]
  /\ pushes' = [pushes EXCEPT ![d] = <<>>]
  /\ Goto(d, "idle")
  /\ had' = [had EXCEPT ![d] = @ \cap (Staged(local[d]) \cup ledger)]
  /\ raced' = [raced EXCEPT ![d] = FALSE]
  /\ UNCHANGED <<local, cookie, remote, ledger, edits>>

Next ==
  \/ OtherClient
  \/ \E d \in Device :
      \/ \E e \in Entry, s \in Stage : BeginEdit(d, e, s)
      \/ EndEdit(d) \/ Fire(d)
      \/ \E i \in DOMAIN pushes[d] : Arrive(d, i) \/ Fail(d, i) \/ ArriveCookie(d, i)
      \/ GateExpired(d) \/ GateMatches(d) \/ GateUnclaimed(d) \/ Reauthenticate(d)
      \/ Pull(d) \/ PullFails(d) \/ MergeEntries(d) \/ WriteMerged(d) \/ Claim(d)
      \/ Commit(d) \/ Publish(d) \/ Expire(d) \/ Monitor(d) \/ Close(d)

Spec == Init /\ [][Next]_vars

-----------------------------------------------------------------------------
(***************************************************************************)
(* Properties.                                                             *)
(***************************************************************************)

\* Staging that differs from this browser's own blob will be pushed: a timer is
\* armed or a push under way, unless one failed, was left out or was overtaken.
ChangesArePushed ==
  \A d \in Device :
    (blob # None /\ blob.by = d /\ blob.of # local[d]) =>
      \/ timer[d] \/ pushes[d] # <<>> \/ pc[d] = "publish"
      \/ owed[d]

\* What a browser captured or merged stays in its staging until it is removed
\* there or is in a ledger, whatever syncs and pushes run, unless two writes of
\* the same store overlapped.
EntryKept ==
  \A d \in Device : \A e \in had[d] :
    \/ local[d][e] # "absent" \/ e \in ledger
    \/ edit[d] # None \/ pc[d] = "write"
    \/ raced[d]
=============================================================================
