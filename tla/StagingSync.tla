----------------------------- MODULE StagingSync -----------------------------
(***************************************************************************)
(* Staging synchronisation of the phpoc command line client.               *)
(*                                                                         *)
(* Every device keeps its own staging file, device cookie, cached session  *)
(* key and write-ahead log, and all devices share one object store that    *)
(* holds a staging blob and a remote device cookie.  A command is a        *)
(* process that runs through StagingService.check_and_sync, the reconcile  *)
(* and fast paths, the local change and the push.  A step is one call on   *)
(* the object store with the local work that follows it, or one write of a *)
(* local file; commands of different devices interleave between steps.     *)
(*                                                                         *)
(* Data that is only compared is abstracted: an entry is its identity and  *)
(* its status; a cookie specifier (128 fresh random bits) is named by the  *)
(* device whose cookie file holds it; the staging hash is represented by   *)
(* what its two comparisons answer (dirty, wal), since every write of the  *)
(* staging file re-encrypts it with a fresh salt and nonce.                *)
(***************************************************************************)
EXTENDS FiniteSets, Naturals

CONSTANTS
  Device,    \* the devices of one identity
  Entry,     \* the habit entries users may capture, in start order
  Commands,  \* the commands users issue, a subset of AllCommands
  Faults,    \* what may go wrong, a subset of AllFaults
  Serial     \* TRUE: users run one command at a time across all devices

AllCommands == {"view", "login", "logout", "start", "oneoff", "end", "pause",
                "unpause", "modify", "remove",
                "sync",        \* ph sync --yes, or a confirmation that selects
                "syncRemove",  \* a confirmation that only marks removals
                "syncBoth"}    \* a confirmation that selects and marks

AllFaults == {"network",  \* a call on the object store fails or times out
              "crash",    \* a command is killed between two steps
              "merge",    \* the merge of a pulled blob raises
              "expiry",   \* a local cookie outlives its TTL
              "age",      \* a WAL file outlives its 24 hours
              "foreign"}  \* a blob under another master key appears

ASSUME CommandsAssumption == Commands \subseteq AllCommands
ASSUME FaultsAssumption   == Faults \subseteq AllFaults
ASSUME SerialAssumption   == Serial \in BOOLEAN
ASSUME EntryAssumption    == Entry \subseteq Nat
ASSUME DeviceAssumption   == Device \cap {"nobody", "orphan"} = {}

VARIABLES
  \* ---- files of each device
  local,     \* staging.json: the status of every entry
  dirty,     \* the staging hash differs from .last_push_hash
  wal,       \* wal/pending_push: does its hash match the staging file?
  lcookie,   \* .device_cookie_meta
  session,   \* the session key file is present
  \* ---- objects in the remote store
  blob,      \* staging/blob
  rcookie,   \* staging/blobs/device_cookie.bin
  \* ---- the command each device runs
  pc, cmd, round,
  pending,   \* entries sync has committed and not yet dropped from staging
  marked,    \* staging positions that the user has marked for removal
  \* ---- history
  captured, discarded, commits

files    == <<local, dirty, wal>>
cookies  == <<lcookie, rcookie>>
control  == <<pc, cmd, round, pending, marked>>
facts    == <<captured, discarded, commits>>
vars     == <<files, cookies, session, blob, control, facts>>

-----------------------------------------------------------------------------
(***************************************************************************)
(* Data.                                                                   *)
(***************************************************************************)
Status  == {"active", "paused", "ended"}
Absent  == "absent"
Content == [Entry -> Status \cup {Absent}]

EmptyContent == [e \in Entry |-> Absent]

Present(content) == {e \in Entry : content[e] # Absent}

\* A staging blob under this identity's key, none at all, or one that the
\* master key does not decrypt (the BLOB_KEY_MISMATCH sentinel).
Blob(content) == [kind |-> "staging", entries |-> content]
NoBlob        == [kind |-> "none",    entries |-> EmptyContent]
ForeignBlob   == [kind |-> "foreign", entries |-> EmptyContent]

\* Mutants of Merge: the pulled blob replaces staging; two copies that differ
\* are kept as a conflict nobody resolves.
MergeTakesRemote(mine, theirs) == theirs
MergeKeepsConflict(mine, theirs) ==
  [e \in Entry |-> IF theirs[e] = mine[e] THEN mine[e]
                   ELSE IF mine[e] = Absent THEN theirs[e]
                   ELSE IF theirs[e] = Absent THEN mine[e] ELSE "conflict"]

\* MergeEngine.merge: union by entry_id, the remote copy wins.
Merge(mine, theirs) ==
  [e \in Entry |-> IF theirs[e] # Absent THEN theirs[e] ELSE mine[e]]

\* The remote cookie once device d has replaced or destroyed its cookie file:
\* a specifier that no file holds any more matches nobody.
Orphaned(d) == IF rcookie = d THEN "orphan" ELSE rcookie

\* Staging is a list in start order; an entry is addressed by its position.
Position(content, e) == Cardinality({x \in Present(content) : x < e})
Without(content, gone) ==
  [e \in Entry |-> IF e \in gone THEN Absent ELSE content[e]]

WriteCommands == {"start", "oneoff", "end", "pause", "unpause"}
SyncCommands  == {"sync", "syncRemove", "syncBoth"}
TwoGates      == WriteCommands \cup SyncCommands
RequireAuth   == WriteCommands \cup SyncCommands \cup {"modify"}
LoginPrompts  == RequireAuth \cup {"remove"}

-----------------------------------------------------------------------------
(***************************************************************************)
(* Control of one command.                                                 *)
(***************************************************************************)
Goto(d, l) ==
  /\ pc' = [pc EXCEPT ![d] = l]
  /\ UNCHANGED <<cmd, round, pending, marked>>

\* The command returns, or an exception reaches the top of main().
Finish(d) ==
  /\ pc'      = [pc EXCEPT ![d] = "idle"]
  /\ cmd'     = [cmd EXCEPT ![d] = "none"]
  /\ round'   = [round EXCEPT ![d] = 1]
  /\ pending' = [pending EXCEPT ![d] = {}]
  /\ marked'  = [marked EXCEPT ![d] = {}]

\* check_and_sync answered READY or OFFLINE: both let the command go on.
\* Write commands and sync pass the gate twice, once in main() and once in
\* CLIInterface._sync_before_command or SyncOrchestrator.sync.
Proceed(d) ==
  \/ /\ cmd[d] \in {"view", "login"}
     /\ Finish(d)
  \/ /\ cmd[d] \in TwoGates
     /\ round[d] = 1
     /\ pc' = [pc EXCEPT ![d] = "gate"]
     /\ round' = [round EXCEPT ![d] = 2]
     /\ UNCHANGED <<cmd, pending, marked>>
  \/ /\ cmd[d] \notin {"view", "login"}
     /\ cmd[d] \in TwoGates => round[d] = 2
     /\ Goto(d, "act")

\* check_and_sync answered REAUTH_NEEDED.  At the first gate every command but
\* view asks for the passphrase (main._reauth_staging) and then reconciles, or
\* exits with the session cleared; at the second gate a write command gives up
\* and sync ignores the answer; view shows local data.
Reauth(d) ==
  \/ /\ cmd[d] \in LoginPrompts /\ round[d] = 1
     /\ pc' = [pc EXCEPT ![d] = "recPull"]
     /\ session' = [session EXCEPT ![d] = TRUE]
     /\ UNCHANGED <<cmd, round, pending, marked>>
  \/ /\ cmd[d] \in LoginPrompts /\ round[d] = 1
     /\ Finish(d)
     /\ session' = [session EXCEPT ![d] = FALSE]
  \/ /\ cmd[d] = "view" \/ (cmd[d] \in WriteCommands /\ round[d] = 2)
     /\ Finish(d)
     /\ UNCHANGED session
  \/ /\ cmd[d] \in SyncCommands /\ round[d] = 2
     /\ Goto(d, "act")
     /\ UNCHANGED session

-----------------------------------------------------------------------------
(***************************************************************************)
(* The local files.                                                        *)
(***************************************************************************)
\* Every write re-encrypts the staging file, so both saved hashes stop
\* matching, unless there was and is nothing to encrypt.
Rewrite(d, content) ==
  LET changes == Present(content) \cup Present(local[d]) # {} IN
  /\ local' = [local EXCEPT ![d] = content]
  /\ dirty' = [dirty EXCEPT ![d] = @ \/ changes]
  /\ wal'   = [wal EXCEPT ![d] = IF @ = "fresh" /\ changes THEN "stale" ELSE @]

\* DeviceCookie.destroy_locally
DestroyCookie(d) ==
  /\ lcookie' = [lcookie EXCEPT ![d] = "none"]
  /\ rcookie' = Orphaned(d)

\* StagingService._touch_local_cookie: the creation time becomes now.
TouchCookie(d) ==
  /\ lcookie' = [lcookie EXCEPT ![d] = IF @ = "none" THEN @ ELSE "valid"]
  /\ UNCHANGED rcookie

-----------------------------------------------------------------------------
(***************************************************************************)
(* A command starts: authentication, then WAL replay, then the gate.       *)
(***************************************************************************)
MayStart(d, c) ==
  /\ c \in Commands
  /\ pc[d] = "idle"
  /\ Serial => \A o \in Device : pc[o] = "idle"

\* _replay_wal with a WAL that needs no push: none, one older than a day
\* (_read_wal deletes it), one whose hash still matches, or no session key.
ReplaySkips(d) ==
  /\ pc' = [pc EXCEPT ![d] = "gate"]
  /\ \/ /\ wal[d] \in {"none", "old", "fresh"}
        /\ wal' = [wal EXCEPT ![d] = "none"]
     \/ /\ wal[d] = "stale" /\ ~session'[d]
        /\ UNCHANGED wal

\* _replay_wal when staging was written since and the session key is there.
ReplayPushes(d) ==
  /\ wal[d] = "stale" /\ session'[d]
  /\ pc' = [pc EXCEPT ![d] = "walPush"]
  /\ UNCHANGED wal

StartCommand(d, c) ==
  /\ MayStart(d, c)
  /\ c \notin {"login", "logout"}
  /\ session' = [session EXCEPT ![d] = @ \/ c \in RequireAuth]
  /\ cmd' = [cmd EXCEPT ![d] = c]
  /\ ReplaySkips(d) \/ ReplayPushes(d)
  /\ UNCHANGED <<local, dirty, cookies, blob, round, pending, marked, facts>>

\* ph login: the cookie is destroyed and staging reconciled, without replay.
Login(d) ==
  /\ MayStart(d, "login")
  /\ session' = [session EXCEPT ![d] = TRUE]
  /\ cmd' = [cmd EXCEPT ![d] = "login"]
  /\ pc'  = [pc EXCEPT ![d] = "recPull"]
  /\ DestroyCookie(d)
  /\ UNCHANGED <<files, blob, round, pending, marked, facts>>

\* ph logout, or ph login without the right passphrase: clear_session.
Logout(d) ==
  /\ MayStart(d, "logout") \/ MayStart(d, "login")
  /\ session[d]
  /\ session' = [session EXCEPT ![d] = FALSE]
  /\ UNCHANGED <<files, cookies, blob, control, facts>>

-----------------------------------------------------------------------------
(***************************************************************************)
(* StagingService.check_and_sync                                           *)
(***************************************************************************)
\* An unexpired cookie and an empty staging file: READY without any call.
GateNothingStaged(d) ==
  /\ pc[d] = "gate"
  /\ lcookie[d] = "valid" /\ Present(local[d]) = {}
  /\ Proceed(d)
  /\ UNCHANGED <<files, cookies, session, blob, facts>>

\* is_valid_locally destroys an expired cookie, and the gate asks for login.
GateExpired(d) ==
  /\ pc[d] = "gate"
  /\ lcookie[d] = "expired"
  /\ DestroyCookie(d)
  /\ Reauth(d)
  /\ UNCHANGED <<files, blob, facts>>

\* No cookie file at all: a cached key is enough to reconcile and claim.
GateNoCookie(d) ==
  /\ pc[d] = "gate"
  /\ lcookie[d] = "none"
  /\ \/ session[d] /\ Goto(d, "recPull") /\ UNCHANGED session
     \/ ~session[d] /\ Reauth(d)
  /\ UNCHANGED <<files, cookies, blob, facts>>

\* The remote cookie is pulled and compared with the local one.
GateCompare(d) ==
  /\ pc[d] = "gate"
  /\ lcookie[d] = "valid" /\ Present(local[d]) # {}
  /\ \/ /\ rcookie = d
        /\ \/ /\ session[d]
              /\ Goto(d, "fastPull")
              /\ UNCHANGED cookies
           \/ /\ ~session[d]
              /\ TouchCookie(d)
              /\ Proceed(d)
        /\ UNCHANGED session
     \/ /\ rcookie = "nobody"
        /\ \/ session[d] /\ Goto(d, "recPull") /\ UNCHANGED session
           \/ ~session[d] /\ Reauth(d)
        /\ UNCHANGED cookies
     \/ /\ rcookie \notin {d, "nobody"}
        /\ Reauth(d)
        /\ UNCHANGED cookies
  /\ UNCHANGED <<files, blob, facts>>

\* The remote cookie cannot be pulled: OFFLINE, or a timeout that is raised.
GateUnreachable(d) ==
  /\ "network" \in Faults
  /\ pc[d] = "gate"
  /\ lcookie[d] = "valid" /\ Present(local[d]) # {}
  /\ Proceed(d) \/ Finish(d)
  /\ UNCHANGED <<files, cookies, session, blob, facts>>

-----------------------------------------------------------------------------
(***************************************************************************)
(* StagingService._push_on_fast_path and _reconcile_and_claim              *)
(***************************************************************************)
\* The pulled blob is merged into the staging file.
PullMerges(d) ==
  /\ blob.kind = "staging"
  /\ Rewrite(d, Merge(local[d], blob.entries))

\* Mutant of PullLeavesStaging: BLOB_KEY_MISMATCH is taken for "no blob".
PullIgnoresMismatch(d) ==
  /\ blob.kind \in {"none", "foreign"}
  /\ UNCHANGED files

\* There is no blob, or merging it raised: staging stays as it is.
PullLeavesStaging(d) ==
  /\ blob.kind = "none" \/ (blob.kind = "staging" /\ "merge" \in Faults)
  /\ UNCHANGED files

\* The fast path pushes when the staging hash is not the last pushed one, even
\* over a blob it could not pull or decrypt.
FastPull(d) ==
  /\ pc[d] = "fastPull"
  /\ \/ PullMerges(d)
     \/ PullLeavesStaging(d)
     \/ (blob.kind = "foreign" \/ "network" \in Faults) /\ UNCHANGED files
  /\ \/ dirty'[d] /\ Goto(d, "fastPush") /\ UNCHANGED cookies
     \/ ~dirty'[d] /\ TouchCookie(d) /\ Proceed(d)
  /\ UNCHANGED <<session, blob, facts>>

\* Mutant of ReconcilePull: the cookie is claimed before the blob is pushed.
ReconcileClaimsFirst(d) ==
  /\ pc[d] = "recPull"
  /\ PullMerges(d) \/ PullLeavesStaging(d)
  /\ Goto(d, "recCookie")
  /\ UNCHANGED <<cookies, session, blob, facts>>

\* Reconciling pulls the cookie, whose content it does not use, and the blob.
ReconcilePull(d) ==
  /\ pc[d] = "recPull"
  /\ PullMerges(d) \/ PullLeavesStaging(d)
  /\ Goto(d, "recPush")
  /\ UNCHANGED <<cookies, session, blob, facts>>

\* A blob that the master key does not decrypt is not overwritten: OFFLINE.
ReconcileKeyMismatch(d) ==
  /\ pc[d] = "recPull"
  /\ blob.kind = "foreign"
  /\ Proceed(d)
  /\ UNCHANGED <<files, cookies, session, blob, facts>>

\* Pulling fails: OFFLINE, or the cookie pull times out and raises.
ReconcileUnreachable(d) ==
  /\ "network" \in Faults
  /\ pc[d] = "recPull"
  /\ Proceed(d) \/ Finish(d)
  /\ UNCHANGED <<files, cookies, session, blob, facts>>

-----------------------------------------------------------------------------
(***************************************************************************)
(* Pushing: push_blob_only (fast path, reconcile) and push_to_remote (WAL  *)
(* replay, sync), which then replace the cookie on both sides.             *)
(***************************************************************************)
Pushing  == {"walPush", "fastPush", "recPush", "syncPush"}
Claiming == {"walCookie", "recCookie", "syncCookie"}

PushBlob(d) ==
  /\ pc[d] \in Pushing
  /\ blob'  = Blob(local[d])
  /\ dirty' = [dirty EXCEPT ![d] = FALSE]
  /\ \/ pc[d] = "walPush"  /\ Goto(d, "walCookie")  /\ UNCHANGED cookies
     \/ pc[d] = "recPush"  /\ Goto(d, "recCookie")  /\ UNCHANGED cookies
     \/ pc[d] = "syncPush" /\ Goto(d, "syncCookie") /\ UNCHANGED cookies
     \/ pc[d] = "fastPush" /\ TouchCookie(d) /\ Proceed(d)
  /\ UNCHANGED <<local, wal, session, facts>>

\* Mutants of PushBlobFails: the push hash is saved although the push raised;
\* the WAL is cleared although the replayed push raised.
PushFailsSavingHash(d) ==
  /\ "network" \in Faults
  /\ pc[d] \in {"walPush", "fastPush"}
  /\ blob' \in {blob, Blob(local[d])}
  /\ dirty' = [dirty EXCEPT ![d] = FALSE]
  /\ \/ pc[d] = "walPush" /\ Goto(d, "gate") /\ UNCHANGED cookies
     \/ pc[d] = "fastPush" /\ TouchCookie(d) /\ Proceed(d)
  /\ UNCHANGED <<local, wal, session, facts>>

PushFailsClearingWal(d) ==
  /\ "network" \in Faults
  /\ pc[d] = "walPush"
  /\ blob' \in {blob, Blob(local[d])}
  /\ wal' = [wal EXCEPT ![d] = "none"]
  /\ Goto(d, "gate")
  /\ UNCHANGED <<local, dirty, cookies, session, facts>>

\* The push raises, with or without effect on the store.  WAL replay and the
\* fast path swallow the exception; reconcile and sync let it end the command.
PushBlobFails(d) ==
  /\ "network" \in Faults
  /\ pc[d] \in Pushing
  /\ blob' \in {blob, Blob(local[d])}
  /\ \/ pc[d] = "walPush" /\ Goto(d, "gate") /\ UNCHANGED cookies
     \/ pc[d] = "fastPush" /\ TouchCookie(d) /\ Proceed(d)
     \/ pc[d] \in {"recPush", "syncPush"} /\ Finish(d) /\ UNCHANGED cookies
  /\ UNCHANGED <<files, session, facts>>

\* Mutant of ClaimCookie: reconciling keeps the fresh cookie to itself.
ClaimLocally(d) ==
  /\ pc[d] \in Claiming
  /\ lcookie' = [lcookie EXCEPT ![d] = "valid"]
  /\ \/ pc[d] = "walCookie"
        /\ rcookie' = d
        /\ wal' = [wal EXCEPT ![d] = "none"]
        /\ Goto(d, "gate")
     \/ pc[d] = "recCookie" /\ rcookie' = Orphaned(d) /\ Proceed(d) /\ UNCHANGED wal
     \/ pc[d] = "syncCookie" /\ rcookie' = d /\ Finish(d) /\ UNCHANGED wal
  /\ UNCHANGED <<local, dirty, session, blob, facts>>

\* A fresh cookie is written locally and then pushed; if that push fails the
\* error is swallowed and the remote specifier matches nobody or another device.
ClaimCookie(d) ==
  /\ pc[d] \in Claiming
  /\ lcookie' = [lcookie EXCEPT ![d] = "valid"]
  /\ \/ rcookie' = d
     \/ "network" \in Faults /\ rcookie' = Orphaned(d)
  /\ \/ pc[d] = "walCookie"
        /\ wal' = [wal EXCEPT ![d] = "none"]
        /\ Goto(d, "gate")
     \/ pc[d] = "recCookie" /\ Proceed(d) /\ UNCHANGED wal
     \/ pc[d] = "syncCookie" /\ Finish(d) /\ UNCHANGED wal
  /\ UNCHANGED <<local, dirty, session, blob, facts>>

-----------------------------------------------------------------------------
(***************************************************************************)
(* The local change of a command, and the WAL bookmark of write commands.  *)
(***************************************************************************)
Change(d, e, from, to) ==
  /\ local[d][e] \in from
  /\ Rewrite(d, [local[d] EXCEPT ![e] = to])

\* ph add start, add oneoff: StagingService.capture
Capture(d) ==
  /\ pc[d] = "act" /\ cmd[d] \in {"start", "oneoff"}
  /\ \E e \in Entry \ captured :
       /\ \A x \in Entry \ captured : e <= x
       /\ Change(d, e, {Absent}, IF cmd[d] = "start" THEN "active" ELSE "ended")
       /\ captured' = captured \cup {e}
  /\ TouchCookie(d)
  /\ Goto(d, "walWrite")
  /\ UNCHANGED <<session, blob, discarded, commits>>

\* ph add end, pause, unpause on an entry that is not ended: ending closes an
\* open pause, and pausing or resuming twice rewrites the entry twice.
Running == {"active", "paused"}

ChangeActive(d) ==
  /\ pc[d] = "act"
  /\ \E e \in Entry :
       \/ cmd[d] = "end"     /\ Change(d, e, Running, "ended")
       \/ cmd[d] = "pause"   /\ Change(d, e, Running, "paused")
       \/ cmd[d] = "unpause" /\ Change(d, e, Running, "active")
  /\ TouchCookie(d)
  /\ Goto(d, "walWrite")
  /\ UNCHANGED <<session, blob, facts>>

\* The command finds no entry to work on and raises, or the bound on captured
\* entries is reached.
NothingToDo(d) ==
  /\ pc[d] = "act"
  /\ \/ cmd[d] \in {"start", "oneoff"} /\ captured = Entry
     \/ /\ cmd[d] \in {"end", "pause", "unpause"}
        /\ \A e \in Entry : local[d][e] \notin Running
  /\ Finish(d)
  /\ UNCHANGED <<files, cookies, session, blob, facts>>

\* ph modify and ph remove read entries by their plain key names, which staging
\* encodes as tokens: after the gate they find nothing or raise KeyError.
LegacyCommandRaises(d) ==
  /\ pc[d] = "act" /\ cmd[d] \in {"modify", "remove"}
  /\ Finish(d)
  /\ UNCHANGED <<files, cookies, session, blob, facts>>

\* CLIInterface._defer_push: the WAL records the hash of the staging file.
\* The background push it spawns fails before it pushes anything.
WriteWal(d) ==
  /\ pc[d] = "walWrite"
  /\ wal' = [wal EXCEPT ![d] = "fresh"]
  /\ Finish(d)
  /\ UNCHANGED <<local, dirty, cookies, session, blob, facts>>

-----------------------------------------------------------------------------
(***************************************************************************)
(* SyncOrchestrator.sync after its gate: commit, remove from staging, push.*)
(***************************************************************************)
Ended(d) == {e \in Entry : local[d][e] = "ended"}

\* The user or --till selects some of the completed entries and may mark others
\* for removal; the selected ones are committed.
CommitEntries(d) ==
  /\ pc[d] = "act" /\ cmd[d] \in {"sync", "syncBoth"}
  /\ \E chosen, unwanted \in SUBSET Ended(d) :
       /\ chosen # {} /\ chosen \cap unwanted = {}
       /\ (unwanted # {}) <=> (cmd[d] = "syncBoth")
       /\ pending' = [pending EXCEPT ![d] = chosen]
       /\ marked' = [marked EXCEPT ![d] = {Position(local[d], e) : e \in unwanted}]
       /\ discarded' = discarded \cup unwanted
       /\ commits' = [e \in Entry |->
            IF e \in chosen /\ commits[e] < 2 THEN commits[e] + 1 ELSE commits[e]]
  /\ pc' = [pc EXCEPT ![d] = "drop"]
  /\ UNCHANGED <<files, cookies, session, blob, cmd, round, captured>>

\* Nothing is selected: only the marked entries go.
MarkEntries(d) ==
  /\ pc[d] = "act" /\ cmd[d] = "syncRemove"
  /\ \E unwanted \in (SUBSET Ended(d)) \ {{}} :
       /\ marked' = [marked EXCEPT ![d] = {Position(local[d], e) : e \in unwanted}]
       /\ discarded' = discarded \cup unwanted
  /\ pc' = [pc EXCEPT ![d] = "dropMarked"]
  /\ UNCHANGED <<files, cookies, session, blob, cmd, round, pending,
                 captured, commits>>

\* Nothing is pending, selected or marked, or the user cancels.
CommitNothing(d) ==
  /\ pc[d] = "act" /\ cmd[d] \in SyncCommands
  /\ Finish(d)
  /\ UNCHANGED <<files, cookies, session, blob, facts>>

\* Mutants of DropCommitted: all completed entries go, not only the committed
\* ones; the shortened staging file is not pushed.
DropEnded(d) ==
  /\ pc[d] = "drop"
  /\ Rewrite(d, Without(local[d], Ended(d)))
  /\ TouchCookie(d)
  /\ Goto(d, "syncPush")
  /\ UNCHANGED <<session, blob, facts>>

DropWithoutPush(d) ==
  /\ pc[d] = "drop"
  /\ Rewrite(d, Without(local[d], pending[d]))
  /\ TouchCookie(d)
  /\ Finish(d)
  /\ UNCHANGED <<session, blob, facts>>

\* remove_synced with the committed entries, and then with the positions marked
\* for removal, which were computed before the first call shortened the list.
DropCommitted(d) ==
  /\ pc[d] = "drop"
  /\ Rewrite(d, Without(local[d], pending[d]))
  /\ TouchCookie(d)
  /\ Goto(d, IF marked[d] = {} THEN "syncPush" ELSE "dropMarked")
  /\ UNCHANGED <<session, blob, facts>>

DropMarked(d) ==
  /\ pc[d] = "dropMarked"
  /\ Rewrite(d, Without(local[d],
                 {e \in Present(local[d]) : Position(local[d], e) \in marked[d]}))
  /\ TouchCookie(d)
  /\ Goto(d, "syncPush")
  /\ UNCHANGED <<session, blob, facts>>

-----------------------------------------------------------------------------
(***************************************************************************)
(* The environment.                                                        *)
(***************************************************************************)
\* The command is killed.  Between destroying the old cookie file and writing
\* the new one that leaves no cookie at all.
Crash(d) ==
  /\ "crash" \in Faults
  /\ pc[d] # "idle"
  /\ \/ UNCHANGED cookies
     \/ pc[d] \in Claiming /\ DestroyCookie(d)
  /\ Finish(d)
  /\ UNCHANGED <<files, session, blob, facts>>

ExpireCookie(d) ==
  /\ "expiry" \in Faults
  /\ lcookie[d] = "valid"
  /\ lcookie' = [lcookie EXCEPT ![d] = "expired"]
  /\ UNCHANGED <<files, rcookie, session, blob, control, facts>>

AgeWal(d) ==
  /\ "age" \in Faults
  /\ pc[d] = "idle"
  /\ wal[d] \in {"fresh", "stale"}
  /\ wal' = [wal EXCEPT ![d] = "old"]
  /\ UNCHANGED <<local, dirty, cookies, session, blob, control, facts>>

\* Another identity, or this one under a rotated key, writes the remote: its
\* blob and then its cookie, unless that push fails.
ForeignWrite ==
  /\ "foreign" \in Faults
  /\ Serial => \A d \in Device : pc[d] = "idle"
  /\ blob.kind # "foreign"
  /\ blob' = ForeignBlob
  /\ rcookie' \in {rcookie, "orphan"}
  /\ UNCHANGED <<files, lcookie, session, control, facts>>

-----------------------------------------------------------------------------
Init ==
  /\ local     = [d \in Device |-> EmptyContent]
  /\ dirty     = [d \in Device |-> TRUE]
  /\ wal       = [d \in Device |-> "none"]
  /\ lcookie   = [d \in Device |-> "none"]
  /\ session   = [d \in Device |-> FALSE]
  /\ blob      = NoBlob
  /\ rcookie   = "nobody"
  /\ pc        = [d \in Device |-> "idle"]
  /\ cmd       = [d \in Device |-> "none"]
  /\ round     = [d \in Device |-> 1]
  /\ pending   = [d \in Device |-> {}]
  /\ marked    = [d \in Device |-> {}]
  /\ captured  = {}
  /\ discarded = {}
  /\ commits   = [e \in Entry |-> 0]

Start(d)     == (\E c \in Commands : StartCommand(d, c)) \/ Login(d) \/ Logout(d)
Gate(d)      == \/ GateNothingStaged(d) \/ GateExpired(d) \/ GateNoCookie(d)
                \/ GateCompare(d) \/ GateUnreachable(d)
Pull(d)      == \/ FastPull(d) \/ ReconcilePull(d) \/ ReconcileKeyMismatch(d)
                \/ ReconcileUnreachable(d)
Push(d)      == PushBlob(d) \/ PushBlobFails(d) \/ ClaimCookie(d)
LocalWork(d) == \/ Capture(d) \/ ChangeActive(d) \/ NothingToDo(d)
                \/ LegacyCommandRaises(d) \/ WriteWal(d)
Sync(d)      == \/ CommitEntries(d) \/ MarkEntries(d) \/ CommitNothing(d)
                \/ DropCommitted(d) \/ DropMarked(d)
Mishap(d)    == Crash(d) \/ ExpireCookie(d) \/ AgeWal(d)

Next ==
  \/ \E d \in Device : \/ Start(d) \/ Gate(d) \/ Pull(d) \/ Push(d)
                       \/ LocalWork(d) \/ Sync(d) \/ Mishap(d)
  \/ ForeignWrite

Spec == Init /\ [][Next]_vars
-----------------------------------------------------------------------------
(***************************************************************************)
(* Properties.                                                             *)
(***************************************************************************)
Steps == {"idle", "act", "walWrite", "drop", "dropMarked", "gate", "fastPull",
          "recPull"}
           \cup Pushing \cup Claiming

FilesOK ==
  /\ local \in [Device -> Content]
  /\ dirty \in [Device -> BOOLEAN]
  /\ wal   \in [Device -> {"none", "fresh", "stale", "old"}]

CookiesOK ==
  /\ lcookie \in [Device -> {"none", "valid", "expired"}]
  /\ rcookie \in Device \cup {"nobody", "orphan"}
  /\ \A d \in Device : rcookie = d => lcookie[d] # "none"

ControlOK ==
  /\ pc      \in [Device -> Steps]
  /\ cmd     \in [Device -> AllCommands \cup {"none"}]
  /\ round   \in [Device -> 1..2]
  /\ pending \in [Device -> SUBSET Entry]
  /\ marked  \in [Device -> SUBSET Nat]

SessionOK ==
  /\ session \in [Device -> BOOLEAN]

BlobOK == blob \in [kind : {"none", "staging", "foreign"}, entries : Content]

FactsOK ==
  /\ captured  \in SUBSET Entry
  /\ discarded \in SUBSET Entry
  /\ commits   \in [Entry -> 0..2]

\* Every variable keeps its type, and a remote cookie that names a device means
\* that the device has a cookie file (it names the specifier in that file).
TypeOK == FilesOK /\ CookiesOK /\ ControlOK /\ SessionOK /\ BlobOK /\ FactsOK

\* A captured entry that no user removed and no ledger holds is still in the
\* staging file of some device, whatever fails and whoever pushes over whom:
\* merging only adds, and sync drops from staging only what it has committed.
NoEntryLost ==
  \A e \in captured \ discarded :
    commits[e] = 0 => \E d \in Device : e \in Present(local[d])

\* push_to_remote's promise (service.py:987-998): the blob goes first.  When
\* the remote cookie comes to name d, what d has staged has been pushed and
\* d's push hash says so; a cookie never announces a blob that is not there.
ClaimFollowsPush ==
  [][\A d \in Device : (rcookie # d /\ rcookie' = d) => ~dirty[d] /\ ~dirty'[d]]_vars

\* A WAL whose hash no longer matches goes away only when the push it stands
\* for has succeeded; a failed replay leaves it for the next command.
ReplayKeepsWal ==
  [][\A d \in Device : (wal[d] = "stale" /\ wal'[d] = "none") => ~dirty[d]]_vars

\* F3: the fast path skips its push when the staging hash is the last pushed
\* one.  With one device that is sound: a clean hash means that the remote
\* blob is what the device has staged, also after failed pushes and crashes.
SkippedPushIsRedundant ==
  \A d \in Device : ~dirty[d] => blob = Blob(local[d])

\* When users run one command at a time and nothing fails, the device that the
\* remote cookie names is current: if it has no unpushed change, the remote
\* blob is exactly what it has staged, no matter what the others have pushed.
HolderIsCurrent ==
  (\A d \in Device : pc[d] = "idle")
    => \A d \in Device : (rcookie = d /\ ~dirty[d]) => blob = Blob(local[d])

\* The custody of entries as EntryCustody states it: StagingSync implements it
\* with the devices' staging files as what is held.
Held    == {e \in Entry : \E d \in Device : e \in Present(local[d])}
Settled == discarded \cup {e \in Entry : commits[e] > 0}
Custody == INSTANCE EntryCustody WITH held <- Held, settled <- Settled
CustodySpec == Custody!Spec

\* service.py:911-918: when commands do not interleave with the foreign writer,
\* login and reconciling never overwrite a blob that the master key does not
\* decrypt, whatever fails.  (The fast path and push_to_remote do overwrite it.)
ReconcileSparesForeign ==
  [][(blob.kind = "foreign" /\ blob'.kind # "foreign")
       => \A d \in Device : pc[d] = "recPush" => pc'[d] = "recPush"]_vars

\* No entry reaches the ledger twice.
NoDoubleCommit == \A e \in Entry : commits[e] < 2
=============================================================================
