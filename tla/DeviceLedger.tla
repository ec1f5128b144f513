----------------------------- MODULE DeviceLedger -----------------------------
(***************************************************************************)
(* The three data files of one device: staging.json, ledger.json and       *)
(* index.json, and the commands that move entries between them.            *)
(*                                                                         *)
(* LocalStagingCache keeps what is staged, LedgerEngine commits it to day  *)
(* blocks and reverts day blocks to it, IndexManager keeps the durations   *)
(* per day and title, and LedgerDomain is the version 0.3.0 interface to   *)
(* the same files, which `ph modify`, `remove` and `revert` still use.     *)
(* Every file is written on its own: a step is one write, with the local   *)
(* work before it, and a kill may come between two.                        *)
(*                                                                         *)
(* One command runs at a time.  What other devices do appears as Pull and  *)
(* Rewrite; the gate on staging is the subject of StagingSync, the pushes  *)
(* and merges at the end of a sync that of LedgerSync: of them the steps   *)
(* here are Pull and Publish, and of the remote ledger what a sync reads   *)
(* of it before it selects.                                                *)
(***************************************************************************)
EXTENDS LedgerBlocks

CONSTANTS
  Entry,       \* entries, by their start_epoch
  Foreign,     \* those that another device commits
  Dates,       \* days entries may start on
  Title,       \* their titles
  Span,        \* time from the start of an entry to its end
  FirstDate,   \* day of the genesis block
  Interfaces,  \* who uses the files, a subset of AllInterfaces
  Faults,      \* what may go wrong, a subset of AllFaults
  MaxBlocks,   \* bound on the blocks a commit starts from, or a push
  MaxPushed,   \* bound on the entries the remote shows when a block is pushed
  MaxStaged,   \* bound on the entries in staging when a command moves them
  MaxPauses,   \* bound on the pauses of an entry
  MaxFaults    \* bound on the faults of a behaviour

AllInterfaces == {"cli",    \* StagingService and LedgerEngine
                  "v030"}   \* LedgerDomain

AllFaults == {"kill",    \* the client is killed between two writes
              "reseal",  \* authenticate seals the genesis block again
              "pull"}    \* a block of another device is appended

ASSUME EntriesAssumption    == Foreign \subseteq Entry
ASSUME DatesAssumption      == Dates \subseteq Nat /\ FirstDate \in Nat
ASSUME SpanAssumption       == Span \in [Entry -> Nat \ {0}]
ASSUME InterfacesAssumption == Interfaces \subseteq AllInterfaces
ASSUME FaultsAssumption     == Faults \subseteq AllFaults
ASSUME BoundsAssumption     == MaxBlocks \in Nat /\ MaxPushed \in Nat /\ MaxStaged \in Nat
                            /\ MaxPauses \in Nat /\ MaxFaults \in Nat

VARIABLES
  \* ---- files
  staging,    \* staging.json: the staged entries in order
  ledger,     \* ledger.json
  stale,      \* its second block names an earlier hash of the first
  index,      \* index.json: its encrypted part, its plain part
  remote,     \* entries the remote ledger has with a plain title, and their days
  \* ---- the command that runs
  pc,
  days,       \* day blocks still to be committed
  owed,       \* summaries still to be appended before the next of them
  counted,    \* entries of the day already added to or taken from the index
  chosen,     \* positions in staging the commit takes
  reverting,  \* number of day blocks a revert takes back
  \* ---- history
  start,      \* the day an entry starts on, once captured
  removed,    \* entries the user removed
  dropped,    \* entries a sync took from staging because of the remote ledger
  disturbed   \* how often something other than a complete command of one
              \* interface has written the files

files   == <<staging, ledger, stale, index, remote>>
control == <<pc, days, owed, counted, chosen, reverting>>
history == <<start, removed, dropped, disturbed>>
vars    == <<files, control, history>>

Captured == DOMAIN start

\* A staged entry.  Names of its fields are tokens of the master key, or plain;
\* version 0.3.0 encrypts the values under plain names, a revert does not.  Of
\* its pauses, closed are counted by their time, open ones by number.
Staged == [id : Entry, format : {"token", "legacy", "plain"},
           status : {"active", "paused", "ended"},
           closed : Nat, open : Nat, duration : Nat]

\* An entry in a block.  The title of a foreign entry may be encrypted; an
\* entry committed here has a plain title and no pauses, because
\* get_pending_sync passes on neither.
Committed == [id : Entry, sealed : BOOLEAN, duration : Nat]

Cell        == Dates \X {Title[e] : e \in Entry}
Index       == [Cell -> Nat]
EmptyIndex  == [c \in Cell |-> 0]

Steps == {"idle", "select", "append", "verify", "remove", "uncount", "restore",
          "truncate", "index030", "staging030"}

\* Types of files, control and history.  The ledger starts with genesis.
TypeOK ==
  /\ staging \in Seq(Staged)
  /\ ledger # <<>> /\ ledger[1] = Genesis(FirstDate)
  /\ \A i \in 2..Len(ledger) :
       \/ ledger[i].kind = "day" /\ ledger[i].entries \in Seq(Committed)
       \/ IsSummary(ledger[i]) /\ ledger[i].entries = <<>>
  /\ stale \in BOOLEAN
  /\ index \in [sealed : Index, plain : Index, wrapped : BOOLEAN]
  /\ remote \subseteq Entry \X Dates
  /\ pc \in Steps
  /\ counted \in Nat /\ reverting \in Nat
  /\ chosen \subseteq DOMAIN staging
  /\ Captured \subseteq Entry /\ start \in [Captured -> Dates]
  /\ removed \subseteq Captured /\ dropped \subseteq Captured
  /\ disturbed \in Nat

Init ==
  /\ staging = <<>>
  /\ ledger = <<Genesis(FirstDate)>>
  /\ stale = FALSE
  /\ index = [sealed |-> EmptyIndex, plain |-> EmptyIndex, wrapped |-> FALSE]
  /\ remote = {}
  /\ pc = "idle"
  /\ days = <<>> /\ owed = <<>> /\ counted = 0 /\ chosen = {} /\ reverting = 0
  /\ start = <<>>
  /\ removed = {} /\ dropped = {}
  /\ disturbed = 0

-----------------------------------------------------------------------------
\* Entries.

\* _compute_duration: open pauses do not count, and nothing is negative.
Duration(s) ==
  IF Span[s.id] > s.closed THEN Span[s.id] - s.closed ELSE 0

\* LocalStagingCache.write_entries and update write tokens.
Tokenised(s) == [s EXCEPT !.format = "token"]

\* get_pending_sync of both interfaces; that of version 0.3.0 and its commits
\* raise when a completed entry has tokens for names.
Pending        == {i \in DOMAIN staging : staging[i].status = "ended"}
LegacyReadable == \A i \in Pending : staging[i].format # "token"

\* Staging without the entries at some positions.
Without(positions) == Picked(staging, DOMAIN staging \ positions)

\* _prepare_entries on what get_pending_sync returns.
Prepared(s) == [id |-> s.id, sealed |-> FALSE, duration |-> s.duration]

\* The staging entry that revert makes of a committed one.
Restored(c) == [id |-> c.id, format |-> "plain", status |-> "ended",
                closed |-> 0, open |-> 0, duration |-> c.duration]

\* IndexManager._load: a wrapped file is read for its encrypted part only.
Loaded == IF index.wrapped THEN index.sealed ELSE index.plain

\* IndexManager._flush
Flushed(cells) == [sealed |-> cells, plain |-> EmptyIndex, wrapped |-> TRUE]

\* Mutant of Adjusted: a total may fall below zero.
AdjustedBelowZero(cells, c, delta) == [cells EXCEPT ![c] = @ + delta]

\* Mutant of Adjusted: what falls below zero is kept as it was.
AdjustedNeverRemoves(cells, c, delta) ==
  IF cells[c] + delta <= 0 THEN cells ELSE [cells EXCEPT ![c] = @ + delta]

\* IndexManager.update: a title whose total falls to zero or below goes.
Adjusted(cells, c, delta) ==
  [cells EXCEPT ![c] = IF @ + delta > 0 THEN @ + delta ELSE 0]

CellOf(date, e) == <<date, Title[e.id]>>

\* What dated entries of the day and title of cell c last together, as
\* rebuild_index counts them.  It skips encrypted titles, which only come from
\* other devices: nothing is said of the index after a Pull.
Total(placed, c) ==
  LET sum[k \in 0..Len(placed)] ==
        IF k = 0 THEN 0
        ELSE IF CellOf(placed[k].date, placed[k].entry) = c
               THEN sum[k - 1] + placed[k].entry.duration
               ELSE sum[k - 1]
  IN sum[Len(placed)]

-----------------------------------------------------------------------------
\* Commands on staged entries.

Idle == pc = "idle" /\ UNCHANGED control

\* capture and capture_habit: a running entry, or a completed one for
\* `ph add oneoff`.  start_epoch is new, so that the collision check passes.
Capture(e, date, status, interface) ==
  /\ Idle
  /\ e \notin Captured \cup Foreign
  /\ status \in {"active", "ended"}
  /\ start' = [x \in Captured \cup {e} |-> IF x = e THEN date ELSE start[x]]
  /\ staging' = Append(staging,
       [id |-> e,
        format |-> IF interface = "v030" THEN "legacy" ELSE "token",
        status |-> status, closed |-> 0, open |-> 0,
        duration |-> IF status = "ended" THEN Span[e] ELSE 0])
  /\ UNCHANGED <<ledger, stale, index, remote, removed, dropped, disturbed>>

\* StagingService changes the entry and writes it with tokens.  LedgerDomain
\* only reads plain names, and keeps them.
Change(i, new, interface) ==
  /\ Idle
  /\ interface = "v030" => staging[i].format # "token"
  /\ staging' = [staging EXCEPT ![i] =
                   IF interface = "v030" THEN new ELSE Tokenised(new)]

\* pause and pause_habit.  add_pause does not ask whether the entry is paused
\* already, and opens a second pause; pause_habit refuses.
Pause(i, interface) ==
  LET s == staging[i] IN
  /\ s.status \in {"active", "paused"}
  /\ s.status = "paused" => interface = "cli"
  /\ s.closed + s.open < MaxPauses
  /\ Change(i, [s EXCEPT !.status = "paused", !.open = @ + 1], interface)
  /\ UNCHANGED <<ledger, stale, index, remote, history>>

\* close_pause closes the last pause record only.  An open pause lasts one unit
\* of time before the next command on its entry; a record that stays open is
\* never closed again.
Closing(s) == [s EXCEPT !.status = "active", !.closed = @ + 1, !.open = 0]

\* unpause and unpause_habit
Unpause(i, interface) ==
  LET s == staging[i] IN
  /\ s.status = "paused"
  /\ Change(i, Closing(s), interface)
  /\ UNCHANGED <<ledger, stale, index, remote, history>>

\* end and end_habit: a pause of a paused entry is closed first, then the
\* duration is computed.
End(i, interface) ==
  LET s == staging[i]
      c == IF s.status = "paused" THEN Closing(s) ELSE s
  IN /\ s.status \in {"active", "paused"}
     /\ Change(i, [c EXCEPT !.status = "ended", !.duration = Duration(c)],
               interface)
     /\ UNCHANGED <<ledger, stale, index, remote, history>>

\* `ph modify`: modify_staged_entry computes the duration again from the
\* pauses it finds.  The preview that comes first raises on tokens.
Modify(i) ==
  LET s == staging[i] IN
  /\ LegacyReadable
  /\ s.status = "ended"
  /\ Change(i, [s EXCEPT !.duration = Duration(s)], "v030")
  /\ UNCHANGED <<ledger, stale, index, remote, history>>

\* `ph remove`: remove_staged_entry, after a list that raises on tokens.
RemoveStaged(i) ==
  /\ Idle
  /\ \A j \in DOMAIN staging : staging[j].format # "token"
  /\ staging' = RemoveAt(staging, i)
  /\ removed' = removed \cup {staging[i].id}
  /\ UNCHANGED <<ledger, stale, index, remote, start, dropped, disturbed>>

\* A merge with the remote staging blob writes every entry back.
Rewrite ==
  /\ Idle
  /\ staging' = [i \in DOMAIN staging |-> Tokenised(staging[i])]
  /\ UNCHANGED <<ledger, stale, index, remote, history>>

-----------------------------------------------------------------------------
\* Commit.

\* The command ends, and its counters are at rest.
Done ==
  /\ pc' = "idle"
  /\ days' = <<>> /\ owed' = <<>> /\ counted' = 0 /\ chosen' = {}
  /\ reverting' = 0
  /\ UNCHANGED <<remote, start, removed, dropped>>

\* Entries taken from staging, grouped by day.
DaysOf(positions) ==
  LET grouped == GroupByDate(Picked(staging, positions), start)
  IN [k \in DOMAIN grouped |->
        [grouped[k] EXCEPT !.entries =
           [j \in DOMAIN @ |-> Prepared(@[j])]]]

\* Mutant of Recognised: the day is not compared.
RecognisedByTitle(i, seen) ==
  staging[i].format = "plain" /\ \E p \in seen : Title[p[1]] = Title[staging[i].id]

\* _deduplicate_from_remote_ledger compares the day and the title of what it
\* reads of the remote ledger with those of staged entries in plain fields.
Recognised(i, seen) ==
  LET s == staging[i] IN
  s.format = "plain" /\ <<Title[s.id], start[s.id]>> \in {<<Title[p[1]], p[2]>> : p \in seen}

\* sync: what the remote ledger seems to have is dropped from staging.  Nothing
\* is seen of it without a remote, or of its blocks that cannot be read.
StartSync ==
  /\ pc = "idle"
  /\ Len(ledger) <= MaxBlocks /\ Len(staging) <= MaxStaged
  /\ \E seen \in SUBSET remote :
       LET known == {i \in DOMAIN staging : Recognised(i, seen)} IN
       /\ staging' = Without(known)
       /\ dropped' = dropped \cup {staging[i].id : i \in known}
  /\ pc' = "select"
  /\ UNCHANGED <<ledger, stale, index, remote, days, owed, counted, chosen,
                 reverting, start, removed, disturbed>>

\* There is nothing to commit, the user selects nothing or cancels.
SelectNothing ==
  /\ pc = "select"
  /\ Done
  /\ UNCHANGED <<staging, ledger, stale, index, disturbed>>

\* The pending entries a user selects are grouped and encrypted, and the
\* summaries before the first day are determined.
Select(positions) ==
  /\ pc = "select"
  /\ pc' = "append"
  /\ chosen' = positions
  /\ days' = DaysOf(positions)
  /\ owed' = Summaries(Last(ledger), days'[1].date)
  /\ UNCHANGED <<files, counted, reverting, history>>

\* _commit_day appends the summaries one at a time,
AppendSummary ==
  /\ pc = "append" /\ owed # <<>>
  /\ ledger' = Append(ledger, owed[1])
  /\ owed' = Tail(owed)
  /\ UNCHANGED <<staging, stale, index, remote, pc, days, counted, chosen,
                 reverting, history>>

\* adds the entries to the index, with a write for each,
CountEntry ==
  LET day == days[1]
      e   == day.entries[counted + 1]
  IN /\ pc = "append" /\ owed = <<>>
     /\ counted < Len(day.entries)
     /\ index' = Flushed(Adjusted(Loaded, CellOf(day.date, e), e.duration))
     /\ counted' = counted + 1
     /\ UNCHANGED <<staging, ledger, stale, remote, pc, days, owed, chosen,
                    reverting, history>>

\* and appends the day block.
AppendDay ==
  /\ pc = "append" /\ owed = <<>>
  /\ counted = Len(days[1].entries)
  /\ ledger' = Append(ledger, days[1])
  /\ days' = Tail(days)
  /\ counted' = 0
  /\ IF days' = <<>>
       THEN owed' = <<>> /\ pc' = "verify"
       ELSE owed' = Summaries(days[1], days'[1].date) /\ pc' = pc
  /\ UNCHANGED <<staging, stale, index, remote, chosen, reverting, history>>

\* LedgerChain.verify holds: the entries may be removed from staging.
VerifyHolds ==
  /\ pc = "verify" /\ ~stale
  /\ pc' = "remove"
  /\ UNCHANGED <<files, days, owed, counted, chosen, reverting, history>>

\* It does not: sync calls revert(1).
VerifyFails ==
  /\ pc = "verify" /\ stale
  /\ pc' = "uncount"
  /\ reverting' = 1
  /\ UNCHANGED <<files, days, owed, counted, chosen, history>>

\* remove_synced drops the positions that were committed.
RemoveSynced ==
  /\ pc = "remove"
  /\ staging' = Without(chosen)
  /\ Done
  /\ UNCHANGED <<ledger, stale, index, disturbed>>

-----------------------------------------------------------------------------
\* Revert.

FirstReverted == RevertStart(ledger, reverting)

\* Entries of the day blocks to revert, each with the day of its block.
RevertedEntries == Placed(SubSeq(ledger, FirstReverted, Len(ledger)))

\* The days entries start on, with those of reverted foreign entries.
StartsKnown ==
  LET back == ToSet(RevertedEntries) IN
  [e \in Captured \cup {r.entry.id : r \in back} |->
     IF e \in Captured THEN start[e]
     ELSE (CHOOSE r \in back : r.entry.id = e).date]

\* `ph revert N`; more than the day blocks there are is refused.
StartRevert(n) ==
  /\ pc = "idle"
  /\ n \in 1..Cardinality(DayPositions(ledger))
  /\ Len(staging) <= MaxStaged
  /\ pc' = "uncount"
  /\ reverting' = n
  /\ UNCHANGED <<files, days, owed, counted, chosen, history>>

\* revert takes the entries from the index, with a write for each.  It has
\* decrypted a title by then, so that an encrypted one is taken as well,
UncountEntry ==
  /\ pc = "uncount"
  /\ counted < Len(RevertedEntries)
  /\ LET r == RevertedEntries[counted + 1] IN
       index' = Flushed(Adjusted(Loaded, CellOf(r.date, r.entry),
                                 0 - r.entry.duration))
  /\ counted' = counted + 1
  /\ UNCHANGED <<staging, ledger, stale, remote, pc, days, owed, chosen,
                 reverting, history>>

\* writes them to staging,
RestoreStaging ==
  /\ pc = "uncount"
  /\ counted = Len(RevertedEntries)
  /\ staging' = staging \o [k \in DOMAIN RevertedEntries |->
                              Restored(RevertedEntries[k].entry)]
  /\ start' = StartsKnown
  /\ pc' = "truncate"
  /\ UNCHANGED <<ledger, stale, index, remote, days, owed, counted, chosen,
                 reverting, removed, dropped, disturbed>>

\* Mutant of TruncateLedger: the first of the day blocks is kept.
TruncateOneLess ==
  /\ pc = "truncate"
  /\ ledger' = SubSeq(ledger, 1, FirstReverted)
  /\ stale' = (stale /\ Len(ledger') > 1)
  /\ Done
  /\ UNCHANGED <<staging, index, disturbed>>

\* and cuts the ledger before the first of the day blocks.
TruncateLedger ==
  /\ pc = "truncate"
  /\ ledger' = SubSeq(ledger, 1, FirstReverted - 1)
  /\ stale' = (stale /\ Len(ledger') > 1)
  /\ Done
  /\ UNCHANGED <<staging, index, disturbed>>

-----------------------------------------------------------------------------
\* The commits of version 0.3.0.

\* sync_day_with_selection and sync_day append all blocks with one write.
SyncDay030(positions) ==
  /\ pc = "idle"
  /\ Len(ledger) <= MaxBlocks /\ Len(staging) <= MaxStaged
  /\ LegacyReadable
  /\ chosen' = positions
  /\ days' = DaysOf(positions)
  /\ ledger' = LegacyCommit(ledger, days')
  /\ pc' = "index030"
  /\ UNCHANGED <<staging, stale, index, remote, owed, counted, reverting,
                 history>>

\* They add the entries to the plain part of the index.  The engine does not
\* see it beside an encrypted part, and drops it with its next write.
Index030 ==
  /\ pc = "index030"
  /\ index' = [index EXCEPT !.plain = [c \in Cell |-> @[c] + Total(Placed(days), c)]]
  /\ pc' = "staging030"
  /\ disturbed' = IF index.wrapped /\ disturbed = 0 THEN 1 ELSE disturbed
  /\ UNCHANGED <<staging, ledger, stale, remote, days, owed, counted, chosen,
                 reverting, start, removed, dropped>>

\* They drop what was committed from staging.
Staging030 ==
  /\ pc = "staging030"
  /\ staging' = Without(chosen)
  /\ Done
  /\ UNCHANGED <<ledger, stale, index, disturbed>>

-----------------------------------------------------------------------------
\* What others do.

Disturb == disturbed < MaxFaults /\ disturbed' = disturbed + 1

\* Kill: the files stay as they are.
Kill ==
  /\ "kill" \in Faults
  /\ pc # "idle"
  /\ Done
  /\ Disturb
  /\ UNCHANGED <<staging, ledger, stale, index>>

\* authenticate encrypts the recovery seed anew and seals the genesis block
\* again; the block after it names the old hash.
Reseal ==
  /\ "reseal" \in Faults
  /\ Idle
  /\ stale' = (Len(ledger) > 1)
  /\ Disturb
  /\ UNCHANGED <<staging, ledger, index, remote, start, removed, dropped>>

\* The entries of a block with a plain title, and their day.
Shown(block) ==
  {<<c.id, block.date>> : c \in {x \in ToSet(block.entries) : ~x.sealed}}

\* push_blocks at the end of a sync, one block of it.
Publish(i) ==
  /\ Idle
  /\ Len(ledger) <= MaxBlocks /\ Cardinality(remote) < MaxPushed
  /\ remote' = remote \cup Shown(ledger[i])
  /\ UNCHANGED <<staging, ledger, stale, index, history>>

\* append_blocks of a block that another device committed, or of a published one
\* that a revert took back.  The index of this device does not count it, so that
\* its duration does not matter.
Pull(e, date, sealed) ==
  LET block == DayBlock(date, <<[id |-> e, sealed |-> sealed, duration |-> Span[e]]>>)
  IN
  /\ "pull" \in Faults
  /\ Idle
  /\ Len(ledger) <= MaxBlocks
  /\ e \in Foreign \ Captured \/ (~sealed /\ <<e, date>> \in remote)
  /\ \A i \in DayPositions(ledger) : \A c \in ToSet(ledger[i].entries) : c.id # e
  /\ ledger' = ledger \o Append(Summaries(Last(ledger), date), block)
  /\ remote' = remote \cup Shown(block)
  /\ Disturb
  /\ UNCHANGED <<staging, stale, index, start, removed, dropped>>

Next ==
  \/ \E interface \in Interfaces :
       \/ \E e \in Entry, date \in Dates, status \in {"active", "ended"} :
            Capture(e, date, status, interface)
       \/ \E i \in DOMAIN staging :
            Pause(i, interface) \/ Unpause(i, interface) \/ End(i, interface)
  \/ \E i \in DOMAIN staging : Modify(i) \/ RemoveStaged(i)
  \/ Rewrite
  \/ "cli" \in Interfaces /\ StartSync
  \/ SelectNothing
  \/ \E positions \in (SUBSET Pending) \ {{}} :
       \/ Select(positions)
       \/ "v030" \in Interfaces /\ SyncDay030(positions)
  \/ AppendSummary \/ CountEntry \/ AppendDay
  \/ VerifyHolds \/ VerifyFails \/ RemoveSynced
  \/ \E n \in 1..Len(ledger) : StartRevert(n)
  \/ UncountEntry \/ RestoreStaging \/ TruncateLedger
  \/ Index030 \/ Staging030
  \/ Kill \/ Reseal
  \/ \E i \in DayPositions(ledger) : Publish(i)
  \/ \E e \in Entry, date \in Dates, sealed \in BOOLEAN : Pull(e, date, sealed)

Spec == Init /\ [][Next]_vars

-----------------------------------------------------------------------------
\* Properties.

Ids(entries)  == {entries[k].id : k \in DOMAIN entries}
InLedger      == {p.entry.id : p \in ToSet(Placed(ledger))}
CopiesOf(e)   ==
  Cardinality({i \in DOMAIN staging : staging[i].id = e})
  + Cardinality({k \in DOMAIN Placed(ledger) : Placed(ledger)[k].entry.id = e})

\* What a user captured and did not remove is staged or committed, whatever
\* step of whatever command a kill interrupts (LedgerEngine.commit and revert,
\* SyncOrchestrator.sync: entries are copied before they are dropped).  A sync
\* after a revert may drop an entry, but only if the remote ledger has one of
\* its day and title: it, or another entry like it.
EntryKept ==
  \A e \in Captured \ (Ids(staging) \cup InLedger \cup removed) :
    e \in dropped /\ \E p \in remote : Title[p[1]] = Title[e] /\ p[2] = start[e]

\* As long as commands ran to their end, an entry is in one place, once, when
\* no command runs (revert and commit move entries).
EntryOnce ==
  pc = "idle" /\ disturbed = 0 => \A e \in Entry : CopiesOf(e) <= 1

\* Two days of different months in a row, the later month second, have a
\* summary between them, also when commits, reverts and kills have left
\* summaries behind (YearMonthSummaryPolicy).
PeriodsSeparated ==
  \A i, j \in DayPositions(ledger) :
    /\ i < j /\ Month(ledger[j].date) > Month(ledger[i].date)
    /\ \A k \in (i + 1)..(j - 1) : ~IsDay(ledger[k])
    => \E k \in (i + 1)..(j - 1) : IsSummary(ledger[k])

\* No period is closed twice in a row (is_same_month, `not already a
\* year_summary`).
NoPeriodClosedTwice ==
  \A i \in 2..Len(ledger) :
    IsSummary(ledger[i]) /\ ledger[i].kind = ledger[i - 1].kind
      => ledger[i].closes # ledger[i - 1].closes

\* As long as commands ran to their end, the index that show_rep reads is the
\* one rebuild_index would make, though commit and revert change it by
\* differences and two interfaces write it.
IndexMatchesLedger ==
  pc = "idle" /\ disturbed = 0 => \A c \in Cell : Loaded[c] = Total(Placed(ledger), c)
=============================================================================
