# A TLA+ verification of phpoc

phpoc is an encrypted habit tracker: a command line client (`src/core`,
`src/domain`, `src/storage`, `src/security`, `src/phpoc_cli`, `src/main.py`), a
web client (`src/phpoc-web`), a Flutter client (`src/phpoc-flutter`), a
Cloudflare worker that keeps encrypted objects (`src/worker`) and a Rust library
for cryptography.  Each client stages habit entries locally, synchronises the
staged entries with other devices through the worker, and commits completed
entries to an append-only ledger of day blocks.

This directory models the part in which devices, failures and retries meet.
Every module is translated from the source; `PROJECT.json` maps each definition
to the lines it stands for.

## 1. The system

| component | state | operations | hard behaviour |
|---|---|---|---|
| Staging synchronisation (`src/domain/staging/service.py`, `remote_sync.py`, `merge_engine.py`, `src/domain/cookie/device_cookie.py`) | staging file, `.last_push_hash`, device cookie; remote blob and remote cookie | `check_and_sync` (gate), `_push_on_fast_path`, `_reconcile_and_claim`, `push_to_remote`, `capture`, `end`, `pause`, `unpause`, `remove_synced` | several devices share two remote objects without compare-and-swap; every call can fail before or after its effect |
| Write-ahead log (`src/phpoc_cli/wal.py`) | `wal/pending_push` | write, replay, expire | replay races the gate; a hash decides what is pending |
| Sync orchestrator (`src/core/sync/orchestrator.py`) | selection of entries | gate, ledger sync, select, commit, verify, remove, push | a failure between two of its steps |
| Command dispatch and sessions (`src/main.py`, `src/phpoc_cli/interface.py`, `src/security/auth.py`) | session key file | authentication, replay, up to two gates, the command | order of authentication, replay and gate |
| Local staging store (`src/domain/staging/local_cache.py`, `src/storage/`) | `staging.json` | append, update, remove by position, read | positions move; the file is rewritten in place |
| Ledger engine and chain (`src/domain/ledger/`) | chain of blocks, block index | commit days and summaries, verify, revert | several appends per commit, revert of one block |
| Ledger synchronisation and merge (`src/domain/ledger/remote_sync.py`, `merge.py`) | remote blocks, hash index | push, pull, tiers of comparison, merge | gaps, stale index, forks |
| Worker rows (`src/worker/src/row_level_staging.ts`) | row objects, manifest | put, delete, list | read-modify-write on a bucket without transactions |
| Web client (`src/phpoc-web/src`) | staging in IndexedDB, cookie cache | debounced push, gate, ledger push | overlapping pushes, reordered writes |
| Flutter client (`src/phpoc-flutter/lib`) | SQLite rows, cookie | debounced push, row reconcile, commit and sync | rows read before an await and written after it |
| Hash index and diff engine (`src/core/staging_hash_index.py`, `src/core/sync/diff_engine.py`) | none | pure comparisons and merges | boundaries |
| Git transport (`src/core/sync/git_transport.py`) | a clone of the remote repository per device | pull, push, delete, list | rebases, rejected pushes, commits that failed calls leave behind |
| Index of durations, version 0.3.0 interface (`src/domain/ledger/index_manager.py`, `src/compat/v0_3_0.py`) | `index.json` | count, uncount; modify, remove, sync a day, revert | three files written one after the other |
| Key rotation (`src/phpoc_cli/rotate_keys.py`) | master key version, ledger, staging, index, backups | rotate, soft or hard | a kill between its writes, blocks of several key versions |
| Onboarding and keys (`src/phpoc_cli/onboarding.py`, `onboarding_file.py`, `migrate.py`, `src/security/auth.py`) | genesis with its encrypted seed, session file, identity, quarantine | init, authenticate, onboard from a remote or a file, recover, migrate | seals that later writes outdate, several writes per command, another writer in between |
| Daemon and background checks | none that is ever written | inert in this commit (an undefined name, a missing argument, a service that is never passed) | |
| HTTP transport, cryptography, user interfaces, scripts | | not modelled, see section 8 | |

How they interact.  A command of the client is one process.  `main()` decides
whether to ask for the passphrase, replays the WAL, and calls
`check_and_sync`.  Write commands go through a second gate in
`CLIInterface._sync_before_command`, change the staging file and leave a WAL;
`ph sync` goes through a second gate in `SyncOrchestrator.sync`, commits to the
ledger, removes the committed entries from staging and pushes.  Devices meet
only in the remote store: the objects `staging/blob` and
`staging/blobs/device_cookie.bin`, one object per ledger block under
`ledger/blocks`, and the two files of the hash index.

What makes each part correct:

* staging: no entry disappears that nobody removed and no ledger holds; a
  remote cookie never announces a blob that is not there; a skipped push was
  redundant; a blob of another key is left alone;
* WAL: a change that was not pushed stays marked as such;
* orchestrator: an entry is committed once and dropped only when committed;
* sessions: a takeover and an expired cookie need the passphrase;
* ledger: a chain without gaps that holds an entry once; no entry leaves the
  device that committed it; what one device commits reaches the others; revert
  undoes exactly the last commit;
* files of a device: each captured entry is in staging or in one block, also
  when a command is killed, unless a sync has found it, or one of its day and
  title, in the remote ledger; summaries stand where a period ends, once; the
  index has the durations of the ledger;
* git transport: a push that returns has landed, a pull shows what landed, and
  nothing left over from an earlier call replaces what is newer;
* key rotation: staging, index and chain are readable under the key the genesis
  block names, and a backup precedes what cannot be undone;
* onboarding and keys: the passphrase set last opens the ledger, every chain
  verifies, all entries are under one key, and what the remote had arrives;
* worker rows: the manifest lists exactly the rows, newer rows win;
* web and Flutter: what the user changed last is pushed in the end, and merging
  takes nothing from the user that the user did not remove.

## 2. Modules

| module | what it is |
|---|---|
| `StagingSync` | the staging client: N devices, the two remote objects, one action per remote call or local file write |
| `EntryCustody` | the abstract specification: captured entries are held until they are settled |
| `Lists` | sorted sets of numbers, and what a list has at some positions |
| `LedgerChain` | blocks, linkage, commit and merge as operators on chains |
| `LedgerSync` | ledger synchronisation: N devices, the remote blocks and hash index, one action per remote call |
| `LedgerBlocks` | blocks of `ledger.json` and the policies that put summaries between them, as operators |
| `DeviceLedger` | the three data files of a device: capture, commit, revert and the version 0.3.0 interface, one action per file write |
| `KeyRotation` | soft and hard rotation over the files of a device, one action per file |
| `Onboarding` | how a ledger comes to a device and how a passphrase opens it |
| `GitTransport` | N clones of one repository behind the transport's calls |
| `WebStaging` | staging in the browser: edits, debounced pushes, gate, reconciliation, commits |
| `MC...` | for each module with runs: symmetry, dates, titles and what others push |
| `StagingSync_proofs` | types, claims, the WAL, skipped pushes, foreign blobs, the holder of the cookie, double commits; no entry is lost, and the refinement of `EntryCustody` |
| `KeyRotation_proofs` | staging, index and chain survive rotations, backups are complete |
| `Onboarding_proofs` | the last passphrase opens the ledger, chains verify under one key, onboarding brings everything |
| `WebStaging_proofs` | no sync of a browser drops an entry, no change is forgotten |
| `GitTransport_proofs` | a push lands, a pull is fresh, leftovers fill gaps only |
| `DeviceLedger_proofs` | entries are kept, and once; periods are separated and closed once; the index is that of the ledger |
| `LedgerSync_proofs` | entries are kept, and once; merges keep both sides; in orderly use chains verify and a pushed chain is the remote one |
| `CommonLemmas` | induction over numbers, the maximum of a finite set, sorted sets and concatenation, for the proofs that follow a chain or a history |

`DeviceLedger` extends `LedgerBlocks`, `LedgerSync` extends `LedgerChain`, both
extend `Lists`, and `StagingSync` implements `EntryCustody`.  Each of the other modules stands for
the part of the system in which its files or its remote are written; where two
meet, the one takes from the other what it needs as a step of its own (`Pull`
and `Rewrite` of `DeviceLedger`, `Commit` of `KeyRotation`, `Publish` of
`Onboarding`).

### StagingSync and the code

State of a device `d`:

* `local[d]` is `staging.json`, an entry being its identity and status (absent,
  active, paused, ended).  Entries are numbered in start order, which is the
  order of the list, so that `Position` is `entry_index`.
* `dirty[d]` is the answer of "the staging hash differs from
  `.last_push_hash`".  Every write encrypts again with fresh randomness, so the
  hash changes with every write and the answer is all that matters.
* `wal[d]` is the same for the WAL: no file, one whose hash matches staging
  (`fresh`), one that does not (`stale`), one older than a day (`old`).
* `lcookie[d]` is the cookie file (none, valid, expired), `session[d]` the
  cached key.
* `pc[d]`, `cmd[d]`, `round[d]` say where the running command is; `pending[d]`
  and `marked[d]` are the local variables of `SyncOrchestrator.sync`.

Remote state: `blob` (none, this identity's entries, or one that the master key
does not decrypt) and `rcookie`.  A specifier is 128 fresh random bits, so
`rcookie` names the device whose cookie file holds that specifier; `"orphan"`
is a specifier no file holds any more, `"nobody"` no cookie.

| actions | code |
|---|---|
| `StartCommand`, `Login`, `Logout`, `ReplaySkips`, `ReplayPushes` | `main()` up to dispatch, `_replay_wal` |
| `GateNothingStaged`, `GateExpired`, `GateNoCookie`, `GateCompare`, `GateUnreachable` | the branches of `check_and_sync` |
| `Proceed`, `Reauth` | what each caller does with READY or OFFLINE, and with REAUTH_NEEDED |
| `FastPull`, `ReconcilePull`, `ReconcileKeyMismatch`, `ReconcileUnreachable` | pull and merge of the two paths |
| `PushBlob`, `PushBlobFails`, `ClaimCookie` | `push_blob_only`, `push_to_remote` and their callers' handling of exceptions |
| `Capture`, `ChangeActive`, `NothingToDo`, `LegacyCommandRaises`, `WriteWal` | the local change and `_defer_push` |
| `CommitEntries`, `MarkEntries`, `CommitNothing`, `DropCommitted`, `DropMarked` | `SyncOrchestrator.sync` after its gate |
| `Crash`, `ExpireCookie`, `AgeWal`, `ForeignWrite` | kills, clocks and another key holder |

A push that fails may or may not have reached the store, and a cookie push that
fails is swallowed by the code; both outcomes are in the model.

What the model takes from the code although a reader might expect otherwise:

* the background push that `_defer_push` spawns never pushes: it constructs
  `LocalStagingCache` without a required argument (`wal.py`) and starts a module
  that does not exist;
* the removal of entries that the remote ledger already holds is no step of
  this module: `_sync_before_command` stops before it at an undefined name, and
  the orchestrator's version (`_deduplicate_from_remote_ledger`) compares plain
  fields, which only a revert writes.  Entries of this module are in tokens, for
  `ph revert` is not among its commands; `StartSync` of `DeviceLedger` is that
  step;
* `ph modify` and `ph remove` go through the gate and then find no entry by
  plain names or raise (`main.py`), so their local effect is nothing.

### LedgerChain, LedgerSync and the code

A block is what its hash determines: the sequence of days from the genesis
block to its own.  `day_hash` is a seal over date, entries and `prev_hash`, so
this is exact up to collisions and, for entries committed again after a kill,
up to fresh ciphertext.  `LedgerChain` defines on chains of such blocks what
`chain.py`, `engine.py` and `merge.py` compute: `Linked` is `verify`,
`CommitEntries` is `commit`, `Merge` is `LedgerMerge.merge` with its fork point,
deduplication by content hash, stable sort and grouping by date, and `Linking`
is the cut `pull_blocks` makes at the first block that does not link.

State of a device: `pending[d]` the completed entries in staging, `chain[d]`
`ledger.json`; while a sync runs, `pc[d]`, `listed[d]` (the listing shared by
pull and push) and `todo[d]` (blocks that `push_blocks` still writes).  Remote
state: `rblocks` by position, `hjson` and `hsha` the two hash index files.
`origin` and `torn` are history.

| actions | code |
|---|---|
| `SyncOnly`, `Commit` | `SyncOrchestrator.sync` up to `_sync_ledger_blocks`: commit, verify, revert or drop from staging |
| `FetchIdentical`, `FetchExtended`, `FetchOther` | the tiers of the hash index |
| `PullNamed` | Tier 2: blocks by index, failures skipped, appended unchecked |
| `Relist`, `List`, `PullLinking`, `PullNothing`, `PullDiverged`, `PullUnrelated` | listing and `pull_blocks` with its four outcomes |
| `Decline`, `MergeChains`, `MergeFails`, `MergeRaises` | `_try_ledger_merge` |
| `PushBlock`, `PushBlockFails`, `PushHashes`, `PushChecksum` | `push_blocks`, `push_hash_index` |
| `Kill`, `TearCommit`, `TearMerge` | the client is killed, also between two writes of `ledger.json` |

### LedgerBlocks, DeviceLedger and the code

The state is three files, what the remote ledger shows, and the command that
runs: `staging` (`staging.json`, each entry with the format of its fields,
status, pauses and duration),
`ledger` (`ledger.json`, blocks by kind, date, closed period and entries),
`index` (`index.json`, its encrypted and its plain part), and `stale`, which
says that block 1 names a hash the genesis block no longer has.  `remote` has the
entries of published blocks whose title is plain, with their day, which is all
that `_deduplicate_from_remote_ledger` compares.  `days`, `owed`, `counted`,
`chosen` and `reverting` are the loop variables of a command between two of its
writes.

| actions | code |
|---|---|
| `Capture`, `Pause`, `Unpause`, `End`, `Modify`, `RemoveStaged`, `Rewrite` | `LocalStagingCache` and its version 0.3.0 counterpart; `Rewrite` is the write-back of a merge |
| `StartSync`, `SelectNothing`, `Select`, `AppendSummary`, `CountEntry`, `AppendDay`, `VerifyHolds`, `VerifyFails`, `RemoveSynced` | `SyncOrchestrator.sync` from the comparison with the remote ledger over the selection to the removal, with `LedgerEngine.commit`, `YearMonthSummaryPolicy`, `IndexManager.add_entry` |
| `StartRevert`, `UncountEntry`, `RestoreStaging`, `TruncateLedger` | `LedgerEngine.revert` and the copy in `LedgerDomain` |
| `SyncDay030`, `Index030`, `Staging030` | the version 0.3.0 `sync_day` |
| `Kill`, `Reseal` | a kill between two writes, the change of salt that seals genesis again |
| `Publish`, `Pull` | a block of this device on the remote; a block of another device, or one of its own that a revert took back, from the remote |

### KeyRotation and the code

A version of the key stands for the key.  `ledger` has the genesis version, the
earlier genesis hashes that a soft rotation remembers, and blocks with the
version they were sealed and encrypted under and the version they *say* they
are of, which may be none.  A rotation is `Prepare` (`soft_rotate`,
`hard_rotate` up to the first write), `Backup`, `RotateStaging`, one
`RotateTitle` per title of the index, `RotateCookie` and `WriteLedger`; `Kill`
may come between any two.  `Stage` and `Commit` are the commands between
rotations; `Committers` says which of the three ways in which this code builds
blocks are used.

### Onboarding and the code

A recovery seed stands for the master key it is.  Genesis holds the seed
encrypted under a passphrase; each encryption is new, so it has a number, and
the hash of genesis says which one its seal covers.  `remote` and `file` are
what other devices can read; `pc` and `ctx` are the running command with its
key and what it found.

| actions | code |
|---|---|
| `Reuse`, `Authenticate`, `Logout` | `auth.authenticate`, `_verify_cached_key`, `_upgrade_seed_to_new_salt`, session files |
| `Capture`, `Commit`, `Publish`, `Export` | what an open ledger is used for |
| `StartInit`, `FinishInit` | `ph init` with `LedgerFactory.initialize` |
| `StartOnboarding`, `ExtractIdentity`, `PullStaging`, `Quarantine`, `DeleteBlob`, `SetPassphrase`, `CacheKey` | `run_onboarding`, one action per write; `disturbed` records whether others wrote before the blob was last read (`"read"`) or between that and its deletion (`"delete"`), or a kill came |
| `StartImport`, `ImportLedger`, `ImportStaging` | `run_onboarding_file` |
| `Recover`, `Migrate` | `ph recover`, the migration script |
| `ForeignBlob`, `Kill` | another writer, a kill |

### GitTransport and the code

The remote is the sequence of its commits, of which each changes one blob.  A
clone is the number of those it starts from, its own commits ahead, the rebase
it may be stuck in, the path in conflict and the files of its working tree.
`Pull` and `List` are the whole call; `StartPush` and `StartDelete` go up to the
first `git push`, `FinishPush`, `RetryPush`, `Rejected` and `PushFails` are what
comes of it, and `RepeatPush` pushes the bytes of the last call again.
`ReadNothing` and `PushNowhere` are the calls of a device without a clone whose
`git clone` is told that there is no such repository (`TakenForEmpty`): no clone
comes of them, and a push leaves a directory in its place (`Occupied`).  What git
does (`Rebased`, `Aborted`, `CanCommit`, `Landed`) is modelled from how the
transport calls it and marked external.

### WebStaging and the code

Each `await` is a point where other steps of the same page run.  `edit` is a
mutation between its read and its write of IndexedDB (`BeginEdit`, `EndEdit`),
`timer` the debounce timer (`Fire`), `pushes` the pushes under way, each with
the staging it read (`Arrive`, `Fail`, `ArriveCookie`), and `pc` and `work` the
sync (`GateExpired`, `GateMatches`, `GateUnclaimed`, `Reauthenticate`, `Pull`,
`PullFails`, `MergeEntries`, `WriteMerged`, `Claim`, `Commit`, `Publish`).
`OtherClient`, `Expire`, `Monitor` and `Close` come from outside.

## 3. Runs

| run | instance | properties |
|---|---|---|
| `single_device` | 1 device, 2 entries, failing network, kills, failing merges | `TypeOK`, `SkippedPushIsRedundant`, `ReplayKeepsWal` |
| `two_devices` | 2 devices, 1 entry, interleaved commands, failing network, kills | `NoEntryLost`, `ClaimFollowsPush` |
| `serial_devices` | 2 devices, 2 entries, one command at a time, no faults | `HolderIsCurrent`, `CustodySpec` |
| `single_commit` | 1 device, 2 entries, all commands, expiry, ageing, failing merges, foreign blob | `NoDoubleCommit`, `ReconcileSparesForeign` |
| `ledger_faults` | 2 devices, 2 entries, interleaved syncs, every fault, users merge or skip | `TypeOK`, `EntryKept`, `EntryOnce`, `MergeKeepsBoth` |
| `ledger_converge` | 3 devices, 3 entries on days of their own, one sync at a time, users merge | `ChainsLinked`, `PushedChainIsRemote`, `EntriesSpread` |
| `device_ledger` | 3 entries, one of another device; genesis in a November, entries in the Marches of the next two years; both interfaces; 1 fault | `TypeOK`, `EntryKept`, `EntryOnce`, `PeriodsSeparated`, `NoPeriodClosedTwice`, `IndexMatchesLedger` |
| `key_rotation` | 2 entries, 3 rotations, three ways to build blocks, kills, failing backups | `TypeOK`, `StampedChainVerifies`, `StagedReadable`, `IndexReadable`, `BackupComplete` |
| `onboarding` | one device that publishes, one that joins, 1 entry, 2 passphrases, 2 seeds, new or old ledger, 1 fault, 3 encryptions of a seed | `TypeOK`, `PassphraseOpens`, `ChainVerifies`, `OneKey`, `OnboardingBringsAll` |
| `git_transport` | 2 clones, one binary and one text path, 3 pushed blobs, calls begin at up to 3 commits, calls that do not arrive or lose their answer | `TypeOK`, `NoMarkersOnRemote`, `PushLands`, `PullFresh`, `LeftoversFillGaps` |
| `web_staging` | 1 browser among other clients, 2 entries, 2 edits, 2 pushes under way, 2 faults | `TypeOK`, `ChangesArePushed`, `EntryKept` |
| `find_upgrade` | 1 device, `ph init`, a commit, a second authentication | `ChainSurvivesUpgrade`, which is violated |

Bounds, and why they are enough.  Two devices are what the protocol tells
apart: me and whoever else wrote last.  One entry shows losing, restoring and
overwriting; two show an entry that is pushed beside one that is not, and
positions that move.  In `StagingSync`, `commits` stops at 2, which is one more
than allowed.  There is no bound on steps: the state space is finite and
explored completely.

* In `LedgerSync`, `MaxBlocks` bounds the length a commit may give a chain
  (merges and pulls are not bounded by it); it admits every entry in a block of
  its own.  At most one device is killed between two writes of `ledger.json`.
  In `ledger_faults` dates run against the order of staging, so that a merge
  reorders, and titles are encrypted, so that they all sort alike; the other
  run takes titles in the opposite order.  In `ledger_converge` no two entries
  share a day: with shared days a merge can shorten a chain and leave the tail
  of the longer one on the remote (see below).
* `device_ledger`: the dates give a change of month within a year of the
  genesis block, one over a whole year, and a return to an earlier month.
  `MaxBlocks = 3` is the length at which a commit or a push may begin; the
  summaries and days a commit appends come on top.  `MaxPushed = 1` lets a device
  publish one block, of one or two entries, beside those it pulls.  One title makes entries of a day share a cell of the
  index.  Pauses (one per entry), staged entries (two, when a command moves
  them) and faults (one) are the least that let durations differ, positions
  move and commands be cut short.  A change from December to January and two open
  pauses of an entry are beyond this instance; there the theorems of section 5
  are what covers them.
* `key_rotation`: three rotations are a soft and a hard one in either order and
  one after them, which meets what both have left.
* `onboarding`: three encryptions are `ph init`, the change of salt and a new
  passphrase.  Two seeds are the right one and another.  With one fault every
  single disturbance of an otherwise undisturbed history occurs.  A blob written
  between the quarantine and the deletion is a second foreign one, so that the
  exemption of `OnboardingBringsAll` for it arises in the theorem only; with two
  foreign writes and three seeds TLC finds such a blob deleted unseen.
* `git_transport`: three blobs are an old one that failed to arrive, a newer one
  of the other clone and a third; a leftover commit can then stand before,
  between or after.
* `web_staging`: two pushes under way are what can arrive in the wrong order; two
  faults are, for instance, another client's claim and a failing push.
* `SkippedPushIsRedundant` speaks of one device without a foreign writer,
  because with others the blob changes behind a clean hash; there the property
  that holds is `HolderIsCurrent`.

`CHECK_DEADLOCK FALSE` stands where the instance really may stop: all keys up to
`MaxVersion` used, all seeds and encryptions used up with no ledger left to
open, all blobs pushed.

### A run that finds a promise broken

`find_upgrade`: `ph init` derives the passphrase key with the old salt; the next
authentication by passphrase re-encrypts the seed under the new one and seals
genesis again (`auth.py`, `_upgrade_seed_to_new_salt`), but links no block to
the new hash.  A ledger with one committed entry no longer verifies, and every
later commit is taken back by the failed verify.  The repository's test of
chain integrity after the upgrade has a ledger of genesis alone.

### Other disagreements the models take as they are

They are in the models as the code has them, and the properties that pass hold
in their presence.  Staging and ledger of the CLI:

* `start`, `end`, `view`: the fast path of `view` merges the older remote copy
  over the ended entry, although `wal.py` promises that a local change survives;
* `push_to_remote` pushes the blob and then the cookie, as a comment in its body
  explains; its docstring (`service.py:963-967`) has the cookie first;
* WAL replay takes the remote cookie over before any gate
  (`service.py`, `push_to_remote`); the replay deletes a fresh WAL without
  pushing (`ReplaySkips`);
* `ph sync` goes on after OFFLINE and overwrites the blob it could not decrypt;
* the push after a commit fails, the next fast path restores the entry, and it
  is committed again; an entry that two devices stage is committed by both;
* positions marked for removal are used after the list was shortened: another
  entry goes (command `"syncBoth"`);
* an expired cookie file is deleted, after which the next command starts afresh
  (`GateExpired`, `GateNoCookie`);
* two blocks of one day on the remote are merged with another device's block of
  that day into one; the second old block stays behind it and links to nothing,
  further merges fail (`MergeFails`), and a device that is behind appends the
  tail, because Tier 2 checks no link (`PullNamed`);
* a chain that does not verify commits the same entries again and again, for
  the failed verify takes back the last block only and keeps them in staging;
  pushed by a user who skips the merge, such blocks can link to another
  device's chain, which then verifies and holds an entry twice.  `EntryOnce` is
  therefore about states in which all chains verify;
* every sync with a local chain ahead of the remote one asks about a divergence,
  for `pull_blocks` returns None there too (`PullDiverged`); the answer "cancel"
  pushes like "skip" (`Decline`);
* `check_and_sync` passes `timeout_ms` to a `pull` of the git staging transport
  that does not accept it, so that with git the gate always answers OFFLINE;
* the failed verify takes one block back although the commit may have appended
  several; a revert takes the durations of encrypted titles from the index, to
  which no commit added them; pausing twice leaves a pause open that no end
  closes;
* a published entry that is reverted is dropped from staging by the next
  `ph sync`, and is in no file until a pull brings it back; with it goes an entry
  that was never published and has the same day and title, although
  `_deduplicate_from_remote_ledger` says that it removes entries "already
  committed in the remote ledger".

Keys and onboarding:

* `ph recover` with the right seed stops at a method that does not exist, with a
  wrong seed of the right length it seals the chain under that seed and pushes;
* after onboarding, genesis is sealed over the identity seal that is replaced
  next, so the cached session key is refused and a file of such a ledger cannot
  be imported; the onboarded chain shares no hash with the remote one;
* between the quarantine's pull and the deletion, another device's blob can be
  put in place and is the one deleted;
* after the change of salt, `scripts/migrate_live_ledger.py`, which tries the
  old salt only, cannot open the ledger;
* imported staging entries have no form any command reads;
* after a killed rotation the next one loses what the killed one had already
  rewritten; blocks without a `key_version` (`LedgerEngine.commit`, summaries)
  do not verify after a rotation; `RotateKeysCommand` is reachable from no
  command, and refuses ledgers of `ph init`.

Git transport:

* a conflict in a text file makes later pulls answer with conflict markers;
  a leftover commit of a rejected push can bring back a deleted blob
  (`LeftoversFillGaps` allows only that);
* a push of bytes that are already committed in the clone raises, also when the
  commit never arrived; delete says nothing when the clone is behind;
* an offline pull answers from the clone;
* when `git clone` says "Repository not found", `_ensure_clone` runs `git init`
  and `git remote add` in the directory of the process, not in the clone's: pull,
  list and delete find nothing, a push raises and leaves a directory that
  `git clone` refuses from then on, although the docstring of the module says of
  a corrupted clone "delete and re-clone".  In a directory that has a remote
  named origin the call raises, as the transport's test expects.

Web client:

* two pushes may land out of order, and the older blob stays until the next
  gate; a finished push reports that nothing is pending although a newer timer
  is armed; a page that closes takes its timer with it (`owed`);
* overlapping read-modify-write on the store loses one of the writes (`raced`);
* `commitEntries` pushes without claiming the cookie, `pushToRemote` renews the
  cookie without the re-authentication its comment names.

## 4. Fairness

`StagingSync` states no liveness: a user may never issue another command,
nothing runs in the background (see above), and a call may fail for ever, so
the code justifies no fairness under which something would eventually be
pushed.

`EntriesSpread` is a promise to users who keep syncing, so `FairSpec` assumes
just that: a sync ends (it is a program without loops that wait), and each
device that can start a sync again and again does so (strong fairness of
`SyncOnly`, because with `Serial` another device may be running in between).
Commits need no fairness; what is never committed need not spread.  The
instance has no faults: with calls that fail for ever nothing spreads.
What does not hold, even so, is that chains become equal: two devices that have
merged the same forks in different orders find each other diverged at every
sync and push their own order again, but both hold every entry.

## 5. What is proved

All theorems hold for any values of the constants that meet the assumptions of
the module and of the theorem, interleaved or not.  Of the runs' properties only
those named at the end are not among them.

### StagingSync

* `TypeCorrectness`: besides types, a remote cookie that names a device means
  that this device has a cookie file.
* `ClaimsFollowPushes`: `ClaimFollowsPush` is not inductive by itself; the
  invariant is `ClaimsClean`: a device between the push of the blob and the push
  of the cookie has nothing unpushed.  `CookieMoves` shows that no other step
  brings the remote cookie to a device.
* `StaleWalSurvives`: `ReplayKeepsWal`, from the same invariant.
* `SkipsAreRedundant`: `SkippedPushIsRedundant`, on one device without a foreign
  writer; with other writers the blob changes behind a clean hash.
* `ReconcilingSparesForeign`: `ReconcileSparesForeign`, if one command runs at a
  time.  The invariant `NoForeignToPush`: a device that reconciles and is past
  its pull has not met a foreign blob.
* `HolderStaysCurrent`: `HolderIsCurrent`, if one command runs at a time, calls
  succeed, no command is killed and no one else writes.  In `HolderInv`
  only the named device is on the fast path (`FastHolds`), what a device is about
  to claim for is the blob (`ClaimedIsBlob`), and the named device has the blob
  unless another is about to claim (`HolderOrClaimant`).
* `CommitsAtMostOnce`: `NoDoubleCommit`, on one device whose calls succeed and
  whose commands are not killed.  `CommitInv` says that a committed entry is in
  neither staging nor blob, unless the sync that committed it has still to drop
  it and push (`CommittedGone`).  With a failing push an entry is committed twice
  (section 3), so the assumption is needed.
* `NoEntryIsLost`: `NoEntryLost`, if `"syncBoth"` is not among the commands.  The
  invariant `InCustody` says that local copies and the blob hold only captured
  entries, that every captured entry is held or settled, and that what sync is
  about to drop, by identity or by position, is settled.  The last part needs
  that two staged entries never share a position (`PositionSeparates`).  The
  assumption is needed: `"syncBoth"` selects and marks entries at once and loses
  one.
* `CustodyRefined`: under the same assumption `Spec => CustodySpec`, that is
  `StagingSync` implements `EntryCustody`.

### KeyRotation

* `StagingSurvivesRotation`, `IndexSurvivesRotation`, `BackupsAreComplete`:
  `StagedReadable`, `IndexReadable` and `BackupComplete`.  None is inductive, for
  a rotation writes from what it has read.  The invariant adds that the ledger
  it has read is still the ledger and verifies (`CopyIsCurrent`), that staging is
  under the present version before its write and under the next one after it
  (`StagingInv`), that the titles of the index still to be written and those
  already under the next version are together all committed ones (`IndexInv`),
  and that the backup of the running rotation covers what is staged
  (`BackupInv`).
* `StampedChainsVerify`: `StampedChainVerifies`, for chains of any length.  A
  hard rotation links every block anew, to the new hash of the one before it;
  the new hashes are a recursive function along the chain, and the proof shows
  by induction over it that each block is sealed, encrypted and linked as the
  next verification expects.
* `TypeCorrectness`, from `TypeInv`, which has the shape of the copies in `ctx`.

### Onboarding

* `PassphraseAlwaysOpens`: the property speaks of devices at rest; the invariant
  `Opens` says at which steps of a command the ledger and the passphrase agree
  already (an open ledger, an onboarding that has set the passphrase) and at
  which there is a ledger at all.
* `OneKeyThroughout`, `ChainsVerify`: `OneKey` and `ChainVerifies`, if a wrong
  seed at `ph recover` can only be the one fault of a history: given twice, the
  second may be the seed the ledger was made with, and the ledger then looks
  intact while blocks are not.  The invariant `Keyed` says that every copy of a ledger, also the one behind the
  transport, the copied file and the one an import has read, has its blocks
  under its own key, intact unless old or resealed, and that a command works
  with the key of the ledger it has open.  That is what `_verify_cached_key` is
  for: without it (`FitsUnchecked`) a session file of an earlier ledger breaks
  the last part.  Recovering links a chain anew, which is proved by induction.
* `OnboardingBringsEverything`: `OnboardingBringsAll`, if the value for "no
  ledger" is not itself a ledger, for any number of writers and kills.  Committed
  entries of the chain it read arrive whatever others write; staged entries, or
  the quarantined blob, unless someone wrote before the last read of the blob;
  and no blob is deleted that was not kept, except one written between that read
  and the deletion, which the code does lose.  `Brings` says at each step of an
  onboarding what it has already brought of what it found.
* `TypeCorrectness`, from `Typed`.

### WebStaging

* `NoSyncDropsEntries`: `EntryKept`, for any number of browsers, entries and
  pushes.  The invariant says that whatever any browser, push or blob marks as
  committed is in a ledger (`Marks`), that a sync waits for its own push and has
  no other (`Sends`), and that what a browser will hold once its edit or sync has
  written has every entry it had and that no ledger holds (`Held`).
* `StagingIsPushed`: `ChangesArePushed`.  The invariant `Current` says that what
  the last of a browser's pushes under way brings is its staging, unless a timer
  or an unsaved change stands for the difference.
* `TypeCorrectness`, with the bound on pushes under way.

### GitTransport

* `RemoteHasNoMarkers`: `NoMarkersOnRemote`.
* `PushesLand`: `PushLands`.  The invariant: HEAD of a clone in a call has the
  blob the call was made with (`InCall`), on the branch or detached from it.
* `PullsAreFresh`: `PullFresh`, for every pull that reaches the remote, the one
  that makes the clone included, from what a refresh leaves behind
  (`UpToDate`): all that the remote has, then commits of this clone.  Only if a
  clone has commits of its own at the path may the answer be another: a blob of
  theirs, or conflict markers.  A pull that is told of no repository reaches none
  and answers with nothing (`ReadNothing`); the property does not speak of it.
* `OnlyGapsAreFilled`: `LeftoversFillGaps`.  Blobs are numbered as they are
  pushed; the invariant is that at each path the commits of the remote and of
  every clone start where the ones before them end and rise (`Ordered`), and that
  a rebase, by induction over the commits it replays, keeps them so
  (`Replayed`, `RebasedTo`).
* `TypeCorrectness`, from the same invariant.

### DeviceLedger

A commit writes the index entry by entry, then the block, then the next block,
and at last the staging file; a revert goes the other way.  The properties speak
of files between commands, or of files that a kill may have left at any of these
writes, so none is inductive, and the invariant says what each step still owes.

* `EntriesAreKept`: `EntryKept`.  The invariant `KeptInv`: the entries a sync is
  about to remove from staging are in the ledger or in the blocks it still has
  to append, and those a revert is about to cut off are back in staging.  What
  the property lets go, besides what the user removed, is an entry that a sync
  has dropped because the remote ledger shows one of its day and title; that
  `remote` only grows keeps this true.
* `EntriesAreOnce`: `EntryOnce`.  The invariant `OnceInv`: an entry that is in two
  places is one that the running command is about to drop from one of them
  (`Dropped`), and the blocks still to come hold nothing that the ledger holds.
  It rests on lemmas about what grouping by date makes of the entries of a
  commit: each in one block, and each once.
* `PeriodsAreSeparated`, `PeriodsAreClosedOnce`: `PeriodsSeparated` and
  `NoPeriodClosedTwice`.  The invariant `PeriodInv`: every block fits the one
  before it (`Fits`), and the summaries that a commit still owes lead from the
  last block to the day to come (`Between`).  The two policies, of the engine
  and of version 0.3.0, are each shown to yield such summaries from any block to
  any day.
* `IndexIsThatOfLedger`: `IndexMatchesLedger`.  The invariant `IndexInv`: while a
  commit counts, the index is ahead of the ledger by the part of the block it
  has counted; while a revert uncounts, it is behind by the part it has taken
  back.  `Total` is a sum over a sequence, whose laws (concatenation, what a
  block adds) are proved by induction over the length.
* `TypeCorrect`: `TypeOK`, from `TypeInv`, which also has the types of the loop
  variables of a command, and `ControlInv`, which says when they are set.

### LedgerSync

Chains, lists and sets of entries are of any size, so the operators of
`LedgerChain` come first: what grouping by date, `CommitEntries`, `ByTitle`,
`ForkIndex`, `After` and `Merge` leave of the entries they are given, counted per
entry (`Count`, `Copies`).  A recursion along a list is followed by induction over
its length.  What a step does to the chains is then one of six things (`Rests`,
`Commits`, `Reverts`, `Tears`, `Pulls`, `Joins`).

* `EntriesAreKept`: `EntryKept`, for any faults and interleavings.  Each of the
  six keeps what the chain held, or what it drops is still staged.
* `EntriesAreOnce`: `EntryOnce`.  A chain is determined by its last block, since
  a block names the one before it; so the invariant `OnceInv` counts an entry in
  the days of each block by itself, of every chain and of the remote store, and
  what is pulled is covered before it is linked to anything.
* `MergesKeepBoth`: `MergeKeepsBoth`, from the types and the lemma `Merged`.
* `ChainsStayLinked`, `PushedChainsAreRemote`: `ChainsLinked` and
  `PushedChainIsRemote` under `Orderly`, which is what the run checks, for any
  number of devices and entries: one sync runs at a time, nothing fails but the
  push of staging, users merge, no two entries share a day.  The invariant
  `SerialInv` says that while nothing is being pushed the remote blocks, the hash
  index and its checksum are one chain that verifies (`Settled`), and at each
  step of a sync how the local chain stands to it (`Phase`).  It follows that a
  full pull never finds a block that links (`NeverLinks`), and that a merged
  chain covers the remote one: every block has one entry, and the merged chain
  holds all that the remote one holds (`MoreIsLonger`).  With shared days that last fact is false,
  the tail of the longer chain stays, and later pulls may append it; without
  `Serial` blocks of two chains mix on the remote, with calls that fail the index
  is of another chain.  Each part of `Orderly` is needed: with `"skip"` among the
  answers, with syncs that interleave, with shared days, or with any one of the
  other faults, TLC finds both properties violated on the run's instance.
* `TypeCorrect`: `TypeOK`; the invariant adds that listings are finite, so that
  they have a maximum, and that `todo` is within the chain.

### What is only model-checked

* `EntriesSpread`, because liveness and ENABLED are out of the prover's reach.

`CommonLemmas` has induction in the form the provers can use: a set of numbers
with 0 and every successor is all of `Nat`.  The library's own induction theorems
take an operator as a parameter, which cannot be instantiated here; so each
induction is about a set defined for the recursive function at hand.

## 6. What the models abstract or leave out

Staging and ledger synchronisation:

* In `StagingSync` commit and verify are one step that succeeds; `LedgerSync`
  has the chain and the failed verify, `DeviceLedger` the files and the kills
  between their writes.  The halves of `ph sync` share no module.
* `LedgerSync` leaves out the blind index, month and year summaries (all days
  are in one month), `ph revert`, and the copies of entries that the revert
  after a failed verify appends to staging; `DeviceLedger` has summaries,
  reverts and those copies, on one device.
* The devices of `LedgerSync` start from copies of one `ledger.json` with the
  genesis block that `core/factory.py` writes.  A device that onboards from the
  remote seals a genesis block of its own and chains every block anew
  (`onboarding.py:541-579`, in `Onboarding`); its chain shares no block with the
  remote one, so that every merge of the two is refused (`merge.py`, "Genesis
  block mismatch"), and what it pushes over the remote is not modelled.  A genesis
  with `format_version` or `key_version` is one the merge refuses, whose check
  includes these fields.
* The reads of one phase, the two files of the hash index or all remote blocks
  before a merge, are one step.  A mixed read does not link or does not match
  its checksum, and is then what a failed read is.
* A file is written in one step and one command runs per device at a time; torn
  files and two processes on one device are in no module.
* An entry appended and removed again that restored an earlier hash would need
  the same ciphertext twice and is not modelled.
* The path of `push_blob_only` for an empty staging file pushes an empty blob
  like any other content.
* The filter for committed entries on the fast path has no effect on entries
  the client writes.
* Two entries with the same start time have equal sort keys; entries of the
  model have distinct ones.
* `SyncOrchestrator.revert` is called by no command; `ph revert` is the one of
  `LedgerEngine` and is in `DeviceLedger`.

Keys and onboarding:

* `Recover` is for ledgers with `block_hash`; the ledger is copied to a file
  once; `StartInit` is possible while a seed is unused; pushes of chains that
  differ are `LedgerSync`'s subject; the index has no contents in `Onboarding`.
* In `KeyRotation` an entry has a title of its own, and the identity fields of
  genesis are the hash they give it.

Git: kills come only between a commit and its push; a dirty tree at the start of
a call, a changed remote address and two processes on one clone are left out;
files are binary or one line, so that a conflict is of the whole file.

Web: the staging hash index is left out, because blobs are padded with random
bytes and its checksums never match; one edit and one sync run at a time per
browser; places in the list do not move under an edit; the genesis check finds
compatible ledgers; the merge does not raise; `engine.commit` and
`markCommitted` are one step; an edit that lands between the write of merged
entries and the re-read of `pushBlobOnly` is not told apart from one before; a
cookie of an old push that lands after a new claim is not modelled.

## 7. Plan

Done: the staging client with its refinement, ledger synchronisation, the files
of a device, key rotation, onboarding, the git transport, the web client's
staging, and proofs for seven of them.  Next, in this order:

1. `StagingSync` and `DeviceLedger` composed along the steps of `ph sync`, with
   the staging blob and the ledger files in one state.
2. `MobileSync`: the Flutter client's row reconcile and debounced pushes over
   rows and manifest of the worker, which no transaction protects.
3. Summaries in `LedgerSync`'s merge; then three devices with shared days.
4. The web client's ledger push and pull.
5. `ChainsLinked` for days that entries share, where a merged chain may end before
   the remote one: which of the left-over blocks a device can come to append.

## 8. Not modelled, and why

* Cryptography: pure functions on bytes; the models use only that a wrong key
  fails to decrypt.
* The HTTP transport: one request per call without state of its own; the other
  modules take a call as one that succeeds or fails, with or without effect.
* The worker's rows and the Flutter client, which is what writes them: the next
  step of the plan.
* The hash index and diff engine: pure comparisons.
* Daemon and background checks: inert in this commit.
* Reports, configuration, parsing of exports, dialogues, user interfaces,
  scripts and packaging: no shared state.  Of the scripts, those that touch
  ledgers are in `Onboarding` as far as they run.
