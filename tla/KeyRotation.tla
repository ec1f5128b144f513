------------------------------ MODULE KeyRotation ------------------------------
(***************************************************************************)
(* Key rotation (src/phpoc_cli/rotate_keys.py) on the files of one device, *)
(* and the chain verification it relies on (LedgerChain.verify with one    *)
(* key per block).                                                         *)
(*                                                                         *)
(* The key of version v is derived from the recovery seed; a version of a  *)
(* key stands for the key.  A rotation reads the ledger, writes staging,   *)
(* index and cookie under the next version and the ledger last: every      *)
(* write is a step, and a kill may come between two.  A soft rotation      *)
(* seals the genesis block again and remembers its earlier hash, a hard    *)
(* one rewrites every block after a backup.                                *)
(***************************************************************************)
EXTENDS Integers, Sequences, FiniteSets, SequencesExt, Functions

CONSTANTS
  Entry,       \* entries, one title each
  Committers,  \* who builds day blocks, a subset of AllCommitters
  Faults,      \* what may go wrong, a subset of AllFaults
  MaxVersion   \* bound on the version of the key

AllCommitters ==
  {"stamped",   \* build_day_block with the version of the genesis block
   "engine",    \* LedgerEngine.commit, which passes no version
   "summary"}   \* LedgerEngine.commit, with a summary before the day

AllFaults == {"kill",    \* the rotation is killed between two writes
              "backup"}  \* the backup cannot be written

ASSUME CommittersAssumption == Committers \subseteq AllCommitters
ASSUME FaultsAssumption     == Faults \subseteq AllFaults
ASSUME VersionAssumption    == MaxVersion \in Nat \ {0}

VARIABLES
  \* ---- files
  ledger,   \* genesis and day blocks
  staging,  \* the version each staged entry is encrypted under
  index,    \* the version of index.json and the titles it can be read for
  backups,  \* what hard rotations have copied
  \* ---- the rotation that runs
  pc,
  ctx,      \* what it has read: its kind, the ledger, titles to write
  \* ---- history
  committed,    \* entries in day blocks
  captured,     \* entries ever staged
  interrupted   \* a rotation has been killed

files   == <<ledger, staging, index, backups>>
history == <<committed, captured, interrupted>>
vars    == <<files, pc, ctx, history>>

Version == 1..MaxVersion
Kinds   == {"soft", "hard"}
NoVersion == 0

\* A seal covers the identity fields, whose encryption is new with each version.
GenesisHash(v) == <<v>>

\* The seal of a block covers all but its key_version.
HashOf(b) == <<b.id, b.sealed, b.enc, b.prev>>

Steps == {"idle", "backup", "staging", "index", "ledger"}

Idle == [kind |-> "soft", ledger |-> <<>>, titles |-> {}]

TypeOK ==
  /\ ledger.version \in Version
  /\ DOMAIN ledger.old \subseteq Version
  /\ \A i \in DOMAIN ledger.blocks :
       LET b == ledger.blocks[i] IN
       /\ b.kind \in {"day", "summary"} /\ b.id \in Entry
       /\ b.kv \in Version \cup {NoVersion}
       /\ b.sealed \in Version /\ b.enc \in Version
  /\ DOMAIN staging \subseteq Entry
  /\ \A e \in DOMAIN staging : staging[e] \in Version
  /\ index.version \in Version /\ index.titles \subseteq Entry
  /\ pc \in Steps /\ (pc = "idle") = (ctx = Idle)
  /\ committed \subseteq captured /\ captured \subseteq Entry
  /\ interrupted \in BOOLEAN

\* A ledger whose genesis block carries version 1.
Init ==
  /\ ledger = [version |-> 1, hash |-> GenesisHash(1), old |-> <<>>,
               blocks |-> <<>>]
  /\ staging = <<>>
  /\ index = [version |-> 1, titles |-> {}]
  /\ backups = {}
  /\ pc = "idle" /\ ctx = Idle
  /\ committed = {} /\ captured = {} /\ interrupted = FALSE

-----------------------------------------------------------------------------
\* Verification.

\* Mutant of GenesisHashFor: the remembered hashes are not consulted.
CurrentGenesisHash(l, kv) ==
  IF kv \in {NoVersion, l.version} THEN l.hash ELSE <<NoVersion, kv>>

\* _get_block_hash_for_version of the genesis block: a block with a version
\* names the hash genesis had then, or the one it would have under that key.
GenesisHashFor(l, kv) ==
  CASE kv = NoVersion     -> l.hash
    [] kv \in DOMAIN l.old -> l.old[kv]
    [] kv = l.version     -> l.hash
    [] OTHER              -> <<NoVersion, kv>>

\* Hash of the block before block i, as block i must name it.
HashBefore(l, i) ==
  IF i = 1 THEN GenesisHashFor(l, l.blocks[1].kv) ELSE HashOf(l.blocks[i - 1])

\* The key a block is verified under: its own version, or the current one.
KeyOf(l, b) == IF b.kv = NoVersion THEN l.version ELSE b.kv

\* verify with a key for every version up to the current one.
Verified(l) ==
  \A i \in DOMAIN l.blocks :
    LET b == l.blocks[i] IN
    /\ b.prev = HashBefore(l, i)
    /\ b.sealed = KeyOf(l, b)
    /\ b.kind = "day" => b.enc = KeyOf(l, b)
    /\ b.kv <= l.version

-----------------------------------------------------------------------------
\* Commands between rotations, under the current version.

Stage(e) ==
  /\ pc = "idle"
  /\ e \notin captured
  /\ captured' = captured \cup {e}
  /\ staging' = [x \in DOMAIN staging \cup {e} |->
                   IF x = e THEN ledger.version ELSE staging[x]]
  /\ UNCHANGED <<ledger, index, backups, pc, ctx, committed, interrupted>>

LastHash(blocks, first) ==
  IF blocks = <<>> THEN first ELSE HashOf(Last(blocks))

\* A day block with one entry, after a summary or not.  An index that cannot be
\* read counts as empty.
Commit(e, committer) ==
  LET v       == ledger.version
      kv      == IF committer = "stamped" THEN v ELSE NoVersion
      NewBlock(kind, prev) ==
        [kind |-> kind, id |-> e, kv |-> kv, sealed |-> v, enc |-> v,
         prev |-> prev]
      summaries == IF committer = "summary"
                     THEN <<NewBlock("summary",
                                     LastHash(ledger.blocks, ledger.hash))>>
                     ELSE <<>>
      before  == ledger.blocks \o summaries
      known   == IF index.version = v THEN index.titles ELSE {}
  IN /\ pc = "idle"
     /\ e \in DOMAIN staging /\ staging[e] = v
     /\ ledger' = [ledger EXCEPT !.blocks =
          Append(before, NewBlock("day", LastHash(before, ledger.hash)))]
     /\ staging' = [x \in DOMAIN staging \ {e} |-> staging[x]]
     /\ index' = [version |-> v, titles |-> known \cup {e}]
     /\ committed' = committed \cup {e}
     /\ UNCHANGED <<backups, pc, ctx, captured, interrupted>>

-----------------------------------------------------------------------------
\* Rotation.

\* _prepare_rotation: the chain must verify.  A rotation that is refused
\* returns here.
Prepare(kind) ==
  /\ pc = "idle" /\ ledger.version < MaxVersion
  /\ Verified(ledger)
  /\ pc' = IF kind = "hard" THEN "backup" ELSE "staging"
  /\ ctx' = [kind |-> kind, ledger |-> ledger, titles |-> {}]
  /\ UNCHANGED <<files, history>>

Return == pc' = "idle" /\ ctx' = Idle

\* What hard_rotate asks of every day block before it writes: entries decrypt
\* under the version of the block, or version 1 when it has none.
Decryptable(blocks) ==
  \A i \in DOMAIN blocks :
    blocks[i].kind = "day" =>
      blocks[i].enc = IF blocks[i].kv = NoVersion THEN 1 ELSE blocks[i].kv

\* Mutant of Backup: a backup that cannot be written is passed over.
BackupOptional ==
  /\ pc = "backup"
  /\ \/ backups' = backups \cup
          {[ledger |-> ledger, staging |-> staging, index |-> index]}
     \/ UNCHANGED backups
  /\ IF Decryptable(ctx.ledger.blocks)
       THEN pc' = "staging" /\ UNCHANGED ctx
       ELSE Return
  /\ UNCHANGED <<ledger, staging, index, history>>

\* create_backup, and the decision to go on.
Backup ==
  /\ pc = "backup"
  /\ \/ /\ backups' = backups \cup
             {[ledger |-> ledger, staging |-> staging, index |-> index]}
        /\ IF Decryptable(ctx.ledger.blocks)
             THEN pc' = "staging" /\ UNCHANGED ctx
             ELSE Return
     \/ /\ "backup" \in Faults
        /\ Return
        /\ UNCHANGED backups
  /\ UNCHANGED <<ledger, staging, index, history>>

\* Mutant of NextVersion: a version is skipped.
SkippedVersion == ctx.ledger.version + 2

NextVersion == ctx.ledger.version + 1

\* Mutant of RotateStaging: the entries are written as they were read.
RotateNothing ==
  /\ pc = "staging"
  /\ pc' = "index"
  /\ ctx' = [ctx EXCEPT !.titles =
       IF index.version = ctx.ledger.version THEN index.titles ELSE {}]
  /\ UNCHANGED <<files, history>>

\* LocalStagingCache reads what the old key decrypts and writes it back under
\* the new one; entries it cannot read are gone.
RotateStaging ==
  /\ pc = "staging"
  /\ staging' = [e \in {x \in DOMAIN staging :
                          staging[x] = ctx.ledger.version} |-> NextVersion]
  /\ pc' = "index"
  /\ ctx' = [ctx EXCEPT !.titles =
       IF index.version = ctx.ledger.version THEN index.titles ELSE {}]
  /\ UNCHANGED <<ledger, index, backups, history>>

\* Mutant of RotateTitle: each title replaces the file.
RotateTitleAlone(t) ==
  /\ pc = "index" /\ t \in ctx.titles
  /\ index' = [version |-> NextVersion, titles |-> {t}]
  /\ ctx' = [ctx EXCEPT !.titles = @ \ {t}]
  /\ UNCHANGED <<ledger, staging, backups, pc, history>>

\* A new IndexManager takes one title after the other, and writes the file
\* with each; it cannot read the old file and starts from nothing.
RotateTitle(t) ==
  /\ pc = "index" /\ t \in ctx.titles
  /\ index' = [version |-> NextVersion,
               titles  |-> {t} \cup
                 (IF index.version = NextVersion THEN index.titles ELSE {})]
  /\ ctx' = [ctx EXCEPT !.titles = @ \ {t}]
  /\ UNCHANGED <<ledger, staging, backups, pc, history>>

\* The device cookie is made anew.
RotateCookie ==
  /\ pc = "index" /\ ctx.titles = {}
  /\ pc' = "ledger"
  /\ UNCHANGED <<files, ctx, history>>

\* The hash a rewritten block names.
Relinked(hashes, prev) == IF prev \in DOMAIN hashes THEN hashes[prev] ELSE prev

\* The blocks of a hard rotation: day blocks are encrypted, linked and sealed
\* again.  A summary only gets the new version.
Rewritten(l, v) ==
  LET known == {l.hash} \cup Range(l.old)
      Rewrite(before, b) ==
        LET c == IF b.kind = "day"
                   THEN [b EXCEPT !.kv = v, !.sealed = v, !.enc = v,
                                  !.prev = Relinked(before.hashes, @)]
                   ELSE [b EXCEPT !.kv = v]
        IN [blocks |-> Append(before.blocks, c),
            hashes |-> IF b.kind = "day"
                         THEN [h \in DOMAIN before.hashes \cup {HashOf(b)} |->
                                 IF h = HashOf(b) THEN HashOf(c)
                                                  ELSE before.hashes[h]]
                         ELSE before.hashes]
      done[n \in 0..Len(l.blocks)] ==
        IF n = 0
          THEN [blocks |-> <<>>, hashes |-> [h \in known |-> GenesisHash(v)]]
          ELSE Rewrite(done[n - 1], l.blocks[n])
  IN done[Len(l.blocks)].blocks

\* soft_rotate and hard_rotate write the ledger they read, with a genesis block
\* of the new version that remembers its hash.
WriteLedger ==
  /\ pc = "ledger"
  /\ ledger' =
       [version |-> NextVersion,
        hash    |-> GenesisHash(NextVersion),
        old     |-> [v \in DOMAIN ctx.ledger.old \cup {ctx.ledger.version} |->
                       IF v = ctx.ledger.version THEN ctx.ledger.hash
                                                 ELSE ctx.ledger.old[v]],
        blocks  |-> IF ctx.kind = "hard" THEN Rewritten(ctx.ledger, NextVersion)
                                         ELSE ctx.ledger.blocks]
  /\ Return
  /\ UNCHANGED <<staging, index, backups, history>>

\* Kill: the files stay as they are.
Kill ==
  /\ "kill" \in Faults
  /\ pc # "idle"
  /\ Return
  /\ interrupted' = TRUE
  /\ UNCHANGED <<files, committed, captured>>

Next ==
  \/ \E e \in Entry : Stage(e) \/ RotateTitle(e) \/ \E c \in Committers : Commit(e, c)
  \/ \E kind \in Kinds : Prepare(kind)
  \/ Backup \/ RotateStaging \/ RotateCookie \/ WriteLedger
  \/ Kill

Spec == Init /\ [][Next]_vars

-----------------------------------------------------------------------------
\* Properties.

Stamped(l) ==
  \A i \in DOMAIN l.blocks :
    l.blocks[i].kind = "day" /\ l.blocks[i].kv # NoVersion

\* A chain of day blocks that carry a version verifies after any rotations, soft
\* and hard, and after kills (tests/test_i01_rotatekeys_execution.py, consecutive
\* rotations).
StampedChainVerifies == Stamped(ledger) => Verified(ledger)

\* Between rotations that ran to their end, every captured entry is in staging
\* under the current key, or in a day block (_rotate_mutable_state).
StagedReadable ==
  pc = "idle" /\ ~interrupted =>
    /\ captured = DOMAIN staging \cup committed
    /\ \A e \in DOMAIN staging : staging[e] = ledger.version

\* Then the index knows every committed entry, under the current key.
IndexReadable ==
  pc = "idle" /\ ~interrupted =>
    /\ index.titles = committed
    /\ committed # {} => index.version = ledger.version

\* While a hard rotation changes files, a backup holds the ledger, which
\* verifies, and every entry staged when it began (hard_rotate: a backup comes
\* before any modification).
BackupComplete ==
  ctx.kind = "hard" /\ pc \in {"staging", "index", "ledger"} =>
    \E b \in backups :
      /\ b.ledger = ctx.ledger /\ Verified(b.ledger)
      /\ DOMAIN staging \subseteq DOMAIN b.staging
=============================================================================
