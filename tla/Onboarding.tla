------------------------------ MODULE Onboarding ------------------------------
(***************************************************************************)
(* How a ledger comes to a device and how a passphrase opens it: ph init,  *)
(* authentication with its session file and its change of salt, onboarding *)
(* from a remote (src/phpoc_cli/onboarding.py) or a file                   *)
(* (src/phpoc_cli/onboarding_file.py), ph recover and the migration of old *)
(* ledgers (src/phpoc_cli/migrate.py).                                     *)
(*                                                                         *)
(* A recovery seed stands for the master key it is.  The genesis block     *)
(* holds the seed encrypted under a passphrase; each such encryption is    *)
(* new, so it carries a number, and the seal of genesis covers it.         *)
(* Between two writes of a command other devices run, and it may be killed.*)
(***************************************************************************)
EXTENDS Integers, Sequences, FiniteSets, SequencesExt, Functions

CONSTANTS
  Device, Entry, Passphrase,
  Origin,      \* devices that publish and copy their ledger
  Joiner,      \* devices that onboard
  Seed,        \* recovery seeds
  None,        \* no file, no seed
  Legacy,      \* may a device begin with a ledger of the old format?
  Faults,      \* what may go wrong, a subset of AllFaults
  MaxFaults,   \* bound on how many things go wrong
  MaxSeals     \* bound on the encryptions of a seed

AllFaults == {"kill",     \* a command is killed, or raises, between two writes
              "foreign",  \* someone writes a staging blob under another key
              "recover"}  \* a wrong seed is typed in at ph recover

ASSUME RoleAssumption   == Origin \subseteq Device /\ Joiner \subseteq Device
ASSUME LegacyAssumption == Legacy \in BOOLEAN
ASSUME FaultsAssumption == Faults \subseteq AllFaults
ASSUME SealsAssumption  == MaxSeals \in Nat \ {0} /\ MaxFaults \in Nat
ASSUME NoneAssumption   == None \notin Seed \cup Device

VARIABLES
  \* ---- files of each device
  ledger,      \* ledger.json, or None
  identity,    \* the seed whose identity secret identity.json holds
  staging,     \* the key each staged entry is encrypted under
  session,     \* the key in the session file
  quarantine,  \* blobs in forensic/
  \* ---- elsewhere
  remote,      \* the blocks and the staging blob behind the transport
  file,        \* a ledger.json that was copied away
  \* ---- the command that runs on each device
  pc,
  ctx,         \* its key, where its data is from, and what it found there
  \* ---- history
  made,        \* seeds that were generated
  seals,       \* how often a seed was encrypted
  chosen,      \* the passphrase last set on each device
  disturbed,   \* what came in between: other writers, a kill
  faults       \* how many things went wrong

local   == <<ledger, identity, staging, session, quarantine>>
outside == <<remote, file>>
control == <<pc, ctx>>
history == <<made, seals, chosen, disturbed, faults>>
vars    == <<local, outside, control, history>>

NoContext == [key |-> None, from |-> None, remote |-> None]

\* The hash of a genesis block: which encryption of the seed the seal covers,
\* and whether it also covers the old identity seal or the format version.
Seal(n) == [n |-> n, over |-> FALSE, fmt |-> FALSE]

HashOf(b) == <<b.id, b.prev, b.fmt>>

NewLedger(s, p, n) ==
  [seed |-> s, fallback |-> s, origin |-> s, by |-> p, salt |-> "old",
   pub |-> TRUE, n |-> n, hash |-> Seal(n), field |-> "block_hash", blocks |-> <<>>, upgraded |-> FALSE]

\* A ledger of the old format with one block; pub: is there a public key?
OldLedger(s, p, e, pub) ==
  LET hash == [Seal(0) EXCEPT !.fmt = TRUE]
  IN [NewLedger(s, p, 0) EXCEPT
        !.pub = pub, !.hash = hash, !.field = "day_hash",
        !.blocks = <<[id |-> e, key |-> s, sealed |-> s, prev |-> hash,
                      fmt |-> TRUE]>>]

Steps == {"idle", "open", "init", "ledger", "identity", "staging", "quarantine",
          "delete", "passphrase", "cache"}

\* Steps of onboarding from a remote.
Joining == {"identity", "staging", "quarantine", "delete", "passphrase", "cache"}

TypeOK ==
  /\ \A d \in Device :
       /\ ledger[d] # None =>
            /\ ledger[d].seed \in Seed /\ ledger[d].origin \in made
            /\ ledger[d].n <= seals /\ ledger[d].by \in Passphrase
            /\ \A i \in DOMAIN ledger[d].blocks : ledger[d].blocks[i].id \in Entry
       /\ identity[d] \in Seed \cup {None} /\ session[d] \in Seed \cup {None}
       /\ DOMAIN staging[d] \subseteq Entry
       /\ pc[d] \in Steps /\ (pc[d] \in {"idle", "init"}) = (ctx[d] = NoContext)
  /\ seals \in 0..MaxSeals /\ faults \in 0..MaxFaults

Fresh ==
  /\ identity   = [d \in Device |-> None]
  /\ ledger     = [d \in Device |-> None]
  /\ made       = {}
  /\ chosen     = [d \in Device |-> None]

\* A device that has used the program since before ledgers had block_hash.
Veteran ==
  \E d \in Origin, s \in Seed, p \in Passphrase, e \in Entry, pub \in BOOLEAN :
    /\ ledger   = [x \in Device |-> IF x = d THEN OldLedger(s, p, e, pub) ELSE None]
    /\ identity = [x \in Device |-> IF x = d THEN s ELSE None]
    /\ made     = {s}
    /\ chosen   = [x \in Device |-> IF x = d THEN p ELSE None]

Init ==
  /\ Fresh \/ (Legacy /\ Veteran)
  /\ staging    = [d \in Device |-> <<>>]
  /\ session    = [d \in Device |-> None]
  /\ quarantine = [d \in Device |-> {}]
  /\ remote     = [chain |-> None, blob |-> None]
  /\ file       = None
  /\ pc         = [d \in Device |-> "idle"]
  /\ ctx        = [d \in Device |-> NoContext]
  /\ seals      = 0
  /\ disturbed  = [d \in Device |-> {}]
  /\ faults     = 0

-----------------------------------------------------------------------------
\* Chains.

HashBefore(l, i) == IF i = 1 THEN l.hash ELSE HashOf(l.blocks[i - 1])

Linked(l) ==
  \A i \in DOMAIN l.blocks : l.blocks[i].prev = HashBefore(l, i)

\* LedgerChain.verify under key k.  The seal of genesis is not looked at.
Verified(l, k) ==
  /\ Linked(l)
  /\ \A i \in DOMAIN l.blocks : l.blocks[i].sealed = k /\ ~l.blocks[i].fmt

\* Mutant of Relinked: the first block keeps the hash it names.
RelinkedAfterFirst(head, blocks, k) ==
  [i \in DOMAIN blocks |-> [blocks[i] EXCEPT !.sealed = k, !.fmt = FALSE]]

\* Every block linked to the one before and sealed again under k.
Relinked(head, blocks, k) ==
  LET Sealed(b, prev) == [b EXCEPT !.prev = prev, !.sealed = k, !.fmt = FALSE]
      prev[i \in DOMAIN blocks] ==
        IF i = 1 THEN head ELSE HashOf(Sealed(blocks[i - 1], prev[i - 1]))
  IN [i \in DOMAIN blocks |-> Sealed(blocks[i], prev[i])]

\* Mutant of SaltFor: the public key is taken for granted.
SaltAlwaysNew(l) == "new"

\* get_pdk_salt_from_genesis: old ledgers have no public key to take it from.
SaltFor(l) == IF l.pub THEN "new" ELSE "old"

\* _recover_ledger and _set_passphrase.  The new seal covers the identity seal
\* that is replaced afterwards.
Resealed(l, id, p, n) ==
  LET hash == [Seal(n) EXCEPT !.over = TRUE]
  IN [l EXCEPT !.by = p, !.salt = SaltFor(l), !.n = n, !.hash = hash,
               !.fallback = IF id = None THEN @ ELSE id,
               !.blocks = Relinked(hash, l.blocks, l.seed), !.upgraded = FALSE]

\* Mutant of Upgraded: genesis is sealed before the seed is encrypted.
UpgradedAfterSeal(l, n) ==
  [l EXCEPT !.salt = "new", !.n = n + 1, !.hash = Seal(n),
            !.upgraded = l.blocks # <<>>]

\* _upgrade_seed_to_new_salt: genesis alone is sealed again.
Upgraded(l, n) ==
  [l EXCEPT !.salt = "new", !.n = n, !.hash = Seal(n),
            !.upgraded = l.blocks # <<>>]

Goto(d, step) == pc' = [pc EXCEPT ![d] = step]

Return(d) ==
  /\ Goto(d, "idle")
  /\ ctx' = [ctx EXCEPT ![d] = NoContext]

\* Steps before the staging blob has been read for the last time.
Reading == {"identity", "staging", "quarantine"}

\* What a write to the remote means to an onboarding at some step.
Mark(step) ==
  {m \in {"read", "delete"} : IF m = "read" THEN step \in Reading ELSE step = "delete"}

\* What a writer to the remote does to those who read it.
Disturb(d) ==
  disturbed' = [x \in Device |->
    disturbed[x] \cup (IF x = d THEN {} ELSE Mark(pc[x]))]

Fault(f) ==
  /\ f \in Faults /\ faults < MaxFaults
  /\ faults' = faults + 1

-----------------------------------------------------------------------------
\* Authentication.

\* Mutant of Fits: any cached key is taken.
FitsUnchecked(l, k) == k # None

\* _verify_cached_key: does the session key k verify the seal of genesis?
Fits(l, k) == k = l.seed /\ l.hash = Seal(l.n)

\* authenticate with a session that fits.
Reuse(d) ==
  /\ pc[d] = "idle" /\ ledger[d] # None
  /\ Fits(ledger[d], session[d])
  /\ Goto(d, "open")
  /\ ctx' = [ctx EXCEPT ![d].key = session[d]]
  /\ UNCHANGED <<local, outside, history>>

\* authenticate with a passphrase: a seed found under the old salt is encrypted
\* again under the new one.
Authenticate(d, p) ==
  LET l    == ledger[d]
      good == p = l.by
      old  == good /\ l.salt = "old" /\ l.pub
  IN /\ pc[d] = "idle" /\ l # None
     /\ ~Fits(l, session[d])
     /\ old => seals < MaxSeals
     /\ seals'   = IF old THEN seals + 1 ELSE seals
     /\ ledger'  = IF old THEN [ledger EXCEPT ![d] = Upgraded(l, seals')] ELSE ledger
     /\ session' = [session EXCEPT ![d] = IF good THEN l.seed ELSE None]
     /\ IF good
          THEN Goto(d, "open") /\ ctx' = [ctx EXCEPT ![d].key = l.seed]
          ELSE UNCHANGED control
     /\ UNCHANGED <<identity, staging, quarantine, outside, made, chosen,
                    disturbed, faults>>

\* logout, and the loss of /dev/shm at a restart.
Logout(d) ==
  /\ pc[d] = "idle" /\ session[d] # None
  /\ session' = [session EXCEPT ![d] = None]
  /\ UNCHANGED <<ledger, identity, staging, quarantine, outside, control,
                 history>>

-----------------------------------------------------------------------------
\* What an open ledger is used for.

Ids(l) == IF l = None THEN {} ELSE {l.blocks[i].id : i \in DOMAIN l.blocks}

Readable(d, k) == {e \in DOMAIN staging[d] : staging[d][e] = k}

Capture(d, e) ==
  /\ pc[d] = "open"
  /\ \A x \in Device : e \notin Ids(ledger[x]) \cup DOMAIN staging[x]
  /\ staging' = [staging EXCEPT ![d] = [x \in DOMAIN @ \cup {e} |->
                   IF x = e THEN ctx[d].key ELSE @[x]]]
  /\ Return(d)
  /\ UNCHANGED <<ledger, identity, session, quarantine, outside, history>>

\* sync: a chain that does not verify loses its new block again.
Commit(d, e) ==
  LET l == ledger[d]
      k == ctx[d].key
      b == [id |-> e, key |-> k, sealed |-> k, fmt |-> FALSE,
            prev |-> IF l.blocks = <<>> THEN l.hash ELSE HashOf(Last(l.blocks))]
      extended == [l EXCEPT !.blocks = Append(@, b)]
  IN /\ pc[d] = "open"
     /\ e \in Readable(d, k)
     /\ IF Verified(extended, k)
          THEN /\ ledger' = [ledger EXCEPT ![d] = extended]
               /\ staging' = [staging EXCEPT ![d] =
                    [x \in Readable(d, k) \ {e} |-> k]]
          ELSE UNCHANGED <<ledger, staging>>
     /\ Return(d)
     /\ UNCHANGED <<identity, session, quarantine, outside, history>>

\* sync: a chain is pushed to an empty remote or after the blocks it shares with
\* it; chains that differ are LedgerSync's subject.
Publish(d) ==
  LET l == ledger[d] IN
  /\ pc[d] = "open"
  /\ remote.chain # None => /\ remote.chain.hash = l.hash
                            /\ IsPrefix(remote.chain.blocks, l.blocks)
  /\ remote.blob # None => remote.blob.by = d
  /\ remote' = [chain |-> l,
                blob  |-> [by |-> d, key |-> ctx[d].key, entries |-> staging[d]]]
  /\ Disturb(d)
  /\ Return(d)
  /\ UNCHANGED <<local, file, made, seals, chosen, faults>>

\* A writer with another key.
ForeignBlob(s) ==
  /\ Fault("foreign")
  /\ remote.chain # None /\ s # remote.chain.seed
  /\ remote' = [remote EXCEPT !.blob = [by |-> None, key |-> s, entries |-> <<>>]]
  /\ Disturb(None)
  /\ UNCHANGED <<local, file, control, made, seals, chosen>>

\* ledger.json is copied, once, to where another device can read it.
Export(d) ==
  /\ file = None
  /\ pc[d] = "idle" /\ ledger[d] # None
  /\ file' = ledger[d]
  /\ UNCHANGED <<local, remote, control, history>>

-----------------------------------------------------------------------------
\* ph init.

\* The files of an earlier ledger go first, once the user confirms.
StartInit(d) ==
  /\ pc[d] = "idle" /\ made # Seed
  /\ Goto(d, "init")
  /\ IF ledger[d] = None
       THEN UNCHANGED <<staging, session>>
       ELSE /\ staging' = [staging EXCEPT ![d] = <<>>]
            /\ session' = [session EXCEPT ![d] = None]
  /\ ledger'   = [ledger EXCEPT ![d] = None]
  /\ identity' = [identity EXCEPT ![d] = IF ledger[d] = None THEN @ ELSE None]
  /\ UNCHANGED <<quarantine, outside, ctx, history>>

FinishInit(d, s, p) ==
  /\ pc[d] = "init"
  /\ s \notin made /\ seals < MaxSeals
  /\ made' = made \cup {s}
  /\ seals' = seals + 1
  /\ chosen' = [chosen EXCEPT ![d] = p]
  /\ disturbed' = [disturbed EXCEPT ![d] = {}]
  /\ identity' = [identity EXCEPT ![d] = s]
  /\ ledger' = [ledger EXCEPT ![d] = NewLedger(s, p, seals')]
  /\ session' = [session EXCEPT ![d] = s]
  /\ Return(d)
  /\ UNCHANGED <<staging, quarantine, outside, faults>>

-----------------------------------------------------------------------------
\* Onboarding.

\* run_onboarding with the seed s, up to its first write.  It returns earlier
\* when there are no blocks, s does not decrypt them or they do not link.
StartOnboarding(d, s) ==
  /\ pc[d] = "idle"
  /\ remote.chain # None /\ remote.chain.seed = s /\ Linked(remote.chain)
  /\ ledger' = [ledger EXCEPT ![d] = remote.chain]
  /\ Goto(d, "identity")
  /\ ctx' = [ctx EXCEPT ![d] = [key |-> s, from |-> "remote", remote |-> remote]]
  /\ disturbed' = [disturbed EXCEPT ![d] = {}]
  /\ UNCHANGED <<identity, staging, session, quarantine, outside, made, seals,
                 chosen, faults>>

\* _validate_raw_chain.
Importable(l, s) ==
  /\ l.field = "block_hash" /\ Fits(l, s)
  /\ Verified(l, s)

\* run_onboarding_file with a chain or a v2 export: staging.json comes first.
\* Staged entries of an export have another form, which no command reads.
StartImport(d, s) ==
  /\ pc[d] = "idle"
  /\ file # None /\ Importable(file, s)
  /\ staging' = [staging EXCEPT ![d] = <<>>]
  /\ Goto(d, "ledger")
  /\ ctx' = [ctx EXCEPT ![d] = [key |-> s, from |-> "file",
                                remote |-> [chain |-> file, blob |-> None]]]
  /\ disturbed' = [disturbed EXCEPT ![d] = {}]
  /\ UNCHANGED <<ledger, identity, session, quarantine, outside, made, seals,
                 chosen, faults>>

\* run_onboarding_file with a v1 export: staging and no ledger.
ImportStaging(d) ==
  /\ pc[d] = "idle"
  /\ staging[d] # <<>>
  /\ staging' = [staging EXCEPT ![d] = <<>>]
  /\ UNCHANGED <<ledger, identity, session, quarantine, outside, control,
                 history>>

ImportLedger(d) ==
  /\ pc[d] = "ledger"
  /\ ledger' = [ledger EXCEPT ![d] = ctx[d].remote.chain]
  /\ Goto(d, "identity")
  /\ UNCHANGED <<identity, staging, session, quarantine, outside, ctx, history>>

\* The identity secret is decrypted from genesis, if the seed does that.
ExtractIdentity(d) ==
  /\ pc[d] = "identity"
  /\ identity' = [identity EXCEPT ![d] =
       IF ledger[d].fallback = ctx[d].key THEN ctx[d].key ELSE @]
  /\ Goto(d, IF ctx[d].from = "remote" THEN "staging" ELSE "passphrase")
  /\ UNCHANGED <<ledger, staging, session, quarantine, outside, ctx, history>>

\* _pull_staging and _write_staging_json, unless the key does not fit.
PullStaging(d) ==
  LET foreign == remote.blob # None /\ remote.blob.key # ctx[d].key IN
  /\ pc[d] = "staging"
  /\ IF foreign
       THEN Goto(d, "quarantine") /\ UNCHANGED staging
       ELSE /\ Goto(d, "passphrase")
            /\ staging' = [staging EXCEPT ![d] =
                 IF remote.blob = None THEN <<>> ELSE remote.blob.entries]
  /\ UNCHANGED <<ledger, identity, session, quarantine, outside, ctx, history>>

\* Mutant of Quarantine: nothing is copied.
QuarantineNothing(d) ==
  /\ pc[d] = "quarantine"
  /\ Goto(d, "delete")
  /\ UNCHANGED <<local, outside, ctx, history>>

\* _handle_staging_key_mismatch pulls the blob once more and keeps it.
Quarantine(d) ==
  /\ pc[d] = "quarantine"
  /\ quarantine' = [quarantine EXCEPT ![d] = @ \cup ({remote.blob} \ {None})]
  /\ Goto(d, "delete")
  /\ UNCHANGED <<ledger, identity, staging, session, outside, ctx, history>>

\* It deletes the remote blob, whichever that is now, and staging is empty.
DeleteBlob(d) ==
  /\ pc[d] = "delete"
  /\ remote' = [remote EXCEPT !.blob = None]
  /\ staging' = [staging EXCEPT ![d] = <<>>]
  /\ Goto(d, "passphrase")
  /\ Disturb(d)
  /\ UNCHANGED <<ledger, identity, session, quarantine, file, ctx, made, seals,
                 chosen, faults>>

SetPassphrase(d, p) ==
  /\ pc[d] = "passphrase" /\ seals < MaxSeals
  /\ seals' = seals + 1
  /\ ledger' = [ledger EXCEPT ![d] = Resealed(@, identity[d], p, seals')]
  /\ chosen' = [chosen EXCEPT ![d] = p]
  /\ Goto(d, "cache")
  /\ UNCHANGED <<identity, staging, session, quarantine, outside, ctx, made,
                 disturbed, faults>>

CacheKey(d) ==
  /\ pc[d] = "cache"
  /\ session' = [session EXCEPT ![d] = ctx[d].key]
  /\ Return(d)
  /\ UNCHANGED <<ledger, identity, staging, quarantine, outside, history>>

-----------------------------------------------------------------------------
\* ph recover and the migration script.

\* With the seed of the ledger, recover finds the identity secret, calls a
\* method no crypto manager has and stops before its first write.  With another
\* seed it finds none, seals every block under that seed, and links the blocks
\* to a day_hash that genesis did not have.
Recover(d, s, p) ==
  LET l     == ledger[d]
      head  == [Seal(seals + 1) EXCEPT !.over = TRUE]
      wrong == [l EXCEPT !.seed = s, !.fallback = identity[d], !.by = p,
                         !.salt = "old", !.n = seals + 1,
                         !.blocks = Relinked(head, l.blocks, s)]
  IN /\ Fault("recover")
     /\ pc[d] = "idle" /\ l # None /\ l.field = "block_hash"
     /\ identity[d] # None /\ s \notin {identity[d], l.fallback}
     /\ seals < MaxSeals
     /\ seals' = seals + 1
     /\ ledger' = [ledger EXCEPT ![d] = wrong]
     /\ chosen' = [chosen EXCEPT ![d] = p]
     /\ session' = [session EXCEPT ![d] = s]
     /\ \/ UNCHANGED remote
        \/ remote' = [remote EXCEPT !.chain =
             [wrong EXCEPT !.blocks = @ \o
                (IF remote.chain = None THEN <<>>
                 ELSE SubSeq(remote.chain.blocks, Len(@) + 1,
                             Len(remote.chain.blocks)))]]
     /\ Disturb(d)
     /\ UNCHANGED <<identity, staging, quarantine, file, control, made>>

\* migrate_live_ledger and migrate_chain: only the old salt is tried.
Migrate(d, p) ==
  LET l == ledger[d] IN
  /\ pc[d] = "idle" /\ l # None
  /\ l.by = p /\ l.salt = "old" /\ l.seed = l.origin
  /\ ledger' = [ledger EXCEPT ![d] =
       [l EXCEPT !.field = "block_hash", !.hash = Seal(l.n),
                 !.blocks = Relinked(Seal(l.n), l.blocks, l.seed),
                 !.upgraded = FALSE]]
  /\ UNCHANGED <<identity, staging, session, quarantine, outside, control,
                 history>>

\* Kill: the files stay as they are.
Kill(d) ==
  /\ Fault("kill")
  /\ pc[d] \notin {"idle", "open"}
  /\ Return(d)
  /\ disturbed' = [disturbed EXCEPT ![d] = @ \cup {"kill"}]
  /\ UNCHANGED <<local, outside, made, seals, chosen>>

Next ==
  \/ \E d \in Device :
       \/ Reuse(d) \/ Logout(d) \/ StartInit(d) \/ Kill(d)
       \/ \E e \in Entry : Capture(d, e) \/ Commit(d, e)
       \/ \E p \in Passphrase : Authenticate(d, p) \/ Migrate(d, p)
       \/ \E s \in Seed, p \in Passphrase : FinishInit(d, s, p) \/ Recover(d, s, p)
  \/ \E d \in Origin : Publish(d) \/ Export(d)
  \/ \E d \in Joiner :
       \/ ImportStaging(d) \/ ImportLedger(d) \/ ExtractIdentity(d)
       \/ PullStaging(d) \/ Quarantine(d) \/ DeleteBlob(d) \/ CacheKey(d)
       \/ \E s \in Seed : StartOnboarding(d, s) \/ StartImport(d, s)
       \/ \E p \in Passphrase : SetPassphrase(d, p)
  \/ \E s \in Seed : ForeignBlob(s)

Spec == Init /\ [][Next]_vars

-----------------------------------------------------------------------------
\* Properties.

\* A wrong seed at ph recover is a state of its own.
Intact(l) == l # None /\ l.seed = l.origin

\* Whenever no command runs, the passphrase last set on a device opens its
\* ledger, with one of the salts authenticate tries (auth.py, candidates), unless
\* a command was killed on the way.
PassphraseOpens ==
  \A d \in Device :
    pc[d] = "idle" /\ "kill" \notin disturbed[d] /\ ledger[d] # None =>
      /\ ledger[d].by = chosen[d]
      /\ ledger[d].salt = "new" => ledger[d].pub

\* Every ledger.json verifies at every step of every command, but for those of
\* the old format and those whose genesis was sealed again under a new salt
\* (_recover_ledger, _set_passphrase: re-chain all subsequent blocks).
ChainVerifies ==
  \A d \in Device :
    LET l == ledger[d] IN
    Intact(l) =>
      \/ Verified(l, l.seed)
      \/ l.upgraded \/ \E i \in DOMAIN l.blocks : l.blocks[i].fmt

\* Entries are committed under the key of their ledger, whatever session files
\* earlier ledgers and killed commands left (auth.py, _verify_cached_key).
OneKey ==
  \A d \in Device :
    Intact(ledger[d]) =>
      \A i \in DOMAIN ledger[d].blocks :
        ledger[d].blocks[i].key = ledger[d].seed

\* Whatever other devices write while one onboards, an onboarding that ends has
\* brought all committed entries of the chain it read; it has also brought all
\* staged ones, or a blob of another key to the quarantine, unless someone wrote
\* before the blob was read for the last time; and it deletes no blob it has not
\* kept but one written between its last read and the deletion (onboarding.py,
\* _handle_staging_key_mismatch).
OnboardingBringsAll ==
  [][\A d \in Device :
       LET found == ctx[d].remote IN
       ctx[d].from = "remote" =>
         /\ pc[d] = "cache" /\ pc'[d] = "idle" =>
              /\ Ids(found.chain) \subseteq Ids(ledger[d])
              /\ "read" \notin disturbed[d] /\ found.blob # None =>
                   IF found.blob.key = ctx[d].key
                     THEN DOMAIN found.blob.entries \subseteq DOMAIN staging[d]
                     ELSE found.blob \in quarantine[d]
         /\ pc[d] = "delete" /\ pc'[d] = "passphrase" =>
              \/ remote.blob \in quarantine[d] \cup {None}
              \/ "delete" \in disturbed[d]]_vars

\* A ledger that was never of the old format verifies, whatever is done with it
\* (tests/test_pbkdf2_per_user_salt.py: chain integrity after upgrade).
ChainSurvivesUpgrade ==
  \A d \in Device : Intact(ledger[d]) => Verified(ledger[d], ledger[d].seed)
=============================================================================
