------------------------------ MODULE LedgerSync ------------------------------
(***************************************************************************)
(* Ledger synchronisation of the command line client.                      *)
(*                                                                         *)
(* `ph sync` commits staged entries to the local chain of blocks and then  *)
(* runs SyncOrchestrator._sync_ledger_blocks: the hash index decides how   *)
(* to compare the local chain with the remote one, missing blocks are      *)
(* pulled, diverged chains are merged or not as the user chooses, and      *)
(* blocks and hash index are pushed.  The remote store holds one file per  *)
(* block, named by its index, and the two files of the hash index; there   *)
(* is no lock.  A step is one call on the store, or the reads of one       *)
(* phase, with the local work that follows; syncs of different devices     *)
(* interleave between steps.                                               *)
(*                                                                         *)
(* The gate on staging that comes first and the removal of committed       *)
(* entries are the subject of StagingSync.  The blind index, which only    *)
(* reports read, is left out.                                              *)
(***************************************************************************)
EXTENDS LedgerChain, FiniteSets, FiniteSetsExt

CONSTANTS
  Device,    \* the devices of one identity
  Answers,   \* what users answer when chains diverge, a subset of AllAnswers
  Faults,    \* what may go wrong, a subset of AllFaults
  Serial,    \* TRUE: users run one sync at a time across all devices
  MaxBlocks  \* bound on the length a commit may give a chain

AllAnswers == {"merge",
               "skip",     \* also the client without a view
               "cancel"}

AllFaults == {"staging",  \* pushing the staging blob raises after a commit
              "list",     \* listing the remote blocks fails
              "pull",     \* a remote file cannot be read
              "push",     \* a write fails, having taken effect or not
              "kill"}     \* the client is killed

ASSUME AnswersAssumption == Answers \subseteq AllAnswers
ASSUME FaultsAssumption  == Faults \subseteq AllFaults
ASSUME SerialAssumption  == Serial \in BOOLEAN
ASSUME BoundAssumption   == MaxBlocks \in Nat

VARIABLES
  \* ---- files of each device
  pending,   \* the completed entries in staging.json
  chain,     \* ledger.json
  \* ---- objects in the remote store
  rblocks,   \* ledger/blocks/NNNNNN.json, by index + 1
  hjson,     \* the hash index: a chain's hashes, <<>> when there is no file
  hsha,      \* its checksum, which is that of exactly one list of hashes
  \* ---- the sync each device runs
  pc,
  listed,    \* block positions read from the remote
  todo,      \* block positions still to be pushed
  \* ---- history
  origin,    \* the device an entry was staged on
  torn       \* devices killed while they rewrote their ledger

files   == <<pending, chain>>
remote  == <<rblocks, hjson, hsha>>
control == <<pc, listed, todo>>
vars    == <<files, remote, control, origin, torn>>

Positions == Nat \ {0}

Steps == {"idle", "fetch", "named", "relist", "list", "pull", "choose",
          "push", "index", "checksum"}

\* Files and history are of their types.  The local chain starts with the
\* genesis block, which no pull, merge or revert replaces.
TypeOK ==
  /\ pending \in [Device -> SUBSET Entry]
  /\ chain \in [Device -> Seq(Block)]
  /\ \A d \in Device : chain[d] # <<>> /\ chain[d][1] = Genesis
  /\ DOMAIN rblocks \subseteq Positions
  /\ rblocks \in [DOMAIN rblocks -> Block]
  /\ hjson \in Seq(Block) /\ hsha \in Seq(Block)
  /\ pc \in [Device -> Steps]
  /\ listed \in [Device -> SUBSET Positions]
  /\ todo \in [Device -> SUBSET Positions]
  /\ origin \in [Entry -> Device]
  /\ torn \in SUBSET Device

\* The devices start from copies of one ledger.json that has only its genesis
\* block: one that onboards from the remote seals a genesis block of its own.
Init ==
  /\ origin \in [Entry -> Device]
  /\ pending = [d \in Device |-> {e \in Entry : origin[e] = d}]
  /\ chain = [d \in Device |-> <<Genesis>>]
  /\ rblocks = <<>> /\ hjson = <<>> /\ hsha = <<>>
  /\ pc = [d \in Device |-> "idle"]
  /\ listed = [d \in Device |-> {}]
  /\ todo = [d \in Device |-> {}]
  /\ torn = {}

-----------------------------------------------------------------------------
Goto(d, l) ==
  /\ pc' = [pc EXCEPT ![d] = l]
  /\ UNCHANGED <<listed, todo>>

\* The sync of d ends: it returns, raises or is killed.
Finish(d) ==
  /\ pc' = [pc EXCEPT ![d] = "idle"]
  /\ listed' = [listed EXCEPT ![d] = {}]
  /\ todo' = [todo EXCEPT ![d] = {}]

\* push_blocks is called for the positions in P; the index is next.
StartPush(d, P) ==
  /\ pc' = [pc EXCEPT ![d] = IF P = {} THEN "index" ELSE "push"]
  /\ todo' = [todo EXCEPT ![d] = P]
  /\ listed' = [listed EXCEPT ![d] = {}]

\* Mutant of Missing: indices instead of positions.
MissingZeroBased(c, known) == 0..Len(c) \ known

\* push_blocks skips what the remote has.
Missing(c, known) == DOMAIN c \ known

\* Nothing was pulled: a remote chain that is longer is taken to be stale and
\* the last local block is pushed over it.
PushOverStale(d) ==
  LET n == Len(chain[d])
      stale == IF \E i \in listed[d] : i > n THEN {n} ELSE {}
  IN StartPush(d, Missing(chain[d], listed[d]) \cup stale)

\* pull_full_chain: the remote blocks in the order of their indices.
RemoteChain == Picked(rblocks, DOMAIN rblocks)

MayStart(d) ==
  /\ pc[d] = "idle"
  /\ Serial => \A o \in Device : pc[o] = "idle"

-----------------------------------------------------------------------------
(***************************************************************************)
(* SyncOrchestrator.sync: commit, verify, drop from staging.               *)
(***************************************************************************)
\* There is nothing to commit, or the user deselects or filters everything.
SyncOnly(d) ==
  /\ MayStart(d)
  /\ Goto(d, "fetch")
  /\ UNCHANGED <<files, remote, origin, torn>>

\* A selection is committed.  When the chain does not verify afterwards, the
\* last day block is reverted and sync ends.  Nothing was dropped from staging
\* yet; the copies that revert appends there are not counted in pending.
Commit(d) ==
  /\ MayStart(d)
  /\ \E S \in (SUBSET pending[d]) \ {{}} :
       LET grown == CommitEntries(chain[d], S) IN
       /\ Len(grown) <= MaxBlocks
       /\ \/ /\ Linked(grown)
             /\ pending' = [pending EXCEPT ![d] = @ \ S]
             /\ chain' = [chain EXCEPT ![d] = grown]
             /\ \/ Goto(d, "fetch")
                \/ "staging" \in Faults /\ UNCHANGED control
          \/ /\ ~Linked(grown)
             /\ chain' = [chain EXCEPT ![d] = Front(grown)]
             /\ UNCHANGED <<pending, control>>
  /\ UNCHANGED <<remote, origin, torn>>

-----------------------------------------------------------------------------
(***************************************************************************)
(* SyncOrchestrator._sync_ledger_blocks: compare and pull.                 *)
(***************************************************************************)
IndexIsValid == hjson # <<>> /\ hjson = hsha

\* Mutant of FetchIdentical: only the lengths are compared.
FetchSameLength(d) ==
  /\ pc[d] = "fetch"
  /\ IndexIsValid /\ Len(hjson) = Len(chain[d])
  /\ Goto(d, "relist")
  /\ UNCHANGED <<files, remote, origin, torn>>

\* Tier 1: the chains are identical, nothing is pulled.
FetchIdentical(d) ==
  /\ pc[d] = "fetch"
  /\ IndexIsValid /\ hjson = chain[d]
  /\ Goto(d, "relist")
  /\ UNCHANGED <<files, remote, origin, torn>>

\* Tier 2: the remote extends the local chain, the new blocks are pulled.
FetchExtended(d) ==
  /\ pc[d] = "fetch"
  /\ IndexIsValid /\ IsStrictPrefix(chain[d], hjson)
  /\ pc' = [pc EXCEPT ![d] = "named"]
  /\ listed' = [listed EXCEPT ![d] = Len(chain[d]) + 1 .. Len(hjson)]
  /\ UNCHANGED <<files, remote, todo, origin, torn>>

\* No valid index, or the chains are not in that relation: full pull.
FetchOther(d) ==
  /\ pc[d] = "fetch"
  /\ \/ ~IndexIsValid
     \/ ~IsPrefix(chain[d], hjson)
     \/ "pull" \in Faults
  /\ Goto(d, "list")
  /\ UNCHANGED <<files, remote, origin, torn>>

\* pull_block_by_index for each new position; one that fails is skipped.  No
\* linkage is checked before the blocks are appended.
PullNamed(d) ==
  /\ pc[d] = "named"
  /\ \E failed \in SUBSET listed[d] :
       /\ failed # {} => "pull" \in Faults
       /\ LET got == (listed[d] \cap DOMAIN rblocks) \ failed
          IN chain' = [chain EXCEPT ![d] = @ \o Picked(rblocks, got)]
  /\ pc' = [pc EXCEPT ![d] = "list"]
  /\ listed' = [listed EXCEPT ![d] = {}]
  /\ UNCHANGED <<pending, remote, todo, origin, torn>>

\* A listing that fails is taken to be empty.
Listing == {DOMAIN rblocks} \cup (IF "list" \in Faults THEN {{}} ELSE {})

List(d) ==
  /\ pc[d] = "list"
  /\ pc' = [pc EXCEPT ![d] = "pull"]
  /\ \E known \in Listing : listed' = [listed EXCEPT ![d] = known]
  /\ UNCHANGED <<files, remote, todo, origin, torn>>

Relist(d) ==
  /\ pc[d] = "relist"
  /\ \E known \in Listing : StartPush(d, Missing(chain[d], known))
  /\ UNCHANGED <<files, remote, origin, torn>>

\* What pull_blocks needs to read.
Beyond(d) == IF listed[d] = {} THEN {} ELSE Len(chain[d]) + 1 .. Max(listed[d])
Pulled(d) == [k \in 1..Cardinality(Beyond(d)) |-> rblocks[Len(chain[d]) + k]]

\* Blocks that link are appended and the rest of the chain is pushed.
PullLinking(d) ==
  /\ pc[d] = "pull"
  /\ Beyond(d) # {} /\ Beyond(d) \subseteq DOMAIN rblocks
  /\ LET n == Linking(chain[d], Pulled(d))
         grown == chain[d] \o SubSeq(Pulled(d), 1, n)
     IN /\ n > 0
        /\ chain' = [chain EXCEPT ![d] = grown]
        /\ StartPush(d, Missing(grown, listed[d]))
  /\ UNCHANGED <<pending, remote, origin, torn>>

\* The remote is empty, or a block that should be there cannot be read.
PullNothing(d) ==
  /\ pc[d] = "pull"
  /\ \/ listed[d] = {}
     \/ ~(Beyond(d) \subseteq DOMAIN rblocks)
     \/ "pull" \in Faults /\ Beyond(d) # {}
  /\ StartPush(d, Missing(chain[d], listed[d]))
  /\ UNCHANGED <<files, remote, origin, torn>>

\* pull_blocks returns None and a block count: the remote has nothing beyond
\* the local chain, or the first block beyond it does not link.
NothingLinks(d) ==
  /\ listed[d] # {}
  /\ Beyond(d) \subseteq DOMAIN rblocks
  /\ Linking(chain[d], Pulled(d)) = 0

PullDiverged(d) ==
  /\ pc[d] = "pull"
  /\ NothingLinks(d)
  /\ 1 \in DOMAIN rblocks /\ rblocks[1] = chain[d][1]
  /\ Goto(d, "choose")
  /\ UNCHANGED <<files, remote, origin, torn>>

PullUnrelated(d) ==
  /\ pc[d] = "pull"
  /\ NothingLinks(d)
  /\ 1 \notin DOMAIN rblocks \/ "pull" \in Faults
  /\ PushOverStale(d)
  /\ UNCHANGED <<files, remote, origin, torn>>

-----------------------------------------------------------------------------
(***************************************************************************)
(* SyncOrchestrator._try_ledger_merge.                                     *)
(***************************************************************************)
\* S and C both return False, and so does a client without a view.
Decline(d) ==
  /\ pc[d] = "choose"
  /\ Answers \cap {"skip", "cancel"} # {}
  /\ PushOverStale(d)
  /\ UNCHANGED <<files, remote, origin, torn>>

\* Mutant of MergeChains: blocks are not pushed by force.
MergeWithoutForce(d) ==
  /\ pc[d] = "choose"
  /\ "merge" \in Answers
  /\ Mergeable(chain[d], RemoteChain)
  /\ LET merged == Merge(chain[d], RemoteChain) IN
       /\ chain' = [chain EXCEPT ![d] = merged]
       /\ StartPush(d, Missing(merged, DOMAIN rblocks))
  /\ UNCHANGED <<pending, remote, origin, torn>>

\* The merged chain replaces the local one and all its blocks are pushed.
MergeChains(d) ==
  /\ pc[d] = "choose"
  /\ "merge" \in Answers
  /\ Mergeable(chain[d], RemoteChain)
  /\ LET merged == Merge(chain[d], RemoteChain) IN
       /\ chain' = [chain EXCEPT ![d] = merged]
       /\ StartPush(d, DOMAIN merged)
  /\ UNCHANGED <<pending, remote, origin, torn>>

\* The remote chain cannot be pulled, or one of the chains does not verify.
MergeFails(d) ==
  /\ pc[d] = "choose"
  /\ "merge" \in Answers
  /\ ~Mergeable(chain[d], RemoteChain) \/ "pull" \in Faults
  /\ PushOverStale(d)
  /\ UNCHANGED <<files, remote, origin, torn>>

\* The listing for the prompt is not guarded: no block is pushed.
MergeRaises(d) ==
  /\ pc[d] = "choose"
  /\ "list" \in Faults
  /\ StartPush(d, {})
  /\ UNCHANGED <<files, remote, origin, torn>>

-----------------------------------------------------------------------------
(***************************************************************************)
(* push_blocks and push_hash_index.                                        *)
(***************************************************************************)
PutBlock(d, i) ==
  rblocks' = [j \in DOMAIN rblocks \cup {i} |->
                IF j = i THEN chain[d][i] ELSE rblocks[j]]

PushBlock(d) ==
  /\ pc[d] = "push"
  /\ LET i == Min(todo[d]) IN
       /\ PutBlock(d, i)
       /\ StartPush(d, todo[d] \ {i})
  /\ UNCHANGED <<files, hjson, hsha, origin, torn>>

\* The remaining blocks are not pushed, the hash index is all the same.
PushBlockFails(d) ==
  /\ pc[d] = "push"
  /\ "push" \in Faults
  /\ PutBlock(d, Min(todo[d])) \/ UNCHANGED rblocks
  /\ StartPush(d, {})
  /\ UNCHANGED <<files, hjson, hsha, origin, torn>>

PushHashes(d) ==
  /\ pc[d] = "index"
  /\ \/ hjson' = chain[d] /\ Goto(d, "checksum")
     \/ "push" \in Faults /\ hjson' \in {hjson, chain[d]} /\ Finish(d)
  /\ UNCHANGED <<files, rblocks, hsha, origin, torn>>

PushChecksum(d) ==
  /\ pc[d] = "checksum"
  /\ \/ hsha' = chain[d]
     \/ "push" \in Faults /\ hsha' = hsha
  /\ Finish(d)
  /\ UNCHANGED <<files, rblocks, hjson, origin, torn>>

-----------------------------------------------------------------------------
(***************************************************************************)
(* Kills.  A commit of several days and a merge write ledger.json block by *)
(* block; a merge first truncates it to the genesis block.  Bound: at most *)
(* one device is killed in the middle of such a rewrite.                   *)
(***************************************************************************)
Kill(d) ==
  /\ "kill" \in Faults
  /\ pc[d] # "idle"
  /\ Finish(d)
  /\ UNCHANGED <<files, remote, origin, torn>>

TearCommit(d) ==
  /\ "kill" \in Faults /\ torn = {}
  /\ MayStart(d)
  /\ \E S \in (SUBSET pending[d]) \ {{}} :
       LET grown == CommitEntries(chain[d], S) IN
       /\ Len(grown) <= MaxBlocks
       /\ \E n \in Len(chain[d]) + 1 .. Len(grown) :
            chain' = [chain EXCEPT ![d] = SubSeq(grown, 1, n)]
  /\ torn' = torn \cup {d}
  /\ UNCHANGED <<pending, remote, control, origin>>

TearMerge(d) ==
  /\ "kill" \in Faults /\ torn = {}
  /\ pc[d] = "choose"
  /\ "merge" \in Answers
  /\ Mergeable(chain[d], RemoteChain)
  /\ LET merged == Merge(chain[d], RemoteChain) IN
       \E n \in 1 .. Len(merged) - 1 :
         chain' = [chain EXCEPT ![d] = SubSeq(merged, 1, n)]
  /\ torn' = torn \cup {d}
  /\ Finish(d)
  /\ UNCHANGED <<pending, remote, origin>>

-----------------------------------------------------------------------------
Continue(d) ==
  \/ FetchIdentical(d) \/ FetchExtended(d) \/ FetchOther(d)
  \/ PullNamed(d) \/ List(d) \/ Relist(d)
  \/ PullLinking(d) \/ PullNothing(d) \/ PullDiverged(d) \/ PullUnrelated(d)
  \/ Decline(d) \/ MergeChains(d) \/ MergeFails(d) \/ MergeRaises(d)
  \/ PushBlock(d) \/ PushBlockFails(d) \/ PushHashes(d) \/ PushChecksum(d)

Next ==
  \E d \in Device :
    \/ SyncOnly(d) \/ Commit(d) \/ Continue(d)
    \/ Kill(d) \/ TearCommit(d) \/ TearMerge(d)

Spec == Init /\ [][Next]_vars

\* A sync comes to its end, and users sync again and again.
Fairness ==
  \A d \in Device : []<>(pc[d] = "idle") /\ SF_vars(SyncOnly(d))

FairSpec == Spec /\ Fairness

-----------------------------------------------------------------------------
(***************************************************************************)
(* Properties.                                                             *)
(***************************************************************************)
\* An entry stays with the device that staged it, in staging or in the local
\* chain, through pulls, merges, reverted commits and failures; only a client
\* killed while it rewrites ledger.json may lose it.
EntryKept ==
  \A e \in Entry : origin[e] \notin torn =>
    e \in pending[origin[e]] \cup Held(chain[origin[e]])

\* While all chains verify, each holds an entry once, and not while its device
\* still stages it: no pull, merge or repeated commit records an entry twice.
EntryOnce ==
  torn = {} /\ (\A d \in Device : Linked(chain[d])) =>
    \A d \in Device, e \in Entry :
      Copies(chain[d], e) + (IF e \in pending[d] THEN 1 ELSE 0) <= 1

\* A merge yields a chain that verifies, holds what either side held, and
\* holds no entry more often than one of the sides did.
MergeKeepsBoth ==
  [][\A d \in Device :
       pc[d] = "choose" /\ pc'[d] = "push" /\ chain'[d] # chain[d] =>
         /\ Linked(chain'[d])
         /\ Held(chain'[d]) = Held(chain[d]) \cup Held(RemoteChain)
         /\ \A e \in Entry :
              \/ Copies(chain'[d], e) <= Copies(chain[d], e)
              \/ Copies(chain'[d], e) <= Copies(RemoteChain, e)]_vars

\* The local chain verifies, whatever was pulled or merged.
ChainsLinked == \A d \in Device : Linked(chain[d])

\* When users keep merging, in the end every device holds every entry that any
\* device committed.
EntriesSpread ==
  <>[](\A d \in Device, e \in Entry :
         e \in pending[origin[e]] \cup Held(chain[d]))

\* Once a merged chain is pushed it is the remote chain.
PushedChainIsRemote ==
  \A d \in Device : pc[d] = "index" => RemoteChain = chain[d]
=============================================================================
