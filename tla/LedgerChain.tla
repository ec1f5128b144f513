----------------------------- MODULE LedgerChain -----------------------------
(***************************************************************************)
(* Chains of ledger blocks: linkage, the blocks a commit appends and the   *)
(* merge of two chains of one genesis (src/domain/ledger).                 *)
(*                                                                         *)
(* The seal of a block covers its day and the hash of the block before it, *)
(* so a hash determines everything down to the genesis block.  A block is  *)
(* represented by what its hash determines: the sequence of days from the  *)
(* genesis block, which has none, to its own.  Equal hashes are then equal *)
(* blocks, and prev_hash is the block without its last day.                *)
(*                                                                         *)
(* All days fall in one month, the month of the genesis block, so that     *)
(* SummaryPolicy inserts no block.  An entry stands for its content_hash.  *)
(***************************************************************************)
EXTENDS Lists, SequencesExt

CONSTANTS
  Entry,  \* completed entries, numbered in the order staging lists them
  Date,   \* the UTC day an entry starts on
  Title   \* what entries are sorted by; equal for all encrypted titles

ASSUME EntryAssumption == Entry \subseteq Nat /\ IsFiniteSet(Entry)
ASSUME DateAssumption  == Date \in [Entry -> Nat]
ASSUME TitleAssumption == Title \in [Entry -> Nat]

Day   == [date : Nat, entries : Seq(Entry)]
Block == Seq(Day)

Genesis     == <<>>
PrevHash(b) == Front(b)

BlockEntries(b) == IF b = Genesis THEN <<>> ELSE Last(b).entries
ChainEntries(c) == FlattenSeq([i \in DOMAIN c |-> BlockEntries(c[i])])
Held(c)         == ToSet(ChainEntries(c))

\* How often list s, and chain c, hold entry e.
Count(s, e)  == Cardinality({k \in DOMAIN s : s[k] = e})
Copies(c, e) == Count(ChainEntries(c), e)

\* LedgerChain.verify and both _verify_chain: every block names the hash of
\* the block before it.
Linked(c) ==
  \A i \in 2..Len(c) : c[i] # Genesis /\ PrevHash(c[i]) = c[i - 1]

-----------------------------------------------------------------------------
\* build_day_block on top of the last block of c and append: one day block
\* per date, dates ascending, entries in the order given.
AppendDays(c, entries) ==
  LET dates == Ascending({Date[e] : e \in ToSet(entries)})
      days  == [k \in DOMAIN dates |->
                  [date    |-> dates[k],
                   entries |-> Picked(entries, {j \in DOMAIN entries :
                                                  Date[entries[j]] = dates[k]})]]
  IN c \o [k \in DOMAIN days |-> Last(c) \o SubSeq(days, 1, k)]

\* LedgerEngine.commit: what staging lists is grouped by date and appended.
CommitEntries(c, entries) == AppendDays(c, Ascending(entries))

\* Stable sort by title.
TitledBefore(s, i, j) ==
  \/ Title[s[i]] < Title[s[j]]
  \/ Title[s[i]] = Title[s[j]] /\ i < j

ByTitle(entries) ==
  LET Rank(i) == Cardinality({j \in DOMAIN entries : TitledBefore(entries, j, i)})
  IN [k \in DOMAIN entries |->
        entries[CHOOSE i \in DOMAIN entries : Rank(i) = k - 1]]

\* How many leading blocks two chains share.
Shared(c1, c2) == {n \in 0..Len(c1) : IsPrefix(SubSeq(c1, 1, n), c2)}
ForkIndex(c1, c2) == CHOOSE n \in Shared(c1, c2) : \A m \in Shared(c1, c2) : m <= n

After(c, n) == SubSeq(c, n + 1, Len(c))

\* LedgerMerge._verify_chain on both chains, and the common genesis.
Mergeable(mine, theirs) ==
  /\ theirs # <<>> /\ mine[1] = theirs[1]
  /\ Linked(mine) /\ Linked(theirs)

\* Mutant of Merge: the fork is one block too late.
MergeOffByOne(mine, theirs) ==
  LET fork == ForkIndex(mine, theirs)
      late == ChainEntries(After(theirs, fork))
      new  == Picked(late, {j \in DOMAIN late : late[j] \notin Held(mine)})
      both == ChainEntries(After(mine, fork + 1)) \o new
  IN IF new = <<>> THEN mine
     ELSE AppendDays(SubSeq(mine, 1, fork), ByTitle(both))

\* Mutant of Merge: entries held by both sides are not dropped.
MergeWithoutDedup(mine, theirs) ==
  LET fork == ForkIndex(mine, theirs)
      both == ChainEntries(After(mine, fork)) \o ChainEntries(After(theirs, fork))
  IN AppendDays(SubSeq(mine, 1, fork), ByTitle(both))

\* Mutant of Merge: the longer chain wins.
MergeTakesLonger(mine, theirs) ==
  IF Len(theirs) > Len(mine) THEN theirs ELSE mine

\* LedgerMerge.merge: keep the common prefix and rebuild from the entries of
\* both sides after it, less those of theirs that mine already holds.
Merge(mine, theirs) ==
  LET fork == ForkIndex(mine, theirs)
      held == Held(mine)
      late == ChainEntries(After(theirs, fork))
      new  == Picked(late, {j \in DOMAIN late : late[j] \notin held})
      both == ChainEntries(After(mine, fork)) \o new
  IN IF new = <<>> THEN mine
     ELSE AppendDays(SubSeq(mine, 1, fork), ByTitle(both))

\* Mutant of Linking: every pulled block is taken to link.
LinkingUnchecked(c, new) == Len(new)

\* RemoteLedgerSync.pull_blocks: of the pulled blocks only those are kept that
\* link to the local chain; 0 when the first does not.
Linking(c, new) ==
  LET linked == {n \in 1..Len(new) : Linked(c \o SubSeq(new, 1, n))}
  IN IF linked = {} THEN 0 ELSE CHOOSE n \in linked : \A m \in linked : m <= n
=============================================================================
