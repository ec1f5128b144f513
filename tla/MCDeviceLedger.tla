---------------------------- MODULE MCDeviceLedger ----------------------------
(***************************************************************************)
(* Titles and times for the configurations of DeviceLedger.                *)
(***************************************************************************)
EXTENDS DeviceLedger, TLC

EntrySymmetry == Permutations(Entry \ Foreign)

OneTitle == [e \in Entry |-> "title"]
Lasting  == [e \in Entry |-> 2]

\* Months are counted from a January.  The genesis block is of a November,
\* entries are of the March of each of the next two years.
November == 31 * 10 + 25
Marches  == {31 * 14 + 3, 31 * 26 + 3}
=============================================================================
