----------------------------- MODULE MCWebStaging -----------------------------
(***************************************************************************)
(* What other clients push, and symmetry, for the configurations of        *)
(* WebStaging.                                                             *)
(***************************************************************************)
EXTENDS WebStaging, TLC

\* Another client has nothing, a completed or a committed entry, of each.
Completed == [Entry -> {"absent", "ended", "committed"}]

EntrySymmetry == Permutations(Entry)
=============================================================================
