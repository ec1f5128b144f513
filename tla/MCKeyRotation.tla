----------------------------- MODULE MCKeyRotation -----------------------------
(***************************************************************************)
(* Symmetry for the configurations of KeyRotation.                         *)
(***************************************************************************)
EXTENDS KeyRotation, TLC

EntrySymmetry == Permutations(Entry)
=============================================================================
