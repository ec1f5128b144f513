----------------------------- MODULE MCOnboarding -----------------------------
(***************************************************************************)
(* Symmetry for the configurations of Onboarding.                          *)
(***************************************************************************)
EXTENDS Onboarding, TLC

Symmetric == Permutations(Entry) \cup Permutations(Passphrase)
               \cup Permutations(Seed)
=============================================================================
