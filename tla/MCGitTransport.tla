---------------------------- MODULE MCGitTransport ----------------------------
(***************************************************************************)
(* Symmetry for the configurations of GitTransport.                        *)
(***************************************************************************)
EXTENDS GitTransport, TLC

Symmetric == Permutations(Device)
=============================================================================
