---------------------------- MODULE MCStagingSync ----------------------------
(***************************************************************************)
(* What the configurations of StagingSync need beside the specification.   *)
(***************************************************************************)
EXTENDS StagingSync, TLC

\* Devices are interchangeable; entries are ordered and are not.
DeviceSymmetry == Permutations(Device)
=============================================================================
