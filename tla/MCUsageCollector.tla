-------------------------- MODULE MCUsageCollector --------------------------
(***************************************************************************)
(* Small instances of UsageCollector for TLC.                              *)
(***************************************************************************)
EXTENDS UsageCollector, TLC

EventSymmetry == Permutations(Events)
=============================================================================
