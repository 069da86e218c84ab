-------------------------- MODULE MCAccountActions --------------------------
(***************************************************************************)
(* Small instances of AccountActions for TLC.                              *)
(***************************************************************************)
EXTENDS AccountActions, TLC

Symmetry == Permutations(Accounts) \cup Permutations(Admins)
=============================================================================
