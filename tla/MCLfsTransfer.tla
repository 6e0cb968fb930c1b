---------------------------- MODULE MCLfsTransfer ----------------------------
EXTENDS LfsTransfer, TLC

(***************************************************************************)
(* Runs and objects are compared for equality only.                        *)
(***************************************************************************)
Symmetry == Permutations(Run) \cup Permutations(Obj)
=============================================================================
