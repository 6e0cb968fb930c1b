----------------------------- MODULE MCRepoStore -----------------------------
EXTENDS RepoStore, TLC

(***************************************************************************)
(* Requests are interchangeable: they are compared for equality only.      *)
(***************************************************************************)
ReqSymmetry == Permutations(Req)
=============================================================================
