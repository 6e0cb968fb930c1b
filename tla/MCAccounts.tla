------------------------------ MODULE MCAccounts ------------------------------
EXTENDS Accounts, TLC

(***************************************************************************)
(* One admin.  Requests, usernames and emails are compared for equality    *)
(* only.  Of the sizes one is in range; 0 can only be set with the command *)
(* line on the database.                                                   *)
(***************************************************************************)
Symmetry == Permutations(Req) \cup Permutations(User) \cup Permutations(Email)
=============================================================================
