------------------------------ MODULE MCMembers ------------------------------
(* A member and an admin, whose two requests are interchangeable. *)
EXTENDS Members, TLC
CONSTANTS member, admin, r1, r2
MCUser == {member, admin}
MCAdmins == {admin}
MCReq == {r1, r2}
Symmetry == Permutations(MCReq)
=============================================================================
