------------------------------ MODULE MCSpaces ------------------------------
(* Two Spaces whose names are apart; the owner of one has GPUs. *)
EXTENDS Spaces
MCSpace == {[owner |-> <<"a">>, name |-> <<"x">>],
            [owner |-> <<"b">>, name |-> <<"y">>]}
MCGpuOwners == {<<"a">>}
=============================================================================
