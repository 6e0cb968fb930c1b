---------------------------- MODULE MCCredentials ----------------------------
(* Two servers and two users, at most two commands at a time. *)
EXTENDS Credentials
MCUrl == {1, 2}
MCFile == {1, 2, 3, 4}
=============================================================================
