----------------------------- MODULE MCDownload -----------------------------
(***************************************************************************)
(* A file at the root and one in a directory, each with two versions of its *)
(* own and one of them possibly a Git LFS object, and two runs.             *)
(***************************************************************************)
EXTENDS Download

MCBlobs == {[id |-> 1, size |-> 3, lfs |-> FALSE],
            [id |-> 2, size |-> 2, lfs |-> FALSE],
            [id |-> 3, size |-> 2, lfs |-> TRUE]}
=============================================================================
