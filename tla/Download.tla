------------------------------ MODULE Download ------------------------------
(***************************************************************************)
(* `omc download': the walk over the server's listing, the transfers that   *)
(* run side by side, and what they leave on the client's disk; with the     *)
(* part of the server that answers them: the listing of repos/files.py and  *)
(* the raw files of routers/resolve.py, which redirects Git LFS pointers to *)
(* the object download of git_smart/lfs.py.                                 *)
(*                                                                          *)
(* A blob is a record [id, size, lfs]; its bytes are pieces, and a piece is *)
(* a pair of the blob's id and the position.  Commits land between any two  *)
(* requests, a transfer may break off after any piece, and the command may  *)
(* be interrupted and run again in the same directory.                      *)
(***************************************************************************)
EXTENDS Integers, Sequences, FiniteSets

CONSTANTS Files,        \* the paths of the repository
          InSub,        \* those in its directory; the others are at the root
          Blobs,        \* what a path may hold: records [id, size, lfs]
          MaxWorkers,   \* concurrent transfers
          MaxCommits,   \* bound: commits that land on the default branch
          MaxRuns,      \* bound: times the command is run
          None

Parameters == /\ InSub \subseteq Files
              /\ MaxWorkers \in Nat \ {0}
              /\ Blobs \subseteq [id : Nat, size : Nat, lfs : BOOLEAN]

ASSUME DownloadAssumption == Parameters

VARIABLES tree,      \* tree[r][f]: the blob of f at revision r, or None
          commits,   \* commits that have landed
          part,      \* part[f]: the pieces in f's .part file, or None
          target,    \* target[f]: the pieces in the finished file, or None
          pc,        \* where the command is
          revision,  \* what it was asked for
          files,     \* the entries the walk has collected
          task       \* task[f]: the transfer of f

vars == <<tree, commits, part, target, pc, revision, files, task>>
remote == <<tree, commits>>
disk == <<part, target>>

Revisions == {"main", "v1"}
Pieces(b) == [i \in 1..b.size |-> <<b.id, i>>]
Waiting == [state |-> "waiting"]
Finished == [state |-> "done"]

\* The tag v1 was put on what the default branch holds at first.
Init == /\ \E t \in [Files -> Blobs \cup {None}] : tree = [r \in Revisions |-> t]
        /\ commits = 0
        /\ part = [f \in Files |-> None]
        /\ target = [f \in Files |-> None]
        /\ pc = [at |-> "idle", runs |-> 0]
        /\ revision = "main"
        /\ files = {}
        /\ task = [f \in Files |-> None]

Commit == /\ commits < MaxCommits
          /\ commits' = commits + 1
          /\ \E f \in Files, b \in Blobs \cup {None} : tree' = [tree EXCEPT !["main"][f] = b]
          /\ UNCHANGED <<disk, pc, revision, files, task>>

(***************************************************************************)
(* The server                                                               *)
(***************************************************************************)

\* The listing is of the default branch: the revision of the request is dropped.
list_files(dir) == {f \in dir : tree["main"][f] # None}

\* A revision or a path that is not there, or is no plain file, is a 404.
resolve_blob(f) == tree[revision][f]

\* The head of the blob tells a pointer; the client follows the redirect to the
\* object, which is sent as a whole: that endpoint knows no ranges.
maybe_lfs_pointer(b) == b.lfs
handle_get(b) == [status |-> 200, body |-> Pieces(b)]

\* An open-ended range is satisfiable when it starts inside the file.
parse_range(start, size) == IF start < size THEN "satisfiable" ELSE "416"
iter_blob_window(b, start) == SubSeq(Pieces(b), start + 1, b.size)

\* The answer to a request for f from a position on; no range is sent for 0.
resolve_file(f, start) ==
    LET b == resolve_blob(f)
    IN  IF b = None THEN [status |-> 404]
        ELSE IF maybe_lfs_pointer(b) THEN handle_get(b)
        ELSE IF start = 0 THEN [status |-> 200, body |-> iter_blob_window(b, 0)]
        ELSE IF parse_range(start, b.size) = "416" THEN [status |-> 416]
        ELSE [status |-> 206, body |-> iter_blob_window(b, start)]

(***************************************************************************)
(* The walk: the root and then its directory, one request each.  A          *)
(* repository without a commit has no listing, nor has an empty directory.  *)
(***************************************************************************)

Goto(at) == pc' = [pc EXCEPT !.at = at]

\* The command ends, by itself, by an error, or interrupted: what was being
\* written stays in the .part files.
EndRun == /\ pc' = [pc EXCEPT !.at = "idle"]
          /\ task' = [f \in Files |-> None]
          /\ files' = {}

download_command == /\ pc.at = "idle" /\ pc.runs < MaxRuns
                    /\ pc' = [at |-> "root", runs |-> pc.runs + 1]
                    /\ revision' \in Revisions
                    /\ files' = {}
                    /\ task' = [f \in Files |-> None]
                    /\ UNCHANGED <<remote, disk>>

walk_root == /\ pc.at = "root"
             /\ files' = list_files(Files \ InSub)
             /\ IF list_files(InSub) # {} THEN Goto("sub") ELSE Goto("transfer")
             /\ UNCHANGED <<remote, disk, revision, task>>

walk_sub == /\ pc.at = "sub"
            /\ IF list_files(InSub) = {}
               THEN EndRun
               ELSE /\ files' = files \cup list_files(InSub)
                    /\ Goto("transfer")
                    /\ UNCHANGED task
            /\ UNCHANGED <<remote, disk, revision>>

schedule == /\ pc.at = "transfer"
            /\ Goto("running")
            /\ task' = [f \in Files |-> IF f \in files THEN Waiting ELSE None]
            /\ UNCHANGED <<remote, disk, revision, files>>

(***************************************************************************)
(* One transfer, under the semaphore                                        *)
(***************************************************************************)

State(f) == IF task[f] = None THEN "none" ELSE task[f].state
Active == {f \in Files : State(f) \in {"asking", "streaming"}}

acquire(f) == /\ pc.at = "running" /\ State(f) = "waiting"
              /\ Cardinality(Active) < MaxWorkers
              /\ task' = [task EXCEPT ![f] = [state |-> "asking"]]
              /\ UNCHANGED <<remote, disk, pc, revision, files>>

ResumeFrom(f) == IF part[f] = None THEN 0 ELSE Len(part[f])

\* A full answer replaces what is there, a partial one is appended to it.
AppendAlways(f, answer) ==    \* mutant: the file is opened to append
    IF part[f] = None THEN <<>> ELSE part[f]
OpenPart(f, answer) ==
    IF answer.status = 200 \/ part[f] = None THEN <<>> ELSE part[f]

\* A refused range restarts the transfer from nothing.
KeepPart(f) == UNCHANGED part      \* mutant: the .part file is not removed
restart(f) == part' = [part EXCEPT ![f] = None]

transfer_one(f) ==
    /\ State(f) = "asking"
    /\ LET answer == resolve_file(f, ResumeFrom(f))
       IN  CASE answer.status = 404 -> EndRun /\ UNCHANGED disk
             [] answer.status = 416 -> restart(f) /\ UNCHANGED <<target, pc, files, task>>
             [] OTHER -> /\ part' = [part EXCEPT ![f] = OpenPart(f, answer)]
                         /\ task' = [task EXCEPT ![f] = [state |-> "streaming", body |-> answer.body]]
                         /\ UNCHANGED <<target, pc, files>>
    /\ UNCHANGED <<remote, revision>>

receive(f) == /\ State(f) = "streaming" /\ task[f].body # <<>>
              /\ part' = [part EXCEPT ![f] = Append(@, Head(task[f].body))]
              /\ task' = [task EXCEPT ![f].body = Tail(@)]
              /\ UNCHANGED <<remote, target, pc, revision, files>>

\* os.replace
finish(f) == /\ State(f) = "streaming" /\ task[f].body = <<>>
             /\ target' = [target EXCEPT ![f] = part[f]]
             /\ part' = [part EXCEPT ![f] = None]
             /\ task' = [task EXCEPT ![f] = Finished]
             /\ UNCHANGED <<remote, pc, revision, files>>

report == /\ pc.at = "running"
          /\ \A f \in files : State(f) = "done"
          /\ EndRun
          /\ UNCHANGED <<remote, disk, revision>>

\* A transport error of one transfer ends them all, as an interrupt does.
BreakOff == /\ pc.at # "idle"
            /\ EndRun
            /\ UNCHANGED <<remote, disk, revision>>

Walk == walk_root \/ walk_sub \/ schedule
Transfer(f) == acquire(f) \/ transfer_one(f) \/ receive(f) \/ finish(f)
Step == Walk \/ (\E f \in Files : Transfer(f)) \/ report

Next == Commit \/ download_command \/ Step \/ BreakOff

Spec == Init /\ [][Next]_vars

\* The event loop of the command goes on while it has something to do.
FairSpec == Spec /\ WF_vars(Step)

(***************************************************************************)
(* Properties                                                               *)
(***************************************************************************)

\* A file under its final name is as long as the version of the blob that its
\* end was taken from, with every piece at its own position: no interruption,
\* resume, refused range or redirect loses, repeats or shifts a piece.
TargetsAreComplete ==
    \A f \in Files : target[f] # None =>
        LET got == target[f]
        IN  /\ \A i \in DOMAIN got : got[i][2] = i
            /\ \E b \in Blobs : /\ b.size = Len(got)
                               /\ got # <<>> => got[Len(got)][1] = b.id

\* A run of the command comes to an end, done or failed: a transfer is not
\* restarted for ever, whatever commits and earlier runs left behind.
RunsEnd == pc.at # "idle" ~> pc.at = "idle"
=============================================================================
