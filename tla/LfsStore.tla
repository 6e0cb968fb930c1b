------------------------------- MODULE LfsStore -------------------------------
(***************************************************************************)
(* One object of the filesystem LFS store (objectstore/local.py) under     *)
(* concurrent uploads, downloads and process crashes.                      *)
(*                                                                         *)
(* The store knows two paths per object, the final one (target) and        *)
(* "<oid>.tmp" (tmp), which all uploads of the object share.  A path names *)
(* a file; an upload that has a file open keeps writing to that very file  *)
(* whatever its path has become meanwhile.  A step is what an upload does  *)
(* between two awaits, or one file operation handed to a worker thread.    *)
(***************************************************************************)
EXTENDS Integers, Sequences

CONSTANTS Upload,     \* calls of write_object
          Download,   \* calls of read_object
          None,
          Size,       \* length of the object in chunks
          MaxCrashes  \* bound on restarts of the process

VARIABLES
  file,     \* contents of every file ever created
  target,   \* file at the object's final path, or None
  tmp,      \* file at <oid>.tmp, or None
  up,       \* per upload: [pc, fd, sent]
  down,     \* per download: [pc, fd, got]
  crashes,
  overlapped  \* history: an upload has begun while another was in flight

vars == <<file, target, tmp, up, down, crashes, overlapped>>

(***************************************************************************)
(* A chunk is right when it is what the object has at its place; a hole is *)
(* what a write beyond the end of a truncated file leaves behind.  Only    *)
(* the right chunks in full have the digest and the length of the object.  *)
(***************************************************************************)
Chunk == {"right", "wrong", "hole"}
Content == UNION {[1 .. n -> Chunk] : n \in 0 .. Size}
Body == [i \in 1 .. Size |-> "right"]

Stale == "stale"     \* left behind by an upload of an earlier process
File == Upload \cup {Stale}

ASSUME LfsAssumption ==
  /\ Size \in Nat \ {0} /\ MaxCrashes \in Nat
  /\ Stale \notin Upload /\ None \notin File

Whole(f) == file[f] = Body

TypeOK ==
  /\ file \in [File -> Content]
  /\ target \in File \cup {None} /\ tmp \in File \cup {None}
  /\ up \in [Upload ->
       [pc : {"idle", "mkdir", "scrub", "open", "stream", "replace", "stored",
              "refused", "collided", "failed"},
        fd : File \cup {None}, sent : Content]]
  /\ down \in [Download ->
       [pc : {"idle", "reading", "done", "missing"}, fd : File \cup {None},
        got : Content]]
  /\ crashes \in 0 .. MaxCrashes
  /\ overlapped \in BOOLEAN

Init ==
  /\ file = [f \in File |-> <<>>]
  /\ target = None
  /\ tmp \in {None, Stale}
  /\ up = [u \in Upload |-> [pc |-> "idle", fd |-> None, sent |-> <<>>]]
  /\ down = [d \in Download |-> [pc |-> "idle", fd |-> None, got |-> <<>>]]
  /\ crashes = 0
  /\ overlapped = FALSE

At(u, pc) == up[u].pc = pc
Goto(u, pc) == up' = [up EXCEPT ![u].pc = pc]
InFlight == {u \in Upload : up[u].pc \in
                              {"mkdir", "scrub", "open", "stream", "replace"}}
-----------------------------------------------------------------------------
Begin(u) ==       \* the object must not exist; then mkdir in a thread
  /\ At(u, "idle")
  /\ Goto(u, IF target = None THEN "mkdir" ELSE "refused")
  /\ overlapped' = (overlapped \/ InFlight # {})
  /\ UNCHANGED <<file, target, tmp, down, crashes>>

(***************************************************************************)
(* open("wb"): the file at the path is truncated, or a new one created.    *)
(***************************************************************************)
Open(u) ==
  LET f == IF tmp = None THEN u ELSE tmp
  IN  /\ tmp' = f
      /\ file' = [file EXCEPT ![f] = <<>>]
      /\ up' = [up EXCEPT ![u].pc = "stream", ![u].fd = f]

PrepareInPlace(u) ==   \* mutant: the body is streamed to the final path
  /\ At(u, "mkdir")
  /\ target' = u /\ tmp' = u
  /\ file' = [file EXCEPT ![u] = <<>>]
  /\ up' = [up EXCEPT ![u].pc = "stream", ![u].fd = u]
  /\ UNCHANGED <<down, crashes, overlapped>>

Prepare(u) ==     \* back from mkdir: scrub a leftover, or open at once
  /\ At(u, "mkdir")
  /\ IF tmp = None THEN Open(u)
                   ELSE Goto(u, "scrub") /\ UNCHANGED <<file, tmp>>
  /\ UNCHANGED <<target, down, crashes, overlapped>>

Scrub(u) ==       \* unlink in a thread
  /\ At(u, "scrub")
  /\ tmp' = None
  /\ Goto(u, "open")
  /\ UNCHANGED <<file, target, down, crashes, overlapped>>

OpenScrubbed(u) ==
  /\ At(u, "open")
  /\ Open(u)
  /\ UNCHANGED <<target, down, crashes, overlapped>>

(***************************************************************************)
(* The i-th chunk goes to the i-th place of the file that is open.         *)
(***************************************************************************)
PutAt(content, i, c) ==
  [j \in 1 .. (IF i > Len(content) THEN i ELSE Len(content)) |->
     IF j = i THEN c ELSE IF j <= Len(content) THEN content[j] ELSE "hole"]

WriteAtEnd(u, c) ==   \* mutant: the file is opened for appending
  /\ At(u, "stream") /\ Len(up[u].sent) < Size
  /\ file' = [file EXCEPT ![up[u].fd] = Append(@, c)]
  /\ up' = [up EXCEPT ![u].sent = Append(@, c)]
  /\ UNCHANGED <<target, tmp, down, crashes, overlapped>>

Write(u, c) ==
  /\ At(u, "stream") /\ Len(up[u].sent) < Size
  /\ file' = [file EXCEPT ![up[u].fd] = PutAt(@, Len(up[u].sent) + 1, c)]
  /\ up' = [up EXCEPT ![u].sent = Append(@, c)]
  /\ UNCHANGED <<target, tmp, down, crashes, overlapped>>

StreamFails(u) == \* the client disconnects, or sends more than the cap
  /\ At(u, "stream")
  /\ tmp' = None
  /\ Goto(u, "failed")
  /\ UNCHANGED <<file, target, down, crashes, overlapped>>

(***************************************************************************)
(* End of the body: length and digest of what this upload received.        *)
(***************************************************************************)
VerifyLength(u) ==   \* mutant: the digest is not compared
  /\ At(u, "stream")
  /\ IF Len(up[u].sent) = Size
       THEN Goto(u, "replace") /\ UNCHANGED tmp
       ELSE Goto(u, "failed") /\ tmp' = None
  /\ UNCHANGED <<file, target, down, crashes, overlapped>>

Verify(u) ==
  /\ At(u, "stream")
  /\ IF up[u].sent = Body
       THEN Goto(u, "replace") /\ UNCHANGED tmp
       ELSE Goto(u, "failed") /\ tmp' = None
  /\ UNCHANGED <<file, target, down, crashes, overlapped>>

ReplaceUnchecked(u) ==   \* mutant: a missing temporary file is ignored
  /\ At(u, "replace")
  /\ target' = IF tmp = None THEN target ELSE tmp
  /\ tmp' = None
  /\ Goto(u, "stored")
  /\ UNCHANGED <<file, down, crashes, overlapped>>

Replace(u) ==     \* os.replace in a thread: FileNotFoundError, or the rename
  /\ At(u, "replace")
  /\ IF tmp = None
       THEN Goto(u, "collided") /\ UNCHANGED target
       ELSE Goto(u, "stored") /\ target' = tmp
  /\ tmp' = None
  /\ UNCHANGED <<file, down, crashes, overlapped>>
-----------------------------------------------------------------------------
Find(d) ==        \* read_object: open the file, or FileNotFoundError
  /\ down[d].pc = "idle"
  /\ down' = [down EXCEPT ![d].pc = IF target = None THEN "missing" ELSE "reading",
                          ![d].fd = target]
  /\ UNCHANGED <<file, target, tmp, up, crashes, overlapped>>

Read(d) ==        \* the pump reads to the end of its file
  /\ down[d].pc = "reading"
  /\ LET content == file[down[d].fd]
         next == Len(down[d].got) + 1
     IN  down' = IF next > Len(content)
                   THEN [down EXCEPT ![d].pc = "done"]
                   ELSE [down EXCEPT ![d].got = Append(@, content[next])]
  /\ UNCHANGED <<file, target, tmp, up, crashes, overlapped>>

Crash ==          \* files stay, everything in memory goes
  /\ crashes < MaxCrashes
  /\ crashes' = crashes + 1
  /\ up' = [u \in Upload |->
              IF u \in InFlight THEN [up[u] EXCEPT !.pc = "failed"] ELSE up[u]]
  /\ down' = [d \in Download |->
                IF down[d].pc = "reading" THEN [down[d] EXCEPT !.pc = "missing"]
                                          ELSE down[d]]
  /\ UNCHANGED <<file, target, tmp, overlapped>>

Next ==
  \/ \E u \in Upload :
       \/ Begin(u) \/ Prepare(u) \/ Scrub(u) \/ OpenScrubbed(u)
       \/ \E c \in {"right", "wrong"} : Write(u, c)
       \/ StreamFails(u) \/ Verify(u) \/ Replace(u)
  \/ \E d \in Download : Find(d) \/ Read(d)
  \/ Crash

Spec == Init /\ [][Next]_vars
-----------------------------------------------------------------------------
(***************************************************************************)
(* base.py: every backend is "safe to share across requests" and           *)
(* "responsible for any concurrency control over its own on-disk /         *)
(* over-the-w3 primitives": the final path only ever names a complete      *)
(* object with the right digest.                                           *)
(***************************************************************************)
SafeToShare == target # None => Whole(target)

(***************************************************************************)
(* It is so as long as each upload begins after the attempt before it has  *)
(* ended, failed or died with the process.                                 *)
(***************************************************************************)
ObjectsAreWhole == ~overlapped => SafeToShare

(***************************************************************************)
(* A download that runs to the end of its file has received the object,    *)
(* also when an upload ends, fails and starts again while it reads.        *)
(***************************************************************************)
DownloadsAreWhole ==
  ~overlapped => \A d \in Download : down[d].pc = "done" => down[d].got = Body

(***************************************************************************)
(* Whatever the interleaving, once every upload has ended and none failed  *)
(* while its body was streamed or checked, the object at the final path is *)
(* whole: the last upload to open a file is the one that fills it.         *)
(***************************************************************************)
WholeOnceQuiet ==
  (\A u \in Upload : up[u].pc \in {"idle", "refused", "stored", "collided"}) =>
    target = None \/ Whole(target)

(***************************************************************************)
(* An upload that is answered with success (and charged to the owner) has  *)
(* left an object at the final path, whoever else moved or unlinked the    *)
(* temporary file.                                                         *)
(***************************************************************************)
StoredMeansPresent == (\E u \in Upload : At(u, "stored")) => target # None
=============================================================================
