----------------------------- MODULE LfsTransfer -----------------------------
(***************************************************************************)
(* Uploads of large files to one repository with the omc client: the       *)
(* client asks the server which objects it wants (batch), sends them one   *)
(* by one (PUT) and then commits their pointers.  The server charges the   *)
(* owner of the repository for every object and every commit and notes     *)
(* each of them in the audit log.  Each request is authorized anew: an     *)
(* upload may lose its access between any two of them.                     *)
(*                                                                         *)
(* The three kinds of requests share nothing but the object store, whose   *)
(* objects appear whole and stay (LfsStore), the repository, whose commits *)
(* are RepoStore's, and the ledger of the owner.  A step is what a request *)
(* does between two awaits.  An object weighs one unit, and so does what a *)
(* commit adds to the directory of the repository; what is charged for a   *)
(* commit is another matter (CommitBook).  The repository stays: deleting  *)
(* it and the job that recomputes the ledger are RepoStore's.              *)
(***************************************************************************)
EXTENDS Integers, FiniteSets

CONSTANTS Run,       \* runs of omc upload; a retry is another run
          Obj,       \* LFS objects
          None,
          Quota,     \* UserQuota.max_bytes of the owner
          MaxActive, \* bound on runs at a time
          MaxFaults  \* bound on database failures and crashes of the server

ASSUME TransferAssumption ==
  /\ Quota \in Nat /\ MaxFaults \in Nat
  /\ MaxActive \in Nat \ {0}
  /\ IsFiniteSet(Run) /\ IsFiniteSet(Obj) /\ None \notin Obj

VARIABLES
  stored,     \* objects in the store
  pointers,   \* objects the repository has pointers to
  disk,       \* what the directory of the repository weighs
  size,       \* Repo.size_bytes, as last committed
  usage,      \* UserUsage.used_bytes of the owner
  audit,      \* audit rows: [lfs : how many lfs.upload, objects : for which
              \*              objects, repo : how many repo.upload]
  run,        \* per run: where it is and what it knows
  faults,
  past        \* history: [overlap : runs have overlapped,
              \*           lost : an UPDATE has overwritten another one]

vars == <<stored, pointers, disk, size, usage, audit, run, faults, past>>

Pc == {"idle", "ask", "batch", "room", "put", "begin", "stream", "read",
       "charge", "commit", "land", "walk", "book", "done", "refused", "gone"}
Actor == {"owner", "admin", "other"}
Access == {"write", "read", "none"}

RunRecord ==
  [pc : Pc,
   actor : Actor,       \* the owner of the repository, an admin, or neither
   access : Access,     \* what the token is good for; "none" also when the
                        \* account is gone
   split : BOOLEAN,     \* too much for a single commit: one per file
   fits : BOOLEAN,      \* history: the owner had room for all at the start
   ask : SUBSET Obj,    \* not yet answered by the batch
   errors : BOOLEAN,    \* the batch refused an object
   todo : SUBSET Obj,   \* upload actions still to be done
   left : SUBSET Obj,   \* pointers still to be committed
   cur : Obj \cup {None},
   used : Nat,          \* usage as add_usage has read it
   row : Nat,           \* size as the commit's request has read it
   walked : Nat]        \* disk as the request has measured it

Fresh == [pc |-> "idle", actor |-> "owner", access |-> "none", split |-> FALSE, fits |-> FALSE,
          ask |-> {}, errors |-> FALSE, todo |-> {}, left |-> {},
          cur |-> None, used |-> 0, row |-> 0, walked |-> 0]

TypeOK ==
  /\ stored \subseteq Obj /\ pointers \subseteq Obj
  /\ disk \in Nat /\ size \in Nat /\ usage \in Nat
  /\ audit \in [lfs : Nat, objects : SUBSET Obj, repo : Nat]
  /\ run \in [Run -> RunRecord]
  /\ faults \in 0 .. MaxFaults
  /\ past \in [overlap : BOOLEAN, lost : BOOLEAN]

Init ==
  /\ stored = {} /\ pointers = {}
  /\ disk = 0 /\ size = 0 /\ usage = 0
  /\ audit = [lfs |-> 0, objects |-> {}, repo |-> 0]
  /\ run = [r \in Run |-> Fresh]
  /\ faults = 0
  /\ past = [overlap |-> FALSE, lost |-> FALSE]

At(r, pc) == run[r].pc = pc
Ended == {"done", "refused", "gone"}
Active(r) == run[r].pc \notin {"idle"} \cup Ended
Move(r, record) == run' = [run EXCEPT ![r] = record]
Goto(r, pc) == Move(r, [run[r] EXCEPT !.pc = pc])
Over(r, pc) == [Fresh EXCEPT !.pc = pc, !.fits = (pc = "refused" /\ run[r].fits)]
End(r, pc) == Move(r, Over(r, pc))
CheckPushAllowed(incoming) == usage + incoming <= Quota

(***************************************************************************)
(* Batch and PUT take any unexpired token of an active account, the commit *)
(* asks for its write scope too.  A request is authorized in one step with *)
(* the check that follows, which is all that others can tell of it.        *)
(***************************************************************************)
resolve_git_identity(r) == run[r].access # "none"
authorize(r) == resolve_git_identity(r) /\ run[r].actor \in {"owner", "admin"}
resolve_principal(r) == run[r].access = "write"
-----------------------------------------------------------------------------
Start(r) ==            \* partition_files and dedupe_objects
  /\ At(r, "idle")
  /\ Cardinality({q \in Run : Active(q)}) < MaxActive
  /\ \E want \in (SUBSET Obj) \ {{}}, split \in BOOLEAN,
        actor \in Actor, access \in Access \ {"none"} :
       LET commits == IF split THEN Cardinality(want) ELSE 1
       IN  Move(r, [Fresh EXCEPT !.pc = "ask", !.actor = actor,
                      !.access = access, !.split = split,
                      !.ask = want, !.left = want,
                      !.fits = actor = "owner" /\ CheckPushAllowed(
                        Cardinality(want \ stored) + commits + disk - size)])
  /\ past' = [past EXCEPT !.overlap = @ \/ \E q \in Run : Active(q)]
  /\ UNCHANGED <<stored, pointers, disk, size, usage, audit, faults>>

BatchAuthorize(r) ==   \* POST batch
  /\ At(r, "ask")
  /\ IF authorize(r) THEN Goto(r, "batch") ELSE End(r, "gone")
  /\ UNCHANGED <<stored, pointers, disk, size, usage, audit, faults, past>>

BatchHas(r, o) ==      \* an object that is there gets no action
  /\ At(r, "batch") /\ o \in run[r].ask
  /\ Move(r, IF o \in stored
               THEN [run[r] EXCEPT !.ask = @ \ {o}]
               ELSE [run[r] EXCEPT !.ask = @ \ {o}, !.cur = o, !.pc = "room"])
  /\ UNCHANGED <<stored, pointers, disk, size, usage, audit, faults, past>>

BatchRoom(r) ==        \* the quota is that of the actor, object by object;
  /\ At(r, "room")     \* an admin's own room may be anything
  /\ \E room \in BOOLEAN :
       /\ run[r].actor = "owner" => room = CheckPushAllowed(1)
       /\ Move(r, IF room
                    THEN [run[r] EXCEPT !.pc = "batch", !.cur = None,
                                        !.todo = @ \cup {run[r].cur}]
                    ELSE [run[r] EXCEPT !.pc = "batch", !.cur = None,
                                        !.errors = TRUE])
  /\ UNCHANGED <<stored, pointers, disk, size, usage, audit, faults, past>>

AfterPut(todo) == IF todo = {} THEN "commit" ELSE "put"
NextPut(r) ==
  LET todo == run[r].todo \ {run[r].cur}
  IN  Move(r, [run[r] EXCEPT !.todo = todo, !.cur = None, !.used = 0,
                             !.pc = AfterPut(todo)])

BatchAnswerTolerant(r) ==   \* mutant: the accepted objects go ahead
  /\ At(r, "batch") /\ run[r].ask = {}
  /\ Goto(r, AfterPut(run[r].todo))
  /\ UNCHANGED <<stored, pointers, disk, size, usage, audit, faults, past>>

BatchAnswer(r) ==      \* one refused object ends the run
  /\ At(r, "batch") /\ run[r].ask = {}
  /\ IF run[r].errors THEN End(r, "refused")
                      ELSE Goto(r, AfterPut(run[r].todo))
  /\ UNCHANGED <<stored, pointers, disk, size, usage, audit, faults, past>>
-----------------------------------------------------------------------------
PutCheckCap(r, o) ==   \* mutant: the cap counts, not the Content-Length
  /\ At(r, "put") /\ o \in run[r].todo
  /\ IF ~authorize(r) THEN End(r, "gone")
     ELSE IF CheckPushAllowed(3) THEN Move(r, [run[r] EXCEPT !.pc = "begin", !.cur = o])
                                 ELSE End(r, "refused")
  /\ UNCHANGED <<stored, pointers, disk, size, usage, audit, faults, past>>

PutCheck(r, o) ==      \* the quota is that of the owner
  /\ At(r, "put") /\ o \in run[r].todo
  /\ IF ~authorize(r) THEN End(r, "gone")
     ELSE IF CheckPushAllowed(1) THEN Move(r, [run[r] EXCEPT !.pc = "begin", !.cur = o])
                                 ELSE End(r, "refused")
  /\ UNCHANGED <<stored, pointers, disk, size, usage, audit, faults, past>>

PutBegin(r) ==         \* write_object refuses an object that is there
  /\ At(r, "begin")
  /\ IF run[r].cur \in stored THEN End(r, "gone") ELSE Goto(r, "stream")
  /\ UNCHANGED <<stored, pointers, disk, size, usage, audit, faults, past>>

PutFails(r) ==         \* disconnect, changed file, collision on the .tmp file
  /\ At(r, "stream")
  /\ End(r, "gone")
  /\ UNCHANGED <<stored, pointers, disk, size, usage, audit, faults, past>>

PutStoreFree(r) ==     \* mutant: the client is answered before the charge
  /\ At(r, "stream")
  /\ stored' = stored \cup {run[r].cur}
  /\ NextPut(r)
  /\ UNCHANGED <<pointers, disk, size, usage, audit, faults, past>>

PutStore(r) ==
  /\ At(r, "stream")
  /\ stored' = stored \cup {run[r].cur}
  /\ Goto(r, "read")
  /\ UNCHANGED <<pointers, disk, size, usage, audit, faults, past>>

ChargeRead(r) ==       \* add_usage: the SELECT, before anything is written
  /\ At(r, "read")
  /\ Move(r, [run[r] EXCEPT !.used = usage, !.pc = "charge"])
  /\ UNCHANGED <<stored, pointers, disk, size, usage, audit, faults, past>>

ChargeTwoCommits(r) ==   \* mutant: usage and audit row are not one transaction
  /\ At(r, "charge")
  /\ usage' = run[r].used + 1
  /\ past' = [past EXCEPT !.lost = @ \/ usage # run[r].used]
  /\ \/ /\ audit' = [audit EXCEPT !.lfs = @ + 1, !.objects = @ \cup {run[r].cur}]
        /\ NextPut(r)
     \/ End(r, "gone") /\ UNCHANGED audit
  /\ UNCHANGED <<stored, pointers, disk, size, faults>>

Charge(r) ==           \* the UPDATE of what was read, and the commit
  /\ At(r, "charge")
  /\ usage' = run[r].used + 1
  /\ past' = [past EXCEPT !.lost = @ \/ usage # run[r].used]
  /\ audit' = [audit EXCEPT !.lfs = @ + 1, !.objects = @ \cup {run[r].cur}]
  /\ NextPut(r)
  /\ UNCHANGED <<stored, pointers, disk, size, faults>>
-----------------------------------------------------------------------------
(***************************************************************************)
(* The commit of the pointers is a request of RepoStore.  Its bookkeeping  *)
(* inserts rows before it reads the usage, so it holds the database from   *)
(* the read to the commit.  The row of the repository is not read again:   *)
(* it is the one the request began with.                                   *)
(***************************************************************************)
CommitCheck(r) ==
  /\ At(r, "commit")
  /\ IF ~resolve_principal(r) THEN End(r, "gone")
     ELSE IF CheckPushAllowed(1)
            THEN Move(r, [run[r] EXCEPT !.pc = "land", !.row = size])
            ELSE End(r, "refused")
  /\ UNCHANGED <<stored, pointers, disk, size, usage, audit, faults, past>>

CommitLand(r) ==
  /\ At(r, "land")
  /\ \E part \in IF run[r].split THEN {{o} : o \in run[r].left}
                                 ELSE {run[r].left} :
       /\ pointers' = pointers \cup part
       /\ Move(r, [run[r] EXCEPT !.left = @ \ part, !.pc = "walk"])
  /\ disk' = disk + 1
  /\ UNCHANGED <<stored, size, usage, audit, faults, past>>

CommitRejected(r) ==   \* another commit got in between, or no repository
  /\ At(r, "land")
  /\ End(r, "gone")
  /\ UNCHANGED <<stored, pointers, disk, size, usage, audit, faults, past>>

CommitWalk(r) ==       \* disk_usage of the directory, whoever wrote to it
  /\ At(r, "walk")
  /\ Move(r, [run[r] EXCEPT !.walked = disk, !.pc = "book"])
  /\ UNCHANGED <<stored, pointers, disk, size, usage, audit, faults, past>>

AfterCommit(r) ==
  IF run[r].left = {}
    THEN End(r, "done")
    ELSE Move(r, [run[r] EXCEPT !.pc = "commit", !.row = 0, !.walked = 0])

CommitBookLate(r) ==   \* mutant: the row is read again once it is written
  /\ At(r, "book")
  /\ size' = run[r].walked
  /\ usage' = usage + run[r].walked - size'
  /\ audit' = [audit EXCEPT !.repo = @ + 1]
  /\ AfterCommit(r)
  /\ UNCHANGED <<stored, pointers, disk, faults, past>>

CommitBook(r) ==       \* the growth since the request began, which is what
  /\ At(r, "book")     \* the commit added, what overlapping ones added, and
                       \* what an earlier one was never charged for
  /\ size' = run[r].walked
  /\ usage' = usage + run[r].walked - run[r].row
  /\ audit' = [audit EXCEPT !.repo = @ + 1]
  /\ AfterCommit(r)
  /\ UNCHANGED <<stored, pointers, disk, faults, past>>
-----------------------------------------------------------------------------
ClientGone(r) ==       \* interrupted, or cut off, between two requests
  /\ run[r].pc \in {"ask", "batch", "put", "commit"}
  /\ End(r, "gone")
  /\ UNCHANGED <<stored, pointers, disk, size, usage, audit, faults, past>>

AccessEnds(r) ==       \* revoked, expired or banned: the next request is
                       \* the first to know
  /\ run[r].pc \in {"ask", "put", "commit"} /\ run[r].access # "none"
  /\ Move(r, [run[r] EXCEPT !.access = "none"])
  /\ UNCHANGED <<stored, pointers, disk, size, usage, audit, faults, past>>

DatabaseFails(r) ==    \* the transaction of the bookkeeping is rolled back
  /\ faults < MaxFaults
  /\ run[r].pc \in {"charge", "book"}
  /\ End(r, "gone")
  /\ faults' = faults + 1
  /\ UNCHANGED <<stored, pointers, disk, size, usage, audit, past>>

Crash ==               \* what the server was doing for anybody is lost
  /\ faults < MaxFaults
  /\ run' = [r \in Run |-> IF Active(r) THEN Over(r, "gone") ELSE run[r]]
  /\ faults' = faults + 1
  /\ UNCHANGED <<stored, pointers, disk, size, usage, audit, past>>

-----------------------------------------------------------------------------
(***************************************************************************)
(* The requests of a run, each with the steps that the client and the      *)
(* server take for it.                                                     *)
(***************************************************************************)
handle_batch(r) ==
  BatchAuthorize(r) \/ (\E o \in Obj : BatchHas(r, o)) \/ BatchRoom(r)
batch_upload(r) == handle_batch(r) \/ BatchAnswer(r)

put_stream(r) == PutBegin(r) \/ PutFails(r) \/ PutStore(r)
handle_put(r) ==
  \/ \E o \in Obj : PutCheck(r, o)
  \/ put_stream(r) \/ ChargeRead(r) \/ Charge(r)

upload(r) ==
  \/ CommitCheck(r) \/ CommitLand(r) \/ CommitRejected(r)
  \/ CommitWalk(r) \/ CommitBook(r)

Next ==
  \/ \E r \in Run :
       \/ Start(r)
       \/ batch_upload(r) \/ handle_put(r) \/ upload(r)
       \/ ClientGone(r) \/ AccessEnds(r) \/ DatabaseFails(r)
  \/ Crash

Spec == Init /\ [][Next]_vars
-----------------------------------------------------------------------------
(***************************************************************************)
(* A pointer in the repository names an object the server has: omc commits *)
(* pointers only after every object was sent or found present, whoever     *)
(* else uploads, fails or crashes meanwhile.                               *)
(***************************************************************************)
PointersResolve == pointers \subseteq stored

(***************************************************************************)
(* The quota is checked before a body is received and charged after it:    *)
(* what the owner really stores can exceed it by what was under way, one   *)
(* unit for each of the runs at a time but one, and by the charges that a  *)
(* failed transaction or a crash has swallowed, and by no more as long as  *)
(* no UPDATE of the ledger has overwritten another one.                    *)
(***************************************************************************)
OvershootIsBounded ==
  ~past.lost =>
    disk + Cardinality(stored) <= Quota + MaxActive - 1 + MaxActive * faults

(***************************************************************************)
(* The ledger is at least what the audit log tells, through failures and   *)
(* crashes, as long as no charge was lost: what overlapping commits have   *)
(* added is charged more than once, and never less.  Runs that follow each *)
(* other lose no charge, are charged each unit once, the commits that an   *)
(* earlier failure left uncharged included, and keep the quota but for     *)
(* these.                                                                  *)
(***************************************************************************)
Charged == audit.repo + audit.lfs

LedgerExact ==
  /\ ~past.lost => usage >= Charged
  /\ ~past.overlap => /\ ~past.lost
                      /\ usage = size + audit.lfs
                      /\ usage <= Quota + faults

(***************************************************************************)
(* Without a fault, an object in the store has been audited (and charged)  *)
(* once the uploads have ended, also when their clients have gone.         *)
(***************************************************************************)
StoredAreAudited ==
  faults = 0 /\ (\A r \in Run : ~Active(r)) =>
    stored \subseteq audit.objects

(***************************************************************************)
(* The owner's own upload is never refused for want of room if there was   *)
(* room, when it started, for all of it and for what earlier commits have  *)
(* not been charged for, and no uploads have overlapped; in particular a   *)
(* retry gets through with what the earlier run has left.                  *)
(***************************************************************************)
RoomMeansSuccess ==
  ~past.overlap => \A r \in Run :
    At(r, "refused") => ~run[r].fits
=============================================================================
