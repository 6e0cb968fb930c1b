------------------------------ MODULE RepoStore ------------------------------
(***************************************************************************)
(* The repositories of one owner: rows in the database, bare directories   *)
(* on disk and the owner's usage ledger, changed by concurrent requests    *)
(* that create, delete, push to, upload to and edit repositories, and by   *)
(* the hourly reconcile job.  The store of LFS objects, which all owners   *)
(* share, is here only as what it weighs: sending and charging an object   *)
(* is LfsTransfer's.                                                       *)
(*                                                                         *)
(* Requests are asyncio coroutines of one process: a step is what a        *)
(* request does between two awaits.  The disk changes at once; the         *)
(* database changes when the request's session commits.  SQLite gives the  *)
(* write lock to the first session that writes and keeps it until commit   *)
(* or rollback; the other sessions read the committed data and wait for    *)
(* up to five seconds to write.                                            *)
(*                                                                         *)
(* The per-repository lock is the mutex of RepoMutex, which RepoLocks      *)
(* implements.  A request that is refused before it changes anything (a    *)
(* validation error, a 404, a 403) is a request that never starts.         *)
(***************************************************************************)
EXTENDS Integers, Sequences, FiniteSets, FiniteSetsExt

CONSTANTS Req,       \* requests; a request is also the commit it creates
          Name,      \* repository names of the owner
          Kind,      \* model, dataset, space
          None,
          Ops,       \* the operations requests may be for
          Quota,     \* UserQuota.max_bytes
          MaxFaults, \* bound on crashes and failing commits
          MaxLfs     \* bound on what lfs_dir() weighs

VARIABLES
  db,      \* committed data: [rows, usage, revs]
  txn,     \* the open write transaction: [by, db], or None
  dir,     \* per name: the bare directory [log, bytes], or None
  lock,    \* per name: the request inside REPO_LOCKS.acquire, or None
  req,     \* per request: where it is and what it has read
  job,     \* the same for quota_reconcile_job
  faults,  \* crashes and failed commits so far
  lfs      \* what lfs_dir() weighs, the objects of all owners

vars == <<db, txn, dir, lock, req, job, faults, lfs>>

Slot == Name \X Kind
Row == [id : Nat, size : Nat]
Log == Seq(Req)
Dir == [log : Log, bytes : Nat]
Rev == [repo : Nat, sha : Req, by : Req]
Database == [rows : [Slot -> Row \cup {None}], usage : Nat, revs : SUBSET Rev]

(***************************************************************************)
(* An empty bare repository weighs one unit, each received commit one.     *)
(***************************************************************************)
EmptyDir == [log |-> <<>>, bytes |-> 1]

Job == "job"
Txn == [by : Req \cup {Job}, db : Database]

Op == {"create", "delete", "push", "upload", "edit"}
Pc == {"idle", "init", "insert", "delete", "remove", "quota", "capture",
       "receive", "book", "read", "clone", "land", "walk", "record", "commit",
       "done"}

(***************************************************************************)
(* A request keeps what its handler has in local variables: the row id and *)
(* size it loaded, the history it was based on and the one it saw last.    *)
(***************************************************************************)
Request == [pc : Pc, op : Op \cup {None}, slot : Slot \cup {None}, rid : Nat,
            size : Nat, base : Log, seen : Log, walked : Nat]

Away == [pc |-> "idle", op |-> None, slot |-> None, rid |-> 0, size |-> 0,
         base |-> <<>>, seen |-> <<>>, walked |-> 0]

JobState == [pc : {"idle", "list", "walk", "write", "commit"}, old : Nat,
             todo : SUBSET Slot, total : Nat]

Asleep == [pc |-> "idle", old |-> 0, todo |-> {}, total |-> 0]

(***************************************************************************)
(* Names are strings of a bounded length, so that there are finitely many. *)
(***************************************************************************)
ASSUME StoreAssumption ==
  /\ Ops \subseteq Op \cup {"reconcile"}
  /\ Quota \in Nat
  /\ MaxFaults \in Nat /\ MaxLfs \in Nat
  /\ IsFiniteSet(Name) /\ IsFiniteSet(Kind)
  /\ Job \notin Req
  /\ None \notin Op \cup Slot \cup Row \cup Req \cup Dir \cup Txn

TypeOK ==
  /\ db \in Database
  /\ txn \in Txn \cup {None}
  /\ dir \in [Name -> Dir \cup {None}]
  /\ lock \in [Name -> Req \cup {None}]
  /\ req \in [Req -> Request]
  /\ job \in JobState
  /\ faults \in 0 .. MaxFaults
  /\ lfs \in 0 .. MaxLfs

(***************************************************************************)
(* Any set of the names may already hold a committed, empty model.         *)
(***************************************************************************)
Init ==
  /\ \E existing \in SUBSET Name, k \in Kind :
       \E ids \in [existing -> 1 .. Cardinality(existing)] :
         /\ \A m, n \in existing : m # n => ids[m] # ids[n]
         /\ db = [rows |-> [s \in Slot |->
                              IF s[1] \in existing /\ s[2] = k
                                THEN [id |-> ids[s[1]], size |-> 0] ELSE None],
                  usage |-> 0, revs |-> {}]
         /\ dir = [n \in Name |-> IF n \in existing THEN EmptyDir ELSE None]
  /\ txn = None
  /\ lock = [n \in Name |-> None]
  /\ req = [r \in Req |-> Away]
  /\ job = Asleep
  /\ faults = 0
  /\ lfs = 0

NameOf(r) == req[r].slot[1]
SlotsOf(n) == {n} \X Kind
RowsNamed(n) == {s \in SlotsOf(n) : db.rows[s] # None}
LogOf(n) == IF dir[n] = None THEN <<>> ELSE dir[n].log
DiskUsage(n) == IF dir[n] = None THEN 0 ELSE dir[n].bytes
RowsWithId(rows, id) == {s \in Slot : rows[s] # None /\ rows[s].id = id}

(***************************************************************************)
(* SQLite reuses the highest row id when its row has been deleted.         *)
(***************************************************************************)
NextId(rows) == 1 + Max({0} \cup {rows[s].id : s \in {q \in Slot : rows[q] # None}})

AddUsage(usage, delta) == IF usage + delta < 0 THEN 0 ELSE usage + delta

Step(r, pc) == req' = [req EXCEPT ![r].pc = pc]
Ended(r) == [Away EXCEPT !.pc = "done", !.op = req[r].op]
End(r) == req' = [req EXCEPT ![r] = Ended(r)]
Acquire(r) == lock[NameOf(r)] = None /\ lock' = [lock EXCEPT ![NameOf(r)] = r]
Release(r) == lock' = [n \in Name |-> IF lock[n] = r THEN None ELSE lock[n]]
Begin(by, data) == txn = None /\ txn' = [by |-> by, db |-> data]

AppendCommit(r, onto) ==
  dir' = [dir EXCEPT ![NameOf(r)] =
            [log |-> Append(onto, r), bytes |-> @.bytes + 1]]
-----------------------------------------------------------------------------
(***************************************************************************)
(* create_repo                                                             *)
(***************************************************************************)
CreateCheck(r, s) ==   \* the duplicate SELECT, before the lock
  /\ "create" \in Ops
  /\ req[r].pc = "idle" /\ db.rows[s] = None
  /\ req' = [req EXCEPT ![r].pc = "init", ![r].op = "create", ![r].slot = s]
  /\ UNCHANGED <<db, txn, dir, lock, job, faults, lfs>>

CreateInitReusing(r) ==   \* mutant: an existing directory is accepted
  /\ req[r].pc = "init"
  /\ Acquire(r)
  /\ dir' = [dir EXCEPT ![NameOf(r)] = EmptyDir]
  /\ Step(r, "insert")
  /\ UNCHANGED <<db, txn, job, faults, lfs>>

CreateInit(r) ==       \* porcelain.init, or FileExistsError
  /\ req[r].pc = "init" /\ lock[NameOf(r)] = None
  /\ IF dir[NameOf(r)] = None
       THEN /\ dir' = [dir EXCEPT ![NameOf(r)] = EmptyDir]
            /\ Acquire(r)
            /\ Step(r, "insert")
       ELSE End(r) /\ UNCHANGED <<dir, lock>>
  /\ UNCHANGED <<db, txn, job, faults, lfs>>

CreateInsert(r) ==     \* flush; the unique constraint undoes the directory
  /\ req[r].pc = "insert" /\ txn = None
  /\ IF db.rows[req[r].slot] = None
       THEN /\ Begin(r, [db EXCEPT !.rows[req[r].slot] =
                           [id |-> NextId(db.rows), size |-> 0]])
            /\ Step(r, "commit")
            /\ UNCHANGED dir
       ELSE /\ dir' = [dir EXCEPT ![NameOf(r)] = None]
            /\ End(r)
            /\ UNCHANGED txn
  /\ Release(r)
  /\ UNCHANGED <<db, job, faults, lfs>>

CreateFailsUncompensated(r) ==   \* mutant: the directory stays
  /\ req[r].pc = "insert"
  /\ Release(r)
  /\ End(r)
  /\ UNCHANGED <<db, txn, dir, job, faults, lfs>>

CreateFails(r) ==      \* any other error of the INSERT: compensate
  /\ req[r].pc = "insert"
  /\ dir' = [dir EXCEPT ![NameOf(r)] = None]
  /\ Release(r)
  /\ End(r)
  /\ UNCHANGED <<db, txn, job, faults, lfs>>
-----------------------------------------------------------------------------
(***************************************************************************)
(* The other requests find the repository by owner and name; two rows of   *)
(* one name (different kinds) are an error of scalar_one_or_none.          *)
(***************************************************************************)
Found(r, s) == req[r].pc = "idle" /\ RowsNamed(s[1]) = {s}

Loaded(op, s, pc) == [Away EXCEPT !.pc = pc, !.op = op, !.slot = s,
                                  !.rid = db.rows[s].id]

LoadDelete(r, s) ==
  /\ "delete" \in Ops /\ Found(r, s)
  /\ req' = [req EXCEPT ![r] = [Loaded("delete", s, "delete")
                                  EXCEPT !.size = db.rows[s].size]]
  /\ UNCHANGED <<db, txn, dir, lock, job, faults, lfs>>

LoadPush(r, s) ==      \* the client has fetched what is there now
  /\ "push" \in Ops /\ Found(r, s)
  /\ req' = [req EXCEPT ![r] = [Loaded("push", s, "quota")
                                  EXCEPT !.base = LogOf(s[1])]]
  /\ UNCHANGED <<db, txn, dir, lock, job, faults, lfs>>

LoadUpload(r, s) ==
  /\ "upload" \in Ops /\ Found(r, s)
  /\ req' = [req EXCEPT ![r] = [Loaded("upload", s, "quota")
                                  EXCEPT !.size = db.rows[s].size]]
  /\ UNCHANGED <<db, txn, dir, lock, job, faults, lfs>>

LoadEdit(r, s) ==      \* no quota check
  /\ "edit" \in Ops /\ Found(r, s)
  /\ req' = [req EXCEPT ![r] = Loaded("edit", s, "clone")]
  /\ UNCHANGED <<db, txn, dir, lock, job, faults, lfs>>

Load(r, s) == LoadDelete(r, s) \/ LoadPush(r, s) \/ LoadUpload(r, s) \/ LoadEdit(r, s)

CheckPushAllowed(r) ==   \* a chunked push has no Content-Length to check
  /\ req[r].pc = "quota"
  /\ \E incoming \in IF req[r].op = "push" THEN {0, 1} ELSE {1} :
       IF incoming > 0 /\ db.usage + incoming > Quota
         THEN End(r)
         ELSE Step(r, IF req[r].op = "push" THEN "capture" ELSE "clone")
  /\ UNCHANGED <<db, txn, dir, lock, job, faults, lfs>>
-----------------------------------------------------------------------------
(***************************************************************************)
(* delete_repo                                                             *)
(***************************************************************************)
DeleteEnter(r) ==
  /\ req[r].pc = "delete"
  /\ Acquire(r)
  /\ Step(r, "remove")
  /\ UNCHANGED <<db, txn, dir, job, faults, lfs>>

DeleteRemove(r) ==     \* rows and usage in the transaction, then rmtree
  /\ req[r].pc = "remove"
  /\ Begin(r, [rows  |-> [s \in Slot |-> IF s \in RowsWithId(db.rows, req[r].rid)
                                           THEN None ELSE db.rows[s]],
               usage |-> AddUsage(db.usage, -req[r].size),
               revs  |-> {v \in db.revs : v.repo # req[r].rid}])
  /\ dir' = [dir EXCEPT ![NameOf(r)] = None]
  /\ Release(r)
  /\ Step(r, "commit")
  /\ UNCHANGED <<db, job, faults, lfs>>
-----------------------------------------------------------------------------
(***************************************************************************)
(* git push: the receive-pack handler runs between two awaits but without  *)
(* the repository lock; the bookkeeping afterwards takes it.               *)
(***************************************************************************)
PushCapture(r) ==      \* pre_refs
  /\ req[r].pc = "capture"
  /\ req' = [req EXCEPT ![r].seen = LogOf(NameOf(r)), ![r].pc = "receive"]
  /\ UNCHANGED <<db, txn, dir, lock, job, faults, lfs>>

PushReceive(r) ==      \* the body is buffered, then dulwich runs; the first
  /\ req[r].pc = "receive"   \* case: disconnect, body too large, no directory
  /\ \/ End(r) /\ UNCHANGED dir
     \/ /\ dir[NameOf(r)] # None
        /\ IF LogOf(NameOf(r)) = req[r].base
             THEN AppendCommit(r, req[r].base)
             ELSE dir' = [dir EXCEPT ![NameOf(r)].bytes = @ + 1]
        /\ Step(r, "book")
  /\ UNCHANGED <<db, txn, lock, job, faults, lfs>>

BookEnterUnlocked(r) ==   \* mutant: post-push bookkeeping without the lock
  /\ req[r].pc = "book"
  /\ IF LogOf(NameOf(r)) \in {<<>>, req[r].seen}
       THEN End(r)
       ELSE req' = [req EXCEPT ![r].seen = LogOf(NameOf(r)), ![r].pc = "read"]
  /\ UNCHANGED <<db, txn, dir, lock, job, faults, lfs>>

BookEnter(r) ==        \* post_refs; nothing to book if no branch moved
  /\ req[r].pc = "book" /\ lock[NameOf(r)] = None
  /\ IF LogOf(NameOf(r)) \in {<<>>, req[r].seen}
       THEN End(r) /\ UNCHANGED lock
       ELSE /\ Acquire(r)
            /\ req' = [req EXCEPT ![r].seen = LogOf(NameOf(r)),
                                  ![r].pc = "read"]
  /\ UNCHANGED <<db, txn, dir, job, faults, lfs>>

BookRead(r) ==         \* scalar_one raises when the row is gone
  /\ req[r].pc = "read"
  /\ LET found == RowsWithId(db.rows, req[r].rid)
     IN  IF found = {} THEN End(r) /\ Release(r)
           ELSE /\ \E s \in found :
                     req' = [req EXCEPT ![r].size = db.rows[s].size,
                                        ![r].pc = "walk"]
                /\ UNCHANGED lock
  /\ UNCHANGED <<db, txn, dir, job, faults, lfs>>
-----------------------------------------------------------------------------
(***************************************************************************)
(* upload and edit: commit_files clones, commits and pushes in a thread    *)
(* under the repository lock; the bookkeeping afterwards is outside it.    *)
(***************************************************************************)
CommitClone(r) ==
  /\ req[r].pc = "clone" /\ lock[NameOf(r)] = None
  /\ IF dir[NameOf(r)] = None THEN End(r) /\ UNCHANGED lock
       ELSE /\ Acquire(r)
            /\ req' = [req EXCEPT ![r].base = LogOf(NameOf(r)),
                                  ![r].pc = "land"]
  /\ UNCHANGED <<db, txn, dir, job, faults, lfs>>

CommitLandForced(r) ==   \* mutant: force=True
  /\ req[r].pc = "land"
  /\ AppendCommit(r, req[r].base)
  /\ req' = [req EXCEPT ![r].seen = Append(req[r].base, r),
               ![r].pc = IF req[r].op = "edit" THEN "record" ELSE "walk"]
  /\ Release(r)
  /\ UNCHANGED <<db, txn, job, faults, lfs>>

CommitLandUnnoticed(r) ==   \* mutant: a rejected push counts as a success
  /\ req[r].pc = "land"
  /\ IF LogOf(NameOf(r)) = req[r].base THEN AppendCommit(r, req[r].base)
                                       ELSE UNCHANGED dir
  /\ req' = [req EXCEPT ![r].seen = Append(req[r].base, r),
               ![r].pc = IF req[r].op = "edit" THEN "record" ELSE "walk"]
  /\ Release(r)
  /\ UNCHANGED <<db, txn, job, faults, lfs>>

CommitLandKeepingLock(r) ==   \* mutant: no release when the push is rejected
  /\ req[r].pc = "land"
  /\ IF LogOf(NameOf(r)) = req[r].base
       THEN /\ AppendCommit(r, req[r].base)
            /\ req' = [req EXCEPT ![r].seen = Append(req[r].base, r),
                         ![r].pc = IF req[r].op = "edit" THEN "record"
                                                         ELSE "walk"]
            /\ Release(r)
       ELSE End(r) /\ UNCHANGED <<dir, lock>>
  /\ UNCHANGED <<db, txn, job, faults, lfs>>

CommitLand(r) ==       \* porcelain.push(force=False)
  /\ req[r].pc = "land"
  /\ IF LogOf(NameOf(r)) = req[r].base
       THEN /\ AppendCommit(r, req[r].base)
            /\ req' = [req EXCEPT ![r].seen = Append(req[r].base, r),
                         ![r].pc = IF req[r].op = "edit" THEN "record"
                                                         ELSE "walk"]
       ELSE End(r) /\ UNCHANGED dir
  /\ Release(r)
  /\ UNCHANGED <<db, txn, job, faults, lfs>>
-----------------------------------------------------------------------------
(***************************************************************************)
(* The bookkeeping push and upload have in common, and its end for edit.   *)
(***************************************************************************)
Walk(r) ==             \* disk_usage in a worker thread
  /\ req[r].pc = "walk"
  /\ req' = [req EXCEPT ![r].walked = DiskUsage(NameOf(r)), ![r].pc = "record"]
  /\ UNCHANGED <<db, txn, dir, lock, job, faults, lfs>>

Booked(r) == [repo |-> req[r].rid, sha |-> req[r].seen[Len(req[r].seen)], by |-> r]

WithSize(r) ==
  [rows  |-> [s \in Slot |-> IF s \in RowsWithId(db.rows, req[r].rid)
                               THEN [db.rows[s] EXCEPT !.size = req[r].walked]
                               ELSE db.rows[s]],
   usage |-> AddUsage(db.usage, req[r].walked - req[r].size),
   revs  |-> db.revs \cup {Booked(r)}]

RecordSize(r) ==       \* Revision, size_bytes and add_usage in one flush
  /\ txn = None
  /\ IF RowsWithId(db.rows, req[r].rid) = {} /\ req[r].walked # req[r].size
       THEN End(r) /\ Release(r) /\ UNCHANGED txn   \* StaleDataError
       ELSE /\ Begin(r, WithSize(r))
            /\ Step(r, "commit")
            /\ UNCHANGED lock
  /\ UNCHANGED <<db, dir, job, faults, lfs>>

RecordPush(r) == req[r].pc = "record" /\ req[r].op = "push" /\ RecordSize(r)

RecordUpload(r) == req[r].pc = "record" /\ req[r].op = "upload" /\ RecordSize(r)

RecordEdit(r) ==       \* neither size_bytes nor usage
  /\ req[r].pc = "record" /\ req[r].op = "edit"
  /\ Begin(r, [db EXCEPT !.revs = @ \cup {Booked(r)}])
  /\ Step(r, "commit")
  /\ UNCHANGED <<db, dir, lock, job, faults, lfs>>

DatabaseBusy(r) ==     \* "database is locked" after the busy timeout
  /\ req[r].pc \in {"remove", "record"}
  /\ txn # None
  /\ Release(r)
  /\ End(r)
  /\ UNCHANGED <<db, txn, dir, job, faults, lfs>>

Commit(r) ==
  /\ req[r].pc = "commit"
  /\ db' = txn.db
  /\ txn' = None
  /\ Release(r)
  /\ End(r)
  /\ UNCHANGED <<dir, job, faults, lfs>>

CommitFails(r) ==      \* or the handler raises after the flush: rollback
  /\ req[r].pc = "commit" /\ faults < MaxFaults
  /\ txn' = None
  /\ Release(r)
  /\ End(r)
  /\ faults' = faults + 1
  /\ UNCHANGED <<db, dir, job, lfs>>

Crash ==
  /\ faults < MaxFaults
  /\ faults' = faults + 1
  /\ txn' = None
  /\ lock' = [n \in Name |-> None]
  /\ req' = [r \in Req |-> IF req[r].pc = "idle" THEN Away ELSE Ended(r)]
  /\ job' = Asleep
  /\ UNCHANGED <<db, dir, lfs>>

LfsPut ==              \* an object arrives, for a repository of any owner
  /\ "reconcile" \in Ops /\ lfs < MaxLfs
  /\ lfs' = lfs + 1
  /\ UNCHANGED <<db, txn, dir, lock, req, job, faults>>
-----------------------------------------------------------------------------
(***************************************************************************)
(* reconcile_user as quota_reconcile_job calls it: no repository lock.     *)
(***************************************************************************)
JobRead ==             \* old_used; the ORM keeps the loaded usage row
  /\ "reconcile" \in Ops
  /\ job.pc = "idle"
  /\ job' = [Asleep EXCEPT !.pc = "list", !.old = db.usage]
  /\ UNCHANGED <<db, txn, dir, lock, req, faults, lfs>>

JobList ==
  /\ job.pc = "list"
  /\ job' = [job EXCEPT !.pc = "walk", !.todo = {s \in Slot : db.rows[s] # None}]
  /\ UNCHANGED <<db, txn, dir, lock, req, faults, lfs>>

JobWalk(s) ==
  /\ job.pc = "walk" /\ s \in job.todo
  /\ job' = [job EXCEPT !.todo = @ \ {s}, !.total = @ + DiskUsage(s[1])]
  /\ UNCHANGED <<db, txn, dir, lock, req, faults, lfs>>

JobWalkLfs ==          \* the whole store, to whomever the objects belong
  /\ job.pc = "walk" /\ job.todo = {}
  /\ job' = [job EXCEPT !.pc = "write", !.total = @ + lfs]
  /\ UNCHANGED <<db, txn, dir, lock, req, faults, lfs>>

JobWriteGrowth ==      \* mutant: shrunk usage is never written back
  /\ job.pc = "write"
  /\ IF job.total <= job.old
       THEN job' = Asleep /\ UNCHANGED txn
       ELSE /\ Begin(Job, [db EXCEPT !.usage = job.total])
            /\ job' = [Asleep EXCEPT !.pc = "commit"]
  /\ UNCHANGED <<db, dir, lock, req, faults, lfs>>

JobWrite ==            \* the UPDATE is issued only when the value changed
  /\ job.pc = "write"
  /\ IF job.total = job.old
       THEN job' = Asleep /\ UNCHANGED txn
       ELSE /\ Begin(Job, [db EXCEPT !.usage = job.total])
            /\ job' = [Asleep EXCEPT !.pc = "commit"]
  /\ UNCHANGED <<db, dir, lock, req, faults, lfs>>

JobBusy ==
  /\ job.pc = "write" /\ txn # None
  /\ job' = Asleep
  /\ UNCHANGED <<db, txn, dir, lock, req, faults, lfs>>

JobCommit ==
  /\ job.pc = "commit"
  /\ db' = txn.db
  /\ txn' = None
  /\ job' = Asleep
  /\ UNCHANGED <<dir, lock, req, faults, lfs>>
-----------------------------------------------------------------------------
(***************************************************************************)
(* The handlers, each with the steps its requests take; a step that        *)
(* several share goes by the op of the request.                            *)
(***************************************************************************)
new_repo_form(r) == CreateInit(r) \/ CreateInsert(r)
delete_repo(r) == DeleteEnter(r) \/ DeleteRemove(r)

commit_files(r) == CommitClone(r) \/ CommitLand(r)
files_upload_form(r) ==
  CheckPushAllowed(r) \/ commit_files(r) \/ Walk(r) \/ RecordUpload(r)
files_edit_form(r) == commit_files(r) \/ RecordEdit(r)

asgi_app(r) == CheckPushAllowed(r) \/ PushCapture(r) \/ PushReceive(r)
_record_push(r) == BookEnter(r) \/ BookRead(r) \/ Walk(r) \/ RecordPush(r)

Proceed(r) ==
  \/ new_repo_form(r) \/ delete_repo(r)
  \/ asgi_app(r) \/ _record_push(r)
  \/ files_upload_form(r) \/ files_edit_form(r)
  \/ Commit(r)

Reconcile ==
  \/ JobRead \/ JobList
  \/ (\E s \in Slot : JobWalk(s)) \/ JobWalkLfs
  \/ JobWrite \/ JobCommit

Next ==
  \/ \E r \in Req :
       \/ \E s \in Slot : CreateCheck(r, s) \/ Load(r, s)
       \/ Proceed(r)
       \/ CreateFails(r) \/ DatabaseBusy(r) \/ CommitFails(r)
  \/ Reconcile \/ JobBusy
  \/ LfsPut
  \/ Crash

Spec == Init /\ [][Next]_vars

(***************************************************************************)
(* The event loop runs every coroutine that can run, and the scheduler     *)
(* starts the job again and again; arrivals, errors and crashes are not    *)
(* owed to anybody.                                                        *)
(***************************************************************************)
Fairness == WF_vars(Reconcile) /\ \A r \in Req : WF_vars(Proceed(r))

FairSpec == Spec /\ Fairness
-----------------------------------------------------------------------------
(***************************************************************************)
(* A commit a repository has accepted stays in its history as long as the  *)
(* repository exists, whether it came by push, upload or edit and whoever  *)
(* else was writing.                                                       *)
(***************************************************************************)
NoLostCommit ==
  [][\A n \in Name : dir[n] # None /\ dir'[n] # None =>
       Len(dir[n].log) <= Len(dir'[n].log)
       /\ SubSeq(dir'[n].log, 1, Len(dir[n].log)) = dir[n].log]_dir

(***************************************************************************)
(* The owner's usage is the sum of the sizes of the owner's repositories,  *)
(* in any interleaving and through failed commits and crashes, as long as  *)
(* they change by creates, pushes and edits: the bookkeeping of a push     *)
(* reads and writes the size under the lock, and charges what an edit left *)
(* unbooked.  Uploads and deletes work with a size they read before it.    *)
(***************************************************************************)
Only(ops) == "reconcile" \notin Ops /\ \A r \in Req : req[r].op \in ops \cup {None}

Sizes(rows) == [s \in Slot |-> IF rows[s] = None THEN 0 ELSE rows[s].size]

LedgerExact ==
  Only({"create", "push", "edit"}) => db.usage = SumFunction(Sizes(db.rows))

(***************************************************************************)
(* "corrects UserUsage.used_bytes (drift correction)"                      *)
(* (docs/architecture.md): once requests stop arriving, the recorded usage *)
(* becomes what the owner's repositories weigh on disk and the LFS store   *)
(* with them, and stays so.  The store is charged to each owner in full:   *)
(* "single-user servers ... are exact; multi-user servers reconcile to a   *)
(* fair upper bound" (repos/quota.py).                                     *)
(***************************************************************************)
OwnedBytes ==
  SumFunction([s \in Slot |-> IF db.rows[s] = None THEN 0 ELSE DiskUsage(s[1])])

DriftIsCorrected == <>[](db.usage = OwnedBytes + lfs)

(***************************************************************************)
(* Every request ends: the repository locks, the database lock and their   *)
(* waiters never form a cycle, even without the busy timeout.              *)
(***************************************************************************)
RequestsEnd == \A r \in Req : (req[r].pc # "idle") ~> (req[r].pc = "done")

(***************************************************************************)
(* A directory without a row belongs to a create that has not committed.   *)
(* create.py: "so the system does not accumulate orphan bare repos that no *)
(* row references".                                                        *)
(***************************************************************************)
NoOrphanDirectory ==
  \A n \in Name : dir[n] # None /\ RowsNamed(n) = {} =>
    \E r \in Req : req[r].op = "create" /\ req[r].pc # "done" /\ NameOf(r) = n

(***************************************************************************)
(* ... and without a fault, and without a second delete, it does.          *)
(***************************************************************************)
Deleters == {r \in Req : req[r].op = "delete"}
Smooth == faults = 0 /\ \A q, r \in Deleters : q = r

OrphansNeedAFault == Smooth => NoOrphanDirectory

(***************************************************************************)
(* When all goes smoothly one directory never serves two rows: a name is   *)
(* free for another kind only once its directory is gone, and a delete     *)
(* holds the database until it commits.  The schema, its comment           *)
(* (models/repo.py) and docs/git-repos.md ("The same owner can have a      *)
(* `model` and a `dataset` with the same name") would allow two kinds of   *)
(* one name; create_repo, whose directory is that of the name, does not,   *)
(* and a second row would share the commits of the first and make every    *)
(* lookup by name an error.                                                *)
(***************************************************************************)
OneHomePerRow ==
  Smooth => \A n \in Name : \A s, t \in RowsNamed(n) : s = t

(***************************************************************************)
(* While repositories are not deleted, a revision names a commit that is   *)
(* in the history of its repository.                                       *)
(***************************************************************************)
RevisionsNameCommits ==
  Only({"create", "push", "upload", "edit"}) =>
    \A v \in db.revs, s \in Slot :
      db.rows[s] # None /\ db.rows[s].id = v.repo =>
        \E i \in 1 .. Len(LogOf(s[1])) : LogOf(s[1])[i] = v.sha
=============================================================================
