------------------------------ MODULE RepoLocks ------------------------------
(***************************************************************************)
(* The process-wide registry of per-repository write locks                 *)
(* (repos/storage.py, RepoLockRegistry).  A lock object is created on the  *)
(* first use of a key, shared by everyone who arrives while it is in the   *)
(* registry, and dropped when its reference count reaches zero.  Lock      *)
(* objects have an identity: two tasks holding two different objects for   *)
(* the same key would both be inside the critical section.                 *)
(*                                                                         *)
(* Tasks interleave at awaits only.  A step is what one task does between  *)
(* two suspension points of RepoLockRegistry.acquire.                      *)
(***************************************************************************)
EXTENDS SequencesExt

CONSTANTS Task,      \* asyncio tasks
          Key,       \* repository slots (owner, name)
          LockId,    \* identities of asyncio.Lock objects
          None,      \* "no entry" / "no holder"
          RefBound   \* bound on a reference count (abandoned waits raise it)

ASSUME LockAssumption ==
  /\ IsFiniteSet(Task)
  /\ RefBound \in Nat
  /\ None \notin Task
  /\ None \notin LockId

VARIABLES
  locks,      \* _locks: key -> lock object, None when the key is absent
  refcounts,  \* _refcounts: key -> count, 0 when the key is absent
  holder,     \* per lock object: the task that has it, or None
  waiters,    \* per lock object: asyncio.Lock._waiters, oldest first
  pc,         \* per task: idle, waiting (in lock.acquire) or holding
  key,        \* per task: local variable `key`
  lock        \* per task: local variable `lock`

vars == <<locks, refcounts, holder, waiters, pc, key, lock>>

TypeOK ==
  /\ locks \in [Key -> LockId \cup {None}]
  /\ refcounts \in [Key -> Nat]
  /\ holder \in [LockId -> Task \cup {None}]
  /\ waiters \in [LockId -> Seq(Task)]
  /\ pc \in [Task -> {"idle", "waiting", "holding"}]
  /\ key \in [Task -> Key]
  /\ lock \in [Task -> LockId]

Init ==
  /\ locks = [k \in Key |-> None]
  /\ refcounts = [k \in Key |-> 0]
  /\ holder = [l \in LockId |-> None]
  /\ waiters = [l \in LockId |-> <<>>]
  /\ pc = [t \in Task |-> "idle"]
  /\ key \in [Task -> Key]
  /\ lock \in [Task -> LockId]

Users(k) == {t \in Task : pc[t] # "idle" /\ key[t] = k}

(***************************************************************************)
(* A lock object nobody can reach any more, or that does not exist yet.    *)
(***************************************************************************)
Unused(l) ==
  /\ \A k \in Key : locks[k] # l
  /\ \A t \in Task : pc[t] # "idle" => lock[t] # l

(***************************************************************************)
(* asyncio.Lock: acquire returns at once when the lock is free and nobody  *)
(* queues for it, otherwise the task joins the queue; a free lock goes to  *)
(* the head of its queue; a cancelled waiter leaves the queue.             *)
(***************************************************************************)
AvailableIfNobodyQueues(l) == waiters[l] = <<>>  \* mutant: holder not looked at

Available(l) == holder[l] = None /\ waiters[l] = <<>>

Acquire(t, l) ==
  IF Available(l)
    THEN /\ holder' = [holder EXCEPT ![l] = t]
         /\ pc' = [pc EXCEPT ![t] = "holding"]
         /\ UNCHANGED waiters
    ELSE /\ waiters' = [waiters EXCEPT ![l] = Append(@, t)]
         /\ pc' = [pc EXCEPT ![t] = "waiting"]
         /\ UNCHANGED holder

(***************************************************************************)
(* Mutant: the reference is counted only where the entry is created.       *)
(***************************************************************************)
LookupCountsCreation(t, k, l) ==
  /\ pc[t] = "idle"
  /\ locks[k] = l \/ (locks[k] = None /\ Unused(l))
  /\ refcounts[k] < RefBound
  /\ locks' = [locks EXCEPT ![k] = l]
  /\ refcounts' = [refcounts EXCEPT ![k] = IF locks[k] = None THEN 1 ELSE @]
  /\ key' = [key EXCEPT ![t] = k]
  /\ lock' = [lock EXCEPT ![t] = l]
  /\ Acquire(t, l)

(***************************************************************************)
(* acquire(): look the lock up, or create and register it; count the       *)
(* reference; then await lock.acquire().                                   *)
(***************************************************************************)
Lookup(t, k, l) ==
  /\ pc[t] = "idle"
  /\ locks[k] = l \/ (locks[k] = None /\ Unused(l))
  /\ refcounts[k] < RefBound
  /\ locks' = [locks EXCEPT ![k] = l]
  /\ refcounts' = [refcounts EXCEPT ![k] = @ + 1]
  /\ key' = [key EXCEPT ![t] = k]
  /\ lock' = [lock EXCEPT ![t] = l]
  /\ Acquire(t, l)

(***************************************************************************)
(* The suspended lock.acquire() of the oldest waiter returns.              *)
(***************************************************************************)
Wake(t) ==
  /\ pc[t] = "waiting"
  /\ holder[lock[t]] = None
  /\ waiters[lock[t]] # <<>>
  /\ Head(waiters[lock[t]]) = t
  /\ holder' = [holder EXCEPT ![lock[t]] = t]
  /\ waiters' = [waiters EXCEPT ![lock[t]] = Tail(@)]
  /\ pc' = [pc EXCEPT ![t] = "holding"]
  /\ UNCHANGED <<locks, refcounts, key, lock>>

(***************************************************************************)
(* Mutants of the finally block: the entry goes although others count on   *)
(* it; the lock is released only together with the entry.                  *)
(***************************************************************************)
ReleaseDropsEntry(t) ==
  /\ pc[t] = "holding"
  /\ holder' = [holder EXCEPT ![lock[t]] = None]
  /\ refcounts' = [refcounts EXCEPT ![key[t]] = 0]
  /\ locks' = [locks EXCEPT ![key[t]] = None]
  /\ pc' = [pc EXCEPT ![t] = "idle"]
  /\ UNCHANGED <<waiters, key, lock>>

ReleaseOnlyLast(t) ==
  /\ pc[t] = "holding"
  /\ holder' = IF refcounts[key[t]] <= 1
                 THEN [holder EXCEPT ![lock[t]] = None]
                 ELSE holder
  /\ refcounts' = [refcounts EXCEPT ![key[t]] = @ - 1]
  /\ locks' = IF refcounts[key[t]] <= 1
                THEN [locks EXCEPT ![key[t]] = None]
                ELSE locks
  /\ pc' = [pc EXCEPT ![t] = "idle"]
  /\ UNCHANGED <<waiters, key, lock>>

(***************************************************************************)
(* The body ends, by return, exception or cancellation: the finally block  *)
(* releases the lock, drops the reference and, at zero, the entry.         *)
(***************************************************************************)
Release(t) ==
  /\ pc[t] = "holding"
  /\ holder' = [holder EXCEPT ![lock[t]] = None]
  /\ refcounts' = [refcounts EXCEPT ![key[t]] = @ - 1]
  /\ locks' = IF refcounts[key[t]] <= 1
                THEN [locks EXCEPT ![key[t]] = None]
                ELSE locks
  /\ pc' = [pc EXCEPT ![t] = "idle"]
  /\ UNCHANGED <<waiters, key, lock>>

(***************************************************************************)
(* CancelledError is raised inside `await lock.acquire()`, which is before *)
(* the try block: the task leaves the queue and its reference stays        *)
(* counted.                                                                *)
(***************************************************************************)
CancelWait(t) ==
  /\ pc[t] = "waiting"
  /\ \E i \in 1 .. Len(waiters[lock[t]]) :
       /\ waiters[lock[t]][i] = t
       /\ waiters' = [waiters EXCEPT ![lock[t]] = RemoveAt(@, i)]
  /\ pc' = [pc EXCEPT ![t] = "idle"]
  /\ UNCHANGED <<locks, refcounts, holder, key, lock>>

Next ==
  \E t \in Task :
    \/ \E k \in Key, l \in LockId : Lookup(t, k, l)
    \/ Wake(t)
    \/ Release(t)
    \/ CancelWait(t)

Spec == Init /\ [][Next]_vars

(***************************************************************************)
(* The event loop runs every ready task, and every body under the lock     *)
(* ends; nothing forces a request to arrive or to be cancelled.            *)
(***************************************************************************)
Fairness == \A t \in Task : WF_vars(Wake(t)) /\ WF_vars(Release(t))

FairSpec == Spec /\ Fairness
-----------------------------------------------------------------------------
(***************************************************************************)
(* Two tasks are never inside the lock of the same repository, although    *)
(* entries are dropped and lock objects re-created as tasks come and go.   *)
(***************************************************************************)
MutualExclusion ==
  \A t, u \in Task :
    pc[t] = "holding" /\ pc[u] = "holding" /\ key[t] = key[u] => t = u

(***************************************************************************)
(* The count of a key is at least the number of tasks that hold or await   *)
(* its lock, so an entry is never dropped from under one of them (and the  *)
(* decrement in the finally block never meets a missing entry).            *)
(***************************************************************************)
CountCoversUsers ==
  \A k \in Key :
    /\ Cardinality(Users(k)) <= refcounts[k]
    /\ refcounts[k] = 0 <=> locks[k] = None

(***************************************************************************)
(* Whoever waits for a repository eventually enters it or is cancelled:    *)
(* no release is lost between the registry and the lock's queue.           *)
(***************************************************************************)
NoStarvation ==
  \A t \in Task : pc[t] = "waiting" ~> pc[t] # "waiting"

(***************************************************************************)
(* The registry implements the mutex its users rely on.                    *)
(***************************************************************************)
ownerOf ==
  [k \in Key |-> IF \E t \in Task : pc[t] = "holding" /\ key[t] = k
                   THEN CHOOSE t \in Task : pc[t] = "holding" /\ key[t] = k
                   ELSE None]

awaitingOf == [k \in Key |-> {t \in Task : pc[t] = "waiting" /\ key[t] = k}]

Mutex == INSTANCE RepoMutex WITH owner <- ownerOf, awaiting <- awaitingOf

(***************************************************************************)
(* Every step of the registry is a step of the abstract mutex or changes   *)
(* nothing it can see.                                                     *)
(***************************************************************************)
ImplementsMutex == Mutex!Spec
=============================================================================
