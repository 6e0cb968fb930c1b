------------------------------ MODULE RepoMutex ------------------------------
(***************************************************************************)
(* What the per-repository write lock promises to create, delete, upload,  *)
(* push bookkeeping and the Space lifecycle: at any time at most one task  *)
(* owns a repository, a task owns or awaits at most one, and a task that   *)
(* waits may give up.  RepoLocks implements this specification with a      *)
(* registry of reference-counted lock objects.                             *)
(***************************************************************************)
CONSTANTS Task,   \* asyncio tasks serving requests
          Key,    \* repository slots (owner, name)
          None

VARIABLES owner,    \* owner[k]: the task inside the lock of k, or None
          awaiting  \* awaiting[k]: the tasks suspended on the lock of k

vars == <<owner, awaiting>>

TypeOK ==
  /\ owner \in [Key -> Task \cup {None}]
  /\ awaiting \in [Key -> SUBSET Task]

Init ==
  /\ owner = [k \in Key |-> None]
  /\ awaiting = [k \in Key |-> {}]

Uninvolved(t) == \A k \in Key : owner[k] # t /\ t \notin awaiting[k]

Request(t, k) ==
  /\ Uninvolved(t)
  /\ awaiting' = [awaiting EXCEPT ![k] = @ \cup {t}]
  /\ UNCHANGED owner

Enter(t, k) ==
  /\ owner[k] = None
  /\ t \in awaiting[k] \/ Uninvolved(t)
  /\ owner' = [owner EXCEPT ![k] = t]
  /\ awaiting' = [awaiting EXCEPT ![k] = @ \ {t}]

GiveUp(t, k) ==
  /\ t \in awaiting[k]
  /\ awaiting' = [awaiting EXCEPT ![k] = @ \ {t}]
  /\ UNCHANGED owner

Leave(t, k) ==
  /\ owner[k] = t
  /\ owner' = [owner EXCEPT ![k] = None]
  /\ UNCHANGED awaiting

Next ==
  \E t \in Task, k \in Key :
    \/ Request(t, k)
    \/ Enter(t, k)
    \/ GiveUp(t, k)
    \/ Leave(t, k)

Spec == Init /\ [][Next]_vars
=============================================================================
