--------------------------- MODULE RepoLocksProofs ---------------------------
(***************************************************************************)
(* For any number of tasks and repositories the lock registry excludes,    *)
(* and implements the abstract mutex of RepoMutex.                         *)
(*                                                                         *)
(* MutualExclusion is not inductive: two tasks could hold different lock   *)
(* objects of one key.  Registered says everyone who uses a key has the    *)
(* object the registry has now, and survives the removal of an entry only  *)
(* because the count covers all users (CountCoversUsers).                  *)
(***************************************************************************)
EXTENDS RepoLocks, FiniteSetTheorems, TLAPS

Registered == \A t \in Task : pc[t] # "idle" => locks[key[t]] = lock[t]

HoldersHold == \A t \in Task : pc[t] = "holding" => holder[lock[t]] = t

IInv == TypeOK /\ Registered /\ HoldersHold /\ CountCoversUsers

(***************************************************************************)
(* The users of a key are finitely many.                                   *)
(***************************************************************************)
LEMMA UsersFinite ==
  ASSUME NEW k \in Key
  PROVE  IsFiniteSet(Users(k)) /\ Cardinality(Users(k)) \in Nat
<1>1. Users(k) \subseteq Task
  BY DEF Users
<1>2. IsFiniteSet(Users(k))
  BY <1>1, LockAssumption, FS_Subset
<1>3. QED
  BY <1>2, FS_CardinalityType

(***************************************************************************)
(* asyncio.Lock keeps its state well typed, whichever way acquire goes.    *)
(***************************************************************************)
LEMMA AcquireType ==
  ASSUME TypeOK, NEW t \in Task, NEW l \in LockId, Acquire(t, l)
  PROVE  /\ holder' \in [LockId -> Task \cup {None}]
         /\ waiters' \in [LockId -> Seq(Task)]
         /\ pc' \in [Task -> {"idle", "waiting", "holding"}]
         /\ pc'[t] # "idle"
         /\ \A u \in Task : u # t => pc'[u] = pc[u]
<1>1. CASE Available(l)
  BY <1>1 DEF Acquire, TypeOK
<1>2. CASE ~Available(l)
  <2>1. Append(waiters[l], t) \in Seq(Task)
    BY DEF TypeOK
  <2>2. QED
    BY <1>2, <2>1 DEF Acquire, TypeOK
<1>3. QED
  BY <1>1, <1>2

(***************************************************************************)
(* Every variable keeps its type.                                          *)
(***************************************************************************)
LEMMA TypeStep == IInv /\ [Next]_vars => TypeOK'
<1> SUFFICES ASSUME IInv, [Next]_vars
             PROVE  TypeOK'
  OBVIOUS
<1> USE DEF IInv
<1>1. ASSUME NEW t \in Task, NEW k \in Key, NEW l \in LockId, Lookup(t, k, l)
      PROVE  TypeOK'
  <2>1. Acquire(t, l)
    BY <1>1 DEF Lookup
  <2>2. QED
    BY <1>1, <2>1, AcquireType DEF Lookup, TypeOK
<1>2. ASSUME NEW t \in Task, Wake(t)
      PROVE  TypeOK'
  <2>1. Tail(waiters[lock[t]]) \in Seq(Task)
    BY <1>2 DEF Wake, TypeOK
  <2>2. QED
    BY <1>2, <2>1 DEF Wake, TypeOK
<1>3. ASSUME NEW t \in Task, Release(t)
      PROVE  TypeOK'
  <2>1. t \in Users(key[t]) /\ key[t] \in Key
    BY <1>3 DEF Release, Users, TypeOK
  <2>2. Cardinality(Users(key[t])) # 0
    BY <2>1, UsersFinite, FS_EmptySet
  <2>3. refcounts[key[t]] - 1 \in Nat
    BY <2>1, <2>2, UsersFinite DEF CountCoversUsers, TypeOK
  <2>4. QED
    BY <1>3, <2>1, <2>3 DEF Release, TypeOK
<1>4. ASSUME NEW t \in Task, CancelWait(t)
      PROVE  TypeOK'
  <2>1. PICK i \in 1 .. Len(waiters[lock[t]]) :
           waiters' = [waiters EXCEPT ![lock[t]] = RemoveAt(@, i)]
    BY <1>4 DEF CancelWait
  <2> DEFINE s == waiters[lock[t]]
  <2>2. RemoveAt(s, i) \in Seq(Task)
    <3>1. s \in Seq(Task) /\ i \in 1 .. Len(s)
      BY <2>1 DEF TypeOK
    <3> HIDE DEF s
    <3> QED
      BY <3>1 DEF RemoveAt
  <2>3. QED
    BY <1>4, <2>1, <2>2 DEF CancelWait, TypeOK
<1>5. CASE UNCHANGED vars
  BY <1>5 DEF vars, TypeOK
<1>6. QED
  BY <1>1, <1>2, <1>3, <1>4, <1>5 DEF Next

(***************************************************************************)
(* The count of a key keeps covering its users.                            *)
(***************************************************************************)
LEMMA CountStep == IInv /\ [Next]_vars => CountCoversUsers'
<1> SUFFICES ASSUME IInv, [Next]_vars, NEW k \in Key
             PROVE  /\ Cardinality(Users(k)') <= refcounts'[k]
                    /\ refcounts'[k] = 0 <=> locks'[k] = None
  BY DEF CountCoversUsers, Users
<1> USE DEF IInv
<1>0. /\ IsFiniteSet(Users(k))
      /\ Cardinality(Users(k)) \in Nat
      /\ refcounts[k] \in Nat
      /\ Cardinality(Users(k)) <= refcounts[k]
      /\ refcounts[k] = 0 <=> locks[k] = None
  BY UsersFinite DEF CountCoversUsers, TypeOK
<1>1. ASSUME NEW t \in Task, NEW j \in Key, NEW l \in LockId, Lookup(t, j, l)
      PROVE  /\ Cardinality(Users(k)') <= refcounts'[k]
             /\ refcounts'[k] = 0 <=> locks'[k] = None
  <2>0. /\ pc'[t] # "idle"
        /\ \A u \in Task : u # t => pc'[u] = pc[u] /\ key'[u] = key[u]
        /\ key'[t] = j
        /\ pc[t] = "idle"
    BY <1>1, AcquireType DEF Lookup, TypeOK
  <2>1. CASE k = j
    <3>1. Users(k)' = Users(k) \cup {t} /\ t \notin Users(k)
      BY <2>0, <2>1 DEF Users
    <3>2. Cardinality(Users(k)') = Cardinality(Users(k)) + 1
      BY <3>1, <1>0, FS_AddElement
    <3>3. refcounts'[k] = refcounts[k] + 1 /\ locks'[k] = l /\ l # None
      BY <1>1, <2>1, LockAssumption DEF Lookup, TypeOK
    <3>4. QED
      BY <3>2, <3>3, <1>0
  <2>2. CASE k # j
    <3>1. Users(k)' = Users(k)
      BY <2>0, <2>2 DEF Users
    <3>2. refcounts'[k] = refcounts[k] /\ locks'[k] = locks[k]
      BY <1>1, <2>2 DEF Lookup, TypeOK
    <3>3. QED
      BY <3>1, <3>2, <1>0
  <2>3. QED
    BY <2>1, <2>2
<1>2. ASSUME NEW t \in Task, Wake(t)
      PROVE  /\ Cardinality(Users(k)') <= refcounts'[k]
             /\ refcounts'[k] = 0 <=> locks'[k] = None
  <2>1. Users(k)' = Users(k)
    BY <1>2 DEF Wake, Users, TypeOK
  <2>2. QED
    BY <2>1, <1>0, <1>2 DEF Wake
<1>3. ASSUME NEW t \in Task, Release(t)
      PROVE  /\ Cardinality(Users(k)') <= refcounts'[k]
             /\ refcounts'[k] = 0 <=> locks'[k] = None
  <2>1. CASE k = key[t]
    <3>1. Users(k)' = Users(k) \ {t} /\ t \in Users(k)
      BY <1>3, <2>1 DEF Release, Users, TypeOK
    <3>2. /\ Cardinality(Users(k)') = Cardinality(Users(k)) - 1
          /\ Cardinality(Users(k)) # 0
      BY <3>1, <1>0, FS_RemoveElement, FS_EmptySet
    <3>3. /\ refcounts'[k] = refcounts[k] - 1
          /\ locks'[k] = IF refcounts[k] <= 1 THEN None ELSE locks[k]
      BY <1>3, <2>1 DEF Release, TypeOK
    <3>4. QED
      BY <3>2, <3>3, <1>0
  <2>2. CASE k # key[t]
    <3>1. Users(k)' = Users(k)
      BY <1>3, <2>2 DEF Release, Users, TypeOK
    <3>2. refcounts'[k] = refcounts[k] /\ locks'[k] = locks[k]
      BY <1>3, <2>2 DEF Release, TypeOK
    <3>3. QED
      BY <3>1, <3>2, <1>0
  <2>3. QED
    BY <2>1, <2>2
<1>4. ASSUME NEW t \in Task, CancelWait(t)
      PROVE  /\ Cardinality(Users(k)') <= refcounts'[k]
             /\ refcounts'[k] = 0 <=> locks'[k] = None
  <2>1. Users(k)' \subseteq Users(k)
    BY <1>4 DEF CancelWait, Users, TypeOK
  <2>2. /\ Cardinality(Users(k)') <= Cardinality(Users(k))
        /\ Cardinality(Users(k)') \in Nat
    BY <2>1, <1>0, FS_Subset, FS_CardinalityType
  <2>3. QED
    BY <2>2, <1>0, <1>4 DEF CancelWait
<1>5. CASE UNCHANGED vars
  <2>1. Users(k)' = Users(k)
    BY <1>5 DEF vars, Users
  <2>2. QED
    BY <2>1, <1>0, <1>5 DEF vars
<1>6. QED
  BY <1>1, <1>2, <1>3, <1>4, <1>5 DEF Next

(***************************************************************************)
(* Whoever uses a key keeps the lock object that is registered for it.     *)
(***************************************************************************)
LEMMA RegisteredStep == IInv /\ [Next]_vars => Registered'
<1> SUFFICES ASSUME IInv, [Next]_vars, NEW u \in Task, pc'[u] # "idle"
             PROVE  locks'[key'[u]] = lock'[u]
  BY DEF Registered
<1> USE DEF IInv
<1>1. ASSUME NEW t \in Task, NEW k \in Key, NEW l \in LockId, Lookup(t, k, l)
      PROVE  locks'[key'[u]] = lock'[u]
  <2>1. CASE u = t
    BY <1>1, <2>1 DEF Lookup, TypeOK
  <2>2. CASE u # t
    <3>1. pc[u] # "idle" /\ key'[u] = key[u] /\ lock'[u] = lock[u]
      BY <1>1, <2>2, AcquireType DEF Lookup, TypeOK
    <3>2. locks[key[u]] = lock[u] /\ lock[u] # None
      BY <3>1, LockAssumption DEF Registered, TypeOK
    <3>3. locks'[key[u]] = locks[key[u]]
      BY <1>1, <3>2 DEF Lookup, TypeOK
    <3>4. QED
      BY <3>1, <3>2, <3>3
  <2>3. QED
    BY <2>1, <2>2
<1>2. ASSUME NEW t \in Task, Wake(t)
      PROVE  locks'[key'[u]] = lock'[u]
  <2>1. pc[t] = "waiting" /\ pc' = [pc EXCEPT ![t] = "holding"]
        /\ UNCHANGED <<locks, key, lock>>
    BY <1>2 DEF Wake
  <2>2. pc[u] # "idle"
    BY <2>1 DEF TypeOK
  <2> QED
    BY <2>1, <2>2 DEF Registered
<1>3. ASSUME NEW t \in Task, Release(t)
      PROVE  locks'[key'[u]] = lock'[u]
  <2>1. u # t /\ pc[u] # "idle"
    BY <1>3 DEF Release, TypeOK
  <2>2. CASE key[u] = key[t]
    <3>1. u \in Users(key[t]) /\ t \in Users(key[t]) /\ key[t] \in Key
      BY <1>3, <2>1, <2>2 DEF Release, Users, TypeOK
    <3>2. Cardinality(Users(key[t]) \ {t}) # 0
      BY <3>1, <2>1, UsersFinite, FS_EmptySet, FS_RemoveElement
    <3>3. Cardinality(Users(key[t])) > 1
      BY <3>1, <3>2, UsersFinite, FS_RemoveElement, FS_CardinalityType
    <3>4. refcounts[key[t]] > 1
      BY <3>1, <3>3, UsersFinite DEF CountCoversUsers, TypeOK
    <3>5. QED
      BY <1>3, <2>1, <3>1, <3>4 DEF Release, Registered, TypeOK
  <2>3. CASE key[u] # key[t]
    BY <1>3, <2>1, <2>3 DEF Release, Registered, TypeOK
  <2>4. QED
    BY <2>2, <2>3
<1>4. ASSUME NEW t \in Task, CancelWait(t)
      PROVE  locks'[key'[u]] = lock'[u]
  BY <1>4 DEF CancelWait, Registered, TypeOK
<1>5. CASE UNCHANGED vars
  BY <1>5 DEF vars, Registered
<1>6. QED
  BY <1>1, <1>2, <1>3, <1>4, <1>5 DEF Next

(***************************************************************************)
(* A task in the critical section is the holder of its lock object.        *)
(***************************************************************************)
LEMMA HoldersStep == IInv /\ [Next]_vars => HoldersHold'
<1> SUFFICES ASSUME IInv, [Next]_vars, NEW u \in Task, pc'[u] = "holding"
             PROVE  holder'[lock'[u]] = u
  BY DEF HoldersHold
<1> USE DEF IInv
<1>1. ASSUME NEW t \in Task, NEW k \in Key, NEW l \in LockId, Lookup(t, k, l)
      PROVE  holder'[lock'[u]] = u
  <2>1. lock'[t] = l /\ Acquire(t, l)
    BY <1>1 DEF Lookup, TypeOK
  <2>2. CASE u = t
    BY <2>1, <2>2 DEF Acquire, TypeOK
  <2>3. CASE u # t
    <3>1. pc[u] = "holding" /\ lock'[u] = lock[u]
      BY <1>1, <2>1, <2>3, AcquireType DEF Lookup, TypeOK
    <3>2. holder[lock[u]] = u /\ u # None
      BY <3>1, LockAssumption DEF HoldersHold
    <3>3. QED
      BY <2>1, <3>1, <3>2 DEF Acquire, Available, TypeOK
  <2>4. QED
    BY <2>2, <2>3
<1>2. ASSUME NEW t \in Task, Wake(t)
      PROVE  holder'[lock'[u]] = u
  <2>1. CASE u = t
    BY <1>2, <2>1 DEF Wake, TypeOK
  <2>2. CASE u # t
    <3>1. holder[lock[u]] = u /\ u # None
      BY <1>2, <2>2, LockAssumption DEF Wake, HoldersHold, TypeOK
    <3>2. QED
      BY <1>2, <2>2, <3>1 DEF Wake, TypeOK
  <2>3. QED
    BY <2>1, <2>2
<1>3. ASSUME NEW t \in Task, Release(t)
      PROVE  holder'[lock'[u]] = u
  BY <1>3 DEF Release, HoldersHold, TypeOK
<1>4. ASSUME NEW t \in Task, CancelWait(t)
      PROVE  holder'[lock'[u]] = u
  BY <1>4 DEF CancelWait, HoldersHold, TypeOK
<1>5. CASE UNCHANGED vars
  BY <1>5 DEF vars, HoldersHold
<1>6. QED
  BY <1>1, <1>2, <1>3, <1>4, <1>5 DEF Next

(***************************************************************************)
(* The strengthened invariant holds in every reachable state.              *)
(***************************************************************************)
THEOREM InductiveInvariant == Spec => []IInv
<1>1. Init => IInv
  <2> SUFFICES ASSUME Init PROVE IInv
    OBVIOUS
  <2>1. TypeOK
    BY DEF Init, TypeOK
  <2>2. Registered /\ HoldersHold
    BY DEF Init, Registered, HoldersHold
  <2>3. CountCoversUsers
    <3>1. \A k \in Key : Users(k) = {}
      BY DEF Init, Users
    <3>2. \A k \in Key : Cardinality(Users(k)) = 0
      BY <3>1, FS_EmptySet
    <3>3. QED
      BY <3>2 DEF Init, CountCoversUsers
  <2>4. QED
    BY <2>1, <2>2, <2>3 DEF IInv
<1>2. IInv /\ [Next]_vars => IInv'
  BY TypeStep, CountStep, RegisteredStep, HoldersStep DEF IInv
<1>3. QED
  BY <1>1, <1>2, PTL DEF Spec

(***************************************************************************)
(* RepoLockRegistry excludes: at most one task is inside the lock of a     *)
(* repository.                                                             *)
(***************************************************************************)
THEOREM Exclusion == Spec => []MutualExclusion
<1>1. IInv => MutualExclusion
  BY DEF IInv, Registered, HoldersHold, MutualExclusion
<1>2. QED
  BY <1>1, InductiveInvariant, PTL

(***************************************************************************)
(* The counts cover the users, so no entry is dropped early.               *)
(***************************************************************************)
THEOREM Counting == Spec => []CountCoversUsers
<1>1. IInv => CountCoversUsers
  BY DEF IInv
<1>2. QED
  BY <1>1, InductiveInvariant, PTL

(***************************************************************************)
(* The variables keep their types.                                         *)
(***************************************************************************)
THEOREM TypeCorrect == Spec => []TypeOK
<1>1. IInv => TypeOK
  BY DEF IInv
<1>2. QED
  BY <1>1, InductiveInvariant, PTL

-----------------------------------------------------------------------------
(***************************************************************************)
(* The refinement mapping, characterised without CHOOSE.                   *)
(***************************************************************************)
OwnerCorrect ==
  /\ ownerOf \in [Key -> Task \cup {None}]
  /\ \A k \in Key, t \in Task :
       ownerOf[k] = t <=> pc[t] = "holding" /\ key[t] = k

LEMMA OwnerMapping == IInv => OwnerCorrect
<1> SUFFICES ASSUME IInv PROVE OwnerCorrect
  OBVIOUS
<1>1. MutualExclusion
  BY DEF IInv, Registered, HoldersHold, MutualExclusion
<1>2. QED
  BY <1>1, LockAssumption DEF OwnerCorrect, ownerOf, MutualExclusion

(***************************************************************************)
(* Each step of the registry maps to a step of the mutex or to a stutter.  *)
(***************************************************************************)
LEMMA StepRefines ==
  IInv /\ OwnerCorrect /\ OwnerCorrect' /\ [Next]_vars
    => [Mutex!Next]_(Mutex!vars)
<1> SUFFICES ASSUME IInv, OwnerCorrect, OwnerCorrect', [Next]_vars
             PROVE  [Mutex!Next]_(Mutex!vars)
  OBVIOUS
<1> USE DEF IInv
<1>1. ASSUME NEW t \in Task, NEW k \in Key, NEW l \in LockId, Lookup(t, k, l)
      PROVE  Mutex!Next
  <2>1. /\ pc[t] = "idle" /\ key'[t] = k
        /\ \A u \in Task : u # t => pc'[u] = pc[u] /\ key'[u] = key[u]
    BY <1>1, AcquireType DEF Lookup, TypeOK
  <2>2. Mutex!Uninvolved(t)
    BY <2>1 DEF Mutex!Uninvolved, OwnerCorrect, awaitingOf
  <2>3. CASE Available(l)
    <3>1. pc'[t] = "holding"
      BY <1>1, <2>3 DEF Lookup, Acquire, TypeOK
    <3>2. ownerOf[k] = None
      <4>1. \A u \in Task : pc[u] = "holding" => key[u] # k
        <5> SUFFICES ASSUME NEW u \in Task, pc[u] = "holding", key[u] = k
                     PROVE  FALSE
          OBVIOUS
        <5>1. locks[k] = lock[u] /\ holder[lock[u]] = u /\ lock[u] \in LockId
          BY DEF Registered, HoldersHold, TypeOK
        <5>2. lock[u] = l
          BY <5>1, <1>1, LockAssumption DEF Lookup
        <5>3. QED
          BY <5>1, <5>2, <2>3, LockAssumption DEF Available
      <4>2. QED
        BY <4>1 DEF OwnerCorrect
    <3>3. ownerOf' = [ownerOf EXCEPT ![k] = t]
      <4>1. \A j \in Key : ownerOf'[j] = IF j = k THEN t ELSE ownerOf[j]
        BY <2>1, <3>1, LockAssumption DEF OwnerCorrect
      <4>2. QED
        BY <4>1 DEF OwnerCorrect
    <3>4. awaitingOf' = [awaitingOf EXCEPT ![k] = @ \ {t}]
      BY <2>1, <3>1 DEF awaitingOf
    <3>5. QED
      BY <2>2, <3>2, <3>3, <3>4 DEF Mutex!Next, Mutex!Enter
  <2>4. CASE ~Available(l)
    <3>1. pc'[t] = "waiting"
      BY <1>1, <2>4 DEF Lookup, Acquire, TypeOK
    <3>2. ownerOf' = ownerOf
      <4>1. \A j \in Key : ownerOf'[j] = ownerOf[j]
        BY <2>1, <3>1, LockAssumption DEF OwnerCorrect
      <4>2. QED
        BY <4>1 DEF OwnerCorrect
    <3>3. awaitingOf' = [awaitingOf EXCEPT ![k] = @ \cup {t}]
      BY <2>1, <3>1 DEF awaitingOf
    <3>4. QED
      BY <2>2, <3>2, <3>3 DEF Mutex!Next, Mutex!Request
  <2>5. QED
    BY <2>3, <2>4
<1>2. ASSUME NEW t \in Task, Wake(t)
      PROVE  Mutex!Next
  <2>1. /\ pc[t] = "waiting" /\ pc'[t] = "holding" /\ key' = key
        /\ \A u \in Task : u # t => pc'[u] = pc[u]
        /\ key[t] \in Key
    BY <1>2 DEF Wake, TypeOK
  <2>2. ownerOf[key[t]] = None
    <3>1. \A u \in Task : pc[u] = "holding" => key[u] # key[t]
      <4> SUFFICES ASSUME NEW u \in Task, pc[u] = "holding", key[u] = key[t]
                   PROVE  FALSE
        OBVIOUS
      <4>1. lock[u] = lock[t] /\ holder[lock[u]] = u
        BY <2>1 DEF Registered, HoldersHold
      <4>2. QED
        BY <4>1, <1>2, LockAssumption DEF Wake
    <3>2. QED
      BY <2>1, <3>1 DEF OwnerCorrect
  <2>3. ownerOf' = [ownerOf EXCEPT ![key[t]] = t]
    <3>1. \A j \in Key : ownerOf'[j] = IF j = key[t] THEN t ELSE ownerOf[j]
      BY <2>1, LockAssumption DEF OwnerCorrect
    <3>2. QED
      BY <3>1 DEF OwnerCorrect
  <2>4. awaitingOf' = [awaitingOf EXCEPT ![key[t]] = @ \ {t}]
    BY <2>1 DEF awaitingOf
  <2>5. t \in awaitingOf[key[t]]
    BY <2>1 DEF awaitingOf
  <2>6. QED
    BY <2>1, <2>2, <2>3, <2>4, <2>5 DEF Mutex!Next, Mutex!Enter
<1>3. ASSUME NEW t \in Task, Release(t)
      PROVE  Mutex!Next
  <2>1. /\ pc[t] = "holding" /\ pc'[t] = "idle" /\ key' = key
        /\ \A u \in Task : u # t => pc'[u] = pc[u]
        /\ key[t] \in Key
    BY <1>3 DEF Release, TypeOK
  <2>2. ownerOf' = [ownerOf EXCEPT ![key[t]] = None]
    <3>1. \A j \in Key : ownerOf'[j] = IF j = key[t] THEN None ELSE ownerOf[j]
      BY <2>1, LockAssumption DEF OwnerCorrect
    <3>2. QED
      BY <3>1 DEF OwnerCorrect
  <2>3. awaitingOf' = awaitingOf
    BY <2>1 DEF awaitingOf
  <2>4. ownerOf[key[t]] = t
    BY <2>1 DEF OwnerCorrect
  <2>5. QED
    BY <2>1, <2>2, <2>3, <2>4 DEF Mutex!Next, Mutex!Leave
<1>4. ASSUME NEW t \in Task, CancelWait(t)
      PROVE  Mutex!Next
  <2>1. /\ pc[t] = "waiting" /\ pc'[t] = "idle" /\ key' = key
        /\ \A u \in Task : u # t => pc'[u] = pc[u]
        /\ key[t] \in Key
    BY <1>4 DEF CancelWait, TypeOK
  <2>2. ownerOf' = ownerOf
    <3>1. \A j \in Key : ownerOf'[j] = ownerOf[j]
      BY <2>1, LockAssumption DEF OwnerCorrect
    <3>2. QED
      BY <3>1 DEF OwnerCorrect
  <2>3. awaitingOf' = [awaitingOf EXCEPT ![key[t]] = @ \ {t}]
    BY <2>1 DEF awaitingOf
  <2>4. t \in awaitingOf[key[t]]
    BY <2>1 DEF awaitingOf
  <2>5. QED
    BY <2>1, <2>2, <2>3, <2>4 DEF Mutex!Next, Mutex!GiveUp
<1>5. CASE UNCHANGED vars
  BY <1>5 DEF vars, Mutex!vars, ownerOf, awaitingOf
<1>6. QED
  BY <1>1, <1>2, <1>3, <1>4, <1>5 DEF Next

(***************************************************************************)
(* RepoLockRegistry, with its entries created, counted and dropped on the  *)
(* fly, implements the per-repository mutex that create, delete, upload,   *)
(* push bookkeeping and the Space lifecycle rely on.                       *)
(***************************************************************************)
THEOREM Refinement == Spec => ImplementsMutex
<1>1. Init => Mutex!Init
  BY DEF Init, Mutex!Init, ownerOf, awaitingOf
<1>2. QED
  BY <1>1, StepRefines, OwnerMapping, InductiveInvariant, PTL
     DEF Spec, ImplementsMutex, Mutex!Spec
=============================================================================
