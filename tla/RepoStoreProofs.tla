---------------------------- MODULE RepoStoreProofs ----------------------------
(***************************************************************************)
(* Proofs about RepoStore: for any number of requests, names and kinds,    *)
(* for any mix of operations, with the reconcile job, failing commits and  *)
(* crashes.                                                                *)
(*                                                                         *)
(* Every action is first shown to be one of a dozen effects (Happens):     *)
(* what it does to the database, the directories and the locks, whichever  *)
(* handler it belongs to.  The inductive invariant is then a stack of      *)
(* layers, each kept by every effect with the help of the ones below it:   *)
(* Base (types, locks, who writes), Rows (what the open transaction may    *)
(* change, and that a request still finds the row it loaded), Homes and    *)
(* Orphans (rows and directories), Revisions (rows and histories) and      *)
(* Ledger (rows and usage).                                                *)
(***************************************************************************)
EXTENDS RepoStore, TLAPS, FiniteSetTheorems, SequenceTheorems

(***************************************************************************)
(* The data as the open transaction sees them.                             *)
(***************************************************************************)
Latest == IF txn = None THEN db ELSE txn.db

Rests(q) == q.pc \in {"idle", "done"}

(***************************************************************************)
(* What the place a request has reached says of its operation.             *)
(***************************************************************************)
Knows(q) ==
  /\ q.pc = "idle" => q.op = None
  /\ ~Rests(q) => q.slot \in Slot /\ q.op \in Op
  /\ q.pc \in {"init", "insert"} => q.op = "create"
  /\ q.pc \in {"delete", "remove"} => q.op = "delete"
  /\ q.pc \in {"capture", "receive", "book", "read"} => q.op = "push"
  /\ q.pc \in {"quota", "walk"} => q.op \in {"push", "upload"}
  /\ q.pc \in {"clone", "land"} => q.op \in {"upload", "edit"}
  /\ q.pc = "record" => q.op \in {"push", "upload", "edit"}
  /\ q.pc \in {"read", "walk", "record"} => q.seen # <<>>

(***************************************************************************)
(* Where a request is inside the lock of its repository: only a push keeps *)
(* it to its commit.                                                       *)
(***************************************************************************)
Holding(q) ==
  \/ q.pc \in {"insert", "remove", "read", "land"}
  \/ q.op = "push" /\ q.pc \in {"walk", "record", "commit"}

Locked == \A r \in Req : Holding(req[r]) => lock[NameOf(r)] = r

Housed == \A r \in Req : req[r].pc \in {"insert", "land"} => dir[NameOf(r)] # None

(***************************************************************************)
(* One transaction is open at a time; whoever owns it is about to commit.  *)
(***************************************************************************)
Writing ==
  /\ txn # None => IF txn.by = Job THEN job.pc = "commit"
                                   ELSE req[txn.by].pc = "commit"
  /\ \A r \in Req : req[r].pc = "commit" => txn # None /\ txn.by = r
  /\ job.pc = "commit" => txn # None /\ txn.by = Job

Base ==
  /\ TypeOK /\ Locked /\ Housed /\ Writing
  /\ \A r \in Req : Knows(req[r])
  /\ "reconcile" \notin Ops => job = Asleep

(***************************************************************************)
(* A request still finds the row that it loaded.  Only another delete can  *)
(* take it away: Rooted.                                                   *)
(***************************************************************************)
Roots(q) == db.rows[q.slot] # None /\ db.rows[q.slot].id = q.rid

UniqueIds(rows) == \A s, t \in Slot :
  rows[s] # None /\ rows[t] # None /\ rows[s].id = rows[t].id => s = t

(***************************************************************************)
(* What the transaction of a request has done to the committed rows, by    *)
(* its operation.                                                          *)
(***************************************************************************)
Writes(q, new) == \A s \in Slot :
  LET hit == s \in RowsWithId(db.rows, q.rid) IN
  /\ q.op = "create" => IF s = q.slot THEN db.rows[s] = None /\ new[s] # None
                                      ELSE new[s] = db.rows[s]
  /\ q.op = "delete" => new[s] = IF hit THEN None ELSE db.rows[s]
  /\ q.op \in {"push", "upload"} =>
       IF hit THEN new[s] # None /\ new[s].id = db.rows[s].id
              ELSE new[s] = db.rows[s]
  /\ q.op = "edit" => new[s] = db.rows[s]

Delta == txn # None =>
  IF txn.by = Job THEN txn.db.rows = db.rows
                  ELSE Writes(req[txn.by], txn.db.rows)

Sole(r) == \A q \in Deleters : q = r

Rooted == \A r \in Req :
  ~Rests(req[r]) /\ req[r].op # "create" /\ Sole(r) => Roots(req[r])

Rows == UniqueIds(db.rows) /\ UniqueIds(Latest.rows) /\ Delta /\ Rooted

(***************************************************************************)
(* The condition under which rows and directories match.  Unlike Smooth it *)
(* allows faults when nothing is deleted, which is what                    *)
(* RevisionsNameCommits needs.                                             *)
(***************************************************************************)
Calm == (\A q, r \in Deleters : q = r) /\ (faults = 0 \/ Deleters = {})

(***************************************************************************)
(* No two rows of one name; no row without a directory; no row, of any     *)
(* kind, where a create has just made the directory.                       *)
(***************************************************************************)
OneHome(rows) == \A s, t \in Slot :
  rows[s] # None /\ rows[t] # None /\ s[1] = t[1] => s = t

Sheltered == \A s \in Slot : Latest.rows[s] # None => dir[s[1]] # None

Clear == \A r \in Req : req[r].pc = "insert" =>
  \A s \in Slot : s[1] = NameOf(r) => Latest.rows[s] = None

Tidy == OneHome(db.rows) /\ OneHome(Latest.rows) /\ Sheltered /\ Clear

Homes == Calm => Tidy

(***************************************************************************)
(* What a directory is for: a row, committed or not, or a create inside    *)
(* its lock.                                                               *)
(***************************************************************************)
Claimed(n) ==
  \/ \E s \in Slot : s[1] = n /\ Latest.rows[s] # None
  \/ \E r \in Req : req[r].pc = "insert" /\ NameOf(r) = n

Orphans == Smooth => \A n \in Name : dir[n] # None => Claimed(n)

(***************************************************************************)
(* Histories: a revision, recorded or about to be, names a commit of its   *)
(* repository.                                                             *)
(***************************************************************************)
Tip(log) == log[Len(log)]

Has(n, c) == \E i \in 1 .. Len(LogOf(n)) : LogOf(n)[i] = c

Shows(q) == q.pc \in {"read", "walk", "record"} => Has(q.slot[1], Tip(q.seen))

Names(data) == \A v \in data.revs : \E s \in Slot :
  data.rows[s] # None /\ data.rows[s].id = v.repo /\ Has(s[1], v.sha)

Revisions == Deleters = {} =>
  Names(db) /\ Names(Latest) /\ \A r \in Req : Shows(req[r])

(***************************************************************************)
(* Usage: committed and uncommitted data both add up, and a push that has  *)
(* read a size under its lock still has the size that is there.            *)
(***************************************************************************)
Plain == Only({"create", "push", "edit"})

Balanced(data) == data.usage = SumFunction(Sizes(data.rows))

Weighs(q) == q.op = "push" /\ q.pc \in {"walk", "record"} => q.size = db.rows[q.slot].size

Ledger == Plain =>
  Balanced(db) /\ Balanced(Latest) /\ \A r \in Req : Weighs(req[r])

IInv == Base /\ Rows /\ Homes /\ Orphans /\ Revisions /\ Ledger
-----------------------------------------------------------------------------
(***************************************************************************)
(* A step of request r, after which its record is q.  Each effect below is *)
(* such a turn, and says what it does to the rest of the state.            *)
(***************************************************************************)
Turn(r, q) ==
  /\ q \in Request /\ Knows(q)
  /\ req' = [req EXCEPT ![r] = q]
  /\ req[r].pc # "done" /\ q.pc # "idle"
  /\ \/ req[r].pc = "idle"
     \/ /\ q.op = req[r].op
        /\ ~Rests(q) => q.slot = req[r].slot /\ q.rid = req[r].rid
  /\ lock' \in [Name -> Req \cup {None}]
  /\ \A n \in Name : lock'[n] = lock[n] \/ lock[n] \in {r, None}
  /\ Holding(q) => lock'[q.slot[1]] = r
  /\ job' = job

(***************************************************************************)
(* A turn that only reads,                                                 *)
(***************************************************************************)
Local(r, q) ==
  /\ Turn(r, q) /\ UNCHANGED <<db, txn, dir, faults>>
  /\ req[r].pc \notin {"insert", "commit"} /\ q.pc \notin {"insert", "commit"}
  /\ req[r].pc = "idle" => q.op = "create" \/ Roots(q)
  /\ q.pc = "land" => dir[q.slot[1]] # None
  /\ q.pc \in {"read", "walk", "record"} =>
       \/ q.seen = req[r].seen /\ req[r].pc \in {"read", "walk", "record"}
       \/ q.seen = LogOf(q.slot[1])
  /\ q.op = "push" /\ q.pc \in {"walk", "record"} =>
       \/ q.size = req[r].size /\ req[r].pc = "walk"
       \/ \E s \in RowsWithId(db.rows, q.rid) : q.size = db.rows[s].size

(***************************************************************************)
(* ... creates a directory, removes it again, receives a push or a commit, *)
(***************************************************************************)
Makes(r, q) ==
  /\ Turn(r, q) /\ UNCHANGED <<db, txn, faults>>
  /\ req[r].pc = "init" /\ q.pc = "insert"
  /\ dir[NameOf(r)] = None /\ dir' = [dir EXCEPT ![NameOf(r)] = EmptyDir]

Undoes(r, q) ==
  /\ Turn(r, q) /\ UNCHANGED <<db, txn, faults>>
  /\ req[r].pc = "insert" /\ q.pc = "done"
  /\ dir' = [dir EXCEPT ![NameOf(r)] = None]

Grows(r, q) ==
  /\ Turn(r, q) /\ UNCHANGED <<db, txn, faults>>
  /\ req[r].pc \in {"receive", "land"} /\ q.pc \in {"book", "walk", "record"}
  /\ q.op = "push" => q.pc = "book"
  /\ dir[NameOf(r)] # None
  /\ \E d \in Dir :
       /\ dir' = [dir EXCEPT ![NameOf(r)] = d]
       /\ d.log = dir[NameOf(r)].log \/ d.log = Append(dir[NameOf(r)].log, r)
       /\ q.pc \in {"walk", "record"} => q.seen = d.log

(***************************************************************************)
(* ... opens the transaction to insert a row, to delete one, to book a     *)
(* push, upload or edit,                                                   *)
(***************************************************************************)
Begins(r, q, data) ==
  /\ Turn(r, q) /\ UNCHANGED <<db, faults>>
  /\ q.pc = "commit" /\ txn = None
  /\ data \in Database /\ txn' = [by |-> r, db |-> data]

Inserts(r, q) ==
  /\ Begins(r, q, [db EXCEPT !.rows[req[r].slot] = [id |-> NextId(db.rows), size |-> 0]])
  /\ req[r].pc = "insert" /\ db.rows[req[r].slot] = None
  /\ UNCHANGED dir

Removes(r, q) ==
  /\ Begins(r, q, [rows  |-> [s \in Slot |-> IF s \in RowsWithId(db.rows, req[r].rid)
                                           THEN None ELSE db.rows[s]],
                   usage |-> AddUsage(db.usage, -req[r].size),
                   revs  |-> {v \in db.revs : v.repo # req[r].rid}])
  /\ req[r].pc = "remove"
  /\ dir' = [dir EXCEPT ![NameOf(r)] = None]

Books(r, q) ==
  /\ Begins(r, q, IF q.op = "edit" THEN [db EXCEPT !.revs = @ \cup {Booked(r)}]
                                   ELSE WithSize(r))
  /\ req[r].pc = "record"
  /\ UNCHANGED dir

(***************************************************************************)
(* ... and commits or rolls back.                                          *)
(***************************************************************************)
Closes(r, q) ==
  /\ Turn(r, q) /\ req[r].pc = "commit" /\ q.pc = "done"
  /\ txn' = None /\ UNCHANGED dir
  /\ \/ db' = txn.db /\ UNCHANGED faults
     \/ db' = db /\ faults' = faults + 1 /\ faults < MaxFaults

(***************************************************************************)
(* Steps of the reconcile job.                                             *)
(***************************************************************************)
Stands ==
  /\ UNCHANGED <<dir, lock, req, faults>> /\ job' \in JobState /\ "reconcile" \in Ops

Audits == Stands /\ UNCHANGED <<db, txn>> /\ job.pc # "commit" /\ job'.pc # "commit"

Corrects ==
  /\ Stands /\ UNCHANGED db /\ txn = None
  /\ txn' \in Txn /\ txn'.by = Job
  /\ txn'.db.rows = db.rows /\ txn'.db.revs = db.revs
  /\ job'.pc = "commit"

Settles ==
  /\ Stands /\ job.pc = "commit" /\ job'.pc = "idle"
  /\ db' = txn.db /\ txn' = None

Effect(r, q) ==
  \/ Local(r, q) \/ Makes(r, q) \/ Undoes(r, q) \/ Grows(r, q)
  \/ Inserts(r, q) \/ Removes(r, q) \/ Books(r, q) \/ Closes(r, q)

Happens ==
  \/ \E r \in Req, q \in Request : Effect(r, q)
  \/ Audits \/ Corrects \/ Settles \/ Crash

(***************************************************************************)
(* An LFS object that arrives leaves all else as it is.                    *)
(***************************************************************************)
Still == UNCHANGED <<db, txn, dir, lock, req, job, faults>>
-----------------------------------------------------------------------------
(***************************************************************************)
(* Sums and maxima.  A set of naturals has a least element: the lemmas     *)
(* take a smallest set for which they fail.                                *)
(***************************************************************************)
LEMMA LeastCounterexample ==
  ASSUME NEW B \in SUBSET Nat, B # {}
  PROVE  \E m \in B : \A n \in B : m <= n
<1> DEFINE less == {pair \in Nat \X Nat : pair[1] < pair[2]}
<1>1. IsWellFoundedOn(less, Nat)
  BY NatLessThanWellFounded DEF OpToRel
<1>2. \A m, n \in Nat : <<n, m>> \notin less => m <= n
  OBVIOUS
<1> HIDE DEF less
<1>3. PICK m \in B : \A n \in B : <<n, m>> \notin less
  BY <1>1, WFMin
<1> QED
  BY <1>2, <1>3

LEMMA FiniteHasMax ==
  ASSUME NEW S \in SUBSET Nat, IsFiniteSet(S), S # {}
  PROVE  Max(S) \in S /\ \A x \in S : x <= Max(S)
<1> DEFINE Bad == {n \in Nat : \E T \in SUBSET Nat :
                      /\ IsFiniteSet(T) /\ T # {} /\ Cardinality(T) = n
                      /\ \A x \in T : \E y \in T : ~(x >= y)}
<1>1. Bad = {}
  <2> SUFFICES ASSUME Bad # {} PROVE FALSE
    OBVIOUS
  <2>1. PICK n \in Bad : \A k \in Bad : n <= k
    BY LeastCounterexample
  <2>2. PICK T \in SUBSET Nat : /\ IsFiniteSet(T) /\ T # {} /\ Cardinality(T) = n
                                /\ \A x \in T : \E y \in T : ~(x >= y)
    BY <2>1
  <2>3. PICK x \in T : TRUE
    BY <2>2
  <2>4. IsFiniteSet(T \ {x}) /\ Cardinality(T \ {x}) = n - 1
    BY <2>2, FS_RemoveElement
  <2>5. T \ {x} # {}
    BY <2>2
  <2>6. n - 1 \in Nat
    BY <2>4, FS_CardinalityType
  <2>7. n - 1 \notin Bad
    <3>1. n \in Nat
      OBVIOUS
    <3> HIDE DEF Bad
    <3> QED
      BY <2>1, <2>6, <3>1
  <2>8. PICK m \in T \ {x} : \A y \in T \ {x} : m >= y
    BY <2>4, <2>5, <2>6, <2>7
  <2>9. CASE m >= x
    BY <2>2, <2>8, <2>9
  <2>10. CASE ~(m >= x)
    BY <2>2, <2>8, <2>10
  <2> QED
    BY <2>9, <2>10
<1>2. Cardinality(S) \in Nat
  BY FS_CardinalityType
<1>3. \E x \in S : \A y \in S : x >= y
  BY <1>1, <1>2
<1> QED
  BY <1>3 DEF Max

(***************************************************************************)
(* The function that MapThenFoldSet, and so SumFunction, is defined by.    *)
(***************************************************************************)
Adds(f, S, g) == \A T \in SUBSET S :
  g[T] = IF T = {} THEN 0
         ELSE LET x == CHOOSE x \in T : TRUE IN f[x] + g[T \ {x}]

LEMMA SumIsDefined ==
  ASSUME NEW S, IsFiniteSet(S), NEW f \in [S -> Nat]
  PROVE  \E g \in [SUBSET S -> Nat] : Adds(f, S, g)
<1> DEFINE Small(n) == {T \in SUBSET S : Cardinality(T) <= n}
           Next1(g, T) == IF T = {} THEN 0
             ELSE LET x == CHOOSE x \in T : TRUE IN f[x] + g[T \ {x}]
           Good(n) == \E g \in [SUBSET S -> Nat] :
                        \A T \in Small(n) : g[T] = Next1(g, T)
           Bad == {n \in Nat : ~Good(n)}
<1>1. Bad = {}
  <2> SUFFICES ASSUME Bad # {} PROVE FALSE
    OBVIOUS
  <2>1. PICK n \in Bad : \A k \in Bad : n <= k
    <3> HIDE DEF Bad
    <3>1. Bad \in SUBSET Nat
      BY DEF Bad
    <3> QED
      BY <3>1, LeastCounterexample
  <2>2. PICK g \in [SUBSET S -> Nat] : \A T \in SUBSET S :
           Cardinality(T) < n => g[T] = Next1(g, T)
    <3>1. CASE n = 0
      <4>1. \A T \in SUBSET S : Cardinality(T) \in Nat
        BY FS_Subset, FS_CardinalityType
      <4>2. \A T \in SUBSET S : ~(Cardinality(T) < n)
        BY <3>1, <4>1
      <4>3. \E g : g \in [SUBSET S -> Nat]
        <5>1. [T \in SUBSET S |-> 0] \in [SUBSET S -> Nat]
          OBVIOUS
        <5> QED
          BY <5>1
      <4> HIDE DEF Next1
      <4> QED
        BY <4>2, <4>3
    <3>2. CASE n # 0
      <4>1. n - 1 \in Nat /\ n - 1 \notin Bad
        <5> HIDE DEF Good
        <5> QED
          BY <2>1, <3>2
      <4>2. Good(n - 1)
        <5> HIDE DEF Good
        <5> QED
          BY <4>1
      <4>3. \A T \in SUBSET S : Cardinality(T) \in Nat
        BY FS_Subset, FS_CardinalityType
      <4> HIDE DEF Next1
      <4>4. PICK g \in [SUBSET S -> Nat] :
               \A T \in Small(n - 1) : g[T] = Next1(g, T)
        BY <4>2
      <4>5. \A T \in SUBSET S : Cardinality(T) < n => T \in Small(n - 1)
        BY <4>1, <4>3
      <4> HIDE DEF Small
      <4> QED
        BY <4>4, <4>5
    <3> QED
      BY <3>1, <3>2
  <2> DEFINE h == [T \in SUBSET S |-> Next1(g, T)]
  <2>3. ASSUME NEW T \in SUBSET S PROVE Next1(g, T) \in Nat
    <3>1. CASE T = {}
      BY <3>1
    <3>2. CASE T # {}
      BY <3>2
    <3> QED
      BY <3>1, <3>2
  <2>4. h \in [SUBSET S -> Nat]
    <3> HIDE DEF Next1
    <3> QED
      BY <2>3
  <2>5. ASSUME NEW T \in Small(n) PROVE h[T] = Next1(h, T)
    <3>1. CASE T = {}
      BY <3>1
    <3>2. CASE T # {}
      <4> DEFINE x == CHOOSE x \in T : TRUE
      <4>1. x \in T
        BY <3>2
      <4> HIDE DEF x
      <4>2. Cardinality(T \ {x}) < n
        <5>1. IsFiniteSet(T) /\ Cardinality(T) \in Nat /\ Cardinality(T) <= n
          BY FS_Subset, FS_CardinalityType
        <5>2. Cardinality(T \ {x}) = Cardinality(T) - 1
          BY <4>1, <5>1, FS_RemoveElement
        <5> QED
          BY <5>1, <5>2, <2>1
      <4>3. T \ {x} \in SUBSET S
        OBVIOUS
      <4>4. g[T \ {x}] = Next1(g, T \ {x})
        BY <2>2, <4>2, <4>3
      <4>5. h[T \ {x}] = g[T \ {x}]
        <5> HIDE DEF Next1
        <5> QED
          BY <4>3, <4>4
      <4>6. h[T] = f[x] + g[T \ {x}]
        BY <3>2 DEF x
      <4>7. Next1(h, T) = f[x] + h[T \ {x}]
        <5> HIDE DEF h
        <5> QED
          BY <3>2 DEF x
      <4> HIDE DEF h, Next1
      <4> QED
        BY <4>5, <4>6, <4>7
    <3> QED
      BY <3>1, <3>2
  <2>6. Good(n)
    <3> HIDE DEF h, Next1
    <3> QED
      BY <2>4, <2>5
  <2> QED
    <3> HIDE DEF Good
    <3> QED
      BY <2>1, <2>6
<1>2. Cardinality(S) \in Nat
  BY FS_CardinalityType
<1>3. Good(Cardinality(S))
  <2> HIDE DEF Good
  <2> QED
    BY <1>1, <1>2
<1>4. \A T \in SUBSET S : T \in Small(Cardinality(S))
  BY FS_Subset
<1> HIDE DEF Small
<1> QED
  BY <1>3, <1>4 DEF Adds

LEMMA SumIsUnique ==
  ASSUME NEW S, IsFiniteSet(S), NEW f \in [S -> Nat],
         NEW g \in [SUBSET S -> Nat], NEW h, Adds(f, S, g), Adds(f, S, h)
  PROVE  \A T \in SUBSET S : g[T] = h[T]
<1> DEFINE Bad == {n \in Nat : \E T \in SUBSET S : Cardinality(T) = n /\ g[T] # h[T]}
<1>1. Bad = {}
  <2> SUFFICES ASSUME Bad # {} PROVE FALSE
    OBVIOUS
  <2>1. PICK n \in Bad : \A k \in Bad : n <= k
    BY LeastCounterexample
  <2>2. PICK T \in SUBSET S : Cardinality(T) = n /\ g[T] # h[T]
    BY <2>1
  <2>3. T # {}
    BY <2>2 DEF Adds
  <2> DEFINE x == CHOOSE x \in T : TRUE
  <2>4. x \in T
    BY <2>3
  <2>5. g[T] = f[x] + g[T \ {x}] /\ h[T] = f[x] + h[T \ {x}]
    BY <2>3 DEF Adds
  <2> HIDE DEF x
  <2>6. /\ Cardinality(T \ {x}) \in Nat /\ Cardinality(T \ {x}) < n
        /\ T \ {x} \in SUBSET S
    <3>1. T \in SUBSET S /\ IsFiniteSet(T)
      BY <2>2, FS_Subset
    <3>2. IsFiniteSet(T \ {x}) /\ Cardinality(T \ {x}) = Cardinality(T) - 1
      BY <2>4, <3>1, FS_RemoveElement
    <3>3. Cardinality(T) \in Nat /\ Cardinality(T \ {x}) \in Nat
      BY <3>1, <3>2, FS_CardinalityType
    <3> QED
      BY <2>2, <3>1, <3>2, <3>3
  <2>7. n \in Nat
    BY <2>1
  <2>8. Cardinality(T \ {x}) \notin Bad
    <3> HIDE DEF Bad
    <3> QED
      BY <2>1, <2>6, <2>7
  <2> QED
    BY <2>2, <2>5, <2>6, <2>8
<1>2. \A T \in SUBSET S : Cardinality(T) \in Nat
  BY FS_Subset, FS_CardinalityType
<1> QED
  BY <1>1, <1>2

LEMMA SumUnfolds ==
  ASSUME NEW S, IsFiniteSet(S), NEW f \in [S -> Nat]
  PROVE  \E g \in [SUBSET S -> Nat] : Adds(f, S, g) /\ SumFunction(f) = g[S]
<1> DEFINE Round(g) == [T \in SUBSET S |-> IF T = {} THEN 0
                  ELSE LET x == CHOOSE x \in T : TRUE IN f[x] + g[T \ {x}]]
           it == CHOOSE g : g = Round(g)
<1>1. PICK g \in [SUBSET S -> Nat] : Adds(f, S, g)
  BY SumIsDefined
<1>2. g = Round(g)
  BY <1>1 DEF Adds
<1>3. it = Round(it)
  <2> HIDE DEF Round
  <2> QED
    BY <1>2
<1>4. SumFunction(f) = it[S]
  BY DEF SumFunction, SumFunctionOnSet, FoldFunctionOnSet, MapThenFoldSet
<1>5. Adds(f, S, it)
  <2> HIDE DEF it
  <2> QED
    BY <1>3 DEF Adds
<1>6. it = g
  <2>1. \A T \in SUBSET S : it[T] = g[T]
    <3> HIDE DEF it
    <3> QED
      BY <1>1, <1>5, SumIsUnique
  <2>2. it = [T \in SUBSET S |-> it[T]]
    <3> HIDE DEF it
    <3> QED
      BY <1>3
  <2> HIDE DEF it
  <2> QED
    BY <1>1, <2>1, <2>2
<1> HIDE DEF it
<1> QED
  BY <1>1, <1>4, <1>6

(***************************************************************************)
(* One summand changes: the sum changes by as much.                        *)
(***************************************************************************)
LEMMA SumChanges ==
  ASSUME NEW S, IsFiniteSet(S), NEW f \in [S -> Nat], NEW s \in S, NEW v \in Nat
  PROVE  SumFunction([f EXCEPT ![s] = v]) = SumFunction(f) - f[s] + v
<1> DEFINE f2 == [f EXCEPT ![s] = v]
<1>1. f2 \in [S -> Nat] /\ f2[s] = v /\ \A x \in S \ {s} : f2[x] = f[x]
  OBVIOUS
<1> HIDE DEF f2
<1>2. PICK g \in [SUBSET S -> Nat] : Adds(f, S, g) /\ SumFunction(f) = g[S]
  BY SumUnfolds
<1>3. PICK g2 \in [SUBSET S -> Nat] : Adds(f2, S, g2) /\ SumFunction(f2) = g2[S]
  BY <1>1, SumUnfolds
<1> DEFINE Off(T) == g2[T] # IF s \in T THEN g[T] - f[s] + v ELSE g[T]
           Bad == {n \in Nat : \E T \in SUBSET S : Cardinality(T) = n /\ Off(T)}
<1>4. Bad = {}
  <2> SUFFICES ASSUME Bad # {} PROVE FALSE
    OBVIOUS
  <2>1. PICK n \in Bad : \A k \in Bad : n <= k
    BY LeastCounterexample
  <2>2. PICK T \in SUBSET S : Cardinality(T) = n /\ Off(T)
    BY <2>1
  <2>3. CASE T = {}
    BY <1>2, <1>3, <2>2, <2>3 DEF Adds
  <2>4. CASE T # {}
    <3> DEFINE x == CHOOSE x \in T : TRUE
    <3>1. x \in T
      BY <2>4
    <3>2. g[T] = f[x] + g[T \ {x}] /\ g2[T] = f2[x] + g2[T \ {x}]
      BY <1>2, <1>3, <2>4 DEF Adds
    <3> HIDE DEF x
    <3>3. /\ Cardinality(T \ {x}) \in Nat /\ Cardinality(T \ {x}) < n
          /\ T \ {x} \in SUBSET S
      BY <2>2, <3>1, FS_Subset, FS_CardinalityType, FS_RemoveElement
    <3>4. ~Off(T \ {x})
      <4>1. Cardinality(T \ {x}) \notin Bad
        <5>1. n \in Nat
          BY <2>1
        <5> HIDE DEF Bad
        <5> QED
          BY <2>1, <3>3, <5>1
      <4> QED
        BY <3>3, <4>1
    <3>5. f[x] \in Nat /\ f2[x] \in Nat /\ g[T \ {x}] \in Nat /\ g2[T \ {x}] \in Nat
          /\ f[s] \in Nat
      BY <1>1, <3>1, <3>3
    <3>6. CASE x = s
      <4>1. s \in T /\ s \notin T \ {x}
        BY <3>1, <3>6
      <4>2. g2[T \ {x}] = g[T \ {x}]
        BY <3>4, <4>1
      <4> QED
        BY <1>1, <2>2, <3>2, <3>5, <3>6, <4>1, <4>2
    <3>7. CASE x # s
      <4>1. s \in T <=> s \in T \ {x}
        BY <3>7
      <4>2. f2[x] = f[x]
        BY <1>1, <3>1, <3>7
      <4>3. g2[T \ {x}] = IF s \in T THEN g[T \ {x}] - f[s] + v ELSE g[T \ {x}]
        BY <3>4, <4>1
      <4>4. CASE s \in T
        BY <2>2, <3>2, <3>5, <4>2, <4>3, <4>4
      <4>5. CASE s \notin T
        BY <2>2, <3>2, <3>5, <4>2, <4>3, <4>5
      <4> QED
        BY <4>4, <4>5
    <3> QED
      BY <3>6, <3>7
  <2> QED
    BY <2>3, <2>4
<1>5. Cardinality(S) \in Nat
  BY FS_CardinalityType
<1>6. ~Off(S)
  BY <1>4, <1>5
<1> QED
  BY <1>2, <1>3, <1>6 DEF f2

LEMMA SumIsNat ==
  ASSUME NEW S, IsFiniteSet(S), NEW f \in [S -> Nat]
  PROVE  SumFunction(f) \in Nat
<1>1. PICK g \in [SUBSET S -> Nat] : Adds(f, S, g) /\ SumFunction(f) = g[S]
  BY SumUnfolds
<1> QED
  BY <1>1

LEMMA SumOfNothing ==
  ASSUME NEW S, IsFiniteSet(S), NEW f \in [S -> Nat], \A s \in S : f[s] = 0
  PROVE  SumFunction(f) = 0
<1>1. PICK g \in [SUBSET S -> Nat] : Adds(f, S, g) /\ SumFunction(f) = g[S]
  BY SumUnfolds
<1> DEFINE zero == [T \in SUBSET S |-> 0]
<1>2. Adds(f, S, zero)
  <2>1. ASSUME NEW T \in SUBSET S, T # {}
        PROVE  (CHOOSE x \in T : TRUE) \in S
    BY <2>1
  <2> QED
    BY <2>1 DEF Adds
<1>3. zero[S] = 0
  OBVIOUS
<1> HIDE DEF zero
<1> QED
  BY <1>1, <1>2, <1>3, SumIsUnique

LEMMA SlotIsFinite == IsFiniteSet(Slot)
BY StoreAssumption, FS_Product DEF Slot

(***************************************************************************)
(* An id that no row has; SQLite may have used it before.                  *)
(***************************************************************************)
LEMMA NextIdIsFresh ==
  ASSUME NEW rows \in [Slot -> Row \cup {None}]
  PROVE  /\ NextId(rows) \in Nat
         /\ \A s \in Slot : rows[s] # None => rows[s].id < NextId(rows)
<1> DEFINE T == {q \in Slot : rows[q] # None}
           f == [s \in T |-> rows[s].id]
           ids == {rows[s].id : s \in T}
<1>1. IsFiniteSet(T)
  BY SlotIsFinite, FS_Subset
<1>2. f \in Surjection(T, ids)
  BY DEF Surjection
<1>3. IsFiniteSet(ids)
  <2> HIDE DEF T, f, ids
  <2> QED
    BY <1>1, <1>2, FS_Surjection
<1>4. \A s \in T : rows[s].id \in Nat /\ rows[s].id \in ids
  BY DEF Row
<1>5. {0} \cup ids \in SUBSET Nat /\ {0} \cup ids # {}
  BY <1>4
<1>6. IsFiniteSet({0} \cup ids)
  <2> HIDE DEF ids
  <2>1. {0} \cup ids = ids \cup {0}
    OBVIOUS
  <2> QED
    BY <1>3, <2>1, FS_AddElement
<1>7. Max({0} \cup ids) \in Nat /\ \A x \in {0} \cup ids : x <= Max({0} \cup ids)
  <2> HIDE DEF ids
  <2> QED
    BY <1>5, <1>6, FiniteHasMax
<1>8. NextId(rows) = 1 + Max({0} \cup ids)
  BY DEF NextId
<1> HIDE DEF ids
<1>9. ASSUME NEW s \in T PROVE rows[s].id < NextId(rows)
  <2>1. rows[s].id \in Nat /\ rows[s].id <= Max({0} \cup ids)
    BY <1>4, <1>7
  <2> QED
    BY <1>7, <1>8, <2>1
<1> QED
  BY <1>7, <1>8, <1>9
-----------------------------------------------------------------------------
(***************************************************************************)
(* Every action is one of the effects.                                     *)
(***************************************************************************)
LEMMA LogTyped ==
  ASSUME Base, NEW n \in Name
  PROVE  LogOf(n) \in Log /\ (dir[n] # None => dir[n] \in Dir /\ LogOf(n) = dir[n].log)
BY DEF Base, TypeOK, LogOf, Dir, Log

LEMMA NameTyped ==
  ASSUME Base, NEW r \in Req, ~Rests(req[r])
  PROVE  NameOf(r) \in Name /\ req[r].slot \in Slot /\ req[r].op \in Op /\ req[r] \in Request
BY DEF Base, TypeOK, NameOf, Knows, Slot

LEMMA AwayTyped ==
  ASSUME NEW pc \in Pc, NEW op \in Op \cup {None}
  PROVE  [Away EXCEPT !.pc = pc, !.op = op] \in Request
<1>1. <<>> \in Log /\ None \in Slot \cup {None} /\ 0 \in Nat
  BY DEF Log
<1> QED
  BY <1>1 DEF Away, Request

(***************************************************************************)
(* A step that ends the request is a turn,                                 *)
(***************************************************************************)
LEMMA Ends ==
  ASSUME Base, NEW r \in Req, ~Rests(req[r]), End(r), Release(r) \/ UNCHANGED lock,
         job' = job
  PROVE  \E q \in Request : Turn(r, q) /\ q.pc = "done"
<1>1. req[r] \in Request /\ req \in [Req -> Request] /\ lock \in [Name -> Req \cup {None}]
  BY DEF Base, TypeOK
<1>2. PICK q \in Request : q = [Away EXCEPT !.pc = "done", !.op = req[r].op]
  <2>1. "done" \in Pc /\ req[r].op \in Op \cup {None}
    BY <1>1 DEF Request, Pc
  <2> QED
    BY <2>1, AwayTyped
<1>3. q.pc = "done" /\ q.op = req[r].op
  BY <1>2 DEF Away
<1>4. Knows(q) /\ ~Holding(q) /\ Rests(q)
  BY <1>3 DEF Knows, Holding, Rests
<1>5. req' = [req EXCEPT ![r] = q]
  BY <1>2 DEF End, Ended
<1>6. /\ lock' \in [Name -> Req \cup {None}]
      /\ \A n \in Name : lock'[n] = lock[n] \/ lock[n] \in {r, None}
  BY <1>1 DEF Release
<1>7. req[r].pc # "done" /\ q.pc # "idle"
  BY <1>3 DEF Rests
<1>8. Turn(r, q)
  BY <1>3, <1>4, <1>5, <1>6, <1>7 DEF Turn
<1> QED
  BY <1>3, <1>8

(***************************************************************************)
(* ... and one that goes on with it is, if it takes the lock, leaves it,   *)
(* or stays where it was.                                                  *)
(***************************************************************************)
LEMMA GoesOn ==
  ASSUME Base, NEW r \in Req, ~Rests(req[r]), NEW q \in Request,
         req' = [req EXCEPT ![r] = q], Knows(q), q.pc # "idle",
         q.op = req[r].op, q.slot = req[r].slot, q.rid = req[r].rid,
         \/ Acquire(r)
         \/ (Release(r) \/ UNCHANGED lock) /\ ~Holding(q)
         \/ UNCHANGED lock /\ Holding(req[r]),
         job' = job
  PROVE  Turn(r, q)
<1>1. lock \in [Name -> Req \cup {None}] /\ NameOf(r) \in Name
  BY NameTyped DEF Base, TypeOK
<1>2. q.slot[1] = NameOf(r) /\ (Holding(req[r]) => lock[NameOf(r)] = r)
  BY DEF NameOf, Base, Locked
<1>3. /\ lock' \in [Name -> Req \cup {None}]
      /\ \A n \in Name : lock'[n] = lock[n] \/ lock[n] \in {r, None}
      /\ Holding(q) => lock'[q.slot[1]] = r
  BY <1>1, <1>2 DEF Release, Acquire
<1> QED
  BY <1>3 DEF Turn, Rests

(***************************************************************************)
(* The actions, one by one.                                                *)
(***************************************************************************)
LEMMA CreateChecks ==
  ASSUME Base, NEW r \in Req, NEW s \in Slot, CreateCheck(r, s)
  PROVE  Happens
<1>1. req[r] \in Request /\ req \in [Req -> Request] /\ lock \in [Name -> Req \cup {None}]
  BY DEF Base, TypeOK
<1>2. PICK q \in Request : q = [req[r] EXCEPT !.pc = "init", !.op = "create", !.slot = s]
  BY <1>1 DEF Request, Pc, Op
<1>3. q.pc = "init" /\ q.op = "create" /\ q.slot = s
  BY <1>1, <1>2 DEF Request
<1>4. Knows(q) /\ ~Holding(q)
  BY <1>3 DEF Knows, Holding, Rests, Op
<1>5. req' = [req EXCEPT ![r] = q]
  BY <1>1, <1>2 DEF CreateCheck
<1>6. Turn(r, q)
  BY <1>1, <1>3, <1>4, <1>5 DEF Turn, CreateCheck
<1>7. Local(r, q)
  BY <1>3, <1>6 DEF Local, CreateCheck
<1> QED
  BY <1>7 DEF Happens, Effect

LEMMA CreateInits ==
  ASSUME Base, NEW r \in Req, CreateInit(r)
  PROVE  Happens
<1>1. req[r] \in Request /\ req \in [Req -> Request] /\ req[r].op = "create"
      /\ ~Rests(req[r]) /\ req[r].slot \in Slot
  BY DEF Base, TypeOK, CreateInit, Knows, Rests
<1>2. CASE dir[NameOf(r)] = None
  <2>1. PICK q \in Request : q = [req[r] EXCEPT !.pc = "insert"]
    BY <1>1 DEF Request, Pc
  <2>2. q.pc = "insert" /\ q.op = "create" /\ q.slot = req[r].slot /\ q.rid = req[r].rid
    BY <1>1, <2>1 DEF Request
  <2>3. Knows(q)
    BY <1>1, <2>2 DEF Knows, Rests, Op
  <2>4. req' = [req EXCEPT ![r] = q] /\ Acquire(r)
    BY <1>1, <1>2, <2>1 DEF CreateInit, Step
  <2>5. Turn(r, q)
    BY <1>1, <2>2, <2>3, <2>4, GoesOn DEF CreateInit
  <2>6. Makes(r, q)
    BY <1>2, <2>2, <2>5 DEF Makes, CreateInit
  <2> QED
    BY <2>6 DEF Happens, Effect
<1>3. CASE dir[NameOf(r)] # None
  <2>1. PICK q \in Request : Turn(r, q) /\ q.pc = "done"
    BY <1>1, <1>3, Ends DEF CreateInit
  <2>2. Local(r, q)
    BY <1>3, <2>1 DEF Local, CreateInit
  <2> QED
    BY <2>2 DEF Happens, Effect
<1> QED
  BY <1>2, <1>3

LEMMA EndsLocally ==
  ASSUME Base, NEW r \in Req, ~Rests(req[r]), req[r].pc \notin {"insert", "commit"},
         End(r), Release(r) \/ UNCHANGED lock, UNCHANGED <<db, txn, dir, job, faults>>
  PROVE  Happens
<1>1. PICK q \in Request : Turn(r, q) /\ q.pc = "done"
  BY Ends
<1>2. Local(r, q)
  BY <1>1 DEF Local, Rests
<1> QED
  BY <1>2 DEF Happens, Effect

LEMMA GoesOnLocally ==
  ASSUME Base, NEW r \in Req, ~Rests(req[r]), NEW q \in Request,
         req' = [req EXCEPT ![r] = q], Knows(q),
         req[r].pc \notin {"insert", "commit"},
         q.pc \notin {"idle", "insert", "commit", "read", "walk", "record"},
         q.op = req[r].op, q.slot = req[r].slot, q.rid = req[r].rid,
         \/ Acquire(r)
         \/ (Release(r) \/ UNCHANGED lock) /\ ~Holding(q),
         q.pc = "land" => dir[NameOf(r)] # None,
         UNCHANGED <<db, txn, dir, job, faults>>
  PROVE  Happens
<1>1. Turn(r, q)
  BY GoesOn
<1>2. Local(r, q)
  BY <1>1 DEF Local, NameOf, Rests
<1> QED
  BY <1>2 DEF Happens, Effect

LEMMA LoadsLocally ==
  ASSUME Base, NEW r \in Req, NEW s \in Slot, NEW q \in Request, Found(r, s),
         req' = [req EXCEPT ![r] = q], q.slot = s, q.rid = db.rows[s].id,
         \/ q.pc = "delete" /\ q.op = "delete"
         \/ q.pc = "quota" /\ q.op \in {"push", "upload"}
         \/ q.pc = "clone" /\ q.op = "edit",
         UNCHANGED <<db, txn, dir, lock, job, faults>>
  PROVE  Happens
<1>1. lock \in [Name -> Req \cup {None}]
  BY DEF Base, TypeOK
<1>2. Knows(q) /\ ~Holding(q)
  BY DEF Knows, Holding, Rests, Op
<1>3. Turn(r, q)
  BY <1>1, <1>2 DEF Turn, Found
<1>4. Roots(q)
  BY DEF Found, RowsNamed, Roots
<1>5. Local(r, q)
  BY <1>3, <1>4 DEF Local, Found
<1> QED
  BY <1>5 DEF Happens, Effect

LEMMA LoadTyped ==
  ASSUME Base, NEW r \in Req, NEW s \in Slot, Found(r, s)
  PROVE  db.rows[s] \in Row /\ db.rows[s].id \in Nat /\ db.rows[s].size \in Nat
         /\ LogOf(s[1]) \in Log /\ <<>> \in Log
<1>1. db.rows[s] \in Row
  BY DEF Base, TypeOK, Database, Found, RowsNamed
<1>2. s[1] \in Name
  BY DEF Slot
<1> QED
  BY <1>1, <1>2, LogTyped DEF Row, Log

LEMMA LoadedTyped ==
  ASSUME Base, NEW r \in Req, NEW s \in Slot, Found(r, s), NEW pc \in Pc, NEW op \in Op
  PROVE  /\ Loaded(op, s, pc) \in Request
         /\ Loaded(op, s, pc).pc = pc /\ Loaded(op, s, pc).op = op
         /\ Loaded(op, s, pc).slot = s /\ Loaded(op, s, pc).rid = db.rows[s].id
<1>1. <<>> \in Log /\ db.rows[s].id \in Nat
  BY LoadTyped
<1> QED
  BY <1>1 DEF Loaded, Away, Request

LEMMA LoadsRow ==
  ASSUME Base, NEW r \in Req, NEW s \in Slot, Load(r, s)
  PROVE  Happens
<1>1. Found(r, s)
  BY DEF Load, LoadDelete, LoadPush, LoadUpload, LoadEdit
<1>2. /\ db.rows[s].id \in Nat /\ db.rows[s].size \in Nat
      /\ LogOf(s[1]) \in Log
  BY <1>1, LoadTyped
<1>3. UNCHANGED <<db, txn, dir, lock, job, faults>>
  BY DEF Load, LoadDelete, LoadPush, LoadUpload, LoadEdit
<1>4. /\ "delete" \in Pc /\ "quota" \in Pc /\ "clone" \in Pc
      /\ "delete" \in Op /\ "push" \in Op /\ "upload" \in Op /\ "edit" \in Op
  BY DEF Pc, Op
<1>5. CASE LoadDelete(r, s)
  <2>1. PICK p \in Request : p = Loaded("delete", s, "delete")
    BY <1>1, <1>4, LoadedTyped
  <2>2. p.slot = s /\ p.rid = db.rows[s].id /\ p.pc = "delete" /\ p.op = "delete"
    BY <1>1, <1>4, <2>1, LoadedTyped
  <2>3. PICK q \in Request : q = [p EXCEPT !.size = db.rows[s].size]
    BY <1>2 DEF Request
  <2>4. q.slot = s /\ q.rid = db.rows[s].id /\ q.pc = "delete" /\ q.op = "delete"
    BY <2>2, <2>3 DEF Request
  <2>5. req' = [req EXCEPT ![r] = q]
    BY <1>5, <2>1, <2>3 DEF LoadDelete
  <2> QED
    BY <1>1, <1>3, <2>4, <2>5, LoadsLocally
<1>6. CASE LoadPush(r, s)
  <2>1. PICK p \in Request : p = Loaded("push", s, "quota")
    BY <1>1, <1>4, LoadedTyped
  <2>2. p.slot = s /\ p.rid = db.rows[s].id /\ p.pc = "quota" /\ p.op = "push"
    BY <1>1, <1>4, <2>1, LoadedTyped
  <2>3. PICK q \in Request : q = [p EXCEPT !.base = LogOf(s[1])]
    BY <1>2 DEF Request
  <2>4. q.slot = s /\ q.rid = db.rows[s].id /\ q.pc = "quota" /\ q.op = "push"
    BY <2>2, <2>3 DEF Request
  <2>5. req' = [req EXCEPT ![r] = q]
    BY <1>6, <2>1, <2>3 DEF LoadPush
  <2> QED
    BY <1>1, <1>3, <2>4, <2>5, LoadsLocally
<1>7. CASE LoadUpload(r, s)
  <2>1. PICK p \in Request : p = Loaded("upload", s, "quota")
    BY <1>1, <1>4, LoadedTyped
  <2>2. p.slot = s /\ p.rid = db.rows[s].id /\ p.pc = "quota" /\ p.op = "upload"
    BY <1>1, <1>4, <2>1, LoadedTyped
  <2>3. PICK q \in Request : q = [p EXCEPT !.size = db.rows[s].size]
    BY <1>2 DEF Request
  <2>4. q.slot = s /\ q.rid = db.rows[s].id /\ q.pc = "quota" /\ q.op = "upload"
    BY <2>2, <2>3 DEF Request
  <2>5. req' = [req EXCEPT ![r] = q]
    BY <1>7, <2>1, <2>3 DEF LoadUpload
  <2> QED
    BY <1>1, <1>3, <2>4, <2>5, LoadsLocally
<1>8. CASE LoadEdit(r, s)
  <2>1. PICK p \in Request : p = Loaded("edit", s, "clone")
    BY <1>1, <1>4, LoadedTyped
  <2>2. p.slot = s /\ p.rid = db.rows[s].id /\ p.pc = "clone" /\ p.op = "edit"
    BY <1>1, <1>4, <2>1, LoadedTyped
  <2>3. req' = [req EXCEPT ![r] = p]
    BY <1>8, <2>1 DEF LoadEdit
  <2> QED
    BY <1>1, <1>3, <2>2, <2>3, LoadsLocally
<1> QED
  BY <1>5, <1>6, <1>7, <1>8 DEF Load

LEMMA Steps ==
  ASSUME Base, NEW r \in Req, ~Rests(req[r]), NEW pc \in Pc, Step(r, pc)
  PROVE  \E q \in Request :
           /\ req' = [req EXCEPT ![r] = q]
           /\ q.pc = pc /\ q.op = req[r].op /\ q.slot = req[r].slot /\ q.rid = req[r].rid
           /\ q.size = req[r].size /\ q.base = req[r].base /\ q.seen = req[r].seen
           /\ q.walked = req[r].walked
<1>1. req[r] \in Request /\ req \in [Req -> Request]
  BY DEF Base, TypeOK
<1>2. PICK q \in Request : q = [req[r] EXCEPT !.pc = pc]
  BY <1>1 DEF Request
<1>3. req' = [req EXCEPT ![r] = q]
  BY <1>1, <1>2 DEF Step
<1> QED
  BY <1>1, <1>2, <1>3 DEF Request

LEMMA Active ==
  ASSUME Base, NEW r \in Req, ~Rests(req[r])
  PROVE  Knows(req[r]) /\ req[r].slot \in Slot /\ req[r].op \in Op
BY DEF Base, Knows

LEMMA ChecksQuota ==
  ASSUME Base, NEW r \in Req, CheckPushAllowed(r)
  PROVE  Happens
<1>1. req[r].pc = "quota" /\ ~Rests(req[r]) /\ req[r].op \in {"push", "upload"}
  BY DEF CheckPushAllowed, Rests, Base, Knows
<1>2. UNCHANGED <<db, txn, dir, lock, job, faults>>
  BY DEF CheckPushAllowed
<1>3. CASE End(r)
  BY <1>1, <1>2, <1>3, EndsLocally
<1>4. CASE req[r].op = "push" /\ Step(r, "capture")
  <2>1. PICK q \in Request :
           /\ req' = [req EXCEPT ![r] = q]
           /\ q.pc = "capture" /\ q.op = req[r].op /\ q.slot = req[r].slot /\ q.rid = req[r].rid
    BY <1>1, <1>4, Steps DEF Pc
  <2>2. Knows(q) /\ ~Holding(q)
    BY <1>1, <1>4, <2>1, Active DEF Knows, Holding, Rests
  <2> QED
    BY <1>1, <1>2, <2>1, <2>2, GoesOnLocally
<1>5. CASE req[r].op = "upload" /\ Step(r, "clone")
  <2>1. PICK q \in Request :
           /\ req' = [req EXCEPT ![r] = q]
           /\ q.pc = "clone" /\ q.op = req[r].op /\ q.slot = req[r].slot /\ q.rid = req[r].rid
    BY <1>1, <1>5, Steps DEF Pc
  <2>2. Knows(q) /\ ~Holding(q)
    BY <1>1, <1>5, <2>1, Active DEF Knows, Holding, Rests
  <2> QED
    BY <1>1, <1>2, <2>1, <2>2, GoesOnLocally
<1> QED
  BY <1>1, <1>3, <1>4, <1>5 DEF CheckPushAllowed

LEMMA CreateInserts ==
  ASSUME Base, NEW r \in Req, CreateInsert(r)
  PROVE  Happens
<1>1. /\ req[r].pc = "insert" /\ ~Rests(req[r]) /\ req[r].op = "create"
      /\ req[r].slot \in Slot /\ Release(r) /\ txn = None /\ NameOf(r) \in Name
      /\ UNCHANGED <<db, job, faults>>
  BY Active, NameTyped DEF CreateInsert, Rests, Base, Knows
<1>2. CASE db.rows[req[r].slot] = None
  <2> DEFINE data == [db EXCEPT !.rows[req[r].slot] = [id |-> NextId(db.rows), size |-> 0]]
  <2>1. Begin(r, data) /\ Step(r, "commit") /\ UNCHANGED dir
    BY <1>2 DEF CreateInsert
  <2>2. PICK q \in Request :
           /\ req' = [req EXCEPT ![r] = q]
           /\ q.pc = "commit" /\ q.op = req[r].op /\ q.slot = req[r].slot /\ q.rid = req[r].rid
    BY <1>1, <2>1, Steps DEF Pc
  <2>3. Knows(q) /\ ~Holding(q)
    BY <1>1, <2>2, Active DEF Knows, Holding, Rests
  <2>4. Turn(r, q)
    BY <1>1, <2>2, <2>3, GoesOn
  <2>5. data \in Database
    <3>1. db \in Database
      BY DEF Base, TypeOK
    <3>2. db.rows \in [Slot -> Row \cup {None}]
      BY <3>1 DEF Database
    <3>3. [id |-> NextId(db.rows), size |-> 0] \in Row
      BY <3>2, NextIdIsFresh DEF Row
    <3> QED
      BY <3>1, <3>3 DEF Database
  <2> HIDE DEF data
  <2>6. Begins(r, q, data)
    BY <1>1, <2>1, <2>2, <2>4, <2>5 DEF Begins, Begin
  <2>7. Inserts(r, q)
    BY <1>1, <1>2, <2>1, <2>6 DEF Inserts, data
  <2> QED
    BY <2>7 DEF Happens, Effect
<1>3. CASE db.rows[req[r].slot] # None
  <2>1. End(r) /\ UNCHANGED txn /\ dir' = [dir EXCEPT ![NameOf(r)] = None]
    BY <1>3 DEF CreateInsert
  <2>2. PICK q \in Request : Turn(r, q) /\ q.pc = "done"
    BY <1>1, <2>1, Ends
  <2>3. Undoes(r, q)
    BY <1>1, <2>1, <2>2 DEF Undoes
  <2> QED
    BY <2>3 DEF Happens, Effect
<1> QED
  BY <1>2, <1>3

LEMMA CreateUndoes ==
  ASSUME Base, NEW r \in Req, CreateFails(r)
  PROVE  Happens
<1>1. /\ req[r].pc = "insert" /\ ~Rests(req[r])
      /\ End(r) /\ Release(r) /\ UNCHANGED <<db, txn, job, faults>>
      /\ dir' = [dir EXCEPT ![NameOf(r)] = None]
  BY DEF CreateFails, Rests
<1>2. PICK q \in Request : Turn(r, q) /\ q.pc = "done"
  BY <1>1, Ends
<1>3. Undoes(r, q)
  BY <1>1, <1>2 DEF Undoes
<1> QED
  BY <1>3 DEF Happens, Effect

LEMMA DeleteEnters ==
  ASSUME Base, NEW r \in Req, DeleteEnter(r)
  PROVE  Happens
<1>1. /\ req[r].pc = "delete" /\ ~Rests(req[r]) /\ req[r].op = "delete"
      /\ Acquire(r) /\ Step(r, "remove") /\ UNCHANGED <<db, txn, dir, job, faults>>
  BY DEF DeleteEnter, Rests, Base, Knows
<1>2. PICK q \in Request :
         /\ req' = [req EXCEPT ![r] = q]
         /\ q.pc = "remove" /\ q.op = req[r].op /\ q.slot = req[r].slot /\ q.rid = req[r].rid
  BY <1>1, Steps DEF Pc
<1>3. Knows(q)
  BY <1>1, <1>2, Active DEF Knows, Rests
<1> QED
  BY <1>1, <1>2, <1>3, GoesOnLocally

LEMMA DeleteRemoves ==
  ASSUME Base, NEW r \in Req, DeleteRemove(r)
  PROVE  Happens
<1> DEFINE data ==
     [rows  |-> [s \in Slot |-> IF s \in RowsWithId(db.rows, req[r].rid)
                                 THEN None ELSE db.rows[s]],
      usage |-> AddUsage(db.usage, -req[r].size),
      revs  |-> {v \in db.revs : v.repo # req[r].rid}]
<1>1. /\ req[r].pc = "remove" /\ ~Rests(req[r]) /\ req[r].op = "delete"
      /\ Begin(r, data) /\ Release(r) /\ Step(r, "commit")
      /\ dir' = [dir EXCEPT ![NameOf(r)] = None] /\ UNCHANGED <<db, job, faults>>
  BY DEF DeleteRemove, Rests, Base, Knows
<1>2. data \in Database
  <2>1. /\ db.rows \in [Slot -> Row \cup {None}] /\ db.usage \in Nat
        /\ db.revs \in SUBSET Rev /\ req[r].size \in Nat
    BY DEF Base, TypeOK, Database, Request
  <2>2. AddUsage(db.usage, -req[r].size) \in Nat
    BY <2>1 DEF AddUsage
  <2> QED
    BY <2>1, <2>2 DEF Database
<1> HIDE DEF data
<1>3. PICK q \in Request :
         /\ req' = [req EXCEPT ![r] = q]
         /\ q.pc = "commit" /\ q.op = req[r].op /\ q.slot = req[r].slot /\ q.rid = req[r].rid
  BY <1>1, Steps DEF Pc
<1>4. Knows(q) /\ ~Holding(q)
  BY <1>1, <1>3, Active DEF Knows, Holding, Rests
<1>5. Turn(r, q)
  BY <1>1, <1>3, <1>4, GoesOn
<1>6. Begins(r, q, data)
  BY <1>1, <1>2, <1>3, <1>5 DEF Begins, Begin
<1>7. Removes(r, q)
  BY <1>1, <1>6 DEF Removes, data
<1> QED
  BY <1>7 DEF Happens, Effect

LEMMA PushCaptures ==
  ASSUME Base, NEW r \in Req, PushCapture(r)
  PROVE  Happens
<1>1. req[r].pc = "capture" /\ ~Rests(req[r]) /\ req[r].op = "push"
      /\ UNCHANGED <<db, txn, dir, lock, job, faults>>
  BY DEF PushCapture, Rests, Base, Knows
<1>2. LogOf(NameOf(r)) \in Log /\ req[r] \in Request /\ req \in [Req -> Request]
  BY <1>1, NameTyped, LogTyped DEF Base, TypeOK
<1>3. PICK q \in Request : q = [req[r] EXCEPT !.seen = LogOf(NameOf(r)), !.pc = "receive"]
  BY <1>2 DEF Request, Pc
<1>4. q.pc = "receive" /\ q.op = req[r].op /\ q.slot = req[r].slot /\ q.rid = req[r].rid
  BY <1>2, <1>3 DEF Request
<1>5. req' = [req EXCEPT ![r] = q]
  BY <1>2, <1>3 DEF PushCapture
<1>6. Knows(q) /\ ~Holding(q)
  BY <1>1, <1>4, Active DEF Knows, Holding, Rests
<1> QED
  BY <1>1, <1>4, <1>5, <1>6, GoesOnLocally

(***************************************************************************)
(* What a push or a commit does to the directory.                          *)
(***************************************************************************)
LEMMA Grown ==
  ASSUME Base, NEW r \in Req, NEW d \in Dir, NEW q \in Request, Turn(r, q),
         UNCHANGED <<db, txn, faults>>, req[r].pc \in {"receive", "land"},
         q.pc \in {"book", "walk", "record"}, q.op = "push" => q.pc = "book",
         dir[NameOf(r)] # None, dir' = [dir EXCEPT ![NameOf(r)] = d],
         d.log = dir[NameOf(r)].log \/ d.log = Append(dir[NameOf(r)].log, r),
         q.pc \in {"walk", "record"} => q.seen = d.log
  PROVE  Happens
BY DEF Happens, Effect, Grows

LEMMA Appended ==
  ASSUME Base, NEW r \in Req, ~Rests(req[r]), dir[NameOf(r)] # None,
         AppendCommit(r, LogOf(NameOf(r)))
  PROVE  \E d \in Dir : /\ dir' = [dir EXCEPT ![NameOf(r)] = d]
                        /\ d.log = Append(dir[NameOf(r)].log, r)
<1>1. /\ dir[NameOf(r)] \in Dir /\ NameOf(r) \in Name
      /\ LogOf(NameOf(r)) = dir[NameOf(r)].log
  BY NameTyped, LogTyped
<1>2. dir[NameOf(r)].log \in Seq(Req) /\ dir[NameOf(r)].bytes \in Nat
  BY <1>1 DEF Dir, Log
<1>3. Append(dir[NameOf(r)].log, r) \in Log
  BY <1>2 DEF Log
<1> DEFINE d == [log |-> Append(dir[NameOf(r)].log, r),
                 bytes |-> dir[NameOf(r)].bytes + 1]
<1>4. dir[NameOf(r)].bytes + 1 \in Nat
  BY <1>2
<1>5. d \in Dir
  BY <1>3, <1>4 DEF Dir
<1>6. dir' = [dir EXCEPT ![NameOf(r)] = d]
  BY <1>1 DEF AppendCommit
<1>7. d.log = Append(dir[NameOf(r)].log, r)
  OBVIOUS
<1> HIDE DEF d
<1> QED
  BY <1>5, <1>6, <1>7

LEMMA PushReceives ==
  ASSUME Base, NEW r \in Req, PushReceive(r)
  PROVE  Happens
<1>1. /\ req[r].pc = "receive" /\ ~Rests(req[r]) /\ req[r].op = "push"
      /\ UNCHANGED <<db, txn, lock, job, faults>>
  BY DEF PushReceive, Rests, Base, Knows
<1>2. CASE End(r) /\ UNCHANGED dir
  BY <1>1, <1>2, EndsLocally
<1>3. CASE /\ dir[NameOf(r)] # None
           /\ IF LogOf(NameOf(r)) = req[r].base
                THEN AppendCommit(r, req[r].base)
                ELSE dir' = [dir EXCEPT ![NameOf(r)].bytes = @ + 1]
           /\ Step(r, "book")
  <2>1. PICK q \in Request :
           /\ req' = [req EXCEPT ![r] = q]
           /\ q.pc = "book" /\ q.op = req[r].op /\ q.slot = req[r].slot /\ q.rid = req[r].rid
    BY <1>1, <1>3, Steps DEF Pc
  <2>2. Knows(q) /\ ~Holding(q)
    BY <1>1, <2>1, Active DEF Knows, Holding, Rests
  <2>3. Turn(r, q)
    BY <1>1, <2>1, <2>2, GoesOn
  <2>4. PICK d \in Dir :
           /\ dir' = [dir EXCEPT ![NameOf(r)] = d]
           /\ d.log = dir[NameOf(r)].log \/ d.log = Append(dir[NameOf(r)].log, r)
    <3>1. CASE LogOf(NameOf(r)) = req[r].base
      BY <1>1, <1>3, <3>1, Appended
    <3>2. CASE LogOf(NameOf(r)) # req[r].base
      <4>1. dir[NameOf(r)] \in Dir /\ dir \in [Name -> Dir \cup {None}]
        BY <1>1, <1>3, NameTyped, LogTyped DEF Base, TypeOK
      <4> DEFINE d == [dir[NameOf(r)] EXCEPT !.bytes = @ + 1]
      <4>2. dir[NameOf(r)].bytes + 1 \in Nat
        BY <4>1 DEF Dir
      <4>3. d \in Dir /\ d.log = dir[NameOf(r)].log
        BY <4>1, <4>2 DEF Dir
      <4>4. dir' = [dir EXCEPT ![NameOf(r)] = d]
        BY <1>3, <3>2
      <4> HIDE DEF d
      <4> QED
        BY <4>3, <4>4
    <3> QED
      BY <3>1, <3>2
  <2> QED
    BY <1>1, <1>3, <2>1, <2>3, <2>4, Grown
<1> QED
  BY <1>2, <1>3 DEF PushReceive

LEMMA BookEnters ==
  ASSUME Base, NEW r \in Req, BookEnter(r)
  PROVE  Happens
<1>1. /\ req[r].pc = "book" /\ ~Rests(req[r]) /\ req[r].op = "push"
      /\ UNCHANGED <<db, txn, dir, job, faults>>
  BY DEF BookEnter, Rests, Base, Knows
<1>2. CASE LogOf(NameOf(r)) \in {<<>>, req[r].seen}
  BY <1>1, <1>2, EndsLocally DEF BookEnter
<1>3. CASE LogOf(NameOf(r)) \notin {<<>>, req[r].seen}
  <2>1. LogOf(NameOf(r)) \in Log /\ req[r] \in Request /\ req \in [Req -> Request]
    BY <1>1, NameTyped, LogTyped DEF Base, TypeOK
  <2>2. PICK q \in Request : q = [req[r] EXCEPT !.seen = LogOf(NameOf(r)), !.pc = "read"]
    BY <2>1 DEF Request, Pc
  <2>3. /\ q.pc = "read" /\ q.op = req[r].op /\ q.slot = req[r].slot /\ q.rid = req[r].rid
        /\ q.seen = LogOf(NameOf(r))
    BY <2>1, <2>2 DEF Request
  <2>4. req' = [req EXCEPT ![r] = q] /\ Acquire(r)
    BY <1>3, <2>1, <2>2 DEF BookEnter
  <2>5. Knows(q)
    BY <1>1, <1>3, <2>3, Active DEF Knows, Rests
  <2>6. Turn(r, q)
    BY <1>1, <2>3, <2>4, <2>5, GoesOn
  <2>7. Local(r, q)
    BY <1>1, <2>3, <2>6 DEF Local, NameOf
  <2> QED
    BY <2>7 DEF Happens, Effect
<1> QED
  BY <1>2, <1>3

LEMMA BookReads ==
  ASSUME Base, NEW r \in Req, BookRead(r)
  PROVE  Happens
<1> DEFINE found == RowsWithId(db.rows, req[r].rid)
<1>1. /\ req[r].pc = "read" /\ ~Rests(req[r]) /\ req[r].op = "push"
      /\ UNCHANGED <<db, txn, dir, job, faults>>
  BY DEF BookRead, Rests, Base, Knows
<1>2. CASE found = {}
  BY <1>1, <1>2, EndsLocally DEF BookRead
<1>3. CASE found # {}
  <2>1. PICK s \in found :
          req' = [req EXCEPT ![r].size = db.rows[s].size, ![r].pc = "walk"]
    BY <1>3 DEF BookRead
  <2>2. UNCHANGED lock
    BY <1>3 DEF BookRead
  <2>3. db.rows[s].size \in Nat /\ req[r] \in Request /\ req \in [Req -> Request]
    BY DEF Base, TypeOK, Database, RowsWithId, Row
  <2>4. PICK q \in Request : q = [req[r] EXCEPT !.size = db.rows[s].size, !.pc = "walk"]
    BY <2>3 DEF Request, Pc
  <2>5. /\ q.pc = "walk" /\ q.op = req[r].op /\ q.slot = req[r].slot /\ q.rid = req[r].rid
        /\ q.seen = req[r].seen /\ q.size = db.rows[s].size
    BY <2>3, <2>4 DEF Request
  <2>6. req' = [req EXCEPT ![r] = q]
    BY <2>1, <2>3, <2>4
  <2>7. Knows(q) /\ Holding(req[r])
    BY <1>1, <2>5, Active DEF Knows, Rests, Holding
  <2>8. Turn(r, q)
    BY <1>1, <2>2, <2>5, <2>6, <2>7, GoesOn
  <2>9. s \in RowsWithId(db.rows, q.rid)
    BY <2>5
  <2>10. Local(r, q)
    BY <1>1, <2>5, <2>8, <2>9 DEF Local
  <2> QED
    BY <2>10 DEF Happens, Effect
<1> QED
  BY <1>2, <1>3

LEMMA CommitClones ==
  ASSUME Base, NEW r \in Req, CommitClone(r)
  PROVE  Happens
<1>1. /\ req[r].pc = "clone" /\ ~Rests(req[r]) /\ req[r].op \in {"upload", "edit"}
      /\ UNCHANGED <<db, txn, dir, job, faults>>
  BY DEF CommitClone, Rests, Base, Knows
<1>2. CASE dir[NameOf(r)] = None
  BY <1>1, <1>2, EndsLocally DEF CommitClone
<1>3. CASE dir[NameOf(r)] # None
  <2>1. LogOf(NameOf(r)) \in Log /\ req[r] \in Request /\ req \in [Req -> Request]
    BY <1>1, NameTyped, LogTyped DEF Base, TypeOK
  <2>2. PICK q \in Request : q = [req[r] EXCEPT !.base = LogOf(NameOf(r)), !.pc = "land"]
    BY <2>1 DEF Request, Pc
  <2>3. q.pc = "land" /\ q.op = req[r].op /\ q.slot = req[r].slot /\ q.rid = req[r].rid
    BY <2>1, <2>2 DEF Request
  <2>4. req' = [req EXCEPT ![r] = q] /\ Acquire(r)
    BY <1>3, <2>1, <2>2 DEF CommitClone
  <2>5. Knows(q)
    BY <1>1, <2>3, Active DEF Knows, Rests
  <2> QED
    BY <1>1, <1>3, <2>3, <2>4, <2>5, GoesOnLocally
<1> QED
  BY <1>2, <1>3

LEMMA CommitLands ==
  ASSUME Base, NEW r \in Req, CommitLand(r)
  PROVE  Happens
<1>1. /\ req[r].pc = "land" /\ ~Rests(req[r]) /\ req[r].op \in {"upload", "edit"}
      /\ Release(r) /\ UNCHANGED <<db, txn, job, faults>>
  BY DEF CommitLand, Rests, Base, Knows
<1>2. CASE LogOf(NameOf(r)) # req[r].base
  BY <1>1, <1>2, EndsLocally DEF CommitLand
<1>3. CASE LogOf(NameOf(r)) = req[r].base
  <2> DEFINE pc == IF req[r].op = "edit" THEN "record" ELSE "walk"
  <2>1. /\ req[r] \in Request /\ req \in [Req -> Request] /\ dir[NameOf(r)] # None
        /\ req[r].base \in Seq(Req) /\ req[r].base = dir[NameOf(r)].log
    <3>1. /\ req[r] \in Request /\ req \in [Req -> Request] /\ dir[NameOf(r)] # None
      BY <1>1 DEF Base, TypeOK, Housed
    <3>2. req[r].base = dir[NameOf(r)].log
      BY <1>1, <1>3, <3>1, NameTyped, LogTyped
    <3> QED
      BY <3>1, <3>2 DEF Request, Log
  <2>2. Append(req[r].base, r) \in Log /\ Append(req[r].base, r) # <<>>
    <3>1. req[r].base \in Seq(Req)
      BY <2>1
    <3> QED
      BY <3>1, AppendProperties DEF Log
  <2>3. PICK q \in Request : q = [req[r] EXCEPT !.seen = Append(req[r].base, r), !.pc = pc]
    BY <2>1, <2>2 DEF Request, Pc
  <2>4. /\ q.pc = pc /\ q.op = req[r].op /\ q.slot = req[r].slot /\ q.rid = req[r].rid
        /\ q.seen = Append(req[r].base, r)
    BY <2>1, <2>3 DEF Request
  <2>5. req' = [req EXCEPT ![r] = q]
    BY <1>3, <2>1, <2>3 DEF CommitLand
  <2>6. Knows(q) /\ ~Holding(q)
    BY <1>1, <2>2, <2>4, Active DEF Knows, Rests, Holding
  <2>7. q.pc \in {"walk", "record"} /\ q.op # "push"
    BY <1>1, <2>4
  <2>8. Turn(r, q)
    BY <1>1, <2>4, <2>5, <2>6, <2>7, GoesOn
  <2>9. AppendCommit(r, LogOf(NameOf(r)))
    BY <1>3 DEF CommitLand
  <2>10. PICK d \in Dir : /\ dir' = [dir EXCEPT ![NameOf(r)] = d]
                          /\ d.log = Append(dir[NameOf(r)].log, r)
    BY <1>1, <2>1, <2>9, Appended
  <2>11. q.seen = d.log
    BY <2>1, <2>4, <2>10
  <2> QED
    BY <1>1, <2>1, <2>7, <2>8, <2>10, <2>11, Grown
<1> QED
  BY <1>2, <1>3

LEMMA Walks ==
  ASSUME Base, NEW r \in Req, Walk(r)
  PROVE  Happens
<1>1. /\ req[r].pc = "walk" /\ ~Rests(req[r]) /\ req[r].op \in {"push", "upload"}
      /\ UNCHANGED <<db, txn, dir, lock, job, faults>> /\ req[r].seen # <<>>
  BY DEF Walk, Rests, Base, Knows
<1>2. DiskUsage(NameOf(r)) \in Nat
  BY <1>1, NameTyped DEF DiskUsage, Base, TypeOK, Dir
<1>3. req[r] \in Request /\ req \in [Req -> Request]
  BY DEF Base, TypeOK
<1>4. PICK q \in Request : q = [req[r] EXCEPT !.walked = DiskUsage(NameOf(r)), !.pc = "record"]
  BY <1>2, <1>3 DEF Request, Pc
<1>5. /\ q.pc = "record" /\ q.op = req[r].op /\ q.slot = req[r].slot /\ q.rid = req[r].rid
      /\ q.seen = req[r].seen /\ q.size = req[r].size
  BY <1>3, <1>4 DEF Request
<1>6. req' = [req EXCEPT ![r] = q]
  BY <1>3, <1>4 DEF Walk
<1>7. Knows(q) /\ (Holding(q) => Holding(req[r]))
  BY <1>1, <1>5, Active DEF Knows, Rests, Holding
<1>8. Turn(r, q)
  BY <1>1, <1>5, <1>6, <1>7, GoesOn
<1>9. Local(r, q)
  BY <1>1, <1>5, <1>8 DEF Local
<1> QED
  BY <1>9 DEF Happens, Effect

LEMMA LastIsMember ==
  ASSUME NEW q \in Seq(Req), q # <<>>
  PROVE  Len(q) \in 1 .. Len(q) /\ q[Len(q)] \in Req
OBVIOUS

LEMMA BookedTyped ==
  ASSUME Base, NEW r \in Req, req[r].pc = "record"
  PROVE  Booked(r) \in Rev
<1>1. req[r].seen \in Seq(Req) /\ req[r].seen # <<>> /\ req[r].rid \in Nat
  BY DEF Base, TypeOK, Request, Knows, Log
<1>2. req[r].seen[Len(req[r].seen)] \in Req
  BY <1>1, LastIsMember
<1> QED
  BY <1>1, <1>2 DEF Booked, Rev

LEMMA WithSizeTyped ==
  ASSUME Base, NEW r \in Req, req[r].pc = "record"
  PROVE  WithSize(r) \in Database
<1> DEFINE rows == [s \in Slot |-> IF s \in RowsWithId(db.rows, req[r].rid)
                                   THEN [db.rows[s] EXCEPT !.size = req[r].walked]
                                   ELSE db.rows[s]]
<1>1. /\ db.rows \in [Slot -> Row \cup {None}] /\ db.usage \in Nat
      /\ db.revs \in SUBSET Rev /\ req[r].size \in Nat /\ req[r].walked \in Nat
  BY DEF Base, TypeOK, Database, Request
<1>2. AddUsage(db.usage, req[r].walked - req[r].size) \in Nat
  BY <1>1 DEF AddUsage
<1>3. ASSUME NEW s \in Slot
      PROVE  rows[s] \in Row \cup {None}
  <2>1. CASE s \in RowsWithId(db.rows, req[r].rid)
    <3>1. db.rows[s] \in Row
      BY <1>1, <2>1 DEF RowsWithId
    <3>2. [db.rows[s] EXCEPT !.size = req[r].walked] \in Row
      BY <1>1, <3>1 DEF Row
    <3> QED
      BY <2>1, <3>2
  <2>2. CASE s \notin RowsWithId(db.rows, req[r].rid)
    BY <1>1, <2>2
  <2> QED
    BY <2>1, <2>2
<1>4. rows \in [Slot -> Row \cup {None}]
  BY <1>3
<1>5. WithSize(r) = [rows |-> rows, usage |-> AddUsage(db.usage, req[r].walked - req[r].size),
                     revs |-> db.revs \cup {Booked(r)}]
  BY DEF WithSize
<1> HIDE DEF rows
<1> QED
  BY <1>1, <1>2, <1>4, <1>5, BookedTyped DEF Database

LEMMA RecordBooks ==
  ASSUME Base, NEW r \in Req, req[r].pc = "record",
         NEW data \in Database, Begin(r, data), Step(r, "commit"),
         data = IF req[r].op = "edit" THEN [db EXCEPT !.revs = @ \cup {Booked(r)}]
                                      ELSE WithSize(r),
         UNCHANGED <<db, dir, lock, job, faults>>
  PROVE  Happens
<1>1. ~Rests(req[r])
  BY DEF Rests
<1>2. PICK q \in Request :
         /\ req' = [req EXCEPT ![r] = q]
         /\ q.pc = "commit" /\ q.op = req[r].op /\ q.slot = req[r].slot /\ q.rid = req[r].rid
  BY <1>1, Steps DEF Pc
<1>3. Knows(q) /\ (Holding(q) => Holding(req[r]))
  BY <1>1, <1>2, Active DEF Knows, Holding, Rests
<1>4. Turn(r, q)
  BY <1>1, <1>2, <1>3, GoesOn
<1>5. Begins(r, q, data)
  BY <1>2, <1>4 DEF Begins, Begin
<1>6. Books(r, q)
  BY <1>2, <1>5 DEF Books
<1> QED
  BY <1>6 DEF Happens, Effect

LEMMA RecordSizes ==
  ASSUME Base, NEW r \in Req, req[r].pc = "record", req[r].op # "edit", RecordSize(r)
  PROVE  Happens
<1>1. UNCHANGED <<db, dir, job, faults>>
  BY DEF RecordSize
<1>2. CASE End(r) /\ Release(r) /\ UNCHANGED txn
  BY <1>1, <1>2, EndsLocally DEF Rests
<1>3. CASE Begin(r, WithSize(r)) /\ Step(r, "commit") /\ UNCHANGED lock
  BY <1>1, <1>3, WithSizeTyped, RecordBooks
<1> QED
  BY <1>2, <1>3 DEF RecordSize

LEMMA RecordEdits ==
  ASSUME Base, NEW r \in Req, RecordEdit(r)
  PROVE  Happens
<1>1. req[r].pc = "record" /\ req[r].op = "edit"
  BY DEF RecordEdit
<1> DEFINE data == [db EXCEPT !.revs = @ \cup {Booked(r)}]
<1>2. data \in Database
  BY <1>1, BookedTyped DEF Base, TypeOK, Database
<1>3. Begin(r, data) /\ Step(r, "commit") /\ UNCHANGED <<db, dir, lock, job, faults>>
  BY DEF RecordEdit
<1> QED
  BY <1>1, <1>2, <1>3, RecordBooks

LEMMA BusyEnds ==
  ASSUME Base, NEW r \in Req, DatabaseBusy(r)
  PROVE  Happens
BY EndsLocally DEF DatabaseBusy, Rests

LEMMA CommitCloses ==
  ASSUME Base, NEW r \in Req, Commit(r) \/ CommitFails(r)
  PROVE  Happens
<1>1. /\ req[r].pc = "commit" /\ ~Rests(req[r]) /\ Release(r) /\ End(r)
      /\ txn' = None /\ UNCHANGED <<dir, job>>
  BY DEF Commit, CommitFails, Rests
<1>2. PICK q \in Request : Turn(r, q) /\ q.pc = "done"
  BY <1>1, Ends
<1>3. Closes(r, q)
  BY <1>1, <1>2 DEF Closes, Commit, CommitFails
<1> QED
  BY <1>3 DEF Happens, Effect

LEMMA JobActs ==
  ASSUME Base, Reconcile \/ JobBusy
  PROVE  Happens
<1>1. job \in JobState /\ db \in Database /\ txn \in Txn \cup {None}
  BY DEF Base, TypeOK
<1>2. job.pc # "idle" => "reconcile" \in Ops
  BY DEF Base, Asleep
<1>3. Asleep \in JobState /\ Asleep.pc = "idle"
  BY DEF Asleep, JobState
<1>4. CASE JobRead
  <2>1. job' \in JobState /\ job'.pc = "list"
    BY <1>1, <1>4 DEF JobRead, Asleep, JobState, Database
  <2>2. Audits
    BY <1>4, <2>1 DEF JobRead, Audits, Stands
  <2> QED
    BY <2>2 DEF Happens
<1>5. CASE JobList
  <2>1. job' \in JobState /\ job'.pc = "walk"
    BY <1>1, <1>5 DEF JobList, JobState
  <2>2. Audits
    BY <1>2, <1>5, <2>1 DEF JobList, Audits, Stands
  <2> QED
    BY <2>2 DEF Happens
<1>6. ASSUME NEW s \in Slot, JobWalk(s)
      PROVE  Happens
  <2>1. DiskUsage(s[1]) \in Nat
    BY DEF Slot, DiskUsage, Base, TypeOK, Dir
  <2>2. job' \in JobState /\ job'.pc = "walk"
    <3>1. job.total + DiskUsage(s[1]) \in Nat /\ job.todo \ {s} \in SUBSET Slot
      BY <1>1, <2>1 DEF JobState
    <3>2. job' = [job EXCEPT !.todo = @ \ {s}, !.total = @ + DiskUsage(s[1])]
      BY <1>6 DEF JobWalk
    <3> QED
      BY <1>1, <1>6, <3>1, <3>2 DEF JobState, JobWalk
  <2>3. Audits
    BY <1>2, <1>6, <2>2 DEF JobWalk, Audits, Stands
  <2> QED
    BY <2>3 DEF Happens
<1>10. CASE JobWalkLfs
  <2>1. job.total + lfs \in Nat
    BY <1>1, StoreAssumption DEF JobState, Base, TypeOK
  <2>2. job' \in JobState /\ job'.pc = "write"
    BY <1>1, <1>10, <2>1 DEF JobWalkLfs, JobState
  <2>3. Audits
    BY <1>2, <1>10, <2>2 DEF JobWalkLfs, Audits, Stands
  <2> QED
    BY <2>3 DEF Happens
<1>7. CASE JobWrite
  <2>1. CASE job' = Asleep /\ UNCHANGED txn
    <3>1. Audits
      BY <1>2, <1>3, <1>7, <2>1 DEF JobWrite, Audits, Stands
    <3> QED
      BY <3>1 DEF Happens
  <2>2. CASE Begin(Job, [db EXCEPT !.usage = job.total]) /\ job' = [Asleep EXCEPT !.pc = "commit"]
    <3>1. job' \in JobState /\ job'.pc = "commit"
      BY <2>2 DEF Asleep, JobState
    <3>2. job.total \in Nat
      BY <1>1 DEF JobState
    <3> DEFINE data == [db EXCEPT !.usage = job.total]
    <3>3. data \in Database /\ data.rows = db.rows /\ data.revs = db.revs
      BY <1>1, <3>2 DEF Database
    <3> HIDE DEF data
    <3>4. txn = None /\ txn' = [by |-> Job, db |-> data]
      BY <2>2 DEF Begin, data
    <3>5. txn' \in Txn /\ txn'.by = Job /\ txn'.db = data
      BY <3>3, <3>4 DEF Txn
    <3>6. Corrects
      BY <1>2, <1>7, <3>1, <3>3, <3>4, <3>5 DEF JobWrite, Corrects, Stands
    <3> QED
      BY <3>6 DEF Happens
  <2> QED
    BY <1>7, <2>1, <2>2 DEF JobWrite
<1>8. CASE JobCommit
  <2>1. Settles
    BY <1>2, <1>3, <1>8 DEF JobCommit, Settles, Stands
  <2> QED
    BY <2>1 DEF Happens
<1>9. CASE JobBusy
  <2>1. Audits
    BY <1>2, <1>3, <1>9 DEF JobBusy, Audits, Stands
  <2> QED
    BY <2>1 DEF Happens
<1> QED
  BY <1>4, <1>5, <1>6, <1>7, <1>8, <1>9, <1>10 DEF Reconcile

(***************************************************************************)
(* ... and all of them.                                                    *)
(***************************************************************************)
LEMMA NextHappens ==
  ASSUME Base, Next
  PROVE  Happens \/ Still
<1>1. ASSUME NEW r \in Req, NEW s \in Slot, CreateCheck(r, s) \/ Load(r, s)
      PROVE  Happens
  BY <1>1, CreateChecks, LoadsRow
<1>2. ASSUME NEW r \in Req, Proceed(r)
      PROVE  Happens
  <2>1. CASE new_repo_form(r) \/ delete_repo(r)
    BY <2>1, CreateInits, CreateInserts, DeleteEnters, DeleteRemoves
    DEF new_repo_form, delete_repo
  <2>2. CASE asgi_app(r)
    BY <2>2, ChecksQuota, PushCaptures, PushReceives DEF asgi_app
  <2>3. CASE _record_push(r)
    BY <2>3, BookEnters, BookReads, Walks, RecordSizes DEF _record_push, RecordPush
  <2>4. CASE files_upload_form(r)
    BY <2>4, ChecksQuota, CommitClones, CommitLands, Walks, RecordSizes
    DEF files_upload_form, commit_files, RecordUpload
  <2>5. CASE files_edit_form(r)
    BY <2>5, CommitClones, CommitLands, RecordEdits DEF files_edit_form, commit_files
  <2>6. CASE Commit(r)
    BY <2>6, CommitCloses
  <2> QED
    BY <1>2, <2>1, <2>2, <2>3, <2>4, <2>5, <2>6 DEF Proceed
<1>3. ASSUME NEW r \in Req, CreateFails(r) \/ DatabaseBusy(r) \/ CommitFails(r)
      PROVE  Happens
  BY <1>3, CreateUndoes, BusyEnds, CommitCloses
<1>4. CASE Crash
  BY <1>4 DEF Happens
<1>5. CASE LfsPut
  BY <1>5 DEF LfsPut, Still
<1> QED
  BY <1>1, <1>2, <1>3, <1>4, <1>5, JobActs DEF Next
-----------------------------------------------------------------------------
(***************************************************************************)
(* Base.  A turn changes one record, and keeps every lock another request  *)
(* holds.                                                                  *)
(***************************************************************************)
LEMMA Others ==
  ASSUME Base, NEW r \in Req, NEW q \in Request, Turn(r, q)
  PROVE  /\ req' \in [Req -> Request] /\ req'[r] = q
         /\ \A p \in Req \ {r} : req'[p] = req[p]
BY DEF Turn, Base, TypeOK

LEMMA TurnKeepsBase ==
  ASSUME Base, NEW r \in Req, NEW q \in Request, Turn(r, q),
         db' \in Database, txn' \in Txn \cup {None}, dir' \in [Name -> Dir \cup {None}],
         faults' \in 0 .. MaxFaults, lfs' \in 0 .. MaxLfs, Writing',
         \A n \in Name : dir'[n] = None => dir[n] = None \/ lock[n] = r,
         q.pc \in {"insert", "land"} => dir'[q.slot[1]] # None
  PROVE  Base'
<1>1. /\ req' \in [Req -> Request] /\ req'[r] = q
      /\ \A p \in Req \ {r} : req'[p] = req[p]
  BY Others
<1>2. TypeOK'
  BY <1>1 DEF Turn, Base, TypeOK
<1>3. \A p \in Req : Knows(req'[p])
  BY <1>1 DEF Turn, Base
<1>4. ASSUME NEW p \in Req \ {r}, Holding(req[p])
      PROVE  NameOf(p) \in Name /\ lock[NameOf(p)] = p /\ lock'[NameOf(p)] = p
  <2>1. ~Rests(req[p])
    BY <1>4 DEF Holding, Rests
  <2>2. NameOf(p) \in Name /\ lock[NameOf(p)] = p
    BY <1>4, <2>1, NameTyped DEF Base, Locked
  <2> QED
    BY <2>2, StoreAssumption DEF Turn
<1>5. Locked'
  <2> SUFFICES ASSUME NEW p \in Req, Holding(req'[p])
               PROVE  lock'[req'[p].slot[1]] = p
    BY DEF Locked, NameOf
  <2>1. CASE p = r
    BY <1>1, <2>1 DEF Turn
  <2>2. CASE p # r
    BY <1>1, <1>4, <2>2 DEF NameOf
  <2> QED
    BY <2>1, <2>2
<1>6. Housed'
  <2> SUFFICES ASSUME NEW p \in Req, req'[p].pc \in {"insert", "land"}
               PROVE  dir'[req'[p].slot[1]] # None
    BY DEF Housed, NameOf
  <2>1. CASE p = r
    BY <1>1, <2>1
  <2>2. CASE p # r
    <3>1. Holding(req[p]) /\ req'[p] = req[p] /\ dir[NameOf(p)] # None
      BY <1>1, <2>2 DEF Holding, Base, Housed
    <3> QED
      BY <1>4, <2>2, <3>1 DEF NameOf
  <2> QED
    BY <2>1, <2>2
<1> QED
  BY <1>2, <1>3, <1>5, <1>6 DEF Base, Turn

LEMMA WritingKept ==
  ASSUME Base, NEW r \in Req, NEW q \in Request, Turn(r, q),
         \/ UNCHANGED txn /\ req[r].pc # "commit" /\ q.pc # "commit"
         \/ /\ txn = None /\ txn' \in Txn /\ txn'.by = r /\ q.pc = "commit"
         \/ txn' = None /\ req[r].pc = "commit" /\ q.pc # "commit"
  PROVE  Writing'
<1>1. /\ req' \in [Req -> Request] /\ req'[r] = q
      /\ \A p \in Req \ {r} : req'[p] = req[p]
  BY Others
<1>2. job' = job /\ Job \notin Req /\ (txn # None => txn.by \in Req \cup {Job})
  BY StoreAssumption DEF Turn, Base, TypeOK, Txn
<1>3. CASE UNCHANGED txn /\ req[r].pc # "commit" /\ q.pc # "commit"
  BY <1>1, <1>2, <1>3 DEF Base, Writing
<1>4. CASE txn = None /\ txn' \in Txn /\ txn'.by = r /\ q.pc = "commit"
  BY <1>1, <1>2, <1>4, StoreAssumption DEF Base, Writing
<1>5. CASE txn' = None /\ req[r].pc = "commit" /\ q.pc # "commit"
  BY <1>1, <1>2, <1>5 DEF Base, Writing
<1> QED
  BY <1>3, <1>4, <1>5

LEMMA BaseTypes ==
  ASSUME Base
  PROVE  /\ db \in Database /\ txn \in Txn \cup {None}
         /\ dir \in [Name -> Dir \cup {None}] /\ faults \in 0 .. MaxFaults
BY DEF Base, TypeOK

LEMMA EffectKeepsBase ==
  ASSUME Base, NEW r \in Req, NEW q \in Request, Effect(r, q), lfs' \in 0 .. MaxLfs
  PROVE  Base'
<1>1. Turn(r, q)
  BY DEF Effect, Local, Makes, Undoes, Grows, Inserts, Removes, Books, Begins, Closes
<1>2. /\ db \in Database /\ txn \in Txn \cup {None}
      /\ dir \in [Name -> Dir \cup {None}] /\ faults \in 0 .. MaxFaults
  BY BaseTypes
<1>3. ~Rests(req[r]) => NameOf(r) \in Name /\ (Holding(req[r]) => lock[NameOf(r)] = r)
  BY NameTyped DEF Base, Locked
<1>4. CASE Local(r, q)
  <2>1. q.pc = "land" => dir[q.slot[1]] # None
    BY <1>4 DEF Local
  <2>2. Writing'
    BY <1>1, <1>4, WritingKept DEF Local
  <2> QED
    BY <1>1, <1>2, <1>4, <2>1, <2>2, TurnKeepsBase DEF Local
<1>5. CASE Makes(r, q)
  <2>1. Writing'
    BY <1>1, <1>5, WritingKept DEF Makes
  <2>2. EmptyDir \in Dir
    BY DEF EmptyDir, Dir, Log
  <2>3. NameOf(r) \in Name /\ q.slot[1] = NameOf(r)
    BY <1>1, <1>3, <1>5 DEF Makes, Turn, Rests, NameOf
  <2>4. dir' \in [Name -> Dir \cup {None}] /\ dir'[NameOf(r)] # None
        /\ \A n \in Name : dir'[n] = None => dir[n] = None
    BY <1>2, <1>5, <2>2, <2>3, StoreAssumption DEF Makes
  <2> QED
    BY <1>1, <1>2, <1>5, <2>1, <2>3, <2>4, TurnKeepsBase DEF Makes
<1>6. CASE Undoes(r, q)
  <2>1. Writing'
    BY <1>1, <1>6, WritingKept DEF Undoes
  <2>2. NameOf(r) \in Name /\ lock[NameOf(r)] = r
    BY <1>3, <1>6 DEF Undoes, Holding, Rests
  <2>3. dir' \in [Name -> Dir \cup {None}]
        /\ \A n \in Name : dir'[n] = None => dir[n] = None \/ lock[n] = r
    BY <1>2, <1>6, <2>2 DEF Undoes
  <2> QED
    BY <1>1, <1>2, <1>6, <2>1, <2>3, TurnKeepsBase DEF Undoes
<1>7. CASE Grows(r, q)
  <2>1. Writing'
    BY <1>1, <1>7, WritingKept DEF Grows
  <2>2. PICK d \in Dir : dir' = [dir EXCEPT ![NameOf(r)] = d]
    BY <1>7 DEF Grows
  <2>3. dir' \in [Name -> Dir \cup {None}] /\ \A n \in Name : dir'[n] = None => dir[n] = None
    BY <1>2, <2>2, StoreAssumption
  <2> QED
    BY <1>1, <1>2, <1>7, <2>1, <2>3, TurnKeepsBase DEF Grows
<1>8. ASSUME NEW data, Begins(r, q, data), UNCHANGED dir
      PROVE  Base'
  <2>1. txn' \in Txn /\ txn'.by = r
    BY <1>8 DEF Begins, Txn
  <2>2. Writing'
    BY <1>1, <1>8, <2>1, WritingKept DEF Begins
  <2> QED
    BY <1>1, <1>2, <1>8, <2>1, <2>2, TurnKeepsBase DEF Begins
<1>9. CASE Removes(r, q)
  <2>1. txn' \in Txn /\ txn'.by = r
    BY <1>9 DEF Removes, Begins, Txn
  <2>2. Writing'
    BY <1>1, <1>9, <2>1, WritingKept DEF Removes, Begins
  <2>3. NameOf(r) \in Name /\ lock[NameOf(r)] = r
    BY <1>3, <1>9 DEF Removes, Holding, Rests
  <2>4. dir' \in [Name -> Dir \cup {None}]
        /\ \A n \in Name : dir'[n] = None => dir[n] = None \/ lock[n] = r
    BY <1>2, <1>9, <2>3 DEF Removes
  <2> QED
    BY <1>1, <1>2, <1>9, <2>1, <2>2, <2>4, TurnKeepsBase DEF Removes, Begins
<1>10. CASE Closes(r, q)
  <2>1. Writing'
    BY <1>1, <1>10, WritingKept DEF Closes
  <2>2. txn.db \in Database
    BY <1>2, <1>10 DEF Closes, Base, Writing, Txn
  <2>3. faults' \in 0 .. MaxFaults
    BY <1>2, <1>10, StoreAssumption DEF Closes
  <2> QED
    BY <1>1, <1>2, <1>10, <2>1, <2>2, <2>3, TurnKeepsBase DEF Closes
<1> QED
  BY <1>4, <1>5, <1>6, <1>7, <1>8, <1>9, <1>10 DEF Effect, Inserts, Books

LEMMA CrashKeepsBase ==
  ASSUME Base, Crash
  PROVE  Base'
<1>1. /\ req \in [Req -> Request] /\ db \in Database /\ dir \in [Name -> Dir \cup {None}]
      /\ faults \in 0 .. MaxFaults /\ lfs \in 0 .. MaxLfs
  BY DEF Base, TypeOK
<1>2. ASSUME NEW r \in Req
      PROVE  req'[r] \in Request /\ Rests(req'[r]) /\ Knows(req'[r])
  <2>1. CASE req[r].pc = "idle"
    <3>1. req'[r] = Away
      BY <2>1 DEF Crash
    <3>2. Away \in Request /\ Away.pc = "idle" /\ Away.op = None
      BY DEF Away, Request, Pc, Log
    <3> QED
      BY <3>1, <3>2 DEF Knows, Rests
  <2>2. CASE req[r].pc # "idle"
    <3>1. req'[r] = Ended(r)
      BY <2>2 DEF Crash
    <3>2. "done" \in Pc /\ req[r].op \in Op \cup {None}
      BY <1>1 DEF Request, Pc
    <3>3. Ended(r) \in Request /\ Ended(r).pc = "done"
      BY <3>2, AwayTyped DEF Ended, Away
    <3> QED
      BY <3>1, <3>3 DEF Knows, Rests
  <2> QED
    BY <2>1, <2>2
<1>3. req' \in [Req -> Request]
  <2>1. \A r \in Req : req'[r] \in Request
    BY <1>2
  <2>2. req' = [r \in Req |-> IF req[r].pc = "idle" THEN Away ELSE Ended(r)]
    BY DEF Crash
  <2> QED
    BY <2>1, <2>2
<1>4. Asleep \in JobState /\ Asleep.pc = "idle"
  BY DEF Asleep, JobState
<1>5. TypeOK'
  BY <1>1, <1>3, <1>4, StoreAssumption DEF Crash, TypeOK
<1>6. Locked' /\ Housed'
  BY <1>2 DEF Locked, Housed, Holding, Rests
<1>7. Writing'
  BY <1>2, <1>4 DEF Writing, Rests, Crash
<1> QED
  BY <1>2, <1>5, <1>6, <1>7 DEF Base, Crash

LEMMA JobKeepsBase ==
  ASSUME Base, Audits \/ Corrects \/ Settles, lfs' \in 0 .. MaxLfs
  PROVE  Base'
<1>1. /\ Stands /\ db \in Database /\ txn \in Txn \cup {None}
  BY DEF Base, TypeOK, Audits, Corrects, Settles
<1>2. CASE Audits
  <2>1. TypeOK'
    BY <1>1, <1>2 DEF Audits, Stands, Base, TypeOK
  <2>2. Locked' /\ Housed' /\ Writing'
    BY <1>2 DEF Audits, Stands, Base, Locked, Housed, Writing, NameOf
  <2> QED
    BY <1>1, <2>1, <2>2 DEF Base, Stands
<1>3. CASE Corrects
  <2>1. TypeOK'
    BY <1>1, <1>3 DEF Corrects, Stands, Base, TypeOK
  <2>2. Locked' /\ Housed'
    BY <1>1 DEF Stands, Base, Locked, Housed, NameOf
  <2>3. Writing'
    BY <1>3, StoreAssumption DEF Corrects, Stands, Base, Writing
  <2> QED
    BY <1>1, <2>1, <2>2, <2>3 DEF Base, Stands
<1>4. CASE Settles
  <2>0. txn \in Txn /\ txn.by = Job
    BY <1>1, <1>4 DEF Settles, Base, Writing
  <2>1. TypeOK'
    BY <1>1, <1>4, <2>0 DEF Settles, Stands, Base, TypeOK, Txn
  <2>2. Locked' /\ Housed'
    BY <1>1 DEF Stands, Base, Locked, Housed, NameOf
  <2>3. Writing'
    BY <1>4, <2>0, StoreAssumption DEF Settles, Stands, Base, Writing
  <2> QED
    BY <1>1, <2>1, <2>2, <2>3 DEF Base, Stands
<1> QED
  BY <1>2, <1>3, <1>4

(***************************************************************************)
(* The initial states, and every step.                                     *)
(***************************************************************************)
LEMMA InitBase ==
  ASSUME Init
  PROVE  Base
<1>1. PICK existing \in SUBSET Name, k \in Kind :
        \E ids \in [existing -> 1 .. Cardinality(existing)] :
          /\ \A m, n \in existing : m # n => ids[m] # ids[n]
          /\ db = [rows |-> [s \in Slot |->
                               IF s[1] \in existing /\ s[2] = k
                                 THEN [id |-> ids[s[1]], size |-> 0] ELSE None],
                   usage |-> 0, revs |-> {}]
          /\ dir = [n \in Name |-> IF n \in existing THEN EmptyDir ELSE None]
  BY DEF Init
<1>2. PICK ids \in [existing -> 1 .. Cardinality(existing)] :
          /\ db = [rows |-> [s \in Slot |->
                               IF s[1] \in existing /\ s[2] = k
                                 THEN [id |-> ids[s[1]], size |-> 0] ELSE None],
                   usage |-> 0, revs |-> {}]
          /\ dir = [n \in Name |-> IF n \in existing THEN EmptyDir ELSE None]
  BY <1>1
<1>3. Cardinality(existing) \in Nat
  BY StoreAssumption, FS_Subset, FS_CardinalityType
<1>4. \A n \in existing : ids[n] \in Nat
  BY <1>3
<1>5. db \in Database
  BY <1>2, <1>4 DEF Database, Row
<1>6. EmptyDir \in Dir
  BY DEF EmptyDir, Dir, Log
<1>7. dir \in [Name -> Dir \cup {None}]
  BY <1>2, <1>6
<1>8. Away \in Request /\ Away.pc = "idle" /\ Away.op = None
  BY DEF Away, Request, Pc, Log
<1>9. Asleep \in JobState /\ Asleep.pc = "idle"
  BY DEF Asleep, JobState
<1>10. TypeOK
  BY <1>5, <1>7, <1>8, <1>9, StoreAssumption DEF TypeOK, Init
<1>11. \A r \in Req : Knows(req[r]) /\ ~Holding(req[r]) /\ req[r].pc = "idle"
  BY <1>8 DEF Init, Knows, Holding, Rests
<1> QED
  BY <1>9, <1>10, <1>11 DEF Base, Locked, Housed, Writing, Init

LEMMA LfsTyped ==
  ASSUME Base, Next
  PROVE  lfs' \in 0 .. MaxLfs
<1>1. lfs \in 0 .. MaxLfs /\ MaxLfs \in Nat
  BY StoreAssumption DEF Base, TypeOK
<1>2. CASE LfsPut
  BY <1>1, <1>2 DEF LfsPut
<1>3. ASSUME NEW r \in Req, NEW s \in Slot, CreateCheck(r, s) \/ Load(r, s)
      PROVE  lfs' = lfs
  BY <1>3 DEF CreateCheck, Load, LoadDelete, LoadPush, LoadUpload, LoadEdit
<1>4. ASSUME NEW r \in Req, Proceed(r)
      PROVE  lfs' = lfs
  BY <1>4 DEF Proceed, new_repo_form, delete_repo, asgi_app, _record_push, files_upload_form,
     files_edit_form, commit_files, CreateInit, CreateInsert, DeleteEnter, DeleteRemove,
     CheckPushAllowed, PushCapture, PushReceive, BookEnter, BookRead, Walk, RecordPush,
     RecordUpload, RecordSize, RecordEdit, CommitClone, CommitLand, Commit
<1>5. ASSUME NEW r \in Req, CreateFails(r) \/ DatabaseBusy(r) \/ CommitFails(r)
      PROVE  lfs' = lfs
  BY <1>5 DEF CreateFails, DatabaseBusy, CommitFails
<1>6. CASE Reconcile \/ JobBusy \/ Crash
  BY <1>1, <1>6 DEF Reconcile, JobRead, JobList, JobWalk, JobWalkLfs, JobWrite, JobCommit,
     JobBusy, Crash
<1> QED
  BY <1>1, <1>2, <1>3, <1>4, <1>5, <1>6 DEF Next

LEMMA BaseStep ==
  ASSUME Base, [Next]_vars
  PROVE  Base'
<1>1. CASE Next
  <2>1. Happens \/ Still
    BY <1>1, NextHappens
  <2>2. lfs' \in 0 .. MaxLfs
    BY <1>1, LfsTyped
  <2>3. CASE Still
    BY <2>2, <2>3 DEF Still, Base, TypeOK, Locked, Housed, Writing, NameOf
  <2> QED
    BY <2>1, <2>2, <2>3, EffectKeepsBase, JobKeepsBase, CrashKeepsBase DEF Happens
<1>2. CASE UNCHANGED vars
  BY <1>2 DEF vars, Base, TypeOK, Locked, Housed, Writing, NameOf
<1> QED
  BY <1>1, <1>2

-----------------------------------------------------------------------------
(***************************************************************************)
(* Rows.  A delete never becomes another operation, so that the conditions *)
(* of the layers, once false, stay false.                                  *)
(***************************************************************************)
LEMMA EffectTurns ==
  ASSUME NEW r \in Req, NEW q \in Request, Effect(r, q)
  PROVE  Turn(r, q) /\ (req[r].pc = "idle" => Local(r, q))
BY DEF Effect, Local, Makes, Undoes, Grows, Inserts, Removes, Books, Begins, Closes

LEMMA DeletersStay ==
  ASSUME Base, Happens
  PROVE  Deleters \subseteq Deleters'
<1>1. ASSUME NEW r \in Req, NEW q \in Request, Effect(r, q), NEW d \in Deleters
      PROVE  d \in Deleters'
  <2>1. Turn(r, q)
    BY <1>1, EffectTurns
  <2>2. /\ req' \in [Req -> Request] /\ req'[r] = q
        /\ \A p \in Req \ {r} : req'[p] = req[p]
    BY <2>1, Others
  <2>3. d \in Req /\ req[d].op = "delete" /\ req[d].pc # "idle"
    BY StoreAssumption DEF Deleters, Base, Knows, Op
  <2>4. req'[d].op = "delete"
    BY <2>1, <2>2, <2>3 DEF Turn
  <2> QED
    BY <2>3, <2>4 DEF Deleters
<1>2. CASE Audits \/ Corrects \/ Settles
  BY <1>2 DEF Audits, Corrects, Settles, Stands, Deleters
<1>3. ASSUME Crash, NEW d \in Deleters
      PROVE  d \in Deleters'
  <2>1. d \in Req /\ req[d].op = "delete" /\ req[d].pc # "idle"
    BY StoreAssumption DEF Deleters, Base, Knows, Op
  <2>2. req'[d] = Ended(d)
    BY <1>3, <2>1 DEF Crash
  <2>3. Ended(d).op = "delete"
    BY <2>1 DEF Ended, Away
  <2> QED
    BY <2>1, <2>2, <2>3 DEF Deleters
<1> QED
  BY <1>1, <1>2, <1>3 DEF Happens

(***************************************************************************)
(* Who has the write transaction, and what it keeps.                       *)
(***************************************************************************)
LEMMA Writer ==
  ASSUME Base, txn # None, txn.by # Job
  PROVE  /\ txn.by \in Req /\ req[txn.by].pc = "commit" /\ ~Rests(req[txn.by])
         /\ req[txn.by].op \in Op /\ req[txn.by].slot \in Slot
BY DEF Base, TypeOK, Txn, Writing, Rests, Knows

LEMMA Kept ==
  ASSUME Base, Rows, txn # None, txn.by # Job => req[txn.by].op # "delete",
         NEW s \in Slot, db.rows[s] # None
  PROVE  txn.db.rows[s] # None /\ txn.db.rows[s].id = db.rows[s].id
<1>1. CASE txn.by = Job
  BY <1>1 DEF Rows, Delta
<1>2. CASE txn.by # Job
  <2>1. Writes(req[txn.by], txn.db.rows) /\ req[txn.by].op \in Op
    BY <1>2, Writer DEF Rows, Delta
  <2> QED
    BY <1>2, <2>1 DEF Writes, Op
<1> QED
  BY <1>1, <1>2

(***************************************************************************)
(* The three transactions write what Writes allows, and keep ids unique: a *)
(* reused id is one that no row has.                                       *)
(***************************************************************************)
LEMMA WritesNew ==
  ASSUME Base, Rows, NEW r \in Req, NEW q \in Request,
         Inserts(r, q) \/ Removes(r, q) \/ Books(r, q)
  PROVE  /\ db' = db /\ txn = None /\ txn'.by = r /\ txn' # None
         /\ Writes(q, txn'.db.rows) /\ UniqueIds(txn'.db.rows)
<1>1. /\ db' = db /\ txn = None /\ Turn(r, q) /\ ~Rests(req[r]) /\ q.op = req[r].op
      /\ q.slot = req[r].slot /\ q.rid = req[r].rid /\ q.pc = "commit"
  BY DEF Inserts, Removes, Books, Begins, Turn, Rests
<1>2. db.rows \in [Slot -> Row \cup {None}] /\ UniqueIds(db.rows)
  BY DEF Base, TypeOK, Database, Rows
<1>3. PICK data \in Database : txn' = [by |-> r, db |-> data]
  BY DEF Inserts, Removes, Books, Begins
<1>4. txn' # None /\ txn'.by = r /\ txn'.db = data
  BY <1>3, StoreAssumption DEF Txn
<1>5. CASE Inserts(r, q)
  <2> DEFINE new == [id |-> NextId(db.rows), size |-> 0]
  <2>1. req[r].slot \in Slot /\ q.op = "create" /\ db.rows[req[r].slot] = None
    BY <1>1, <1>5, Active DEF Inserts, Knows
  <2>2. data = [db EXCEPT !.rows[req[r].slot] = new]
    BY <1>4, <1>5 DEF Inserts, Begins
  <2>3. data.rows = [db.rows EXCEPT ![req[r].slot] = new]
    BY <2>2 DEF Base, TypeOK, Database
  <2>4. new.id = NextId(db.rows) /\ new \in Row
    BY <1>2, NextIdIsFresh DEF Row
  <2> HIDE DEF new
  <2>5. new # None
    BY <2>4, StoreAssumption
  <2>6. Writes(q, data.rows)
    BY <1>1, <1>2, <2>1, <2>3, <2>5 DEF Writes
  <2>7. \A s \in Slot : db.rows[s] # None => db.rows[s].id # new.id /\ db.rows[s].id \in Nat
    BY <1>2, <2>4, NextIdIsFresh DEF Row
  <2>8. UniqueIds(data.rows)
    BY <1>2, <2>1, <2>3, <2>7 DEF UniqueIds
  <2> QED
    BY <1>1, <1>4, <2>6, <2>8
<1>6. CASE Removes(r, q)
  <2>1. data.rows = [s \in Slot |-> IF s \in RowsWithId(db.rows, req[r].rid)
                                     THEN None ELSE db.rows[s]]
    BY <1>4, <1>6 DEF Removes, Begins
  <2>2. q.op = "delete"
    BY <1>1, <1>6, Active DEF Removes, Knows
  <2>3. Writes(q, data.rows)
    BY <1>1, <2>1, <2>2 DEF Writes
  <2>4. UniqueIds(data.rows)
    BY <1>2, <2>1 DEF UniqueIds
  <2> QED
    BY <1>1, <1>4, <2>3, <2>4
<1>7. CASE Books(r, q)
  <2>1. q.op \in {"push", "upload", "edit"}
    BY <1>1, <1>7, Active DEF Books, Knows
  <2>2. CASE q.op = "edit"
    <3>1. data = [db EXCEPT !.revs = @ \cup {Booked(r)}]
      BY <1>4, <1>7, <2>2 DEF Books, Begins
    <3>2. data.rows = db.rows
      BY <3>1 DEF Base, TypeOK, Database
    <3> QED
      BY <1>1, <1>2, <1>4, <2>2, <3>2 DEF Writes
  <2>3. CASE q.op \in {"push", "upload"}
    <3>1. data = WithSize(r)
      BY <1>4, <1>7, <2>3 DEF Books, Begins
    <3>2. data.rows = [s \in Slot |-> IF s \in RowsWithId(db.rows, req[r].rid)
                               THEN [db.rows[s] EXCEPT !.size = req[r].walked]
                               ELSE db.rows[s]]
      BY <3>1 DEF WithSize
    <3>3. ASSUME NEW s \in RowsWithId(db.rows, req[r].rid)
          PROVE  data.rows[s] # None /\ data.rows[s].id = db.rows[s].id
      <4>1. db.rows[s] \in Row /\ s \in Slot /\ req[r].walked \in Nat
        BY <1>2 DEF RowsWithId, Base, TypeOK, Request
      <4>2. [db.rows[s] EXCEPT !.size = req[r].walked] \in Row
        BY <4>1 DEF Row
      <4>3. data.rows[s] = [db.rows[s] EXCEPT !.size = req[r].walked]
        BY <3>2, <4>1
      <4>4. data.rows[s].id = db.rows[s].id
        BY <4>1, <4>3 DEF Row
      <4> QED
        BY <4>2, <4>3, <4>4, StoreAssumption
    <3>4. \A s \in Slot \ RowsWithId(db.rows, req[r].rid) : data.rows[s] = db.rows[s]
      BY <3>2
    <3>5. Writes(q, data.rows)
      BY <1>1, <2>3, <3>3, <3>4 DEF Writes
    <3>6. \A s \in Slot : /\ data.rows[s] # None <=> db.rows[s] # None
                          /\ data.rows[s] # None => data.rows[s].id = db.rows[s].id
      BY <3>3, <3>4 DEF RowsWithId
    <3>7. UniqueIds(data.rows)
      BY <1>2, <3>6 DEF UniqueIds
    <3> QED
      BY <1>1, <1>4, <3>5, <3>7
  <2> QED
    BY <2>1, <2>2, <2>3
<1> QED
  BY <1>5, <1>6, <1>7

(***************************************************************************)
(* A commit takes the row of another request only if it deletes.           *)
(***************************************************************************)
LEMMA RootsKept ==
  ASSUME Base, Rows, NEW r \in Req, NEW q \in Request, Effect(r, q),
         db' = db \/ (txn # None /\ txn.by = r /\ db' = txn.db /\ q.pc = "done")
  PROVE  Rooted'
<1>1. Turn(r, q) /\ (req[r].pc = "idle" => Local(r, q))
  BY EffectTurns
<1>2. /\ req' \in [Req -> Request] /\ req'[r] = q
      /\ \A p \in Req \ {r} : req'[p] = req[p]
  BY <1>1, Others
<1>3. Deleters \subseteq Deleters'
  BY DeletersStay DEF Happens
<1> SUFFICES ASSUME NEW p \in Req, ~Rests(req'[p]), req'[p].op # "create", Sole(p)'
             PROVE  Roots(req[p])'
  BY DEF Rooted
<1>4. Sole(p)
  BY <1>3 DEF Sole
<1>5. CASE p = r
  <2>1. db' = db
    BY <1>2, <1>5 DEF Rests
  <2>2. CASE req[r].pc = "idle"
    <3>1. Roots(q)
      BY <1>1, <1>2, <1>5, <2>2 DEF Local
    <3> QED
      BY <1>2, <1>5, <2>1, <3>1 DEF Roots
  <2>3. CASE req[r].pc # "idle"
    <3>1. ~Rests(req[r]) /\ req[r].op # "create" /\ q.slot = req[r].slot /\ q.rid = req[r].rid
      BY <1>1, <1>2, <1>5, <2>3 DEF Turn, Rests
    <3>2. Roots(req[r])
      BY <1>4, <1>5, <3>1 DEF Rows, Rooted
    <3> QED
      BY <1>2, <1>5, <2>1, <3>1, <3>2 DEF Roots
  <2> QED
    BY <2>2, <2>3
<1>6. CASE p # r
  <2>1. req'[p] = req[p] /\ Roots(req[p]) /\ req[p].slot \in Slot
    BY <1>2, <1>4, <1>6, Active DEF Rows, Rooted
  <2>2. CASE db' = db
    BY <2>1, <2>2 DEF Roots
  <2>3. CASE txn # None /\ txn.by = r /\ db' = txn.db
    <3>1. req[r].op # "delete"
      BY <1>4, <1>6 DEF Sole, Deleters
    <3>2. db.rows[req[p].slot] # None /\ db.rows[req[p].slot].id = req[p].rid
      BY <2>1 DEF Roots
    <3>3. txn.db.rows[req[p].slot] # None /\ txn.db.rows[req[p].slot].id = req[p].rid
      BY <2>1, <2>3, <3>1, <3>2, Kept
    <3> QED
      BY <2>1, <2>3, <3>3 DEF Roots
  <2> QED
    BY <2>2, <2>3
<1> QED
  BY <1>5, <1>6

LEMMA EffectKeepsRows ==
  ASSUME Base, Rows, NEW r \in Req, NEW q \in Request, Effect(r, q)
  PROVE  Rows'
<1>1. Turn(r, q)
  BY EffectTurns
<1>2. /\ req' \in [Req -> Request] /\ req'[r] = q
      /\ \A p \in Req \ {r} : req'[p] = req[p]
  BY <1>1, Others
<1>3. CASE UNCHANGED <<db, txn>> /\ req[r].pc # "commit"
  <2>1. Delta'
    <3> SUFFICES ASSUME txn # None, txn.by # Job
                 PROVE  Writes(req[txn.by], txn.db.rows)'
      BY <1>3 DEF Delta, Rows
    <3>1. txn.by \in Req \ {r} /\ Writes(req[txn.by], txn.db.rows)
      BY <1>3, Writer DEF Rows, Delta
    <3>2. req'[txn.by] = req[txn.by]
      BY <1>2, <3>1
    <3> QED
      BY <1>3, <3>1, <3>2 DEF Writes
  <2>2. Rooted'
    BY <1>3, RootsKept
  <2> QED
    BY <1>3, <2>1, <2>2 DEF Rows, Latest
<1>4. CASE Inserts(r, q) \/ Removes(r, q) \/ Books(r, q)
  <2>1. /\ db' = db /\ txn'.by = r /\ txn' # None
        /\ Writes(q, txn'.db.rows) /\ UniqueIds(txn'.db.rows)
    BY <1>4, WritesNew
  <2>2. Delta'
    BY <1>2, <2>1, StoreAssumption DEF Delta, Writes
  <2>3. Rooted'
    BY <2>1, RootsKept
  <2> QED
    BY <2>1, <2>2, <2>3 DEF Rows, Latest
<1>5. CASE Closes(r, q)
  <2>1. txn # None /\ txn.by = r /\ txn' = None /\ (db' = txn.db \/ db' = db) /\ q.pc = "done"
    BY <1>5 DEF Closes, Base, Writing
  <2>2. Rooted'
    BY <2>1, RootsKept
  <2> QED
    BY <2>1, <2>2 DEF Rows, Latest, Delta
<1> QED
  BY <1>3, <1>4, <1>5 DEF Effect, Local, Makes, Undoes, Grows

LEMMA CrashRests ==
  ASSUME Crash, NEW r \in Req
  PROVE  Rests(req'[r])
<1>1. req'[r] = IF req[r].pc = "idle" THEN Away ELSE Ended(r)
  BY DEF Crash
<1> QED
  BY <1>1 DEF Rests, Away, Ended

LEMMA RowsStep ==
  ASSUME Base, Rows, Happens
  PROVE  Rows'
<1>1. CASE Audits
  BY <1>1 DEF Audits, Stands, Rows, Latest, Delta, Rooted, Writes, Sole, Deleters, Roots
<1>2. CASE Corrects
  <2>1. txn' # None
    BY <1>2, StoreAssumption DEF Corrects
  <2> QED
    BY <1>2, <2>1 DEF Corrects, Stands, Rows, Latest, Delta, Rooted, Sole, Deleters, Roots
<1>3. CASE Settles
  <2>1. txn # None /\ txn.by = Job /\ txn.db.rows = db.rows
    BY <1>3 DEF Settles, Base, Writing, Rows, Delta
  <2> QED
    BY <1>3, <2>1 DEF Settles, Stands, Rows, Latest, Delta, Rooted, Sole, Deleters, Roots
<1>4. CASE Crash
  <2>1. Rooted'
    BY <1>4, CrashRests DEF Rooted
  <2>2. db' = db /\ txn' = None
    BY <1>4 DEF Crash
  <2> QED
    BY <2>1, <2>2 DEF Rows, Latest, Delta
<1> QED
  BY <1>1, <1>2, <1>3, <1>4, EffectKeepsRows DEF Happens
-----------------------------------------------------------------------------
(***************************************************************************)
(* Homes.                                                                  *)
(***************************************************************************)
LEMMA FaultsStay ==
  ASSUME Base, Happens
  PROVE  faults \in Nat /\ faults' \in Nat /\ faults <= faults'
<1>1. faults \in Nat
  BY StoreAssumption DEF Base, TypeOK
<1>2. faults' = faults \/ faults' = faults + 1
  <2>1. ASSUME NEW r \in Req, NEW q \in Request, Effect(r, q)
        PROVE  faults' = faults \/ faults' = faults + 1
    BY <2>1 DEF Effect, Local, Makes, Undoes, Grows, Inserts, Removes, Books, Begins, Closes
  <2>2. CASE Audits \/ Corrects \/ Settles \/ Crash
    BY <2>2 DEF Audits, Corrects, Settles, Stands, Crash
  <2> QED
    BY <2>1, <2>2 DEF Happens
<1> QED
  BY <1>1, <1>2

LEMMA CalmBefore ==
  ASSUME Base, Happens, Calm'
  PROVE  Calm /\ (faults' # 0 => Deleters = {})
BY DeletersStay, FaultsStay DEF Calm

LEMMA SmoothBefore ==
  ASSUME Base, Happens, Smooth'
  PROVE  Smooth /\ Calm /\ Calm' /\ faults' = 0
BY DeletersStay, FaultsStay DEF Calm, Smooth

(***************************************************************************)
(* Most steps neither add a row nor take the directory of one.             *)
(***************************************************************************)
LEMMA TidyKept ==
  ASSUME Tidy,
         \A s \in Slot : Latest'.rows[s] # None => Latest.rows[s] # None,
         \/ \A s \in Slot : db'.rows[s] # None => db.rows[s] # None
         \/ \A s \in Slot : db'.rows[s] # None => Latest.rows[s] # None,
         \A s \in Slot : Latest'.rows[s] # None /\ dir[s[1]] # None => dir'[s[1]] # None,
         \A p \in Req : req'[p].pc = "insert" => req'[p] = req[p]
  PROVE  Tidy'
<1>1. OneHome(Latest.rows)'
  BY DEF Tidy, OneHome
<1>2. OneHome(db.rows)'
  BY DEF Tidy, OneHome
<1>3. Sheltered'
  BY DEF Tidy, Sheltered
<1>4. Clear'
  BY DEF Tidy, Clear, NameOf
<1> QED
  BY <1>1, <1>2, <1>3, <1>4 DEF Tidy

(***************************************************************************)
(* A create makes its directory only where none was, so no row of any kind *)
(* is there; a delete takes directory and row together, and, being the     *)
(* only one and never rolled back, for good.                               *)
(***************************************************************************)
LEMMA EffectKeepsTidy ==
  ASSUME Base, Rows, Tidy, NEW r \in Req, NEW q \in Request, Effect(r, q),
         faults' # 0 => Deleters = {}, \A d, e \in Deleters : d = e
  PROVE  Tidy'
<1>1. Turn(r, q)
  BY EffectTurns
<1>2. /\ req' \in [Req -> Request] /\ req'[r] = q
      /\ \A p \in Req \ {r} : req'[p] = req[p]
  BY <1>1, Others
<1>3. ~Rests(req[r]) => NameOf(r) \in Name /\ req[r].slot \in Slot /\ req[r].slot[1] = NameOf(r)
  BY NameTyped DEF NameOf
<1>4. dir \in [Name -> Dir \cup {None}] /\ \A s \in Slot : s[1] \in Name
  BY DEF Base, TypeOK, Slot
<1>5. CASE Local(r, q)
  <2>1. q.pc # "insert" /\ UNCHANGED <<db, txn, dir>>
    BY <1>5 DEF Local
  <2>2. Latest' = Latest /\ \A p \in Req : req'[p].pc = "insert" => req'[p] = req[p]
    BY <1>2, <2>1 DEF Latest
  <2> QED
    BY <2>1, <2>2, TidyKept
<1>6. CASE Makes(r, q)
  <2>1. /\ UNCHANGED <<db, txn>> /\ Latest' = Latest /\ dir[NameOf(r)] = None
        /\ dir' = [dir EXCEPT ![NameOf(r)] = EmptyDir] /\ ~Rests(req[r])
    BY <1>6 DEF Makes, Latest, Rests
  <2>2. q.slot = req[r].slot
    BY <1>1, <1>6 DEF Makes, Turn, Rests
  <2>3. \A s \in Slot : s[1] = NameOf(r) => Latest.rows[s] = None
    BY <2>1 DEF Tidy, Sheltered
  <2>4. Clear'
    <3> SUFFICES ASSUME NEW p \in Req, req'[p].pc = "insert", NEW s \in Slot,
                        s[1] = req'[p].slot[1]
                 PROVE  Latest.rows[s] = None
      BY <2>1 DEF Clear, NameOf
    <3>1. CASE p = r
      BY <1>2, <2>2, <2>3, <3>1 DEF NameOf
    <3>2. CASE p # r
      BY <1>2, <3>2 DEF Tidy, Clear, NameOf
    <3> QED
      BY <3>1, <3>2
  <2>5. Sheltered'
    BY <1>3, <1>4, <2>1, <2>3 DEF Tidy, Sheltered
  <2> QED
    BY <2>1, <2>4, <2>5 DEF Tidy
<1>7. CASE Undoes(r, q)
  <2>1. /\ UNCHANGED <<db, txn>> /\ Latest' = Latest /\ req[r].pc = "insert"
        /\ dir' = [dir EXCEPT ![NameOf(r)] = None] /\ q.pc = "done"
    BY <1>7 DEF Undoes, Latest
  <2>2. \A s \in Slot : s[1] = NameOf(r) => Latest.rows[s] = None
    BY <2>1 DEF Tidy, Clear
  <2>3. \A s \in Slot : Latest'.rows[s] # None /\ dir[s[1]] # None => dir'[s[1]] # None
    BY <1>4, <2>1, <2>2
  <2>4. \A p \in Req : req'[p].pc = "insert" => req'[p] = req[p]
    BY <1>2, <2>1
  <2> QED
    BY <2>1, <2>3, <2>4, TidyKept
<1>8. CASE Grows(r, q)
  <2>1. /\ UNCHANGED <<db, txn>> /\ Latest' = Latest /\ q.pc # "insert"
    BY <1>8 DEF Grows, Latest
  <2>2. PICK d \in Dir : dir' = [dir EXCEPT ![NameOf(r)] = d]
    BY <1>8 DEF Grows
  <2>3. \A s \in Slot : Latest'.rows[s] # None /\ dir[s[1]] # None => dir'[s[1]] # None
    BY <1>4, <2>2, StoreAssumption
  <2>4. \A p \in Req : req'[p].pc = "insert" => req'[p] = req[p]
    BY <1>2, <2>1
  <2> QED
    BY <2>1, <2>3, <2>4, TidyKept
<1>9. ASSUME Inserts(r, q) \/ Removes(r, q) \/ Books(r, q)
      PROVE  /\ db' = db /\ Latest = db /\ Latest' = txn'.db /\ Writes(q, Latest'.rows)
             /\ q.op = req[r].op /\ q.slot = req[r].slot /\ q.rid = req[r].rid
             /\ ~Rests(req[r]) /\ q.pc = "commit"
             /\ \A p \in Req : req'[p].pc = "insert" => req'[p] = req[p] /\ p # r
  <2>1. ~Rests(req[r]) /\ q.pc = "commit"
    BY <1>9 DEF Inserts, Removes, Books, Begins, Rests
  <2>2. q.op = req[r].op /\ q.slot = req[r].slot /\ q.rid = req[r].rid
    BY <1>1, <2>1 DEF Turn, Rests
  <2> QED
    BY <1>2, <1>9, <2>1, <2>2, WritesNew DEF Latest
<1>10. CASE Inserts(r, q)
  <2>1. /\ req[r].pc = "insert" /\ q.op = "create" /\ dir' = dir /\ dir[NameOf(r)] # None
    BY <1>9, <1>10 DEF Inserts, Base, Knows, Housed
  <2>2. /\ \A s \in Slot : s[1] = NameOf(r) => db.rows[s] = None
        /\ \A s \in Slot \ {req[r].slot} : Latest'.rows[s] = db.rows[s]
    BY <1>9, <1>10, <2>1 DEF Tidy, Clear, Writes
  <2>3. OneHome(Latest.rows)'
    BY <1>3, <1>9, <1>10, <2>2 DEF Tidy, OneHome
  <2>4. Sheltered'
    BY <1>3, <1>9, <1>10, <2>1, <2>2 DEF Tidy, Sheltered
  <2>5. Clear'
    <3> SUFFICES ASSUME NEW p \in Req, req'[p].pc = "insert", NEW s \in Slot,
                        s[1] = req'[p].slot[1]
                 PROVE  Latest'.rows[s] = None
      BY DEF Clear, NameOf
    <3>1. req'[p] = req[p] /\ p # r
      BY <1>9, <1>10
    <3>2. lock[NameOf(p)] = p /\ lock[NameOf(r)] = r
      BY <2>1, <3>1 DEF Base, Locked, Holding
    <3>3. s # req[r].slot /\ db.rows[s] = None
      BY <1>3, <1>9, <1>10, <3>1, <3>2 DEF Tidy, Clear, NameOf
    <3> QED
      BY <2>2, <3>3
  <2> QED
    BY <1>9, <1>10, <2>3, <2>4, <2>5 DEF Tidy
<1>11. CASE Removes(r, q)
  <2>1. req[r].op = "delete" /\ dir' = [dir EXCEPT ![NameOf(r)] = None]
    BY <1>11 DEF Removes, Base, Knows
  <2>2. Roots(req[r])
    <3>1. Sole(r)
      BY <2>1 DEF Sole, Deleters
    <3> QED
      BY <1>9, <1>11, <2>1, <3>1 DEF Rows, Rooted
  <2>3. req[r].slot \in RowsWithId(db.rows, req[r].rid)
    BY <1>3, <1>9, <1>11, <2>2 DEF Roots, RowsWithId
  <2>4. \A s \in Slot : Latest'.rows[s] # None =>
          db.rows[s] # None /\ s \notin RowsWithId(db.rows, req[r].rid)
    BY <1>9, <1>11, <2>1 DEF Writes
  <2>5. \A s \in Slot : Latest'.rows[s] # None => s[1] # NameOf(r)
    BY <1>3, <1>9, <1>11, <2>2, <2>3, <2>4 DEF Tidy, OneHome, Roots
  <2>6. \A s \in Slot : Latest'.rows[s] # None /\ dir[s[1]] # None => dir'[s[1]] # None
    BY <1>4, <2>1, <2>5
  <2> QED
    BY <1>9, <1>11, <2>4, <2>6, TidyKept
<1>12. CASE Books(r, q)
  <2>1. q.op \in {"push", "upload", "edit"} /\ dir' = dir
    BY <1>9, <1>12 DEF Books, Base, Knows
  <2>2. \A s \in Slot : Latest'.rows[s] # None => db.rows[s] # None
    BY <1>9, <1>12, <2>1 DEF Writes, RowsWithId
  <2> QED
    BY <1>9, <1>12, <2>1, <2>2, TidyKept
<1>13. CASE Closes(r, q)
  <2>1. txn # None /\ txn.by = r /\ txn' = None /\ dir' = dir /\ q.pc = "done"
        /\ Latest = txn.db /\ Latest' = db'
    BY <1>13 DEF Closes, Base, Writing, Latest
  <2>2. \A p \in Req : req'[p].pc = "insert" => req'[p] = req[p]
    BY <1>2, <2>1
  <2>3. CASE db' = txn.db
    <3>1. \A s \in Slot : db'.rows[s] # None => Latest.rows[s] # None
      BY <2>1, <2>3
    <3> QED
      BY <2>1, <2>2, <3>1, TidyKept
  <2>4. CASE db' = db /\ faults' = faults + 1
    <3>1. Deleters = {}
      BY <2>4, StoreAssumption DEF Base, TypeOK
    <3>2. req[r].op # "delete"
      BY <3>1 DEF Deleters
    <3>3. \A s \in Slot : db.rows[s] # None => txn.db.rows[s] # None
      BY <2>1, <3>2, Kept, StoreAssumption
    <3> QED
      BY <2>1, <2>2, <2>4, <3>3, TidyKept
  <2> QED
    BY <1>13, <2>3, <2>4 DEF Closes
<1> QED
  BY <1>5, <1>6, <1>7, <1>8, <1>10, <1>11, <1>12, <1>13 DEF Effect

LEMMA HomesStep ==
  ASSUME Base, Rows, Homes, Happens
  PROVE  Homes'
<1> SUFFICES ASSUME Calm' PROVE Tidy'
  BY DEF Homes
<1>1. Calm /\ (faults' # 0 => Deleters = {}) /\ \A d, e \in Deleters : d = e
  BY CalmBefore DEF Calm
<1>2. Tidy
  BY <1>1 DEF Homes
<1>3. CASE Audits
  BY <1>2, <1>3, TidyKept DEF Audits, Stands, Latest
<1>4. CASE Corrects
  <2>1. txn' # None
    BY <1>4, StoreAssumption DEF Corrects
  <2>2. Latest'.rows = Latest.rows /\ db' = db
    BY <1>4, <2>1 DEF Corrects, Latest
  <2> QED
    BY <1>2, <1>4, <2>2, TidyKept DEF Corrects, Stands
<1>5. CASE Settles
  <2>1. txn # None /\ Latest' = Latest /\ db' = Latest
    BY <1>5 DEF Settles, Base, Writing, Latest
  <2> QED
    BY <1>2, <1>5, <2>1, TidyKept DEF Settles, Stands
<1>6. CASE Crash
  <2>1. faults' # 0 /\ Latest' = db' /\ UNCHANGED <<db, dir>>
    BY <1>6, FaultsStay DEF Crash, Latest
  <2>2. Deleters = {}
    BY <1>1, <2>1
  <2>3. \A s \in Slot : db.rows[s] # None => Latest.rows[s] # None
    <3>1. CASE txn = None
      BY <3>1 DEF Latest
    <3>2. CASE txn # None
      <4>1. txn.by # Job => req[txn.by].op # "delete"
        BY <2>2, <3>2, Writer DEF Deleters
      <4> QED
        BY <3>2, <4>1, Kept DEF Latest
    <3> QED
      BY <3>1, <3>2
  <2>4. \A p \in Req : req'[p].pc # "insert"
    BY <1>6, CrashRests DEF Rests
  <2> QED
    BY <1>2, <2>1, <2>3, <2>4, TidyKept
<1> QED
  BY <1>1, <1>2, <1>3, <1>4, <1>5, <1>6, EffectKeepsTidy DEF Happens

(***************************************************************************)
(* Orphans.                                                                *)
(***************************************************************************)
LEMMA ClaimKept ==
  ASSUME NEW n \in Name, Claimed(n),
         \A s \in Slot : s[1] = n /\ Latest.rows[s] # None => Latest'.rows[s] # None,
         \A p \in Req : req[p].pc = "insert" /\ NameOf(p) = n => req'[p] = req[p]
  PROVE  Claimed(n)'
<1>1. CASE \E s \in Slot : s[1] = n /\ Latest.rows[s] # None
  BY <1>1 DEF Claimed
<1>2. CASE \E p \in Req : req[p].pc = "insert" /\ NameOf(p) = n
  BY <1>2 DEF Claimed, NameOf
<1> QED
  BY <1>1, <1>2 DEF Claimed

LEMMA EffectKeepsOrphans ==
  ASSUME Base, Rows, NEW r \in Req, NEW q \in Request, Effect(r, q),
         faults' = 0, \A d, e \in Deleters : d = e,
         \A n \in Name : dir[n] # None => Claimed(n),
         NEW n \in Name, dir'[n] # None
  PROVE  Claimed(n)'
<1>1. Turn(r, q)
  BY EffectTurns
<1>2. /\ req' \in [Req -> Request] /\ req'[r] = q
      /\ \A p \in Req \ {r} : req'[p] = req[p]
  BY <1>1, Others
<1>3. ~Rests(req[r]) => NameOf(r) \in Name /\ req[r].slot \in Slot /\ req[r].slot[1] = NameOf(r)
  BY NameTyped DEF NameOf
<1>4. dir \in [Name -> Dir \cup {None}] /\ \A s \in Slot : s[1] \in Name
  BY DEF Base, TypeOK, Slot
<1>5. req[r].pc # "insert" => \A p \in Req : req[p].pc = "insert" => req'[p] = req[p]
  BY <1>2
<1>6. CASE Local(r, q)
  <2>1. UNCHANGED <<db, txn, dir>> /\ req[r].pc # "insert"
    BY <1>6 DEF Local
  <2> QED
    BY <1>5, <2>1, ClaimKept DEF Latest
<1>7. CASE Makes(r, q)
  <2>1. /\ UNCHANGED <<db, txn>> /\ req[r].pc = "init" /\ q.pc = "insert" /\ ~Rests(req[r])
        /\ dir' = [dir EXCEPT ![NameOf(r)] = EmptyDir]
    BY <1>7 DEF Makes, Rests
  <2>2. CASE n = NameOf(r)
    <3>1. req'[r].pc = "insert" /\ req'[r].slot[1] = n
      BY <1>1, <1>2, <2>1, <2>2 DEF Turn, NameOf, Rests
    <3> QED
      BY <3>1 DEF Claimed, NameOf
  <2>3. CASE n # NameOf(r)
    <3>1. dir[n] # None
      BY <1>4, <2>1, <2>3
    <3> QED
      BY <1>5, <2>1, <3>1, ClaimKept DEF Latest
  <2> QED
    BY <2>2, <2>3
<1>8. CASE Undoes(r, q)
  <2>1. /\ UNCHANGED <<db, txn>> /\ ~Rests(req[r]) /\ dir' = [dir EXCEPT ![NameOf(r)] = None]
    BY <1>8 DEF Undoes, Rests
  <2>2. n # NameOf(r) /\ dir[n] # None
    BY <1>3, <1>4, <2>1
  <2>3. \A p \in Req : req[p].pc = "insert" /\ NameOf(p) = n => req'[p] = req[p]
    BY <1>2, <2>2
  <2> QED
    BY <2>1, <2>2, <2>3, ClaimKept DEF Latest
<1>9. CASE Grows(r, q)
  <2>1. /\ UNCHANGED <<db, txn>> /\ req[r].pc # "insert" /\ dir[NameOf(r)] # None
    BY <1>9 DEF Grows
  <2>2. PICK d \in Dir : dir' = [dir EXCEPT ![NameOf(r)] = d]
    BY <1>9 DEF Grows
  <2>3. dir[n] # None
    BY <1>4, <2>1, <2>2
  <2> QED
    BY <1>5, <2>1, <2>3, ClaimKept DEF Latest
<1>10. ASSUME Inserts(r, q) \/ Removes(r, q) \/ Books(r, q)
      PROVE  /\ Latest = db /\ Latest' = txn'.db /\ Writes(q, Latest'.rows)
             /\ q.op = req[r].op /\ q.slot = req[r].slot /\ q.rid = req[r].rid
             /\ ~Rests(req[r])
  <2>1. ~Rests(req[r]) /\ q.pc = "commit"
    BY <1>10 DEF Inserts, Removes, Books, Begins, Rests
  <2>2. q.op = req[r].op /\ q.slot = req[r].slot /\ q.rid = req[r].rid
    BY <1>1, <2>1 DEF Turn, Rests
  <2> QED
    BY <1>10, <2>1, <2>2, WritesNew DEF Latest
<1>11. CASE Inserts(r, q)
  <2>1. /\ req[r].pc = "insert" /\ q.op = "create" /\ dir' = dir
    BY <1>10, <1>11 DEF Inserts, Base, Knows
  <2>2. CASE n = NameOf(r)
    <3>1. Latest'.rows[req[r].slot] # None
      BY <1>3, <1>10, <1>11, <2>1 DEF Writes
    <3> QED
      BY <1>3, <1>10, <1>11, <2>2, <3>1 DEF Claimed
  <2>3. CASE n # NameOf(r)
    <3>1. \A s \in Slot : Latest.rows[s] # None => Latest'.rows[s] # None
      BY <1>10, <1>11, <2>1 DEF Writes
    <3>2. \A p \in Req : req[p].pc = "insert" /\ NameOf(p) = n => req'[p] = req[p]
      BY <1>2, <2>3
    <3> QED
      BY <2>1, <3>1, <3>2, ClaimKept
  <2> QED
    BY <2>2, <2>3
<1>12. CASE Removes(r, q)
  <2>1. /\ req[r].op = "delete" /\ dir' = [dir EXCEPT ![NameOf(r)] = None]
        /\ req[r].pc # "insert"
    BY <1>12 DEF Removes, Base, Knows
  <2>2. n # NameOf(r) /\ dir[n] # None
    BY <1>3, <1>4, <1>10, <1>12, <2>1
  <2>3. Roots(req[r])
    <3>1. Sole(r)
      BY <2>1 DEF Sole, Deleters
    <3> QED
      BY <1>10, <1>12, <2>1, <3>1 DEF Rows, Rooted
  <2>4. \A s \in RowsWithId(db.rows, req[r].rid) : s = req[r].slot
    BY <1>3, <1>10, <1>12, <2>3 DEF Roots, RowsWithId, Rows, UniqueIds
  <2>5. \A s \in Slot : s[1] = n /\ Latest.rows[s] # None => Latest'.rows[s] # None
    BY <1>3, <1>10, <1>12, <2>1, <2>2, <2>4 DEF Writes
  <2> QED
    BY <1>5, <2>1, <2>2, <2>5, ClaimKept
<1>13. CASE Books(r, q)
  <2>1. q.op \in {"push", "upload", "edit"} /\ dir' = dir /\ req[r].pc # "insert"
    BY <1>10, <1>13 DEF Books, Base, Knows
  <2>2. \A s \in Slot : Latest.rows[s] # None => Latest'.rows[s] # None
    BY <1>10, <1>13, <2>1 DEF Writes
  <2> QED
    BY <1>5, <2>1, <2>2, ClaimKept
<1>14. CASE Closes(r, q)
  <2>1. txn # None /\ txn.by = r /\ txn' = None /\ dir' = dir /\ req[r].pc # "insert"
    BY <1>14 DEF Closes, Base, Writing
  <2>2. db' = txn.db
    BY <1>14, FaultsStay, StoreAssumption DEF Closes, Happens
  <2>3. Latest' = Latest
    BY <2>1, <2>2 DEF Latest
  <2> QED
    BY <1>5, <2>1, <2>3, ClaimKept
<1> QED
  BY <1>6, <1>7, <1>8, <1>9, <1>11, <1>12, <1>13, <1>14 DEF Effect

LEMMA OrphansStep ==
  ASSUME Base, Rows, Orphans, Happens
  PROVE  Orphans'
<1> SUFFICES ASSUME Smooth', NEW n \in Name, dir'[n] # None
             PROVE  Claimed(n)'
  BY DEF Orphans
<1>1. Smooth /\ faults' = 0
  BY SmoothBefore
<1>2. (\A d, e \in Deleters : d = e) /\ \A m \in Name : dir[m] # None => Claimed(m)
  BY <1>1 DEF Orphans, Smooth
<1>3. CASE Audits \/ Corrects \/ Settles
  <2>1. dir' = dir /\ req' = req
    BY <1>3 DEF Audits, Corrects, Settles, Stands
  <2>2. Latest'.rows = Latest.rows
    <3>1. CASE Audits
      BY <3>1 DEF Audits, Latest
    <3>2. CASE Corrects
      <4>1. txn' # None
        BY <3>2, StoreAssumption DEF Corrects
      <4> QED
        BY <3>2, <4>1 DEF Corrects, Latest
    <3>3. CASE Settles
      BY <3>3 DEF Settles, Base, Writing, Latest
    <3> QED
      BY <1>3, <3>1, <3>2, <3>3
  <2> QED
    BY <1>2, <2>1, <2>2, ClaimKept
<1>4. CASE Crash
  BY <1>1, <1>4, FaultsStay DEF Crash
<1> QED
  BY <1>1, <1>2, <1>3, <1>4, EffectKeepsOrphans DEF Happens
-----------------------------------------------------------------------------
(***************************************************************************)
(* Revisions.  Without deletes a row stays, and with it its history.       *)
(***************************************************************************)
LEMMA LatestKeeps ==
  ASSUME Base, Rows, Deleters = {}, NEW s \in Slot, db.rows[s] # None
  PROVE  Latest.rows[s] # None /\ Latest.rows[s].id = db.rows[s].id
<1>1. CASE txn = None
  BY <1>1 DEF Latest
<1>2. CASE txn # None
  <2>1. txn.by # Job => req[txn.by].op # "delete"
    BY <1>2, Writer DEF Deleters
  <2> QED
    BY <1>2, <2>1, Kept DEF Latest
<1> QED
  BY <1>1, <1>2

LEMMA RootedWhenNoDelete ==
  ASSUME Base, Rows, Deleters = {}, NEW r \in Req, ~Rests(req[r]), req[r].op # "create"
  PROVE  /\ req[r].slot \in Slot /\ db.rows[req[r].slot] # None
         /\ db.rows[req[r].slot].id = req[r].rid
         /\ Latest.rows[req[r].slot] # None
<1>1. Roots(req[r]) /\ req[r].slot \in Slot
  BY Active DEF Rows, Rooted, Sole
<1> QED
  BY <1>1, LatestKeeps DEF Roots

LEMMA HasGrows ==
  ASSUME Base, NEW n \in Name, NEW c, Has(n, c), NEW r \in Req, NEW d \in Dir,
         dir'[n] = d, dir[n] # None,
         d.log = dir[n].log \/ d.log = Append(dir[n].log, r)
  PROVE  Has(n, c)'
<1>1. dir[n].log \in Seq(Req) /\ LogOf(n) = dir[n].log /\ LogOf(n)' = d.log
  BY LogTyped, StoreAssumption DEF LogOf, Dir, Log
<1>2. PICK i \in 1 .. Len(dir[n].log) : dir[n].log[i] = c
  BY <1>1 DEF Has
<1>3. i \in 1 .. Len(d.log) /\ d.log[i] = c
  BY <1>1, <1>2
<1> QED
  BY <1>1, <1>3 DEF Has

(***************************************************************************)
(* No step takes a commit from the history of a repository that has a row. *)
(***************************************************************************)
LEMMA HistoryStands ==
  ASSUME Base, Tidy, NEW r \in Req, NEW q \in Request, Effect(r, q), req[r].op # "delete",
         NEW s \in Slot, Latest.rows[s] # None, NEW c, Has(s[1], c)
  PROVE  Has(s[1], c)'
<1>1. s[1] \in Name /\ dir \in [Name -> Dir \cup {None}]
  BY DEF Slot, Base, TypeOK
<1>2. CASE UNCHANGED dir
  BY <1>2 DEF Has, LogOf
<1>3. CASE Makes(r, q)
  <2>1. dir[NameOf(r)] = None /\ dir' = [dir EXCEPT ![NameOf(r)] = EmptyDir]
    BY <1>3 DEF Makes
  <2>2. s[1] # NameOf(r)
    BY <2>1 DEF Tidy, Sheltered
  <2> QED
    BY <1>1, <2>1, <2>2 DEF Has, LogOf
<1>4. CASE Undoes(r, q)
  <2>1. req[r].pc = "insert" /\ dir' = [dir EXCEPT ![NameOf(r)] = None]
    BY <1>4 DEF Undoes
  <2>2. s[1] # NameOf(r)
    BY <2>1 DEF Tidy, Clear
  <2> QED
    BY <1>1, <2>1, <2>2 DEF Has, LogOf
<1>5. CASE Grows(r, q)
  <2>1. PICK d \in Dir :
          /\ dir' = [dir EXCEPT ![NameOf(r)] = d] /\ dir[NameOf(r)] # None
          /\ d.log = dir[NameOf(r)].log \/ d.log = Append(dir[NameOf(r)].log, r)
    BY <1>5 DEF Grows
  <2>2. CASE s[1] # NameOf(r)
    BY <1>1, <2>1, <2>2 DEF Has, LogOf
  <2>3. CASE s[1] = NameOf(r)
    BY <1>1, <2>1, <2>3, HasGrows
  <2> QED
    BY <2>2, <2>3
<1>6. ~Removes(r, q)
  BY DEF Removes, Base, Knows
<1> QED
  BY <1>2, <1>3, <1>4, <1>5, <1>6 DEF Effect, Local, Inserts, Books, Closes

LEMMA TipShown ==
  ASSUME NEW log \in Seq(Req), log # <<>>
  PROVE  \E i \in 1 .. Len(log) : log[i] = Tip(log)
BY LastIsMember DEF Tip

LEMMA EffectKeepsShows ==
  ASSUME Base, Rows, Tidy, Deleters = {}, NEW r \in Req, NEW q \in Request, Effect(r, q),
         \A p \in Req : Shows(req[p]), NEW p \in Req
  PROVE  Shows(req[p])'
<1>1. Turn(r, q)
  BY EffectTurns
<1>2. /\ req' \in [Req -> Request] /\ req'[r] = q
      /\ \A o \in Req \ {r} : req'[o] = req[o]
  BY <1>1, Others
<1>3. req[r].op # "delete"
  BY DEF Deleters
<1> SUFFICES ASSUME req'[p].pc \in {"read", "walk", "record"}
             PROVE  Has(req[p].slot[1], Tip(req[p].seen))'
  BY DEF Shows
<1>4. CASE req'[p] = req[p]
  <2>1. ~Rests(req[p]) /\ req[p].op # "create" /\ Has(req[p].slot[1], Tip(req[p].seen))
    BY <1>4 DEF Rests, Base, Knows, Shows
  <2>2. req[p].slot \in Slot /\ Latest.rows[req[p].slot] # None
    BY <2>1, RootedWhenNoDelete
  <2> QED
    BY <1>3, <1>4, <2>1, <2>2, HistoryStands
<1>5. CASE p = r
  <2>1. q.pc \in {"read", "walk", "record"} /\ q.seen \in Seq(Req) /\ q.seen # <<>>
    BY <1>1, <1>2, <1>5 DEF Turn, Knows, Request, Log
  <2>2. CASE Local(r, q)
    <3>1. dir' = dir
      BY <2>2 DEF Local
    <3>2. CASE q.seen = req[r].seen /\ req[r].pc \in {"read", "walk", "record"}
      <4>1. q.slot = req[r].slot
        BY <1>1, <2>1, <3>2 DEF Turn, Rests
      <4>2. Has(req[r].slot[1], Tip(req[r].seen))
        BY <3>2 DEF Shows
      <4> QED
        BY <1>2, <1>5, <3>1, <3>2, <4>1, <4>2 DEF Has, LogOf
    <3>3. CASE q.seen = LogOf(q.slot[1])
      BY <1>2, <1>5, <2>1, <3>1, <3>3, TipShown DEF Has, LogOf
    <3> QED
      BY <2>1, <2>2, <3>2, <3>3 DEF Local
  <2>3. CASE Grows(r, q)
    <3>1. PICK d \in Dir : dir' = [dir EXCEPT ![NameOf(r)] = d] /\ q.seen = d.log
      BY <2>1, <2>3 DEF Grows
    <3>2. ~Rests(req[r]) /\ ~Rests(q)
      BY <2>1, <2>3 DEF Grows, Rests
    <3>3. q.slot = req[r].slot
      BY <1>1, <3>2 DEF Turn, Rests
    <3>4. NameOf(r) \in Name /\ NameOf(r) = q.slot[1]
      BY <3>2, <3>3, NameTyped DEF NameOf
    <3>5. dir \in [Name -> Dir \cup {None}]
      BY BaseTypes
    <3>6. LogOf(q.slot[1])' = q.seen
      BY <3>1, <3>4, <3>5, StoreAssumption DEF LogOf
    <3> QED
      BY <1>2, <1>5, <2>1, <3>6, TipShown DEF Has
  <2> QED
    BY <2>1, <2>2, <2>3 DEF Effect, Makes, Undoes, Inserts, Removes, Books, Begins, Closes
<1> QED
  BY <1>2, <1>4, <1>5

LEMMA EffectKeepsNames ==
  ASSUME Base, Rows, Tidy, Deleters = {}, NEW r \in Req, NEW q \in Request, Effect(r, q),
         Names(db), Names(Latest), \A p \in Req : Shows(req[p])
  PROVE  Names(db)' /\ Names(Latest)'
<1>1. Turn(r, q)
  BY EffectTurns
<1>2. req[r].op # "delete"
  BY DEF Deleters
<1>3. \A s \in Slot : \A c : Latest.rows[s] # None /\ Has(s[1], c) => Has(s[1], c)'
  BY <1>2, HistoryStands
<1>4. \A s \in Slot : db.rows[s] # None =>
        Latest.rows[s] # None /\ Latest.rows[s].id = db.rows[s].id
  BY LatestKeeps
<1>5. db' = db => Names(db)'
  <2> SUFFICES ASSUME db' = db PROVE Names(db)'
    OBVIOUS
  <2>1. \A s \in Slot : \A c : db.rows[s] # None /\ Has(s[1], c) => Has(s[1], c)'
    BY <1>3, <1>4
  <2> QED
    BY <2>1 DEF Names
<1>6. Latest' = Latest => Names(Latest)'
  BY <1>3 DEF Names
<1>7. CASE UNCHANGED <<db, txn>>
  BY <1>5, <1>6, <1>7 DEF Latest
<1>8. CASE Inserts(r, q) \/ Books(r, q)
  <2>1. /\ db' = db /\ dir' = dir /\ Latest' = txn'.db /\ Writes(q, Latest'.rows)
        /\ q.op = req[r].op /\ q.slot = req[r].slot /\ q.rid = req[r].rid
    <3>1. ~Rests(req[r]) /\ ~Rests(q)
      BY <1>8 DEF Inserts, Books, Begins, Rests
    <3>2. q.op = req[r].op /\ q.slot = req[r].slot /\ q.rid = req[r].rid
      BY <1>1, <3>1 DEF Turn, Rests
    <3> QED
      BY <1>8, <3>2, WritesNew DEF Latest, Inserts, Books, Begins
  <2>2. \A n, c : Has(n, c)' <=> Has(n, c)
    BY <2>1 DEF Has, LogOf
  <2>3. q.op \in {"create", "push", "upload", "edit"}
    BY <1>8, <2>1 DEF Inserts, Books, Base, Knows
  <2>4. \A s \in Slot : db.rows[s] # None =>
          Latest'.rows[s] # None /\ Latest'.rows[s].id = db.rows[s].id
    BY <2>1, <2>3 DEF Writes
  <2>5. db.revs \in SUBSET Rev /\ db \in Database
    BY DEF Base, TypeOK, Database
  <2>6. CASE Inserts(r, q)
    <3>1. PICK data \in Database :
            /\ data = [db EXCEPT !.rows[req[r].slot] = [id |-> NextId(db.rows), size |-> 0]]
            /\ txn' = [by |-> r, db |-> data]
      BY <2>6 DEF Inserts, Begins
    <3>2. Latest'.revs = db.revs
      BY <2>1, <2>5, <3>1 DEF Database
    <3> QED
      BY <1>5, <2>1, <2>2, <2>4, <3>2 DEF Names
  <2>7. CASE Books(r, q)
    <3>1. /\ txn' = [by |-> r, db |-> IF q.op = "edit" THEN [db EXCEPT !.revs = @ \cup {Booked(r)}]
                                                      ELSE WithSize(r)]
          /\ req[r].pc = "record"
      BY <2>7 DEF Books, Begins
    <3>2. Latest'.revs = db.revs \cup {Booked(r)}
      BY <2>1, <2>5, <3>1 DEF Database, WithSize
    <3>3. /\ req[r].slot \in Slot /\ db.rows[req[r].slot] # None
          /\ db.rows[req[r].slot].id = req[r].rid
      BY <3>1, RootedWhenNoDelete DEF Base, Knows, Rests
    <3>4. Has(req[r].slot[1], Tip(req[r].seen))
      BY <3>1 DEF Shows
    <3>5. Booked(r).repo = req[r].rid /\ Booked(r).sha = Tip(req[r].seen)
      BY DEF Booked, Tip
    <3>6. Names(Latest)'
      <4> SUFFICES ASSUME NEW v \in Latest'.revs
                   PROVE  \E s \in Slot : /\ Latest'.rows[s] # None
                                          /\ Latest'.rows[s].id = v.repo /\ Has(s[1], v.sha)
        BY <2>2 DEF Names
      <4>1. CASE v \in db.revs
        BY <2>4, <4>1 DEF Names
      <4>2. CASE v = Booked(r)
        BY <2>4, <3>3, <3>4, <3>5, <4>2
      <4> QED
        BY <3>2, <4>1, <4>2
    <3> QED
      BY <1>5, <2>1, <3>6
  <2> QED
    BY <1>8, <2>6, <2>7
<1>9. CASE Closes(r, q)
  <2>1. txn # None /\ txn' = None /\ dir' = dir /\ Latest = txn.db /\ Latest' = db'
    BY <1>9 DEF Closes, Base, Writing, Latest
  <2>2. db' = db \/ db' = Latest
    BY <1>9, <2>1 DEF Closes
  <2>3. CASE db' = Latest
    BY <1>6, <2>1, <2>3
  <2>4. CASE db' = db
    BY <1>5, <2>1, <2>4
  <2> QED
    BY <2>2, <2>3, <2>4
<1>10. ~Removes(r, q)
  BY <1>2 DEF Removes, Base, Knows
<1> QED
  BY <1>7, <1>8, <1>9, <1>10 DEF Effect, Local, Makes, Undoes, Grows

LEMMA RevisionsStep ==
  ASSUME Base, Rows, Homes, Revisions, Happens
  PROVE  Revisions'
<1> SUFFICES ASSUME Deleters' = {}
             PROVE  Names(db)' /\ Names(Latest)' /\ \A p \in Req : Shows(req[p])'
  BY DEF Revisions
<1>1. Deleters = {} /\ Tidy
  BY DeletersStay DEF Homes, Calm
<1>2. Names(db) /\ Names(Latest) /\ \A p \in Req : Shows(req[p])
  BY <1>1 DEF Revisions
<1>3. CASE Audits \/ Corrects \/ Settles
  <2>1. UNCHANGED <<dir, req>>
    BY <1>3 DEF Audits, Corrects, Settles, Stands
  <2>2. /\ Latest'.rows = Latest.rows /\ Latest'.revs = Latest.revs
        /\ db' = db \/ db' = Latest
    <3>1. CASE Audits
      BY <3>1 DEF Audits, Latest
    <3>2. CASE Corrects
      <4>1. txn' # None
        BY <3>2, StoreAssumption DEF Corrects
      <4> QED
        BY <3>2, <4>1 DEF Corrects, Latest
    <3>3. CASE Settles
      BY <3>3 DEF Settles, Base, Writing, Latest
    <3> QED
      BY <1>3, <3>1, <3>2, <3>3
  <2>3. \A p \in Req : Shows(req[p])'
    BY <1>2, <2>1 DEF Shows, Has, LogOf
  <2>4. Names(db)' /\ Names(Latest)'
    BY <1>2, <2>1, <2>2 DEF Names, Has, LogOf
  <2> QED
    BY <2>3, <2>4
<1>4. CASE Crash
  <2>1. UNCHANGED <<db, dir>> /\ Latest' = db
    BY <1>4 DEF Crash, Latest
  <2>2. \A p \in Req : Shows(req[p])'
    BY <1>4, CrashRests DEF Shows, Rests
  <2>3. Names(db)' /\ Names(Latest)'
    BY <1>2, <2>1 DEF Names, Has, LogOf
  <2> QED
    BY <2>2, <2>3
<1>5. ASSUME NEW r \in Req, NEW q \in Request, Effect(r, q)
      PROVE  Names(db)' /\ Names(Latest)' /\ \A p \in Req : Shows(req[p])'
  <2>1. \A p \in Req : Shows(req[p])'
    BY <1>1, <1>2, <1>5, EffectKeepsShows
  <2>2. Names(db)' /\ Names(Latest)'
    BY <1>1, <1>2, <1>5, EffectKeepsNames
  <2> QED
    BY <2>1, <2>2
<1> QED
  BY <1>3, <1>4, <1>5 DEF Happens
-----------------------------------------------------------------------------
(***************************************************************************)
(* Ledger.                                                                 *)
(***************************************************************************)
LEMMA PlainBefore ==
  ASSUME Base, Happens, Plain'
  PROVE  Plain
<1> SUFFICES ASSUME NEW p \in Req
             PROVE  req[p].op \in {"create", "push", "edit", None}
  BY DEF Plain, Only
<1>1. req'[p].op \in {"create", "push", "edit", None}
  BY DEF Plain, Only
<1>2. ASSUME NEW r \in Req, NEW q \in Request, Effect(r, q)
      PROVE  req[p].op \in {"create", "push", "edit", None}
  <2>1. Turn(r, q)
    BY <1>2, EffectTurns
  <2>2. /\ req' \in [Req -> Request] /\ req'[r] = q
        /\ \A o \in Req \ {r} : req'[o] = req[o]
    BY <2>1, Others
  <2>3. req[r].pc = "idle" => req[r].op = None
    BY DEF Base, Knows
  <2> QED
    BY <1>1, <2>1, <2>2, <2>3 DEF Turn
<1>3. CASE Audits \/ Corrects \/ Settles
  BY <1>1, <1>3 DEF Audits, Corrects, Settles, Stands
<1>4. CASE Crash
  <2>1. CASE req[p].pc = "idle"
    BY <2>1 DEF Base, Knows
  <2>2. CASE req[p].pc # "idle"
    <3>1. req'[p] = Ended(p)
      BY <1>4, <2>2 DEF Crash
    <3>2. Ended(p).op = req[p].op
      BY DEF Ended, Away
    <3> QED
      BY <1>1, <3>1, <3>2
  <2> QED
    BY <2>1, <2>2
<1> QED
  BY <1>2, <1>3, <1>4 DEF Happens

LEMMA RootedWhenPlain ==
  ASSUME Base, Rows, Plain, NEW r \in Req, ~Rests(req[r]), req[r].op # "create"
  PROVE  /\ req[r].slot \in Slot /\ db.rows[req[r].slot] # None
         /\ db.rows[req[r].slot].id = req[r].rid
         /\ RowsWithId(db.rows, req[r].rid) = {req[r].slot}
<1>1. Deleters = {}
  BY StoreAssumption DEF Plain, Only, Deleters, Op
<1>2. /\ req[r].slot \in Slot /\ db.rows[req[r].slot] # None
      /\ db.rows[req[r].slot].id = req[r].rid
  BY <1>1, RootedWhenNoDelete
<1>3. UniqueIds(db.rows)
  BY DEF Rows
<1> QED
  BY <1>2, <1>3 DEF UniqueIds, RowsWithId

LEMMA SizesTyped ==
  ASSUME NEW rows \in [Slot -> Row \cup {None}]
  PROVE  Sizes(rows) \in [Slot -> Nat]
BY DEF Sizes, Row

(***************************************************************************)
(* A row that is written changes the sum by as much as its size.           *)
(***************************************************************************)
LEMMA SizesChange ==
  ASSUME NEW rows \in [Slot -> Row \cup {None}], NEW new \in [Slot -> Row \cup {None}],
         NEW s \in Slot, NEW n \in Nat, new[s] # None, new[s].size = n,
         \A t \in Slot \ {s} : new[t] = rows[t]
  PROVE  /\ SumFunction(Sizes(new)) = SumFunction(Sizes(rows)) - Sizes(rows)[s] + n
         /\ Sizes(rows)[s] <= SumFunction(Sizes(rows))
         /\ SumFunction(Sizes(rows)) \in Nat
<1> DEFINE f == Sizes(rows)
           rest == [f EXCEPT ![s] = 0]
<1>1. f \in [Slot -> Nat] /\ IsFiniteSet(Slot)
  BY SizesTyped, SlotIsFinite
<1>2. Sizes(new) = [f EXCEPT ![s] = n]
  <2>1. \A t \in Slot : Sizes(new)[t] = IF t = s THEN n ELSE f[t]
    BY DEF Sizes
  <2>2. Sizes(new) = [t \in Slot |-> Sizes(new)[t]] /\ f = [t \in Slot |-> f[t]]
    BY DEF Sizes
  <2> HIDE DEF f
  <2> QED
    BY <2>1, <2>2
<1> HIDE DEF f
<1>3. \A v \in Nat : SumFunction([f EXCEPT ![s] = v]) = SumFunction(f) - f[s] + v
  BY <1>1, SumChanges
<1>4. SumFunction(rest) = SumFunction(f) - f[s] + 0
  <2> HIDE DEF rest
  <2>1. \A v : v = 0 => rest = [f EXCEPT ![s] = v]
    BY DEF rest
  <2> QED
    BY <1>3, <2>1
<1>5. rest \in [Slot -> Nat]
  BY <1>1
<1> HIDE DEF rest
<1>6. SumFunction(f) \in Nat /\ f[s] \in Nat /\ SumFunction(rest) \in Nat
  BY <1>1, <1>5, SumIsNat
<1>7. f[s] <= SumFunction(f)
  BY <1>4, <1>6
<1> QED
  BY <1>2, <1>3, <1>6, <1>7 DEF f

LEMMA InsertsBalance ==
  ASSUME Base, Rows, Plain, Balanced(db), NEW r \in Req, NEW q \in Request, Inserts(r, q)
  PROVE  db' = db /\ Balanced(txn'.db) /\ txn' # None
<1> DEFINE new == [id |-> NextId(db.rows), size |-> 0]
<1>1. PICK data \in Database :
        data = [db EXCEPT !.rows[req[r].slot] = new] /\ txn' = [by |-> r, db |-> data]
  BY DEF Inserts, Begins
<1>2. db \in Database /\ db.rows \in [Slot -> Row \cup {None}]
  BY DEF Base, TypeOK, Database
<1>3. req[r].slot \in Slot /\ db.rows[req[r].slot] = None
  BY Active DEF Inserts, Rests
<1>4. data.rows = [db.rows EXCEPT ![req[r].slot] = new] /\ data.usage = db.usage
  BY <1>1, <1>2 DEF Database
<1>5. new \in Row /\ new.size = 0
  BY <1>2, NextIdIsFresh DEF Row
<1> HIDE DEF new
<1>6. new # None
  BY <1>5, StoreAssumption
<1>7. Sizes(db.rows)[req[r].slot] = 0
  BY <1>3 DEF Sizes
<1>8. data.rows \in [Slot -> Row \cup {None}]
  BY DEF Database
<1>9. SumFunction(Sizes(data.rows)) = SumFunction(Sizes(db.rows))
  <2>1. /\ data.rows[req[r].slot] # None /\ data.rows[req[r].slot].size = 0
        /\ \A t \in Slot \ {req[r].slot} : data.rows[t] = db.rows[t]
    BY <1>2, <1>3, <1>4, <1>5, <1>6
  <2>2. /\ SumFunction(Sizes(data.rows)) = SumFunction(Sizes(db.rows)) - 0 + 0
        /\ SumFunction(Sizes(db.rows)) \in Nat
    BY <1>2, <1>3, <1>7, <1>8, <2>1, SizesChange
  <2> QED
    BY <2>2
<1>10. txn'.db = data /\ txn' # None
  <2>1. txn' = [by |-> r, db |-> data]
    BY <1>1
  <2>2. [by |-> r, db |-> data] \in Txn /\ None \notin Txn
    BY StoreAssumption DEF Txn
  <2> QED
    BY <2>1, <2>2
<1> QED
  BY <1>4, <1>9, <1>10 DEF Balanced, Inserts, Begins

(***************************************************************************)
(* A push charges the size it measured less the size it read; the row it   *)
(* writes is the one it read it from, and no clamp is met.                 *)
(***************************************************************************)
LEMMA BooksBalance ==
  ASSUME Base, Rows, Plain, Balanced(db), NEW r \in Req, NEW q \in Request, Books(r, q),
         Weighs(req[r])
  PROVE  db' = db /\ Balanced(txn'.db) /\ txn' # None
<1>1. PICK data \in Database :
        /\ txn' = [by |-> r, db |-> data] /\ req[r].pc = "record"
        /\ data = IF q.op = "edit" THEN [db EXCEPT !.revs = @ \cup {Booked(r)}]
                                   ELSE WithSize(r)
  BY DEF Books, Begins
<1>2. txn'.db = data /\ txn' # None
  <2>1. txn' = [by |-> r, db |-> data]
    BY <1>1
  <2>2. [by |-> r, db |-> data] \in Txn /\ None \notin Txn
    BY StoreAssumption DEF Txn
  <2> QED
    BY <2>1, <2>2
<1>3. db \in Database /\ db.rows \in [Slot -> Row \cup {None}] /\ req[r] \in Request
  <2>1. db \in Database /\ req \in [Req -> Request]
    BY DEF Base, TypeOK
  <2> QED
    BY <2>1 DEF Database
<1>4. q.op = req[r].op
  BY <1>1, EffectTurns DEF Effect, Turn
<1>5. CASE q.op = "edit"
  <2>1. data.rows = db.rows /\ data.usage = db.usage
    BY <1>1, <1>3, <1>5 DEF Database
  <2> QED
    BY <1>2, <2>1 DEF Balanced, Books, Begins
<1>6. CASE q.op # "edit"
  <2> DEFINE slot == req[r].slot
             size == db.rows[slot].size
  <2>1. req[r].op = "push"
    <3>1. req[r].op \in {"push", "upload", "edit"}
      BY <1>1 DEF Base, Knows
    <3>2. req[r].op \in {"create", "push", "edit", None} /\ None \notin Op
      BY StoreAssumption DEF Plain, Only
    <3> QED
      BY <1>4, <1>6, <3>1, <3>2 DEF Op
  <2>2. /\ slot \in Slot /\ db.rows[slot] # None
        /\ RowsWithId(db.rows, req[r].rid) = {slot} /\ req[r].size = size
    BY <1>1, <2>1, RootedWhenPlain DEF Rests, Weighs
  <2>3. db.rows[slot] \in Row /\ size \in Nat /\ req[r].walked \in Nat
    BY <1>3, <2>2 DEF Row, Request
  <2>4. /\ data.rows = [s \in Slot |-> IF s = slot
                          THEN [db.rows[s] EXCEPT !.size = req[r].walked] ELSE db.rows[s]]
        /\ data.usage = AddUsage(db.usage, req[r].walked - size)
    BY <1>1, <1>6, <2>2 DEF WithSize
  <2>5. data.rows[slot].size = req[r].walked
    BY <2>2, <2>3, <2>4 DEF Row
  <2>6. data.rows[slot] # None
    <3>1. [db.rows[slot] EXCEPT !.size = req[r].walked] \in Row
      BY <2>3 DEF Row
    <3> QED
      BY <2>2, <2>4, <3>1, StoreAssumption
  <2>7. /\ data.rows \in [Slot -> Row \cup {None}]
        /\ \A t \in Slot \ {slot} : data.rows[t] = db.rows[t]
    BY <2>4 DEF Database
  <2>8. Sizes(db.rows)[slot] = size
    BY <2>2 DEF Sizes
  <2> HIDE DEF slot, size
  <2>9. /\ SumFunction(Sizes(data.rows)) = SumFunction(Sizes(db.rows)) - size + req[r].walked
        /\ size <= SumFunction(Sizes(db.rows)) /\ SumFunction(Sizes(db.rows)) \in Nat
    BY <1>3, <2>2, <2>3, <2>5, <2>6, <2>7, <2>8, SizesChange
  <2>10. db.usage = SumFunction(Sizes(db.rows))
    BY DEF Balanced
  <2>11. data.usage = SumFunction(Sizes(data.rows))
    BY <2>3, <2>4, <2>9, <2>10 DEF AddUsage
  <2> QED
    BY <1>2, <2>11 DEF Balanced, Books, Begins
<1> QED
  BY <1>5, <1>6

LEMMA WeighsOwn ==
  ASSUME Base, Rows, Plain, NEW r \in Req, NEW q \in Request, Effect(r, q), Weighs(req[r]),
         db' = db, q.op = "push", q.pc \in {"walk", "record"}
  PROVE  q.size = db.rows[q.slot].size
<1>1. Turn(r, q) /\ Local(r, q)
  BY EffectTurns DEF Effect, Makes, Undoes, Grows, Inserts, Removes, Books, Begins, Closes
<1>2. q.slot \in Slot
  BY <1>1 DEF Turn, Knows, Rests
<1>3. Roots(q) /\ (req[r].pc # "idle" => q.slot = req[r].slot /\ q.op = req[r].op)
  <2>1. CASE req[r].pc = "idle"
    BY <1>1, <2>1 DEF Local
  <2>2. CASE req[r].pc # "idle"
    <3>1. ~Rests(req[r]) /\ req[r].op # "create" /\ q.slot = req[r].slot
          /\ q.rid = req[r].rid /\ q.op = req[r].op
      BY <1>1, <2>2 DEF Turn, Rests
    <3> QED
      BY <3>1, RootedWhenPlain DEF Roots
  <2> QED
    BY <2>1, <2>2
<1>4. CASE q.size = req[r].size /\ req[r].pc = "walk"
  BY <1>3, <1>4 DEF Weighs
<1>5. ASSUME NEW s \in RowsWithId(db.rows, q.rid), q.size = db.rows[s].size
      PROVE  q.size = db.rows[q.slot].size
  <2>1. s = q.slot
    BY <1>2, <1>3, <1>5 DEF Roots, RowsWithId, Rows, UniqueIds
  <2> QED
    BY <1>5, <2>1
<1> QED
  BY <1>1, <1>4, <1>5 DEF Local

(***************************************************************************)
(* Two pushes to one repository are apart, since each keeps the lock until *)
(* its commit.                                                             *)
(***************************************************************************)
LEMMA WeighsOther ==
  ASSUME Base, Rows, Plain, NEW r \in Req, NEW q \in Request, Closes(r, q), db' = txn.db,
         NEW p \in Req \ {r}, req[p].op = "push", req[p].pc \in {"walk", "record"}
  PROVE  db'.rows[req[p].slot] = db.rows[req[p].slot]
<1>1. txn # None /\ txn.by = r /\ Job \notin Req
  BY StoreAssumption DEF Closes, Base, Writing
<1>2. req[r].op \in Op /\ req[r].slot \in Slot /\ ~Rests(req[r]) /\ req[r].pc = "commit"
  BY <1>1, Writer
<1>3. Writes(req[r], db'.rows)
  BY <1>1 DEF Rows, Delta
<1>4. /\ req[p].slot \in Slot /\ db.rows[req[p].slot] # None
  BY RootedWhenPlain DEF Rests
<1>5. req[r].op \in {"create", "push", "edit"}
  BY <1>2, StoreAssumption DEF Plain, Only
<1>6. CASE req[r].op = "push"
  <2>1. RowsWithId(db.rows, req[r].rid) = {req[r].slot}
    BY <1>2, <1>6, RootedWhenPlain
  <2>2. lock[NameOf(r)] = r /\ lock[NameOf(p)] = p
    BY <1>2, <1>6 DEF Base, Locked, Holding
  <2>3. req[p].slot # req[r].slot
    BY <2>2 DEF NameOf
  <2> QED
    BY <1>3, <1>4, <1>6, <2>1, <2>3 DEF Writes
<1>7. CASE req[r].op \in {"create", "edit"}
  BY <1>3, <1>4, <1>7 DEF Writes
<1> QED
  BY <1>5, <1>6, <1>7

LEMMA EffectKeepsLedger ==
  ASSUME Base, Rows, Plain, NEW r \in Req, NEW q \in Request, Effect(r, q),
         Balanced(db), Balanced(Latest), \A p \in Req : Weighs(req[p])
  PROVE  Balanced(db)' /\ Balanced(Latest)' /\ \A p \in Req : Weighs(req[p])'
<1>1. Turn(r, q)
  BY EffectTurns
<1>2. /\ req' \in [Req -> Request] /\ req'[r] = q
      /\ \A p \in Req \ {r} : req'[p] = req[p]
  BY <1>1, Others
<1>3. db' = db => \A p \in Req : Weighs(req[p])'
  <2> SUFFICES ASSUME db' = db, NEW p \in Req,
                      req'[p].op = "push", req'[p].pc \in {"walk", "record"}
               PROVE  req'[p].size = db.rows[req'[p].slot].size
    BY DEF Weighs
  <2>1. CASE p = r
    BY <1>2, <2>1, WeighsOwn
  <2>2. CASE p # r
    BY <1>2, <2>2 DEF Weighs
  <2> QED
    BY <2>1, <2>2
<1>4. CASE UNCHANGED <<db, txn>>
  BY <1>3, <1>4 DEF Latest, Balanced
<1>5. CASE Inserts(r, q)
  <2>1. db' = db /\ Balanced(txn'.db) /\ txn' # None
    BY <1>5, InsertsBalance
  <2> QED
    BY <1>3, <2>1 DEF Latest, Balanced
<1>6. CASE Books(r, q)
  <2>1. db' = db /\ Balanced(txn'.db) /\ txn' # None
    BY <1>6, BooksBalance
  <2> QED
    BY <1>3, <2>1 DEF Latest, Balanced
<1>7. CASE Closes(r, q)
  <2>1. txn # None /\ txn' = None /\ q.pc = "done"
    BY <1>7 DEF Closes, Base, Writing
  <2>2. CASE db' = db
    BY <1>3, <2>1, <2>2 DEF Latest, Balanced
  <2>3. CASE db' = txn.db
    <3>1. Balanced(db)' /\ Balanced(Latest)'
      BY <2>1, <2>3 DEF Latest, Balanced
    <3>2. ASSUME NEW p \in Req, req'[p].op = "push", req'[p].pc \in {"walk", "record"}
          PROVE  req'[p].size = db'.rows[req'[p].slot].size
      <4>1. p # r /\ req'[p] = req[p]
        BY <1>2, <2>1, <3>2
      <4>2. db'.rows[req[p].slot] = db.rows[req[p].slot]
        BY <1>7, <2>3, <3>2, <4>1, WeighsOther
      <4> QED
        BY <3>2, <4>1, <4>2 DEF Weighs
    <3> QED
      BY <3>1, <3>2 DEF Weighs
  <2> QED
    BY <1>7, <2>2, <2>3 DEF Closes
<1>8. ~Removes(r, q)
  BY StoreAssumption DEF Removes, Base, Knows, Plain, Only, Op
<1> QED
  BY <1>4, <1>5, <1>6, <1>7, <1>8 DEF Effect, Local, Makes, Undoes, Grows

LEMMA LedgerStep ==
  ASSUME Base, Rows, Ledger, Happens
  PROVE  Ledger'
<1> SUFFICES ASSUME Plain'
             PROVE  Balanced(db)' /\ Balanced(Latest)' /\ \A p \in Req : Weighs(req[p])'
  BY DEF Ledger
<1>1. Plain
  BY PlainBefore
<1>2. Balanced(db) /\ Balanced(Latest) /\ \A p \in Req : Weighs(req[p])
  BY <1>1 DEF Ledger
<1>3. ~Audits /\ ~Corrects /\ ~Settles
  BY <1>1 DEF Plain, Only, Audits, Corrects, Settles, Stands
<1>4. CASE Crash
  <2>1. db' = db /\ Latest' = db
    BY <1>4 DEF Crash, Latest
  <2>2. \A p \in Req : Weighs(req[p])'
    BY <1>4, CrashRests DEF Weighs, Rests
  <2> QED
    BY <1>2, <2>1, <2>2 DEF Balanced
<1> QED
  BY <1>1, <1>2, <1>3, <1>4, EffectKeepsLedger DEF Happens
-----------------------------------------------------------------------------
(***************************************************************************)
(* The initial states.                                                     *)
(***************************************************************************)
LEMMA InitialRows ==
  ASSUME Init
  PROVE  \E existing \in SUBSET Name, k \in Kind : \E ids \in [existing -> Nat] :
           /\ \A m, n \in existing : m # n => ids[m] # ids[n]
           /\ \A s \in Slot :
                /\ db.rows[s] # None <=> s[1] \in existing /\ s[2] = k
                /\ db.rows[s] # None => db.rows[s].id = ids[s[1]] /\ db.rows[s].size = 0
           /\ \A n \in Name : dir[n] # None <=> n \in existing
           /\ db.usage = 0 /\ db.revs = {} /\ txn = None
<1>1. PICK existing \in SUBSET Name, k \in Kind :
        \E ids \in [existing -> 1 .. Cardinality(existing)] :
          /\ \A m, n \in existing : m # n => ids[m] # ids[n]
          /\ db = [rows |-> [s \in Slot |->
                               IF s[1] \in existing /\ s[2] = k
                                 THEN [id |-> ids[s[1]], size |-> 0] ELSE None],
                   usage |-> 0, revs |-> {}]
          /\ dir = [n \in Name |-> IF n \in existing THEN EmptyDir ELSE None]
  BY DEF Init
<1>2. PICK ids \in [existing -> 1 .. Cardinality(existing)] :
          /\ \A m, n \in existing : m # n => ids[m] # ids[n]
          /\ db = [rows |-> [s \in Slot |->
                               IF s[1] \in existing /\ s[2] = k
                                 THEN [id |-> ids[s[1]], size |-> 0] ELSE None],
                   usage |-> 0, revs |-> {}]
          /\ dir = [n \in Name |-> IF n \in existing THEN EmptyDir ELSE None]
  BY <1>1
<1>3. Cardinality(existing) \in Nat
  BY StoreAssumption, FS_Subset, FS_CardinalityType
<1>4. \A n \in existing : [id |-> ids[n], size |-> 0] # None
  <2>1. \A n \in existing : [id |-> ids[n], size |-> 0] \in Row
    BY <1>3 DEF Row
  <2> QED
    BY <2>1, StoreAssumption
<1>5. EmptyDir # None
  <2>1. EmptyDir \in Dir
    BY DEF EmptyDir, Dir, Log
  <2> QED
    BY <2>1, StoreAssumption
<1>6. txn = None
  BY DEF Init
<1>7. \A s \in Slot :
        /\ db.rows[s] # None <=> s[1] \in existing /\ s[2] = k
        /\ db.rows[s] # None => db.rows[s].id = ids[s[1]] /\ db.rows[s].size = 0
  BY <1>2, <1>4
<1>8. \A n \in Name : dir[n] # None <=> n \in existing
  BY <1>2, <1>5
<1>9. db.usage = 0 /\ db.revs = {}
  BY <1>2
<1>10. ids \in [existing -> Nat]
  BY <1>3
<1> QED
  BY <1>2, <1>6, <1>7, <1>8, <1>9, <1>10

LEMMA InitLayers ==
  ASSUME Init
  PROVE  Rows /\ Homes /\ Orphans /\ Revisions /\ Ledger
<1>0. PICK existing \in SUBSET Name, k \in Kind : \E ids \in [existing -> Nat] :
          /\ \A m, n \in existing : m # n => ids[m] # ids[n]
          /\ \A s \in Slot :
               /\ db.rows[s] # None <=> s[1] \in existing /\ s[2] = k
               /\ db.rows[s] # None => db.rows[s].id = ids[s[1]] /\ db.rows[s].size = 0
          /\ \A n \in Name : dir[n] # None <=> n \in existing
          /\ db.usage = 0 /\ db.revs = {} /\ txn = None
  BY InitialRows
<1>1. PICK ids \in [existing -> Nat] :
        /\ \A m, n \in existing : m # n => ids[m] # ids[n]
        /\ \A s \in Slot :
             /\ db.rows[s] # None <=> s[1] \in existing /\ s[2] = k
             /\ db.rows[s] # None => db.rows[s].id = ids[s[1]] /\ db.rows[s].size = 0
        /\ \A n \in Name : dir[n] # None <=> n \in existing
        /\ db.usage = 0 /\ db.revs = {} /\ txn = None
  BY <1>0
<1>2. Latest = db /\ \A r \in Req : req[r].pc = "idle"
  BY <1>1 DEF Latest, Init, Away
<1>3. \A s, t \in Slot : s[1] = t[1] /\ s[2] = t[2] => s = t
  BY DEF Slot
<1>4. Rows
  <2>1. UniqueIds(db.rows)
    BY <1>1, <1>3 DEF UniqueIds
  <2> QED
    BY <1>1, <1>2, <2>1 DEF Rows, Delta, Rooted, Rests
<1>5. Homes
  <2>1. OneHome(db.rows)
    BY <1>1, <1>3 DEF OneHome
  <2>2. Sheltered
    BY <1>1, <1>2 DEF Sheltered, Slot
  <2>3. Clear
    BY <1>2 DEF Clear
  <2> QED
    BY <1>2, <2>1, <2>2, <2>3 DEF Homes, Tidy
<1>6. Orphans
  <2> SUFFICES ASSUME NEW n \in Name, dir[n] # None
               PROVE  \E s \in Slot : s[1] = n /\ db.rows[s] # None
    BY <1>2 DEF Orphans, Claimed
  <2>1. <<n, k>> \in Slot /\ <<n, k>>[1] = n /\ <<n, k>>[2] = k
    BY DEF Slot
  <2> QED
    BY <1>1, <2>1
<1>7. Revisions
  BY <1>1, <1>2 DEF Revisions, Names, Shows
<1>8. Ledger
  <2>1. Sizes(db.rows) \in [Slot -> Nat] /\ \A s \in Slot : Sizes(db.rows)[s] = 0
    BY <1>1 DEF Sizes
  <2>2. SumFunction(Sizes(db.rows)) = 0
    BY <2>1, SlotIsFinite, SumOfNothing
  <2>3. Balanced(db)
    BY <1>1, <2>2 DEF Balanced
  <2> QED
    BY <1>2, <2>3 DEF Ledger, Weighs
<1> QED
  BY <1>4, <1>5, <1>6, <1>7, <1>8

(***************************************************************************)
(* The invariant is kept.                                                  *)
(***************************************************************************)
LEMMA StepKeepsIInv ==
  ASSUME IInv, [Next]_vars
  PROVE  IInv'
<1>1. Base'
  BY BaseStep DEF IInv
<1>2. CASE Happens
  BY <1>1, <1>2, RowsStep, HomesStep, OrphansStep, RevisionsStep, LedgerStep DEF IInv
<1>3. CASE Still \/ UNCHANGED vars
  <2>1. UNCHANGED <<db, txn, dir, lock, req, job, faults>> /\ Latest' = Latest
    BY <1>3 DEF vars, Still, Latest
  <2>2. Rows'
    BY <2>1 DEF IInv, Rows, Delta, Rooted, Sole, Deleters, Roots, Writes
  <2>3. Homes'
    BY <2>1 DEF IInv, Homes, Calm, Deleters, Tidy, Sheltered, Clear, NameOf
  <2>4. Orphans'
    BY <2>1 DEF IInv, Orphans, Smooth, Deleters, Claimed, Sheltered, Clear, NameOf, Tidy
  <2>5. Revisions'
    BY <2>1 DEF IInv, Revisions, Deleters, Names, Shows, Has, LogOf
  <2>6. Ledger'
    BY <2>1 DEF IInv, Ledger, Plain, Only, Balanced, Weighs
  <2> QED
    BY <1>1, <2>2, <2>3, <2>4, <2>5, <2>6 DEF IInv
<1> QED
  BY <1>2, <1>3, NextHappens DEF IInv

LEMMA Invariance == Spec => []IInv
<1>1. Init => IInv
  BY InitBase, InitLayers DEF IInv
<1>2. IInv /\ [Next]_vars => IInv'
  BY StepKeepsIInv
<1> QED
  BY <1>1, <1>2, PTL DEF Spec
-----------------------------------------------------------------------------
Continues(n) == dir[n] # None /\ dir'[n] # None =>
  /\ Len(dir[n].log) <= Len(dir'[n].log)
  /\ SubSeq(dir'[n].log, 1, Len(dir[n].log)) = dir[n].log

(***************************************************************************)
(* A history changes by appending, or with its directory.                  *)
(***************************************************************************)
LEMMA LogContinues ==
  ASSUME NEW log \in Seq(Req), NEW r \in Req, NEW new, new = log \/ new = Append(log, r)
  PROVE  Len(log) <= Len(new) /\ SubSeq(new, 1, Len(log)) = log
<1>1. CASE new = log
  BY <1>1
<1>2. CASE new = Append(log, r)
  BY <1>2, AppendProperties
<1> QED
  BY <1>1, <1>2

LEMMA StepContinues ==
  ASSUME Base, Happens, NEW n \in Name
  PROVE  Continues(n)
<1>1. dir \in [Name -> Dir \cup {None}]
  BY BaseTypes
<1>2. CASE dir'[n] = dir[n]
  <2>1. dir[n] # None => dir[n].log \in Seq(Req)
    BY <1>1 DEF Dir, Log
  <2> QED
    BY <1>2, <2>1 DEF Continues
<1>3. ASSUME NEW r \in Req, NEW q \in Request, Makes(r, q) \/ Undoes(r, q) \/ Removes(r, q)
      PROVE  Continues(n)
  <2>1. \/ dir[NameOf(r)] = None /\ dir' = [dir EXCEPT ![NameOf(r)] = EmptyDir]
        \/ dir' = [dir EXCEPT ![NameOf(r)] = None]
    BY <1>3 DEF Makes, Undoes, Removes
  <2>2. CASE n = NameOf(r)
    BY <1>1, <2>1, <2>2 DEF Continues
  <2>3. CASE n # NameOf(r)
    BY <1>1, <1>2, <2>1, <2>3
  <2> QED
    BY <2>2, <2>3
<1>4. ASSUME NEW r \in Req, NEW q \in Request, Grows(r, q)
      PROVE  Continues(n)
  <2>1. PICK d \in Dir :
          /\ dir' = [dir EXCEPT ![NameOf(r)] = d] /\ dir[NameOf(r)] # None
          /\ d.log = dir[NameOf(r)].log \/ d.log = Append(dir[NameOf(r)].log, r)
    BY <1>4 DEF Grows
  <2>2. CASE n = NameOf(r)
    <3>1. dir[n].log \in Seq(Req) /\ dir'[n] = d
      BY <1>1, <2>1, <2>2 DEF Dir, Log
    <3> QED
      BY <2>1, <2>2, <3>1, LogContinues DEF Continues
  <2>3. CASE n # NameOf(r)
    BY <1>1, <1>2, <2>1, <2>3
  <2> QED
    BY <2>2, <2>3
<1>5. CASE UNCHANGED dir
  BY <1>2, <1>5
<1>6. ASSUME NEW r \in Req, NEW q \in Request,
             Local(r, q) \/ Inserts(r, q) \/ Books(r, q) \/ Closes(r, q)
      PROVE  UNCHANGED dir
  BY <1>6 DEF Local, Inserts, Books, Closes
<1>7. Audits \/ Corrects \/ Settles \/ Crash => UNCHANGED dir
  BY DEF Audits, Corrects, Settles, Stands, Crash
<1> QED
  BY <1>3, <1>4, <1>5, <1>6, <1>7 DEF Happens, Effect
-----------------------------------------------------------------------------
(***************************************************************************)
(* The store keeps its types; in particular every recorded revision names  *)
(* a commit, and no usage is negative.                                     *)
(***************************************************************************)
THEOREM TypeCorrect == Spec => []TypeOK
<1>1. IInv => TypeOK
  BY DEF IInv, Base
<1> QED
  BY <1>1, Invariance, PTL

(***************************************************************************)
(* create_repo rolls its directory back, and a delete takes row and        *)
(* directory in one transaction: with at most one delete and no fault, one *)
(* directory never serves two rows, however many requests of whatever      *)
(* kinds interleave.                                                       *)
(***************************************************************************)
THEOREM RowsAlwaysHaveOneHome == Spec => []OneHomePerRow
<1>1. IInv => OneHomePerRow
  <2> SUFFICES ASSUME IInv, Smooth, NEW n \in Name, NEW s \in RowsNamed(n), NEW t \in RowsNamed(n)
               PROVE  s = t
    BY DEF OneHomePerRow
  <2>1. Calm
    BY DEF Smooth, Calm
  <2>2. OneHome(db.rows)
    BY <2>1 DEF IInv, Homes, Tidy
  <2>3. s \in Slot /\ t \in Slot /\ s[1] = t[1] /\ db.rows[s] # None /\ db.rows[t] # None
    BY DEF RowsNamed, SlotsOf, Slot
  <2> QED
    BY <2>2, <2>3 DEF OneHome
<1> QED
  BY <1>1, Invariance, PTL

(***************************************************************************)
(* create.py promises that no directory stays without a row.  With at most *)
(* one delete and no fault it keeps the promise: such a directory belongs  *)
(* to a create that is still under way.                                    *)
(***************************************************************************)
THEOREM OrphansAlwaysNeedAFault == Spec => []OrphansNeedAFault
<1>1. IInv => OrphansNeedAFault
  <2> SUFFICES ASSUME IInv, Smooth, NEW n \in Name, dir[n] # None, RowsNamed(n) = {}
               PROVE  \E r \in Req : req[r].op = "create" /\ req[r].pc # "done" /\ NameOf(r) = n
    BY DEF OrphansNeedAFault, NoOrphanDirectory
  <2>1. Claimed(n)
    BY DEF IInv, Orphans
  <2>2. CASE \E r \in Req : req[r].pc = "insert" /\ NameOf(r) = n
    BY <2>2 DEF IInv, Base, Knows
  <2>3. ASSUME NEW s \in Slot, s[1] = n, Latest.rows[s] # None
        PROVE  \E r \in Req : req[r].op = "create" /\ req[r].pc # "done" /\ NameOf(r) = n
    <3>1. s \in SlotsOf(n)
      BY <2>3 DEF Slot, SlotsOf
    <3>2. db.rows[s] = None
      BY <3>1 DEF RowsNamed
    <3>3. txn # None /\ txn.db.rows[s] # None
      BY <2>3, <3>2 DEF Latest
    <3>4. txn.by # Job
      BY <3>2, <3>3 DEF IInv, Rows, Delta
    <3>5. /\ txn.by \in Req /\ req[txn.by].pc = "commit" /\ req[txn.by].op \in Op
          /\ Writes(req[txn.by], txn.db.rows)
      BY <3>3, <3>4, Writer DEF IInv, Rows, Delta
    <3>6. req[txn.by].op = "create" /\ s = req[txn.by].slot
      BY <3>2, <3>3, <3>5 DEF Writes, RowsWithId, Op
    <3> QED
      BY <2>3, <3>5, <3>6 DEF NameOf
  <2> QED
    BY <2>1, <2>2, <2>3 DEF Claimed
<1> QED
  BY <1>1, Invariance, PTL

(***************************************************************************)
(* While nothing is deleted, a revision names a commit in the history of   *)
(* its repository, through failed commits, crashes and rejected pushes.    *)
(***************************************************************************)
THEOREM RevisionsAlwaysNameCommits == Spec => []RevisionsNameCommits
<1>1. IInv => RevisionsNameCommits
  <2> SUFFICES ASSUME IInv, Only({"create", "push", "upload", "edit"}),
                      NEW v \in db.revs, NEW s \in Slot,
                      db.rows[s] # None, db.rows[s].id = v.repo
               PROVE  Has(s[1], v.sha)
    BY DEF RevisionsNameCommits, Has
  <2>1. Deleters = {}
    BY StoreAssumption DEF Only, Deleters, Op
  <2>2. PICK t \in Slot : db.rows[t] # None /\ db.rows[t].id = v.repo /\ Has(t[1], v.sha)
    BY <2>1 DEF IInv, Revisions, Names
  <2>3. t = s
    BY <2>2 DEF IInv, Rows, UniqueIds
  <2> QED
    BY <2>2, <2>3
<1> QED
  BY <1>1, Invariance, PTL

(***************************************************************************)
(* While repositories change by creates, pushes and edits, the usage of    *)
(* the owner is the sum of the sizes, through failed commits and crashes,  *)
(* for any number of pushes to one repository.                             *)
(***************************************************************************)
THEOREM LedgerAlwaysExact == Spec => []LedgerExact
<1>1. IInv => LedgerExact
  BY DEF IInv, Ledger, Plain, Balanced, LedgerExact
<1> QED
  BY <1>1, Invariance, PTL

(***************************************************************************)
(* No step of any handler, fault or crash takes a commit out of the        *)
(* history of a repository that remains.                                   *)
(***************************************************************************)
THEOREM NoCommitIsEverLost == Spec => NoLostCommit
<1>1. IInv /\ [Next]_vars =>
        [\A n \in Name : dir[n] # None /\ dir'[n] # None =>
           Len(dir[n].log) <= Len(dir'[n].log)
           /\ SubSeq(dir'[n].log, 1, Len(dir[n].log)) = dir[n].log]_dir
  BY NextHappens, StepContinues DEF IInv, vars, Still, Continues
<1> QED
  BY <1>1, Invariance, PTL DEF Spec, NoLostCommit
-----------------------------------------------------------------------------
(***************************************************************************)
(* The repository locks.  The handlers take them as the abstract mutex     *)
(* RepoMutex allows, with nobody on record as waiting: a request that      *)
(* cannot have the lock yet has not taken its step.  A crash gives up all  *)
(* of them at once.                                                        *)
(***************************************************************************)
Mutex == INSTANCE RepoMutex WITH Task <- Req, Key <- Name,
                                 owner <- lock, awaiting <- [n \in Name |-> {}]

UsesMutex == Mutex!Init /\ [][Mutex!Next \/ Crash]_lock

(***************************************************************************)
(* Whoever has a lock is at a step inside it, in that repository: no path  *)
(* out of a handler leaves one behind.                                     *)
(***************************************************************************)
HeldInside == \A n \in Name, r \in Req : lock[n] = r => Holding(req[r]) /\ n = NameOf(r)

Goes(r) == \A p \in Req \ {r} : req'[p] = req[p]

Stays(r) ==
  /\ Goes(r) /\ lock' = lock
  /\ Holding(req[r]) => Holding(req'[r]) /\ req'[r].slot = req[r].slot

Takes(r) ==
  /\ Goes(r) /\ Acquire(r) /\ NameOf(r) \in Name
  /\ ~Holding(req[r]) /\ Holding(req'[r]) /\ req'[r].slot = req[r].slot

Frees(r) == Goes(r) /\ Release(r)

Uses(r) == Stays(r) \/ Takes(r) \/ Frees(r)

LEMMA ReqTyped ==
  ASSUME Base, NEW r \in Req
  PROVE  req \in [Req -> Request] /\ req[r] \in Request /\ Knows(req[r])
  BY DEF Base, TypeOK

LEMMA Within ==
  ASSUME Base, NEW r \in Req, req[r].pc \in {"init", "delete", "book", "clone"}
  PROVE  NameOf(r) \in Name
  BY ReqTyped DEF Knows, Rests, Slot, NameOf

LEMMA ArrivesOutside ==
  ASSUME Base, NEW r \in Req, NEW s \in Slot, CreateCheck(r, s) \/ Load(r, s)
  PROVE  Stays(r)
<1>1. ~Holding(req[r])
  BY ReqTyped, StoreAssumption
  DEF Holding, Knows, CreateCheck, Load, LoadDelete, LoadPush, LoadUpload, LoadEdit, Found
<1> QED
  BY <1>1, ReqTyped
  DEF Stays, Goes, CreateCheck, Load, LoadDelete, LoadPush, LoadUpload, LoadEdit

LEMMA CreateUses ==
  ASSUME Base, NEW r \in Req, new_repo_form(r) \/ CreateFails(r)
  PROVE  Uses(r)
<1>1. CASE CreateInit(r)
  <2>1. ~Holding(req[r])
    BY <1>1, ReqTyped DEF CreateInit, Holding, Knows
  <2> QED
    BY <1>1, <2>1, ReqTyped, Within
    DEF Uses, Stays, Takes, Goes, CreateInit, Acquire, Step, End, Holding, Request
<1>2. CASE CreateInsert(r)
  BY <1>2, ReqTyped DEF Uses, Frees, Goes, CreateInsert, Step, End
<1>3. CASE CreateFails(r)
  BY <1>3, ReqTyped DEF Uses, Frees, Goes, CreateFails, End
<1> QED
  BY <1>1, <1>2, <1>3 DEF new_repo_form

LEMMA DeleteUses ==
  ASSUME Base, NEW r \in Req, delete_repo(r)
  PROVE  Uses(r)
<1>1. CASE DeleteEnter(r)
  BY <1>1, ReqTyped, Within DEF Uses, Takes, Goes, DeleteEnter, Step, Holding, Knows, Request
<1>2. CASE DeleteRemove(r)
  BY <1>2, ReqTyped DEF Uses, Frees, Goes, DeleteRemove, Step
<1> QED
  BY <1>1, <1>2 DEF delete_repo

LEMMA PushStays ==
  ASSUME Base, NEW r \in Req, asgi_app(r)
  PROVE  Stays(r)
<1>1. ~Holding(req[r]) /\ lock' = lock
  BY ReqTyped DEF asgi_app, CheckPushAllowed, PushCapture, PushReceive, Holding, Knows
<1>2. Goes(r)
  BY ReqTyped
  DEF asgi_app, CheckPushAllowed, PushCapture, PushReceive, Goes, Step, End
<1> QED
  BY <1>1, <1>2 DEF Stays

LEMMA RecordUses ==
  ASSUME Base, NEW r \in Req, Walk(r) \/ (req[r].pc = "record" /\ RecordSize(r)) \/ RecordEdit(r)
  PROVE  Uses(r)
<1>1. CASE Walk(r)
  BY <1>1, ReqTyped DEF Uses, Stays, Goes, Walk, Holding, Request
<1>2. CASE req[r].pc = "record" /\ RecordSize(r)
  <2>1. CASE Release(r)
    BY <1>2, <2>1, ReqTyped DEF Uses, Frees, Goes, RecordSize, Step, End
  <2>2. CASE Step(r, "commit") /\ lock' = lock
    BY <1>2, <2>2, ReqTyped DEF Uses, Stays, Goes, Step, Holding, Request
  <2> QED
    BY <1>2, <2>1, <2>2 DEF RecordSize
<1>3. CASE RecordEdit(r)
  BY <1>3, ReqTyped DEF Uses, Stays, Goes, RecordEdit, Step, Holding, Request
<1> QED
  BY <1>1, <1>2, <1>3

LEMMA BookingUses ==
  ASSUME Base, NEW r \in Req, BookEnter(r) \/ BookRead(r)
  PROVE  Uses(r)
<1>1. CASE BookEnter(r)
  <2>1. ~Holding(req[r])
    BY <1>1, ReqTyped DEF BookEnter, Holding, Knows
  <2> QED
    BY <1>1, <2>1, ReqTyped, Within
    DEF Uses, Stays, Takes, Goes, BookEnter, Acquire, End, Holding, Request
<1>2. CASE BookRead(r)
  <2>1. CASE Release(r)
    BY <1>2, <2>1, ReqTyped DEF Uses, Frees, Goes, BookRead, End
  <2>2. CASE /\ lock' = lock
             /\ \E s \in RowsWithId(db.rows, req[r].rid) :
                  req' = [req EXCEPT ![r].size = db.rows[s].size, ![r].pc = "walk"]
    <3>1. req[r].op = "push"
      BY <1>2, ReqTyped DEF BookRead, Knows
    <3> QED
      BY <2>2, <3>1, ReqTyped DEF Uses, Stays, Goes, Holding, Request
  <2> QED
    BY <1>2, <2>1, <2>2 DEF BookRead
<1> QED
  BY <1>1, <1>2

LEMMA FilesUse ==
  ASSUME Base, NEW r \in Req, commit_files(r)
  PROVE  Uses(r)
<1>1. CASE CommitClone(r)
  <2>1. ~Holding(req[r])
    BY <1>1, ReqTyped DEF CommitClone, Holding, Knows
  <2> QED
    BY <1>1, <2>1, ReqTyped, Within
    DEF Uses, Stays, Takes, Goes, CommitClone, Acquire, End, Holding, Request
<1>2. CASE CommitLand(r)
  BY <1>2, ReqTyped DEF Uses, Frees, Goes, CommitLand, End
<1> QED
  BY <1>1, <1>2 DEF commit_files

LEMMA EndsFree ==
  ASSUME Base, NEW r \in Req, Commit(r) \/ CommitFails(r) \/ DatabaseBusy(r)
  PROVE  Frees(r)
  BY ReqTyped DEF Frees, Goes, Commit, CommitFails, DatabaseBusy, End

(***************************************************************************)
(* Every step is a request's use of its lock, or the job's, or a crash.    *)
(***************************************************************************)
LEMMA NextUses ==
  ASSUME Base, Next
  PROVE  (\E r \in Req : Uses(r)) \/ UNCHANGED <<lock, req>> \/ Crash
<1>1. ASSUME NEW r \in Req, Proceed(r)
      PROVE  Uses(r)
  <2>1. CASE CheckPushAllowed(r)
    BY <2>1, PushStays DEF asgi_app, Uses
  <2> QED
    BY <1>1, <2>1, CreateUses, DeleteUses, PushStays, RecordUses, BookingUses, FilesUse, EndsFree
    DEF Proceed, _record_push, RecordPush, RecordUpload, files_upload_form,
        files_edit_form, Uses
<1>2. ASSUME Reconcile \/ JobBusy
      PROVE  UNCHANGED <<lock, req>>
  BY <1>2 DEF Reconcile, JobRead, JobList, JobWalk, JobWalkLfs, JobWrite, JobCommit, JobBusy
<1>5. CASE LfsPut
  BY <1>5 DEF LfsPut
<1>3. ASSUME NEW r \in Req, NEW s \in Slot, CreateCheck(r, s) \/ Load(r, s)
      PROVE  Uses(r)
  BY <1>3, ArrivesOutside DEF Uses
<1>4. ASSUME NEW r \in Req, CreateFails(r) \/ DatabaseBusy(r) \/ CommitFails(r)
      PROVE  Uses(r)
  BY <1>4, CreateUses, EndsFree DEF Uses
<1> QED
  BY <1>1, <1>2, <1>3, <1>4, <1>5 DEF Next

(***************************************************************************)
(* So a lock is always in the hands of a request inside it,                *)
(***************************************************************************)
LEMMA UseKeeps ==
  ASSUME Base, HeldInside, NEW r \in Req, Uses(r)
  PROVE  HeldInside' /\ (UNCHANGED lock \/ Mutex!Next)
<1>1. lock \in [Name -> Req \cup {None}] /\ None \notin Req /\ Goes(r)
  BY StoreAssumption DEF Base, TypeOK, Uses, Stays, Takes, Frees
<1>2. CASE Stays(r)
  BY <1>1, <1>2 DEF HeldInside, Stays, Goes, NameOf
<1>3. CASE Takes(r)
  <2>1. NameOf(r) \in Name
    BY <1>3 DEF Takes
  <2>2. \A n \in Name : lock[n] # r
    BY <1>3 DEF HeldInside, Takes
  <2>3. lock[NameOf(r)] = None /\ lock' = [lock EXCEPT ![NameOf(r)] = r]
    BY <1>3 DEF Takes, Acquire
  <2>4. HeldInside'
    <3> SUFFICES ASSUME NEW n \in Name, NEW p \in Req, lock'[n] = p
                 PROVE  Holding(req'[p]) /\ n = req'[p].slot[1]
      BY DEF HeldInside, NameOf
    <3>1. CASE n = NameOf(r)
      <4>1. p = r
        BY <1>1, <2>3, <3>1
      <4> QED
        BY <1>3, <3>1, <4>1 DEF Takes, NameOf
    <3>2. CASE n # NameOf(r)
      <4>1. lock[n] = p /\ p # r
        BY <1>1, <2>2, <2>3, <3>2
      <4> QED
        BY <1>1, <4>1 DEF HeldInside, Goes, NameOf
    <3> QED
      BY <3>1, <3>2
  <2>5. Mutex!Enter(r, NameOf(r))
    BY <2>1, <2>2, <2>3 DEF Mutex!Enter, Mutex!Uninvolved
  <2> QED
    BY <2>1, <2>4, <2>5 DEF Mutex!Next
<1>4. CASE Frees(r)
  <2>1. lock' = [n \in Name |-> IF lock[n] = r THEN None ELSE lock[n]]
    BY <1>4 DEF Frees, Release
  <2>2. HeldInside'
    BY <1>1, <2>1 DEF HeldInside, Goes, NameOf
  <2>3. CASE \A n \in Name : lock[n] # r
    BY <1>1, <2>1, <2>2, <2>3
  <2>4. ASSUME NEW n \in Name, lock[n] = r
        PROVE  Mutex!Leave(r, n)
    <3>1. \A m \in Name : lock[m] = r => m = n
      BY <2>4 DEF HeldInside
    <3>2. lock' = [lock EXCEPT ![n] = None]
      BY <1>1, <2>1, <2>4, <3>1
    <3> QED
      BY <2>4, <3>2 DEF Mutex!Leave
  <2> QED
    BY <2>2, <2>3, <2>4 DEF Mutex!Next
<1> QED
  BY <1>2, <1>3, <1>4 DEF Uses

LEMMA KeptStep ==
  ASSUME Base, HeldInside, [Next]_vars
  PROVE  HeldInside' /\ [Mutex!Next \/ Crash]_lock
<1>1. CASE UNCHANGED <<lock, req>>
  BY <1>1 DEF HeldInside, NameOf
<1>2. CASE Crash
  <2>1. \A n \in Name : lock'[n] = None
    BY <1>2 DEF Crash
  <2> QED
    BY <1>2, <2>1, StoreAssumption DEF HeldInside
<1> QED
  BY <1>1, <1>2, NextUses, UseKeeps DEF vars

(***************************************************************************)
(* ... and no handler, error path or failed commit leaves one behind,      *)
(* however the requests interleave: what REPO_LOCKS.acquire promises is    *)
(* all the handlers need of it.                                            *)
(***************************************************************************)
THEOREM LocksAreNeverLeaked == Spec => []HeldInside
<1>1. Init => HeldInside
  BY StoreAssumption DEF Init, HeldInside
<1>2. IInv => Base
  BY DEF IInv
<1> QED
  BY <1>1, <1>2, KeptStep, Invariance, PTL DEF Spec

(***************************************************************************)
(* The locks of the store implement the mutex that RepoLocks implements in *)
(* detail: every step but a crash enters or leaves one lock, or none.      *)
(***************************************************************************)
THEOREM StoreUsesMutex == Spec => UsesMutex
<1>1. Init => Mutex!Init
  BY DEF Init, Mutex!Init
<1>2. IInv => Base
  BY DEF IInv
<1> QED
  BY <1>1, <1>2, KeptStep, Invariance, LocksAreNeverLeaked, PTL DEF Spec, UsesMutex
=============================================================================
