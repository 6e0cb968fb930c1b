---------------------------- MODULE AccountsProofs ----------------------------
(***************************************************************************)
(* Proofs about Accounts: for any number of requests, admins, usernames    *)
(* and settings, and whatever values the approval setting has over         *)
(* restarts.                                                               *)
(*                                                                         *)
(* The inductive invariant says of the committed tables and of the tables  *)
(* an open transaction would commit that the log explains them; of each    *)
(* request what it may still believe; and, as long as no request has begun *)
(* while another was in flight, that what it has read is current.          *)
(***************************************************************************)
EXTENDS Accounts, TLAPS, SequenceTheorems

USE AccountsAssumption

(***************************************************************************)
(* The properties as predicates of the tables, to be stated of what is     *)
(* committed and of what the open transaction has made of it.              *)
(***************************************************************************)
ExplainedBy(row, entry) ==
  IF entry.action = "signup" THEN row.status \in {"pending", "approved"}
                             ELSE row.status = After[entry.action]

Explains(rows, log) == \A u \in User :
  IF rows[u] = None THEN log[u] = <<>>
                    ELSE log[u] # <<>> /\ ExplainedBy(rows[u], log[u][Len(log[u])])

Mirrors(decisions, log) == \A u \in User : \A i \in 1 .. Len(log[u]) :
  LastDecision(log[u], i) => decisions[u] = After[log[u][i].action]

MayFollow(action, before) ==
  CASE action \in {"approve", "deny"} -> before = "signup"
    [] action = "ban" -> before # "ban"
    [] action = "unban" -> before = "ban"
    [] OTHER -> FALSE

Legal(log) == \A u \in User : \A i \in 2 .. Len(log[u]) :
  MayFollow(log[u][i].action, log[u][i - 1].action)

(***************************************************************************)
(* What a request has read when it is about to write: a transition was     *)
(* allowed for the row it has loaded, and no account is ever deleted       *)
(* again.                                                                  *)
(***************************************************************************)
Sane(q) ==
  /\ q.pc = "insert" => q.user \in User /\ q.email \in Email
  /\ q.pc = "write" => q.user \in User
  /\ q.pc = "write" /\ q.op \in Transition =>
       /\ q.admin \in Admin /\ q.seen \in Row
       /\ Allowed(q.op, q.seen) /\ users[q.user] # None

Requests == \A r \in Req :
  Sane(req[r]) /\ (req[r].pc = "commit" => txn # None /\ txn.by = r)

(***************************************************************************)
(* What a request has read is what the tables still hold.                  *)
(***************************************************************************)
Current(q) ==
  /\ q.pc = "write" /\ q.op \in Transition => q.seen = users[q.user]
  /\ q.pc = "write" /\ q.op \in Setting => q.was = settings[q.user][q.op]

(***************************************************************************)
(* An open transaction may commit at any time.                             *)
(***************************************************************************)
Pending ==
  txn # None =>
    /\ \A u \in User : users[u] # None => txn.users[u] # None
    /\ Explains(txn.users, txn.audit) /\ Mirrors(txn.approvals, txn.audit)

Committed == Explains(users, audit) /\ Mirrors(approvals, audit)

(***************************************************************************)
(* As long as requests do not overlap, at most one is in flight.           *)
(***************************************************************************)
Solo ==
  ~overlapped =>
    /\ \A q, r \in InFlight : q = r
    /\ settings = noted /\ Legal(audit)
    /\ txn # None => txn.settings = txn.noted /\ Legal(txn.audit)
    /\ \A r \in Req : Current(req[r])

IInv == TypeOK /\ Requests /\ Pending /\ Committed /\ Solo
-----------------------------------------------------------------------------
(***************************************************************************)
(* Appending an entry to the log of one account.                           *)
(***************************************************************************)
LEMMA AppendLog ==
  ASSUME NEW log \in Seq(Entry), NEW e \in Entry
  PROVE  /\ Append(log, e) \in Seq(Entry) /\ Append(log, e) # <<>>
         /\ Len(log) \in Nat /\ Len(Append(log, e)) = Len(log) + 1
         /\ \A i \in 1 .. Len(log) : Append(log, e)[i] = log[i]
         /\ Append(log, e)[Len(log) + 1] = e
<1>1. Len(log) \in Nat /\ Append(log, e) \in Seq(Entry) /\ Len(Append(log, e)) = Len(log) + 1
  BY LenProperties, AppendProperties
<1>2. /\ \A i \in 1 .. Len(log) : Append(log, e)[i] = log[i]
      /\ Append(log, e)[Len(log) + 1] = e
  BY <1>1, AppendProperties
<1>3. Append(log, e) # <<>>
  BY <1>1, EmptySeq
<1> QED
  BY <1>1, <1>2, <1>3

LEMMA EmptyLog == <<>> \in Seq(Entry) /\ Len(<<>>) = 0
  BY EmptySeq

(***************************************************************************)
(* A row that is written together with the entry for it is explained by    *)
(* the log.                                                                *)
(***************************************************************************)
LEMMA ExplainsAppend ==
  ASSUME NEW rows \in [User -> Row \cup {None}], NEW log \in [User -> Seq(Entry)],
         NEW u \in User, NEW row \in Row, NEW e \in Entry, ExplainedBy(row, e),
         Explains(rows, log)
  PROVE  Explains([rows EXCEPT ![u] = row], [log EXCEPT ![u] = Append(@, e)])
<1> DEFINE rows2 == [rows EXCEPT ![u] = row]
           log2 == [log EXCEPT ![u] = Append(@, e)]
<1>1. rows2[u] = row /\ log2[u] = Append(log[u], e) /\ row # None
  OBVIOUS
<1>2. \A v \in User \ {u} : rows2[v] = rows[v] /\ log2[v] = log[v]
  OBVIOUS
<1>3. log2[u] # <<>> /\ log2[u][Len(log2[u])] = e
  BY <1>1, AppendLog
<1> HIDE DEF rows2, log2
<1>4. Explains(rows2, log2)
  BY <1>1, <1>2, <1>3 DEF Explains
<1> QED
  BY <1>4 DEF rows2, log2

(***************************************************************************)
(* Only an approve or a deny may change the decision, and must.            *)
(***************************************************************************)
LEMMA MirrorsAppend ==
  ASSUME NEW decisions, NEW log \in [User -> Seq(Entry)], NEW u \in User, NEW e \in Entry,
         NEW decisions2, \A v \in User \ {u} : decisions2[v] = decisions[v],
         IF e.action \in Decision THEN decisions2[u] = After[e.action]
                                  ELSE decisions2[u] = decisions[u] \/ log[u] = <<>>,
         Mirrors(decisions, log)
  PROVE  Mirrors(decisions2, [log EXCEPT ![u] = Append(@, e)])
<1> DEFINE log2 == [log EXCEPT ![u] = Append(@, e)]
<1>1. log2[u] = Append(log[u], e)
  OBVIOUS
<1>2. \A v \in User \ {u} : log2[v] = log[v]
  OBVIOUS
<1>3. /\ Len(log[u]) \in Nat /\ Len(log2[u]) = Len(log[u]) + 1
      /\ \A i \in 1 .. Len(log[u]) : log2[u][i] = log[u][i]
      /\ log2[u][Len(log[u]) + 1] = e
  BY <1>1, AppendLog
<1> HIDE DEF log2
<1>4. ASSUME NEW i \in 1 .. Len(log2[u]), LastDecision(log2[u], i)
      PROVE  decisions2[u] = After[log2[u][i].action]
  <2>1. CASE i = Len(log[u]) + 1
    BY <1>3, <1>4, <2>1 DEF LastDecision
  <2>2. CASE i # Len(log[u]) + 1
    <3>1. i \in 1 .. Len(log[u]) /\ log2[u][i] = log[u][i]
      BY <1>3, <2>2
    <3>2. e.action \notin Decision
      BY <1>3, <1>4, <3>1 DEF LastDecision
    <3>3. LastDecision(log[u], i)
      BY <1>3, <1>4, <3>1 DEF LastDecision
    <3>4. log[u] # <<>>
      BY <3>1, EmptyLog
    <3> QED
      BY <3>1, <3>2, <3>3, <3>4 DEF Mirrors
  <2> QED
    BY <2>1, <2>2
<1>5. Mirrors(decisions2, log2)
  BY <1>2, <1>4 DEF Mirrors
<1> QED
  BY <1>5 DEF log2

(***************************************************************************)
(* A log stays legal if the new entry may follow its last one.             *)
(***************************************************************************)
LEMMA LegalAppend ==
  ASSUME NEW log \in [User -> Seq(Entry)], NEW u \in User, NEW e \in Entry,
         log[u] # <<>> => MayFollow(e.action, log[u][Len(log[u])].action),
         Legal(log)
  PROVE  Legal([log EXCEPT ![u] = Append(@, e)])
<1> DEFINE log2 == [log EXCEPT ![u] = Append(@, e)]
<1>1. log2[u] = Append(log[u], e)
  OBVIOUS
<1>2. \A v \in User \ {u} : log2[v] = log[v]
  OBVIOUS
<1>3. /\ Len(log[u]) \in Nat /\ Len(log2[u]) = Len(log[u]) + 1
      /\ \A i \in 1 .. Len(log[u]) : log2[u][i] = log[u][i]
      /\ log2[u][Len(log[u]) + 1] = e
  BY <1>1, AppendLog
<1> HIDE DEF log2
<1>4. ASSUME NEW i \in 2 .. Len(log2[u])
      PROVE  MayFollow(log2[u][i].action, log2[u][i - 1].action)
  <2>1. CASE i = Len(log[u]) + 1
    <3>1. log[u] # <<>>
      BY <2>1, EmptyLog
    <3>2. log2[u][i] = e /\ log2[u][i - 1] = log[u][Len(log[u])]
      BY <1>3, <2>1
    <3> QED
      BY <3>1, <3>2
  <2>2. CASE i # Len(log[u]) + 1
    <3>1. i \in 2 .. Len(log[u]) /\ log2[u][i] = log[u][i] /\ log2[u][i - 1] = log[u][i - 1]
      BY <1>3, <2>2
    <3> QED
      BY <3>1 DEF Legal
  <2> QED
    BY <2>1, <2>2
<1>5. Legal(log2)
  BY <1>2, <1>4 DEF Legal
<1> QED
  BY <1>5 DEF log2
-----------------------------------------------------------------------------
(***************************************************************************)
(* Steps that leave the tables alone: a request arrives, or ends.          *)
(***************************************************************************)
LEMMA AwayTyped ==
  ASSUME NEW how \in {"idle", "commit", "done", "failed"}
  PROVE  /\ [Away EXCEPT !.pc = how] \in Request /\ [Away EXCEPT !.pc = how].pc = how
  BY DEF Away, Request, Value

LEMMA ArriveKeeps ==
  ASSUME IInv, NEW r \in Req, req[r].pc = "idle", NEW q \in Request,
         req' = [req EXCEPT ![r] = q], q.pc # "commit", Sane(q), Current(q),
         overlapped' = (overlapped \/ InFlight # {}), UNCHANGED <<tables, txn>>
  PROVE  IInv'
<1>1. UNCHANGED <<users, approvals, audit, settings, noted, txn>>
  BY DEF tables
<1>2. req'[r] = q /\ \A p \in Req \ {r} : req'[p] = req[p]
  BY DEF IInv, TypeOK
<1>3. req' \in [Req -> Request]
  BY DEF IInv, TypeOK
<1>4. overlapped' \in BOOLEAN
  BY DEF IInv, TypeOK
<1>5. TypeOK'
  BY <1>1, <1>3, <1>4 DEF IInv, TypeOK
<1>6. Requests'
  BY <1>1, <1>2 DEF IInv, Requests, Sane
<1>7. Pending' /\ Committed'
  BY <1>1 DEF IInv, Pending, Committed
<1>8. ASSUME ~overlapped'
      PROVE  /\ \A p \in Req \ {r} : p \notin InFlight'
             /\ ~overlapped
  BY <1>2, <1>8 DEF InFlight
<1>9. Solo'
  <2> SUFFICES ASSUME ~overlapped'
               PROVE  /\ \A p1, p2 \in InFlight' : p1 = p2
                      /\ settings' = noted' /\ Legal(audit')
                      /\ txn' # None => txn'.settings = txn'.noted /\ Legal(txn'.audit)
                      /\ \A p \in Req : Current(req[p])'
    BY DEF Solo
  <2>1. (\A p \in Req \ {r} : p \notin InFlight') /\ InFlight' \in SUBSET Req
    BY <1>8 DEF InFlight
  <2>2. \A p1, p2 \in InFlight' : p1 = p2
    BY <2>1
  <2>3. /\ settings = noted /\ Legal(audit)
        /\ txn # None => txn.settings = txn.noted /\ Legal(txn.audit)
        /\ \A p \in Req : Current(req[p])
    BY <1>8 DEF IInv, Solo
  <2>4. \A p \in Req : Current(req[p])'
    BY <1>1, <1>2, <2>3 DEF Current
  <2> QED
    BY <1>1, <2>2, <2>3, <2>4
<1> QED
  BY <1>5, <1>6, <1>7, <1>9 DEF IInv

LEMMA EndsKeep ==
  ASSUME IInv, NEW r \in Req, NEW how \in {"done", "failed"}, End(r, how),
         UNCHANGED <<tables, txn>>, overlapped' = overlapped
  PROVE  IInv'
<1>1. UNCHANGED <<users, approvals, audit, settings, noted, txn>>
  BY DEF tables
<1> DEFINE q == [Away EXCEPT !.pc = how]
<1>2. q \in Request /\ q.pc = how
  BY AwayTyped
<1>3. req' = [req EXCEPT ![r] = q]
  BY DEF End
<1> HIDE DEF q
<1>4. req'[r] = q /\ (\A p \in Req \ {r} : req'[p] = req[p]) /\ req' \in [Req -> Request]
  BY <1>2, <1>3 DEF IInv, TypeOK
<1>5. TypeOK'
  BY <1>1, <1>4 DEF IInv, TypeOK
<1>6. Requests'
  BY <1>1, <1>2, <1>4 DEF IInv, Requests, Sane
<1>7. Pending' /\ Committed'
  BY <1>1 DEF IInv, Pending, Committed
<1>8. Solo'
  BY <1>1, <1>2, <1>4 DEF IInv, Solo, InFlight, Current
<1> QED
  BY <1>5, <1>6, <1>7, <1>8 DEF IInv

(***************************************************************************)
(* The first write of a session opens the transaction ...                  *)
(***************************************************************************)
LEMMA BeginKeeps ==
  ASSUME IInv, NEW r \in Req, r \in InFlight, txn = None, End(r, "commit"),
         txn' \in Txn, txn'.by = r,
         \A u \in User : users[u] # None => txn'.users[u] # None,
         Explains(txn'.users, txn'.audit), Mirrors(txn'.approvals, txn'.audit),
         ~overlapped => txn'.settings = txn'.noted /\ Legal(txn'.audit),
         UNCHANGED tables, overlapped' = overlapped
  PROVE  IInv'
<1>1. UNCHANGED <<users, approvals, audit, settings, noted>>
  BY DEF tables
<1> DEFINE q == [Away EXCEPT !.pc = "commit"]
<1>2. q \in Request /\ q.pc = "commit"
  BY AwayTyped
<1>3. req' = [req EXCEPT ![r] = q]
  BY DEF End
<1> HIDE DEF q
<1>4. req'[r] = q /\ (\A p \in Req \ {r} : req'[p] = req[p]) /\ req' \in [Req -> Request]
  BY <1>2, <1>3 DEF IInv, TypeOK
<1>5. TypeOK'
  BY <1>1, <1>4 DEF IInv, TypeOK
<1>6. Requests'
  <2>1. txn' # None
    OBVIOUS
  <2>2. \A p \in Req : req[p].pc # "commit"
    BY DEF IInv, Requests
  <2> QED
    BY <1>1, <1>2, <1>4, <2>1, <2>2 DEF IInv, Requests, Sane
<1>7. Pending'
  BY <1>1 DEF Pending
<1>8. Committed'
  BY <1>1 DEF IInv, Committed
<1>9. InFlight' = InFlight
  BY <1>2, <1>4 DEF InFlight
<1>10. Solo'
  BY <1>1, <1>2, <1>4, <1>9 DEF IInv, Solo, Current
<1> QED
  BY <1>5, <1>6, <1>7, <1>8, <1>10 DEF IInv

(***************************************************************************)
(* ... which is committed or rolled back.                                  *)
(***************************************************************************)
LEMMA CommitKeeps ==
  ASSUME IInv, NEW r \in Req, Commit(r)
  PROVE  IInv'
<1>1. txn \in Txn /\ txn.by = r /\ txn # None
  BY DEF Commit, IInv, TypeOK, Requests
<1>2. /\ users' = txn.users /\ approvals' = txn.approvals /\ audit' = txn.audit
      /\ settings' = txn.settings /\ noted' = txn.noted /\ txn' = None
      /\ overlapped' = overlapped
  BY DEF Commit
<1> DEFINE q == [Away EXCEPT !.pc = "done"]
<1>3. q \in Request /\ q.pc = "done"
  BY AwayTyped
<1>4. req' = [req EXCEPT ![r] = q]
  BY DEF Commit, End
<1> HIDE DEF q
<1>5. req'[r] = q /\ (\A p \in Req \ {r} : req'[p] = req[p]) /\ req' \in [Req -> Request]
  BY <1>3, <1>4 DEF IInv, TypeOK
<1>6. TypeOK'
  BY <1>1, <1>2, <1>5 DEF IInv, TypeOK, Txn
<1>7. Requests'
  <2>1. \A p \in Req \ {r} : req[p].pc # "commit"
    BY <1>1 DEF IInv, Requests
  <2>2. \A u \in User : users[u] # None => users'[u] # None
    BY <1>1, <1>2 DEF IInv, Pending
  <2> QED
    BY <1>3, <1>5, <2>1, <2>2 DEF IInv, Requests, Sane
<1>8. Pending' /\ Committed'
  BY <1>1, <1>2 DEF IInv, Pending, Committed
<1>9. Solo'
  <2> SUFFICES ASSUME ~overlapped
               PROVE  Solo'
    BY <1>2 DEF Solo
  <2>1. r \in InFlight
    BY DEF Commit, InFlight
  <2>2. \A p \in Req : req'[p].pc \notin {"insert", "write", "commit"}
    BY <1>3, <1>5, <2>1 DEF IInv, Solo, InFlight
  <2>3. InFlight' = {}
    BY <2>2 DEF InFlight
  <2>4. \A p \in Req : Current(req[p])'
    BY <2>2 DEF Current
  <2>5. settings' = noted' /\ Legal(audit') /\ txn' = None
    BY <1>1, <1>2 DEF IInv, Solo
  <2> QED
    BY <2>3, <2>4, <2>5 DEF Solo
<1> QED
  BY <1>6, <1>7, <1>8, <1>9 DEF IInv

LEMMA RollbackKeeps ==
  ASSUME IInv, NEW r \in Req, Rollback(r)
  PROVE  IInv'
<1>1. txn.by = r
  BY DEF Rollback, IInv, Requests
<1>2. UNCHANGED <<users, approvals, audit, settings, noted, overlapped>> /\ txn' = None
  BY DEF Rollback, tables
<1> DEFINE q == [Away EXCEPT !.pc = "failed"]
<1>3. q \in Request /\ q.pc = "failed"
  BY AwayTyped
<1>4. req' = [req EXCEPT ![r] = q]
  BY DEF Rollback, End
<1> HIDE DEF q
<1>5. req'[r] = q /\ (\A p \in Req \ {r} : req'[p] = req[p]) /\ req' \in [Req -> Request]
  BY <1>3, <1>4 DEF IInv, TypeOK
<1>6. TypeOK'
  BY <1>2, <1>5 DEF IInv, TypeOK
<1>7. Requests'
  <2>1. \A p \in Req \ {r} : req[p].pc # "commit"
    BY <1>1 DEF IInv, Requests
  <2> QED
    BY <1>2, <1>3, <1>5, <2>1 DEF IInv, Requests, Sane
<1>8. Pending' /\ Committed'
  BY <1>2 DEF IInv, Pending, Committed
<1>9. Solo'
  BY <1>2, <1>3, <1>5 DEF IInv, Solo, InFlight, Current
<1> QED
  BY <1>6, <1>7, <1>8, <1>9 DEF IInv
-----------------------------------------------------------------------------
LEMMA OpenTyped ==
  ASSUME IInv, NEW r \in Req
  PROVE  /\ Open(r) \in Txn /\ Open(r).by = r
         /\ Open(r).users = users /\ Open(r).approvals = approvals
         /\ Open(r).audit = audit /\ Open(r).settings = settings
         /\ Open(r).noted = noted
  BY DEF Open, Txn, IInv, TypeOK

(***************************************************************************)
(* A write of an account with its audit entry, for signups and             *)
(* transitions.                                                            *)
(***************************************************************************)
LEMMA BeginWrites ==
  ASSUME IInv, NEW r \in Req, NEW u \in User, NEW row \in Row,
         NEW decision \in Status \cup {None}, NEW e \in Entry,
         r \in InFlight, Begin(r, u, row, decision, e), End(r, "commit"),
         ExplainedBy(row, e),
         IF e.action \in Decision THEN decision = After[e.action]
                                  ELSE decision = approvals[u] \/ audit[u] = <<>>,
         ~overlapped /\ audit[u] # <<>> =>
           MayFollow(e.action, audit[u][Len(audit[u])].action),
         UNCHANGED tables, overlapped' = overlapped
  PROVE  IInv'
<1> DEFINE rows2 == [users EXCEPT ![u] = row]
           decisions2 == [approvals EXCEPT ![u] = decision]
           audit2 == [audit EXCEPT ![u] = Append(@, e)]
<1>1. /\ users \in [User -> Row \cup {None}]
      /\ approvals \in [User -> Status \cup {None}]
      /\ audit \in [User -> Seq(Entry)]
      /\ settings \in Values /\ noted \in Values
      /\ Explains(users, audit) /\ Mirrors(approvals, audit)
      /\ ~overlapped => settings = noted /\ Legal(audit)
  BY DEF IInv, TypeOK, Committed, Solo
<1>2. txn = None
  BY DEF Begin
<1>3. txn' = [by |-> r, users |-> rows2, approvals |-> decisions2, audit |-> audit2,
              settings |-> settings, noted |-> noted]
  BY DEF Begin, Open
<1>4. Explains(rows2, audit2)
  BY <1>1, ExplainsAppend
<1>5. Mirrors(decisions2, audit2)
  <2>1. decisions2[u] = decision /\ \A v \in User \ {u} : decisions2[v] = approvals[v]
    BY <1>1
  <2> HIDE DEF decisions2
  <2> QED
    BY <1>1, <2>1, MirrorsAppend
<1>6. ~overlapped => Legal(audit2)
  BY <1>1, LegalAppend
<1>7. rows2 \in [User -> Row \cup {None}] /\ decisions2 \in [User -> Status \cup {None}]
  BY <1>1
<1>8. audit2 \in [User -> Seq(Entry)]
  <2>1. Append(audit[u], e) \in Seq(Entry)
    BY <1>1, AppendLog
  <2> QED
    BY <1>1, <2>1
<1>9. \A v \in User : users[v] # None => rows2[v] # None
  BY <1>1
<1> HIDE DEF rows2, decisions2, audit2
<1>10. /\ txn' \in Txn /\ txn'.by = r /\ txn'.users = rows2
       /\ txn'.approvals = decisions2 /\ txn'.audit = audit2
       /\ txn'.settings = settings /\ txn'.noted = noted
  BY <1>1, <1>3, <1>7, <1>8 DEF Txn
<1> QED
  BY <1>1, <1>2, <1>4, <1>5, <1>6, <1>9, <1>10, BeginKeeps

LEMMA SignupCheckKeeps ==
  ASSUME IInv, NEW r \in Req, NEW u \in User, NEW e \in Email, SignupCheck(r, u, e)
  PROVE  IInv'
<1> DEFINE q == IF users[u] # None \/ EmailTaken(e)
                  THEN [Away EXCEPT !.pc = "failed"]
                  ELSE [Away EXCEPT !.pc = "insert", !.user = u, !.email = e]
<1>1. q \in Request /\ q.pc # "commit" /\ Sane(q) /\ Current(q)
  BY DEF Away, Request, Value, Sane, Current
<1>2. req' = [req EXCEPT ![r] = q]
  BY DEF SignupCheck
<1> HIDE DEF q
<1> QED
  BY <1>1, <1>2, ArriveKeeps DEF SignupCheck

LEMMA DecideKeeps ==
  ASSUME IInv, NEW r \in Req, NEW ask \in commands \cup admin_user_action_form,
         NEW u \in User \cup Admin, Decide(r, ask, u)
  PROVE  IInv'
<1> DEFINE q == IF u \in User /\ Allowed(ask.op, users[u])
                  THEN [Away EXCEPT !.pc = "write", !.op = ask.op, !.user = u,
                                    !.admin = ask.by, !.seen = users[u]]
                  ELSE [Away EXCEPT !.pc = "failed"]
<1>1. ask.by \in Admin
  BY DEF commands, admin_api, local_db, admin_user_action_form, Asked, FirstAdmin
<1>2. ask.op \in Transition
  BY DEF Decide
<1>3. q \in Request /\ q.pc # "commit"
  BY <1>1, <1>2 DEF Away, Request, Value, IInv, TypeOK, Allowed
<1>4. Sane(q) /\ Current(q)
  <2>1. CASE u \in User /\ Allowed(ask.op, users[u])
    <3>1. /\ q.pc = "write" /\ q.op = ask.op /\ q.user = u /\ q.admin = ask.by
          /\ q.seen = users[u]
      BY <2>1 DEF Away
    <3>2. users[u] # None /\ users[u] \in Row
      BY <2>1 DEF Allowed, IInv, TypeOK
    <3> HIDE DEF q
    <3>3. q.op \notin Setting
      BY <1>2, <3>1 DEF Transition, Setting
    <3> QED
      BY <1>1, <1>2, <2>1, <3>1, <3>2, <3>3 DEF Sane, Current
  <2>2. CASE ~(u \in User /\ Allowed(ask.op, users[u]))
    BY <2>2 DEF Away, Sane, Current
  <2> QED
    BY <2>1, <2>2
<1>5. req' = [req EXCEPT ![r] = q]
  BY DEF Decide
<1> HIDE DEF q
<1> QED
  BY <1>3, <1>4, <1>5, ArriveKeeps DEF Decide

LEMMA AskedTyped ==
  ASSUME NEW ask \in commands \cup admin_user_action_form
  PROVE  ask.by \in Admin /\ ask.value \in Value
  BY DEF commands, admin_api, local_db, admin_user_action_form, Asked, FirstAdmin,
         apply_gpu_ids, InRange, Value

LEMMA SetLoadKeeps ==
  ASSUME IInv, NEW r \in Req, NEW ask \in commands \cup admin_user_action_form,
         NEW u \in User, SetLoad(r, ask, u)
  PROVE  IInv'
<1> DEFINE row == settings[u][ask.op]
           q == IF users[u] = None THEN [Away EXCEPT !.pc = "failed"]
                ELSE IF ask.value = None /\ row = None THEN [Away EXCEPT !.pc = "done"]
                ELSE [Away EXCEPT !.pc = "write", !.op = ask.op, !.user = u,
                                  !.value = ask.value, !.was = row]
<1>1. ask.op \in Setting /\ ask.value \in Value
  BY AskedTyped DEF SetLoad
<1>2. row \in Value
  BY <1>1 DEF IInv, TypeOK, Values
<1>3. q \in Request /\ q.pc # "commit" /\ Sane(q) /\ Current(q)
  BY <1>1, <1>2 DEF Away, Request, Value, Sane, Current, Transition, Setting
<1>4. req' = [req EXCEPT ![r] = q]
  BY DEF SetLoad
<1> HIDE DEF q
<1> QED
  BY <1>3, <1>4, ArriveKeeps DEF SetLoad

LEMMA SignupInsertKeeps ==
  ASSUME IInv, NEW r \in Req, SignupInsert(r)
  PROVE  IInv'
<1> DEFINE u == req[r].user
<1>1. u \in User /\ req[r].email \in Email /\ r \in InFlight
  BY DEF SignupInsert, IInv, Requests, Sane, InFlight
<1>2. CASE users[u] # None \/ EmailTaken(req[r].email)
  <2>1. End(r, "failed") /\ UNCHANGED <<tables, txn>> /\ overlapped' = overlapped
    BY <1>2 DEF SignupInsert
  <2> QED
    BY <2>1, EndsKeep
<1>3. CASE ~(users[u] # None \/ EmailTaken(req[r].email))
  <2> DEFINE row(approval) ==
               [status |-> IF approval THEN "pending" ELSE "approved",
                email |-> req[r].email,
                at |-> IF approval THEN None ELSE r, by |-> None]
             decision(approval) == IF approval THEN "pending" ELSE None
             e == [action |-> "signup", actor |-> None]
  <2>1. PICK approval \in RequireApproval : Begin(r, u, row(approval), decision(approval), e)
    BY <1>3 DEF SignupInsert
  <2>2. End(r, "commit") /\ UNCHANGED tables /\ overlapped' = overlapped
    BY <1>3 DEF SignupInsert
  <2>3. row(approval) \in Row /\ row(approval).status \in {"pending", "approved"}
    BY <1>1 DEF Row, Status
  <2>4. decision(approval) \in Status \cup {None}
    BY DEF Status
  <2>5. e \in Entry /\ e.action = "signup"
    BY DEF Entry
  <2>6. audit[u] = <<>>
    BY <1>1, <1>3 DEF IInv, Committed, Explains
  <2> HIDE DEF e, row, decision, u
  <2>7. ExplainedBy(row(approval), e)
    BY <2>3, <2>5 DEF ExplainedBy
  <2>8. e.action \notin Decision
    BY <2>5 DEF Decision
  <2> QED
    BY <1>1, <2>1, <2>2, <2>3, <2>4, <2>5, <2>6, <2>7, <2>8, BeginWrites
<1> QED
  BY <1>2, <1>3

(***************************************************************************)
(* The tables of approval.py: where each transition leads, and from where. *)
(***************************************************************************)
LEMMA AfterIs ==
  ASSUME NEW op \in Transition
  PROVE  /\ After[op] \in Status /\ op # "signup"
         /\ op = "approve" => After[op] = "approved"
         /\ op = "deny" => After[op] = "denied"
         /\ op = "ban" => After[op] = "banned"
         /\ op = "unban" => After[op] = "approved"
  BY DEF After, Transition, Status

LEMMA AllowedMeans ==
  ASSUME NEW op \in Transition, NEW row, Allowed(op, row)
  PROVE  /\ row # None
         /\ op \in {"approve", "deny"} => row.status = "pending"
         /\ op = "ban" => row.status # "banned"
         /\ op = "unban" => row.status = "banned"
<1>1. CASE op \in {"approve", "deny"}
  BY <1>1 DEF Allowed
<1>2. CASE op = "ban"
  BY <1>2 DEF Allowed
<1>3. CASE op = "unban"
  BY <1>3 DEF Allowed
<1> QED
  BY <1>1, <1>2, <1>3 DEF Transition

LEMMA WriteKeeps ==
  ASSUME IInv, NEW r \in Req, Write(r)
  PROVE  IInv'
<1> DEFINE u == req[r].user
           op == req[r].op
           seen == req[r].seen
           row == Updated(r, users[u])
           decision == Decided(r, approvals[u])
           e == [action |-> op, actor |-> req[r].admin]
<1>1. /\ op \in Transition /\ u \in User /\ req[r].admin \in Admin /\ seen \in Row
      /\ Allowed(op, seen) /\ users[u] # None /\ r \in InFlight
  BY DEF Write, IInv, Requests, Sane, InFlight
<1>2. users[u] \in Row /\ approvals[u] \in Status \cup {None}
  BY <1>1 DEF IInv, TypeOK
<1>3. After[op] \in Status /\ seen.status # After[op]
  <2> HIDE DEF op, seen
  <2> QED
    BY <1>1, AfterIs, AllowedMeans DEF Transition
<1>4. Begin(r, u, row, decision, e) /\ End(r, "commit") /\ UNCHANGED <<tables, overlapped>>
  BY DEF Write
<1>5. row.status = After[op]
  BY <1>2, <1>3 DEF Updated, Column, Row
<1>6. row \in Row
  <2> DEFINE granted == op \in {"approve", "unban"}
             status == Column(seen.status, After[op], users[u].status)
             at == Column(seen.at, IF granted THEN r ELSE None, users[u].at)
             by == Column(seen.by, IF granted THEN req[r].admin ELSE None, users[u].by)
  <2>1. row = [users[u] EXCEPT !.status = status, !.at = at, !.by = by]
    BY DEF Updated
  <2>2. status \in Status
    BY <1>2, <1>3 DEF Column, Row
  <2>3. at \in Req \cup {None}
    BY <1>2 DEF Column, Row
  <2>4. by \in Admin \cup {None}
    BY <1>1, <1>2 DEF Column, Row
  <2> HIDE DEF row, status, at, by
  <2> QED
    BY <1>2, <2>1, <2>2, <2>3, <2>4 DEF Row
<1>7. decision \in Status \cup {None}
  BY <1>2, <1>3 DEF Decided
<1>8. e \in Entry /\ e.action = op
  BY <1>1 DEF Entry
<1>9. IF op \in Decision THEN decision = After[op] ELSE decision = approvals[u]
  BY DEF Decided, Decision
<1>10. op # "signup"
  BY <1>1 DEF Transition
<1>11. ASSUME ~overlapped, audit[u] # <<>>
       PROVE  MayFollow(op, audit[u][Len(audit[u])].action)
  <2> DEFINE before == audit[u][Len(audit[u])]
  <2>1. seen = users[u]
    BY <1>1, <1>11 DEF IInv, Solo, Current, Write
  <2>2. ExplainedBy(seen, before)
    BY <1>1, <2>1 DEF IInv, Committed, Explains
  <2>3. before \in Entry
    <3>1. audit[u] \in Seq(Entry)
      BY <1>1 DEF IInv, TypeOK
    <3>2. Len(audit[u]) \in 1 .. Len(audit[u])
      BY <3>1, <1>11, EmptySeq, LenProperties
    <3> QED
      BY <3>1, <3>2, ElementOfSeq
  <2>4. before.action \in Transition \cup {"signup"}
    BY <2>3 DEF Entry
  <2> HIDE DEF before, op, seen
  <2>5. /\ before.action = "signup" => seen.status \in {"pending", "approved"}
        /\ before.action \in Transition => seen.status = After[before.action]
    BY <2>2, AfterIs DEF ExplainedBy
  <2>6. MayFollow(op, before.action)
    <3>1. CASE op \in {"approve", "deny"}
      <4>1. seen.status = "pending"
        BY <1>1, <3>1, AllowedMeans
      <4> QED
        BY <2>4, <2>5, <3>1, <4>1, AfterIs DEF MayFollow, Transition
    <3>2. CASE op = "ban"
      <4>1. seen.status # "banned"
        BY <1>1, <3>2, AllowedMeans
      <4>2. before.action # "ban"
        BY <2>5, <4>1, AfterIs DEF Transition
      <4> QED
        BY <3>2, <4>2 DEF MayFollow
    <3>3. CASE op = "unban"
      <4>1. seen.status = "banned"
        BY <1>1, <3>3, AllowedMeans
      <4>2. before.action = "ban"
        BY <2>4, <2>5, <4>1, AfterIs DEF Transition
      <4> QED
        BY <3>3, <4>2 DEF MayFollow
    <3> QED
      BY <1>1, <3>1, <3>2, <3>3 DEF Transition
  <2> QED
    BY <2>6 DEF before
<1> HIDE DEF u, op, seen, row, decision, e
<1>12. ExplainedBy(row, e)
  BY <1>5, <1>8, <1>10 DEF ExplainedBy
<1> QED
  BY <1>1, <1>4, <1>6, <1>7, <1>8, <1>9, <1>11, <1>12, BeginWrites

LEMMA SetWriteKeeps ==
  ASSUME IInv, NEW r \in Req, SetWrite(r)
  PROVE  IInv'
<1> DEFINE u == req[r].user
           kind == req[r].op
           row == settings[u][kind]
           settings2 == [settings EXCEPT ![u][kind] = Saved(r, row)]
           noted2 == [noted EXCEPT ![u][kind] = req[r].value]
<1>1. kind \in Setting /\ u \in User /\ r \in InFlight
  BY DEF SetWrite, IInv, Requests, Sane, InFlight
<1>2. settings \in Values /\ noted \in Values /\ row \in Value /\ req[r].value \in Value
  BY <1>1 DEF IInv, TypeOK, Values, Request
<1>3. CASE Collides(r, row)
  <2>1. End(r, "failed") /\ UNCHANGED <<tables, txn>> /\ overlapped' = overlapped
    BY <1>3 DEF SetWrite
  <2> QED
    BY <2>1, EndsKeep
<1>4. CASE ~Collides(r, row)
  <2>1. /\ txn = None /\ End(r, "commit") /\ UNCHANGED tables /\ overlapped' = overlapped
        /\ txn' = [by |-> r, users |-> users, approvals |-> approvals, audit |-> audit,
                   settings |-> settings2, noted |-> noted2]
    BY <1>4 DEF SetWrite, Open
  <2>2. Saved(r, row) \in Value
    BY <1>2 DEF Saved, Column
  <2>3. settings2 \in Values /\ noted2 \in Values
    BY <1>1, <1>2, <2>2 DEF Values
  <2>4. ASSUME ~overlapped
        PROVE  settings2 = noted2
    <3>1. req[r].was = row /\ settings = noted
      BY <1>1, <2>4 DEF IInv, Solo, Current, SetWrite
    <3>2. Saved(r, row) = req[r].value
      BY <3>1 DEF Saved, Column
    <3> QED
      BY <3>1, <3>2
  <2> HIDE DEF settings2, noted2
  <2>5. /\ users \in [User -> Row \cup {None}]
        /\ approvals \in [User -> Status \cup {None}]
        /\ audit \in [User -> Seq(Entry)]
        /\ Explains(users, audit) /\ Mirrors(approvals, audit)
        /\ ~overlapped => Legal(audit)
    BY DEF IInv, TypeOK, Committed, Solo
  <2>6. /\ txn' \in Txn /\ txn'.by = r /\ txn'.users = users
        /\ txn'.approvals = approvals /\ txn'.audit = audit
        /\ txn'.settings = settings2 /\ txn'.noted = noted2
    BY <2>1, <2>3, <2>5 DEF Txn
  <2> QED
    BY <1>1, <2>1, <2>4, <2>5, <2>6, BeginKeeps
<1> QED
  BY <1>3, <1>4

LEMMA BusyKeeps ==
  ASSUME IInv, NEW r \in Req, Busy(r)
  PROVE  IInv'
<1>1. End(r, "failed") /\ UNCHANGED <<tables, txn>> /\ overlapped' = overlapped
  BY DEF Busy
<1> QED
  BY <1>1, EndsKeep
-----------------------------------------------------------------------------
LEMMA IInvInit == Init => IInv
<1> SUFFICES ASSUME Init
             PROVE  IInv
  OBVIOUS
<1> DEFINE first == [action |-> "signup", actor |-> None]
<1>1. PICK waiting \in SUBSET User :
        \E mail \in [waiting -> Email], missing \in SUBSET waiting :
          /\ \A u, v \in waiting : u # v => mail[u] # mail[v]
          /\ users = [u \in User |->
                IF u \in waiting THEN [status |-> "pending", email |-> mail[u],
                                       at |-> None, by |-> None]
                                 ELSE None]
          /\ approvals = [u \in User |->
                IF u \in waiting \ missing THEN "pending" ELSE None]
          /\ audit = [u \in User |-> IF u \in waiting THEN <<first>> ELSE <<>>]
  BY Zenon DEF Init
<1>2. PICK mail \in [waiting -> Email], missing \in SUBSET waiting :
        /\ users = [u \in User |->
              IF u \in waiting THEN [status |-> "pending", email |-> mail[u],
                                     at |-> None, by |-> None]
                               ELSE None]
        /\ approvals = [u \in User |->
              IF u \in waiting \ missing THEN "pending" ELSE None]
        /\ audit = [u \in User |-> IF u \in waiting THEN <<first>> ELSE <<>>]
  BY <1>1
<1>3. /\ settings = [u \in User |-> [kind \in Setting |-> None]] /\ noted = settings
      /\ txn = None /\ req = [r \in Req |-> Away] /\ overlapped = FALSE
  BY DEF Init
<1>4. first \in Entry /\ first.action = "signup"
  BY DEF Entry
<1> HIDE DEF first
<1>5. /\ <<first>> \in Seq(Entry) /\ Len(<<first>>) = 1 /\ <<first>>[1] = first
      /\ <<first>> # <<>>
  BY <1>4
<1>6. \A u \in waiting : users[u] \in Row /\ users[u].status = "pending"
  BY <1>2 DEF Row, Status
<1>7. \A u \in User \ waiting : users[u] = None
  BY <1>2
<1>8. users \in [User -> Row \cup {None}]
  <2>1. users = [u \in User |-> users[u]]
    BY <1>2
  <2> QED
    BY <1>6, <1>7, <2>1
<1>9. /\ audit \in [User -> Seq(Entry)] 
      /\ \A u \in User : audit[u] = IF u \in waiting THEN <<first>> ELSE <<>>
  BY <1>2, <1>5, EmptyLog
<1>10. approvals \in [User -> Status \cup {None}]
  BY <1>2 DEF Status
<1>11. Away \in Request /\ Away.pc = "idle"
  BY DEF Away, Request, Value
<1>12. req \in [Req -> Request] /\ \A r \in Req : req[r].pc = "idle"
  BY <1>3, <1>11
<1>13. settings \in Values /\ noted \in Values
  BY <1>3 DEF Values, Value
<1>14. TypeOK
  BY <1>3, <1>8, <1>9, <1>10, <1>12, <1>13 DEF TypeOK
<1>15. Requests
  BY <1>12 DEF Requests, Sane
<1>16. Pending
  BY <1>3 DEF Pending
<1>17. Explains(users, audit)
  BY <1>4, <1>5, <1>6, <1>7, <1>9 DEF Explains, ExplainedBy
<1>18. Mirrors(approvals, audit)
  <2> SUFFICES ASSUME NEW u \in User, NEW i \in 1 .. Len(audit[u]),
                      LastDecision(audit[u], i)
               PROVE  FALSE
    BY DEF Mirrors
  <2>1. CASE u \in waiting
    <3>1. audit[u][i] = first
      BY <1>5, <1>9, <2>1
    <3> QED
      BY <1>4, <3>1 DEF LastDecision, Decision
  <2>2. CASE u \notin waiting
    BY <1>9, <2>2, EmptyLog
  <2> QED
    BY <2>1, <2>2
<1>19. Legal(audit)
  BY <1>5, <1>9, EmptyLog DEF Legal
<1>20. Solo
  BY <1>3, <1>12, <1>19 DEF Solo, InFlight, Current
<1> QED
  BY <1>14, <1>15, <1>16, <1>17, <1>18, <1>20 DEF IInv, Committed

LEMMA IInvNext == IInv /\ [Next]_vars => IInv'
<1> SUFFICES ASSUME IInv, [Next]_vars
             PROVE  IInv'
  OBVIOUS
<1>1. CASE Next
  <2>1. PICK r \in Req : Arrive(r) \/ Finish(r)
    BY <1>1 DEF Next
  <2>2. CASE \E u \in User, e \in Email : SignupCheck(r, u, e)
    BY <2>2, SignupCheckKeeps
  <2>3. CASE \E ask \in commands \cup admin_user_action_form :
               \E u \in User \cup Admin : Decide(r, ask, u)
    BY <2>3, DecideKeeps
  <2>4. CASE \E ask \in commands \cup admin_user_action_form :
               \E u \in User : SetLoad(r, ask, u)
    BY <2>4, SetLoadKeeps
  <2>5. CASE SignupInsert(r)
    BY <2>5, SignupInsertKeeps
  <2>6. CASE Write(r)
    BY <2>6, WriteKeeps
  <2>7. CASE SetWrite(r)
    BY <2>7, SetWriteKeeps
  <2>8. CASE Busy(r)
    BY <2>8, BusyKeeps
  <2>9. CASE Commit(r)
    BY <2>9, CommitKeeps
  <2>10. CASE Rollback(r)
    BY <2>10, RollbackKeeps
  <2> QED
    BY <2>1, <2>2, <2>3, <2>4, <2>5, <2>6, <2>7, <2>8, <2>9, <2>10 DEF Arrive, Finish
<1>2. CASE UNCHANGED vars
  <2>1. UNCHANGED <<users, approvals, audit, settings, noted, txn, req, overlapped>>
    BY <1>2 DEF vars
  <2>2. TypeOK'
    BY <2>1 DEF IInv, TypeOK
  <2>3. Requests'
    BY <2>1 DEF IInv, Requests, Sane
  <2>4. Pending' /\ Committed'
    BY <2>1 DEF IInv, Pending, Committed
  <2>5. InFlight' = InFlight
    BY <2>1 DEF InFlight
  <2>6. Solo'
    BY <2>1, <2>5 DEF IInv, Solo, Current
  <2> QED
    BY <2>2, <2>3, <2>4, <2>6 DEF IInv
<1> QED
  BY <1>1, <1>2

LEMMA Invariance == Spec => []IInv
  BY IInvInit, IInvNext, PTL DEF Spec
-----------------------------------------------------------------------------
(***************************************************************************)
(* Every variable of the accounts keeps its type: a transition writes      *)
(* whole rows, whatever it believed it had read.                           *)
(***************************************************************************)
THEOREM TypeCorrect == Spec => []TypeOK
<1>1. IInv => TypeOK
  BY DEF IInv
<1> QED
  BY <1>1, Invariance, PTL

(***************************************************************************)
(* However admins overlap on the API, the pages and the command line, the  *)
(* status of an account is what its last audit entry leads to, although    *)
(* each transition of approval.py wrote only the columns it believed had   *)
(* changed; quota and GPUs are what the last change of them says while     *)
(* requests do not overlap.                                                *)
(***************************************************************************)
THEOREM AuditAlwaysExplainsAccount == Spec => []AuditExplainsAccount
<1>1. IInv => AuditExplainsAccount
  BY DEF IInv, Committed, Solo, Explains, ExplainedBy, AuditExplainsAccount,
         StatusExplained, Last
<1> QED
  BY <1>1, Invariance, PTL

(***************************************************************************)
(* The approval row records the last approve or deny of the audit log,     *)
(* also if it was missing and whatever bans and overlapping decisions came *)
(* after.                                                                  *)
(***************************************************************************)
THEOREM DecisionAlwaysMirrorsAudit == Spec => []DecisionMirrorsAudit
<1>1. IInv => DecisionMirrorsAudit
  BY DEF IInv, Committed, Mirrors, DecisionMirrorsAudit
<1> QED
  BY <1>1, Invariance, PTL

(***************************************************************************)
(* While requests do not overlap, the entries of an account follow each    *)
(* other as the ConflictErrors of approval.py demand.                      *)
(***************************************************************************)
THEOREM HistoryIsAlwaysLegal == Spec => []HistoryIsLegal
<1>1. IInv => HistoryIsLegal
  BY DEF IInv, Solo, Legal, MayFollow, HistoryIsLegal
<1> QED
  BY <1>1, Invariance, PTL
=============================================================================
