----------------------------- MODULE MembersProofs -----------------------------
(***************************************************************************)
(* TypeOK, OneEach, NothingOutlivesItsPost and RemovalsAreOwn hold for any *)
(* number of accounts, request slots, glyphs, rows, sessions and tokens.   *)
(*                                                                         *)
(* Only OneEach is inductive by itself.  The others need to know that what *)
(* a request remembers of a row is still true of it, if the row is still   *)
(* there: a serial number is never given out again, so the row with the    *)
(* number that a request (or a reaction) has kept is the row it has seen,  *)
(* and has the id that was kept with the number.                           *)
(***************************************************************************)
EXTENDS Members, TLAPS, WellFoundedInduction

USE MembersAssumption

ReqRecord == [pc : {"idle", "loaded", "write"}, op : Op,
              by : User \cup {None}, on : 0 .. MaxSerial \cup User,
              onN : 0 .. MaxSerial, tag : Glyph \cup {None} \cup 1 .. MaxSerial,
              found : 0 .. MaxSerial, foundN : 0 .. MaxSerial]

Hanging == {"reaction", "remark"}       \* on a post
Removed(op) == CASE op = "unlike" -> "like"
                 [] op = "unfollow" -> "follow"
                 [] op = "react" -> "reaction"
                 [] op = "delete post" -> "post"
                 [] op = "delete remark" -> "remark"
                 [] op = "revoke" -> "token"
Owned == {"delete post", "delete remark", "revoke"}
Removals == {"unlike", "unfollow", "react", "delete post", "delete remark", "revoke"}

(***************************************************************************)
(* A row with the number of a post that x hangs on has the id x refers to. *)
(***************************************************************************)
Refers(on, onN, store) ==
  \A p \in store : p.table = "post" /\ p.n = onN => p.id = on

Numbered ==
  /\ \A x \in rows : x.id <= serial /\ x.n <= serial /\ x.onN <= serial
  /\ \A x, y \in rows : x.n = y.n => x = y
  /\ \A x \in rows : x.table \in Hanging => Refers(x.on, x.onN, rows)

Knows(q, store, bound) ==
  /\ q.onN <= bound /\ q.foundN <= bound
  /\ q.pc # "idle" /\ q.op \in {"react", "remark"} =>
       q.onN # 0 /\ Refers(q.on, q.onN, store)
  /\ q.pc = "write" /\ q.op \in Removals =>
       \A x \in store : x.n = q.foundN =>
         /\ x.table = Removed(q.op) /\ x.id = q.found
         /\ x.by = q.by \/ q.by \in Admins

RowsInv ==
  /\ rows \subseteq Row /\ serial \in 0 .. MaxSerial
  /\ \A x, y \in rows : x.table = y.table /\ x.id = y.id => x = y
  /\ Numbered /\ OneEach /\ NothingOutlivesItsPost

ReqInv ==
  /\ req \in [Req -> ReqRecord]
  /\ \A r \in Req : Knows(req[r], rows, serial)

AccountsInv == active \subseteq User /\ cookie \subseteq User

IInv == RowsInv /\ ReqInv /\ AccountsInv
-----------------------------------------------------------------------------
(***************************************************************************)
(* A bounded set of naturals has a greatest element, as a set of naturals  *)
(* has a least one.                                                        *)
(***************************************************************************)
LEMMA MaxIsGreatest ==
  ASSUME NEW S \in SUBSET Nat, S # {}, NEW b \in Nat, \A x \in S : x <= b
  PROVE  Max(S) \in S /\ \A y \in S : y <= Max(S)
<1> DEFINE T == {b - x : x \in S}
<1>1. T \subseteq Nat /\ T # {}
  <2>1. \A x \in S : x \in Nat /\ b - x \in Nat
    OBVIOUS
  <2>2. T \subseteq Nat
    BY <2>1
  <2>3. \E x \in S : b - x \in T
    OBVIOUS
  <2> QED
    BY <2>2, <2>3
<1>2. PICK m \in T : \A y \in T : ~ (<<y, m>> \in OpToRel(<, Nat))
  <2> HIDE DEF T
  <2> QED BY <1>1, NatLessThanWellFounded, WFMin
<1>3. \A y \in T : m <= y
  <2> SUFFICES ASSUME NEW y \in T, ~ (m <= y) PROVE FALSE
    OBVIOUS
  <2>1. y \in Nat /\ m \in Nat /\ y < m
    BY <1>1
  <2>2. <<y, m>> \in OpToRel(<, Nat)
    BY <2>1 DEF OpToRel
  <2> QED BY <1>2, <2>2
<1>4. PICK x \in S : m = b - x
  OBVIOUS
<1>5. \A y \in S : x >= y
  <2> TAKE y \in S
  <2>1. b - y \in T
    OBVIOUS
  <2>2. b - x <= b - y
    BY <1>3, <1>4, <2>1
  <2> HIDE DEF T
  <2> QED BY <2>2
<1>6. Max(S) \in S /\ \A y \in S : Max(S) >= y
  BY <1>5 DEF Max
<1> QED
  BY <1>6

LEMMA NextIdIsNew ==
  ASSUME RowsInv, NEW t
  PROVE  /\ NextId(t) \in 1 .. serial + 1
         /\ \A x \in rows : x.table = t => x.id < NextId(t)
<1> DEFINE S == {0} \cup {x.id : x \in Of(t)}
<1>1. S \in SUBSET Nat /\ S # {} /\ serial \in Nat /\ \A i \in S : i <= serial
  BY DEF RowsInv, Row, Numbered, Of, MembersAssumption
<1>2. Max(S) \in S /\ \A i \in S : i <= Max(S)
  <2> HIDE DEF S
  <2> QED BY <1>1, MaxIsGreatest
<1>3. NextId(t) = 1 + Max(S)
  BY DEF NextId
<1>4. \A x \in rows : x.table = t => x.id \in S
  BY DEF Of
<1>5. Max(S) \in Nat /\ Max(S) <= serial
  <2> HIDE DEF S
  <2> QED BY <1>1, <1>2
<1>6. \A x \in rows : x.table = t => x.id \in Nat /\ x.id <= Max(S)
  <2> HIDE DEF S
  <2> QED BY <1>1, <1>2, <1>4
<1> DEFINE m == Max(S)
<1>7. m \in Nat /\ m <= serial /\ NextId(t) = 1 + m
  BY <1>3, <1>5
<1>8. \A x \in rows : x.table = t => x.id \in Nat /\ x.id <= m
  BY <1>6
<1> HIDE DEF m
<1> QED
  BY <1>1, <1>7, <1>8
-----------------------------------------------------------------------------
(***************************************************************************)
(* The tables: rows that go, a row that comes, a token that expires.       *)
(***************************************************************************)
LEMMA FewerRows ==
  ASSUME RowsInv, NEW gone \in SUBSET rows, rows' = rows \ gone, serial' = serial,
         \A x \in gone : x.table # "comment",
         \A p \in gone, x \in rows \ gone :
           p.table = "post" /\ x.table \in Hanging => x.on # p.id
  PROVE  RowsInv'
<1>1. rows' \subseteq rows /\ rows' \subseteq Row /\ serial' \in 0 .. MaxSerial
  BY DEF RowsInv
<1>2. \A x, y \in rows' : x.table = y.table /\ x.id = y.id => x = y
  BY <1>1 DEF RowsInv
<1>3. Numbered'
  BY <1>1 DEF RowsInv, Numbered, Refers
<1>4. OneEach'
  BY <1>1 DEF RowsInv, OneEach, Key
<1>5. ASSUME NEW x \in rows', x.table \in Hanging, ~x.late
      PROVE  Exists("post", x.onN)'
  <2>1. PICK p \in rows : p.table = "post" /\ p.n = x.onN
    BY <1>1, <1>5 DEF RowsInv, NothingOutlivesItsPost, Exists, Of, Hanging
  <2>2. p.id = x.on
    BY <1>1, <1>5, <2>1 DEF RowsInv, Numbered, Refers
  <2>3. p \notin gone
    BY <1>5, <2>1, <2>2
  <2> QED
    BY <2>1, <2>3 DEF Exists, Of
<1>6. ASSUME NEW x \in rows', x.table = "comment", x.tag # None
      PROVE  (\E c \in Of("comment") : c.id = x.tag /\ c.on = x.on)'
  <2>1. PICK c \in rows : c.table = "comment" /\ c.id = x.tag /\ c.on = x.on
    BY <1>1, <1>6 DEF RowsInv, NothingOutlivesItsPost, Of
  <2> QED
    BY <2>1 DEF Of
<1>7. NothingOutlivesItsPost'
  BY <1>5, <1>6 DEF NothingOutlivesItsPost, Hanging
<1> QED
  BY <1>1, <1>2, <1>3, <1>4, <1>7 DEF RowsInv

LEMMA NewRow ==
  ASSUME RowsInv, serial < MaxSerial,
         NEW w \in Row, w.id = NextId(w.table), w.n = serial + 1,
         w.onN <= serial, Unique(w),
         w.table \in Hanging =>
           Refers(w.on, w.onN, rows) /\ (~w.late => Exists("post", w.onN)),
         w.table = "comment" /\ w.tag # None =>
           \E c \in Of("comment") : c.id = w.tag /\ c.on = w.on,
         rows' = rows \cup {w}, serial' = serial + 1
  PROVE  RowsInv'
<1>1. /\ serial \in Nat /\ serial' \in 0 .. MaxSerial /\ rows' \subseteq Row
      /\ \A x \in rows : /\ x.id \in Nat /\ x.n \in Nat /\ x.onN \in Nat
                        /\ x.id <= serial /\ x.n <= serial /\ x.onN <= serial
  BY DEF RowsInv, Numbered, MembersAssumption, Row
<1>2. /\ w.id \in 1 .. serial + 1
      /\ \A x \in rows : x.table = w.table => x.id < w.id
  BY NextIdIsNew
<1>3. \A x, y \in rows' : x.table = y.table /\ x.id = y.id => x = y
  BY <1>1, <1>2 DEF RowsInv
<1>4. Numbered'
  <2>1. \A x \in rows' : x.id <= serial' /\ x.n <= serial' /\ x.onN <= serial'
    BY <1>1, <1>2 DEF Row
  <2>2. \A x, y \in rows' : x.n = y.n => x = y
    BY <1>1 DEF RowsInv, Numbered
  <2>3. ASSUME NEW x \in rows', x.table \in Hanging
        PROVE  Refers(x.on, x.onN, rows')
    <3>1. Refers(x.on, x.onN, rows)
      BY <2>3 DEF RowsInv, Numbered
    <3>2. w.table = "post" => w.n # x.onN
      BY <1>1, <2>3 DEF Hanging
    <3> QED
      BY <3>1, <3>2 DEF Refers
  <2> QED
    BY <2>1, <2>2, <2>3 DEF Numbered
<1>5. OneEach'
  <2>1. w.table \in {"like", "follow", "reaction"} => \A y \in rows : Key(y) # Key(w)
    BY DEF Unique
  <2>2. \A x, y \in rows' : Key(x) = Key(y) => x.table = y.table
    BY DEF Key
  <2> QED
    BY <2>1, <2>2 DEF RowsInv, OneEach, Key
<1>6. ASSUME NEW x \in rows', x.table \in Hanging, ~x.late
      PROVE  Exists("post", x.onN)'
  <2>1. Exists("post", x.onN)
    BY <1>6 DEF RowsInv, NothingOutlivesItsPost, Hanging
  <2> QED
    BY <2>1 DEF Exists, Of
<1>7. ASSUME NEW x \in rows', x.table = "comment", x.tag # None
      PROVE  (\E c \in Of("comment") : c.id = x.tag /\ c.on = x.on)'
  <2>1. \E c \in Of("comment") : c.id = x.tag /\ c.on = x.on
    BY <1>7 DEF RowsInv, NothingOutlivesItsPost
  <2> QED
    BY <2>1 DEF Of
<1>8. NothingOutlivesItsPost'
  BY <1>6, <1>7 DEF NothingOutlivesItsPost, Hanging
<1> QED
  BY <1>1, <1>3, <1>4, <1>5, <1>8 DEF RowsInv

LEMMA ExpiredRow ==
  ASSUME RowsInv, NEW x \in Of("token"), TokenExpires(x)
  PROVE  RowsInv'
<1> DEFINE y == [x EXCEPT !.tag = Expired]
<1>1. /\ x \in rows /\ x \in Row /\ y \in Row
      /\ y.table = "token" /\ x.table = "token"
      /\ y.id = x.id /\ y.n = x.n /\ y.onN = x.onN
      /\ rows' = (rows \ {x}) \cup {y} /\ serial' = serial
  BY DEF RowsInv, Of, TokenExpires, Row, Expired, MembersAssumption
<1> HIDE DEF y
<1>2. rows' \subseteq Row /\ serial' \in 0 .. MaxSerial
  BY <1>1 DEF RowsInv
<1>3. \A a, b \in rows' : a.table = b.table /\ a.id = b.id => a = b
  BY <1>1 DEF RowsInv
<1>4. Numbered'
  <2>1. \A a \in rows' : a.id <= serial' /\ a.n <= serial' /\ a.onN <= serial'
    BY <1>1 DEF RowsInv, Numbered
  <2>2. \A a, b \in rows' : a.n = b.n => a = b
    BY <1>1 DEF RowsInv, Numbered
  <2>3. \A a \in rows' : a.table \in Hanging => Refers(a.on, a.onN, rows')
    BY <1>1 DEF RowsInv, Numbered, Refers, Hanging
  <2> QED
    BY <2>1, <2>2, <2>3 DEF Numbered
<1>5. OneEach'
  <2>1. \A a, b \in rows' : Key(a) = Key(b) => a.table = b.table
    BY DEF Key
  <2>2. \A a \in rows' : a.table # "token" => a \in rows
    BY <1>1
  <2> QED
    BY <2>1, <2>2 DEF RowsInv, OneEach, Key
<1>6. ASSUME NEW a \in rows', a.table \in Hanging, ~a.late
      PROVE  Exists("post", a.onN)'
  <2>1. PICK p \in rows : p.table = "post" /\ p.n = a.onN
    BY <1>1, <1>6 DEF RowsInv, NothingOutlivesItsPost, Exists, Of, Hanging
  <2> QED
    BY <1>1, <2>1 DEF Exists, Of
<1>7. ASSUME NEW a \in rows', a.table = "comment", a.tag # None
      PROVE  (\E c \in Of("comment") : c.id = a.tag /\ c.on = a.on)'
  <2>1. PICK c \in rows : c.table = "comment" /\ c.id = a.tag /\ c.on = a.on
    BY <1>1, <1>7 DEF RowsInv, NothingOutlivesItsPost, Of
  <2> QED
    BY <1>1, <2>1 DEF Of
<1>8. NothingOutlivesItsPost'
  BY <1>6, <1>7 DEF NothingOutlivesItsPost, Hanging
<1> QED
  BY <1>2, <1>3, <1>4, <1>5, <1>8 DEF RowsInv
-----------------------------------------------------------------------------
(***************************************************************************)
(* The requests: what one knows stays true while rows go and come.         *)
(***************************************************************************)
LEMMA KnowsFewer ==
  ASSUME NEW q, NEW store, NEW bound, NEW less \in SUBSET store,
         Knows(q, store, bound)
  PROVE  Knows(q, less, bound)
BY DEF Knows, Refers

LEMMA KnowsMore ==
  ASSUME NEW q \in ReqRecord, NEW store, NEW bound \in Nat, MaxSerial \in Nat,
         NEW w, w.n = bound + 1, Knows(q, store, bound)
  PROVE  Knows(q, store \cup {w}, bound + 1)
<1>1. /\ q.onN \in Nat /\ q.foundN \in Nat
      /\ q.onN <= bound + 1 /\ q.foundN <= bound + 1
      /\ w.n # q.onN /\ w.n # q.foundN
  BY DEF Knows, ReqRecord
<1> QED
  BY <1>1 DEF Knows, Refers

LEMMA FreshKnows ==
  ASSUME NEW store, NEW bound \in Nat
  PROVE  Fresh \in ReqRecord /\ Knows(Fresh, store, bound)
BY DEF Fresh, ReqRecord, Op, Knows, MembersAssumption

LEMMA MoveKeeps ==
  ASSUME ReqInv, NEW r \in Req, NEW q \in ReqRecord,
         req' = [req EXCEPT ![r] = q], Knows(q, rows', serial'),
         \A p \in Req : Knows(req[p], rows', serial')
  PROVE  ReqInv'
<1>1. req' \in [Req -> ReqRecord] /\ req'[r] = q
  BY DEF ReqInv
<1>2. \A p \in Req : p # r => req'[p] = req[p]
  BY DEF ReqInv
<1> QED
  BY <1>1, <1>2 DEF ReqInv

(***************************************************************************)
(* The steps that write nothing: the routes and the SELECTs.               *)
(***************************************************************************)
LEMMA StillKeeps ==
  ASSUME IInv, NEW r \in Req, NEW q \in ReqRecord,
         req' = [req EXCEPT ![r] = q], Knows(q, rows, serial),
         UNCHANGED <<rows, active, cookie, serial>>
  PROVE  IInv'
<1>1. RowsInv' /\ AccountsInv'
  BY DEF IInv, RowsInv, AccountsInv, Numbered, Refers, OneEach, Key,
         NothingOutlivesItsPost, Exists, Of
<1>2. \A p \in Req : Knows(req[p], rows', serial')
  BY DEF IInv, ReqInv
<1>3. ReqInv'
  BY <1>2, MoveKeeps DEF IInv
<1> QED
  BY <1>1, <1>3 DEF IInv

LEMMA LoadKeeps ==
  ASSUME IInv, NEW r \in Req, NEW op \in Op, NEW u \in User,
         NEW on \in 0 .. MaxSerial \cup User, NEW onN \in 0 .. serial,
         NEW tag \in Glyph \cup {None} \cup 1 .. MaxSerial,
         op \in {"react", "remark"} => onN # 0 /\ Refers(on, onN, rows),
         Load(r, op, u, on, onN, tag)
  PROVE  IInv'
<1> DEFINE q == [Fresh EXCEPT !.pc = "loaded", !.op = op, !.by = u, !.on = on,
                              !.onN = onN, !.tag = tag]
<1>1. serial \in Nat /\ MaxSerial \in Nat /\ serial <= MaxSerial
  BY DEF IInv, RowsInv, MembersAssumption
<1>2. Fresh \in ReqRecord /\ Fresh.foundN = 0 /\ onN \in 0 .. MaxSerial
  BY <1>1, FreshKnows DEF Fresh
<1>3. q \in ReqRecord
  BY <1>2 DEF ReqRecord
<1>4. /\ q.pc = "loaded" /\ q.op = op /\ q.on = on /\ q.onN = onN
      /\ q.foundN = 0
  BY <1>2 DEF ReqRecord
<1>5. req' = [req EXCEPT ![r] = q] /\ UNCHANGED <<rows, active, cookie, serial>>
  BY DEF Load
<1> HIDE DEF q
<1>6. Knows(q, rows, serial)
  BY <1>1, <1>4 DEF Knows
<1> QED
  BY <1>3, <1>5, <1>6, StillKeeps

LEMMA LoadOwnKeeps ==
  ASSUME IInv, NEW r \in Req, NEW u \in User,
         NEW op \in Owned, LoadOwn(r, u, Removed(op), op)
  PROVE  IInv'
<1>1. PICK x \in Of(Removed(op)) :
        /\ x.by = u \/ u \in Admins
        /\ req' = [req EXCEPT ![r] = [Fresh EXCEPT !.pc = "write", !.op = op,
                      !.by = u, !.found = x.id, !.foundN = x.n]]
        /\ UNCHANGED <<rows, active, cookie, serial>>
  BY DEF LoadOwn
<1> DEFINE q == [Fresh EXCEPT !.pc = "write", !.op = op, !.by = u,
                              !.found = x.id, !.foundN = x.n]
<1>2. x \in rows /\ x.table = Removed(op) /\ x \in Row
  BY DEF IInv, RowsInv, Of
<1>3. /\ serial \in Nat /\ MaxSerial \in Nat /\ x.n <= serial
      /\ x.id \in 0 .. MaxSerial /\ x.n \in 0 .. MaxSerial
  <2>1. serial \in Nat /\ MaxSerial \in Nat
    BY DEF IInv, RowsInv, MembersAssumption
  <2>2. x.id \in 1 .. MaxSerial /\ x.n \in 1 .. MaxSerial
    BY <1>2 DEF Row
  <2>3. x.n <= serial
    BY <1>2 DEF IInv, RowsInv, Numbered
  <2> QED
    BY <2>1, <2>2, <2>3
<1>4. Fresh \in ReqRecord /\ Fresh.onN = 0
  BY <1>3, FreshKnows DEF Fresh
<1>5. q \in ReqRecord
  <2>1. op \in Op
    BY DEF Owned, Op
  <2> QED
    BY <1>3, <1>4, <2>1 DEF ReqRecord
<1>6. /\ q.op = op /\ q.by = u /\ q.onN = 0 /\ q.found = x.id /\ q.foundN = x.n
  BY <1>4 DEF ReqRecord
<1>7. req' = [req EXCEPT ![r] = q]
  BY <1>1
<1>8. \A y \in rows : y.n = x.n => y = x
  BY <1>2 DEF IInv, RowsInv, Numbered
<1>9. x.by = u \/ u \in Admins
  BY <1>1
<1> HIDE DEF q
<1>10. \A y \in rows : y.n = q.foundN =>
         /\ y.table = Removed(q.op) /\ y.id = q.found
         /\ y.by = q.by \/ q.by \in Admins
  BY <1>2, <1>6, <1>8, <1>9
<1>11. q.onN <= serial /\ q.foundN <= serial
  BY <1>3, <1>6
<1>12. q.op \notin {"react", "remark"}
  BY <1>6 DEF Owned
<1>13. Knows(q, rows, serial)
  BY <1>10, <1>11, <1>12 DEF Knows
<1> QED
  BY <1>1, <1>5, <1>7, <1>13, StillKeeps

LEMMA FindKeeps ==
  ASSUME IInv, NEW r \in Req, NEW op, NEW t,
         NEW present \in {"idle", "write"}, NEW absent \in {"idle", "write"},
         op \in Removals /\ present = "write" => t = Removed(op),
         op \in Removals \ {"react"} => absent = "idle",
         op \notin Removals => present = "idle",
         Find(r, op, t, present, absent)
  PROVE  IInv'
<1> DEFINE found == Existing(r, t)
           next == IF found # {} THEN present ELSE absent
<1>1. /\ req[r].pc = "loaded" /\ req[r].op = op /\ next \in {"idle", "write"}
      /\ UNCHANGED <<rows, active, cookie, serial>>
  BY DEF Find
<1>2. /\ serial \in Nat /\ MaxSerial \in Nat /\ req[r] \in ReqRecord
      /\ Knows(req[r], rows, serial) /\ req \in [Req -> ReqRecord]
  BY DEF IInv, RowsInv, ReqInv, MembersAssumption
<1>3. CASE next = "idle"
  <2>1. req' = [req EXCEPT ![r] = Fresh]
    BY <1>3 DEF Find, Done
  <2> QED
    BY <1>1, <1>2, <2>1, FreshKnows, StillKeeps
<1>4. CASE next = "write"
  <2>1. PICK x \in IF found = {} THEN {[id |-> 0, n |-> 0]} ELSE found :
          req' = [req EXCEPT ![r].pc = next, ![r].found = x.id, ![r].foundN = x.n]
    BY <1>4 DEF Find
  <2> DEFINE q == [req[r] EXCEPT !.pc = "write", !.found = x.id, !.foundN = x.n]
  <2>2. req' = [req EXCEPT ![r] = q]
    BY <1>2, <1>4, <2>1
  <2>3. /\ x.id \in 0 .. MaxSerial /\ x.n \in 0 .. MaxSerial /\ x.n <= serial
        /\ \A y \in rows : y.n = x.n =>
             y = x /\ y.table = t /\ y.by = req[r].by /\ found # {}
    BY <1>2 DEF Existing, Of, IInv, RowsInv, Row, Numbered
  <2>4. q \in ReqRecord
    BY <1>2, <2>3 DEF ReqRecord
  <2>5. /\ q.pc = "write" /\ q.op = op /\ q.by = req[r].by /\ q.on = req[r].on
        /\ q.onN = req[r].onN /\ q.found = x.id /\ q.foundN = x.n
    BY <1>1, <1>2 DEF ReqRecord
  <2>6. op \in Removals /\ found # {} => t = Removed(op)
    BY <1>4
  <2> HIDE DEF q, found, next
  <2>7. Knows(q, rows, serial)
    <3>1. q.op \in {"react", "remark"} => q.onN # 0 /\ Refers(q.on, q.onN, rows)
      BY <1>1, <1>2, <2>5 DEF Knows
    <3>2. q.onN <= serial /\ q.foundN <= serial
      BY <1>2, <2>3, <2>5 DEF Knows
    <3>3. q.op \in Removals =>
            \A y \in rows : y.n = q.foundN =>
              /\ y.table = Removed(q.op) /\ y.id = q.found
              /\ y.by = q.by \/ q.by \in Admins
      BY <2>3, <2>5, <2>6
    <3> QED
      BY <3>1, <3>2, <3>3 DEF Knows
  <2> QED
    BY <1>1, <2>2, <2>4, <2>7, StillKeeps
<1> QED
  BY <1>1, <1>3, <1>4
-----------------------------------------------------------------------------
(***************************************************************************)
(* The steps that write: a request that ends with its one flush.           *)
(***************************************************************************)
LEMMA DoneKeeps ==
  ASSUME ReqInv, NEW r \in Req, Done(r), serial' \in Nat,
         \A p \in Req : Knows(req[p], rows', serial')
  PROVE  ReqInv'
<1>1. Fresh \in ReqRecord /\ Knows(Fresh, rows', serial')
  BY FreshKnows
<1> QED
  BY <1>1, MoveKeeps DEF Done

LEMMA RemovalKeeps ==
  ASSUME IInv, NEW r \in Req, Done(r),
         NEW gone \in SUBSET rows, rows' = rows \ gone,
         UNCHANGED <<active, cookie, serial>>,
         \A x \in gone : x.table # "comment",
         \A p \in gone, x \in rows \ gone :
           p.table = "post" /\ x.table \in Hanging => x.on # p.id
  PROVE  IInv'
<1>1. RowsInv'
  BY FewerRows DEF IInv
<1>2. \A p \in Req : Knows(req[p], rows', serial')
  BY KnowsFewer DEF IInv, ReqInv
<1>3. serial' \in Nat
  BY DEF IInv, RowsInv, MembersAssumption
<1>4. ReqInv'
  BY <1>2, <1>3, DoneKeeps DEF IInv
<1>5. AccountsInv'
  BY DEF IInv, AccountsInv
<1> QED
  BY <1>1, <1>4, <1>5 DEF IInv

LEMMA DeleteKeeps ==
  ASSUME IInv, NEW r \in Req,
         NEW t \in {"like", "follow", "reaction", "remark", "token"}, Delete(r, t)
  PROVE  IInv'
<1> DEFINE gone == {x \in rows : x.table = t /\ x.id = req[r].found}
<1>1. rows' = rows \ gone /\ gone \in SUBSET rows /\ Done(r)
  BY DEF Delete
<1>2. \A x \in gone : x.table # "comment" /\ x.table # "post"
  OBVIOUS
<1>3. UNCHANGED <<active, cookie, serial>>
  BY DEF Delete
<1> HIDE DEF gone
<1> QED
  BY <1>1, <1>2, <1>3, RemovalKeeps

LEMMA DeletePostKeeps ==
  ASSUME IInv, NEW r \in Req, delete_post(r)
  PROVE  IInv'
<1> DEFINE gone == {x \in rows : \/ x.table = "post" /\ x.id = req[r].found
                                 \/ /\ x.table \in Hanging
                                    /\ x.on = req[r].found}
<1>1. rows' = rows \ gone /\ gone \in SUBSET rows /\ Done(r)
  BY DEF delete_post, Hanging
<1>2. \A x \in gone : x.table # "comment"
  BY DEF Hanging
<1>3. \A p \in gone, x \in rows \ gone :
        p.table = "post" /\ x.table \in Hanging => x.on # p.id
  BY DEF Hanging
<1>4. UNCHANGED <<active, cookie, serial>>
  BY DEF delete_post
<1> HIDE DEF gone
<1> QED
  BY <1>1, <1>2, <1>3, <1>4, RemovalKeeps

LEMMA InsertKeeps ==
  ASSUME IInv, NEW r \in Req,
         NEW t \in Table \ {"repo"}, Insert(r, t),
         t \in Hanging => req[r].op \in {"react", "remark"} /\ req[r].pc # "idle",
         t = "comment" /\ req[r].tag # None =>
           \E c \in Of("comment") : c.id = req[r].tag /\ c.on = req[r].on
  PROVE  IInv'
<1> DEFINE w == New(r, t)
<1>1. /\ serial \in Nat /\ MaxSerial \in Nat /\ serial < MaxSerial
      /\ req[r] \in ReqRecord /\ Knows(req[r], rows, serial) /\ Done(r)
      /\ UNCHANGED <<active, cookie>>
  BY DEF Insert, IInv, RowsInv, ReqInv, MembersAssumption
<1>2. CASE Unique(w)
  <2>1. rows' = rows \cup {w} /\ serial' = serial + 1
    BY <1>2 DEF Insert
  <2>2. /\ w.table = t /\ w.id = NextId(t) /\ w.n = serial + 1
        /\ w.on = req[r].on /\ w.onN = req[r].onN /\ w.tag = req[r].tag
        /\ w.by = req[r].by
        /\ w.late = (req[r].onN # 0 /\ ~Exists(Target[t], req[r].onN))
    BY DEF New
  <2>3. NextId(t) \in 1 .. serial + 1
    BY NextIdIsNew DEF IInv
  <2>4. w \in Row
    <3>1. /\ NextId(t) \in 1 .. MaxSerial /\ serial + 1 \in 1 .. MaxSerial
          /\ t \in Table
      BY <1>1, <2>3
    <3>2. /\ req[r].by \in User \cup {None} /\ req[r].on \in 0 .. MaxSerial \cup User
          /\ req[r].onN \in 0 .. MaxSerial
          /\ req[r].tag \in Glyph \cup {None} \cup 0 .. MaxSerial
      BY <1>1 DEF ReqRecord
    <3>3. (req[r].onN # 0 /\ ~Exists(Target[t], req[r].onN)) \in BOOLEAN
      OBVIOUS
    <3> QED
      BY <3>1, <3>2, <3>3 DEF Row, New
  <2>5. t \in Hanging => /\ Refers(w.on, w.onN, rows)
                         /\ ~w.late => Exists("post", w.onN)
    <3>1. t \in Hanging => Target[t] = "post"
      BY DEF Hanging, Target
    <3>2. t \in Hanging => req[r].onN # 0 /\ Refers(req[r].on, req[r].onN, rows)
      BY <1>1 DEF Knows
    <3> QED
      BY <2>2, <3>1, <3>2
  <2>6. w.onN <= serial
    BY <1>1, <2>2 DEF Knows
  <2> HIDE DEF w
  <2>7. RowsInv'
    BY <1>1, <1>2, <2>1, <2>2, <2>4, <2>5, <2>6, NewRow DEF IInv
  <2>8. \A p \in Req : Knows(req[p], rows', serial')
    <3> TAKE p \in Req
    <3>1. req[p] \in ReqRecord /\ Knows(req[p], rows, serial)
      BY DEF IInv, ReqInv
    <3> QED
      BY <1>1, <2>1, <2>2, <3>1, KnowsMore
  <2>9. serial' \in Nat
    BY <1>1, <2>1
  <2>10. ReqInv'
    BY <1>1, <2>8, <2>9, DoneKeeps DEF IInv
  <2> QED
    BY <1>1, <2>7, <2>10 DEF IInv, AccountsInv
<1>3. CASE ~Unique(w)
  <2>1. UNCHANGED <<rows, active, cookie, serial>>
    BY <1>1, <1>3 DEF Insert
  <2>2. Fresh \in ReqRecord /\ Knows(Fresh, rows, serial)
    BY <1>1, FreshKnows
  <2> QED
    BY <1>1, <2>1, <2>2, StillKeeps DEF Done
<1> QED
  BY <1>2, <1>3
-----------------------------------------------------------------------------
(***************************************************************************)
(* The routes, one step for each form.                                     *)
(***************************************************************************)
LEMMA RowFacts ==
  ASSUME IInv, NEW x \in rows
  PROVE  /\ x.id \in 1 .. MaxSerial /\ x.n \in 1 .. serial
         /\ Refers(x.id, x.n, rows)
<1>1. x.id \in 1 .. MaxSerial /\ x.n \in 1 .. MaxSerial
  BY DEF IInv, RowsInv, Row
<1>2. x.n <= serial /\ serial \in Nat
  BY DEF IInv, RowsInv, Numbered, MembersAssumption
<1>3. Refers(x.id, x.n, rows)
  BY DEF IInv, RowsInv, Numbered, Refers
<1> QED
  BY <1>1, <1>2, <1>3

LEMMA RoutesKeep ==
  ASSUME IInv, NEW r \in Req, NEW u \in User,
         \/ repo_like_form(r, u) \/ repo_comments_form(r, u)
         \/ user_follow_form(r, u) \/ posts_new_form(r, u)
         \/ posts_react_form(r, u) \/ posts_comments_form(r, u)
         \/ posts_delete_form(r, u) \/ posts_comment_delete_form(r, u)
         \/ settings_tokens_create(r, u) \/ settings_tokens_delete(r, u)
  PROVE  IInv'
<1> DEFINE Ids == 0 .. MaxSerial \cup User
           Tags == Glyph \cup {None} \cup 1 .. MaxSerial
<1>1. /\ \A x \in rows : /\ x.id \in Ids /\ x.n \in 0 .. serial /\ x.n # 0
                        /\ x.id \in Tags /\ Refers(x.id, x.n, rows)
      /\ \A t : Of(t) \subseteq rows
  <2>1. MaxSerial \in Nat /\ serial \in Nat
    BY DEF MembersAssumption, IInv, RowsInv
  <2> QED
    BY <2>1, RowFacts DEF Of
<1>2. /\ 0 \in Ids /\ 0 \in 0 .. serial /\ None \in Tags /\ User \subseteq Ids
      /\ Glyph \subseteq Tags
  BY DEF MembersAssumption, IInv, RowsInv
<1>3. /\ {"like", "unlike", "follow", "unfollow", "comment", "post", "react",
          "remark", "mint"} \subseteq Op
      /\ {"like", "unlike", "follow", "unfollow", "comment", "post", "mint"}
           \cap {"react", "remark"} = {}
  BY DEF Op
<1> HIDE DEF Ids, Tags
<1>4. ASSUME NEW op \in Op, NEW on \in Ids, NEW onN \in 0 .. serial, NEW tag \in Tags,
             op \in {"react", "remark"} => onN # 0 /\ Refers(on, onN, rows),
             Load(r, op, u, on, onN, tag)
      PROVE  IInv'
  BY <1>4, LoadKeeps DEF Ids, Tags
<1>5. CASE repo_like_form(r, u)
  BY <1>1, <1>2, <1>3, <1>4, <1>5 DEF repo_like_form
<1>6. CASE repo_comments_form(r, u)
  <2>1. PICK x \in Of("repo"), parent \in {None} \cup {c.id : c \in Of("comment")} :
          Load(r, "comment", u, x.id, x.n, parent)
    BY <1>6 DEF repo_comments_form
  <2>2. parent \in Tags /\ x.id \in Ids /\ x.n \in 0 .. serial
    BY <1>1, <1>2
  <2> QED
    BY <1>3, <1>4, <2>1, <2>2
<1>7. CASE user_follow_form(r, u)
  BY <1>2, <1>3, <1>4, <1>7 DEF user_follow_form
<1>8. CASE posts_new_form(r, u)
  BY <1>1, <1>2, <1>3, <1>4, <1>8 DEF posts_new_form
<1>9. CASE posts_react_form(r, u)
  BY <1>1, <1>2, <1>3, <1>4, <1>9 DEF posts_react_form
<1>10. CASE posts_comments_form(r, u)
  BY <1>1, <1>2, <1>3, <1>4, <1>10 DEF posts_comments_form
<1>11. CASE settings_tokens_create(r, u)
  BY <1>2, <1>3, <1>4, <1>11 DEF settings_tokens_create
<1>12. /\ Removed("delete post") = "post" /\ Removed("delete remark") = "remark"
       /\ Removed("revoke") = "token"
       /\ {"delete post", "delete remark", "revoke"} = Owned
  BY DEF Removed, Owned
<1>13. CASE \/ posts_delete_form(r, u) \/ posts_comment_delete_form(r, u)
            \/ settings_tokens_delete(r, u)
  BY <1>12, <1>13, LoadOwnKeeps
     DEF posts_delete_form, posts_comment_delete_form, settings_tokens_delete
<1> QED
  BY <1>5, <1>6, <1>7, <1>8, <1>9, <1>10, <1>11, <1>13

LEMMA LookKeeps ==
  ASSUME IInv, NEW r \in Req, Look(r)
  PROVE  IInv'
<1>1. /\ Removed("unlike") = "like" /\ Removed("unfollow") = "follow"
      /\ Removed("react") = "reaction"
  BY DEF Removed
<1>2. /\ {"unlike", "unfollow", "react"} \subseteq Removals
      /\ {"like", "follow"} \cap Removals = {}
  BY DEF Removals
<1>3. CASE Find(r, "like", "like", "idle", "write")
  BY <1>2, <1>3, FindKeeps
<1>4. CASE Find(r, "unlike", "like", "write", "idle")
  BY <1>1, <1>2, <1>4, FindKeeps
<1>5. CASE Find(r, "follow", "follow", "idle", "write")
  BY <1>2, <1>5, FindKeeps
<1>6. CASE Find(r, "unfollow", "follow", "write", "idle")
  BY <1>1, <1>2, <1>6, FindKeeps
<1>7. CASE Find(r, "react", "reaction", "write", "write")
  BY <1>1, <1>2, <1>7, FindKeeps
<1> QED
  BY <1>3, <1>4, <1>5, <1>6, <1>7 DEF Look

(***************************************************************************)
(* The writes, one step for each.                                          *)
(***************************************************************************)
LEMMA WritesKeep ==
  ASSUME IInv, NEW r \in Req,
         \/ like_repo(r) \/ unlike_repo(r) \/ follow_user(r) \/ unfollow_user(r)
         \/ toggle_reaction(r) \/ add_comment(r) \/ create_post(r)
         \/ add_remark(r) \/ delete_comment(r) \/ delete_post(r)
         \/ mint_token(r) \/ delete_token(r)
  PROVE  IInv'
<1>1. /\ {"like", "follow", "reaction", "comment", "post", "remark", "token"}
           \subseteq Table \ {"repo"}
      /\ {"like", "follow", "post", "token"} \cap (Hanging \cup {"comment"}) = {}
      /\ "reaction" # "comment" /\ "remark" # "comment"
      /\ "comment" \notin Hanging
  BY DEF Table, Hanging
<1>2. CASE like_repo(r)
  BY <1>1, <1>2, InsertKeeps DEF like_repo
<1>3. CASE follow_user(r)
  BY <1>1, <1>3, InsertKeeps DEF follow_user
<1>4. CASE create_post(r)
  BY <1>1, <1>4, InsertKeeps DEF create_post
<1>5. CASE mint_token(r)
  BY <1>1, <1>5, InsertKeeps DEF mint_token
<1>6. CASE add_remark(r)
  BY <1>1, <1>6, InsertKeeps DEF add_remark
<1>7. CASE toggle_reaction(r)
  <2>1. req[r].pc # "idle" /\ req[r].op = "react"
    BY <1>7 DEF toggle_reaction, Writes
  <2>2. Insert(r, "reaction") => IInv'
    BY <1>1, <2>1, InsertKeeps
  <2>3. Delete(r, "reaction") => IInv'
    BY DeleteKeeps
  <2> QED
    BY <1>7, <2>2, <2>3 DEF toggle_reaction
<1>8. CASE add_comment(r)
  <2> DEFINE answers == \E c \in Of("comment") :
                          c.id = req[r].tag /\ c.on = req[r].on
  <2>1. CASE req[r].tag = None \/ answers
    BY <1>1, <1>8, <2>1, InsertKeeps DEF add_comment
  <2>2. CASE ~(req[r].tag = None \/ answers)
    <3>1. Done(r) /\ UNCHANGED <<rows, active, cookie, serial>>
      BY <1>8, <2>2 DEF add_comment
    <3>2. Fresh \in ReqRecord /\ Knows(Fresh, rows, serial)
      BY FreshKnows DEF IInv, RowsInv, MembersAssumption
    <3> QED
      BY <3>1, <3>2, StillKeeps DEF Done
  <2> QED
    BY <2>1, <2>2
<1>9. CASE unlike_repo(r) \/ unfollow_user(r) \/ delete_comment(r) \/ delete_token(r)
  BY <1>9, DeleteKeeps DEF unlike_repo, unfollow_user, delete_comment, delete_token
<1>10. CASE delete_post(r)
  BY <1>10, DeletePostKeeps
<1> QED
  BY <1>2, <1>3, <1>4, <1>5, <1>6, <1>7, <1>8, <1>9, <1>10

(***************************************************************************)
(* What happens around the requests.                                       *)
(***************************************************************************)
LEMMA SurroundingsKeep ==
  ASSUME IInv,
         \/ \E u \in User : login(u) \/ logout(u) \/ SessionExpires(u) \/ Ban(u)
         \/ CreateRepo
         \/ \E x \in Of("token") : TokenExpires(x)
         \/ \E x \in Of("repo") : DeleteRepo(x)
  PROVE  IInv'
<1>1. CASE \E u \in User : login(u) \/ logout(u) \/ SessionExpires(u) \/ Ban(u)
  <2>1. UNCHANGED <<rows, req, serial>> /\ AccountsInv'
    BY <1>1 DEF IInv, AccountsInv, login, logout, SessionExpires, Ban
  <2>2. RowsInv' /\ ReqInv'
    BY <2>1 DEF IInv, RowsInv, ReqInv, Numbered, Refers, OneEach, Key,
                NothingOutlivesItsPost, Exists, Of, Knows
  <2> QED
    BY <2>1, <2>2 DEF IInv
<1>2. CASE CreateRepo
  <2> DEFINE w == [table |-> "repo", id |-> NextId("repo"), n |-> serial + 1,
                   by |-> None, on |-> 0, onN |-> 0, tag |-> None, late |-> FALSE]
  <2>1. /\ serial \in Nat /\ MaxSerial \in Nat /\ serial < MaxSerial
        /\ rows' = rows \cup {w} /\ serial' = serial + 1
        /\ UNCHANGED <<active, cookie, req>>
    BY <1>2 DEF CreateRepo, IInv, RowsInv, MembersAssumption
  <2>2. /\ w.table = "repo" /\ w.id = NextId("repo") /\ w.n = serial + 1
        /\ w.onN = 0 /\ w.tag = None
    OBVIOUS
  <2>3. NextId("repo") \in 1 .. serial + 1
    BY NextIdIsNew DEF IInv
  <2>4. w \in Row
    BY <2>1, <2>3 DEF Row, Table
  <2> HIDE DEF w
  <2>5. Unique(w) /\ w.table \notin Hanging /\ w.table # "comment" /\ w.onN <= serial
    BY <2>1, <2>2 DEF Unique, Hanging
  <2>6. RowsInv'
    BY <2>1, <2>2, <2>4, <2>5, NewRow DEF IInv
  <2>7. ReqInv'
    BY <2>1, <2>2, KnowsMore DEF IInv, ReqInv
  <2> QED
    BY <2>1, <2>6, <2>7 DEF IInv, AccountsInv
<1>3. CASE \E x \in Of("token") : TokenExpires(x)
  <2>1. PICK x \in Of("token") : TokenExpires(x)
    BY <1>3
  <2>2. RowsInv'
    BY <2>1, ExpiredRow DEF IInv
  <2> DEFINE y == [x EXCEPT !.tag = Expired]
  <2>3. /\ x \in rows /\ rows' = (rows \ {x}) \cup {y}
        /\ UNCHANGED <<active, cookie, req, serial>>
    BY <2>1 DEF TokenExpires, Of
  <2>4. /\ y.table = x.table /\ y.id = x.id /\ y.n = x.n /\ y.by = x.by
        /\ x.table = "token"
    BY <2>1, <2>3 DEF IInv, RowsInv, Row, Of
  <2> HIDE DEF y
  <2>5. ASSUME NEW q, Knows(q, rows, serial) PROVE Knows(q, rows', serial)
    BY <2>3, <2>4, <2>5 DEF Knows, Refers
  <2>6. ReqInv'
    BY <2>3, <2>5 DEF IInv, ReqInv
  <2> QED
    BY <2>2, <2>3, <2>6 DEF IInv, AccountsInv
<1>4. CASE \E x \in Of("repo") : DeleteRepo(x)
  <2>1. PICK x \in Of("repo") : DeleteRepo(x)
    BY <1>4
  <2>2. /\ x \in rows /\ x.table = "repo" /\ rows' = rows \ {x}
        /\ UNCHANGED <<active, cookie, req, serial>>
    BY <2>1 DEF DeleteRepo, Of
  <2> DEFINE gone == {x}
  <2>3. /\ gone \in SUBSET rows /\ rows' = rows \ gone
        /\ \A y \in gone : y.table # "comment" /\ y.table # "post"
    BY <2>2
  <2> HIDE DEF gone
  <2>4. RowsInv'
    BY <2>2, <2>3, FewerRows DEF IInv
  <2>5. ReqInv'
    BY <2>2, KnowsFewer DEF IInv, ReqInv
  <2> QED
    BY <2>2, <2>4, <2>5 DEF IInv, AccountsInv
<1> QED
  BY <1>1, <1>2, <1>3, <1>4
-----------------------------------------------------------------------------
LEMMA InitHolds == Init => IInv
<1> SUFFICES ASSUME Init PROVE IInv
  OBVIOUS
<1>1. RowsInv
  BY DEF Init, RowsInv, Numbered, OneEach, NothingOutlivesItsPost, MembersAssumption
<1>2. ReqInv
  <2>1. Fresh \in ReqRecord /\ Knows(Fresh, rows, serial)
    BY FreshKnows DEF Init
  <2> QED
    BY <2>1 DEF Init, ReqInv
<1> QED
  BY <1>1, <1>2 DEF Init, IInv, AccountsInv

LEMMA StepKeeps == IInv /\ [Next]_vars => IInv'
<1> SUFFICES ASSUME IInv, [Next]_vars PROVE IInv'
  OBVIOUS
<1>1. ASSUME NEW r \in Req, Request(r) PROVE IInv'
  BY <1>1, RoutesKeep, LookKeeps, WritesKeep DEF Request
<1>2. CASE UNCHANGED vars
  BY <1>2 DEF vars, IInv, RowsInv, ReqInv, AccountsInv, Numbered, Refers, OneEach,
              Key, NothingOutlivesItsPost, Exists, Of, Knows
<1> QED
  BY <1>1, <1>2, SurroundingsKeep DEF Next

LEMMA AlwaysIInv == Spec => []IInv
  BY InitHolds, StepKeeps, PTL DEF Spec

(***************************************************************************)
(* The tables and requests keep their types, and no two rows of a table    *)
(* ever have the same id, though ids are given out again.                  *)
(***************************************************************************)
THEOREM TypeCorrect == Spec => []TypeOK
<1>1. IInv => TypeOK
  BY DEF IInv, RowsInv, ReqInv, AccountsInv, TypeOK, ReqRecord
<1> QED
  BY <1>1, AlwaysIInv, PTL

(***************************************************************************)
(* Overlapping clicks never leave two likes, follows or reactions.         *)
(***************************************************************************)
THEOREM OneEachAlways == Spec => []OneEach
<1>1. IInv => OneEach
  BY DEF IInv, RowsInv
<1> QED
  BY <1>1, AlwaysIInv, PTL

(***************************************************************************)
(* What hangs on a post goes with it, and replies stay with their comment. *)
(***************************************************************************)
THEOREM NothingEverOutlivesItsPost == Spec => []NothingOutlivesItsPost
<1>1. IInv => NothingOutlivesItsPost
  BY DEF IInv, RowsInv
<1> QED
  BY <1>1, AlwaysIInv, PTL
-----------------------------------------------------------------------------
(***************************************************************************)
(* A request that ends by deleting the row it has found deletes the row it *)
(* has seen, unless that row is gone.                                      *)
(***************************************************************************)
LEMMA FoundIsSeen ==
  ASSUME IInv, NEW r \in Req, NEW x \in rows, req[r].pc = "write",
         req[r].op \in Removals, x.table = Removed(req[r].op), x.id = req[r].found
  PROVE  x.by = req[r].by \/ req[r].by \in Admins \/ Stale(r)
<1> SUFFICES ASSUME NEW y \in rows, y.n = req[r].foundN
             PROVE  x.by = req[r].by \/ req[r].by \in Admins
  BY DEF Stale
<1>1. /\ y.table = x.table /\ y.id = x.id
      /\ y.by = req[r].by \/ req[r].by \in Admins
  BY DEF IInv, ReqInv, Knows
<1>2. y = x
  BY <1>1 DEF IInv, RowsInv
<1> QED
  BY <1>1, <1>2

LEMMA OnlyItself ==
  ASSUME IInv, NEW q \in Req, Done(q), NEW r \in Req, req[r].pc = "write",
         req'[r].pc # "write"
  PROVE  r = q
BY DEF Done, IInv, ReqInv

(***************************************************************************)
(* Nobody removes what is not theirs, except by the id of a row that was   *)
(* deleted meanwhile.                                                      *)
(***************************************************************************)
THEOREM RemovalsAreAlwaysOwn == Spec => RemovalsAreOwn
<1> DEFINE Own(x, r) == \/ x.by = req[r].by \/ req[r].by \in Admins \/ Stale(r)
                        \/ req[r].op = "delete post" /\ x.on = req[r].found
<1>1. ASSUME IInv, Next, NEW x \in rows \ rows', NEW r \in Req,
             req[r].pc = "write", req'[r].pc # "write"
      PROVE  Own(x, r)
  <2>1. PICK q \in Req : Request(q)
    BY <1>1 DEF Next, login, logout, SessionExpires, Ban, CreateRepo, TokenExpires,
                DeleteRepo
  <2>2. ASSUME NEW t, Insert(q, t) PROVE FALSE
    BY <1>1, <2>2 DEF Insert
  <2>3. ASSUME NEW t, Delete(q, t), Removed(req[q].op) = t, req[q].op \in Removals
        PROVE  Own(x, r)
    <3>1. r = q
      BY <1>1, <2>3, OnlyItself DEF Delete
    <3>2. x.table = t /\ x.id = req[q].found
      BY <1>1, <2>3 DEF Delete
    <3> QED
      BY <1>1, <2>3, <3>1, <3>2, FoundIsSeen
  <2>4. CASE UNCHANGED rows
    BY <1>1, <2>4
  <2>5. CASE delete_post(q)
    <3>1. r = q /\ req[q].op = "delete post"
      BY <1>1, <2>5, OnlyItself DEF delete_post, Writes
    <3>2. CASE x.table = "post" /\ x.id = req[q].found
      <4>1. Removed("delete post") = "post" /\ "delete post" \in Removals
        BY DEF Removed, Removals
      <4> QED
        BY <1>1, <3>1, <3>2, <4>1, FoundIsSeen
    <3>3. CASE x.on = req[q].found
      BY <3>1, <3>3
    <3> QED
      BY <1>1, <2>5, <3>2, <3>3 DEF delete_post
  <2>6. CASE unlike_repo(q)
    BY <2>3, <2>6 DEF unlike_repo, Writes, Removed, Removals
  <2>7. CASE unfollow_user(q)
    BY <2>3, <2>7 DEF unfollow_user, Writes, Removed, Removals
  <2>8. CASE toggle_reaction(q)
    BY <2>2, <2>3, <2>8 DEF toggle_reaction, Writes, Removed, Removals
  <2>9. CASE delete_comment(q)
    BY <2>3, <2>9 DEF delete_comment, Writes, Removed, Removals
  <2>10. CASE delete_token(q)
    BY <2>3, <2>10 DEF delete_token, Writes, Removed, Removals
  <2>11. CASE \/ like_repo(q) \/ follow_user(q) \/ create_post(q) \/ add_remark(q)
              \/ mint_token(q) \/ add_comment(q)
    BY <2>2, <2>4, <2>11
       DEF like_repo, follow_user, create_post, add_remark, mint_token, add_comment
  <2>12. CASE Look(q)
    BY <2>4, <2>12 DEF Look, Find
  <2>13. ASSUME NEW u \in User,
                \/ repo_like_form(q, u) \/ repo_comments_form(q, u)
                \/ user_follow_form(q, u) \/ posts_new_form(q, u)
                \/ posts_react_form(q, u) \/ posts_comments_form(q, u)
                \/ posts_delete_form(q, u) \/ posts_comment_delete_form(q, u)
                \/ settings_tokens_create(q, u) \/ settings_tokens_delete(q, u)
         PROVE  UNCHANGED rows
    <3>1. \/ \E op, on, onN, tag : Load(q, op, u, on, onN, tag)
          \/ \E t, op : LoadOwn(q, u, t, op)
      BY <2>13, Zenon
         DEF repo_like_form, repo_comments_form, user_follow_form, posts_new_form,
             posts_react_form, posts_comments_form, posts_delete_form,
             posts_comment_delete_form, settings_tokens_create, settings_tokens_delete
    <3> QED
      BY <3>1 DEF Load, LoadOwn
  <2> HIDE DEF Own
  <2> QED
    BY <2>1, <2>4, <2>5, <2>6, <2>7, <2>8, <2>9, <2>10, <2>11, <2>12, <2>13
       DEF Request
<1>2. IInv /\ [Next]_vars =>
        [\A x \in rows \ rows', r \in Req :
           req[r].pc = "write" /\ req'[r].pc # "write" =>
             \/ x.by = req[r].by \/ req[r].by \in Admins \/ Stale(r)
             \/ req[r].op = "delete post" /\ x.on = req[r].found]_vars
  BY <1>1
<1> QED
  BY <1>2, AlwaysIInv, PTL DEF Spec, RemovalsAreOwn
=============================================================================
