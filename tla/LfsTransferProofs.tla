-------------------------- MODULE LfsTransferProofs --------------------------
(***************************************************************************)
(* TypeOK, PointersResolve and what is said of the ledger hold in every    *)
(* reachable state, for any number of runs and objects, any quota and any  *)
(* number of faults.                                                       *)
(*                                                                         *)
(* PointersResolve is not inductive: what a run commits is in the store    *)
(* because each object it wants is, at any time, either there, or not yet  *)
(* answered by the batch, or refused (and then the run ends before it      *)
(* commits), or still to be sent.                                          *)
(*                                                                         *)
(* The ledger needs five more facts: a commit measures at least what it    *)
(* added to the row it read (Measuring); the runs that have passed a check *)
(* and are not charged yet fit into the overshoot (Bounded); an object in  *)
(* the store is audited or about to be (Audited); what is stored and not   *)
(* charged is in the hands of a run or was swallowed by a fault (Kept);    *)
(* and a run that is alone reads the row that is there and has room for    *)
(* all it still has to do (Solo).                                          *)
(***************************************************************************)
EXTENDS LfsTransfer, TLAPS, FiniteSetTheorems

InHand == {"begin", "stream", "read", "charge"}
Sending == {"put"} \cup InHand
Landed == {"walk", "book"}
Committing == {"commit", "land"} \cup Landed

AskedFor(r, o, store) ==
  \/ o \in store \cup r.ask \cup r.todo
  \/ r.pc = "room" /\ o = r.cur

Accounted(r, store) ==
  /\ r.pc \in {"ask", "batch", "room"} \cup Sending \cup Committing =>
       r.errors \/ \A o \in r.left : AskedFor(r, o, store)
  /\ r.pc \in Sending \cup Committing => r.ask = {} /\ ~r.errors
  /\ r.pc \in Committing => r.todo = {}
  /\ r.pc = "room" => r.cur \in Obj
  /\ r.pc \in InHand => r.cur \in r.todo
  /\ r.pc \in {"ask", "batch", "room", "commit", "land"} \cup Sending => r.left # {}
  /\ r.pc \in Landed /\ ~r.split => r.left = {}
  /\ r.pc \in {"read", "charge"} => r.cur \in store

IInv ==
  TypeOK /\ PointersResolve /\ \A r \in Run : Accounted(run[r], stored)

(***************************************************************************)
(* What a commit books is what the directory has grown by since the        *)
(* request began, its own commit at least.                                 *)
(***************************************************************************)
Measured(r, weight) ==
  /\ r.pc = "land" => r.row <= weight
  /\ r.pc = "walk" => r.row < weight
  /\ r.pc = "book" => r.row < r.walked /\ r.walked <= weight

Measuring == size <= disk /\ \A r \in Run : Measured(run[r], disk)
-----------------------------------------------------------------------------
LEMMA FreshTyped == Fresh \in RunRecord
  BY DEF Fresh, RunRecord, Pc, Actor, Access

(***************************************************************************)
(* What is known of a run stays true while the store grows, so a step      *)
(* that moves one run has to account for that run only.                    *)
(***************************************************************************)
LEMMA MoveKeeps ==
  ASSUME IInv, NEW r \in Run, NEW record \in RunRecord,
         Move(r, record), Accounted(record, stored'), stored \subseteq stored'
  PROVE  /\ run' \in [Run -> RunRecord]
         /\ \A q \in Run : Accounted(run'[q], stored')
<1>1. run' \in [Run -> RunRecord] /\ run'[r] = record
  BY DEF IInv, TypeOK, Move
<1>2. ASSUME NEW q \in Run, q # r
      PROVE  Accounted(run'[q], stored')
  <2>1. run'[q] = run[q] /\ Accounted(run[q], stored)
    BY <1>2 DEF IInv, TypeOK, Move
  <2> QED
    BY <2>1 DEF Accounted, AskedFor
<1> QED
  BY <1>1, <1>2

(***************************************************************************)
(* A run that has ended owes nothing.                                      *)
(***************************************************************************)
LEMMA OverKeeps ==
  ASSUME TypeOK, NEW r \in Run, NEW pc \in Ended, NEW store
  PROVE  Over(r, pc) \in RunRecord /\ Accounted(Over(r, pc), store)
<1>1. (pc = "refused" /\ run[r].fits) \in BOOLEAN
  BY DEF TypeOK, RunRecord
<1>2. Over(r, pc) \in RunRecord /\ Over(r, pc).pc = pc
  BY <1>1, FreshTyped DEF Over, Fresh, RunRecord, Pc, Ended
<1> QED
  BY <1>2 DEF Accounted, Sending, InHand, Committing, Landed, Ended

LEMMA QuietMove ==
  ASSUME IInv, NEW r \in Run, NEW record \in RunRecord,
         Move(r, record), Accounted(record, stored),
         UNCHANGED <<stored, pointers, disk, size, usage, audit, faults, past>>
  PROVE  IInv'
<1>1. /\ run' \in [Run -> RunRecord]
      /\ \A q \in Run : Accounted(run'[q], stored')
  BY MoveKeeps
<1> QED
  BY <1>1 DEF IInv, TypeOK, PointersResolve

LEMMA QuietEnd ==
  ASSUME IInv, NEW r \in Run, NEW pc \in Ended, End(r, pc),
         UNCHANGED <<stored, pointers, disk, size, usage, audit, faults, past>>
  PROVE  IInv'
<1>1. Over(r, pc) \in RunRecord /\ Accounted(Over(r, pc), stored)
  BY OverKeeps DEF IInv
<1> QED
  BY <1>1, QuietMove DEF End

LEMMA Known ==
  ASSUME IInv, NEW r \in Run
  PROVE  run[r] \in RunRecord /\ Accounted(run[r], stored)
  BY DEF IInv, TypeOK
-----------------------------------------------------------------------------
LEMMA Initial == Init => IInv
<1> SUFFICES ASSUME Init PROVE IInv
  OBVIOUS
<1>1. TypeOK
  BY FreshTyped, TransferAssumption DEF Init, TypeOK
<1>2. \A r \in Run : Accounted(run[r], stored)
  BY DEF Init, Fresh, Accounted, Sending, InHand, Committing, Landed
<1> QED
  BY <1>1, <1>2 DEF Init, IInv, PointersResolve
-----------------------------------------------------------------------------
(***************************************************************************)
(* The actions, one by one.                                                *)
(***************************************************************************)
LEMMA StartKeeps ==
  ASSUME IInv, NEW r \in Run, Start(r)
  PROVE  IInv'
<1> DEFINE Asking(want, actor, access, split, fits) ==
      [Fresh EXCEPT !.pc = "ask", !.actor = actor, !.access = access,
                    !.split = split, !.ask = want, !.left = want,
                    !.fits = fits]
<1>1. PICK want \in (SUBSET Obj) \ {{}}, actor \in Actor, access \in Access,
           split \in BOOLEAN, fits \in BOOLEAN :
             Move(r, Asking(want, actor, access, split, fits))
  BY DEF Start, CheckPushAllowed
<1> DEFINE record == Asking(want, actor, access, split, fits)
<1>2. record \in RunRecord
  BY FreshTyped DEF Fresh, RunRecord, Pc
<1>3. Accounted(record, stored')
  <2>1. record.pc = "ask" /\ record.left = want /\ record.ask = want /\ want # {}
    BY DEF Fresh
  <2> HIDE DEF record
  <2> QED
    BY <2>1 DEF Accounted, AskedFor, Sending, InHand, Committing, Landed
<1>4. past' \in [overlap : BOOLEAN, lost : BOOLEAN]
  <2>1. (past.overlap \/ \E q \in Run : Active(q)) \in BOOLEAN
    BY DEF IInv, TypeOK, Active
  <2> QED
    BY <2>1 DEF IInv, TypeOK, Start
<1>5. UNCHANGED <<stored, pointers, disk, size, usage, audit, faults>>
  BY DEF Start
<1>6. /\ run' \in [Run -> RunRecord]
      /\ \A q \in Run : Accounted(run'[q], stored')
  <2> HIDE DEF record
  <2> QED
    BY <1>1, <1>2, <1>3, <1>5, MoveKeeps DEF record
<1> QED
  BY <1>4, <1>5, <1>6 DEF IInv, TypeOK, PointersResolve

LEMMA BatchAuthorizeKeeps ==
  ASSUME IInv, NEW r \in Run, BatchAuthorize(r)
  PROVE  IInv'
<1>1. CASE authorize(r)
  <2> DEFINE record == [run[r] EXCEPT !.pc = "batch"]
  <2>1. run[r].pc = "ask" /\ Move(r, record)
    BY <1>1 DEF BatchAuthorize, At, Goto
  <2>2. record \in RunRecord
    BY Known DEF RunRecord, Pc
  <2>3. Accounted(record, stored)
    BY <2>1, Known DEF Accounted, AskedFor, Sending, InHand, Committing, Landed, RunRecord
  <2> HIDE DEF record
  <2> QED
    BY <2>1, <2>2, <2>3, QuietMove DEF BatchAuthorize
<1>2. CASE ~authorize(r)
  BY <1>2, QuietEnd DEF BatchAuthorize, Ended
<1> QED
  BY <1>1, <1>2

LEMMA BatchHasKeeps ==
  ASSUME IInv, NEW r \in Run, NEW o \in Obj, BatchHas(r, o)
  PROVE  IInv'
<1> DEFINE record == IF o \in stored
                       THEN [run[r] EXCEPT !.ask = @ \ {o}]
                       ELSE [run[r] EXCEPT !.ask = @ \ {o}, !.cur = o,
                                           !.pc = "room"]
<1>1. run[r].pc = "batch" /\ o \in run[r].ask
  BY DEF BatchHas, At
<1>2. record \in RunRecord
  <2>1. run[r] \in RunRecord /\ "room" \in Pc
    BY Known DEF Pc
  <2>2. [run[r] EXCEPT !.ask = @ \ {o}] \in RunRecord
    BY <2>1 DEF RunRecord
  <2>3. [run[r] EXCEPT !.ask = @ \ {o}, !.cur = o, !.pc = "room"] \in RunRecord
    BY <2>1 DEF RunRecord
  <2> QED
    BY <2>2, <2>3
<1>3. Accounted(record, stored)
  <2>1. run[r] \in RunRecord /\ Accounted(run[r], stored)
    BY Known
  <2>2. run[r].left # {} /\ (run[r].errors \/ \A p \in run[r].left : AskedFor(run[r], p, stored))
    BY <1>1, <2>1 DEF Accounted
  <2>3. CASE o \in stored
    <3>1. /\ record.pc = "batch" /\ record.left = run[r].left /\ record.todo = run[r].todo
          /\ record.errors = run[r].errors /\ record.ask = run[r].ask \ {o}
      BY <1>1, <2>1, <2>3 DEF RunRecord
    <3> HIDE DEF record
    <3> QED
      BY <1>1, <2>2, <2>3, <3>1 DEF Accounted, AskedFor, Sending, InHand, Committing, Landed
  <2>4. CASE o \notin stored
    <3>1. /\ record.pc = "room" /\ record.cur = o /\ record.left = run[r].left
          /\ record.todo = run[r].todo /\ record.errors = run[r].errors
          /\ record.ask = run[r].ask \ {o}
      BY <1>1, <2>1, <2>4 DEF RunRecord
    <3> HIDE DEF record
    <3> QED
      BY <1>1, <2>2, <2>4, <3>1 DEF Accounted, AskedFor, Sending, InHand, Committing, Landed
  <2> QED
    BY <2>3, <2>4
<1> HIDE DEF record
<1> QED
  BY <1>2, <1>3, QuietMove DEF BatchHas, record

LEMMA BatchRoomKeeps ==
  ASSUME IInv, NEW r \in Run, BatchRoom(r)
  PROVE  IInv'
<1> DEFINE granted == [run[r] EXCEPT !.pc = "batch", !.cur = None,
                                     !.todo = @ \cup {run[r].cur}]
           denied == [run[r] EXCEPT !.pc = "batch", !.cur = None,
                                    !.errors = TRUE]
<1>1. run[r].pc = "room" /\ run[r].cur \in Obj
  BY Known DEF BatchRoom, At, Accounted
<1>2. granted \in RunRecord /\ denied \in RunRecord
  <2>1. run[r] \in RunRecord /\ "batch" \in Pc
    BY Known DEF Pc
  <2>2. granted \in RunRecord
    BY <1>1, <2>1 DEF RunRecord
  <2>3. denied \in RunRecord
    BY <2>1 DEF RunRecord
  <2> QED
    BY <2>2, <2>3
<1>3. Accounted(granted, stored) /\ Accounted(denied, stored)
  <2>1. run[r] \in RunRecord /\ Accounted(run[r], stored)
    BY Known
  <2>2. run[r].left # {} /\ (run[r].errors \/ \A p \in run[r].left : AskedFor(run[r], p, stored))
    BY <1>1, <2>1 DEF Accounted
  <2>3. /\ granted.pc = "batch" /\ granted.left = run[r].left /\ granted.ask = run[r].ask
        /\ granted.errors = run[r].errors /\ granted.todo = run[r].todo \cup {run[r].cur}
    BY <2>1 DEF RunRecord
  <2>4. denied.pc = "batch" /\ denied.left = run[r].left /\ denied.errors
    BY <2>1 DEF RunRecord
  <2> HIDE DEF granted, denied
  <2>5. Accounted(granted, stored)
    BY <1>1, <2>2, <2>3 DEF Accounted, AskedFor, Sending, InHand, Committing, Landed
  <2>6. Accounted(denied, stored)
    BY <2>2, <2>4 DEF Accounted, Sending, InHand, Committing, Landed
  <2> QED
    BY <2>5, <2>6
<1>4. Move(r, granted) \/ Move(r, denied)
  BY DEF BatchRoom
<1> HIDE DEF granted, denied
<1> QED
  BY <1>2, <1>3, <1>4, QuietMove DEF BatchRoom

LEMMA BatchAnswerKeeps ==
  ASSUME IInv, NEW r \in Run, BatchAnswer(r)
  PROVE  IInv'
<1>1. CASE run[r].errors
  BY <1>1, QuietEnd DEF BatchAnswer, Ended
<1>2. CASE ~run[r].errors
  <2> DEFINE record == [run[r] EXCEPT !.pc = AfterPut(run[r].todo)]
  <2>1. run[r].pc = "batch" /\ run[r].ask = {}
    BY DEF BatchAnswer, At
  <2>2. record \in RunRecord
    <3>1. run[r] \in RunRecord /\ AfterPut(run[r].todo) \in Pc
      BY Known DEF Pc, AfterPut
    <3> QED
      BY <3>1 DEF RunRecord
  <2>3. Accounted(record, stored)
    <3>1. run[r] \in RunRecord /\ Accounted(run[r], stored)
      BY Known
    <3>2. /\ run[r].left # {}
          /\ \A o \in run[r].left : AskedFor(run[r], o, stored)
      BY <1>2, <2>1, <3>1 DEF Accounted
    <3>3. /\ record.pc = AfterPut(run[r].todo) /\ record.left = run[r].left
          /\ record.ask = {} /\ ~record.errors /\ record.todo = run[r].todo
      BY <1>2, <2>1, <3>1 DEF RunRecord
    <3> HIDE DEF record
    <3>4. \A o \in record.left : AskedFor(record, o, stored)
      BY <2>1, <3>2, <3>3 DEF AskedFor
    <3> QED
      BY <3>2, <3>3, <3>4 DEF Accounted, Sending, InHand, Committing, Landed, AfterPut
  <2>4. Move(r, record)
    BY <1>2 DEF BatchAnswer, Goto
  <2> HIDE DEF record
  <2> QED
    BY <2>2, <2>3, <2>4, QuietMove DEF BatchAnswer
<1> QED
  BY <1>1, <1>2

LEMMA PutCheckKeeps ==
  ASSUME IInv, NEW r \in Run, NEW o \in Obj, PutCheck(r, o)
  PROVE  IInv'
<1>1. CASE authorize(r) /\ CheckPushAllowed(1)
  <2> DEFINE record == [run[r] EXCEPT !.pc = "begin", !.cur = o]
  <2>1. run[r].pc = "put" /\ o \in run[r].todo /\ Move(r, record)
    BY <1>1 DEF PutCheck, At
  <2>2. record \in RunRecord
    <3>1. run[r] \in RunRecord /\ "begin" \in Pc
      BY Known DEF Pc
    <3> QED
      BY <3>1 DEF RunRecord
  <2>3. Accounted(record, stored)
    <3>1. run[r] \in RunRecord /\ Accounted(run[r], stored)
      BY Known
    <3>2. /\ run[r].left # {} /\ run[r].ask = {} /\ ~run[r].errors
          /\ \A p \in run[r].left : AskedFor(run[r], p, stored)
      BY <2>1, <3>1 DEF Accounted, Sending
    <3>3. /\ record.pc = "begin" /\ record.cur = o /\ record.left = run[r].left
          /\ record.ask = run[r].ask /\ record.errors = run[r].errors
          /\ record.todo = run[r].todo
      BY <3>1 DEF RunRecord
    <3> HIDE DEF record
    <3> QED
      BY <2>1, <3>2, <3>3 DEF Accounted, AskedFor, Sending, InHand, Committing, Landed
  <2> HIDE DEF record
  <2> QED
    BY <2>1, <2>2, <2>3, QuietMove DEF PutCheck
<1>2. CASE ~(authorize(r) /\ CheckPushAllowed(1))
  BY <1>2, QuietEnd DEF PutCheck, Ended
<1> QED
  BY <1>1, <1>2

(***************************************************************************)
(* Steps that only move a run on within the sending or the committing.     *)
(***************************************************************************)
Onward == {<<"begin", "stream">>}

LEMMA GotoKeeps ==
  ASSUME IInv, NEW r \in Run, NEW pc, <<run[r].pc, pc>> \in Onward,
         Goto(r, pc), UNCHANGED <<stored, pointers, disk, size, usage, audit, faults, past>>
  PROVE  IInv'
<1> DEFINE record == [run[r] EXCEPT !.pc = pc]
<1>1. record \in RunRecord
  BY Known DEF RunRecord, Pc, Onward
<1>2. Accounted(record, stored)
  BY Known DEF Accounted, AskedFor, Sending, InHand, Committing, Landed, RunRecord, Onward
<1> HIDE DEF record
<1> QED
  BY <1>1, <1>2, QuietMove DEF Goto, record

LEMMA PutBeginKeeps ==
  ASSUME IInv, NEW r \in Run, PutBegin(r)
  PROVE  IInv'
<1>1. CASE run[r].cur \in stored
  BY <1>1, QuietEnd DEF PutBegin, Ended
<1>2. CASE run[r].cur \notin stored
  BY <1>2, GotoKeeps DEF PutBegin, At, Onward
<1> QED
  BY <1>1, <1>2

LEMMA PutStoreKeeps ==
  ASSUME IInv, NEW r \in Run, PutStore(r)
  PROVE  IInv'
<1> DEFINE record == [run[r] EXCEPT !.pc = "read"]
<1>1. run[r].pc = "stream" /\ run[r].cur \in Obj
  BY Known DEF PutStore, At, Accounted, InHand, RunRecord
<1>2. stored' = stored \cup {run[r].cur} /\ Move(r, record)
  BY DEF PutStore, Goto
<1>3. record \in RunRecord
  BY Known DEF RunRecord, Pc
<1>4. Accounted(record, stored')
  BY <1>1, <1>2, Known DEF Accounted, AskedFor, Sending, InHand, Committing, Landed, RunRecord
<1> HIDE DEF record
<1>5. /\ run' \in [Run -> RunRecord]
      /\ \A q \in Run : Accounted(run'[q], stored')
  BY <1>2, <1>3, <1>4, MoveKeeps
<1> QED
  BY <1>1, <1>2, <1>5 DEF IInv, TypeOK, PointersResolve, PutStore

LEMMA ChargeReadKeeps ==
  ASSUME IInv, NEW r \in Run, ChargeRead(r)
  PROVE  IInv'
<1> DEFINE record == [run[r] EXCEPT !.used = usage, !.pc = "charge"]
<1>1. run[r].pc = "read" /\ Move(r, record)
  BY DEF ChargeRead, At
<1>2. record \in RunRecord
  <2>1. run[r] \in RunRecord /\ "charge" \in Pc /\ usage \in Nat
    BY Known DEF Pc, IInv, TypeOK
  <2> QED
    BY <2>1 DEF RunRecord
<1>3. Accounted(record, stored)
  <2>1. run[r] \in RunRecord /\ Accounted(run[r], stored)
    BY Known
  <2>2. /\ record.pc = "charge" /\ record.left = run[r].left /\ record.ask = run[r].ask
        /\ record.errors = run[r].errors /\ record.todo = run[r].todo
        /\ record.cur = run[r].cur
    BY <2>1 DEF RunRecord
  <2> HIDE DEF record
  <2> QED
    BY <1>1, <2>1, <2>2 DEF Accounted, AskedFor, Sending, InHand, Committing, Landed
<1> HIDE DEF record
<1> QED
  BY <1>1, <1>2, <1>3, QuietMove DEF ChargeRead

LEMMA ChargeKeeps ==
  ASSUME IInv, NEW r \in Run, Charge(r)
  PROVE  IInv'
<1> DEFINE todo == run[r].todo \ {run[r].cur}
           record == [run[r] EXCEPT !.todo = todo, !.cur = None, !.used = 0,
                                    !.pc = AfterPut(todo)]
<1>1. run[r].pc = "charge" /\ run[r].cur \in stored \cap Obj /\ Move(r, record)
  BY Known DEF Charge, At, Accounted, InHand, RunRecord, NextPut
<1>2. record \in RunRecord
  <2>1. run[r] \in RunRecord /\ AfterPut(todo) \in Pc
    BY Known DEF Pc, AfterPut
  <2> QED
    BY <2>1 DEF RunRecord
<1>3. Accounted(record, stored)
  <2>1. run[r] \in RunRecord /\ Accounted(run[r], stored)
    BY Known
  <2>2. /\ record.pc = AfterPut(todo) /\ record.left = run[r].left /\ record.ask = run[r].ask
        /\ record.errors = run[r].errors /\ record.todo = todo
    <3> HIDE DEF todo
    <3> QED
      BY <2>1 DEF RunRecord
  <2>3. /\ run[r].left # {} /\ run[r].ask = {} /\ ~run[r].errors
        /\ \A o \in run[r].left : AskedFor(run[r], o, stored)
    <3>1. run[r].pc \in Sending /\ run[r].pc # "room"
      BY <1>1 DEF Sending, InHand
    <3> HIDE DEF todo, record
    <3>2. run[r].left # {}
      BY <2>1, <3>1 DEF Accounted
    <3>3. run[r].ask = {} /\ ~run[r].errors
      BY <2>1, <3>1 DEF Accounted
    <3>4. \A o \in run[r].left : AskedFor(run[r], o, stored)
      BY <2>1, <3>1, <3>3 DEF Accounted
    <3> QED
      BY <3>2, <3>3, <3>4
  <2> HIDE DEF record
  <2>4. \A o \in record.left : AskedFor(record, o, stored)
    BY <1>1, <2>2, <2>3 DEF AskedFor
  <2> QED
    BY <2>2, <2>3, <2>4 DEF Accounted, Sending, InHand, Committing, Landed, AfterPut
<1>4. UNCHANGED <<stored, pointers, disk, size, faults>>
  BY DEF Charge
<1>5. usage' \in Nat /\ audit' \in [lfs : Nat, objects : SUBSET Obj, repo : Nat]
  <2>1. usage' = run[r].used + 1 /\ run[r].used \in Nat
    BY Known DEF Charge, RunRecord
  <2>2. /\ audit \in [lfs : Nat, objects : SUBSET Obj, repo : Nat]
        /\ audit' = [audit EXCEPT !.lfs = @ + 1, !.objects = @ \cup {run[r].cur}]
    BY DEF Charge, IInv, TypeOK
  <2>4. audit' = [lfs |-> audit.lfs + 1, objects |-> audit.objects \cup {run[r].cur},
                  repo |-> audit.repo]
    BY <2>2
  <2>3. audit' \in [lfs : Nat, objects : SUBSET Obj, repo : Nat]
    BY <1>1, <2>2, <2>4
  <2> QED
    BY <2>1, <2>3
<1>6. past' \in [overlap : BOOLEAN, lost : BOOLEAN]
  BY DEF Charge, IInv, TypeOK
<1> HIDE DEF record
<1>7. /\ run' \in [Run -> RunRecord]
      /\ \A q \in Run : Accounted(run'[q], stored')
  BY <1>1, <1>2, <1>3, <1>4, MoveKeeps
<1> QED
  BY <1>4, <1>5, <1>6, <1>7 DEF IInv, TypeOK, PointersResolve

LEMMA CommitCheckKeeps ==
  ASSUME IInv, NEW r \in Run, CommitCheck(r)
  PROVE  IInv'
<1>1. CASE resolve_principal(r) /\ CheckPushAllowed(1)
  <2> DEFINE record == [run[r] EXCEPT !.pc = "land", !.row = size]
  <2>1. run[r].pc = "commit" /\ Move(r, record)
    BY <1>1 DEF CommitCheck, At
  <2>2. record \in RunRecord
    <3>1. run[r] \in RunRecord /\ "land" \in Pc
      BY Known DEF Pc
    <3>2. size \in Nat
      BY DEF IInv, TypeOK
    <3> QED
      BY <3>1, <3>2 DEF RunRecord
  <2>3. Accounted(record, stored)
    <3>1. run[r] \in RunRecord /\ Accounted(run[r], stored)
      BY Known
    <3>2. /\ record.pc = "land" /\ record.left = run[r].left
          /\ record.ask = run[r].ask /\ record.errors = run[r].errors
          /\ record.todo = run[r].todo /\ record.split = run[r].split
      BY <3>1 DEF RunRecord
    <3> HIDE DEF record
    <3>3. /\ run[r].ask = {} /\ ~run[r].errors /\ run[r].todo = {} /\ run[r].left # {}
          /\ \A o \in run[r].left : AskedFor(run[r], o, stored)
      BY <2>1, <3>1 DEF Accounted, Committing
    <3> QED
      BY <2>1, <3>2, <3>3 DEF Accounted, AskedFor, Sending, InHand, Committing, Landed
  <2> HIDE DEF record
  <2> QED
    BY <2>1, <2>2, <2>3, QuietMove DEF CommitCheck
<1>2. CASE ~(resolve_principal(r) /\ CheckPushAllowed(1))
  BY <1>2, QuietEnd DEF CommitCheck, Ended
<1> QED
  BY <1>1, <1>2

(***************************************************************************)
(* The step the invariant is for: what is still to be committed is stored. *)
(***************************************************************************)
LEMMA CommitLandKeeps ==
  ASSUME IInv, NEW r \in Run, CommitLand(r)
  PROVE  IInv'
<1>1. run[r].left \subseteq stored
  BY Known DEF CommitLand, At, Accounted, AskedFor, Sending, InHand, Committing, Landed
<1> DEFINE Committed(part) == [run[r] EXCEPT !.left = @ \ part, !.pc = "walk"]
<1>2. PICK part \in SUBSET run[r].left :
        /\ pointers' = pointers \cup part /\ Move(r, Committed(part))
        /\ ~run[r].split => part = run[r].left
  BY DEF CommitLand
<1> DEFINE record == Committed(part)
<1>3. record \in RunRecord
  <2>1. run[r] \in RunRecord /\ "walk" \in Pc
    BY Known DEF Pc
  <2> QED
    BY <2>1 DEF RunRecord
<1>4. Accounted(record, stored)
  <2>1. run[r] \in RunRecord /\ Accounted(run[r], stored) /\ run[r].pc = "land"
    BY Known DEF CommitLand, At
  <2>2. /\ record.pc = "walk" /\ record.left = run[r].left \ part
        /\ record.ask = run[r].ask /\ record.errors = run[r].errors
        /\ record.todo = run[r].todo /\ record.split = run[r].split
    BY <2>1 DEF RunRecord
  <2>3. /\ run[r].ask = {} /\ ~run[r].errors /\ run[r].todo = {}
    BY <2>1 DEF Accounted, Committing, Landed
  <2> HIDE DEF record
  <2>4. record.left \subseteq stored
    BY <1>1, <2>2
  <2>5. ~record.split => record.left = {}
    BY <1>2, <2>2
  <2> QED
    BY <2>2, <2>3, <2>4, <2>5 DEF Accounted, AskedFor, Sending, InHand, Committing, Landed
<1>5. Move(r, record)
  BY <1>2
<1> HIDE DEF record
<1>6. UNCHANGED <<stored, size, usage, audit, faults, past>> /\ disk' \in Nat
  BY DEF CommitLand, IInv, TypeOK
<1>7. /\ run' \in [Run -> RunRecord]
      /\ \A q \in Run : Accounted(run'[q], stored')
  BY <1>3, <1>4, <1>5, <1>6, MoveKeeps
<1> QED
  BY <1>1, <1>2, <1>6, <1>7 DEF IInv, TypeOK, PointersResolve

LEMMA CommitWalkKeeps ==
  ASSUME IInv, NEW r \in Run, CommitWalk(r)
  PROVE  IInv'
<1> DEFINE record == [run[r] EXCEPT !.walked = disk, !.pc = "book"]
<1>1. run[r].pc = "walk" /\ Move(r, record)
  BY DEF CommitWalk, At
<1>2. record \in RunRecord
  <2>1. run[r] \in RunRecord /\ "book" \in Pc
    BY Known DEF Pc
  <2>2. disk \in Nat
    BY DEF IInv, TypeOK
  <2> QED
    BY <2>1, <2>2 DEF RunRecord
<1>3. Accounted(record, stored)
  <2>1. run[r] \in RunRecord /\ Accounted(run[r], stored)
    BY Known
  <2>2. /\ record.pc = "book" /\ record.left = run[r].left
        /\ record.ask = run[r].ask /\ record.errors = run[r].errors
        /\ record.todo = run[r].todo /\ record.split = run[r].split
    BY <2>1 DEF RunRecord
  <2> HIDE DEF record
  <2>3. /\ run[r].ask = {} /\ ~run[r].errors /\ run[r].todo = {}
        /\ ~run[r].split => run[r].left = {}
        /\ \A o \in run[r].left : AskedFor(run[r], o, stored)
    BY <1>1, <2>1 DEF Accounted, Committing, Landed
  <2> QED
    BY <1>1, <2>2, <2>3 DEF Accounted, AskedFor, Sending, InHand, Committing, Landed
<1> HIDE DEF record
<1> QED
  BY <1>1, <1>2, <1>3, QuietMove DEF CommitWalk

LEMMA CommitBookKeeps ==
  ASSUME IInv, Measuring, NEW r \in Run, CommitBook(r)
  PROVE  IInv'
<1> DEFINE again == [run[r] EXCEPT !.pc = "commit", !.row = 0, !.walked = 0]
<1>1. Over(r, "done") \in RunRecord /\ Accounted(Over(r, "done"), stored)
  BY OverKeeps DEF IInv, Ended
<1>2. again \in RunRecord
  <2>1. run[r] \in RunRecord /\ "commit" \in Pc
    BY Known DEF Pc
  <2> QED
    BY <2>1 DEF RunRecord
<1>3. run[r].left # {} => Accounted(again, stored)
  <2>1. run[r] \in RunRecord /\ Accounted(run[r], stored) /\ run[r].pc = "book"
    BY Known DEF CommitBook, At
  <2>2. /\ again.pc = "commit" /\ again.left = run[r].left
        /\ again.ask = run[r].ask /\ again.errors = run[r].errors
        /\ again.todo = run[r].todo /\ again.split = run[r].split
    BY <2>1 DEF RunRecord
  <2> HIDE DEF again
  <2>3. /\ run[r].ask = {} /\ ~run[r].errors /\ run[r].todo = {}
        /\ \A o \in run[r].left : AskedFor(run[r], o, stored)
    BY <2>1 DEF Accounted, Committing, Landed
  <2> QED
    BY <2>1, <2>2, <2>3 DEF Accounted, AskedFor, Sending, InHand, Committing, Landed
<1>4. Move(r, Over(r, "done")) \/ (run[r].left # {} /\ Move(r, again))
  BY DEF CommitBook, AfterCommit, End
<1>5. UNCHANGED <<stored, pointers, disk, faults, past>>
  BY DEF CommitBook
<1> HIDE DEF again
<1>6. /\ run' \in [Run -> RunRecord]
      /\ \A q \in Run : Accounted(run'[q], stored')
  BY <1>1, <1>2, <1>3, <1>4, <1>5, MoveKeeps
<1>7. usage' \in Nat /\ size' \in Nat
      /\ audit' \in [lfs : Nat, objects : SUBSET Obj, repo : Nat]
  <2>1. run[r].walked \in Nat /\ run[r].row \in Nat /\ run[r].row < run[r].walked
    BY Known DEF CommitBook, At, Measuring, Measured, RunRecord
  <2> QED
    BY <2>1 DEF CommitBook, IInv, TypeOK
<1> QED
  BY <1>5, <1>6, <1>7 DEF IInv, TypeOK, PointersResolve

LEMMA AccessEndsKeeps ==
  ASSUME IInv, NEW r \in Run, AccessEnds(r)
  PROVE  IInv'
<1> DEFINE record == [run[r] EXCEPT !.access = "none"]
<1>1. record \in RunRecord
  BY Known DEF RunRecord, Access
<1>2. Accounted(record, stored)
  BY Known DEF Accounted, AskedFor, RunRecord
<1> HIDE DEF record
<1> QED
  BY <1>1, <1>2, QuietMove DEF AccessEnds, record

LEMMA DatabaseFailsKeeps ==
  ASSUME IInv, NEW r \in Run, DatabaseFails(r)
  PROVE  IInv'
<1>1. Over(r, "gone") \in RunRecord /\ Accounted(Over(r, "gone"), stored)
  BY OverKeeps DEF IInv, Ended
<1>2. /\ run' \in [Run -> RunRecord]
      /\ \A q \in Run : Accounted(run'[q], stored')
  BY <1>1, MoveKeeps DEF DatabaseFails, End
<1>3. faults' \in 0 .. MaxFaults
  BY TransferAssumption DEF DatabaseFails, IInv, TypeOK
<1> QED
  BY <1>2, <1>3 DEF DatabaseFails, IInv, TypeOK, PointersResolve

LEMMA CrashKeeps ==
  ASSUME IInv, Crash
  PROVE  IInv'
<1>1. ASSUME NEW q \in Run
      PROVE  run'[q] \in RunRecord /\ Accounted(run'[q], stored')
  <2>1. Over(q, "gone") \in RunRecord /\ Accounted(Over(q, "gone"), stored)
    BY OverKeeps DEF IInv, Ended
  <2> QED
    BY <2>1, Known DEF Crash
<1>2. run' \in [Run -> RunRecord]
  BY <1>1 DEF Crash
<1>3. faults' \in 0 .. MaxFaults
  BY TransferAssumption DEF Crash, IInv, TypeOK
<1> QED
  BY <1>1, <1>2, <1>3 DEF Crash, IInv, TypeOK, PointersResolve
-----------------------------------------------------------------------------
LEMMA InductiveStep ==
  ASSUME IInv, Measuring, [Next]_vars
  PROVE  IInv'
<1>1. ASSUME NEW r \in Run, Start(r) PROVE IInv'
  BY <1>1, StartKeeps
<1>2. ASSUME NEW r \in Run, NEW o \in Obj, BatchHas(r, o) \/ PutCheck(r, o)
      PROVE  IInv'
  BY <1>2, BatchHasKeeps, PutCheckKeeps
<1>3. ASSUME NEW r \in Run, BatchAuthorize(r) \/ BatchRoom(r) \/ BatchAnswer(r)
      PROVE  IInv'
  BY <1>3, BatchAuthorizeKeeps, BatchRoomKeeps, BatchAnswerKeeps
<1>4. ASSUME NEW r \in Run, PutBegin(r) \/ PutStore(r) PROVE IInv'
  BY <1>4, PutBeginKeeps, PutStoreKeeps
<1>5. ASSUME NEW r \in Run, ChargeRead(r) \/ Charge(r) PROVE IInv'
  BY <1>5, ChargeReadKeeps, ChargeKeeps
<1>6. ASSUME NEW r \in Run,
             CommitCheck(r) \/ CommitLand(r) \/ CommitWalk(r) \/ CommitBook(r)
      PROVE  IInv'
  BY <1>6, CommitCheckKeeps, CommitLandKeeps, CommitWalkKeeps, CommitBookKeeps
<1>7. ASSUME NEW r \in Run, PutFails(r) \/ CommitRejected(r) \/ ClientGone(r)
      PROVE  IInv'
  BY <1>7, QuietEnd DEF PutFails, CommitRejected, ClientGone, Ended
<1>8. ASSUME NEW r \in Run, AccessEnds(r) \/ DatabaseFails(r) PROVE IInv'
  BY <1>8, AccessEndsKeeps, DatabaseFailsKeeps
<1>9. CASE Crash
  BY <1>9, CrashKeeps
<1>10. CASE UNCHANGED vars
  BY <1>10 DEF vars, IInv, TypeOK, PointersResolve, Accounted, AskedFor
<1> QED
  BY <1>1, <1>2, <1>3, <1>4, <1>5, <1>6, <1>7, <1>8, <1>9, <1>10
     DEF Next, batch_upload, handle_batch, handle_put, put_stream, upload

-----------------------------------------------------------------------------
(***************************************************************************)
(* Measuring.  The directory only grows, so a move that neither lands nor  *)
(* measures keeps it.                                                      *)
(***************************************************************************)
LEMMA MovedMeasuring ==
  ASSUME IInv, Measuring, NEW r \in Run, NEW record, Move(r, record),
         Measured(record, disk'), disk' \in Nat, disk <= disk', size' <= disk'
  PROVE  Measuring'
<1>1. run'[r] = record /\ \A q \in Run \ {r} : run'[q] = run[q]
  BY DEF Move, IInv, TypeOK
<1>2. ASSUME NEW q \in Run, q # r
      PROVE  Measured(run'[q], disk')
  <2>1. run'[q] = run[q] /\ Measured(run[q], disk)
    BY <1>1, <1>2 DEF Measuring
  <2>2. run[q].row \in Nat /\ run[q].walked \in Nat /\ disk \in Nat
    BY Known DEF RunRecord, IInv, TypeOK
  <2> QED
    BY <2>1, <2>2 DEF Measured
<1> QED
  BY <1>1, <1>2 DEF Measuring

LEMMA ElsewhereMeasuring ==
  ASSUME IInv, Measuring, NEW r \in Run, NEW record, Move(r, record),
         record.pc \notin {"land"} \cup Landed, UNCHANGED <<disk, size>>
  PROVE  Measuring'
<1>1. Measured(record, disk') /\ disk' \in Nat /\ disk <= disk' /\ size' <= disk'
  BY DEF Measured, Landed, Measuring, IInv, TypeOK
<1> QED
  BY <1>1, MovedMeasuring

LEMMA EndedMeasuring ==
  ASSUME IInv, Measuring, NEW r \in Run, NEW pc \in Ended, End(r, pc),
         UNCHANGED <<disk, size>>
  PROVE  Measuring'
<1>1. Over(r, pc).pc \notin {"land"} \cup Landed
  BY DEF Over, Fresh, Ended, Landed
<1> QED
  BY <1>1, ElsewhereMeasuring DEF End

LEMMA WentMeasuring ==
  ASSUME IInv, Measuring, NEW r \in Run, NEW pc, Goto(r, pc),
         pc \notin {"land"} \cup Landed, UNCHANGED <<disk, size>>
  PROVE  Measuring'
<1>1. [run[r] EXCEPT !.pc = pc].pc = pc
  BY Known DEF RunRecord
<1> QED
  BY <1>1, ElsewhereMeasuring DEF Goto

(***************************************************************************)
(* The steps of the batch and of the PUTs.                                 *)
(***************************************************************************)
LEMMA ObjectsMeasuring ==
  ASSUME IInv, Measuring, NEW r \in Run,
         Start(r) \/ batch_upload(r) \/ handle_put(r)
  PROVE  Measuring'
<1> USE DEF At, Ended, Landed
<1>1. ASSUME Start(r)
      PROVE  Measuring'
  <2> DEFINE Asking(want, actor, access, split, fits) ==
        [Fresh EXCEPT !.pc = "ask", !.actor = actor, !.access = access,
                      !.split = split, !.ask = want, !.left = want,
                      !.fits = fits]
  <2>1. PICK want, actor, access, split, fits :
          Move(r, Asking(want, actor, access, split, fits))
    BY <1>1 DEF Start
  <2> DEFINE record == Asking(want, actor, access, split, fits)
  <2>2. Move(r, record)
    BY <2>1
  <2>3. record.pc = "ask"
    BY DEF Fresh
  <2> HIDE DEF record
  <2> QED
    BY <1>1, <2>2, <2>3, ElsewhereMeasuring DEF Start
<1>2. ASSUME BatchAuthorize(r) \/ BatchAnswer(r)
      PROVE  Measuring'
  BY <1>2, EndedMeasuring, WentMeasuring DEF BatchAuthorize, BatchAnswer, AfterPut
<1>3. ASSUME NEW o \in Obj, BatchHas(r, o)
      PROVE  Measuring'
  <2> DEFINE there == [run[r] EXCEPT !.ask = @ \ {o}]
             absent == [run[r] EXCEPT !.ask = @ \ {o}, !.cur = o, !.pc = "room"]
  <2>1. (Move(r, there) \/ Move(r, absent)) /\ run[r].pc = "batch"
    BY <1>3 DEF BatchHas
  <2>2. there.pc = run[r].pc /\ absent.pc = "room"
    BY Known DEF RunRecord
  <2> HIDE DEF there, absent
  <2> QED
    BY <1>3, <2>1, <2>2, ElsewhereMeasuring DEF BatchHas
<1>4. ASSUME BatchRoom(r)
      PROVE  Measuring'
  <2> DEFINE granted == [run[r] EXCEPT !.pc = "batch", !.cur = None,
                                       !.todo = @ \cup {run[r].cur}]
             denied == [run[r] EXCEPT !.pc = "batch", !.cur = None, !.errors = TRUE]
  <2>1. Move(r, granted) \/ Move(r, denied)
    BY <1>4 DEF BatchRoom
  <2>2. granted.pc = "batch" /\ denied.pc = "batch"
    BY Known DEF RunRecord
  <2> HIDE DEF granted, denied
  <2> QED
    BY <1>4, <2>1, <2>2, ElsewhereMeasuring DEF BatchRoom
<1>5. ASSUME NEW o \in Obj, PutCheck(r, o)
      PROVE  Measuring'
  <2>1. CASE authorize(r) /\ CheckPushAllowed(1)
    <3> DEFINE record == [run[r] EXCEPT !.pc = "begin", !.cur = o]
    <3>1. Move(r, record)
      BY <1>5, <2>1 DEF PutCheck
    <3>2. record.pc = "begin"
      BY Known DEF RunRecord
    <3> HIDE DEF record
    <3> QED
      BY <1>5, <3>1, <3>2, ElsewhereMeasuring DEF PutCheck
  <2>2. CASE ~(authorize(r) /\ CheckPushAllowed(1))
    BY <1>5, <2>2, EndedMeasuring DEF PutCheck
  <2> QED
    BY <2>1, <2>2
<1>6. ASSUME put_stream(r)
      PROVE  Measuring'
  BY <1>6, EndedMeasuring, WentMeasuring DEF put_stream, PutBegin, PutFails, PutStore
<1>7. ASSUME ChargeRead(r)
      PROVE  Measuring'
  <2> DEFINE record == [run[r] EXCEPT !.used = usage, !.pc = "charge"]
  <2>1. record.pc = "charge"
    BY Known DEF RunRecord
  <2>2. Move(r, record)
    BY <1>7 DEF ChargeRead
  <2> HIDE DEF record
  <2> QED
    BY <1>7, <2>1, <2>2, ElsewhereMeasuring DEF ChargeRead
<1>8. ASSUME Charge(r)
      PROVE  Measuring'
  <2> DEFINE todo == run[r].todo \ {run[r].cur}
             record == [run[r] EXCEPT !.todo = todo, !.cur = None, !.used = 0,
                                      !.pc = AfterPut(todo)]
  <2>1. record.pc \in {"commit", "put"}
    BY Known DEF RunRecord, AfterPut
  <2>2. Move(r, record)
    BY <1>8 DEF Charge, NextPut
  <2> HIDE DEF record
  <2> QED
    BY <1>8, <2>1, <2>2, ElsewhereMeasuring DEF Charge
<1> QED
  BY <1>1, <1>2, <1>3, <1>4, <1>5, <1>6, <1>7, <1>8
  DEF batch_upload, handle_batch, handle_put

(***************************************************************************)
(* The steps of a commit: the row is no larger than the directory when it  *)
(* is read, and the commit makes the directory larger than it.             *)
(***************************************************************************)
LEMMA CommitMeasuring ==
  ASSUME IInv, Measuring, NEW r \in Run, upload(r)
  PROVE  Measuring'
<1> USE DEF At, Ended
<1>1. /\ disk \in Nat /\ size \in Nat /\ size <= disk
      /\ run[r] \in RunRecord /\ Measured(run[r], disk)
  BY Known DEF Measuring, IInv, TypeOK
<1>2. ASSUME CommitCheck(r)
      PROVE  Measuring'
  <2>1. CASE resolve_principal(r) /\ CheckPushAllowed(1)
    <3> DEFINE record == [run[r] EXCEPT !.pc = "land", !.row = size]
    <3>1. Move(r, record) /\ UNCHANGED <<disk, size>>
      BY <1>2, <2>1 DEF CommitCheck
    <3>2. record.pc = "land" /\ record.row = size
      BY <1>1 DEF RunRecord
    <3> HIDE DEF record
    <3>3. Measured(record, disk')
      BY <1>1, <3>1, <3>2 DEF Measured
    <3> QED
      BY <1>1, <3>1, <3>3, MovedMeasuring
  <2>2. CASE ~(resolve_principal(r) /\ CheckPushAllowed(1))
    BY <1>2, <2>2, EndedMeasuring DEF CommitCheck
  <2> QED
    BY <2>1, <2>2
<1>3. ASSUME CommitLand(r)
      PROVE  Measuring'
  <2> DEFINE Committed(part) == [run[r] EXCEPT !.left = @ \ part, !.pc = "walk"]
  <2>1. PICK part : Move(r, Committed(part))
    BY <1>3 DEF CommitLand
  <2> DEFINE record == Committed(part)
  <2>2. record.pc = "walk" /\ record.row = run[r].row /\ run[r].row \in Nat
    BY <1>1 DEF RunRecord
  <2>3. Move(r, record)
    BY <2>1
  <2> HIDE DEF record
  <2>4. run[r].pc = "land" /\ disk' = disk + 1 /\ size' = size
    BY <1>3 DEF CommitLand
  <2>5. Measured(record, disk')
    BY <1>1, <2>2, <2>4 DEF Measured
  <2> QED
    BY <1>1, <2>3, <2>4, <2>5, MovedMeasuring
<1>4. ASSUME CommitWalk(r)
      PROVE  Measuring'
  <2> DEFINE record == [run[r] EXCEPT !.walked = disk, !.pc = "book"]
  <2>1. record.pc = "book" /\ record.walked = disk /\ record.row = run[r].row
    BY <1>1 DEF RunRecord
  <2>2. Move(r, record) /\ run[r].pc = "walk" /\ UNCHANGED <<disk, size>>
    BY <1>4 DEF CommitWalk
  <2> HIDE DEF record
  <2>3. Measured(record, disk')
    BY <1>1, <2>1, <2>2 DEF Measured
  <2> QED
    BY <1>1, <2>2, <2>3, MovedMeasuring
<1>5. ASSUME CommitBook(r)
      PROVE  Measuring'
  <2> DEFINE again == [run[r] EXCEPT !.pc = "commit", !.row = 0, !.walked = 0]
  <2>1. Move(r, Over(r, "done")) \/ Move(r, again)
    BY <1>5 DEF CommitBook, AfterCommit, End
  <2>2. Over(r, "done").pc = "done" /\ again.pc = "commit"
    BY <1>1 DEF Over, Fresh, RunRecord
  <2> HIDE DEF again
  <2>3. PICK record : Move(r, record) /\ record.pc \in {"done", "commit"}
    BY <2>1, <2>2
  <2>4. Measured(record, disk')
    BY <2>3 DEF Measured
  <2>5. disk' = disk /\ size' <= disk'
    BY <1>1, <1>5 DEF CommitBook, Measured
  <2> QED
    BY <1>1, <2>3, <2>4, <2>5, MovedMeasuring
<1>6. ASSUME CommitRejected(r)
      PROVE  Measuring'
  BY <1>6, EndedMeasuring DEF CommitRejected
<1> QED
  BY <1>2, <1>3, <1>4, <1>5, <1>6 DEF upload

LEMMA MeasuringStep ==
  ASSUME IInv, Measuring, [Next]_vars
  PROVE  Measuring'
<1>1. ASSUME NEW r \in Run, ClientGone(r) \/ DatabaseFails(r)
      PROVE  Measuring'
  BY <1>1, EndedMeasuring DEF ClientGone, DatabaseFails, Ended
<1>2. ASSUME NEW r \in Run, AccessEnds(r)
      PROVE  Measuring'
  <2> DEFINE record == [run[r] EXCEPT !.access = "none"]
  <2>1. record.pc = run[r].pc
    BY Known DEF RunRecord
  <2>2. Move(r, record) /\ run[r].pc \in {"ask", "put", "commit"}
        /\ UNCHANGED <<disk, size>>
    BY <1>2 DEF AccessEnds
  <2> HIDE DEF record
  <2> QED
    BY <2>1, <2>2, ElsewhereMeasuring DEF Landed
<1>3. CASE Crash
  <2>1. /\ \A q \in Run : run'[q] = IF Active(q) THEN Over(q, "gone") ELSE run[q]
        /\ UNCHANGED <<disk, size>>
    BY <1>3 DEF Crash
  <2>2. \A q \in Run : Over(q, "gone").pc = "gone"
    BY DEF Over, Fresh
  <2>3. \A q \in Run : Measured(run'[q], disk')
    BY <2>1, <2>2 DEF Measured, Measuring
  <2> QED
    BY <2>1, <2>3 DEF Measuring
<1>4. CASE UNCHANGED vars
  BY <1>4 DEF vars, Measuring
<1> QED
  BY <1>1, <1>2, <1>3, <1>4, ObjectsMeasuring, CommitMeasuring DEF Next

LEMMA Inductive == IInv /\ Measuring /\ [Next]_vars => (IInv /\ Measuring)'
  BY InductiveStep, MeasuringStep
-----------------------------------------------------------------------------
(***************************************************************************)
(* The ledger.  A run that has passed a check of the quota and has not     *)
(* been charged since may still add one unit.                              *)
(***************************************************************************)
Checked == InHand \cup {"land"} \cup Landed
ActiveRuns == {r \in Run : Active(r)}
CheckedRuns == {r \in Run : run[r].pc \in Checked}

Bounded ==
  /\ Cardinality(ActiveRuns) <= MaxActive
  /\ ~past.lost =>
       /\ Charged + Cardinality(CheckedRuns) <= Quota + MaxActive - 1
       /\ usage >= Charged

LEMMA ChargedTyped == IInv => Charged \in Nat
  BY DEF IInv, TypeOK, Charged

LEMMA RunsFinite ==
  /\ IsFiniteSet(ActiveRuns) /\ Cardinality(ActiveRuns) \in Nat
  /\ IsFiniteSet(CheckedRuns) /\ Cardinality(CheckedRuns) \in Nat
  /\ CheckedRuns \subseteq ActiveRuns
  /\ Cardinality(CheckedRuns) <= Cardinality(ActiveRuns)
<1>1. ActiveRuns \subseteq Run /\ CheckedRuns \subseteq Run /\ CheckedRuns \subseteq ActiveRuns
  BY DEF ActiveRuns, CheckedRuns, Active, Checked, Landed, InHand, Ended
<1>2. IsFiniteSet(ActiveRuns) /\ IsFiniteSet(CheckedRuns)
  BY <1>1, TransferAssumption, FS_Subset
<1> QED
  BY <1>1, <1>2, FS_Subset, FS_CardinalityType

(***************************************************************************)
(* Steps that charge nothing: no run becomes active, and if one passes a   *)
(* check there was room for a unit.                                        *)
(***************************************************************************)
LEMMA QuietBounded ==
  ASSUME IInv, Bounded, ActiveRuns' \subseteq ActiveRuns,
         CheckedRuns' \subseteq CheckedRuns \/ CheckPushAllowed(1),
         UNCHANGED <<usage, audit, past>>
  PROVE  Bounded'
<1>1. ActiveRuns' \subseteq ActiveRuns
  OBVIOUS
<1>2. Cardinality(ActiveRuns') <= Cardinality(ActiveRuns)
  BY <1>1, RunsFinite, FS_Subset
<1>3. Cardinality(ActiveRuns') \in Nat /\ Cardinality(CheckedRuns') \in Nat
      /\ Cardinality(CheckedRuns') <= Cardinality(ActiveRuns')
  <2>1. CheckedRuns' \subseteq ActiveRuns'
    BY DEF ActiveRuns, CheckedRuns, Active, Checked, Landed, InHand, Ended
  <2>2. IsFiniteSet(ActiveRuns')
    BY <1>1, RunsFinite, FS_Subset
  <2> QED
    BY <2>1, <2>2, FS_Subset, FS_CardinalityType
<1>4. Cardinality(ActiveRuns') <= MaxActive
  BY <1>2, <1>3, RunsFinite, TransferAssumption DEF Bounded
<1>5. CASE CheckPushAllowed(1)
  <2>1. ~past.lost => Charged + Cardinality(CheckedRuns') <= Quota + MaxActive - 1
    BY <1>3, <1>4, <1>5, ChargedTyped, TransferAssumption
    DEF Bounded, CheckPushAllowed, IInv, TypeOK
  <2> QED
    BY <1>4, <2>1 DEF Bounded, Charged
<1>6. CASE ~CheckPushAllowed(1)
  <2>2. Cardinality(CheckedRuns') <= Cardinality(CheckedRuns)
    BY <1>6, RunsFinite, FS_Subset
  <2>3. ~past.lost => Charged + Cardinality(CheckedRuns') <= Quota + MaxActive - 1
    BY <1>3, <2>2, RunsFinite, ChargedTyped, TransferAssumption DEF Bounded
  <2> QED
    BY <1>4, <2>3 DEF Bounded, Charged
<1> QED
  BY <1>5, <1>6

(***************************************************************************)
(* A charge takes the unit that the check has left room for.               *)
(***************************************************************************)
LEMMA ChargeBounded ==
  ASSUME IInv, Bounded, NEW r \in Run, run[r].pc \in Checked, run'[r].pc \notin Checked,
         \A q \in Run \ {r} : run'[q] = run[q],
         Charged' = Charged + 1,
         ~past'.lost => ~past.lost /\ usage' >= usage + 1 /\ usage' \in Nat
  PROVE  Bounded'
<1>1. Active(r) /\ r \in CheckedRuns
  BY DEF Active, Checked, Landed, InHand, CheckedRuns, Ended
<1>2. ActiveRuns' \subseteq ActiveRuns /\ CheckedRuns' = CheckedRuns \ {r}
  BY <1>1 DEF ActiveRuns, Active, CheckedRuns
<1>3. Cardinality(ActiveRuns') <= Cardinality(ActiveRuns) /\ Cardinality(ActiveRuns') \in Nat
  BY <1>2, RunsFinite, FS_Subset, FS_CardinalityType
<1>4. Cardinality(CheckedRuns') = Cardinality(CheckedRuns) - 1
  BY <1>1, <1>2, RunsFinite, FS_RemoveElement
<1>5. Cardinality(ActiveRuns') <= MaxActive
  BY <1>3, RunsFinite, TransferAssumption DEF Bounded
<1>6. ~past'.lost => Charged' + Cardinality(CheckedRuns') <= Quota + MaxActive - 1
  BY <1>4, RunsFinite, ChargedTyped, TransferAssumption DEF Bounded
<1>7. ~past'.lost => usage' >= Charged'
  BY ChargedTyped DEF Bounded, IInv, TypeOK
<1> QED
  BY <1>5, <1>6, <1>7 DEF Bounded

LEMMA StartBounded ==
  ASSUME IInv, Bounded, NEW r \in Run, Start(r)
  PROVE  Bounded'
<1>1. \A q \in Run \ {r} : run'[q] = run[q]
  BY DEF Start, Move, IInv, TypeOK
<1>2. run'[r].pc = "ask"
  BY DEF Start, Move, IInv, TypeOK, Fresh
<1>3. r \notin ActiveRuns /\ ActiveRuns' = ActiveRuns \cup {r} /\ CheckedRuns' = CheckedRuns
  BY <1>1, <1>2 DEF ActiveRuns, CheckedRuns, Active, Start, At, Checked, Landed, InHand, Ended
<1>4. Cardinality(ActiveRuns') = Cardinality(ActiveRuns) + 1
  BY <1>3, RunsFinite, FS_AddElement
<1>5. Cardinality(ActiveRuns) < MaxActive
  BY DEF Start, ActiveRuns
<1>6. Cardinality(ActiveRuns') <= MaxActive
  BY <1>4, <1>5, RunsFinite, TransferAssumption
<1>7. UNCHANGED <<usage, audit>> /\ past'.lost = past.lost
  BY DEF Start, IInv, TypeOK
<1> QED
  BY <1>3, <1>6, <1>7 DEF Bounded, Charged

(***************************************************************************)
(* Steps that move one run, by what they make of it.                       *)
(***************************************************************************)
LEMMA MovedBounded ==
  ASSUME IInv, Bounded, NEW r \in Run, NEW record, Move(r, record), Active(r),
         record.pc \in Checked => run[r].pc \in Checked \/ CheckPushAllowed(1),
         UNCHANGED <<usage, audit, past>>
  PROVE  Bounded'
<1>1. run'[r] = record /\ \A q \in Run \ {r} : run'[q] = run[q]
  BY DEF Move, IInv, TypeOK
<1>2. ActiveRuns' \subseteq ActiveRuns
  BY <1>1 DEF ActiveRuns, Active
<1>3. CheckedRuns' \subseteq CheckedRuns \/ CheckPushAllowed(1)
  BY <1>1 DEF CheckedRuns
<1> QED
  BY <1>2, <1>3, QuietBounded

LEMMA EndedBounded ==
  ASSUME IInv, Bounded, NEW r \in Run, NEW pc \in Ended, End(r, pc), Active(r),
         UNCHANGED <<usage, audit, past>>
  PROVE  Bounded'
<1>1. Over(r, pc).pc \notin Checked
  BY DEF Over, Fresh, Checked, Landed, InHand, Ended
<1> QED
  BY <1>1, MovedBounded DEF End

LEMMA WentBounded ==
  ASSUME IInv, Bounded, NEW r \in Run, NEW pc, Goto(r, pc), Active(r),
         pc \in Checked => run[r].pc \in Checked \/ CheckPushAllowed(1),
         UNCHANGED <<usage, audit, past>>
  PROVE  Bounded'
<1>1. [run[r] EXCEPT !.pc = pc].pc = pc
  BY Known DEF RunRecord
<1> QED
  BY <1>1, MovedBounded DEF Goto

LEMMA BoundedStep ==
  ASSUME IInv, Measuring, Bounded, [Next]_vars
  PROVE  Bounded'
<1> USE DEF Active, Ended, At, Landed
<1>1. ASSUME NEW r \in Run, Start(r)
      PROVE  Bounded'
  BY <1>1, StartBounded
<1>2. ASSUME NEW r \in Run, BatchAuthorize(r)
      PROVE  Bounded'
  BY <1>2, EndedBounded, WentBounded DEF BatchAuthorize, Checked, InHand
<1>3. ASSUME NEW r \in Run, NEW o \in Obj, BatchHas(r, o)
      PROVE  Bounded'
  <2> DEFINE there == [run[r] EXCEPT !.ask = @ \ {o}]
             absent == [run[r] EXCEPT !.ask = @ \ {o}, !.cur = o, !.pc = "room"]
  <2>2. (Move(r, there) \/ Move(r, absent)) /\ run[r].pc = "batch"
    BY <1>3 DEF BatchHas
  <2>3. there.pc = run[r].pc /\ absent.pc = "room"
    BY Known DEF RunRecord
  <2> HIDE DEF there, absent
  <2>1. PICK record : Move(r, record) /\ record.pc \in {"batch", "room"}
    BY <2>2, <2>3
  <2> QED
    BY <1>3, <2>1, MovedBounded DEF BatchHas, Checked, InHand
<1>4. ASSUME NEW r \in Run, BatchRoom(r)
      PROVE  Bounded'
  <2> DEFINE granted == [run[r] EXCEPT !.pc = "batch", !.cur = None,
                                       !.todo = @ \cup {run[r].cur}]
             denied == [run[r] EXCEPT !.pc = "batch", !.cur = None, !.errors = TRUE]
  <2>2. Move(r, granted) \/ Move(r, denied)
    BY <1>4 DEF BatchRoom
  <2>3. granted.pc = "batch" /\ denied.pc = "batch"
    BY Known DEF RunRecord
  <2> HIDE DEF granted, denied
  <2>1. PICK record : Move(r, record) /\ record.pc = "batch"
    BY <2>2, <2>3
  <2> QED
    BY <1>4, <2>1, MovedBounded DEF BatchRoom, Checked, InHand
<1>5. ASSUME NEW r \in Run, BatchAnswer(r)
      PROVE  Bounded'
  BY <1>5, EndedBounded, WentBounded DEF BatchAnswer, AfterPut, Checked, InHand
<1>6. ASSUME NEW r \in Run, NEW o \in Obj, PutCheck(r, o)
      PROVE  Bounded'
  <2>1. CASE authorize(r) /\ CheckPushAllowed(1)
    <3>1. PICK record : Move(r, record)
      BY <1>6, <2>1 DEF PutCheck
    <3> QED
      BY <1>6, <2>1, <3>1, MovedBounded DEF PutCheck
  <2>2. CASE ~(authorize(r) /\ CheckPushAllowed(1))
    BY <1>6, <2>2, EndedBounded DEF PutCheck
  <2> QED
    BY <2>1, <2>2
<1>7. ASSUME NEW r \in Run, PutBegin(r)
      PROVE  Bounded'
  BY <1>7, EndedBounded, WentBounded DEF PutBegin, Checked, InHand
<1>8. ASSUME NEW r \in Run, PutFails(r) \/ CommitRejected(r) \/ ClientGone(r) \/ DatabaseFails(r)
      PROVE  Bounded'
  BY <1>8, EndedBounded DEF PutFails, CommitRejected, ClientGone, DatabaseFails
<1>9. ASSUME NEW r \in Run, PutStore(r)
      PROVE  Bounded'
  BY <1>9, WentBounded DEF PutStore, Checked, InHand
<1>10. ASSUME NEW r \in Run, ChargeRead(r)
       PROVE  Bounded'
  <2>1. PICK record : Move(r, record)
    BY <1>10 DEF ChargeRead
  <2> QED
    BY <1>10, <2>1, MovedBounded DEF ChargeRead, Checked, InHand
<1>11. ASSUME NEW r \in Run, Charge(r)
       PROVE  Bounded'
  <2> DEFINE todo == run[r].todo \ {run[r].cur}
             record == [run[r] EXCEPT !.todo = todo, !.cur = None, !.used = 0,
                                      !.pc = AfterPut(todo)]
  <2>1. Move(r, record) /\ run[r].pc = "charge"
    BY <1>11 DEF Charge, NextPut
  <2>2. record.pc \notin Checked
    BY Known DEF RunRecord, AfterPut, Checked, InHand
  <2>3. run'[r] = record /\ \A q \in Run \ {r} : run'[q] = run[q]
    BY <2>1 DEF Move, IInv, TypeOK
  <2>4. ~past'.lost => ~past.lost /\ usage' >= usage + 1 /\ usage' \in Nat
    <3>1. past'.lost <=> past.lost \/ usage # run[r].used
      BY <1>11 DEF Charge, IInv, TypeOK
    <3>2. usage' = run[r].used + 1 /\ usage \in Nat
      BY <1>11 DEF Charge, IInv, TypeOK
    <3> QED
      BY <3>1, <3>2
  <2>5. Charged' = Charged + 1
    <3>1. audit.lfs \in Nat /\ audit.repo \in Nat
          /\ audit' = [audit EXCEPT !.lfs = @ + 1, !.objects = @ \cup {run[r].cur}]
      BY <1>11 DEF Charge, IInv, TypeOK
    <3>2. audit'.lfs = audit.lfs + 1 /\ audit'.repo = audit.repo
      BY <1>11 DEF Charge, IInv, TypeOK
    <3> QED
      BY <3>1, <3>2 DEF Charged
  <2> HIDE DEF record
  <2> QED
    BY <2>1, <2>2, <2>3, <2>4, <2>5, ChargeBounded DEF Checked, InHand
<1>12. ASSUME NEW r \in Run, CommitCheck(r) \/ CommitWalk(r)
       PROVE  Bounded'
  <2>1. CASE CommitCheck(r) /\ resolve_principal(r) /\ CheckPushAllowed(1)
    <3>1. PICK record : Move(r, record)
      BY <2>1 DEF CommitCheck
    <3> QED
      BY <2>1, <3>1, MovedBounded DEF CommitCheck
  <2>2. CASE CommitCheck(r) /\ ~(resolve_principal(r) /\ CheckPushAllowed(1))
    BY <2>2, EndedBounded DEF CommitCheck
  <2>3. CASE CommitWalk(r)
    <3>1. PICK record : Move(r, record)
      BY <2>3 DEF CommitWalk
    <3> QED
      BY <2>3, <3>1, MovedBounded DEF CommitWalk, Checked
  <2> QED
    BY <1>12, <2>1, <2>2, <2>3
<1>13. ASSUME NEW r \in Run, CommitLand(r)
       PROVE  Bounded'
  <2>1. PICK record : Move(r, record)
    BY <1>13 DEF CommitLand
  <2> QED
    BY <1>13, <2>1, MovedBounded DEF CommitLand, Checked
<1>14. ASSUME NEW r \in Run, CommitBook(r)
       PROVE  Bounded'
  <2>1. run[r].pc = "book" /\ past' = past /\ usage' >= usage + 1 /\ usage' \in Nat
    <3>1. /\ run[r].walked \in Nat /\ run[r].row \in Nat /\ run[r].row < run[r].walked
          /\ usage \in Nat
      BY <1>14, Known DEF CommitBook, Measuring, Measured, RunRecord, IInv, TypeOK
    <3> QED
      BY <1>14, <3>1 DEF CommitBook
  <2>2. Charged' = Charged + 1
    <3>1. audit.lfs \in Nat /\ audit.repo \in Nat /\ audit' = [audit EXCEPT !.repo = @ + 1]
      BY <1>14 DEF CommitBook, IInv, TypeOK
    <3>2. audit'.lfs = audit.lfs /\ audit'.repo = audit.repo + 1
      BY <1>14 DEF CommitBook, IInv, TypeOK
    <3> QED
      BY <3>1, <3>2 DEF Charged
  <2> DEFINE again == [run[r] EXCEPT !.pc = "commit", !.row = 0, !.walked = 0]
  <2>5. Move(r, Over(r, "done")) \/ Move(r, again)
    BY <1>14 DEF CommitBook, AfterCommit, End
  <2>6. Over(r, "done").pc = "done" /\ again.pc = "commit"
    BY Known DEF Over, Fresh, RunRecord
  <2> HIDE DEF again
  <2>3. PICK record : Move(r, record) /\ record.pc \in {"done", "commit"}
    BY <2>5, <2>6
  <2>4. run'[r] = record /\ \A q \in Run \ {r} : run'[q] = run[q]
    BY <2>3 DEF Move, IInv, TypeOK
  <2> QED
    BY <2>1, <2>2, <2>3, <2>4, ChargeBounded DEF Checked, InHand
<1>15. ASSUME NEW r \in Run, AccessEnds(r)
       PROVE  Bounded'
  <2> DEFINE record == [run[r] EXCEPT !.access = "none"]
  <2>1. record.pc = run[r].pc
    BY Known DEF RunRecord
  <2> HIDE DEF record
  <2>2. Move(r, record)
    BY <1>15 DEF AccessEnds, record
  <2> QED
    BY <1>15, <2>1, <2>2, MovedBounded DEF AccessEnds, Checked, InHand
<1>16. CASE Crash
  <2>1. \A q \in Run : run'[q] = IF Active(q) THEN Over(q, "gone") ELSE run[q]
    BY <1>16 DEF Crash
  <2>2. \A q \in Run : Over(q, "gone").pc = "gone"
    BY DEF Over, Fresh
  <2>3. ActiveRuns' \subseteq ActiveRuns /\ CheckedRuns' \subseteq CheckedRuns
    BY <2>1, <2>2 DEF ActiveRuns, CheckedRuns, Checked, InHand
  <2> QED
    BY <1>16, <2>3, QuietBounded DEF Crash
<1>17. CASE UNCHANGED vars
  BY <1>17 DEF vars, Bounded, ActiveRuns, CheckedRuns, Charged
<1> QED
  BY <1>1, <1>2, <1>3, <1>4, <1>5, <1>6, <1>7, <1>8, <1>9, <1>10, <1>11, <1>12,
     <1>13, <1>14, <1>15, <1>16, <1>17
  DEF Next, batch_upload, handle_batch, handle_put, put_stream, upload
-----------------------------------------------------------------------------
(***************************************************************************)
(* Every stored object is audited, or a run is about to charge it.         *)
(***************************************************************************)
Charging == {"read", "charge"}

Audited ==
  faults = 0 => \A o \in stored \ audit.objects :
                  \E r \in Run : run[r].pc \in Charging /\ run[r].cur = o

(***************************************************************************)
(* A step keeps the objects audited if it does not move a run out of       *)
(* charging.                                                               *)
(***************************************************************************)
LEMMA MovedAudited ==
  ASSUME IInv, Audited, NEW r \in Run, NEW record, Move(r, record),
         run[r].pc \in Charging => record.pc \in Charging /\ record.cur = run[r].cur,
         stored' = stored, audit'.objects = audit.objects, faults' = faults
  PROVE  Audited'
<1>1. run'[r] = record /\ \A q \in Run \ {r} : run'[q] = run[q]
  BY DEF Move, IInv, TypeOK
<1> QED
  BY <1>1 DEF Audited

LEMMA OtherwiseAudited ==
  ASSUME IInv, Audited, NEW r \in Run, NEW record, Move(r, record), run[r].pc \notin Charging,
         stored' = stored, audit'.objects = audit.objects, faults' = faults
  PROVE  Audited'
  BY MovedAudited

LEMMA FaultyAudited ==
  ASSUME IInv, faults' = faults + 1
  PROVE  Audited'
  BY TransferAssumption DEF IInv, TypeOK, Audited

LEMMA AuditedStep ==
  ASSUME IInv, Audited, [Next]_vars
  PROVE  Audited'
<1> USE DEF At, Charging
<1>1. ASSUME NEW r \in Run, Start(r)
      PROVE  Audited'
  <2>1. PICK record : Move(r, record)
    BY <1>1 DEF Start
  <2> QED
    BY <1>1, <2>1, OtherwiseAudited DEF Start
<1>2. ASSUME NEW r \in Run, BatchAuthorize(r) \/ BatchRoom(r) \/ BatchAnswer(r)
      PROVE  Audited'
  <2>1. PICK record : Move(r, record)
    BY <1>2 DEF BatchAuthorize, BatchRoom, BatchAnswer, Goto, End
  <2> QED
    BY <1>2, <2>1, OtherwiseAudited DEF BatchAuthorize, BatchRoom, BatchAnswer
<1>3. ASSUME NEW r \in Run, NEW o \in Obj, BatchHas(r, o) \/ PutCheck(r, o)
      PROVE  Audited'
  <2>1. PICK record : Move(r, record)
    BY <1>3 DEF BatchHas, PutCheck, End
  <2> QED
    BY <1>3, <2>1, OtherwiseAudited DEF BatchHas, PutCheck
<1>4. ASSUME NEW r \in Run, PutBegin(r) \/ PutFails(r)
      PROVE  Audited'
  <2>1. PICK record : Move(r, record)
    BY <1>4 DEF PutBegin, PutFails, Goto, End
  <2> QED
    BY <1>4, <2>1, OtherwiseAudited DEF PutBegin, PutFails
<1>5. ASSUME NEW r \in Run, PutStore(r)
      PROVE  Audited'
  <2> DEFINE record == [run[r] EXCEPT !.pc = "read"]
  <2>1. Move(r, record) /\ run[r].pc = "stream" /\ UNCHANGED <<audit, faults>>
        /\ stored' = stored \cup {run[r].cur}
    BY <1>5 DEF PutStore, Goto
  <2>2. record.pc = "read" /\ record.cur = run[r].cur
    BY Known DEF RunRecord
  <2>3. run'[r] = record /\ \A q \in Run \ {r} : run'[q] = run[q]
    BY <2>1 DEF Move, IInv, TypeOK
  <2> HIDE DEF record
  <2> QED
    BY <2>1, <2>2, <2>3 DEF Audited
<1>6. ASSUME NEW r \in Run, ChargeRead(r)
      PROVE  Audited'
  <2> DEFINE record == [run[r] EXCEPT !.used = usage, !.pc = "charge"]
  <2>1. Move(r, record) /\ UNCHANGED <<stored, audit, faults>>
    BY <1>6 DEF ChargeRead
  <2>2. record.pc = "charge" /\ record.cur = run[r].cur
    BY Known DEF RunRecord
  <2> HIDE DEF record
  <2> QED
    BY <2>1, <2>2, MovedAudited
<1>7. ASSUME NEW r \in Run, Charge(r)
      PROVE  Audited'
  <2>1. UNCHANGED <<stored, faults>> /\ \A q \in Run \ {r} : run'[q] = run[q]
    BY <1>7 DEF Charge, NextPut, Move, IInv, TypeOK
  <2>2. audit'.objects = audit.objects \cup {run[r].cur}
    BY <1>7 DEF Charge, IInv, TypeOK
  <2> QED
    BY <2>1, <2>2 DEF Audited
<1>8. ASSUME NEW r \in Run,
             CommitCheck(r) \/ CommitLand(r) \/ CommitRejected(r) \/ CommitWalk(r)
      PROVE  Audited'
  <2>1. PICK record : Move(r, record)
    BY <1>8 DEF CommitCheck, CommitLand, CommitRejected, CommitWalk, End
  <2> QED
    BY <1>8, <2>1, OtherwiseAudited
    DEF CommitCheck, CommitLand, CommitRejected, CommitWalk
<1>9. ASSUME NEW r \in Run, CommitBook(r)
      PROVE  Audited'
  <2>1. PICK record : Move(r, record)
    BY <1>9 DEF CommitBook, AfterCommit, End
  <2>2. audit'.objects = audit.objects
    BY <1>9 DEF CommitBook, IInv, TypeOK
  <2> QED
    BY <1>9, <2>1, <2>2, OtherwiseAudited DEF CommitBook
<1>10. ASSUME NEW r \in Run, ClientGone(r) \/ AccessEnds(r)
       PROVE  Audited'
  <2>1. PICK record : Move(r, record)
    BY <1>10 DEF ClientGone, AccessEnds, End
  <2> QED
    BY <1>10, <2>1, OtherwiseAudited DEF ClientGone, AccessEnds
<1>11. ASSUME NEW r \in Run, DatabaseFails(r)
       PROVE  Audited'
  BY <1>11, FaultyAudited DEF DatabaseFails
<1>12. CASE Crash
  BY <1>12, FaultyAudited DEF Crash
<1>13. CASE UNCHANGED vars
  BY <1>13 DEF vars, Audited
<1> QED
  BY <1>1, <1>2, <1>3, <1>4, <1>5, <1>6, <1>7, <1>8, <1>9, <1>10, <1>11, <1>12, <1>13
  DEF Next, batch_upload, handle_batch, handle_put, put_stream, upload
-----------------------------------------------------------------------------
(***************************************************************************)
(* What is stored was charged, or a run is about to charge it, or a fault  *)
(* has swallowed the charge.                                               *)
(***************************************************************************)
Unpaid == Charging \cup Landed
UnpaidRuns == {r \in Run : run[r].pc \in Unpaid}

Kept ==
  disk + Cardinality(stored) <=
    Charged + Cardinality(UnpaidRuns) + MaxActive * faults

LEMMA UnpaidFinite ==
  /\ IsFiniteSet(UnpaidRuns) /\ Cardinality(UnpaidRuns) \in Nat
  /\ UnpaidRuns \subseteq CheckedRuns
  /\ Cardinality(UnpaidRuns) <= Cardinality(CheckedRuns)
  /\ Cardinality(UnpaidRuns) <= Cardinality(ActiveRuns)
<1>1. UnpaidRuns \subseteq CheckedRuns /\ UnpaidRuns \subseteq Run
  BY DEF UnpaidRuns, CheckedRuns, Unpaid, Charging, Checked, InHand, Landed
<1>2. IsFiniteSet(UnpaidRuns)
  BY <1>1, RunsFinite, FS_Subset
<1>3. Cardinality(UnpaidRuns) <= Cardinality(CheckedRuns) /\ Cardinality(UnpaidRuns) \in Nat
  BY <1>1, <1>2, RunsFinite, FS_Subset, FS_CardinalityType
<1> QED
  BY <1>1, <1>2, <1>3, RunsFinite

LEMMA Weights ==
  ASSUME IInv
  PROVE  /\ IsFiniteSet(stored) /\ Cardinality(stored) \in Nat
         /\ disk \in Nat /\ Charged \in Nat /\ faults \in Nat
         /\ MaxActive \in Nat /\ MaxActive >= 1 /\ MaxActive * faults \in Nat
<1>1. IsFiniteSet(stored) /\ Cardinality(stored) \in Nat
  BY TransferAssumption, FS_Subset, FS_CardinalityType DEF IInv, TypeOK
<1>2. disk \in Nat /\ Charged \in Nat /\ faults \in Nat /\ MaxActive \in Nat \ {0}
  BY ChargedTyped, TransferAssumption DEF IInv, TypeOK
<1>3. MaxActive * faults \in Nat
  BY <1>2
<1> QED
  BY <1>1, <1>2, <1>3

(***************************************************************************)
(* The moves of a run, by whether it has something unpaid before and       *)
(* after.                                                                  *)
(***************************************************************************)
LEMMA MovedKept ==
  ASSUME IInv, Kept, NEW r \in Run, NEW record, Move(r, record),
         record.pc \in Unpaid <=> run[r].pc \in Unpaid,
         UNCHANGED <<stored, disk, audit, faults>>
  PROVE  Kept'
<1>1. run'[r] = record /\ \A q \in Run \ {r} : run'[q] = run[q]
  BY DEF Move, IInv, TypeOK
<1>2. UnpaidRuns' = UnpaidRuns
  BY <1>1 DEF UnpaidRuns
<1> QED
  BY <1>2 DEF Kept, Charged

LEMMA GrownKept ==
  ASSUME IInv, Kept, NEW r \in Run, NEW record, Move(r, record),
         run[r].pc \notin Unpaid, record.pc \in Unpaid,
         disk' + Cardinality(stored') <= disk + Cardinality(stored) + 1,
         disk' + Cardinality(stored') \in Nat,
         UNCHANGED <<audit, faults>>
  PROVE  Kept'
<1>1. run'[r] = record /\ \A q \in Run \ {r} : run'[q] = run[q]
  BY DEF Move, IInv, TypeOK
<1>2. UnpaidRuns' = UnpaidRuns \cup {r} /\ r \notin UnpaidRuns
  BY <1>1 DEF UnpaidRuns
<1>3. Cardinality(UnpaidRuns') = Cardinality(UnpaidRuns) + 1
  BY <1>2, UnpaidFinite, FS_AddElement
<1>4. Charged' = Charged /\ MaxActive * faults' = MaxActive * faults
  BY DEF Charged
<1> QED
  BY <1>3, <1>4, UnpaidFinite, Weights DEF Kept

LEMMA PaidKept ==
  ASSUME IInv, Kept, NEW r \in Run, NEW record, Move(r, record),
         run[r].pc \in Unpaid, record.pc \notin Unpaid,
         Charged' = Charged + 1, UNCHANGED <<stored, disk, faults>>
  PROVE  Kept'
<1>1. run'[r] = record /\ \A q \in Run \ {r} : run'[q] = run[q]
  BY DEF Move, IInv, TypeOK
<1>2. UnpaidRuns' = UnpaidRuns \ {r} /\ r \in UnpaidRuns
  BY <1>1 DEF UnpaidRuns
<1>3. Cardinality(UnpaidRuns') = Cardinality(UnpaidRuns) - 1
  BY <1>2, UnpaidFinite, FS_RemoveElement
<1>4. MaxActive * faults' = MaxActive * faults
  OBVIOUS
<1> QED
  BY <1>3, <1>4, UnpaidFinite, Weights DEF Kept

(***************************************************************************)
(* A fault ends at most all the runs there are.                            *)
(***************************************************************************)
LEMMA FaultyKept ==
  ASSUME IInv, Bounded, Kept, UNCHANGED <<stored, disk, audit>>,
         faults' = faults + 1
  PROVE  Kept'
<1>1. Cardinality(UnpaidRuns) <= MaxActive
  BY UnpaidFinite, RunsFinite, TransferAssumption DEF Bounded
<1>2. Cardinality(UnpaidRuns') \in Nat
  <2>1. UnpaidRuns' \subseteq Run
    BY DEF UnpaidRuns
  <2> QED
    BY <2>1, TransferAssumption, FS_Subset, FS_CardinalityType
<1>3. Charged' = Charged
  BY DEF Charged
<1>4. MaxActive * faults' = MaxActive * faults + MaxActive
  BY Weights
<1>5. disk + Cardinality(stored) <= Charged + Cardinality(UnpaidRuns) + MaxActive * faults
  BY DEF Kept
<1>6. disk + Cardinality(stored) <= Charged + Cardinality(UnpaidRuns') + MaxActive * faults'
  BY <1>1, <1>2, <1>4, <1>5, UnpaidFinite, Weights
<1> QED
  BY <1>3, <1>6 DEF Kept

LEMMA EndedKept ==
  ASSUME IInv, Kept, NEW r \in Run, NEW pc \in Ended, End(r, pc),
         run[r].pc \notin Unpaid, UNCHANGED <<stored, disk, audit, faults>>
  PROVE  Kept'
<1>1. Over(r, pc).pc \notin Unpaid
  BY DEF Over, Fresh, Unpaid, Charging, Landed, Ended
<1> QED
  BY <1>1, MovedKept DEF End

LEMMA WentKept ==
  ASSUME IInv, Kept, NEW r \in Run, NEW pc, Goto(r, pc),
         run[r].pc \notin Unpaid, pc \notin Unpaid,
         UNCHANGED <<stored, disk, audit, faults>>
  PROVE  Kept'
<1>1. [run[r] EXCEPT !.pc = pc].pc = pc
  BY Known DEF RunRecord
<1> QED
  BY <1>1, MovedKept DEF Goto

LEMMA BatchKept ==
  ASSUME IInv, Kept, NEW r \in Run, Start(r) \/ batch_upload(r)
  PROVE  Kept'
<1> USE DEF At, Ended, Unpaid, Charging, Landed
<1>1. ASSUME Start(r)
      PROVE  Kept'
  <2> DEFINE Asking(want, actor, access, split, fits) ==
        [Fresh EXCEPT !.pc = "ask", !.actor = actor, !.access = access,
                      !.split = split, !.ask = want, !.left = want,
                      !.fits = fits]
  <2>1. PICK want, actor, access, split, fits :
          Move(r, Asking(want, actor, access, split, fits))
    BY <1>1 DEF Start
  <2> DEFINE record == Asking(want, actor, access, split, fits)
  <2>2. Move(r, record)
    BY <2>1
  <2>3. record.pc = "ask"
    BY DEF Fresh
  <2> HIDE DEF record
  <2> QED
    BY <1>1, <2>2, <2>3, MovedKept DEF Start
<1>2. ASSUME BatchAuthorize(r) \/ BatchAnswer(r)
      PROVE  Kept'
  BY <1>2, EndedKept, WentKept DEF BatchAuthorize, BatchAnswer, AfterPut
<1>3. ASSUME NEW o \in Obj, BatchHas(r, o)
      PROVE  Kept'
  <2> DEFINE there == [run[r] EXCEPT !.ask = @ \ {o}]
             absent == [run[r] EXCEPT !.ask = @ \ {o}, !.cur = o, !.pc = "room"]
  <2>1. (Move(r, there) \/ Move(r, absent)) /\ run[r].pc = "batch"
    BY <1>3 DEF BatchHas
  <2>2. there.pc = run[r].pc /\ absent.pc = "room"
    BY Known DEF RunRecord
  <2> HIDE DEF there, absent
  <2> QED
    BY <1>3, <2>1, <2>2, MovedKept DEF BatchHas
<1>4. ASSUME BatchRoom(r)
      PROVE  Kept'
  <2> DEFINE granted == [run[r] EXCEPT !.pc = "batch", !.cur = None,
                                       !.todo = @ \cup {run[r].cur}]
             denied == [run[r] EXCEPT !.pc = "batch", !.cur = None, !.errors = TRUE]
  <2>1. Move(r, granted) \/ Move(r, denied)
    BY <1>4 DEF BatchRoom
  <2>2. granted.pc = "batch" /\ denied.pc = "batch"
    BY Known DEF RunRecord
  <2> HIDE DEF granted, denied
  <2> QED
    BY <1>4, <2>1, <2>2, MovedKept DEF BatchRoom
<1> QED
  BY <1>1, <1>2, <1>3, <1>4 DEF batch_upload, handle_batch

LEMMA PutKept ==
  ASSUME IInv, Kept, NEW r \in Run, handle_put(r)
  PROVE  Kept'
<1> USE DEF At, Ended, Unpaid, Charging, Landed
<1>1. ASSUME NEW o \in Obj, PutCheck(r, o)
      PROVE  Kept'
  <2>1. CASE authorize(r) /\ CheckPushAllowed(1)
    <3> DEFINE record == [run[r] EXCEPT !.pc = "begin", !.cur = o]
    <3>1. Move(r, record)
      BY <1>1, <2>1 DEF PutCheck
    <3>2. record.pc = "begin"
      BY Known DEF RunRecord
    <3> HIDE DEF record
    <3> QED
      BY <1>1, <3>1, <3>2, MovedKept DEF PutCheck
  <2>2. CASE ~(authorize(r) /\ CheckPushAllowed(1))
    BY <1>1, <2>2, EndedKept DEF PutCheck
  <2> QED
    BY <2>1, <2>2
<1>2. ASSUME PutBegin(r) \/ PutFails(r)
      PROVE  Kept'
  BY <1>2, EndedKept, WentKept DEF PutBegin, PutFails
<1>3. ASSUME PutStore(r)
      PROVE  Kept'
  <2> DEFINE record == [run[r] EXCEPT !.pc = "read"]
  <2>1. record.pc = "read" /\ Move(r, record)
    BY <1>3, Known DEF RunRecord, PutStore, Goto
  <2> HIDE DEF record
  <2>2. /\ stored' = stored \cup {run[r].cur} /\ UNCHANGED <<disk, audit, faults>>
        /\ run[r].pc = "stream"
    BY <1>3 DEF PutStore
  <2>3. Cardinality(stored') <= Cardinality(stored) + 1 /\ Cardinality(stored') \in Nat
    <3>1. Cardinality(stored \cup {run[r].cur}) =
            IF run[r].cur \in stored THEN Cardinality(stored) ELSE Cardinality(stored) + 1
      BY Weights, FS_AddElement
    <3>2. Cardinality(stored') = Cardinality(stored \cup {run[r].cur})
      BY <2>2
    <3> QED
      BY <3>1, <3>2, Weights
  <2>4. /\ disk' + Cardinality(stored') <= disk + Cardinality(stored) + 1
        /\ disk' + Cardinality(stored') \in Nat
    BY <2>2, <2>3, Weights
  <2> QED
    BY <2>1, <2>2, <2>4, GrownKept
<1>4. ASSUME ChargeRead(r)
      PROVE  Kept'
  <2> DEFINE record == [run[r] EXCEPT !.used = usage, !.pc = "charge"]
  <2>1. record.pc = "charge"
    BY Known DEF RunRecord
  <2>2. Move(r, record)
    BY <1>4 DEF ChargeRead
  <2> HIDE DEF record
  <2> QED
    BY <1>4, <2>1, <2>2, MovedKept DEF ChargeRead
<1>5. ASSUME Charge(r)
      PROVE  Kept'
  <2> DEFINE todo == run[r].todo \ {run[r].cur}
             record == [run[r] EXCEPT !.todo = todo, !.cur = None, !.used = 0,
                                      !.pc = AfterPut(todo)]
  <2>1. record.pc \in {"commit", "put"}
    BY Known DEF RunRecord, AfterPut
  <2>2. Move(r, record)
    BY <1>5 DEF Charge, NextPut
  <2>3. Charged' = Charged + 1
    <3>1. audit.lfs \in Nat /\ audit.repo \in Nat
      BY DEF IInv, TypeOK
    <3>2. audit'.lfs = audit.lfs + 1 /\ audit'.repo = audit.repo
      BY <1>5 DEF Charge, IInv, TypeOK
    <3> QED
      BY <3>1, <3>2 DEF Charged
  <2> HIDE DEF record
  <2> QED
    BY <1>5, <2>1, <2>2, <2>3, PaidKept DEF Charge
<1> QED
  BY <1>1, <1>2, <1>3, <1>4, <1>5 DEF handle_put, put_stream

LEMMA CommitKept ==
  ASSUME IInv, Kept, NEW r \in Run, upload(r)
  PROVE  Kept'
<1> USE DEF At, Ended, Unpaid, Charging, Landed
<1>1. ASSUME CommitCheck(r)
      PROVE  Kept'
  <2>1. CASE resolve_principal(r) /\ CheckPushAllowed(1)
    <3> DEFINE record == [run[r] EXCEPT !.pc = "land", !.row = size]
    <3>1. Move(r, record)
      BY <1>1, <2>1 DEF CommitCheck
    <3>2. record.pc = "land"
      BY Known DEF RunRecord
    <3> HIDE DEF record
    <3> QED
      BY <1>1, <3>1, <3>2, MovedKept DEF CommitCheck
  <2>2. CASE ~(resolve_principal(r) /\ CheckPushAllowed(1))
    BY <1>1, <2>2, EndedKept DEF CommitCheck
  <2> QED
    BY <2>1, <2>2
<1>2. ASSUME CommitLand(r)
      PROVE  Kept'
  <2> DEFINE Committed(part) == [run[r] EXCEPT !.left = @ \ part, !.pc = "walk"]
  <2>1. PICK part : Move(r, Committed(part))
    BY <1>2 DEF CommitLand
  <2> DEFINE record == Committed(part)
  <2>2. record.pc = "walk"
    BY Known DEF RunRecord
  <2>3. Move(r, record)
    BY <2>1
  <2> HIDE DEF record
  <2>4. /\ disk' = disk + 1 /\ UNCHANGED <<stored, audit, faults>>
        /\ run[r].pc = "land"
    BY <1>2 DEF CommitLand
  <2>5. /\ disk' + Cardinality(stored') <= disk + Cardinality(stored) + 1
        /\ disk' + Cardinality(stored') \in Nat
    BY <2>4, Weights
  <2> QED
    BY <2>2, <2>3, <2>4, <2>5, GrownKept
<1>3. ASSUME CommitWalk(r)
      PROVE  Kept'
  <2> DEFINE record == [run[r] EXCEPT !.walked = disk, !.pc = "book"]
  <2>1. record.pc = "book"
    BY Known DEF RunRecord
  <2>2. Move(r, record)
    BY <1>3 DEF CommitWalk
  <2> HIDE DEF record
  <2> QED
    BY <1>3, <2>1, <2>2, MovedKept DEF CommitWalk
<1>4. ASSUME CommitBook(r)
      PROVE  Kept'
  <2> DEFINE again == [run[r] EXCEPT !.pc = "commit", !.row = 0, !.walked = 0]
  <2>1. Move(r, Over(r, "done")) \/ Move(r, again)
    BY <1>4 DEF CommitBook, AfterCommit, End
  <2>2. Over(r, "done").pc = "done" /\ again.pc = "commit"
    BY Known DEF Over, Fresh, RunRecord
  <2> HIDE DEF again
  <2>3. PICK record : Move(r, record) /\ record.pc \in {"done", "commit"}
    BY <2>1, <2>2
  <2>4. Charged' = Charged + 1
    <3>1. audit.lfs \in Nat /\ audit.repo \in Nat
      BY DEF IInv, TypeOK
    <3>2. audit'.lfs = audit.lfs /\ audit'.repo = audit.repo + 1
      BY <1>4 DEF CommitBook, IInv, TypeOK
    <3> QED
      BY <3>1, <3>2 DEF Charged
  <2> QED
    BY <1>4, <2>3, <2>4, PaidKept DEF CommitBook
<1>5. ASSUME CommitRejected(r)
      PROVE  Kept'
  BY <1>5, EndedKept DEF CommitRejected
<1> QED
  BY <1>1, <1>2, <1>3, <1>4, <1>5 DEF upload

LEMMA KeptStep ==
  ASSUME IInv, Bounded, Kept, [Next]_vars
  PROVE  Kept'
<1> USE DEF Ended, Unpaid, Charging, Landed
<1>1. ASSUME NEW r \in Run, ClientGone(r)
      PROVE  Kept'
  BY <1>1, EndedKept DEF ClientGone
<1>2. ASSUME NEW r \in Run, AccessEnds(r)
      PROVE  Kept'
  <2> DEFINE record == [run[r] EXCEPT !.access = "none"]
  <2>1. record.pc = run[r].pc
    BY Known DEF RunRecord
  <2>2. Move(r, record)
    BY <1>2 DEF AccessEnds
  <2> HIDE DEF record
  <2> QED
    BY <1>2, <2>1, <2>2, MovedKept DEF AccessEnds
<1>3. ASSUME NEW r \in Run, DatabaseFails(r)
      PROVE  Kept'
  BY <1>3, FaultyKept DEF DatabaseFails
<1>4. CASE Crash
  BY <1>4, FaultyKept DEF Crash
<1>5. CASE UNCHANGED vars
  <2>1. UnpaidRuns' = UnpaidRuns
    BY <1>5 DEF vars, UnpaidRuns
  <2> QED
    BY <1>5, <2>1 DEF vars, Kept, Charged
<1> QED
  BY <1>1, <1>2, <1>3, <1>4, <1>5, BatchKept, PutKept, CommitKept DEF Next
-----------------------------------------------------------------------------
(***************************************************************************)
(* A run that is alone.  What it has still to send and to commit has room  *)
(* if there was room for it at the start.                                  *)
(***************************************************************************)
Due(r, store) ==
  (r.ask \ store) \cup r.todo \cup (IF r.pc = "room" THEN {r.cur} ELSE {})

CommitsDue(r) ==
  IF r.split THEN Cardinality(r.left) ELSE IF r.pc \in Landed THEN 0 ELSE 1

(***************************************************************************)
(* The room is counted from what is used once all that has landed is       *)
(* booked.                                                                 *)
(***************************************************************************)
Room(r, store, owed) ==
  r.actor = "owner" /\ ~r.errors /\ owed + Cardinality(Due(r, store)) + CommitsDue(r) <= Quota

Owed == usage + (disk - size)

Alone(r, store, used, weight, booked, failed) ==
  /\ r.pc \in Checked => used < Quota
  /\ r.pc = "charge" => r.used = used
  /\ r.pc \in {"land"} \cup Landed => r.row = booked
  /\ r.pc = "book" => r.walked = weight
  /\ weight - booked <= failed + (IF r.pc \in Landed THEN 1 ELSE 0)
  /\ r.fits => Room(r, store, used + (weight - booked))

RunAlone(r) == Alone(run[r], stored, usage, disk, size, faults)

Settled ==
  ~past.lost /\ usage = size + audit.lfs /\ Owed <= Quota + faults

Solo ==
  ~past.overlap =>
    /\ \A q, r \in Run : Active(q) /\ Active(r) => q = r
    /\ Settled
    /\ (\A r \in Run : ~Active(r)) => disk - size <= faults
    /\ \A r \in Run : /\ Active(r) => RunAlone(r)
                      /\ run[r].pc = "refused" => ~run[r].fits

LEMMA Totals ==
  ASSUME IInv, Measuring
  PROVE  /\ usage \in Nat /\ disk \in Nat /\ size \in Nat /\ size <= disk
         /\ Quota \in Nat /\ faults \in Nat /\ audit.lfs \in Nat
         /\ Owed \in Nat /\ usage <= Owed
  BY TransferAssumption DEF IInv, TypeOK, Measuring, Owed

LEMMA DueFinite ==
  ASSUME IInv, NEW r \in Run, NEW store
  PROVE  /\ IsFiniteSet(Due(run[r], store)) /\ Cardinality(Due(run[r], store)) \in Nat
         /\ IsFiniteSet(run[r].left) /\ Cardinality(run[r].left) \in Nat
         /\ CommitsDue(run[r]) \in Nat
<1>1. Due(run[r], store) \subseteq Obj /\ run[r].left \subseteq Obj
  BY Known DEF Due, RunRecord, Accounted
<1>2. /\ IsFiniteSet(Due(run[r], store)) /\ Cardinality(Due(run[r], store)) \in Nat
      /\ IsFiniteSet(run[r].left) /\ Cardinality(run[r].left) \in Nat
  BY <1>1, TransferAssumption, FS_Subset, FS_CardinalityType
<1>3. CommitsDue(run[r]) \in Nat
  BY <1>2 DEF CommitsDue
<1> QED
  BY <1>2, <1>3

(***************************************************************************)
(* The step of a run that is alone: only what the step makes of the run    *)
(* matters.                                                                *)
(***************************************************************************)
LEMMA MovedSolo ==
  ASSUME IInv, Solo, NEW r \in Run, Active(r), NEW record, Move(r, record),
         past'.overlap = past.overlap,
         ~past.overlap /\ Settled /\ RunAlone(r) =>
           /\ Settled'
           /\ record.pc \notin {"idle"} \cup Ended =>
                Alone(record, stored', usage', disk', size', faults')
           /\ record.pc \in {"idle"} \cup Ended => disk' - size' <= faults'
           /\ record.pc = "refused" => ~record.fits
  PROVE  Solo'
<1>1. run'[r] = record /\ \A q \in Run \ {r} : run'[q] = run[q]
  BY DEF Move, IInv, TypeOK
<1>2. \A q \in Run : Active(q)' => q = r \/ Active(q)
  BY <1>1 DEF Active
<1>3. Active(r)' <=> record.pc \notin {"idle"} \cup Ended
  BY <1>1 DEF Active
<1>4. CASE past.overlap
  BY <1>4 DEF Solo
<1>5. CASE ~past.overlap
  <2>1. Settled /\ RunAlone(r) /\ \A q \in Run : Active(q) => q = r
    BY <1>5 DEF Solo
  <2>2. Settled' /\ \A q \in Run : Active(q)' => q = r
    BY <1>2, <1>5, <2>1
  <2>3. Active(r)' => RunAlone(r)'
    BY <1>1, <1>3, <1>5, <2>1 DEF RunAlone
  <2>4. ~Active(r)' => disk' - size' <= faults'
    BY <1>3, <1>5, <2>1
  <2>5. \A q \in Run : run'[q].pc = "refused" => ~run'[q].fits
    BY <1>1, <1>5, <2>1 DEF Solo
  <2> QED
    BY <2>2, <2>3, <2>4, <2>5 DEF Solo
<1> QED
  BY <1>4, <1>5

(***************************************************************************)
(* There is room left if nothing is charged and nothing more is due.       *)
(***************************************************************************)
LEMMA SameRoom ==
  ASSUME IInv, Measuring, NEW r \in Run, Room(run[r], stored, Owed), NEW record,
         record.actor = run[r].actor, ~record.errors, record.split = run[r].split,
         record.left = run[r].left,
         record.pc \in Landed <=> run[r].pc \in Landed,
         Due(record, stored') \subseteq Due(run[r], stored)
  PROVE  Room(record, stored', Owed)
<1>1. Cardinality(Due(record, stored')) <= Cardinality(Due(run[r], stored))
      /\ Cardinality(Due(record, stored')) \in Nat
  BY DueFinite, FS_Subset, FS_CardinalityType
<1>2. CommitsDue(record) = CommitsDue(run[r]) /\ CommitsDue(run[r]) \in Nat
  BY DueFinite DEF CommitsDue
<1>3. /\ Owed \in Nat /\ Cardinality(Due(run[r], stored)) \in Nat /\ Quota \in Nat
      /\ Owed + Cardinality(Due(run[r], stored)) + CommitsDue(run[r]) <= Quota
  BY DueFinite, Totals DEF Room
<1>4. Owed + Cardinality(Due(record, stored')) + CommitsDue(record) <= Quota
  BY <1>1, <1>2, <1>3
<1> QED
  BY <1>4 DEF Room

LEMMA QuietSolo ==
  ASSUME IInv, Measuring, Solo, NEW r \in Run, Active(r), NEW record, Move(r, record),
         UNCHANGED <<disk, size, usage, audit, faults, past>>,
         record.pc \notin {"idle"} \cup Ended,
         record.pc \in Checked => run[r].pc \in Checked \/ CheckPushAllowed(1),
         record.pc = "charge" => record.used = usage,
         record.pc \in {"land"} \cup Landed =>
           \/ record.row = size
           \/ run[r].pc \in {"land"} \cup Landed /\ record.row = run[r].row,
         record.pc = "book" => record.walked = disk,
         record.fits = run[r].fits, record.actor = run[r].actor,
         ~record.errors \/ ~Room(run[r], stored, Owed),
         record.split = run[r].split, record.left = run[r].left,
         record.pc \in Landed <=> run[r].pc \in Landed,
         ~past.overlap => Due(record, stored') \subseteq Due(run[r], stored)
  PROVE  Solo'
<1>1. ASSUME ~past.overlap, RunAlone(r)
      PROVE  Alone(record, stored', usage, disk, size, faults)
  <2>1. record.pc \in Checked => usage < Quota
    BY <1>1, Totals DEF RunAlone, Alone, CheckPushAllowed
  <2>2. record.fits => Room(record, stored', usage + (disk - size))
    BY <1>1, SameRoom DEF RunAlone, Alone, Owed
  <2>3. record.pc \in {"land"} \cup Landed => record.row = size
    BY <1>1 DEF RunAlone, Alone
  <2>4. disk - size <= faults + (IF record.pc \in Landed THEN 1 ELSE 0)
    BY <1>1 DEF RunAlone, Alone
  <2> QED
    BY <2>1, <2>2, <2>3, <2>4 DEF Alone
<1>2. Settled => Settled'
  BY DEF Settled, Owed
<1> QED
  BY <1>1, <1>2, MovedSolo DEF Ended

LEMMA GoneSolo ==
  ASSUME IInv, Measuring, Solo, NEW r \in Run, Active(r), End(r, "gone"),
         run[r].pc \notin Landed,
         UNCHANGED <<disk, size, usage, audit, faults, past>>
  PROVE  Solo'
<1>1. Over(r, "gone").pc = "gone"
  BY DEF Over, Fresh
<1>2. Settled => Settled'
  BY DEF Settled, Owed
<1>3. RunAlone(r) => disk' - size' <= faults'
  BY Totals DEF RunAlone, Alone
<1> QED
  BY <1>1, <1>2, <1>3, MovedSolo DEF End, Ended

(***************************************************************************)
(* A fault leaves what has landed to be booked later.                      *)
(***************************************************************************)
LEMMA FailsSolo ==
  ASSUME IInv, Measuring, Solo, NEW r \in Run, DatabaseFails(r)
  PROVE  Solo'
<1>1. Over(r, "gone").pc = "gone" /\ End(r, "gone") /\ Active(r)
  BY DEF Over, Fresh, DatabaseFails, Active, Ended
<1>2. faults' = faults + 1 /\ UNCHANGED <<disk, size, usage, audit, past>>
  BY DEF DatabaseFails
<1>3. Settled => Settled'
  BY <1>2, Totals DEF Settled, Owed
<1>4. RunAlone(r) => disk' - size' <= faults'
  BY <1>2, Totals DEF RunAlone, Alone
<1> QED
  BY <1>1, <1>2, <1>3, <1>4, MovedSolo DEF End, Ended

(***************************************************************************)
(* A run is refused for want of room only if it had none at the start.     *)
(***************************************************************************)
LEMMA RefusedSolo ==
  ASSUME IInv, Measuring, Solo, NEW r \in Run, Active(r), End(r, "refused"),
         run[r].pc \notin Landed,
         UNCHANGED <<disk, size, usage, audit, faults, past>>,
         ~Room(run[r], stored, Owed)
  PROVE  Solo'
<1>1. Over(r, "refused").pc = "refused" /\ (Over(r, "refused").fits => run[r].fits)
  BY DEF Over, Fresh
<1>2. Settled => Settled'
  BY DEF Settled, Owed
<1>3. RunAlone(r) => ~run[r].fits /\ disk' - size' <= faults'
  BY Totals DEF RunAlone, Alone, Owed
<1> QED
  BY <1>1, <1>2, <1>3, MovedSolo DEF End, Ended

(***************************************************************************)
(* As long as something is due there is room for a unit, so no check       *)
(* refuses.                                                                *)
(***************************************************************************)
LEMMA RoomForOne ==
  ASSUME IInv, Measuring, NEW r \in Run, Room(run[r], stored, Owed),
         Due(run[r], stored) # {} \/ (run[r].left # {} /\ run[r].pc \notin Landed)
  PROVE  CheckPushAllowed(1)
<1>1. /\ usage \in Nat /\ Owed \in Nat /\ usage <= Owed /\ Quota \in Nat
      /\ Cardinality(Due(run[r], stored)) \in Nat /\ CommitsDue(run[r]) \in Nat
      /\ Owed + Cardinality(Due(run[r], stored)) + CommitsDue(run[r]) <= Quota
  BY DueFinite, Totals DEF Room
<1>2. CASE Due(run[r], stored) # {}
  <2>1. Cardinality(Due(run[r], stored)) # 0
    BY <1>2, DueFinite, FS_EmptySet
  <2> QED
    BY <1>1, <2>1 DEF CheckPushAllowed
<1>3. CASE run[r].left # {} /\ run[r].pc \notin Landed
  <2>1. Cardinality(run[r].left) # 0 /\ Cardinality(run[r].left) \in Nat
    BY <1>3, DueFinite, FS_EmptySet
  <2>2. CommitsDue(run[r]) >= 1
    BY <1>3, <2>1 DEF CommitsDue
  <2> QED
    BY <1>1, <2>2 DEF CheckPushAllowed
<1> QED
  BY <1>2, <1>3

(***************************************************************************)
(* The room a run finds at its start is the room for all that is due.      *)
(***************************************************************************)
LEMMA StartSolo ==
  ASSUME IInv, Measuring, Solo, NEW r \in Run, Start(r)
  PROVE  Solo'
<1> SUFFICES ASSUME ~past'.overlap
             PROVE  /\ \A q, p \in Run : Active(q)' /\ Active(p)' => q = p
                    /\ Settled'
                    /\ (\A q \in Run : ~Active(q)') => disk' - size' <= faults'
                    /\ \A q \in Run : /\ Active(q)' => RunAlone(q)'
                                      /\ run'[q].pc = "refused" => ~run'[q].fits
  BY DEF Solo
<1>1. ~past.overlap /\ past'.lost = past.lost
      /\ UNCHANGED <<stored, disk, size, usage, audit, faults>>
      /\ \A q \in Run : ~Active(q)
  BY DEF Start, IInv, TypeOK
<1>2. /\ Settled' /\ disk - size <= faults
      /\ \A q \in Run : run[q].pc = "refused" => ~run[q].fits
  BY <1>1 DEF Solo, Settled, Owed
<1>3. PICK want \in (SUBSET Obj) \ {{}}, split \in BOOLEAN, actor \in Actor,
           access \in Access \ {"none"} :
        Move(r, [Fresh EXCEPT !.pc = "ask", !.actor = actor, !.access = access,
                   !.split = split, !.ask = want, !.left = want,
                   !.fits = actor = "owner" /\ CheckPushAllowed(
                      Cardinality(want \ stored)
                      + (IF split THEN Cardinality(want) ELSE 1) + disk - size)])
  BY DEF Start
<1> DEFINE commits == IF split THEN Cardinality(want) ELSE 1
           fits == actor = "owner" /\ CheckPushAllowed(
                     Cardinality(want \ stored) + commits + disk - size)
           record == [Fresh EXCEPT !.pc = "ask", !.actor = actor, !.access = access,
                   !.split = split, !.ask = want, !.left = want, !.fits = fits]
<1>4. run'[r] = record /\ \A q \in Run \ {r} : run'[q] = run[q]
  BY <1>3 DEF Move, IInv, TypeOK
<1>5. /\ record.pc = "ask" /\ record.actor = actor /\ ~record.errors /\ record.todo = {}
      /\ record.split = split /\ record.ask = want /\ record.left = want
      /\ record.fits <=> fits
  BY DEF Fresh
<1> HIDE DEF record
<1>6. Due(record, stored) = want \ stored
  BY <1>5 DEF Due
<1>7. CommitsDue(record) = commits
  BY <1>5 DEF CommitsDue, Landed
<1>8. fits => Room(record, stored, usage + (disk - size))
  <2>1. Cardinality(want) \in Nat /\ Cardinality(want \ stored) \in Nat /\ commits \in Nat
    BY TransferAssumption, FS_Subset, FS_CardinalityType
  <2>2. fits => usage + (Cardinality(want \ stored) + commits + disk - size) <= Quota
    BY DEF CheckPushAllowed
  <2> HIDE DEF fits, commits
  <2>3. fits => usage + (disk - size) + Cardinality(want \ stored) + commits <= Quota
    BY <2>1, <2>2, Totals
  <2>4. fits => actor = "owner"
    BY DEF fits
  <2> QED
    BY <1>5, <1>6, <1>7, <2>3, <2>4 DEF Room
<1> HIDE DEF fits
<1>9. Alone(record, stored, usage, disk, size, faults)
  BY <1>2, <1>5, <1>8, Totals DEF Alone, Checked, Landed, InHand
<1>10. RunAlone(r)'
  BY <1>1, <1>4, <1>9 DEF RunAlone
<1>11. \A q \in Run : Active(q)' => q = r
  BY <1>1, <1>4 DEF Active
<1>12. Active(r)'
  BY <1>4, <1>5 DEF Active, Ended
<1> QED
  BY <1>2, <1>4, <1>5, <1>10, <1>11, <1>12

(***************************************************************************)
(* A charge takes a unit and settles a unit that was due.                  *)
(***************************************************************************)
LEMMA ChargeSolo ==
  ASSUME IInv, Measuring, Solo, NEW r \in Run, Charge(r)
  PROVE  Solo'
<1> DEFINE todo == run[r].todo \ {run[r].cur}
           record == [run[r] EXCEPT !.todo = todo, !.cur = None, !.used = 0,
                                    !.pc = AfterPut(todo)]
<1>1. /\ run[r].pc = "charge" /\ Move(r, record) /\ usage' = run[r].used + 1
      /\ UNCHANGED <<stored, disk, size, faults>>
  BY DEF Charge, At, NextPut
<1>2. /\ record.pc \in {"put", "commit"} /\ record.todo = todo /\ record.ask = run[r].ask
      /\ record.fits = run[r].fits /\ record.actor = run[r].actor
      /\ record.errors = run[r].errors /\ record.split = run[r].split
      /\ record.left = run[r].left
  BY Known DEF RunRecord, AfterPut
<1>3. /\ past'.overlap = past.overlap
      /\ past'.lost <=> past.lost \/ usage # run[r].used
      /\ audit'.lfs = audit.lfs + 1
  BY DEF Charge, IInv, TypeOK
<1>4. run[r].ask = {} /\ run[r].cur \in run[r].todo
  BY <1>1, Known DEF Accounted, Sending, InHand
<1> HIDE DEF record
<1>5. ASSUME ~past.overlap, Settled, RunAlone(r)
      PROVE  /\ Settled'
             /\ Alone(record, stored', usage', disk', size', faults')
  <2>1. run[r].used = usage /\ usage < Quota /\ usage' = usage + 1
    BY <1>1, <1>5 DEF RunAlone, Alone, Checked, InHand
  <2>2. disk - size <= faults
    BY <1>1, <1>5, Totals DEF RunAlone, Alone, Landed
  <2>3. Settled'
    BY <1>1, <1>3, <1>5, <2>1, <2>2, Totals DEF Settled, Owed
  <2>4. ASSUME run[r].fits
        PROVE  Room(record, stored', usage' + (disk' - size'))
    <3>1. Due(run[r], stored) = run[r].todo
      BY <1>1, <1>4 DEF Due
    <3>2. Due(record, stored') = run[r].todo \ {run[r].cur}
      BY <1>2, <1>4 DEF Due
    <3>3. /\ Cardinality(Due(record, stored')) = Cardinality(Due(run[r], stored)) - 1
          /\ Cardinality(Due(run[r], stored)) \in Nat
      <4>1. IsFiniteSet(Due(run[r], stored)) /\ Cardinality(Due(run[r], stored)) \in Nat
        BY DueFinite
      <4>2. Cardinality(run[r].todo \ {run[r].cur}) = Cardinality(run[r].todo) - 1
        <5>1. IsFiniteSet(run[r].todo)
          BY <3>1, <4>1
        <5>2. run[r].cur \in run[r].todo
          BY <1>4
        <5> QED
          BY <5>1, <5>2, FS_RemoveElement
      <4> QED
        BY <3>1, <3>2, <4>1, <4>2
    <3>4. CommitsDue(record) = CommitsDue(run[r]) /\ CommitsDue(run[r]) \in Nat
      BY <1>1, <1>2, DueFinite DEF CommitsDue, Landed
    <3>5. Room(run[r], stored, Owed)
      BY <1>5, <2>4 DEF RunAlone, Alone, Owed
    <3>6. usage' + (disk' - size') + Cardinality(Due(record, stored')) + CommitsDue(record)
            <= Quota
      <4>1. usage' + (disk' - size') = Owed + 1
        BY <1>1, <2>1, Totals DEF Owed
      <4>2. Owed + Cardinality(Due(run[r], stored)) + CommitsDue(run[r]) <= Quota
        BY <3>5 DEF Room
      <4> QED
        BY <3>3, <3>4, <4>1, <4>2, Totals
    <3> QED
      BY <1>2, <3>5, <3>6 DEF Room
  <2>5. disk' - size' <= faults' + (IF record.pc \in Landed THEN 1 ELSE 0)
    BY <1>1, <1>2, <2>2, Totals DEF Landed
  <2> QED
    BY <1>2, <2>3, <2>4, <2>5 DEF Alone, Checked, Landed, InHand
<1>6. Active(r)
  BY <1>1 DEF Active, Ended
<1> QED
  BY <1>1, <1>2, <1>3, <1>5, <1>6, MovedSolo DEF Ended

(***************************************************************************)
(* A commit that lands takes its unit before it is booked.                 *)
(***************************************************************************)
LEMMA CommitLandSolo ==
  ASSUME IInv, Measuring, Solo, NEW r \in Run, CommitLand(r)
  PROVE  Solo'
<1> DEFINE Committed(part) == [run[r] EXCEPT !.left = @ \ part, !.pc = "walk"]
<1>1. PICK part \in IF run[r].split THEN {{o} : o \in run[r].left} ELSE {run[r].left} :
        Move(r, Committed(part))
  BY DEF CommitLand
<1> DEFINE record == Committed(part)
<1>2. /\ run[r].pc = "land" /\ Move(r, record) /\ disk' = disk + 1
      /\ UNCHANGED <<stored, size, usage, audit, faults, past>>
  BY <1>1 DEF CommitLand, At
<1>3. /\ record.pc = "walk" /\ record.left = run[r].left \ part /\ record.ask = run[r].ask
      /\ record.todo = run[r].todo /\ record.row = run[r].row
      /\ record.fits = run[r].fits /\ record.actor = run[r].actor
      /\ record.errors = run[r].errors /\ record.split = run[r].split
  BY Known DEF RunRecord
<1> HIDE DEF record
<1>4. CommitsDue(record) + 1 = CommitsDue(run[r]) /\ CommitsDue(record) \in Nat
  <2>1. CASE run[r].split
    <3>1. PICK o \in run[r].left : part = {o}
      BY <1>1, <2>1
    <3>2. IsFiniteSet(run[r].left) /\ Cardinality(run[r].left) \in Nat
      BY DueFinite
    <3>3. Cardinality(record.left) = Cardinality(run[r].left) - 1
      BY <1>3, <3>1, <3>2, FS_RemoveElement
    <3>4. Cardinality(record.left) \in Nat
      <4>1. record.left \subseteq run[r].left
        BY <1>3
      <4> QED
        BY <3>2, <4>1, FS_Subset, FS_CardinalityType
    <3> QED
      BY <1>2, <1>3, <2>1, <3>2, <3>3, <3>4 DEF CommitsDue
  <2>2. CASE ~run[r].split
    BY <1>2, <1>3, <2>2 DEF CommitsDue, Landed
  <2> QED
    BY <2>1, <2>2
<1>5. Due(record, stored') = Due(run[r], stored)
  BY <1>2, <1>3 DEF Due
<1>6. Owed' = Owed + 1
  BY <1>2, Totals DEF Owed
<1>7. Room(run[r], stored, Owed) => Room(record, stored', Owed')
  <2>1. Cardinality(Due(run[r], stored)) \in Nat
    BY DueFinite
  <2> QED
    BY <1>3, <1>4, <1>5, <1>6, <2>1, Totals DEF Room
<1>8. ASSUME ~past.overlap, Settled, RunAlone(r)
      PROVE  Settled' /\ Alone(record, stored', usage', disk', size', faults')
  <2>1. usage < Quota /\ disk - size <= faults /\ run[r].row = size
    BY <1>2, <1>8, Totals DEF RunAlone, Alone, Checked, Landed
  <2>2. Settled'
    BY <1>2, <1>6, <1>8, <2>1, Totals DEF Settled, Owed
  <2>3. run[r].fits => Room(record, stored', Owed')
    BY <1>7, <1>8 DEF RunAlone, Alone, Owed
  <2>4. disk' - size' <= faults' + 1
    BY <1>2, <2>1, Totals
  <2> QED
    BY <1>2, <1>3, <2>1, <2>2, <2>3, <2>4 DEF Alone, Checked, Landed, Owed
<1>9. Active(r)
  BY <1>2 DEF Active, Ended
<1> QED
  BY <1>2, <1>3, <1>8, <1>9, MovedSolo DEF Ended

LEMMA CommitWalkSolo ==
  ASSUME IInv, Measuring, Solo, NEW r \in Run, CommitWalk(r)
  PROVE  Solo'
<1> DEFINE record == [run[r] EXCEPT !.walked = disk, !.pc = "book"]
<1>1. /\ run[r].pc = "walk" /\ Move(r, record)
      /\ UNCHANGED <<stored, disk, size, usage, audit, faults, past>>
  BY DEF CommitWalk, At
<1>2. /\ record.pc = "book" /\ record.walked = disk /\ record.row = run[r].row
      /\ record.ask = run[r].ask /\ record.todo = run[r].todo
      /\ record.fits = run[r].fits /\ record.actor = run[r].actor
      /\ record.errors = run[r].errors /\ record.split = run[r].split
      /\ record.left = run[r].left
  BY Known DEF RunRecord
<1> HIDE DEF record
<1>3. Due(record, stored') \subseteq Due(run[r], stored)
  BY <1>1, <1>2 DEF Due
<1>4. ~record.errors \/ ~Room(run[r], stored, Owed)
  BY <1>2 DEF Room
<1>5. Active(r)
  BY <1>1 DEF Active, Ended
<1> QED
  BY <1>1, <1>2, <1>3, <1>4, <1>5, QuietSolo DEF Ended, Checked, Landed

(***************************************************************************)
(* Booking settles all that has landed, so that what is owed stays.        *)
(***************************************************************************)
LEMMA CommitBookSolo ==
  ASSUME IInv, Measuring, Solo, NEW r \in Run, CommitBook(r)
  PROVE  Solo'
<1>1. /\ run[r].pc = "book" /\ size' = run[r].walked
      /\ usage' = usage + run[r].walked - run[r].row
      /\ UNCHANGED <<stored, disk, faults, past>>
  BY DEF CommitBook, At
<1>2. Active(r)
  BY <1>1 DEF Active, Ended
<1>3. audit'.lfs = audit.lfs
  BY DEF CommitBook, IInv, TypeOK
<1>4. ASSUME ~past.overlap, Settled, RunAlone(r)
      PROVE  Settled' /\ size' = disk /\ Owed' = Owed /\ usage' = Owed
  <2>1. run[r].row = size /\ run[r].walked = disk
    BY <1>1, <1>4 DEF RunAlone, Alone, Landed
  <2>2. size' = disk /\ usage' = Owed /\ Owed' = Owed
    BY <1>1, <2>1, Totals DEF Owed
  <2>3. usage' = size' + audit'.lfs
    BY <1>3, <1>4, <2>1, <2>2, Totals DEF Settled, Owed
  <2> QED
    BY <1>1, <1>4, <2>2, <2>3 DEF Settled
<1>5. CASE run[r].left = {}
  <2>1. Move(r, Over(r, "done")) /\ Over(r, "done").pc = "done"
    BY <1>5 DEF CommitBook, AfterCommit, End, Over, Fresh
  <2>2. size' = disk => disk' - size' <= faults'
    BY <1>1, Totals
  <2> QED
    BY <1>1, <1>2, <1>4, <2>1, <2>2, MovedSolo DEF Ended
<1>6. CASE run[r].left # {}
  <2> DEFINE record == [run[r] EXCEPT !.pc = "commit", !.row = 0, !.walked = 0]
  <2>1. Move(r, record)
    BY <1>6 DEF CommitBook, AfterCommit
  <2>2. /\ record.pc = "commit" /\ record.left = run[r].left /\ record.ask = run[r].ask
        /\ record.todo = run[r].todo
        /\ record.fits = run[r].fits /\ record.actor = run[r].actor
        /\ record.errors = run[r].errors /\ record.split = run[r].split
    BY Known DEF RunRecord
  <2> HIDE DEF record
  <2>3. run[r].split
    BY <1>1, <1>6, Known DEF Accounted, Landed
  <2>4. CommitsDue(record) = CommitsDue(run[r])
    BY <2>2, <2>3 DEF CommitsDue
  <2>5. Due(record, stored') = Due(run[r], stored)
    BY <1>1, <2>2 DEF Due
  <2>6. Room(run[r], stored, Owed) => Room(record, stored', Owed)
    BY <2>2, <2>4, <2>5 DEF Room
  <2>7. ASSUME ~past.overlap, Settled, RunAlone(r)
        PROVE  Alone(record, stored', usage', disk', size', faults')
    <3>1. size' = disk /\ Owed' = Owed /\ disk' = disk /\ faults' = faults
      BY <1>1, <1>4, <2>7
    <3>2. run[r].fits => Room(record, stored', Owed')
      BY <2>6, <2>7, <3>1 DEF RunAlone, Alone, Owed
    <3>3. disk' - size' <= faults' + (IF record.pc \in Landed THEN 1 ELSE 0)
      BY <2>2, <3>1, Totals DEF Landed
    <3> QED
      BY <2>2, <3>2, <3>3 DEF Alone, Checked, Landed, InHand, Owed
  <2> QED
    BY <1>1, <1>2, <1>4, <2>1, <2>2, <2>7, MovedSolo DEF Ended
<1> QED
  BY <1>5, <1>6

LEMMA BatchSolo ==
  ASSUME IInv, Measuring, Solo, NEW r \in Run
  PROVE  /\ \A o \in Obj : BatchHas(r, o) => Solo'
         /\ BatchRoom(r) => Solo'
<1>1. ASSUME NEW o \in Obj, BatchHas(r, o)
      PROVE  Solo'
  <2> DEFINE there == [run[r] EXCEPT !.ask = @ \ {o}]
             absent == [run[r] EXCEPT !.ask = @ \ {o}, !.cur = o, !.pc = "room"]
  <2>1. /\ run[r].pc = "batch" /\ o \in run[r].ask /\ UNCHANGED <<stored, disk, size, usage, audit, faults, past>>
        /\ Move(r, IF o \in stored THEN there ELSE absent)
    BY <1>1 DEF BatchHas, At
  <2>2. Active(r)
    BY <2>1 DEF Active, Ended
  <2>3. CASE o \in stored
    <3>4. Move(r, there)
      BY <2>1, <2>3
    <3>1. /\ there.pc = "batch" /\ there.ask = run[r].ask \ {o} /\ there.todo = run[r].todo
          /\ there.fits = run[r].fits /\ there.actor = run[r].actor
          /\ there.errors = run[r].errors /\ there.split = run[r].split
          /\ there.left = run[r].left
      BY <2>1, Known DEF RunRecord
    <3> HIDE DEF there
    <3>2. Due(there, stored') \subseteq Due(run[r], stored)
      BY <2>1, <3>1 DEF Due
    <3>3. ~there.errors \/ ~Room(run[r], stored, Owed)
      BY <3>1 DEF Room
    <3> QED
      BY <2>1, <2>2, <3>1, <3>2, <3>3, <3>4, QuietSolo DEF Ended, Checked, Landed, InHand
  <2>4. CASE o \notin stored
    <3>4. Move(r, absent)
      BY <2>1, <2>4
    <3>1. /\ absent.pc = "room" /\ absent.ask = run[r].ask \ {o} /\ absent.todo = run[r].todo
          /\ absent.cur = o /\ absent.fits = run[r].fits /\ absent.actor = run[r].actor
          /\ absent.errors = run[r].errors /\ absent.split = run[r].split
          /\ absent.left = run[r].left
      BY <2>1, Known DEF RunRecord
    <3> HIDE DEF absent
    <3>2. Due(absent, stored') \subseteq Due(run[r], stored)
      BY <2>1, <2>4, <3>1 DEF Due
    <3>3. ~absent.errors \/ ~Room(run[r], stored, Owed)
      BY <3>1 DEF Room
    <3> QED
      BY <2>1, <2>2, <3>1, <3>2, <3>3, <3>4, QuietSolo DEF Ended, Checked, Landed, InHand
  <2> QED
    BY <2>3, <2>4
<1>2. ASSUME BatchRoom(r)
      PROVE  Solo'
  <2> DEFINE granted == [run[r] EXCEPT !.pc = "batch", !.cur = None,
                                       !.todo = @ \cup {run[r].cur}]
             denied == [run[r] EXCEPT !.pc = "batch", !.cur = None, !.errors = TRUE]
  <2>1. run[r].pc = "room" /\ UNCHANGED <<stored, disk, size, usage, audit, faults, past>>
    BY <1>2 DEF BatchRoom, At
  <2>2. Active(r)
    BY <2>1 DEF Active, Ended
  <2>3. \/ Move(r, granted)
        \/ Move(r, denied) /\ (run[r].actor = "owner" => ~CheckPushAllowed(1))
    BY <1>2 DEF BatchRoom
  <2>4. CASE Move(r, granted)
    <3>1. /\ granted.pc = "batch" /\ granted.ask = run[r].ask
          /\ granted.todo = run[r].todo \cup {run[r].cur}
          /\ granted.fits = run[r].fits /\ granted.actor = run[r].actor
          /\ granted.errors = run[r].errors /\ granted.split = run[r].split
          /\ granted.left = run[r].left
      BY Known DEF RunRecord
    <3> HIDE DEF granted
    <3>2. Due(granted, stored') \subseteq Due(run[r], stored)
      BY <2>1, <3>1 DEF Due
    <3>3. ~granted.errors \/ ~Room(run[r], stored, Owed)
      BY <3>1 DEF Room
    <3> QED
      BY <2>1, <2>2, <2>4, <3>1, <3>2, <3>3, QuietSolo DEF Ended, Checked, Landed, InHand
  <2>5. CASE Move(r, denied) /\ (run[r].actor = "owner" => ~CheckPushAllowed(1))
    <3>1. /\ denied.pc = "batch" /\ denied.ask = run[r].ask /\ denied.todo = run[r].todo
          /\ denied.fits = run[r].fits /\ denied.actor = run[r].actor
          /\ denied.split = run[r].split /\ denied.left = run[r].left
      BY Known DEF RunRecord
    <3> HIDE DEF denied
    <3>2. Due(denied, stored') \subseteq Due(run[r], stored)
      BY <2>1, <3>1 DEF Due
    <3>3. ~Room(run[r], stored, Owed)
      <4>1. Due(run[r], stored) # {}
        BY <2>1 DEF Due
      <4> QED
        BY <2>5, <4>1, RoomForOne DEF Room
    <3> QED
      BY <2>1, <2>2, <2>5, <3>1, <3>2, <3>3, QuietSolo DEF Ended, Checked, Landed, InHand
  <2> QED
    BY <2>3, <2>4, <2>5
<1> QED
  BY <1>1, <1>2

LEMMA GotoSolo ==
  ASSUME IInv, Measuring, Solo, NEW r \in Run, NEW pc, Goto(r, pc),
         Active(r), stored \subseteq stored', UNCHANGED <<disk, size, usage, audit, faults, past>>,
         pc \notin {"idle", "room", "charge", "land"} \cup Landed \cup Ended,
         run[r].pc \notin {"room"} \cup Landed,
         pc \in Checked => run[r].pc \in Checked \/ CheckPushAllowed(1)
  PROVE  Solo'
<1> DEFINE record == [run[r] EXCEPT !.pc = pc]
<1>1. /\ record.pc = pc /\ record.ask = run[r].ask /\ record.todo = run[r].todo
      /\ record.fits = run[r].fits /\ record.actor = run[r].actor
      /\ record.errors = run[r].errors /\ record.split = run[r].split
      /\ record.left = run[r].left /\ Move(r, record)
  BY Known DEF RunRecord, Goto
<1> HIDE DEF record
<1>2. Due(record, stored') \subseteq Due(run[r], stored)
  BY <1>1 DEF Due
<1>3. ~record.errors \/ ~Room(run[r], stored, Owed)
  BY <1>1 DEF Room
<1> QED
  BY <1>1, <1>2, <1>3, QuietSolo DEF Landed

LEMMA PutCheckSolo ==
  ASSUME IInv, Measuring, Solo, NEW r \in Run, NEW o \in Obj, PutCheck(r, o)
  PROVE  Solo'
<1>1. run[r].pc = "put" /\ o \in run[r].todo /\ UNCHANGED <<stored, disk, size, usage, audit, faults, past>>
  BY DEF PutCheck, At
<1>2. Active(r)
  BY <1>1 DEF Active, Ended
<1>3. CASE ~authorize(r)
  BY <1>1, <1>2, <1>3, GoneSolo DEF PutCheck, Landed
<1>4. CASE authorize(r) /\ ~CheckPushAllowed(1)
  <2>1. Due(run[r], stored) # {}
    BY <1>1 DEF Due
  <2>2. ~Room(run[r], stored, Owed)
    BY <1>4, <2>1, RoomForOne
  <2> QED
    BY <1>1, <1>2, <1>4, <2>2, RefusedSolo DEF PutCheck, Landed
<1>5. CASE authorize(r) /\ CheckPushAllowed(1)
  <2> DEFINE record == [run[r] EXCEPT !.pc = "begin", !.cur = o]
  <2>1. Move(r, record)
    BY <1>5 DEF PutCheck
  <2>2. /\ record.pc = "begin" /\ record.ask = run[r].ask /\ record.todo = run[r].todo
        /\ record.fits = run[r].fits /\ record.actor = run[r].actor
        /\ record.errors = run[r].errors /\ record.split = run[r].split
        /\ record.left = run[r].left
    BY Known DEF RunRecord
  <2> HIDE DEF record
  <2>3. Due(record, stored') \subseteq Due(run[r], stored)
    BY <1>1, <2>2 DEF Due
  <2>4. ~record.errors \/ ~Room(run[r], stored, Owed)
    BY <2>2 DEF Room
  <2> QED
    BY <1>1, <1>2, <1>5, <2>1, <2>2, <2>3, <2>4, QuietSolo DEF Ended, Landed
<1> QED
  BY <1>3, <1>4, <1>5

LEMMA ChargeReadSolo ==
  ASSUME IInv, Measuring, Solo, NEW r \in Run, ChargeRead(r)
  PROVE  Solo'
<1> DEFINE record == [run[r] EXCEPT !.used = usage, !.pc = "charge"]
<1>1. run[r].pc = "read" /\ Move(r, record) /\ UNCHANGED <<stored, disk, size, usage, audit, faults, past>>
  BY DEF ChargeRead, At
<1>2. /\ record.pc = "charge" /\ record.used = usage
      /\ record.ask = run[r].ask /\ record.todo = run[r].todo
      /\ record.fits = run[r].fits /\ record.actor = run[r].actor
      /\ record.errors = run[r].errors /\ record.split = run[r].split
      /\ record.left = run[r].left
  BY Known DEF RunRecord
<1> HIDE DEF record
<1>3. Due(record, stored') \subseteq Due(run[r], stored)
  BY <1>1, <1>2 DEF Due
<1>4. ~record.errors \/ ~Room(run[r], stored, Owed)
  BY <1>2 DEF Room
<1>5. Active(r)
  BY <1>1 DEF Active, Ended
<1> QED
  BY <1>1, <1>2, <1>3, <1>4, <1>5, QuietSolo DEF Ended, Checked, Landed, InHand

LEMMA AccessEndsSolo ==
  ASSUME IInv, Measuring, Solo, NEW r \in Run, AccessEnds(r)
  PROVE  Solo'
<1> DEFINE record == [run[r] EXCEPT !.access = "none"]
<1>1. run[r].pc \in {"ask", "put", "commit"} /\ Move(r, record)
      /\ UNCHANGED <<stored, disk, size, usage, audit, faults, past>>
  BY DEF AccessEnds
<1>2. /\ record.pc = run[r].pc /\ record.ask = run[r].ask /\ record.todo = run[r].todo
      /\ record.fits = run[r].fits /\ record.actor = run[r].actor
      /\ record.errors = run[r].errors /\ record.split = run[r].split
      /\ record.left = run[r].left
  BY Known DEF RunRecord
<1> HIDE DEF record
<1>3. Due(record, stored') \subseteq Due(run[r], stored)
  BY <1>1, <1>2 DEF Due
<1>4. ~record.errors \/ ~Room(run[r], stored, Owed)
  BY <1>2 DEF Room
<1>5. Active(r)
  BY <1>1 DEF Active, Ended
<1> QED
  BY <1>1, <1>2, <1>3, <1>4, <1>5, QuietSolo DEF Ended, Checked, Landed, InHand

LEMMA CommitCheckSolo ==
  ASSUME IInv, Measuring, Solo, NEW r \in Run, CommitCheck(r)
  PROVE  Solo'
<1>1. /\ run[r].pc = "commit"
      /\ UNCHANGED <<stored, disk, size, usage, audit, faults, past>>
  BY DEF CommitCheck, At
<1>2. Active(r) /\ run[r].pc \notin Landed
  BY <1>1 DEF Active, Ended, Landed
<1>3. run[r].left # {}
  BY <1>1, Known DEF Accounted
<1>4. CASE ~resolve_principal(r)
  BY <1>1, <1>2, <1>4, GoneSolo DEF CommitCheck
<1>5. CASE resolve_principal(r) /\ ~CheckPushAllowed(1)
  BY <1>1, <1>2, <1>3, <1>5, RefusedSolo, RoomForOne DEF CommitCheck
<1>6. CASE resolve_principal(r) /\ CheckPushAllowed(1)
  <2> DEFINE record == [run[r] EXCEPT !.pc = "land", !.row = size]
  <2>1. Move(r, record)
    BY <1>6 DEF CommitCheck
  <2>2. /\ record.pc = "land" /\ record.row = size
        /\ record.ask = run[r].ask /\ record.todo = run[r].todo
        /\ record.fits = run[r].fits /\ record.actor = run[r].actor
        /\ record.errors = run[r].errors /\ record.split = run[r].split
        /\ record.left = run[r].left
    BY Known DEF RunRecord
  <2> HIDE DEF record
  <2>3. Due(record, stored') \subseteq Due(run[r], stored)
    BY <1>1, <2>2 DEF Due
  <2>4. ~record.errors \/ ~Room(run[r], stored, Owed)
    BY <2>2 DEF Room
  <2> QED
    BY <1>1, <1>2, <1>6, <2>1, <2>2, <2>3, <2>4, QuietSolo DEF Ended, Landed
<1> QED
  BY <1>4, <1>5, <1>6

LEMMA CrashSolo ==
  ASSUME IInv, Measuring, Solo, Crash
  PROVE  Solo'
<1>1. \A q \in Run : run'[q] = IF Active(q) THEN Over(q, "gone") ELSE run[q]
  BY DEF Crash
<1>2. \A q \in Run : Over(q, "gone").pc = "gone"
  BY DEF Over, Fresh
<1>3. \A q \in Run : ~Active(q)' /\ (run'[q].pc = "refused" => run'[q] = run[q])
  BY <1>1, <1>2 DEF Active, Ended
<1>4. faults' = faults + 1 /\ UNCHANGED <<disk, size, usage, audit, past>>
  BY DEF Crash
<1>5. ASSUME ~past.overlap
      PROVE  Settled' /\ disk' - size' <= faults'
  <2>1. Settled'
    BY <1>4, <1>5, Totals DEF Solo, Settled, Owed
  <2>2. disk - size <= faults + 1
    <3>1. CASE \E r \in Run : Active(r)
      BY <1>5, <3>1, Totals DEF Solo, RunAlone, Alone
    <3>2. CASE \A r \in Run : ~Active(r)
      BY <1>5, <3>2, Totals DEF Solo
    <3> QED
      BY <3>1, <3>2
  <2> QED
    BY <1>4, <2>1, <2>2, Totals
<1> QED
  BY <1>3, <1>4, <1>5 DEF Solo

LEMMA SoloStep ==
  ASSUME IInv, Measuring, Solo, [Next]_vars
  PROVE  Solo'
<1> USE DEF At, Active, Ended, Landed
<1>1. ASSUME NEW r \in Run, Start(r)
      PROVE  Solo'
  BY <1>1, StartSolo
<1>2. ASSUME NEW r \in Run, BatchAuthorize(r)
      PROVE  Solo'
  BY <1>2, GoneSolo, GotoSolo DEF BatchAuthorize, Checked, InHand
<1>3. ASSUME NEW r \in Run, NEW o \in Obj, BatchHas(r, o) \/ PutCheck(r, o)
      PROVE  Solo'
  BY <1>3, BatchSolo, PutCheckSolo
<1>4. ASSUME NEW r \in Run, BatchRoom(r)
      PROVE  Solo'
  BY <1>4, BatchSolo
<1>5. ASSUME NEW r \in Run, BatchAnswer(r)
      PROVE  Solo'
  <2>1. CASE run[r].errors
    BY <1>5, <2>1, RefusedSolo DEF BatchAnswer, Room
  <2>2. CASE ~run[r].errors
    BY <1>5, <2>2, GotoSolo DEF BatchAnswer, AfterPut, Checked, InHand
  <2> QED
    BY <2>1, <2>2
<1>6. ASSUME NEW r \in Run, PutBegin(r)
      PROVE  Solo'
  BY <1>6, GoneSolo, GotoSolo DEF PutBegin, Checked, InHand
<1>7. ASSUME NEW r \in Run, PutFails(r) \/ CommitRejected(r) \/ ClientGone(r) \/ DatabaseFails(r)
      PROVE  Solo'
  BY <1>7, GoneSolo, FailsSolo DEF PutFails, CommitRejected, ClientGone
<1>8. ASSUME NEW r \in Run, PutStore(r)
      PROVE  Solo'
  BY <1>8, GotoSolo DEF PutStore, Checked, InHand
<1>9. ASSUME NEW r \in Run, ChargeRead(r) \/ Charge(r)
      PROVE  Solo'
  BY <1>9, ChargeReadSolo, ChargeSolo
<1>10. ASSUME NEW r \in Run, CommitCheck(r) \/ CommitWalk(r)
       PROVE  Solo'
  BY <1>10, CommitCheckSolo, CommitWalkSolo
<1>11. ASSUME NEW r \in Run, CommitLand(r) \/ CommitBook(r)
       PROVE  Solo'
  BY <1>11, CommitLandSolo, CommitBookSolo
<1>12. ASSUME NEW r \in Run, AccessEnds(r)
       PROVE  Solo'
  BY <1>12, AccessEndsSolo
<1>13. CASE Crash
  BY <1>13, CrashSolo
<1>14. CASE UNCHANGED vars
  <2>1. UNCHANGED <<stored, disk, size, usage, audit, run, faults, past>>
    BY <1>14 DEF vars
  <2>2. Settled' <=> Settled
    BY <2>1 DEF Settled, Owed
  <2>3. \A r \in Run : RunAlone(r)' <=> RunAlone(r)
    BY <2>1 DEF RunAlone
  <2> QED
    BY <2>1, <2>2, <2>3 DEF Solo
<1> QED
  BY <1>1, <1>2, <1>3, <1>4, <1>5, <1>6, <1>7, <1>8, <1>9, <1>10, <1>11, <1>12, <1>13, <1>14
  DEF Next, batch_upload, handle_batch, handle_put, put_stream, upload
-----------------------------------------------------------------------------
LEMMA LedgerInitial == Init => Measuring /\ Bounded /\ Audited /\ Kept /\ Solo
<1> SUFFICES ASSUME Init PROVE Measuring /\ Bounded /\ Audited /\ Kept /\ Solo
  OBVIOUS
<1>1. \A r \in Run : run[r].pc = "idle"
  BY DEF Init, Fresh
<1>2. ActiveRuns = {} /\ CheckedRuns = {} /\ UnpaidRuns = {}
  BY <1>1 DEF ActiveRuns, CheckedRuns, UnpaidRuns, Active, Checked, InHand, Unpaid, Charging, Landed
<1>3. Cardinality(ActiveRuns) = 0 /\ Cardinality(CheckedRuns) = 0 /\ Cardinality(UnpaidRuns) = 0
  BY <1>2, FS_EmptySet
<1>4. /\ usage = 0 /\ size = 0 /\ disk = 0 /\ faults = 0 /\ ~past.lost
      /\ audit.repo = 0 /\ audit.lfs = 0 /\ stored = {} /\ Cardinality(stored) = 0
  BY FS_EmptySet DEF Init
<1>5. Measuring
  BY <1>1, <1>4 DEF Measuring, Measured
<1>6. Bounded
  BY <1>3, <1>4, TransferAssumption DEF Bounded, Charged
<1>7. Audited
  BY <1>4 DEF Audited
<1>8. Kept
  BY <1>3, <1>4, TransferAssumption DEF Kept, Charged
<1>9. Solo
  BY <1>1, <1>4, TransferAssumption DEF Solo, Settled, Owed, Active
<1> QED
  BY <1>5, <1>6, <1>7, <1>8, <1>9

Ledger == IInv /\ Measuring /\ Bounded /\ Audited /\ Kept /\ Solo

LEMMA LedgerInvariant == Spec => []Ledger
<1>1. Init => Ledger
  BY Initial, LedgerInitial DEF Ledger
<1>2. Ledger /\ [Next]_vars => Ledger'
  BY Inductive, BoundedStep, AuditedStep, KeptStep, SoloStep DEF Ledger
<1> QED
  BY <1>1, <1>2, PTL DEF Spec

(***************************************************************************)
(* The variables keep their types: usage stays a natural number, whatever  *)
(* differences the commits book, and a run never holds an object it did    *)
(* not ask for.                                                            *)
(***************************************************************************)
THEOREM TypeCorrect == Spec => []TypeOK
<1>1. Ledger => TypeOK
  BY DEF Ledger, IInv
<1> QED
  BY <1>1, LedgerInvariant, PTL

(***************************************************************************)
(* Every pointer the repository has resolves to a stored object, for every *)
(* number of runs, of objects and of faults: see PointersResolve.          *)
(***************************************************************************)
THEOREM PointersAlwaysResolve == Spec => []PointersResolve
<1>1. Ledger => PointersResolve
  BY DEF Ledger, IInv
<1> QED
  BY <1>1, LedgerInvariant, PTL

(***************************************************************************)
(* The quota is checked before a body is received and charged after it,    *)
(* and a commit is charged what the directory has grown by since its       *)
(* request began; still what the owner stores exceeds the quota by no more *)
(* than what was under way and what faults have swallowed, for any quota   *)
(* and any number of runs, as long as no charge was lost.                  *)
(***************************************************************************)
THEOREM OvershootIsAlwaysBounded == Spec => []OvershootIsBounded
<1>1. Ledger => OvershootIsBounded
  <2> SUFFICES ASSUME Ledger, ~past.lost
               PROVE  disk + Cardinality(stored) <= Quota + MaxActive - 1 + MaxActive * faults
    BY DEF OvershootIsBounded
  <2>1. IInv /\ Kept /\ Charged + Cardinality(CheckedRuns) <= Quota + MaxActive - 1
    BY DEF Ledger, Bounded
  <2>2. /\ Cardinality(UnpaidRuns) \in Nat /\ Cardinality(CheckedRuns) \in Nat
        /\ Cardinality(UnpaidRuns) <= Cardinality(CheckedRuns)
    BY UnpaidFinite, RunsFinite
  <2> HIDE DEF Charged
  <2>3. disk + Cardinality(stored) <= Charged + Cardinality(UnpaidRuns) + MaxActive * faults
    BY <2>1 DEF Kept
  <2> QED
    BY <2>1, <2>2, <2>3, Weights, TransferAssumption
<1> QED
  BY <1>1, LedgerInvariant, PTL

(***************************************************************************)
(* The ledger is never less than what the audit log tells as long as no    *)
(* charge was lost, whatever stale row sizes overlapping commits book      *)
(* against, and uploads that follow each other lose none, are charged each *)
(* unit once and keep the quota, whatever failures, crashes and loss of    *)
(* access cut them short.                                                  *)
(***************************************************************************)
THEOREM LedgerAlwaysExact == Spec => []LedgerExact
<1>1. Ledger => LedgerExact
  <2> SUFFICES ASSUME Ledger PROVE LedgerExact
    OBVIOUS
  <2>1. ~past.lost => usage >= Charged
    BY DEF Ledger, Bounded
  <2>2. ~past.overlap => Settled /\ usage <= Quota + faults
    BY Totals DEF Ledger, Solo, Settled
  <2> QED
    BY <2>1, <2>2 DEF LedgerExact, Settled
<1> QED
  BY <1>1, LedgerInvariant, PTL

(***************************************************************************)
(* Without a fault every stored object has its audit row once the uploads  *)
(* have ended, also when the clients went away before the answer.          *)
(***************************************************************************)
THEOREM StoredAreAlwaysAudited == Spec => []StoredAreAudited
<1>1. Ledger => StoredAreAudited
  BY DEF Ledger, Audited, StoredAreAudited, Charging, Active, Ended
<1> QED
  BY <1>1, LedgerInvariant, PTL

(***************************************************************************)
(* An upload of the owner that finds room, when it starts, for all of it   *)
(* and for what earlier commits were not charged for, and nobody else      *)
(* uploading, is never refused for want of room.                           *)
(***************************************************************************)
THEOREM RoomAlwaysMeansSuccess == Spec => []RoomMeansSuccess
<1>1. Ledger => RoomMeansSuccess
  BY DEF Ledger, Solo, RoomMeansSuccess, At
<1> QED
  BY <1>1, LedgerInvariant, PTL
=============================================================================
