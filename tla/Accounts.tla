------------------------------- MODULE Accounts -------------------------------
(***************************************************************************)
(* Accounts, the signup-approval state machine (auth/approval.py) and the  *)
(* settings an admin gives an account (quota and GPUs), driven by          *)
(* concurrent signups and by admins on the API, on the admin pages and on  *)
(* the command line, each with a database session of its own.              *)
(*                                                                         *)
(* A transition first reads the account, checks its status and changes     *)
(* attributes of the object it has loaded; what differs from the loaded    *)
(* values becomes an UPDATE of those columns, and the first UPDATE or      *)
(* INSERT of a session waits for the write lock of SQLite, which is kept   *)
(* until commit.  Nothing compares the row again before it is written.     *)
(***************************************************************************)
EXTENDS Integers, Sequences, FiniteSets, SequencesExt

CONSTANTS Req,              \* requests: sessions of the server and the CLI
          Admin,            \* usernames whose role is admin, all approved
          User,             \* other usernames
          Email,
          Quota,            \* sizes an admin may type, in range or not
          MaxQuota,         \* MAX_QUOTA_BYTES
          Gpus,             \* lists of GPU ids
          NoGpus,           \* the empty one
          None,
          RequireApproval   \* values the setting has over restarts

VARIABLES
  users,      \* committed rows: [status, email, at, by], or None
  approvals,  \* committed decision of the approval row, or None
  audit,      \* committed audit entries of each user, oldest first
  settings,   \* committed rows: quota and gpu of each user, or None each
  txn,        \* open write transaction, or None
  req,        \* per request: what it is for, where it is, what it has read
  noted,      \* history: per user, what its last audited settings were
  overlapped  \* history: a request has begun while another was in flight

tables == <<users, approvals, audit, settings, noted>>
vars == <<users, approvals, audit, settings, noted, txn, req, overlapped>>

Transition == {"approve", "deny", "ban", "unban"}
Status == {"pending", "approved", "denied", "banned"}
After == [approve |-> "approved", deny |-> "denied",
          ban |-> "banned", unban |-> "approved"]

(***************************************************************************)
(* approved_at is named by the request whose clock it comes from.          *)
(***************************************************************************)
Row == [status : Status, email : Email, at : Req \cup {None}, by : Admin \cup {None}]
Entry == [action : Transition \cup {"signup"}, actor : Admin \cup {None}]
Setting == {"quota", "gpu"}
Value == Quota \cup Gpus \cup {None}
Values == [User -> [Setting -> Value]]

(***************************************************************************)
(* What a transaction has made of the tables, and the request it is of.    *)
(***************************************************************************)
Txn == [by : Req, users : [User -> Row \cup {None}],
        approvals : [User -> Status \cup {None}], audit : [User -> Seq(Entry)],
        settings : Values, noted : Values]

ASSUME AccountsAssumption ==
  /\ RequireApproval \subseteq BOOLEAN
  /\ Admin # {} /\ Admin \cap User = {}
  /\ Quota \subseteq Int /\ NoGpus \in Gpus
  /\ None \notin Row \cup Txn

Request ==
  [pc : {"idle", "insert", "write", "commit", "done", "failed"},
   op : Transition \cup Setting \cup {None}, user : User \cup {None},
   admin : Admin \cup {None}, email : Email \cup {None},
   seen : Row \cup {None},   \* the account as a transition has loaded it
   was : Value, value : Value]  \* the setting as loaded, and as asked for

TypeOK ==
  /\ users \in [User -> Row \cup {None}]
  /\ approvals \in [User -> Status \cup {None}]
  /\ audit \in [User -> Seq(Entry)]
  /\ settings \in Values /\ noted \in Values
  /\ txn \in Txn \cup {None}
  /\ req \in [Req -> Request]
  /\ overlapped \in BOOLEAN

Away == [pc |-> "idle", op |-> None, user |-> None, admin |-> None,
         email |-> None, seen |-> None, was |-> None, value |-> None]

(***************************************************************************)
(* Signups may be waiting already; the approval row of one may be missing  *)
(* (_get_or_create_approval expects "manual fix, migration bug, etc.").    *)
(***************************************************************************)
Init ==
  /\ \E waiting \in SUBSET User :
       \E mail \in [waiting -> Email], missing \in SUBSET waiting :
         /\ \A u, v \in waiting : u # v => mail[u] # mail[v]
         /\ users = [u \in User |->
              IF u \in waiting
                THEN [status |-> "pending", email |-> mail[u],
                      at |-> None, by |-> None]
                ELSE None]
         /\ approvals = [u \in User |->
              IF u \in waiting \ missing THEN "pending" ELSE None]
         /\ audit = [u \in User |->
              IF u \in waiting THEN <<[action |-> "signup", actor |-> None]>>
                               ELSE <<>>]
  /\ settings = [u \in User |-> [kind \in Setting |-> None]]
  /\ noted = settings
  /\ txn = None
  /\ req = [r \in Req |-> Away]
  /\ overlapped = FALSE

\* What the session knew is forgotten; an open transaction is in txn.
End(r, how) == req' = [req EXCEPT ![r] = [Away EXCEPT !.pc = how]]
InFlight == {r \in Req : req[r].pc \in {"insert", "write", "commit"}}
EmailTaken(e) == \E u \in User : users[u] # None /\ users[u].email = e

Open(r) == [by |-> r, users |-> users, approvals |-> approvals, audit |-> audit,
            settings |-> settings, noted |-> noted]
Begin(r, u, row, decision, entry) ==
  /\ txn = None
  /\ txn' = [Open(r) EXCEPT !.users[u] = row, !.approvals[u] = decision,
                             !.audit[u] = Append(@, entry)]
-----------------------------------------------------------------------------
(***************************************************************************)
(* register_user: the uniqueness SELECTs (ConflictError) ...               *)
(***************************************************************************)
SignupCheck(r, u, e) ==
  /\ req[r].pc = "idle"
  /\ req' = [req EXCEPT ![r] =
       IF users[u] # None \/ EmailTaken(e)
         THEN [Away EXCEPT !.pc = "failed"]
         ELSE [Away EXCEPT !.pc = "insert", !.user = u, !.email = e]]
  /\ overlapped' = (overlapped \/ InFlight # {})
  /\ UNCHANGED <<tables, txn>>

(***************************************************************************)
(* ... and the flush, where the unique constraints have the last word.     *)
(***************************************************************************)
SignupInsert(r) ==
  /\ req[r].pc = "insert" /\ txn = None
  /\ IF users[req[r].user] # None \/ EmailTaken(req[r].email)
       THEN End(r, "failed") /\ UNCHANGED txn
       ELSE \E approval \in RequireApproval :
              /\ Begin(r, req[r].user,
                   [status |-> IF approval THEN "pending" ELSE "approved",
                    email |-> req[r].email,
                    at |-> IF approval THEN None ELSE r, by |-> None],
                   IF approval THEN "pending" ELSE None,
                   [action |-> "signup", actor |-> None])
              /\ End(r, "commit")
  /\ UNCHANGED <<tables, overlapped>>
-----------------------------------------------------------------------------
AllowedOnce(op, row) ==   \* mutant: a ban does not look at the status
  row # None /\ CASE op \in {"approve", "deny"} -> row.status = "pending"
                  [] op = "ban" -> TRUE
                  [] op = "unban" -> row.status = "banned"

Allowed(op, row) ==
  row # None /\ CASE op \in {"approve", "deny"} -> row.status = "pending"
                  [] op = "ban" -> row.status # "banned"
                  [] op = "unban" -> row.status = "banned"

(***************************************************************************)
(* What an admin can ask for: with the routes of the API, the form of the  *)
(* admin pages, and the commands, which call the API of a server or open   *)
(* the database as its first admin, without the range check of a quota.    *)
(***************************************************************************)
Asked(admins, op, values) == [by : admins, op : op, value : values]
InRange == {q \in Quota : 0 < q /\ q <= MaxQuota}

admin_api ==
  Asked(Admin, Transition, {None}) \cup Asked(Admin, {"quota"}, InRange)
    \cup Asked(Admin, {"gpu"}, Gpus \cup {None})

apply_gpu_ids(ids) == IF ids = NoGpus THEN None ELSE ids
admin_user_action_form ==
  Asked(Admin, Transition, {None}) \cup Asked(Admin, {"quota"}, InRange)
    \cup Asked(Admin, {"gpu"}, {apply_gpu_ids(ids) : ids \in Gpus})

FirstAdmin == CHOOSE a \in Admin : TRUE
local_db ==
  Asked({FirstAdmin}, Transition, {None}) \cup Asked({FirstAdmin}, {"quota"}, Quota)
    \cup Asked({FirstAdmin}, {"gpu"}, Gpus \cup {None})

commands == admin_api \cup local_db

(***************************************************************************)
(* approve_user, deny_user, ban_user, unban_user: load and check.  Admins  *)
(* are approved and cannot be banned, so every transition refuses them.    *)
(***************************************************************************)
Decide(r, ask, u) ==
  /\ req[r].pc = "idle" /\ ask.op \in Transition
  /\ req' = [req EXCEPT ![r] =
       IF u \in User /\ Allowed(ask.op, users[u])
         THEN [Away EXCEPT !.pc = "write", !.op = ask.op, !.user = u,
                           !.admin = ask.by, !.seen = users[u]]
         ELSE [Away EXCEPT !.pc = "failed"]]
  /\ overlapped' = (overlapped \/ InFlight # {})
  /\ UNCHANGED <<tables, txn>>

(***************************************************************************)
(* A column is written only if the attribute differs from what was loaded. *)
(***************************************************************************)
Column(old, new, current) == IF new = old THEN current ELSE new

UpdatedWithoutStatus(r, row) ==   \* mutant: the flush leaves the status out
  LET granted == req[r].op \in {"approve", "unban"}
      seen == req[r].seen
  IN  [row EXCEPT
         !.at = Column(seen.at, IF granted THEN r ELSE None, @),
         !.by = Column(seen.by, IF granted THEN req[r].admin ELSE None, @)]

Updated(r, row) ==
  LET granted == req[r].op \in {"approve", "unban"}
      seen == req[r].seen
  IN  [row EXCEPT
         !.status = Column(seen.status, After[req[r].op], @),
         !.at = Column(seen.at, IF granted THEN r ELSE None, @),
         !.by = Column(seen.by, IF granted THEN req[r].admin ELSE None, @)]

DecidedUnlessMissing(r, decision) ==   \* mutant: a missing row stays missing
  IF req[r].op \in {"approve", "deny"} /\ decision # None
    THEN After[req[r].op] ELSE decision

(***************************************************************************)
(* Approve and deny mirror the decision on the approval row, made if       *)
(* missing; the other two leave it.                                        *)
(***************************************************************************)
Decided(r, decision) ==
  IF req[r].op \in {"approve", "deny"} THEN After[req[r].op] ELSE decision

Write(r) ==
  /\ req[r].pc = "write" /\ req[r].op \in Transition
  /\ LET u == req[r].user
     IN  Begin(r, u, Updated(r, users[u]), Decided(r, approvals[u]),
               [action |-> req[r].op, actor |-> req[r].admin])
  /\ End(r, "commit")
  /\ UNCHANGED <<tables, overlapped>>
-----------------------------------------------------------------------------
(***************************************************************************)
(* set_user_quota, set_user_gpu_ids, clear_user_gpu_ids: load the user and *)
(* the row of the setting.  A list that is not there is not cleared.       *)
(***************************************************************************)
SetLoad(r, ask, u) ==
  /\ req[r].pc = "idle" /\ ask.op \in Setting
  /\ LET row == settings[u][ask.op]
     IN  req' = [req EXCEPT ![r] =
           IF users[u] = None THEN [Away EXCEPT !.pc = "failed"]
           ELSE IF ask.value = None /\ row = None THEN [Away EXCEPT !.pc = "done"]
           ELSE [Away EXCEPT !.pc = "write", !.op = ask.op, !.user = u,
                             !.value = ask.value, !.was = row]]
  /\ overlapped' = (overlapped \/ InFlight # {})
  /\ UNCHANGED <<tables, txn>>

(***************************************************************************)
(* Another session may have inserted the row that was missing, or deleted  *)
(* the one to be updated.                                                  *)
(***************************************************************************)
Collides(r, row) ==
  /\ req[r].value # None
  /\ \/ req[r].was = None /\ row # None
     \/ req[r].was \notin {None, req[r].value} /\ row = None

SavedOnce(r, row) ==   \* mutant: a row that is there keeps its value
  IF req[r].was = None \/ req[r].value = None THEN req[r].value ELSE row

Saved(r, row) ==
  IF req[r].was = None \/ req[r].value = None
    THEN req[r].value ELSE Column(req[r].was, req[r].value, row)

SetWrite(r) ==
  /\ req[r].pc = "write" /\ req[r].op \in Setting /\ txn = None
  /\ LET u == req[r].user
         kind == req[r].op
         row == settings[u][kind]
     IN  IF Collides(r, row)
           THEN End(r, "failed") /\ UNCHANGED txn
           ELSE /\ txn' = [Open(r) EXCEPT !.settings[u][kind] = Saved(r, row),
                                          !.noted[u][kind] = req[r].value]
                /\ End(r, "commit")
  /\ UNCHANGED <<tables, overlapped>>
-----------------------------------------------------------------------------
Busy(r) ==         \* "database is locked" after the busy timeout
  /\ req[r].pc \in {"insert", "write"} /\ txn # None
  /\ End(r, "failed")
  /\ UNCHANGED <<tables, txn, overlapped>>

Commit(r) ==
  /\ req[r].pc = "commit"
  /\ users' = txn.users /\ approvals' = txn.approvals /\ audit' = txn.audit
  /\ settings' = txn.settings /\ noted' = txn.noted
  /\ txn' = None
  /\ End(r, "done")
  /\ UNCHANGED overlapped

Rollback(r) ==     \* the commit fails, or the process dies
  /\ req[r].pc = "commit"
  /\ txn' = None
  /\ End(r, "failed")
  /\ UNCHANGED <<tables, overlapped>>

Arrive(r) ==
  \/ \E u \in User, e \in Email : SignupCheck(r, u, e)
  \/ \E ask \in commands \cup admin_user_action_form :
       \/ \E u \in User \cup Admin : Decide(r, ask, u)
       \/ \E u \in User : SetLoad(r, ask, u)

Finish(r) ==
  SignupInsert(r) \/ Write(r) \/ SetWrite(r) \/ Busy(r) \/ Commit(r) \/ Rollback(r)

Next == \E r \in Req : Arrive(r) \/ Finish(r)

Spec == Init /\ [][Next]_vars
-----------------------------------------------------------------------------
(***************************************************************************)
(* The audit log explains the account: the status is what the last entry   *)
(* of a transition leads to, although each transition wrote only what it   *)
(* believed had changed; quota and GPUs are what the last entry for them   *)
(* says if no two requests have overlapped (one that sets the value it has *)
(* read writes nothing over what another has set since).                   *)
(***************************************************************************)
StatusExplained(u) ==
  /\ audit[u] # <<>>
  /\ IF Last(audit[u]).action = "signup"
       THEN users[u].status \in {"pending", "approved"}
       ELSE users[u].status = After[Last(audit[u]).action]

AuditExplainsAccount ==
  \A u \in User : /\ users[u] # None => StatusExplained(u)
                  /\ ~overlapped => settings[u] = noted[u]

(***************************************************************************)
(* The approval row records the last approve or deny of the audit log,     *)
(* through bans and overlapping decisions.                                 *)
(***************************************************************************)
Decision == {"approve", "deny"}
LastDecision(log, i) ==
  /\ log[i].action \in Decision
  /\ \A j \in i + 1 .. Len(log) : log[j].action \notin Decision

DecisionMirrorsAudit ==
  \A u \in User : \A i \in 1 .. Len(audit[u]) :
    LastDecision(audit[u], i) => approvals[u] = After[audit[u][i].action]

(***************************************************************************)
(* As long as requests do not overlap, the transitions of an account follow*)
(* the rules that approve_user, deny_user, ban_user and unban_user raise   *)
(* ConflictError for.                                                      *)
(***************************************************************************)
HistoryIsLegal ==
  ~overlapped =>
    \A u \in User : \A i \in 2 .. Len(audit[u]) :
      LET before == audit[u][i - 1].action
      IN  CASE audit[u][i].action \in {"approve", "deny"} -> before = "signup"
            [] audit[u][i].action = "ban" -> before # "ban"
            [] audit[u][i].action = "unban" -> before = "ban"
            [] OTHER -> FALSE
=============================================================================
