------------------------------- MODULE Members -------------------------------
(***************************************************************************)
(* What members leave on a site: likes, follows, comments, posts, their    *)
(* reactions and comments, and access tokens.  A request finds out who is  *)
(* asking, loads what it is about, looks whether its row is there, and     *)
(* writes; others run between these steps.                                 *)
(*                                                                         *)
(* SQLite does not enforce the foreign keys of this schema and gives the   *)
(* row ids of deleted rows out again.  A read sees what is committed.  The *)
(* writes of a request are made in one flush, after which it only commits: *)
(* they hold the write lock throughout and are one step here.              *)
(***************************************************************************)
EXTENDS Integers, FiniteSets, FiniteSetsExt

CONSTANTS User, Admins,  \* accounts; those with role "admin"
          Req,           \* request slots, each used again and again
          Glyph,         \* REACTION_PALETTE
          MaxSerial,     \* bound on rows ever inserted
          MaxSessions,   \* bound on session cookies at a time
          MaxTokens,     \* bound on access tokens at a time
          None

ASSUME MembersAssumption ==
  /\ Admins \subseteq User /\ MaxSerial \in Nat
  /\ MaxSessions \in Nat /\ MaxTokens \in Nat
  /\ None \notin User \cup Req \cup Glyph

VARIABLES
  rows,      \* the tables
  active,    \* accounts that may log in
  cookie,    \* accounts whose browser has a valid session cookie
  req,       \* what each request does and knows
  serial     \* history: rows inserted so far

vars == <<rows, active, cookie, req, serial>>

Table == {"repo", "like", "follow", "comment", "post", "reaction",
          "remark", "token"}      \* "remark" is post_comments

(***************************************************************************)
(* A row: its id, its author, the row it refers to by id ("on"), and for   *)
(* history its serial number, that of the row referred to ("onN"), and     *)
(* whether that row had been deleted when this one was written ("late").   *)
(***************************************************************************)
Row == [table : Table, id : 1 .. MaxSerial, n : 1 .. MaxSerial, by : User \cup {None},
        on : 0 .. MaxSerial \cup User, onN : 0 .. MaxSerial,
        tag : Glyph \cup {None} \cup 0 .. MaxSerial, late : BOOLEAN]
Expired == 0         \* the tag of an access token past its time

Op == {"like", "unlike", "follow", "unfollow", "comment", "post", "react",
       "remark", "delete post", "delete remark", "mint", "revoke"}

Of(t) == {x \in rows : x.table = t}
NextId(t) == 1 + Max({0} \cup {x.id : x \in Of(t)})
Exists(t, n) == \E x \in Of(t) : x.n = n

Fresh == [pc |-> "idle", op |-> "post", by |-> None, on |-> 0, onN |-> 0,
          tag |-> None, found |-> 0, foundN |-> 0]

TypeOK ==
  /\ rows \subseteq Row /\ active \subseteq User /\ cookie \subseteq User
  /\ req \in [Req -> [pc : {"idle", "loaded", "write"}, op : Op,
                      by : User \cup {None}, on : 0 .. MaxSerial \cup User,
                      onN : 0 .. MaxSerial,
                      tag : Glyph \cup {None} \cup 1 .. MaxSerial,
                      found : 0 .. MaxSerial, foundN : 0 .. MaxSerial]]
  /\ serial \in 0 .. MaxSerial
  /\ \A x, y \in rows : x.table = y.table /\ x.id = y.id => x = y

Init ==
  /\ rows = {} /\ active = User /\ cookie = {}
  /\ req = [r \in Req |-> Fresh] /\ serial = 0
-----------------------------------------------------------------------------
(***************************************************************************)
(* The tables                                                              *)
(***************************************************************************)
Key(x) == <<x.table, x.by, x.on, x.tag>>
Unconstrained(x) == TRUE          \* mutant: no UniqueConstraint
Unique(x) == x.table \in {"like", "follow", "reaction"}
                => \A y \in rows : Key(y) # Key(x)

\* The table whose row a row of table t refers to.
Target == [like |-> "repo", comment |-> "repo", post |-> "repo",
           reaction |-> "post", remark |-> "post"]

New(r, t) ==
  [table |-> t, id |-> NextId(t), n |-> serial + 1, by |-> req[r].by,
   on |-> req[r].on, onN |-> req[r].onN, tag |-> req[r].tag,
   late |-> req[r].onN # 0 /\ ~Exists(Target[t], req[r].onN)]

Done(r) == req' = [req EXCEPT ![r] = Fresh]

Insert(r, t) ==      \* or roll back on an IntegrityError
  /\ serial < MaxSerial
  /\ IF Unique(New(r, t))
       THEN rows' = rows \cup {New(r, t)} /\ serial' = serial + 1
       ELSE UNCHANGED <<rows, serial>>
  /\ Done(r) /\ UNCHANGED <<active, cookie>>

Delete(r, t) ==      \* DELETE ... WHERE id = ...
  /\ rows' = {x \in rows : ~(x.table = t /\ x.id = req[r].found)}
  /\ Done(r) /\ UNCHANGED <<active, cookie, serial>>
-----------------------------------------------------------------------------
(***************************************************************************)
(* get_current_user: the session cookie, or else an unexpired access       *)
(* token, of an account that may log in.                                   *)
(***************************************************************************)
resolve_session_user(u) == u \in cookie
resolve_pat_user(u) == \E x \in Of("token") : x.by = u /\ x.tag # Expired
Authenticated(u) ==
  u \in active /\ (resolve_session_user(u) \/ resolve_pat_user(u))

Load(r, op, u, on, onN, tag) ==
  /\ req[r].pc = "idle" /\ Authenticated(u)
  /\ req' = [req EXCEPT ![r] = [Fresh EXCEPT !.pc = "loaded", !.op = op,
               !.by = u, !.on = on, !.onN = onN, !.tag = tag]]
  /\ UNCHANGED <<rows, active, cookie, serial>>

(***************************************************************************)
(* The routes.  A form toggles, the API says which of the two it wants;    *)
(* either way a request of the one kind inserts or does nothing and one of *)
(* the other deletes or does nothing.  All repositories are public here.   *)
(***************************************************************************)
repo_like_form(r, u) ==
  \E x \in Of("repo"), op \in {"like", "unlike"} : Load(r, op, u, x.id, x.n, None)

repo_comments_form(r, u) ==
  \E x \in Of("repo"), parent \in {None} \cup {c.id : c \in Of("comment")} :
    Load(r, "comment", u, x.id, x.n, parent)

user_follow_form(r, u) ==
  \E v \in User \ {u}, op \in {"follow", "unfollow"} : Load(r, op, u, v, 0, None)

\* The link to a repository is optional.
posts_new_form(r, u) ==
  \/ Load(r, "post", u, 0, 0, None)
  \/ \E x \in Of("repo") : Load(r, "post", u, x.id, x.n, None)

posts_react_form(r, u) ==
  \E x \in Of("post"), glyph \in Glyph : Load(r, "react", u, x.id, x.n, glyph)

posts_comments_form(r, u) ==
  \E x \in Of("post") : Load(r, "remark", u, x.id, x.n, None)

settings_tokens_create(r, u) == Load(r, "mint", u, 0, 0, None)

\* Loads a row to delete and checks whose it is.
LoadOwn(r, u, t, op) ==
  \E x \in Of(t) :
    /\ req[r].pc = "idle" /\ Authenticated(u)
    /\ x.by = u \/ u \in Admins
    /\ req' = [req EXCEPT ![r] = [Fresh EXCEPT !.pc = "write", !.op = op,
                 !.by = u, !.found = x.id, !.foundN = x.n]]
    /\ UNCHANGED <<rows, active, cookie, serial>>

posts_delete_form(r, u) == LoadOwn(r, u, "post", "delete post")
posts_comment_delete_form(r, u) == LoadOwn(r, u, "remark", "delete remark")
settings_tokens_delete(r, u) == LoadOwn(r, u, "token", "revoke")
-----------------------------------------------------------------------------
ExistingOfAnyone(r, t) ==         \* mutant: the user is not asked for
  {x \in Of(t) : x.on = req[r].on /\ x.tag = req[r].tag}
Existing(r, t) ==    \* SELECT ... WHERE user, target and glyph
  {x \in Of(t) : x.by = req[r].by /\ x.on = req[r].on /\ x.tag = req[r].tag}

Find(r, op, t, present, absent) ==
  LET found == Existing(r, t)
      next  == IF found # {} THEN present ELSE absent
  IN  /\ req[r].pc = "loaded" /\ req[r].op = op
      /\ IF next = "idle" THEN Done(r)
         ELSE \E x \in IF found = {} THEN {[id |-> 0, n |-> 0]} ELSE found :
                req' = [req EXCEPT ![r].pc = next, ![r].found = x.id,
                                   ![r].foundN = x.n]
      /\ UNCHANGED <<rows, active, cookie, serial>>

Look(r) ==
  \/ Find(r, "like", "like", "idle", "write")
  \/ Find(r, "unlike", "like", "write", "idle")
  \/ Find(r, "follow", "follow", "idle", "write")
  \/ Find(r, "unfollow", "follow", "write", "idle")
  \/ Find(r, "react", "reaction", "write", "write")

Writes(r, op) == req[r].pc = "write" /\ req[r].op = op

like_repo(r) == Writes(r, "like") /\ Insert(r, "like")
unlike_repo(r) == Writes(r, "unlike") /\ Delete(r, "like")
follow_user(r) == Writes(r, "follow") /\ Insert(r, "follow")
unfollow_user(r) == Writes(r, "unfollow") /\ Delete(r, "follow")

toggle_reaction(r) ==
  /\ Writes(r, "react")
  /\ IF req[r].found = 0 THEN Insert(r, "reaction") ELSE Delete(r, "reaction")

add_comment(r) ==    \* a reply is to a comment on the same repository
  LET parent == req[r].tag
  IN  /\ req[r].pc = "loaded" /\ req[r].op = "comment"
      /\ IF \/ parent = None
            \/ \E c \in Of("comment") : c.id = parent /\ c.on = req[r].on
           THEN Insert(r, "comment")
           ELSE Done(r) /\ UNCHANGED <<rows, active, cookie, serial>>

create_post(r) == req[r].pc = "loaded" /\ req[r].op = "post" /\ Insert(r, "post")
add_remark(r) ==
  req[r].pc = "loaded" /\ req[r].op = "remark" /\ Insert(r, "remark")
delete_comment(r) == Writes(r, "delete remark") /\ Delete(r, "remark")

delete_post_only(r) ==            \* mutant: ON DELETE CASCADE is trusted
  Writes(r, "delete post") /\ Delete(r, "post")
delete_post(r) ==    \* with its reactions and comments
  /\ Writes(r, "delete post")
  /\ rows' = {x \in rows : ~ \/ x.table = "post" /\ x.id = req[r].found
                             \/ /\ x.table \in {"reaction", "remark"}
                                /\ x.on = req[r].found}
  /\ Done(r) /\ UNCHANGED <<active, cookie, serial>>

mint_token(r) ==
  /\ req[r].pc = "loaded" /\ req[r].op = "mint"
  /\ Cardinality(Of("token")) < MaxTokens
  /\ Insert(r, "token")
delete_token(r) == Writes(r, "revoke") /\ Delete(r, "token")
-----------------------------------------------------------------------------
(***************************************************************************)
(* What others do: sessions, the clock, admins, and the owners of          *)
(* repositories, whose likes, comments and posts delete_repo leaves.       *)
(***************************************************************************)
login(u) ==
  /\ u \in active \ cookie /\ Cardinality(cookie) < MaxSessions
  /\ cookie' = cookie \cup {u}
  /\ UNCHANGED <<rows, active, req, serial>>

logout(u) ==         \* of a browser that keeps no copy of the cookie
  /\ u \in cookie /\ cookie' = cookie \ {u}
  /\ UNCHANGED <<rows, active, req, serial>>

SessionExpires(u) == \* `loads' refuses it after seven days
  /\ u \in cookie /\ cookie' = cookie \ {u}
  /\ UNCHANGED <<rows, active, req, serial>>

TokenExpires(x) ==
  /\ rows' = (rows \ {x}) \cup {[x EXCEPT !.tag = Expired]}
  /\ UNCHANGED <<active, cookie, req, serial>>

Ban(u) ==            \* or the end of a ban; admins cannot be banned
  /\ u \notin Admins
  /\ active' = IF u \in active THEN active \ {u} ELSE active \cup {u}
  /\ UNCHANGED <<rows, cookie, req, serial>>

CreateRepo ==        \* whose it is does not matter here
  /\ serial < MaxSerial
  /\ rows' = rows \cup
       {[table |-> "repo", id |-> NextId("repo"), n |-> serial + 1, by |-> None,
         on |-> 0, onN |-> 0, tag |-> None, late |-> FALSE]}
  /\ serial' = serial + 1
  /\ UNCHANGED <<active, cookie, req>>

DeleteRepo(x) ==
  rows' = rows \ {x} /\ UNCHANGED <<active, cookie, req, serial>>
-----------------------------------------------------------------------------
Request(r) ==
  \/ \E u \in User :
       \/ repo_like_form(r, u) \/ repo_comments_form(r, u) \/ user_follow_form(r, u)
       \/ posts_new_form(r, u) \/ posts_react_form(r, u) \/ posts_comments_form(r, u)
       \/ posts_delete_form(r, u) \/ posts_comment_delete_form(r, u)
       \/ settings_tokens_create(r, u) \/ settings_tokens_delete(r, u)
  \/ Look(r)
  \/ like_repo(r) \/ unlike_repo(r) \/ follow_user(r) \/ unfollow_user(r)
  \/ toggle_reaction(r) \/ add_comment(r) \/ create_post(r) \/ add_remark(r)
  \/ delete_comment(r) \/ delete_post(r) \/ mint_token(r) \/ delete_token(r)

Next ==
  \/ \E r \in Req : Request(r)
  \/ \E u \in User : login(u) \/ logout(u) \/ SessionExpires(u) \/ Ban(u)
  \/ CreateRepo
  \/ \E x \in Of("token") : TokenExpires(x)
  \/ \E x \in Of("repo") : DeleteRepo(x)

Spec == Init /\ [][Next]_vars
-----------------------------------------------------------------------------
(***************************************************************************)
(* One like per user and repository, one follow per pair, one reaction per *)
(* user, post and glyph, also when the two clicks of a double click both   *)
(* find none.                                                              *)
(***************************************************************************)
OneEach ==
  \A x, y \in rows :
    x.table \in {"like", "follow", "reaction"} /\ Key(x) = Key(y) => x = y

(***************************************************************************)
(* delete_post takes the reactions and comments with it, as the schema     *)
(* declares and SQLite does not: none survives to appear under the next    *)
(* post, which may be given the same id, unless it was written for a post  *)
(* that was already gone.  And a reply stays with the comment it answers.  *)
(***************************************************************************)
NothingOutlivesItsPost ==
  \A x \in rows :
    /\ x.table \in {"reaction", "remark"} /\ ~x.late => Exists("post", x.onN)
    /\ x.table = "comment" /\ x.tag # None =>
         \E c \in Of("comment") : c.id = x.tag /\ c.on = x.on

(***************************************************************************)
(* A request removes what its own user has put there, what it cascades to, *)
(* or what an admin may remove; only when an overlapping request has       *)
(* already deleted the row it found may the id belong to somebody else's.  *)
(***************************************************************************)
Stale(r) == ~ \E x \in rows : x.n = req[r].foundN
RemovalsAreOwn ==
  [][\A x \in rows \ rows', r \in Req :
       req[r].pc = "write" /\ req'[r].pc # "write" =>
         \/ x.by = req[r].by \/ req[r].by \in Admins \/ Stale(r)
         \/ req[r].op = "delete post" /\ x.on = req[r].found]_vars
=============================================================================
