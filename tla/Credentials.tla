----------------------------- MODULE Credentials -----------------------------
(***************************************************************************)
(* The credential store of the omc client, config.json: which commands     *)
(* write it (`auth login', `auth logout', and any transfer that learns the *)
(* user name of a token), from what they have loaded when they started.    *)
(*                                                                         *)
(* Commands are processes of their own.  A save writes a temporary file    *)
(* next to the store and renames it, and all commands use the same name    *)
(* for it.  A path names a file, and a process keeps writing to the file   *)
(* it has opened whatever happened to its path.  A token is identified by  *)
(* its user; its server may accept it or not whenever it is asked.         *)
(***************************************************************************)
EXTENDS Integers, FiniteSets, FiniteSetsExt

CONSTANTS Proc,       \* commands at a time
          Url,        \* normalized server URLs, in their sorting order
          Spelling,   \* how a URL may be spelt
          User,
          File,       \* files that the two paths may name
          MaxRuns,    \* bound on commands
          None,
          Torn        \* a text that is no store

ServerEntry == [token : User, username : User \cup {None}]
Store == [servers : [Url -> ServerEntry \cup {None}], default : Url \cup {None}]

Parameters ==
  /\ Url \subseteq Nat /\ File \subseteq Nat /\ File # {}
  /\ None \notin Url \cup User \cup File \cup ServerEntry
  /\ Torn \notin Store /\ MaxRuns \in Nat

ASSUME CredentialsAssumption == Parameters

VARIABLES
  file, tmp,   \* what config.json and config.json.tmp name
  text,        \* File -> what is in it
  proc,        \* what each command does and knows
  runs,        \* commands so far
  past         \* history: [overlap : commands have overlapped,
               \*           lent : a command used OMC_TOKEN and saved]

vars == <<file, tmp, text, proc, runs, past>>
files == <<file, tmp, text>>

Known(store) == {u \in Url : store.servers[u] # None}
Sound(store) == store.default \in Known(store) \cup {None}
empty == [servers |-> [u \in Url |-> None], default |-> None]

Fresh == [pc |-> "idle", cmd |-> "none", store |-> empty, url |-> None,
          token |-> None, lent |-> FALSE, fd |-> None]

(***************************************************************************)
(* A store of an earlier version of omc has no user names.                 *)
(***************************************************************************)
Init ==
  /\ file \in {None, Min(File)} /\ tmp = None
  /\ \E u \in Url, user \in User :
       LET old == [servers |-> [empty.servers EXCEPT ![u] =
                                  [token |-> user, username |-> None]],
                   default |-> u]
       IN  text = [f \in File |-> IF f = file THEN old ELSE Torn]
  /\ proc = [p \in Proc |-> Fresh]
  /\ runs = 0
  /\ past = [overlap |-> FALSE, lent |-> FALSE]

At(p, pc) == proc[p].pc = pc
Active(p) == ~At(p, "idle")
Move(p, record) == proc' = [proc EXCEPT ![p] = record]
Goto(p, pc) == Move(p, [proc[p] EXCEPT !.pc = pc])
End(p) == Move(p, Fresh)
-----------------------------------------------------------------------------
(***************************************************************************)
(* Stores.                                                                 *)
(***************************************************************************)
load == IF file = None THEN empty ELSE text[file]

KeepsName(store, url, token, name) ==   \* mutant: a name that is there stays
  LET kept == IF store.servers[url] = None \/ store.servers[url].username = None
                THEN name ELSE store.servers[url].username
  IN  [servers |-> [store.servers EXCEPT ![url] =
                      [token |-> token, username |-> kept]],
       default |-> IF store.default = None THEN url ELSE store.default]

with_login(store, url, token, name) ==
  [servers |-> [store.servers EXCEPT ![url] = [token |-> token, username |-> name]],
   default |-> IF store.default = None THEN url ELSE store.default]

without(store, url) ==       \* the first of the others is the new default
  LET left == Known(store) \ {url}
  IN  [servers |-> [store.servers EXCEPT ![url] = None],
       default |-> IF store.default # url THEN store.default
                   ELSE IF left = {} THEN None ELSE Min(left)]

with_default(store, url) == [store EXCEPT !.default = url]

with_username(store, url, name) == [store EXCEPT !.servers[url].username = name]

normalize_server_url(raw) == raw.url

\* --server, OMC_SERVER, or the default; None: there is none of them.
resolve_url(store, option, env) ==
  IF option # None THEN normalize_server_url(option)
  ELSE IF env # None THEN normalize_server_url(env)
  ELSE store.default

resolve_token(store, url, env) ==
  IF env # None THEN env
  ELSE IF store.servers[url] = None THEN None ELSE store.servers[url].token
-----------------------------------------------------------------------------
(***************************************************************************)
(* A command loads the store before it does anything, and fails if it is   *)
(* not readable.                                                           *)
(***************************************************************************)
Launch(p, record) ==
  /\ At(p, "idle") /\ runs < MaxRuns
  /\ runs' = runs + 1
  /\ past' = [past EXCEPT !.overlap = @ \/ \E q \in Proc : Active(q)]
  /\ Move(p, record)
  /\ UNCHANGED files

auth_login(p, url) ==        \* a wrong token may be typed
  \E token \in User :
    Launch(p, [Fresh EXCEPT !.pc = "verify", !.cmd = "login", !.store = load,
                 !.url = url, !.token = token])

auth_logout(p, url) ==
  /\ url \in Known(load)
  /\ Launch(p, [Fresh EXCEPT !.pc = "open", !.cmd = "logout",
                  !.store = without(load, url), !.url = url])

\* Upload and download need the user name; they write it when it is missing.
resolve_username(p, url, env) ==
  LET token == resolve_token(load, url, env)
  IN  /\ token # None
      /\ url \in Known(load) => load.servers[url].username = None
      /\ Launch(p, [Fresh EXCEPT !.pc = "verify", !.cmd = "transfer",
                      !.store = load, !.url = url, !.token = token,
                      !.lent = env # None])

Targets ==
  LET raw == [url : Url, spelling : Spelling] \cup {None}
  IN  {resolve_url(load, option, env) : option, env \in raw} \ {None}

Begin(p) ==
  /\ load # Torn
  /\ \E url \in Targets :
       \/ auth_login(p, url) \/ auth_logout(p, url)
       \/ \E env \in User \cup {None} : resolve_username(p, url, env)

(***************************************************************************)
(* GET /api/auth/me tells whose token it is.  A token from the environment *)
(* for a server without an entry has no place for the name: an error.      *)
(***************************************************************************)
me(p) ==
  LET c == proc[p]
      name == c.token
  IN  /\ At(p, "verify")
      /\ \/ End(p) /\ UNCHANGED past            \* refused, or no answer
         \/ /\ c.cmd = "login"
            /\ LET new == with_login(c.store, c.url, c.token, name)
               IN  \E store \in {new, with_default(new, c.url)} :
                     Move(p, [c EXCEPT !.pc = "open", !.store = store])
            /\ UNCHANGED past
         \/ /\ c.cmd = "transfer" /\ c.url \notin Known(c.store)
            /\ End(p) /\ UNCHANGED past
         \/ /\ c.cmd = "transfer" /\ c.url \in Known(c.store)
            /\ Move(p, [c EXCEPT !.pc = "open",
                          !.store = with_username(c.store, c.url, name)])
            /\ past' = [past EXCEPT !.lent = @ \/ c.lent]
      /\ UNCHANGED <<files, runs>>
-----------------------------------------------------------------------------
(***************************************************************************)
(* Store.save: open and truncate the temporary file, write it, rename it.  *)
(***************************************************************************)
InUse == {file, tmp} \cup {proc[p].fd : p \in Proc}

OpenInPlace(p) ==            \* mutant: the store itself is written
  /\ At(p, "open")
  /\ LET f == IF file # None THEN file ELSE Min(File \ InUse)
     IN  /\ file' = f /\ UNCHANGED tmp
         /\ text' = [text EXCEPT ![f] = Torn]
         /\ Move(p, [proc[p] EXCEPT !.pc = "write", !.fd = f])
  /\ UNCHANGED <<runs, past>>

Open(p) ==                   \* File bounds the files there can be
  /\ At(p, "open") /\ (tmp = None => File \ InUse # {})
  /\ LET f == IF tmp # None THEN tmp ELSE Min(File \ InUse)
     IN  /\ tmp' = f
         /\ text' = [text EXCEPT ![f] = Torn]
         /\ Move(p, [proc[p] EXCEPT !.pc = "write", !.fd = f])
  /\ UNCHANGED <<file, runs, past>>

\* Over the text of another command the end of that text may remain.
Write(p) ==
  LET f == proc[p].fd
  IN  /\ At(p, "write")
      /\ \/ text' = [text EXCEPT ![f] = proc[p].store]
         \/ text[f] # Torn /\ text' = [text EXCEPT ![f] = Torn]
      /\ Goto(p, "replace")
      /\ UNCHANGED <<file, tmp, runs, past>>

Replace(p) ==                \* another command may have renamed it already
  /\ At(p, "replace")
  /\ IF tmp = None THEN UNCHANGED files
     ELSE /\ file' = tmp /\ tmp' = None
          /\ text' = [f \in File |-> IF f = file THEN Torn ELSE text[f]]
  /\ End(p)
  /\ UNCHANGED <<runs, past>>

save(p) == Open(p) \/ Write(p) \/ Replace(p)
-----------------------------------------------------------------------------
Interrupt(p) ==
  /\ Active(p) /\ End(p)
  /\ UNCHANGED <<files, runs, past>>

Next ==
  \E p \in Proc : Begin(p) \/ me(p) \/ save(p) \/ Interrupt(p)

Spec == Init /\ [][Next]_vars
-----------------------------------------------------------------------------
(***************************************************************************)
(* As long as commands run one at a time, what the next command will load  *)
(* changes only from one sound store to another one and only in the entry  *)
(* of one server ("a user can run login --server a and later b without     *)
(* overwriting either"), also after commands that were killed anywhere.    *)
(***************************************************************************)
SavesAreAtomic ==
  [][~past'.overlap /\ load' # load =>
       /\ load' # Torn /\ Sound(load')
       /\ \E url \in Url : \A other \in Url \ {url} :
            load'.servers[other] = load.servers[other]]_vars

(***************************************************************************)
(* The user name stored with a token is that of the token's user: uploads  *)
(* and downloads send them together as one credential.  It holds whatever  *)
(* overlaps, logs in again as somebody else or is killed, as long as no    *)
(* token from the environment met an entry without a name.                 *)
(***************************************************************************)
CredentialsBelongTogether ==
  ~past.lent /\ load # Torn =>
    \A url \in Known(load) :
      load.servers[url].username \in {None, load.servers[url].token}
=============================================================================
