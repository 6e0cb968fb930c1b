# A formal model of outo-models

outo-models is a self-hosted hub for machine-learning models, datasets and
Spaces: one Python process (FastAPI on asyncio) that keeps bare git repositories
and LFS objects on disk and everything else in SQLite. Most of its hard behaviour
comes from three stores that change at different moments (the disk at once, the
database when a session commits, the memory of the process never durably) and
from requests that interleave at every `await`; the rest from containers and
configuration files that outlive the command that made them, and from a client
that is interrupted. This directory models that behaviour in TLA+, checks it with
TLC on small instances and proves most of its safety properties with TLAPS for every
instance.

Paths below are relative to `src/src/outo_models/`, those of the client to
`src/omc/src/outo_models_cli/`, unless they start with `src/`.

## 1. Inventory

| component | state | operations | interacts with | module |
|---|---|---|---|---|
| Repository locks (`repos/storage.py`) | `_locks`, `_refcounts`, the queues of the `asyncio.Lock`s | `REPO_LOCKS.acquire`, cancellation | every writer of a repository, Space lifecycle | `RepoLocks`, `RepoMutex` |
| Repository store (`repos/create.py`, `delete.py`, `commit.py`, `quota.py`, `git_smart/service.py`, `server/routers/upload.py`, forms of `ui.py`, `tasks/jobs/quota_reconcile.py`) | rows `Repo`, `Revision`, `UserUsage`; `<owner>/<name>.git` on disk | create, delete, push, upload, edit, reconcile | locks, the SQLite write lock, the scheduler | `RepoStore` |
| LFS object store (`objectstore/local.py`) | files `<oid>` and `<oid>.tmp` | `write_object`, `read_object`, existence | LFS transfer | `LfsStore` |
| LFS transfer (`git_smart/lfs.py`, `lfs_api.py`) | the usage ledger, through the object store | batch, PUT, GET | object store, quota, authorization | `LfsTransfer`, `Download` |
| Accounts (`auth/approval.py`, `server/routers/admin.py`, `cli/admin/`) | rows `User`, `Approval`, `AuditLog`, `UserQuota`, GPU lists | signup, approve, deny, ban, unban, set quota, set and clear GPUs | API, admin pages, CLI, each with its own session | `Accounts` |
| Social and posts (`repos/social.py`, `posts.py` and their routes) | likes, follows, comments, posts, reactions | toggle, add, delete | rows of repositories and users | `Members` |
| Sessions, tokens, permissions (`auth/`, `server/deps.py`, `git_smart/auth.py`) | signed cookies, hashed tokens | issue, verify, revoke | account status | `Members`, `LfsTransfer` |
| Spaces runtime (`spaces/`, `server/routers/spaces.py`) | containers, images, host ports, exported sites | create, delete, start, stop, restart, proxy | locks, podman | `Spaces` |
| GPU delivery (`spaces/cdi.py`) | none: specs on the server and on the host | find, map, translate | Spaces runtime, podman | `Cdi` |
| Host and server CLI (`cli/setup`, `start`, `stop`, `restart`, `update`, `reset`, `assets/scripts`) | `config.yaml`, Caddyfile, images, container, data volume | the six commands | podman, Caddy, migrations | `Host` |
| TLS and Caddy (`tls/`) | certificate, the configuration Caddy runs with | check, probe, reload | scheduler, CLI | `Host` |
| Scheduler and jobs (`tasks/`) | next run times | hourly reconcile, certificate renewal, audit pruning | repository store, TLS | `RepoStore`, `Host` |
| Repository reading (`repos/files.py`, `server/routers/resolve.py`) | none | listing, raw files, ranges, redirect to LFS | bare repositories, LFS | `Download` |
| omc client, transfers | `x` and `x.part` on the user's disk | resumable download, LFS upload | resolve, LFS transfer | `Download`, `LfsTransfer` |
| omc client, credentials (`config.py`) | `config.json`, `config.json.tmp` | login, logout, learning a user name | `OMC_SERVER`, `OMC_TOKEN` | `Credentials` |
| Database (`db/`) | sessions, write lock, schema version | flush, commit, rollback, migrate | everything on the server | part of each module |
| S3 object store, rate limits, DNS and firewall adapters, pages | see section 6 | | | |

**What is hard.** Requests are coroutines of one process, so an interleaving is a
choice at each `await`; worker threads (`asyncio.to_thread`) only stretch the time
between two of them. The dangerous shapes, listed line by line under `hazards` in
PROJECT.json, are: a value read before an await and used after it (sizes, refs,
account status, row ids, a free host port); a disk change whose database change is
rolled back or never committed; paths shared by attempts (`<oid>.tmp`,
`config.json.tmp`, one directory for three kinds of repository); ids and names that
are given out again (row ids, container names, image tags); reference counts under
cancellation; locks of two kinds taken in different orders; a command killed
between two of its effects; and a periodic job that overwrites what requests have
just written.

**What makes the components correct.** Locks: exclusion, no lost wake-up, no entry
dropped from under a user. Store: accepted commits are never lost, a directory and
a row belong together, revisions name commits that exist, usage adds up or is put
right. Object store: a visible object is whole. Accounts: status, settings, approval
row and audit log tell one story. Transfers: bytes are charged once and within the
quota; a finished download is complete. Members: no duplicate and no orphan, and
nobody removes what is another's. Spaces: what a start reports is what it built, a
failed build costs nothing, one Space per port. GPUs: delivered as the spec says, or
refused. Host: a refusal leaves the running server alone, a success runs the
configured image. Credentials: a token is stored with the name of its user, in a
file that is always readable.

## 2. Plan

All modules of the plan are written; the order is that of importance.

1. `RepoMutex` (abstract), `RepoLocks` (detailed, refines it), `RepoLocksProofs`.
2. `RepoStore`, `RepoStoreProofs`: uses the mutex of `RepoMutex` as its repository
   lock.
3. `LfsStore`, `LfsStoreProofs`: one object of the filesystem backend.
4. `LfsTransfer`, `LfsTransferProofs`: an upload against ledger, quota and access;
   relies on what `LfsStore` and `RepoStore` promise.
5. `Accounts`, `AccountsProofs`: signup, transitions and settings from three sides.
6. `Spaces`, `SpacesProofs`: lifecycle and proxy under the repository lock; `Cdi`
   details the one step of it that asks for a GPU, and is proved about there too.
7. `Members`, `MembersProofs`: what members leave on the site, sessions and tokens.
8. `Host`: setup, start, update, reset, Caddy and the renewal job.
9. `Download`: the resumable download against repository reading and LFS GET.
10. `Credentials`: the client's store of tokens. `CommandProofs` has the proofs about
   8 to 10, the commands of the operator and of the client.

Left: a composition of `Accounts` and `Members` in which a ban overlaps decisions;
pruning of the audit log; repository forms that update a row found by an id that has
been given out again (`ui.py` 1946-2128); an abstract specification "a port serves
one Space" for the non-overlapping lifecycles of `Spaces`.

## 3. Modules and their correspondence to the code

Each module's header says what it abstracts; PROJECT.json maps each definition to
its lines. Most definitions are named after the function or route they model.

### RepoMutex and RepoLocks

`RepoMutex` is what users of `REPO_LOCKS` rely on: per repository an owner and a
set of waiters; `Request`, `Enter`, `GiveUp`, `Leave`.

`RepoLocks` is the registry. Lock objects have identities, because the danger is
two objects for one key. `Lookup` is the synchronous prefix of `acquire`
(check, create, count, then `lock.acquire()` up to where it suspends); `Wake` is a
waiter resumed at the head of the queue; `CancelWait` is `CancelledError` inside
`await lock.acquire()`, which is outside the `try` and so never decrements;
`Release` is the `finally` block with the possible removal of the entry.
`Acquire`, `Available` and `Wake` model `asyncio.Lock` from its use (external).
`RefBound` caps reference counts, which abandoned waits may raise without end.

### RepoStore

The repositories of one owner. `db` is committed data, `txn` the one open write
transaction (SQLite's write lock), `dir` the directories, `lock` the repository
locks. A request is a record with a program counter and the values it has read;
each step is what it does between two awaits. A request is also the commit it
pushes, so a branch is a sequence of requests. The steps are grouped by handler:
`new_repo_form`, `delete_repo`, `commit_files`, `files_upload_form`,
`files_edit_form`, `asgi_app` (the push) and `_record_push`.

- create: `CreateCheck` (duplicate SELECT), `CreateInit` (directory under the
  lock), `CreateInsert` (flush; the unique constraint undoes the directory),
  `CreateFails` (any other error: compensation), `Commit`.
- delete: `LoadDelete`, `DeleteEnter`, `DeleteRemove` (rows by id, usage, `rmtree`),
  `Commit`.
- push: `LoadPush`, `CheckPushAllowed`, `PushCapture` (pre_refs), `PushReceive`
  (dulwich's handler, without the repository lock, fast-forward of what the client
  saw advertised), `BookEnter` (post_refs under the lock), `BookRead`, `Walk`,
  `RecordPush`, `Commit`.
- upload and edit: `LoadUpload` (then the quota check) and `LoadEdit` (without one);
  `CommitClone` and `CommitLand` are the thread of `commit_files`
  under the lock; then `Walk` and `RecordUpload`, or `RecordEdit` alone.
- reconcile: `JobRead`, `JobList`, `JobWalk`, `JobWalkLfs`, `JobWrite`, `JobCommit`,
  `JobBusy`. To what an owner's directories weigh the job adds the whole store of LFS
  objects, `lfs`, which grows by `LfsPut` (up to `MaxLfs`), whoever the objects are for.
- `DatabaseBusy`, `CommitFails`, `Crash` are the failures.

Abstractions: an empty repository weighs one unit and each received commit one; a
request refused before it changes anything never starts; forced pushes, which
discard history on purpose, and branches other than the default one are left out.
`NextId` is SQLite's row id allocation without AUTOINCREMENT, which hands out
the highest id again after its row is deleted. `Request` says what a handler keeps in
local variables; names are finitely many because their length is bounded.

### LfsStore

One object id. A path names a file and a file has contents, because an upload keeps
writing to the file it has opened whatever happened to its path. `Begin` to
`Replace` follow `write_object` line by line; `Find` and `Read` are `read_object`;
`Crash` keeps the files. Chunks are right or wrong; a write beyond the end of a
truncated file leaves a hole. `overlapped` is a history variable.

### LfsTransfer

Runs of `omc upload` that send large files to one repository, seen from the server:
the objects in the store, the pointers in the repository, the usage of the owner,
the audit rows. A run is a record with a program counter and what it has learnt.

- `resolve_git_identity`, `authorize`, `resolve_principal`: each request finds out
  anew who asks and what the token allows. The LFS routes and the commit route do it
  differently: the commit needs a token with the write scope, the LFS routes the
  account's right to write. `AccessEnds` takes the access away between two requests
  (a ban, a token that expires, a repository that is deleted).
- `Start`: hashing, partition and de-duplication on the client. `split` says whether
  the pointers go in one commit or in one per file.
- `BatchAuthorize`, `BatchHas`, `BatchRoom`: the server answers object by object; it
  skips what is stored and checks the quota of the *actor* for each object alone, not
  for their sum. An admin's own room is unrelated to the owner's, hence arbitrary.
- `BatchAnswer`: one refused object ends the run before anything is sent.
- `PutCheck`, `PutBegin`, `PutFails`, `PutStore`: the quota of the *owner*, then
  `write_object` with what `LfsStore` allows it to do: refuse an object that is
  there, fail, or make the object appear whole.
- `ChargeRead`, `Charge`: `add_usage` is a SELECT and an UPDATE of an absolute value
  in a transaction that has written nothing before; the audit row is committed with
  the UPDATE. `audit` keeps what those rows add up to and which objects they name.
- `CommitCheck`, `CommitLand`, `CommitRejected`, `CommitWalk`, `CommitBook`: the upload
  request of `RepoStore`, whose bookkeeping holds the database from its first INSERT on.
  It books what the directory weighs when it is walked (`disk`, then `walked`) less the
  size the row had when the request loaded it (`size`, then `row`), and the two are far
  apart: what overlapping commits have added in between is charged by each of them, and
  what an earlier commit was not charged for, because it failed after it had landed,
  is charged by the next one.
- `ClientGone`, `DatabaseFails`, `Crash` are the failures. A retry is another run.

An object and a commit weigh one unit each. `past` is a history variable: whether
runs have overlapped, and whether an UPDATE has overwritten another charge (`lost`). `MaxActive`
bounds the runs at a time, which is also the number in `OvershootIsBounded`.

### Accounts

Accounts with the columns a transition writes, approval rows, the audit log, the
quota and GPU rows, and one open write transaction. `admin_api`,
`admin_user_action_form` and `local_db` are what can be asked for on the API, on the
admin pages and on the command line (which opens the database as its first admin and
skips the range check of a quota). A transition loads and checks (`Decide`), later
writes the columns that differ from what it loaded (`Write`, through `Updated`), and
commits; a setting does the same with the row of the setting (`SetLoad`, `SetWrite`,
`Saved`, `Collides`); `was` is that row as loaded. `noted` (what the log says of each
setting) and `overlapped` are history. Rows are never deleted, and pruning of the audit
log is left out: what the log explains, it explains within the retention.

### Members

Eight tables as one set of rows (`table`, `id`, author, the row referred to), because
what matters is the same in each: ids are given out again (`NextId`), foreign keys
are declared and not enforced, some tables have a unique key. A request loads what
it is about (the route: `repo_like_form`, `posts_react_form`, ...), looks for its own
row (`Look`), and writes in one flush (`like_repo`, `toggle_reaction`, `add_comment`,
`delete_post`, ...), `Insert` being rolled back by the unique key. `Authenticated` is
`get_current_user`: cookie or token, of an active account, asked when the request
begins. `login`, `logout`, `SessionExpires`, `TokenExpires`, `Ban`, `CreateRepo` and
`DeleteRepo` are what happens around them. `n`, `onN`, `late`, `foundN` and `serial` are
history. API routes and forms differ only in what they say about a row that is or is
not there, and are one request each. Repositories are public; the text of a comment
and its edits are left out.

### Spaces

Requests, the repository lock, and podman as their shared memory: containers by name,
images by tag, exported sites. A step is what a request does between two calls of
podman, each of which may fail. `Begin` finds the Space and its owner's GPUs,
`Acquire` takes the lock; `StopContainer`, `make_build_context`, `build_image`,
`RemoveOld`, `allocate_host_port`, `gpu_device_names`, `CreateContainer`,
`StartContainer`, `retry_translated` and `Started` are a restart (a start skips the
first); `Fail` and `Break` are the exception paths of `_run_lifecycle`, `Free` its
`finally`. `RunStatic` and `RefuseDocker` are the other SDKs. `proxy_dispatch` reads
the port (`Status` is the check of the inspected state in `_host_port_from_inspect`)
and `stream_proxy_response` connects to it later. `create_space`,
`delete_space`, `Push`, `ContainerDies`, `ContainerRestarts` and `Crash` (containers
survive it) come from outside. A container is created with `restart_policy: always`, so
one that died comes back at any time, without a lifecycle and on the port it has, unless
another container listens there; then, or if podman fails, it is left exited. A
reboot of the host, after which podman starts all containers again, is outside the model.
What a container serves is a pair of the Space's number and the pushes so far (`Tree`).
`podman` is the version that decides whether the field `gpus` is understood or
ignored. `had`, `alone`, `solo`, `why` and `reached` are history.

### Cdi

One start, for any pair of local and host specs and any assignment. `probe_specs` and
`read_host_cdi_texts` are the ladder that finds specs (twice: for the names and, after
a refusal, for the edits). An assignment is a name, or a kind and a name
(`vendor/class=name`); `normalized` and `split_identifier` treat the two as the code
does, `SpecOf` is the spec an assignment is looked up in, `find_device` the mapping to
its spelling, `resolve_edits` one identifier of the translation loop, `translate_edits`
the merge of one block, `symlink_mount` a link of it, whose target may be relative
to the directory of the link (`resolved`), `merge_ld_library_path` its end. The names of
the create body (`wire`) all go out under one kind. `TranslationIsFaithful` is a
reference definition over all blocks at once.

### Host

The operator's commands, one at a time, in steps between which anything else may
happen: `Publish` moves a tag in the registry, `Sysctl` changes whether low ports can
be bound, `ContainerDies`, `Interrupt` kills the command (and may leave a throwaway
container on the default volume). The configuration names the data volume, and `data`
has the schema of each: `start` mounts the one that is named, everything else
(bootstrap, the migration of update, reset) the default one. setup: `collect_answers`,
`write_config` (truncate, then write), `ensure_dns_record`, `open_firewall_ports`,
`ensure_low_port_binding`, `bootstrap_database`, `WriteCaddyfile`. start:
`load_config`, `inspect_state`, `preflight_low_ports`, `remove_container`,
`podman_run`, `verify_started`. update: `Pull`, `migrate`, `Recreate`, then start.
reset: `RemoveServer`, `SweepHolders`, `RemoveVolume`, `wipe_config_dir`, each of
which may fail and so end the reset. The container boots by `spawn_caddy` and
`lifespan` (which migrates, or refuses a later schema), and `cert_renewal_job` may
reload Caddy. An image is its version; a version's code knows the schemas up to its
own number, so whether a container can boot depends on its volume (`Boots`).
`EditConfig` is an operator with an editor, who may name another volume, too.

### Download

`omc download` and what answers it. `walk_root`, `walk_sub` list (always the default
branch), `acquire` takes the semaphore, `transfer_one` asks with a range if a `.part`
file is there, `receive` and `finish` write and rename. `resolve_file` is the server:
`parse_range`, `iter_blob_window`, or the redirect of an LFS pointer to `handle_get`.
A file is a sequence of pieces, each with its blob and position. Commits land between
any two requests; `BreakOff` is an error of one transfer, which ends all, or an
interrupt.

### Credentials

Commands are processes that load the store, ask `/api/auth/me` (`me`) and save by
`Open`, `Write`, `Replace` of one shared temporary path. Paths name files and files
have contents, as in `LfsStore`. `resolve_url` and `resolve_token` pair options,
environment and store. A token is identified by its user. `File` bounds the files
there can be; with enough of them `Open` always finds one that is not in use.

`MCRepoStore`, `MCAccounts` and `MCLfsTransfer` only add symmetry sets; the other MC
modules also give the sets of the instance.

## 4. Runs

| run | instance | shows |
|---|---|---|
| `locks` | 3 tasks, 2 repositories, 3 lock objects | `MutualExclusion`, `CountCoversUsers`; the registry implements `RepoMutex` (`ImplementsMutex`); `NoStarvation` |
| `store_safety` | 3 requests of any kind, 2 names, 2 kinds, 1 fault, no job | `NoLostCommit`, `LedgerExact`, `RevisionsNameCommits`, `OneHomePerRow`, `OrphansNeedAFault` |
| `store_fair` | 2 requests and the job, 1 name, 2 kinds, 1 fault, 1 LFS object | `RequestsEnd`, `DriftIsCorrected` |
| `lfs` | 3 uploads, 1 download, 2 chunks, 1 crash | `ObjectsAreWhole`, `DownloadsAreWhole` (attempts one after the other); `WholeOnceQuiet`, `StoredMeansPresent` (any overlap) |
| `lfs_transfer` | 3 runs, 2 at a time, 2 objects, quota 3, 1 fault, any actor and access | `PointersResolve`, `OvershootIsBounded`, `StoredAreAudited`, `LedgerExact`, `RoomMeansSuccess` |
| `accounts` | 4 requests, 1 admin, 2 users, 2 emails, quotas 0 and 1, one GPU list | `AuditExplainsAccount`, `DecisionMirrorsAudit`; `HistoryIsLegal` (no overlap) |
| `spaces` | 2 requests, 2 Spaces, 2 ports, 2 creations, 1 push, 1 crash, one owner with a GPU, containers that die and come back | `StartKeepsUntilBuilt`, `StartedRunsTheBuild`; `SoloStartsGetAPort`, `ProxyReachesItsSpace` (no overlap); `LifecyclesEnd` |
| `cdi` | specs of 2 kinds: 6 lists of device names, 4 spec-wide and 6 device edits, absolute and relative links; 4 local sources; 9 assignments with and without a kind | `WireNamesAreDefined`, `TranslationIsFaithful` |
| `members` | a member and an admin, 2 requests at a time, 3 rows ever, 1 glyph | `OneEach`, `NothingOutlivesItsPost`, `RemovalsAreOwn` |
| `host` | 2 tags, 2 versions, 2 volumes, 2 writings of the configuration, Cloudflare, no domain, or a host name given as the address | `StartedRunsTheTag`, `RefusalsKeepTheServer`, `ResetIsComplete` |
| `download` | 2 files, 3 blobs (one LFS), 2 workers, 2 commits, 2 runs | `TargetsAreComplete`, `RunsEnd` |
| `credentials` | 3 commands, 2 at a time, 2 servers, 2 users | `SavesAreAtomic` (no overlap), `CredentialsBelongTogether` |

Every module with a proof module has a type invariant that is proved; that of
`RepoMutex` documents the variables.

**Conditions.** Several properties hold under a condition on the history, and the
condition is part of what the runs found: without it TLC shows the behaviours of
section 6. `LedgerExact` of `RepoStore` holds while repositories change by creates,
pushes and edits, because only the push bookkeeping reads the recorded size under the
lock; uploads and deletes charge or release a size read earlier, and
`DriftIsCorrected` then says what repairs it. `RevisionsNameCommits` excludes deletes:
an edit may record its revision for a repository that was deleted while it waited, or
for the one that has inherited its row id. `OneHomePerRow` and `OrphansNeedAFault`
exclude faults and a second delete. In `LfsTransfer`, what an owner is charged is only
a lower bound kept: unless an UPDATE overwrote another charge, usage is at least what
the audit log tells, and more when commits overlapped. Uploads that follow each other
are charged exactly (`LedgerExact`: usage is the size in the row and the objects that
were audited). `OvershootIsBounded` speaks of what is really stored: it exceeds the
quota by the runs under way, and by what faults left uncharged; a lost charge leaves
the recorded usage too low, and each further check then lets more pass, so that no
constant bounds the excess. `RoomMeansSuccess` is about uploads of the owner that keep
their access, when none have overlapped, not even earlier, because an overlap may have
charged too much; the room must hold what earlier commits were not charged for, too.
An admin's batch may be accepted and the PUT refused, as the two look at different
quotas. In `Accounts`, the status is explained whatever overlaps; settings and the
legality of histories only without overlap. In `Spaces`, ports are chosen without
reserving them, so `SoloStartsGetAPort` needs the absence of overlap, and
`ProxyReachesItsSpace` that no lifecycle overlaps the call nor has overlapped the
start of the container called; between the two anything may have died and come back.
What is built and started needs neither. In `Cdi`, `WireNamesAreDefined` says of a
name assigned under another kind only that its own spec has it. In `Host`,
`RefusalsKeepTheServer` says that the container is kept, and, but for an update past
its migration, that it can still boot if it could before; `ResetIsComplete` speaks of
the default volume, the one reset knows. In `Members`, `RemovalsAreOwn` excepts a
request whose row was deleted meanwhile. In `Credentials`, `SavesAreAtomic` excludes
overlap, and `CredentialsBelongTogether` a token borrowed from the environment.

**Bounds.** Every hazard modelled involves at most three actors: the two that race
and one that observes or reuses what they left (three requests; three uploads; a
fourth account request makes approve, ban and unban follow a signup; in `Spaces` and
`Members` a request slot is used again and again, so two suffice). Two names are needed
for row ids to wander between repositories, two kinds for one directory to be
wanted by two rows. One fault is enough for each single failure to meet each state;
after it the system runs on. `Quota = 3` is low enough that pushes are refused at
the limit; in `LfsTransfer` it lets one run through and stops a second one somewhere
between its batch and its commit. `Size = 2` chunks distinguishes empty, partial,
complete, shifted and holed files. Two host ports and two Spaces make a port the last
free one; two creations let a name be used by a second Space. `MaxSerial = 3` rows is
a repository or a post, what hangs on it, and one more, whose id may be reused;
`MaxSessions` and `MaxTokens` keep apart only who may act, not what he does. Two
versions are what a tag can move between, and a downgrade; two volumes the one that reset
knows and one that it does not. One LFS object is enough for the job to count what
no repository of the owner holds, before or after it arrives. Blobs of three and of two
pieces make a resumed range satisfiable, refused, or ignored (LFS).
`CHECK_DEADLOCK FALSE` is stated where each actor acts a bounded number of times:
when all have ended the system rests.

**Fairness.** `RepoLocks`: the event loop runs each ready task (`Wake`) and each
body under the lock ends (`Release`); arrivals and cancellations are not owed.
`RepoStore`: the event loop continues each request that can continue and the
scheduler starts the job again and again; arrivals, errors, crashes and the busy
timeout are not owed. `Spaces`: each request goes on when it can, and podman answers
every call, if only by a refusal. Weak fairness suffices for these because each
request takes finitely many steps, so a contended lock is eventually left alone.
`Download`: the event loop of the command goes on while any transfer can.

**Mutants.** Each property of a run has a mutant in the modules, marked `mutant`,
that changes one mapped operation as a plausible bug would and violates the property.

## 5. What is proved

`RepoLocksProofs`, for every number of tasks, repositories and lock objects, from
`LockAssumption` (finitely many tasks; `None` is neither a task nor a lock object):

- `TypeCorrect`, `Exclusion`, `Counting`: `Spec => []TypeOK`,
  `[]MutualExclusion`, `[]CountCoversUsers`;
- `Refinement`: `Spec => ImplementsMutex`, the registry implements `RepoMutex`.

`RepoStoreProofs`, for every number of requests and rows, all sets of names, kinds and
operations, with or without the reconcile job, any quota and any bound on faults, from
`StoreAssumption` (finitely many names and kinds; the markers `None` and `Job` are
none of the values they are told apart from):

- `TypeCorrect`, `RowsAlwaysHaveOneHome`, `OrphansAlwaysNeedAFault`,
  `RevisionsAlwaysNameCommits`, `LedgerAlwaysExact`: `Spec => []TypeOK`,
  `[]OneHomePerRow`, `[]OrphansNeedAFault`, `[]RevisionsNameCommits`, `[]LedgerExact`;
- `NoCommitIsEverLost`: the action property `Spec => NoLostCommit`;
- `LocksAreNeverLeaked`: `Spec => []HeldInside`, whoever has a lock is at a step inside it;
- `StoreUsesMutex`: `Spec => UsesMutex`, the handlers use their locks as `RepoMutex`
  lets its tasks, which together with `Refinement` joins the two modules: what the
  store assumes of a repository lock is what the registry implements.

`LfsStoreProofs`, for every number of uploads and downloads, every size of an object
and any bound on crashes, from `LfsAssumption` (an object is not empty; `Stale` is no
upload, `None` no file):

- `TypeCorrect`, `ObjectsAreAlwaysWhole`, `DownloadsAreAlwaysWhole`,
  `AlwaysWholeOnceQuiet`, `StoredAlwaysMeansPresent`: `Spec => []TypeOK`,
  `[]ObjectsAreWhole`, `[]DownloadsAreWhole`, `[]WholeOnceQuiet`,
  `[]StoredMeansPresent`.

`LfsTransferProofs`, for every number of runs and objects, every quota and any bound
on faults, from `TransferAssumption` (finitely many runs and objects, `None` is no
object):

- `TypeCorrect`, `PointersAlwaysResolve`, `OvershootIsAlwaysBounded`,
  `LedgerAlwaysExact`, `StoredAreAlwaysAudited`, `RoomAlwaysMeansSuccess`:
  `Spec => []TypeOK`, `[]PointersResolve`, `[]OvershootIsBounded`, `[]LedgerExact`,
  `[]StoredAreAudited`, `[]RoomMeansSuccess`.

`AccountsProofs`, for every set of accounts, admins and requests, every range of
quotas and GPU lists, from `AccountsAssumption` (an account is not one of the admins
that act; quotas are integers; `None` is no row and no transaction):

- `TypeCorrect`, `AuditAlwaysExplainsAccount`, `DecisionAlwaysMirrorsAudit`,
  `HistoryIsAlwaysLegal`: `Spec => []TypeOK`, `[]AuditExplainsAccount`,
  `[]DecisionMirrorsAudit`, `[]HistoryIsLegal`.

`SpacesProofs`, for every set of Spaces, requests and ports, any number of pushes,
GPUs and faults, from `SpacesAssumption` (ports are numbers, names are strings, `None`
is no request and no container):

- `TypeCorrect`, `SoloStartsAlwaysGetAPort`, `ProxyAlwaysReachesItsSpace`:
  `Spec => []TypeOK`, `[]SoloStartsGetAPort`, `[]ProxyReachesItsSpace`;
- `StartAlwaysKeepsUntilBuilt`, `StartedAlwaysRunsTheBuild`:
  `NamesApart => (Spec => []StartKeepsUntilBuilt)`, the same for `StartedRunsTheBuild`. The code
  does not guarantee that container names differ (section 6), so `NamesApart` is a
  hypothesis of these two theorems, in sight of the reader, and not an assumption
  on a constant;
- `WireNamesAreAlwaysDefined`: `Gpu!Parameters => (Gpu!Spec => []Gpu!WireNamesAreDefined)`,
  where `Gpu` is an instance of `Cdi`, for every content of the specs and every
  assignment, with kinds and without (`Parameters`: a directory holds a list of specs,
  these list their devices, the parts of the edits are lists, and so is an assignment);
- `TranslationIsAlwaysFaithful`: the same for `Gpu!TranslationIsFaithful`, for specs
  of any kinds with any number of devices and blocks with any number of mounts, absolute
  and relative links, variables, folders and groups.

`MembersProofs`, for every set of users, cookies, tokens, requests and reactions and
any bound on rows, from `MembersAssumption`:

- `TypeCorrect`, `OneEachAlways`, `NothingEverOutlivesItsPost`: `Spec => []TypeOK`,
  `[]OneEach`, `[]NothingOutlivesItsPost`;
- `RemovalsAreAlwaysOwn`: the action property `Spec => RemovalsAreOwn`.

`CommandProofs`, about three modules with variables of their own. For every set of
tags, versions, volumes and providers and any number of writings of the configuration,
from `HostAssumption` (`NoBox` is no container, versions are positive numbers, providers
are those the wizard offers, the default volume is a volume):

- `TypeCorrect`, `StartedAlwaysRunsTheTag`, `RefusalsAlwaysKeepTheServer`,
  `ResetIsAlwaysComplete`: `Spec => []TypeOK`, `[]StartedRunsTheTag`,
  `[]RefusalsKeepTheServer`, `[]ResetIsComplete`.

For every set of files and blobs and any number of workers, commits and runs
(`D` is an instance of `Download`, `C` one of `Credentials`; `Parameters` is what each
module assumes of its constants):

- `TargetsAreAlwaysComplete`: `D!Parameters => (D!Spec => []D!TargetsAreComplete)`.

For every number of commands, servers, users and files, where `None` is no entry of
the store and `Torn` no store:

- `CredentialsAlwaysBelongTogether`: `C!Spec => []C!CredentialsBelongTogether`;
- `SavesAreAlwaysAtomic`: the action property `C!Spec => C!SavesAreAtomic`.

The argument for exclusion: by itself it is not inductive. What makes it so is that a
task that waits for or holds the lock of a key has in hand the very object the
registry holds for that key (`Registered`), that a task in its critical section is the
holder of that object (`HoldersHold`), and that entries are only dropped at count zero,
when by `CountCoversUsers` nobody uses the key. The inductive invariant is
`IInv == TypeOK /\ Registered /\ HoldersHold /\ CountCoversUsers`; each conjunct
has a lemma of its own (`TypeStep`, `CountStep`, `RegisteredStep`, `HoldersStep`).
Two holders of one key would then be two holders of one object.

The argument for the store: so that not every conjunct has to be taken through every
step of every handler, each action is first shown to be one of a dozen effects (`Happens`:
a turn of a request that only reads, makes a directory or removes it again, receives a
commit, opens the transaction to insert, delete or book, or ends it; three steps of the
job; a crash).
The invariant is a stack, each layer using those below:
`IInv == Base /\ Rows /\ Homes /\ Orphans /\ Revisions /\ Ledger`.
- `Base`: the types, who holds which lock, and that the one open transaction belongs to
  whoever is about to commit.
- `Rows`: how far the rows of the open transaction may differ from the committed ones
  (`Delta`), that ids are unique in both although they are given out again, and that a
  request finds the row it loaded as long as no other request deletes (`Rooted`).
- `Homes` and `Orphans`: rows of both views have a directory and a name of their own;
  a directory without a row has a create inside its lock (`Claimed`). Faults matter
  differently to the two: `Homes` also holds with faults when nothing is deleted
  (`Calm`), which the revisions need, `Orphans` only without (`Smooth`).
- `Revisions`: a push carries the tip it saw from reading to recording it, and a
  history only grows under a row that stays.
- `Ledger`: usage is a sum over rows, in both views. A push that has read its size
  still holds the lock when it books, so what it replaces is what is there.
`SumChanges`, the lemma on sums, is proved by a smallest set for which it fails, not
by induction on an operator.
That the locks are those of `RepoMutex` rests on `Base` alone: each step of a handler
stays where it is, takes the lock of its own repository from outside every lock, or
gives up what it has (`Uses`); the error paths are of the third kind.

The argument for objects: `PathsInv` says that the two paths never name one file, that
a leftover never becomes visible, and what an upload has in hand. As long as uploads
do not overlap (`SoloInv`), the file at the temporary path is what its one upload has
sent so far, and a download has received a prefix of the right body. Whatever overlaps
(`OwedInv`), as long as no upload has failed each byte of a file a path names that is
not right yet is owed by an upload with that file open, which has yet to write there
or has sent a wrong chunk and will fail its check: when all have ended nothing is owed.

The argument for transfers: a run that commits no longer knows how each object got
into the store. `Accounted` says it: as long as the batch has refused nothing, each
object whose pointer a run still has to commit is stored, waiting for its answer, or
among the uploads still to be done, and a run that has reached its commits has none
of the latter two. Objects never leave the store, so no other run can disturb this;
nor can the loss of access, which only ends the run. The ledger needs more. A commit
books a difference between two readings, so the first thing to know is how they are
ordered: a row is never ahead of the directory, and a run that has landed a commit will
walk a directory that has grown since it loaded the row (`Measuring`); hence each commit
charges at least its own unit. `Bounded` then compares usage with what the audit log
tells (`Charged`) and counts the runs between their check of the quota and their charge:
each may still add one unit to what was checked. `Kept` compares what was charged with
what is stored: the difference is what a run has yet to pay for, or a fault has
swallowed. `Audited` says that what is stored and not in the log is in the hands of a
run that will write it there, also when its client is gone. And if no two runs have
overlapped (`Solo`), the one active run finds the row as it loaded it, and what it has
yet to send and commit, with what earlier commits left uncharged, fits into the room that
is left, if at its start it did (`Alone`).

The argument for accounts: `Requests` says what a request knows at its step,
`Committed` states the properties of the tables, `Pending` states them of what the open
transaction would commit, because it may commit at any moment. A status needs no more:
the transaction that writes it writes its entry too. Settings and the legality of the
history do: with requests that do not overlap (`Solo`) what the one in flight has
loaded is still what the tables hold.

The argument for Spaces: `Knows` is what a request has at its step, `Locked` that it
holds the lock of its Space from its first call of podman to its last, `OnePortEach`
that podman never lets two containers that serve share a port. With names apart, no
other request touches the name of a Space whose lock one holds, so what it has noted
of image and container stays true (`Owns`). A request that nothing overlaps stays
alone while it runs (`Alone`), so the port it found free is still free (`Lone`).
A container whose start was overlapped by nobody keeps its port to itself (`Reserved`),
running or dead, because the listing of used ports counts the dead too: so no container
that podman restarts, nor any other that serves, has the port a call has looked up.
For the names of GPUs it is enough that a start keeps the specs it has resolved its
names against, and what `find_device` returns (`Spelled`). For their edits the
invariant (`Translating`) says what has been delivered of the blocks met so far
(`Delivered`), in the words of the property but for the entries of the environment,
where it speaks of all prefixes (`Latest`). One block more keeps it (`OneBlock`): a
link that has its source keeps it, because the first mount of a path stays the first
when mounts are appended (`SourceStays`). What the folds and joins over lists compute
comes first: a fold goes through its list index by index (`FoldRuns`, `IndexByIndex`),
`FlattenSeq` joins one list more at a time (`FlattenMore`), `Once` keeps elements and
puts those of a first part first (`OnceKeeps`), the last entry of a key wins
(`PutAllKeeps`). Each is an induction over list lengths by `EveryNumber`: a set that
has 0, and with n also n + 1, has every number.

The argument for members: ids are given out again, so a request that comes back with
an id it read earlier may find another row there. What never comes back is a row's
serial number. `IInv == RowsInv /\ ReqInv /\ AccountsInv` says that rows of a table
differ in their ids and in their numbers, that a row with the number a request has
kept is the row it has seen, and that what hangs on a post refers to a post that is
there. Why a new id is new is `NextIdIsNew`: the greatest id of a table exceeds all
its others (`MaxIsGreatest`, an induction over the numbers as a well-founded order).

The argument for the host: the properties speak of what a finished command reports,
long after the step that made it true. `Reached(op.pc)` carries it along: until a
command removes the container, the server is the one it found; from the reading of the
configuration on, that is whole; at the probe the container is of the image the tag
names; and a reset has cleared what it has passed. That a kept container can still boot
is carried along beside it: what a command leaves alone cannot outgrow the code of the
container, a boot of its own moves the schema of its volume at most to its own number
(`SameSchema`), and only an update past its migration loses the fact. The environment
preserves all of it:
a container may die, and what runs in it may change, but it stays the container it is,
and a published image becomes local only by a pull.

The argument for downloads: a `.part` is only known to have each piece at its place;
whose pieces they are, and how many, nobody knows. What is complete is a `.part`
together with what its transfer has still to receive (`Underway`), because a range
answer continues a `.part` of any origin that is shorter than the blob
(`RangeContinues`), and any other answer starts anew or ends the transfer. Receiving a
piece moves it from one side to the other (`Shift`).

The argument for credentials: `Names` says of every text on the disk and every store in
the hands of a command that its names are those of its tokens, so it does not matter
which of them a rename brings to light. For atomic saves a command that nothing overlaps
(`Lone`) has a sound store that differs from the one on the disk in its own server only,
and is the only one to write the file it has opened; the path of the store never names
that file.

Only model-checked: all liveness (`NoStarvation`, `RequestsEnd`, `DriftIsCorrected`,
`LifecyclesEnd`, `RunsEnd`). Liveness under fairness, `ENABLED` and `RECURSIVE`
operators are beyond the prover; no module declares a `RECURSIVE` operator. The
induction theorems of the library take an operator, which the provers cannot
instantiate; where a proof needs induction it is made over a set of numbers instead.

## 6. What the models show the code to do

These behaviours are in the models; most are why a property above has a condition.

Repositories and LFS
- A crash or failed commit after `create_repo` (`repos/create.py:140`) leaves a
  directory no row references; the check at `:103` then refuses the name for good.
- A delete that waited for the lock removes by id (`repos/delete.py:64`), and takes
  the row of another repository if the id was given out again in between; an edit
  records its revision in the same way. The directory goes before the row is
  committed away, so a crash leaves a row without a repository.
- Of two overlapping pushes one records the tip of the other, and its own advance is
  never recorded (`git_smart/service.py:720`, `:796`). A push in chunks declares no
  length and is not checked against the quota before it is received.
- Uploads of one object share `<oid>.tmp` (`objectstore/local.py:185`), so an overlap
  can make a partial object visible until it is complete, or for good if the
  remaining upload fails.
- Two charges at once lose one (`git_smart/lfs.py:598`). The batch asks the quota of
  the acting user, the PUT that of the owner.
- A commit charges the size of the directory less the size of the row as the request
  loaded it (`server/routers/upload.py:155`, `:184`). Two that overlap both charge what
  both have added, so usage ends above what is stored, until the reconcile job; a commit
  whose booking failed is charged by the next one.
- The reconcile job adds the whole LFS store to the total of every owner
  (`repos/quota.py:104-113`), as its comment says and `TestReconcileIncludesLfs`
  (`src/tests/unit/test_repos_quota.py:273-295`) asserts, while PUT charges an object to
  the owner of the repository it is sent for. With several owners the job therefore raises
  the usage of each by what the others have sent; `DriftIsCorrected` says that this total
  is what usage becomes.
- `src/docs/git-repos.md:278-280` says that one owner can have a model and a dataset of
  the same name, and the comment of the unique key (`db/models/repo.py:19-22`) is written
  for that. The code keeps both in one directory `<owner>/<name>.git`, so `create_repo`
  refuses the second (`repos/create.py:103`), and lookups by name alone would raise
  on two rows. `OneHomePerRow` describes this code: there is one row per name, whatever
  its kind, and it holds because the second creation is refused.
- The lock registry keeps the reference of a cancelled wait (`repos/storage.py:109`).

Accounts and members
- An approve or deny that has read `pending` overwrites a ban (`auth/approval.py:231`),
  and of two overlapping settings the last audit entry need not be the stored value.
  The command line accepts a quota outside the range.
- `toggle_reaction` says it catches the `IntegrityError` of a double click; the
  unique key does refuse the second row, as an error to the caller.
- Likes and comments of a deleted repository stay, and appear under the next
  repository that gets its id. A deletion by an id read earlier can remove another
  user's row (excepted in `RemovalsAreOwn`). A logout only clears the browser's
  cookie.
- A token without the write scope can PUT LFS objects; the commit is then refused.

Spaces and GPUs
- Two Spaces that start together choose the same host port; the second is refused by
  podman, or, if the first has died in between, gets the port, so that podman cannot
  bring the first back (`spaces/runtime_manager.py:809`) and a call proxied to it reaches
  the wrong Space.
- Names joined by a hyphen can make two Spaces share a container name (the instance
  keeps them apart). A restart stops before it builds: a failed build leaves the
  Space stopped. `start` of a docker SDK Space is always refused, `restart` is not.
- A GPU assigned under another kind (`example.com/gpu=0`, `src/docs/spaces.md:305-311`,
  `src/tests/unit/test_spaces_cdi.py:1121`) is looked up in the spec of that kind, and its name
  there then goes out as `nvidia.com/gpu=0` (`spaces/runtime_manager.py:830`), which
  need not be defined or is another device; only the translation after a refusal delivers
  the device that was meant. When no spec can be read, the whole token is put behind
  `nvidia.com/gpu=`, which podman refuses.
- `_find_device` says an exact match always wins, but the normalisation that precedes
  it merges `gpu-0` and `0`. A second spec file of the same kind is not searched, and
  two GPUs of one spec deliver its spec-wide mounts twice.

Host
- `src/docs/admin.md:95-97` says to change `require_approval` in `config.yaml` and
  `restart`; the environment of the container is fixed by `start`, so neither
  `restart` nor a `start` of a running container of the same image applies it.
- `update --image X` migrates with X, and `start` then recreates from the configured
  image. The migration runs before the old container stops.
- `start` mounts the volume the configuration names (`cli/start.py:480`, `:575`;
  `src/docs/cli.md:143`), and the rest has `outo-models-data` written out:
  `assets/scripts/reset.sh:39`, `cli/reset.py:69`, `assets/scripts/update.sh:47` and the
  shim of `src/scripts/install-cli.sh:113`.
  With another name, reset leaves the data where it is although `src/docs/cli.md:399-404`
  promises the state of a first installation, and update and setup migrate a volume
  that the server does not use.
- An update that is refused by the socket or the configuration, or by the low ports in
  its `start`, has migrated the shared schema before
  (`assets/scripts/update.sh:80-85`, then `:115-116`, `:125-126`). The old container
  is kept, as `update.sh` says, and goes on serving, but it refuses to boot again with
  the schema of a later version. The promise at `cli/start.py:514-516` is made for the
  preflight of `start` itself and holds there.
- A holder, the volume or a file of the configuration that cannot be removed ends reset as
  failed with the rest still there; a second reset goes on from there.
- A blank domain with a host name as server address yields the provider `none` together
  with TLS, which `cli/setup/_collect.py:47-50` says the DNS factory never sees; it does, and
  refuses it, so that the DNS step ends the wizard.
- The renewal job builds its manager without the DNS provider (`server/app.py` 57-80):
  its reload drops the DNS-01 block the wizard had written.
- `write_config` is described as atomic and truncates first; an interrupted setup
  leaves a configuration that `start` accepts; a new setup makes a new secret key.
- `ensure_dns_record` (`cli/setup/_effect.py:134`) uses the Cloudflare provider
  without entering its context, so that step always ends the wizard unless skipped.

Client
- A resumed download can join two versions of a file (`downloader/transfer.py:51`;
  the comment there relies on `If-Range`, which is never sent), and the listing ignores
  the revision asked for (`TargetsAreComplete` says what remains true). LFS downloads
  ignore ranges; the digest is computed and not compared.
- Overlapping saves share `config.json.tmp`: updates are lost, and a torn store makes
  every command fail, `login` included. `config.py:18` says a login does not persist
  what comes from the environment; it does. `OMC_TOKEN` of another user is stored with
  the wrong name, and `OMC_TOKEN` for a server without an entry always fails in
  transfers, though `config.py:250-253` promises it works.

## 7. Not modelled

Rendering, parsing, logging, HTTP details and the wire format of git are left out.

- The S3 object store: as wired it completes no request (requests have no base URL,
  so every HEAD is an upstream error); the rest is signing and HTTP.
- Rate limiting: two key functions; the counters are a library's.
- The clients of Cloudflare and of the firewall tools: external calls without state
  here; they appear as steps of setup that succeed or fail. Caddy, podman, git, SQLite
  and `asyncio.Lock` are modelled from their use.
- Certificate parsing and probing: the renewal job is the choice to reload.
- Pruning of the audit log; editing of profiles, repository settings and texts; the
  download counter; model cards, HTML views, conditional requests; container logs and
  the websocket side of the proxy; migrations, apart from the refusal of a later schema.
- Reset of a development installation (a local data directory, `cli/reset.py:233-259`) and
  shims left by earlier installations; a reboot of the host.
- A repository that has both a file `x` and a file `x.part`, which the client would
  mix up; the spelling of server URLs, beyond their being normalised on the way in.
- `delete_object` of the object store has no caller in the program and is no action.
- Repository commands of omc: single requests without state of their own.
