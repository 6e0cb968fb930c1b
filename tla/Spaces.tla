------------------------------- MODULE Spaces -------------------------------
(***************************************************************************)
(* The runtime of Spaces: requests that start, stop, restart, delete and   *)
(* proxy Spaces, the repository lock they take, and the containers,        *)
(* images and exported sites they leave behind.  Podman is modelled from   *)
(* its use: it refuses a second container of one name and a second running *)
(* container on one host port, it may refuse or fail anything else, and it *)
(* restarts a container that dies, as "restart_policy": "always" asks.     *)
(*                                                                         *)
(* A step is what a request does between two calls of podman.  What a      *)
(* Space contains is a pair: which Space of that name it is, counting      *)
(* re-creations, and how often it has been pushed to.                      *)
(***************************************************************************)
EXTENDS Integers, Sequences, FiniteSets, FiniteSetsExt

CONSTANTS Req,        \* requests
          Space,      \* [owner, name], each a sequence of words
          GpuOwners,  \* owners with GPUs assigned
          Ports,      \* spaces_runtime_port_range
          MaxBorn,    \* bound on creations of Spaces
          MaxPush,    \* bound on pushes to two Spaces since their creation
          MaxFaults,  \* bound on crashes of the server
          None

VARIABLES
  row,         \* Space -> its number (0: no such Space)
  sdk,         \* Space -> SDK in the sidecar file
  head,        \* Space -> pushes so far
  site,        \* Space -> what its site directory was last exported from
  images,      \* tag -> content it was built from, or None
  containers,  \* name -> container, or None
  podman,      \* the engine: before or since 6.0
  lock,        \* REPO_LOCKS: Space -> holder or None
  req,         \* what each request does and knows
  born, faults \* counters

vars == <<row, sdk, head, site, images, containers, podman, lock, req, born, faults>>

(***************************************************************************)
(* Owner and name are joined by a hyphen, which both may contain.          *)
(***************************************************************************)
container_name(s) == s.owner \o s.name
Name == {container_name(s) : s \in Space}

Content == [space : Space, number : 1 .. MaxBorn, v : 0 .. MaxPush]
Container == [image : Content, port : Ports, gpu : {"none", "given", "lost"},
              wanted : BOOLEAN,
              solo : BOOLEAN,   \* history: its start was overlapped by nobody
              state : {"created", "running", "died", "exited"}]

ASSUME SpacesAssumption ==
  /\ Ports \subseteq Nat /\ None \notin Req \cup Container
  /\ \A s \in Space : s.owner \in Seq(STRING) /\ s.name \in Seq(STRING)
  /\ MaxBorn \in Nat /\ MaxPush \in Nat /\ MaxFaults \in Nat

Sdk == {"static", "gradio", "docker"}
Op == {"start", "stop", "restart", "delete", "proxy"}
Pc == {"idle", "lock", "stop", "context", "build", "remove", "allocate",
       "names", "create", "run", "edits", "again", "started", "forward",
       "ok", "failed"}
Ended == {"ok", "failed"}

Request ==
  [pc : Pc, op : Op, space : Space \cup {None},
   gpu : BOOLEAN,                     \* the owner has GPUs assigned
   sdk : Sdk,
   field : {"none", "gpus", "devices", "edits"},  \* how the GPU is asked for
   built : Content \cup {None},
   had : [image : Content, port : Ports] \cup {None},  \* history: what was there
   port : Ports \cup {None},
   alone : BOOLEAN,                   \* history: overlapped by nobody, nor
                                      \* was the start of what it proxies
   why : {"", "port"},                \* history: a port was refused
   reached : {"", "other"}]           \* history: another Space answered

Fresh == [pc |-> "idle", op |-> "proxy", space |-> None, gpu |-> FALSE,
          sdk |-> "static", field |-> "none", built |-> None, had |-> None,
          port |-> None, alone |-> TRUE, why |-> "", reached |-> ""]

TypeOK ==
  /\ row \in [Space -> 0 .. MaxBorn] /\ sdk \in [Space -> Sdk]
  /\ head \in [Space -> 0 .. MaxPush] /\ site \in [Space -> Content \cup {None}]
  /\ images \in [Name -> Content \cup {None}]
  /\ containers \in [Name -> Container \cup {None}]
  /\ podman \in {"before 6", "since 6"}
  /\ lock \in [Space -> Req \cup {None}]
  /\ req \in [Req -> Request]
  /\ born \in 0 .. MaxBorn /\ faults \in 0 .. MaxFaults

Init ==
  /\ row = [s \in Space |-> 0] /\ sdk = [s \in Space |-> "static"]
  /\ head = [s \in Space |-> 0] /\ site = [s \in Space |-> None]
  /\ images = [n \in Name |-> None] /\ containers = [n \in Name |-> None]
  /\ podman \in {"before 6", "since 6"}
  /\ lock = [s \in Space |-> None]
  /\ req = [r \in Req |-> Fresh]
  /\ born = 0 /\ faults = 0

At(r, pc) == req[r].pc = pc
NameOf(r) == container_name(req[r].space)
Mine(r) == containers[NameOf(r)]
Contents(c) == IF c = None THEN None ELSE [image |-> c.image, port |-> c.port]
Tree(s) == [space |-> s, number |-> row[s], v |-> head[s]]
Active(r) == req[r].pc \notin {"idle"} \cup Ended
Move(r, record) == req' = [req EXCEPT ![r] = record]
Goto(r, pc) == Move(r, [req[r] EXCEPT !.pc = pc])
Unlocked(s) == lock[s] = None
host == <<row, sdk, head, born, faults>>   \* what the runtime never changes

(***************************************************************************)
(* The ends of _run_lifecycle.  An OutoError is raised again after its     *)
(* audit row, anything else goes through (Break): both are "failed" here.  *)
(***************************************************************************)
End(r, pc, why) ==
  Move(r, [Fresh EXCEPT !.pc = pc, !.why = why,
             !.alone = why = "port" => req[r].alone])
KeepLock(r) == UNCHANGED lock            \* mutant: no finally
Free(r) == lock' = [lock EXCEPT ![req[r].space] = None]
Succeed(r) == End(r, "ok", "") /\ Free(r)
Fail(r, why) == End(r, "failed", why) /\ Free(r)
Break(r) == Fail(r, "")
-----------------------------------------------------------------------------
(***************************************************************************)
(* Spaces come and go through the registry; pushes come from RepoStore.    *)
(***************************************************************************)
create_space(s) ==
  /\ row[s] = 0 /\ born < MaxBorn
  /\ Unlocked(s)
  /\ \E kind \in Sdk : sdk' = [sdk EXCEPT ![s] = kind]
  /\ row' = [row EXCEPT ![s] = born + 1]
  /\ head' = [head EXCEPT ![s] = 0]
  /\ born' = born + 1
  /\ UNCHANGED <<site, images, containers, podman, lock, req, faults>>

Push(s) ==
  /\ row[s] # 0 /\ head[s] < MaxPush
  /\ \A t \in Space \ {s} : head[s] + head[t] < MaxPush
  /\ head' = [head EXCEPT ![s] = @ + 1]
  /\ UNCHANGED <<row, sdk, site, images, containers, podman, lock, req,
                 born, faults>>

delete_space(r) ==   \* the container, its image and the site stay
  LET s == req[r].space
  IN  /\ At(r, "lock") /\ req[r].op = "delete" /\ Unlocked(s)
      /\ row' = [row EXCEPT ![s] = 0]
      /\ \E kind \in {sdk[s], "static"} :   \* /api/repos leaves the sidecar
           sdk' = [sdk EXCEPT ![s] = kind]
      /\ End(r, "ok", "")
      /\ UNCHANGED <<head, site, images, containers, podman, lock, born, faults>>
-----------------------------------------------------------------------------
Others(r) == {q \in Req \ {r} : Active(q) /\ req[q].op # "proxy"}

Begin(r) ==          \* get_space, the owner's GPUs, the sidecar
  /\ At(r, "idle")
  /\ \E s \in Space, op \in Op \ {"proxy"} :
       /\ row[s] # 0
       /\ req' = [q \in Req |->
            IF q = r THEN [Fresh EXCEPT !.pc = "lock", !.op = op, !.space = s,
                             !.gpu = s.owner \in GpuOwners, !.sdk = sdk[s],
                             !.alone = Others(r) = {}]
            ELSE IF Active(q) THEN [req[q] EXCEPT !.alone = FALSE]
            ELSE req[q]]
  /\ UNCHANGED <<host, site, images, containers, podman, lock>>

RunStatic(r) ==      \* export_static_site writes over what is there
  LET s == req[r].space
  IN  /\ At(r, "lock") /\ req[r].op \in {"start", "stop", "restart"}
      /\ Unlocked(s) /\ req[r].sdk = "static"
      /\ \/ /\ req[r].op = "stop"
            /\ Succeed(r) /\ UNCHANGED site
         \/ /\ req[r].op # "stop" /\ row[s] # 0
            /\ site' = [site EXCEPT ![s] = IF head[s] = 0 THEN @ ELSE Tree(s)]
            /\ Succeed(r)
         \/ /\ req[r].op # "stop" /\ row[s] = 0
            /\ Break(r) /\ UNCHANGED site
      /\ UNCHANGED <<host, images, containers, podman>>

RefuseDocker(r) ==   \* the Dockerfile is looked for in the bare repository
  /\ At(r, "lock") /\ req[r].op = "start" /\ req[r].sdk = "docker"
  /\ Unlocked(req[r].space)
  /\ Fail(r, "")
  /\ UNCHANGED <<host, site, images, containers, podman>>

Acquire(r) ==
  LET s == req[r].space
  IN  /\ At(r, "lock") /\ Unlocked(s) /\ req[r].sdk # "static"
      /\ req[r].op \in {"start", "stop", "restart"}
      /\ req[r].op = "start" => req[r].sdk # "docker"
      /\ lock' = [lock EXCEPT ![s] = r]
      /\ Move(r, [req[r] EXCEPT !.had = Contents(Mine(r)),
                    !.sdk = Fresh.sdk,        \* not asked for again
                    !.pc = IF req[r].op = "start" THEN "context" ELSE "stop"])
      /\ UNCHANGED <<host, site, images, containers, podman>>

StopContainer(r) ==  \* no container: 404, which is an error
  /\ At(r, "stop")
  /\ \/ /\ Mine(r) # None
        /\ containers' = [containers EXCEPT ![NameOf(r)].state = "exited"]
        /\ IF req[r].op = "stop" THEN Succeed(r)
           ELSE Goto(r, "context") /\ UNCHANGED lock
     \/ Fail(r, "") /\ UNCHANGED containers
  /\ UNCHANGED <<host, site, images, podman>>

HoistedRemoval(r) ==       \* mutant: the old container goes before the build
  LET s == req[r].space
  IN  /\ At(r, "context") /\ row[s] # 0
      /\ containers' = [containers EXCEPT ![NameOf(r)] = None]
      /\ Move(r, [req[r] EXCEPT !.pc = "build", !.built = Tree(s)])
      /\ UNCHANGED <<host, lock, site, images, podman>>

make_build_context(r) ==   \* a deleted repository raises no OutoError
  LET s == req[r].space
  IN  /\ At(r, "context")
      /\ \/ /\ row[s] = 0 /\ Break(r)
         \/ /\ row[s] # 0
            /\ Move(r, [req[r] EXCEPT !.pc = "build", !.built = Tree(s)])
            /\ UNCHANGED lock
      /\ UNCHANGED <<host, site, images, containers, podman>>

build_image(r) ==
  /\ At(r, "build")
  /\ \/ /\ images' = [images EXCEPT ![NameOf(r)] = req[r].built]
        /\ Goto(r, "remove") /\ UNCHANGED lock
     \/ Fail(r, "") /\ UNCHANGED images
  /\ UNCHANGED <<host, site, containers, podman>>
-----------------------------------------------------------------------------
(***************************************************************************)
(* SpaceRuntimeManager.start                                               *)
(***************************************************************************)
RemoveOld(r) ==
  /\ At(r, "remove")
  /\ \/ /\ containers' = [containers EXCEPT ![NameOf(r)] = None]
        /\ Goto(r, "allocate") /\ UNCHANGED lock
     \/ Fail(r, "") /\ UNCHANGED containers
  /\ UNCHANGED <<host, site, images, podman>>

Serving(c) == c # None /\ c.state = "running"
Listening(port) == {n \in Name : Serving(containers[n]) /\ containers[n].port = port}

NoPorts == {}                \* mutant: the listing is not asked for
RunningPorts ==              \* mutant: the listing asks for running ones only
  {containers[n].port : n \in {m \in Name : Serving(containers[m])}}
used_ports == {containers[n].port : n \in {m \in Name : containers[m] # None}}

allocate_host_port(r) ==
  LET free == Ports \ used_ports
  IN  /\ At(r, "allocate")
      /\ IF free = {} THEN Fail(r, "")
         ELSE /\ Move(r, [req[r] EXCEPT !.port = Min(free), !.had = None,
                            !.pc = IF req[r].gpu THEN "names" ELSE "create"])
              /\ UNCHANGED lock
      /\ UNCHANGED <<host, site, images, containers, podman>>

NewField(known) == "gpus"    \* mutant: whatever the version
GpuField(known) == IF known /\ podman = "since 6" THEN "gpus" ELSE "devices"

gpu_device_names(r) ==
  /\ At(r, "names")
  /\ \/ Fail(r, "")             \* the specs do not define the device
     \/ /\ \E known \in BOOLEAN :    \* podman_version may answer nothing
             Move(r, [req[r] EXCEPT !.pc = "create",
                        !.field = GpuField(known)])
        /\ UNCHANGED lock
  /\ UNCHANGED <<host, site, images, containers, podman>>

(***************************************************************************)
(* A refusal is final without a GPU, and after the translated attempt.     *)
(***************************************************************************)
Refused(r, why) ==
  IF req[r].gpu /\ req[r].field # "edits"
    THEN /\ Move(r, [req[r] EXCEPT !.pc = "edits", !.why = why])
         /\ UNCHANGED lock
    ELSE Fail(r, why)

\* An engine before 6.0 drops the unknown field "gpus" without a word.
GpuOf(r) == IF ~req[r].gpu THEN "none"
            ELSE IF req[r].field = "gpus" /\ podman = "before 6" THEN "lost"
            ELSE "given"

CreateContainer(r) ==
  /\ At(r, "create")
  /\ \/ /\ Mine(r) = None /\ images[NameOf(r)] # None
        /\ containers' = [containers EXCEPT ![NameOf(r)] =
             [image |-> images[NameOf(r)], port |-> req[r].port,
              gpu |-> GpuOf(r), wanted |-> req[r].gpu, solo |-> req[r].alone,
              state |-> "created"]]
        /\ Goto(r, "run") /\ UNCHANGED lock
     \/ Refused(r, "") /\ UNCHANGED containers
  /\ UNCHANGED <<host, site, images, podman>>

StartContainer(r) ==
  /\ At(r, "run")
  /\ \/ /\ Mine(r) # None /\ Listening(Mine(r).port) = {}
        /\ containers' = [containers EXCEPT ![NameOf(r)].state = "running"]
        /\ Goto(r, "started") /\ UNCHANGED lock
     \/ /\ Mine(r) # None /\ Listening(Mine(r).port) # {}
        /\ Refused(r, "port") /\ UNCHANGED containers
     \/ Refused(r, "") /\ UNCHANGED containers
  /\ UNCHANGED <<host, site, images, podman>>

retry_translated(r) ==   \* resolve_edits, then the half-made container goes
  /\ At(r, "edits")
  /\ \/ Fail(r, req[r].why) /\ UNCHANGED containers
     \/ /\ containers' = [containers EXCEPT ![NameOf(r)] = None]
        /\ Move(r, [req[r] EXCEPT !.field = "edits", !.pc = "create"])
        /\ UNCHANGED lock
  /\ UNCHANGED <<host, site, images, podman>>

Started(r) ==        \* runtime_status, the audit row, the answer
  /\ At(r, "started")
  /\ Succeed(r)
  /\ UNCHANGED <<host, site, images, containers, podman>>
-----------------------------------------------------------------------------
Status(c) == Serving(c)      \* the inspected state is "running"

proxy_dispatch(r) ==     \* the port is looked up
  /\ ~Active(r)
  /\ \E s \in Space :
       LET c == containers[container_name(s)]
       IN  /\ row[s] # 0 /\ sdk[s] # "static"
           /\ Status(c)
           /\ Move(r, [Fresh EXCEPT !.pc = "forward", !.space = s,
                         !.port = c.port, !.had = Contents(c),
                         !.alone = Others(r) = {} /\ c.solo])
  /\ UNCHANGED <<host, site, images, containers, podman, lock>>

stream_proxy_response(r) ==   \* whoever listens there answers
  LET there == Listening(req[r].port)
  IN  /\ At(r, "forward")
      /\ IF there = {} THEN Move(r, [Fresh EXCEPT !.pc = "failed"])
         ELSE \E n \in there :
                LET own == containers[n].image = req[r].had.image
                IN  Move(r, [Fresh EXCEPT !.pc = "ok",
                               !.alone = own \/ req[r].alone,
                               !.reached = IF own THEN "" ELSE "other"])
      /\ UNCHANGED <<host, site, images, containers, podman, lock>>
-----------------------------------------------------------------------------
Becomes(n, state) ==
  /\ containers' = [containers EXCEPT ![n].state = state]
  /\ UNCHANGED <<host, site, images, podman, lock, req>>

ContainerDies(n) == Serving(containers[n]) /\ Becomes(n, "died")

\* Nobody asks for it: podman does it, on the port the container has.
ContainerRestarts(n) ==
  /\ containers[n] # None /\ containers[n].state = "died"
  /\ \/ Listening(containers[n].port) = {} /\ Becomes(n, "running")
     \/ Becomes(n, "exited")             \* it cannot, and leaves it

Crash ==
  /\ faults < MaxFaults
  /\ faults' = faults + 1
  /\ req' = [r \in Req |-> IF Active(r)
                              THEN [Fresh EXCEPT !.pc = "failed"] ELSE req[r]]
  /\ lock' = [s \in Space |-> None]
  /\ UNCHANGED <<row, sdk, head, born, site, images, containers, podman>>

Step(r) ==
  \/ delete_space(r) \/ RunStatic(r) \/ RefuseDocker(r) \/ Acquire(r)
  \/ StopContainer(r) \/ make_build_context(r) \/ build_image(r)
  \/ RemoveOld(r) \/ allocate_host_port(r) \/ gpu_device_names(r)
  \/ CreateContainer(r) \/ StartContainer(r) \/ retry_translated(r)
  \/ Started(r) \/ stream_proxy_response(r)

Next ==
  \/ \E s \in Space : create_space(s) \/ Push(s)
  \/ \E r \in Req : Begin(r) \/ proxy_dispatch(r) \/ Step(r)
  \/ \E n \in Name : ContainerDies(n) \/ ContainerRestarts(n)
  \/ Crash

Spec == Init /\ [][Next]_vars

(***************************************************************************)
(* The server serves every request and podman answers every call.         *)
(***************************************************************************)
FairSpec == Spec /\ \A r \in Req : WF_vars(Step(r))
-----------------------------------------------------------------------------
(***************************************************************************)
(* "Ordering is load-bearing" in SpaceRuntimeManager.start: whatever ran   *)
(* when a start took the lock is still there until the new image is built, *)
(* so a build that fails takes nothing away.                               *)
(***************************************************************************)
StartKeepsUntilBuilt ==
  \A r \in Req :
    req[r].pc \in {"context", "build", "remove"} /\ req[r].had # None
      => /\ Mine(r) # None
         /\ Mine(r).image = req[r].had.image /\ Mine(r).port = req[r].had.port

(***************************************************************************)
(* A start that reports success made the container of that name: it runs   *)
(* (or ran) what this request built, with the GPU this request asked for   *)
(* (an engine that ignores the request for it, the reason podman_version   *)
(* is asked for, does not get that far), however many other requests,      *)
(* re-creations and crashes came between.                                  *)
(***************************************************************************)
StartedRunsTheBuild ==
  \A r \in Req : At(r, "started") =>
    /\ Mine(r) # None
    /\ Mine(r).image = req[r].built /\ Mine(r).wanted = req[r].gpu
    /\ Mine(r).gpu = IF req[r].gpu THEN "given" ELSE "none"
    /\ Mine(r).port = req[r].port /\ Mine(r).state # "created"

(***************************************************************************)
(* A start that no other lifecycle overlaps is never refused its port,     *)
(* whatever stopped, created or abandoned containers are still listed.     *)
(***************************************************************************)
SoloStartsGetAPort ==
  \A r \in Req : At(r, "failed") /\ req[r].alone => req[r].why # "port"

(***************************************************************************)
(* A call proxied while no lifecycle runs, to a container whose start no   *)
(* other lifecycle overlapped, is answered by that container: whatever     *)
(* died and was restarted by podman between the lookup of the port and the *)
(* call, no other container has been given that port, since the listing    *)
(* counts the stopped and the dead.  (Starts that overlap may choose one   *)
(* port for two containers, and then this fails.)                          *)
(***************************************************************************)
ProxyReachesItsSpace ==
  \A r \in Req : req[r].reached = "other" => ~req[r].alone

(***************************************************************************)
(* Every lifecycle request ends, also when it meets a deleted Space, a     *)
(* failed build or a crash: no path out of _run_lifecycle keeps the lock.  *)
(***************************************************************************)
LifecyclesEnd == \A r \in Req : Active(r) ~> req[r].pc \in Ended
=============================================================================
