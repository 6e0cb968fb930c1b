----------------------------- MODULE CommandProofs -----------------------------
(***************************************************************************)
(* Proofs about the commands: those an operator gives (Host), and the two  *)
(* parts of the omc client, `download' (Download) and the store of tokens  *)
(* it shares with `auth' and `upload' (Credentials).  Each part has its    *)
(* own variables, and what is proved about one says nothing of the others. *)
(*                                                                         *)
(* Host: TypeOK, StartedRunsTheTag, RefusalsKeepTheServer and              *)
(* ResetIsComplete hold for any tags, versions, providers and number of    *)
(* configurations.  They speak of what a finished command reports.  The    *)
(* inductive invariant says what its steps have established: until a       *)
(* command removes the container, the server is the one it found, and until *)
(* it moves the schema that server boots if it did; from the reading of the *)
(* configuration on, that is whole; a started container is of the image the *)
(* tag names; and a reset has cleared what it has passed.                   *)
(***************************************************************************)
EXTENDS Host, TLAPS, SequenceTheorems, NaturalsInduction, WellFoundedInduction


USE HostAssumption

Early == {"write", "written", "dns", "firewall", "low_ports", "bootstrap",
          "caddyfile", "pull", "migrate", "socket", "load", "inspect", "preflight"}
AfterLoad == {"inspect", "preflight", "remove", "run", "verify"}
SetupSteps == {"write", "written", "dns", "firewall", "low_ports", "bootstrap", "caddyfile"}
UpdateOnly == {"pull", "migrate", "socket"}
Unmigrated == {"write", "written", "dns", "firewall", "low_ports", "bootstrap",
               "pull", "migrate"}
Checks == {"load", "inspect", "preflight"}
Refusals == {"low_ports_blocked", "pull_failed", "migrate_failed",
             "no_host_socket", "config_error"}

RunsTheTag == Whole /\ box # NoBox /\ box.image = local[config.tag]
Cleared == /\ box = NoBox /\ data[DefaultVolume] = 0 /\ holders = 0
           /\ config = Absent /\ caddyfile = Absent

Reached(pc) ==
    /\ pc \in SetupSteps => op.cmd = "setup"
    /\ pc \in UpdateOnly => op.cmd = "update"
    /\ pc \in {"pull", "migrate"} => op.tag \in Tags
    /\ pc \in Early => op.was = Server
    /\ pc \in Unmigrated => (op.boots => Boots)
    /\ pc \in Checks => op.cmd = "update" \/ (op.boots => Boots)
    /\ pc \in AfterLoad => Whole
    /\ pc = "verify" => RunsTheTag
    /\ pc \in {"sweep", "rm_volume", "wipe"} => box = NoBox
    /\ pc \in {"rm_volume", "wipe"} => holders = 0
    /\ pc = "wipe" => data[DefaultVolume] = 0

Reported == StartedRunsTheTag /\ RefusalsKeepTheServer /\ ResetIsComplete

IInv == TypeOK /\ Reached(op.pc) /\ Reported

\* The part of TypeOK that is not about the command.
HostTyped == /\ registry \in [Tags -> Versions] /\ local \in [Tags -> Versions]
             /\ config \in Configs \cup {Absent, Torn}
             /\ caddyfile \in {Absent, "plain", "http01", "dns01"}
             /\ data \in [Volumes -> Versions \cup {0}]
             /\ box \in Boxes \cup {NoBox}
             /\ holders \in 0..1 /\ blocked \in BOOLEAN /\ writes \in 0..MaxWrites
-----------------------------------------------------------------------------
(***************************************************************************)
(* How a command begins, goes on and ends.                                 *)
(***************************************************************************)
LEMMA OpFacts ==
  ASSUME TypeOK
  PROVE  /\ HostTyped
         /\ op # Idle => op \in Ops /\ result = Nothing /\ op.cmd # "none"
         /\ \A o \in Ops : o # Idle /\ o.pc \in Pcs /\ o.was \in Servers
         /\ Idle.pc = "idle" /\ Idle.cmd = "none"
<1>1. \A o \in Ops : o.cmd # "none" /\ o.pc \in Pcs /\ o.was \in Servers
  BY DEF Ops
<1>2. Idle.pc = "idle" /\ Idle.cmd = "none"
  BY DEF Idle
<1>3. \A o \in Ops : o # Idle
  BY <1>1, <1>2
<1> QED
  BY <1>1, <1>2, <1>3 DEF TypeOK, HostTyped

LEMMA BeginKeeps ==
  ASSUME IInv, NEW command \in Ops, Begin(command), HostTyped',
         command.cmd = "setup" => writes' > 0,
         command.was = Server', command.boots = Boots',
         command.pc \in {"write", "load", "pull", "rm_box"},
         command.pc = "write" => command.cmd = "setup",
         command.pc = "pull" => command.cmd = "update" /\ command.tag \in Tags
  PROVE  IInv'
<1>1. op' = command /\ result' = Nothing
  BY DEF Begin
<1>2. TypeOK'
  BY <1>1 DEF TypeOK, HostTyped
<1>3. Reported'
  BY <1>1 DEF Nothing, Reported, StartedRunsTheTag, RefusalsKeepTheServer,
              ResetIsComplete
<1>4. Reached(op.pc)'
  BY <1>1 DEF Reached, Early, AfterLoad, SetupSteps, UpdateOnly, Unmigrated, Checks
<1> QED
  BY <1>2, <1>3, <1>4 DEF IInv

LEMMA GotoKeeps ==
  ASSUME IInv, op # Idle, NEW pc \in Pcs, Goto(pc), HostTyped', writes' = writes,
         pc \in SetupSteps => op.cmd = "setup",
         pc \in UpdateOnly => op.cmd = "update",
         pc \in {"pull", "migrate"} => op.tag \in Tags,
         pc \in Early => op.was = Server',
         pc \in Unmigrated => (op.boots => Boots'),
         pc \in Checks => op.cmd = "update" \/ (op.boots => Boots'),
         pc \in AfterLoad => Whole', pc = "verify" => RunsTheTag',
         pc \in {"sweep", "rm_volume", "wipe"} => box' = NoBox,
         pc \in {"rm_volume", "wipe"} => holders' = 0,
         pc = "wipe" => data'[DefaultVolume] = 0
  PROVE  IInv'
<1>1. op \in Ops /\ result = Nothing /\ result' = Nothing
  BY OpFacts DEF IInv, Goto
<1>2. /\ op' \in Ops /\ op'.pc = pc /\ op'.was = op.was /\ op'.cmd = op.cmd
      /\ op'.tag = op.tag /\ op'.boots = op.boots
  BY <1>1 DEF Goto, Ops
<1>3. TypeOK'
  BY <1>1, <1>2 DEF IInv, TypeOK, HostTyped
<1>4. Reported'
  BY <1>1 DEF Nothing, Reported, StartedRunsTheTag, RefusalsKeepTheServer,
              ResetIsComplete
<1>5. Reached(op.pc)'
  BY <1>2 DEF Reached
<1> QED
  BY <1>3, <1>4, <1>5 DEF IInv

LEMMA ExitKeeps ==
  ASSUME IInv, op # Idle, NEW code, Exit(code), HostTyped',
         code = "up" => RunsTheTag', code \in Refusals => op.was = Server',
         code \in Refusals => \/ op.cmd = "update" /\ code \notin {"pull_failed", "migrate_failed"}
                              \/ op.boots => Boots',
         code # "volume_busy", code = "reset" => Cleared'
  PROVE  IInv'
<1>1. /\ op' = Idle /\ result'.code = code /\ result'.was = op.was
      /\ result'.cmd = op.cmd /\ result'.boots = op.boots
  BY DEF Exit
<1>2. op'.pc = "idle" /\ op'.cmd = "none"
  BY <1>1, OpFacts DEF IInv
<1>3. TypeOK'
  BY <1>1, <1>2 DEF TypeOK, HostTyped
<1>4. Reported'
  BY <1>1 DEF Reported, StartedRunsTheTag, RefusalsKeepTheServer, PastMigration,
              ResetIsComplete, Refusals, RunsTheTag, Cleared
<1>5. Reached(op.pc)'
  BY <1>2 DEF Reached, Early, AfterLoad, SetupSteps, UpdateOnly, Unmigrated, Checks
<1> QED
  BY <1>3, <1>4, <1>5 DEF IInv
-----------------------------------------------------------------------------
(***************************************************************************)
(* The environment, and the server in the container: a container may stop, *)
(* and what runs in it may change, but it stays the container it is.       *)
(***************************************************************************)
LEMMA SameBox ==
  ASSUME box \in Boxes, box' \in Boxes, box'.image = box.image,
         box'.values = box.values, box'.mode = box.mode, box'.volume = box.volume
  PROVE  Server' = Server
BY DEF Server

\* What runs in the container moves no schema but to that of its own code.
LEMMA SameSchema ==
  ASSUME HostTyped, box \in Boxes, box' \in Boxes, box'.image = box.image,
         box'.volume = box.volume,
         data' = data \/ data' = [data EXCEPT ![box.volume] = box.image]
  PROVE  Boots => Boots'
<1>1. box # NoBox /\ box' # NoBox /\ box.image \in Nat /\ box.volume \in Volumes
  BY DEF Boxes
<1> QED
  BY <1>1 DEF HostTyped, Boots, CanMigrate

LEMMA EnvironmentKeeps ==
  ASSUME IInv, UNCHANGED <<local, files, holders, writes, op, result>>,
         registry' \in [Tags -> Versions], blocked' \in BOOLEAN,
         data' \in [Volumes -> Versions \cup {0}],
         \/ box' = box /\ data' = data
         \/ /\ box \in Boxes /\ box' \in Boxes /\ box'.image = box.image
            /\ box'.values = box.values /\ box'.mode = box.mode
            /\ box'.volume = box.volume
            /\ data' = data \/ data' = [data EXCEPT ![box.volume] = box.image]
  PROVE  IInv'
<1>1. HostTyped /\ UNCHANGED <<config, caddyfile>>
  BY OpFacts DEF IInv, files
<1>2. TypeOK'
  BY <1>1 DEF IInv, TypeOK, HostTyped
<1>3. CASE box' = box /\ data' = data
  <2>1. Server' = Server /\ Boots' = Boots /\ Whole' = Whole /\ RunsTheTag' = RunsTheTag
    BY <1>1, <1>3 DEF Server, Boots, CanMigrate, Whole, RunsTheTag
  <2>2. Reached(op.pc)'
    BY <1>3, <2>1 DEF IInv, Reached
  <2>3. Reported'
    BY <1>1, <1>3, <2>1 DEF IInv, Reported, StartedRunsTheTag, RefusalsKeepTheServer,
         ResetIsComplete
  <2> QED
    BY <1>2, <2>2, <2>3 DEF IInv
<1>4. CASE /\ box \in Boxes /\ box' \in Boxes /\ box'.image = box.image
           /\ box'.values = box.values /\ box'.mode = box.mode
           /\ box'.volume = box.volume
           /\ data' = data \/ data' = [data EXCEPT ![box.volume] = box.image]
  <2>1. Server' = Server /\ (Boots => Boots')
    BY <1>1, <1>4, SameBox, SameSchema
  <2>2. box # NoBox /\ box' # NoBox /\ Whole' = Whole
    BY <1>1, <1>4 DEF Whole
  <2>3. RunsTheTag' = RunsTheTag
    BY <1>1, <1>4, <2>2 DEF RunsTheTag
  <2>4. Reached(op.pc)'
    BY <2>1, <2>2, <2>3 DEF IInv, Reached
  <2>5. Reported'
    BY <1>1, <1>4, <2>1, <2>2 DEF IInv, Reported, StartedRunsTheTag,
         RefusalsKeepTheServer, ResetIsComplete
  <2> QED
    BY <1>2, <2>4, <2>5 DEF IInv
<1> QED
  BY <1>3, <1>4

LEMMA EnvironmentSteps ==
  ASSUME IInv, \/ Publish \/ Sysctl \/ ContainerDies
               \/ spawn_caddy \/ lifespan \/ cert_renewal_job
  PROVE  IInv'
<1>1. HostTyped
  BY OpFacts DEF IInv
<1>2. CASE Publish
  BY <1>1, <1>2, EnvironmentKeeps DEF Publish, HostTyped
<1>3. CASE Sysctl
  BY <1>1, <1>3, EnvironmentKeeps DEF Sysctl, HostTyped, images
<1>4. CASE ContainerDies
  <2>1. box \in Boxes /\ box' = Halted("exited") /\ UNCHANGED <<data, registry, blocked>>
    BY <1>1, <1>4 DEF ContainerDies, Running, HostTyped, images, host
  <2>2. /\ box' \in Boxes /\ box'.image = box.image
        /\ box'.values = box.values /\ box'.mode = box.mode /\ box'.volume = box.volume
    BY <2>1 DEF Halted, Boxes
  <2> QED
    BY <1>1, <1>4, <2>1, <2>2, EnvironmentKeeps DEF ContainerDies, HostTyped, images, host
<1>5. CASE spawn_caddy
  <2>1. box \in Boxes /\ box' = [box EXCEPT !.caddy = resolve_caddyfile]
    BY <1>1, <1>5 DEF spawn_caddy, Running, HostTyped
  <2>2. resolve_caddyfile \in {"down", "plain", "http01", "dns01"}
    BY <1>1 DEF resolve_caddyfile, from_settings, HostTyped
  <2>3. /\ box' \in Boxes /\ box'.image = box.image
        /\ box'.values = box.values /\ box'.mode = box.mode /\ box'.volume = box.volume
    BY <2>1, <2>2 DEF Boxes
  <2> QED
    BY <1>1, <1>5, <2>1, <2>3, EnvironmentKeeps DEF spawn_caddy, HostTyped, images
<1>6. CASE lifespan
  <2>1. box \in Boxes
    BY <1>1, <1>6 DEF lifespan, Running, HostTyped
  <2>2. /\ box' \in Boxes /\ box'.image = box.image
        /\ box'.values = box.values /\ box'.mode = box.mode /\ box'.volume = box.volume
        /\ data' \in [Volumes -> Versions \cup {0}]
        /\ data' = data \/ data' = [data EXCEPT ![box.volume] = box.image]
    <3>1. CASE data' = [data EXCEPT ![box.volume] = box.image] /\ box' = [box EXCEPT !.app = "up"]
      <4>1. data' \in [Volumes -> Versions \cup {0}]
        BY <1>1, <2>1, <3>1 DEF HostTyped, Boxes
      <4> QED
        BY <2>1, <3>1, <4>1 DEF Boxes
    <3>2. CASE box' = Halted("exited") /\ data' = data
      <4>1. data' \in [Volumes -> Versions \cup {0}]
        BY <1>1, <3>2 DEF HostTyped
      <4> QED
        BY <2>1, <3>2, <4>1 DEF Halted, Boxes
    <3> QED
      BY <1>6, <3>1, <3>2 DEF lifespan
  <2> QED
    BY <1>1, <1>6, <2>1, <2>2, EnvironmentKeeps DEF lifespan, HostTyped, images
<1>7. CASE cert_renewal_job
  <2>1. box \in Boxes /\ box' = [box EXCEPT !.caddy = from_settings(box.mode)]
    BY <1>1, <1>7 DEF cert_renewal_job, renewal_job, reload, Scheduled, Running, HostTyped
  <2>2. from_settings(box.mode) \in {"down", "plain", "http01", "dns01"}
    BY DEF from_settings
  <2>3. /\ box' \in Boxes /\ box'.image = box.image
        /\ box'.values = box.values /\ box'.mode = box.mode /\ box'.volume = box.volume
    BY <2>1, <2>2 DEF Boxes
  <2> QED
    BY <1>1, <1>7, <2>1, <2>3, EnvironmentKeeps DEF cert_renewal_job, HostTyped, images
<1> QED
  BY <1>2, <1>3, <1>4, <1>5, <1>6, <1>7
-----------------------------------------------------------------------------
(***************************************************************************)
(* setup: no step of it touches the container.                             *)
(***************************************************************************)
LEMMA ServerTyped ==
  ASSUME HostTyped
  PROVE  Server \in Servers /\ Boots \in BOOLEAN
<1>1. CASE box = NoBox
  BY <1>1 DEF Server, Servers, Boots
<1>2. CASE box # NoBox
  <2>1. /\ box.image \in Versions /\ box.values \in 1..MaxWrites /\ box.mode \in Modes
        /\ box.volume \in Volumes
    BY <1>2 DEF HostTyped, Boxes
  <2>2. Boots \in BOOLEAN
    BY <1>2 DEF Boots, CanMigrate
  <2> QED
    BY <1>2, <2>1, <2>2 DEF Server, Servers
<1> QED
  BY <1>1, <1>2

\* Where a command that runs is.
LEMMA Here ==
  ASSUME IInv, NEW pc, At(pc), pc # "idle"
  PROVE  /\ HostTyped /\ op # Idle /\ op \in Ops /\ Reached(pc) /\ op.pc = pc
BY OpFacts DEF IInv, At

LEMMA SetupBegins ==
  ASSUME IInv, BeginSetup
  PROVE  IInv'
<1>1. HostTyped /\ HostTyped' /\ writes' > 0 /\ Server' = Server /\ Boots' = Boots
  BY OpFacts DEF IInv, BeginSetup, HostTyped, images, files, Server, Boots, CanMigrate
<1>2. PICK a \in collect_answers :
        Begin([cmd |-> "setup", pc |-> "write", tag |-> a.tag, mode |-> a.mode,
               was |-> Server, boots |-> Boots])
  BY DEF BeginSetup
<1>3. a.tag \in Tags /\ a.mode \in Modes
  BY DEF collect_answers, collect_mode, Modes
<1> DEFINE command == [cmd |-> "setup", pc |-> "write", tag |-> a.tag, mode |-> a.mode,
                       was |-> Server, boots |-> Boots]
<1>4. command \in Ops
  BY <1>1, <1>3, ServerTyped DEF Ops, Pcs
<1> QED
  BY <1>1, <1>2, <1>4, BeginKeeps

LEMMA SetupSteps1 ==
  ASSUME IInv, \/ write_config \/ ensure_dns_record \/ open_firewall_ports
  PROVE  IInv'
<1>1. CASE write_config
  <2>1. HostTyped /\ op # Idle /\ op \in Ops /\ Reached(op.pc) /\ op.pc \in {"write", "written"}
    BY <1>1, Here DEF write_config, At
  <2>2. op.cmd = "setup" /\ op.was = Server /\ (op.boots => Boots)
    BY <2>1 DEF Reached, SetupSteps, Early, Unmigrated
  <2>3. op.tag \in Tags /\ op.mode \in Modes /\ writes \in 1..MaxWrites
    BY <2>1, <2>2 DEF Ops, IInv, TypeOK, HostTyped
  <2>4. config' \in Configs \cup {Torn}
    BY <1>1, <2>3 DEF write_config, Configs
  <2>5. HostTyped' /\ Server' = Server /\ Boots' = Boots /\ writes' = writes
    BY <1>1, <2>1, <2>4 DEF write_config, HostTyped, images, Server, Boots, CanMigrate
  <2>6. Goto("written") \/ Goto("dns")
    BY <1>1 DEF write_config
  <2> QED
    BY <2>1, <2>2, <2>5, <2>6, GotoKeeps
       DEF Pcs, SetupSteps, AfterLoad, UpdateOnly, Unmigrated, Checks
<1>2. CASE ensure_dns_record
  <2>1. HostTyped /\ op # Idle /\ Reached("dns")
    BY <1>2, Here DEF ensure_dns_record
  <2>2. op.cmd = "setup" /\ op.was = Server /\ (op.boots => Boots)
    BY <2>1 DEF Reached, SetupSteps, Early, Unmigrated
  <2>3. HostTyped' /\ Server' = Server /\ Boots' = Boots /\ writes' = writes
    BY <1>2, <2>1 DEF ensure_dns_record, HostTyped, images, files, Server, Boots, CanMigrate
  <2>4. Goto("firewall") \/ Exit("dns_failed")
    BY <1>2 DEF ensure_dns_record
  <2> QED
    BY <2>1, <2>2, <2>3, <2>4, GotoKeeps, ExitKeeps
       DEF Pcs, SetupSteps, AfterLoad, Refusals, UpdateOnly, Unmigrated, Checks
<1>3. CASE open_firewall_ports
  <2>1. HostTyped /\ op # Idle /\ Reached("firewall")
    BY <1>3, Here DEF open_firewall_ports
  <2>2. op.cmd = "setup" /\ op.was = Server /\ (op.boots => Boots)
    BY <2>1 DEF Reached, SetupSteps, Early, Unmigrated
  <2>3. HostTyped' /\ Server' = Server /\ Boots' = Boots /\ writes' = writes
    BY <1>3, <2>1 DEF open_firewall_ports, HostTyped, images, files, Server, Boots, CanMigrate
  <2>4. Goto("low_ports") \/ Exit("firewall_failed")
    BY <1>3 DEF open_firewall_ports
  <2> QED
    BY <2>1, <2>2, <2>3, <2>4, GotoKeeps, ExitKeeps
       DEF Pcs, SetupSteps, AfterLoad, Refusals, UpdateOnly, Unmigrated, Checks
<1> QED
  BY <1>1, <1>2, <1>3

LEMMA SetupSteps2 ==
  ASSUME IInv, \/ ensure_low_port_binding \/ bootstrap_database \/ WriteCaddyfile \/ EditConfig
  PROVE  IInv'
<1>1. CASE ensure_low_port_binding
  <2>1. HostTyped /\ op # Idle /\ Reached("low_ports")
    BY <1>1, Here DEF ensure_low_port_binding
  <2>2. op.cmd = "setup" /\ op.was = Server /\ (op.boots => Boots)
    BY <2>1 DEF Reached, SetupSteps, Early, Unmigrated
  <2>3. HostTyped' /\ Server' = Server /\ Boots' = Boots /\ writes' = writes
    BY <1>1, <2>1 DEF ensure_low_port_binding, HostTyped, images, files, Server, Boots, CanMigrate
  <2>4. Goto("bootstrap")
    BY <1>1 DEF ensure_low_port_binding
  <2> QED
    BY <2>1, <2>2, <2>3, <2>4, GotoKeeps
       DEF Pcs, SetupSteps, AfterLoad, UpdateOnly, Unmigrated, Checks
<1>2. CASE bootstrap_database
  <2>1. HostTyped /\ op # Idle /\ Reached("bootstrap")
    BY <1>2, Here DEF bootstrap_database
  <2>2. op.cmd = "setup" /\ op.was = Server /\ (op.boots => Boots)
    BY <2>1 DEF Reached, SetupSteps, Early, Unmigrated
  <2>3. /\ data' \in [Volumes -> Versions \cup {0}]
        /\ Goto("caddyfile") \/ (Exit("migrate_failed") /\ data' = data)
    BY <1>2, <2>1 DEF bootstrap_database, HostTyped
  <2>4. HostTyped' /\ Server' = Server /\ writes' = writes /\ (data' = data => Boots' = Boots)
    BY <1>2, <2>1, <2>3
       DEF bootstrap_database, HostTyped, images, files, Server, Boots, CanMigrate
  <2> QED
    BY <2>1, <2>2, <2>3, <2>4, GotoKeeps, ExitKeeps
       DEF Pcs, SetupSteps, AfterLoad, Refusals, UpdateOnly, Unmigrated, Checks
<1>3. CASE WriteCaddyfile
  <2>1. HostTyped /\ op # Idle /\ op \in Ops /\ Reached("caddyfile")
    BY <1>3, Here DEF WriteCaddyfile
  <2>2. op.cmd = "setup"
    BY <2>1 DEF Reached, SetupSteps
  <2>3. op.mode \in {"ip", "none", "manual", "cloudflare"}
    BY <2>1, <2>2 DEF Ops, Modes
  <2>4. caddyfile' \in {"plain", "http01", "dns01"}
    BY <1>3, <2>3 DEF WriteCaddyfile, render_caddyfile_setup
  <2>5. HostTyped' /\ Exit("configured")
    BY <1>3, <2>1, <2>4 DEF WriteCaddyfile, HostTyped, images
  <2> QED
    BY <2>1, <2>5, ExitKeeps DEF Refusals
<1>4. CASE EditConfig
  <2>1. HostTyped /\ config \in Configs /\ writes' = writes + 1 /\ writes < MaxWrites
    BY <1>4, OpFacts DEF IInv, EditConfig, Whole, HostTyped
  <2>2. config' \in Configs
    <3>1. PICK v \in Volumes : config' = [config EXCEPT !.values = writes', !.volume = v]
      BY <1>4 DEF EditConfig
    <3>2. writes' \in 1..MaxWrites
      BY <2>1 DEF HostTyped
    <3> QED
      BY <2>1, <3>1, <3>2 DEF Configs
  <2>3. op = Idle /\ op' = Idle /\ result' = Nothing /\ op.pc = "idle" /\ op.cmd = "none"
    BY <1>4, OpFacts DEF IInv, EditConfig
  <2>4. TypeOK'
    <3>1. UNCHANGED <<registry, local, caddyfile, data, box, holders, blocked>>
      BY <1>4 DEF EditConfig, images
    <3>2. writes' \in 0..MaxWrites
      BY <2>1 DEF HostTyped
    <3>3. HostTyped'
      BY <2>1, <2>2, <3>1, <3>2 DEF HostTyped
    <3> QED
      BY <2>1, <2>3, <3>3 DEF TypeOK, HostTyped
  <2>5. Reported'
    BY <2>3 DEF Nothing, Reported, StartedRunsTheTag, RefusalsKeepTheServer, ResetIsComplete
  <2>6. Reached(op.pc)'
    BY <2>3 DEF Reached, SetupSteps, Early, AfterLoad, UpdateOnly, Unmigrated, Checks
  <2> QED
    BY <2>4, <2>5, <2>6 DEF IInv
<1> QED
  BY <1>1, <1>2, <1>3, <1>4
-----------------------------------------------------------------------------
(***************************************************************************)
(* start, stop and restart.                                                *)
(***************************************************************************)
LEMMA StartBegins ==
  ASSUME IInv, BeginStart \/ BeginUpdate
  PROVE  IInv'
<1>1. HostTyped /\ HostTyped' /\ writes' = writes /\ Server' = Server /\ Boots' = Boots
  BY OpFacts DEF IInv, BeginStart, BeginUpdate, HostTyped, images, files, Server,
                 Boots, CanMigrate
<1>2. CASE BeginStart
  <2>1. PICK verify \in BOOLEAN :
          Begin([cmd |-> "start", pc |-> "load", tag |-> "config",
                 verify |-> verify, was |-> Server, boots |-> Boots])
    BY <1>2 DEF BeginStart
  <2> DEFINE command == [cmd |-> "start", pc |-> "load", tag |-> "config",
                         verify |-> verify, was |-> Server, boots |-> Boots]
  <2>2. command \in Ops
    BY <1>1, ServerTyped DEF Ops, Pcs
  <2> QED
    BY <1>1, <2>1, <2>2, BeginKeeps
<1>3. CASE BeginUpdate
  <2>1. PICK t \in Tags :
          Begin([cmd |-> "update", pc |-> "pull", tag |-> t,
                 verify |-> TRUE, was |-> Server, boots |-> Boots])
    BY <1>3 DEF BeginUpdate
  <2> DEFINE command == [cmd |-> "update", pc |-> "pull", tag |-> t,
                         verify |-> TRUE, was |-> Server, boots |-> Boots]
  <2>2. command \in Ops
    BY <1>1, ServerTyped DEF Ops, Pcs
  <2> QED
    BY <1>1, <2>1, <2>2, BeginKeeps
<1> QED
  BY <1>2, <1>3

\* The checks of `start' that change nothing.
LEMMA StartChecks ==
  ASSUME IInv, \/ load_config \/ inspect_state \/ preflight_low_ports \/ verify_started
  PROVE  IInv'
<1>1. HostTyped /\ HostTyped' /\ writes' = writes /\ Server' = Server /\ Boots' = Boots
      /\ Whole' = Whole /\ RunsTheTag' = RunsTheTag
  BY OpFacts DEF IInv, load_config, inspect_state, preflight_low_ports, verify_started,
                 HostTyped, images, files, Server, Boots, CanMigrate, Whole, RunsTheTag
<1>2. CASE load_config
  <2>1. op # Idle /\ op.was = Server /\ (op.cmd = "update" \/ (op.boots => Boots))
    BY <1>2, Here DEF load_config, Reached, Early, Checks
  <2>2. (Whole /\ Goto("inspect")) \/ Exit("config_error")
    BY <1>2 DEF load_config
  <2> QED
    BY <1>1, <2>1, <2>2, GotoKeeps, ExitKeeps
       DEF Pcs, SetupSteps, AfterLoad, Refusals, UpdateOnly, Unmigrated, Checks
<1>3. CASE inspect_state
  <2>1. /\ op # Idle /\ op.was = Server /\ Whole
        /\ op.cmd = "update" \/ (op.boots => Boots)
    BY <1>3, Here DEF inspect_state, Reached, Early, AfterLoad, Checks
  <2>2. \/ RunsTheTag /\ Goto("verify")
        \/ Exit("unverified")
        \/ Goto("preflight")
    BY <1>3, <2>1 DEF inspect_state, Verify, Running, container_image_matches, RunsTheTag
  <2> QED
    BY <1>1, <2>1, <2>2, GotoKeeps, ExitKeeps
       DEF Pcs, SetupSteps, Early, AfterLoad, Refusals, UpdateOnly, Unmigrated, Checks
<1>4. CASE preflight_low_ports
  <2>1. /\ op # Idle /\ op.was = Server /\ Whole
        /\ op.cmd = "update" \/ (op.boots => Boots)
    BY <1>4, Here DEF preflight_low_ports, Reached, Early, AfterLoad, Checks
  <2>2. Exit("low_ports_blocked") \/ Goto("remove")
    BY <1>4 DEF preflight_low_ports
  <2> QED
    BY <1>1, <2>1, <2>2, GotoKeeps, ExitKeeps
       DEF Pcs, SetupSteps, Early, AfterLoad, Refusals, UpdateOnly, Unmigrated, Checks
<1>5. CASE verify_started
  <2>1. op # Idle /\ RunsTheTag
    BY <1>5, Here DEF verify_started, Reached
  <2>2. Exit("up") \/ Exit("verify_failed")
    BY <1>5 DEF verify_started
  <2> QED
    BY <1>1, <2>1, <2>2, ExitKeeps DEF Refusals
<1> QED
  BY <1>2, <1>3, <1>4, <1>5

\* The container goes, and a new one of the configured tag's image comes.
LEMMA StartReplaces ==
  ASSUME IInv, remove_container \/ podman_run
  PROVE  IInv'
<1>1. CASE remove_container
  <2>1. HostTyped /\ op # Idle /\ Whole
    BY <1>1, Here DEF remove_container, Reached, AfterLoad
  <2>2. HostTyped' /\ Whole' /\ writes' = writes /\ Goto("run")
    BY <1>1, <2>1 DEF remove_container, HostTyped, images, files, Whole
  <2> QED
    BY <2>1, <2>2, GotoKeeps
       DEF Pcs, SetupSteps, Early, AfterLoad, UpdateOnly, Unmigrated, Checks
<1>2. CASE podman_run
  <2>1. HostTyped /\ op # Idle /\ Whole
    BY <1>2, Here DEF podman_run, Reached, AfterLoad
  <2>2. /\ UNCHANGED <<registry, local, config, caddyfile, data, holders, blocked, writes>>
        /\ \/ box' = Created("running") /\ (Goto("verify") \/ Exit("unverified"))
           \/ box' \in {Created("created"), box} /\ Exit("run_failed")
    BY <1>2 DEF podman_run, Verify, images, files
  <2>3. config \in Configs
    BY <2>1 DEF Whole, HostTyped
  <2>4. /\ local[config.tag] \in Versions /\ config.values \in 1..MaxWrites
        /\ config.mode \in Modes /\ config.volume \in Volumes
    BY <2>1, <2>3 DEF Configs, HostTyped
  <2>5. \A s \in {"running", "created"} : /\ Created(s) \in Boxes
                                         /\ Created(s).image = local[config.tag]
    BY <2>4 DEF Created, Boxes
  <2>6. HostTyped' /\ Whole' /\ writes' = writes
    BY <2>1, <2>2, <2>5 DEF HostTyped, Whole
  <2>7. box' = Created("running") => RunsTheTag'
    BY <2>2, <2>5, <2>6 DEF RunsTheTag
  <2> QED
    BY <2>1, <2>2, <2>6, <2>7, GotoKeeps, ExitKeeps
       DEF Pcs, SetupSteps, Early, AfterLoad, Refusals, UpdateOnly, Unmigrated, Checks
<1> QED
  BY <1>1, <1>2

\* Commands of one step.
LEMMA StopAndRestart ==
  ASSUME IInv, stop \/ restart
  PROVE  IInv'
<1>1. HostTyped /\ op = Idle /\ op' = Idle /\ box \in Boxes
  BY OpFacts DEF IInv, stop, restart, HostTyped
<1>2. \E s \in {"running", "created", "exited"} : box' = Halted(s)
  BY DEF stop, restart, Stopped
<1>3. box' \in Boxes
  BY <1>1, <1>2 DEF Halted, Boxes
<1>4. HostTyped'
  BY <1>1, <1>3 DEF stop, restart, HostTyped, images, files
<1>5. op'.pc = "idle" /\ op'.cmd = "none"
  BY <1>1, OpFacts DEF IInv
<1>6. TypeOK'
  BY <1>1, <1>4, <1>5 DEF TypeOK, HostTyped
<1>7. Reported'
  BY DEF stop, restart, Reported, StartedRunsTheTag, RefusalsKeepTheServer, ResetIsComplete
<1>8. Reached(op.pc)'
  BY <1>5 DEF Reached, SetupSteps, Early, AfterLoad, UpdateOnly, Unmigrated, Checks
<1> QED
  BY <1>6, <1>7, <1>8 DEF IInv
-----------------------------------------------------------------------------
(***************************************************************************)
(* update: none of its own steps touches the container.                    *)
(***************************************************************************)
LEMMA UpdateSteps ==
  ASSUME IInv, Pull \/ migrate \/ Recreate
  PROVE  IInv'
<1>1. CASE Pull
  <2>1. /\ HostTyped /\ op # Idle /\ op.was = Server /\ op.tag \in Tags
        /\ op.cmd = "update" /\ (op.boots => Boots)
    BY <1>1, Here DEF Pull, Reached, Early, UpdateOnly, Unmigrated
  <2>2. local' \in [Tags -> Versions] /\ (Goto("migrate") \/ Exit("pull_failed"))
    BY <1>1, <2>1 DEF Pull, HostTyped
  <2>3. HostTyped' /\ Server' = Server /\ Boots' = Boots /\ writes' = writes
    BY <1>1, <2>1, <2>2 DEF Pull, HostTyped, files, Server, Boots, CanMigrate
  <2> QED
    BY <2>1, <2>2, <2>3, GotoKeeps, ExitKeeps
       DEF Pcs, SetupSteps, AfterLoad, Refusals, UpdateOnly, Unmigrated, Checks
<1>2. CASE migrate
  <2>1. /\ HostTyped /\ op # Idle /\ op.was = Server /\ op.tag \in Tags
        /\ op.cmd = "update" /\ (op.boots => Boots)
    BY <1>2, Here DEF migrate, Reached, Early, UpdateOnly, Unmigrated
  <2>2. /\ data' \in [Volumes -> Versions \cup {0}]
        /\ Goto("socket") \/ (Exit("migrate_failed") /\ data' = data)
    BY <1>2, <2>1 DEF migrate, HostTyped
  <2>3. HostTyped' /\ Server' = Server /\ writes' = writes /\ (data' = data => Boots' = Boots)
    BY <1>2, <2>1, <2>2 DEF migrate, HostTyped, images, files, Server, Boots, CanMigrate
  <2> QED
    BY <2>1, <2>2, <2>3, GotoKeeps, ExitKeeps
       DEF Pcs, SetupSteps, AfterLoad, Refusals, UpdateOnly, Unmigrated, Checks
<1>3. CASE Recreate
  <2>1. HostTyped /\ op # Idle /\ op.was = Server /\ op.cmd = "update"
    BY <1>3, Here DEF Recreate, Reached, Early, UpdateOnly
  <2>2. HostTyped' /\ Server' = Server /\ writes' = writes
        /\ (Goto("load") \/ Exit("no_host_socket"))
    BY <1>3, <2>1 DEF Recreate, HostTyped, images, files, Server
  <2> QED
    BY <2>1, <2>2, GotoKeeps, ExitKeeps
       DEF Pcs, SetupSteps, AfterLoad, Refusals, UpdateOnly, Unmigrated, Checks
<1> QED
  BY <1>1, <1>2, <1>3
-----------------------------------------------------------------------------
(***************************************************************************)
(* reset, and a command that is interrupted.                               *)
(***************************************************************************)
LEMMA ResetBegins ==
  ASSUME IInv, BeginReset
  PROVE  IInv'
<1>1. HostTyped /\ HostTyped' /\ writes' = writes /\ Server' = Server /\ Boots' = Boots
  BY OpFacts DEF IInv, BeginReset, HostTyped, images, files, Server, Boots, CanMigrate
<1> DEFINE command == [cmd |-> "reset", pc |-> "rm_box", tag |-> "none", was |-> Server,
                       boots |-> Boots]
<1>2. \/ Begin(command)
      \/ op = Idle /\ op' = op /\ result'.code = "refused"
  BY DEF BeginReset
<1>3. CASE Begin(command)
  <2>1. command \in Ops
    BY <1>1, ServerTyped DEF Ops, Pcs
  <2> QED
    BY <1>1, <1>3, <2>1, BeginKeeps
<1>4. CASE op = Idle /\ op' = op /\ result'.code = "refused"
  <2>1. op' = Idle /\ op'.pc = "idle" /\ op'.cmd = "none"
    BY <1>4, OpFacts DEF IInv
  <2>2. TypeOK'
    BY <1>1, <2>1 DEF TypeOK, HostTyped
  <2>3. Reported'
    BY <1>4 DEF Reported, StartedRunsTheTag, RefusalsKeepTheServer, ResetIsComplete
  <2>4. Reached(op.pc)'
    BY <2>1 DEF Reached, SetupSteps, Early, AfterLoad, UpdateOnly, Unmigrated, Checks
  <2> QED
    BY <2>2, <2>3, <2>4 DEF IInv
<1> QED
  BY <1>2, <1>3, <1>4

LEMMA ResetSteps ==
  ASSUME IInv, RemoveServer \/ SweepHolders \/ RemoveVolume
  PROVE  IInv'
<1>1. CASE RemoveServer
  <2>1. HostTyped /\ op # Idle
    BY <1>1, Here DEF RemoveServer
  <2>2. \/ box' = NoBox /\ Goto("sweep")
        \/ box \in Boxes /\ box' \in {box, Stopped} /\ Exit("script_failed")
    BY <1>1, <2>1 DEF RemoveServer, HostTyped
  <2>3. box' \in Boxes \cup {NoBox}
    BY <2>2 DEF Stopped, Halted, Boxes
  <2>4. HostTyped' /\ writes' = writes
    BY <1>1, <2>1, <2>3 DEF RemoveServer, HostTyped, images, files
  <2> QED
    BY <2>1, <2>2, <2>4, GotoKeeps, ExitKeeps
       DEF Pcs, SetupSteps, Early, AfterLoad, Refusals, UpdateOnly, Unmigrated, Checks
<1>2. CASE SweepHolders
  <2>1. HostTyped /\ op # Idle /\ box = NoBox
    BY <1>2, Here DEF SweepHolders, Reached
  <2>2. /\ HostTyped' /\ writes' = writes /\ box' = NoBox
        /\ (holders' = 0 /\ Goto("rm_volume")) \/ Exit("script_failed")
    BY <1>2, <2>1 DEF SweepHolders, HostTyped, images, files
  <2> QED
    BY <2>1, <2>2, GotoKeeps, ExitKeeps
       DEF Pcs, SetupSteps, Early, AfterLoad, Refusals, UpdateOnly, Unmigrated, Checks
<1>3. CASE RemoveVolume
  <2>1. HostTyped /\ op # Idle /\ box = NoBox /\ holders = 0
    BY <1>3, Here DEF RemoveVolume, Reached
  <2>2. /\ HostTyped' /\ writes' = writes /\ box' = NoBox /\ holders' = 0
        /\ (data'[DefaultVolume] = 0 /\ Goto("wipe")) \/ Exit("script_failed")
    BY <1>3, <2>1 DEF RemoveVolume, HostTyped, images, files
  <2> QED
    BY <2>1, <2>2, GotoKeeps, ExitKeeps
       DEF Pcs, SetupSteps, Early, AfterLoad, Refusals, UpdateOnly, Unmigrated, Checks
<1> QED
  BY <1>1, <1>2, <1>3

LEMMA WipeKeeps ==
  ASSUME IInv, wipe_config_dir
  PROVE  IInv'
<1>1. /\ HostTyped /\ op # Idle /\ op \in Ops /\ op.pc = "wipe" /\ result = Nothing
      /\ box = NoBox /\ holders = 0 /\ data[DefaultVolume] = 0
  BY Here, OpFacts DEF IInv, wipe_config_dir, Reached
<1>2. /\ HostTyped' /\ box' = NoBox /\ holders' = 0 /\ data'[DefaultVolume] = 0
      /\ writes' = writes
  BY <1>1 DEF wipe_config_dir, HostTyped, images, files
<1>3. CASE Exit("reset")
  <2>1. Cleared'
    BY <1>1, <1>2, <1>3 DEF wipe_config_dir, Exit, Cleared, files
  <2> QED
    BY <1>1, <1>2, <1>3, <2>1, ExitKeeps DEF Refusals
<1>4. CASE UNCHANGED <<op, result>>
  <2>1. TypeOK'
    BY <1>1, <1>2, <1>4 DEF IInv, TypeOK, HostTyped
  <2>2. Reported'
    BY <1>1, <1>4 DEF Nothing, Reported, StartedRunsTheTag, RefusalsKeepTheServer,
                      ResetIsComplete
  <2>3. Reached(op.pc)'
    BY <1>1, <1>2, <1>4
       DEF Reached, SetupSteps, Early, AfterLoad, UpdateOnly, Unmigrated, Checks
  <2> QED
    BY <2>1, <2>2, <2>3 DEF IInv
<1>5. CASE Exit("wipe_failed")
  BY <1>1, <1>2, <1>5, ExitKeeps DEF Refusals
<1> QED
  BY <1>3, <1>4, <1>5 DEF wipe_config_dir

LEMMA InterruptKeeps ==
  ASSUME IInv, Interrupt
  PROVE  IInv'
<1>1. HostTyped /\ op # Idle /\ Exit("interrupted")
  BY OpFacts DEF IInv, Interrupt
<1>2. HostTyped'
  BY <1>1 DEF Interrupt, HostTyped, images, files
<1> QED
  BY <1>1, <1>2, ExitKeeps DEF Refusals
-----------------------------------------------------------------------------
(***************************************************************************)
(* The inductive invariant holds in every behaviour.                       *)
(***************************************************************************)
LEMMA InitHolds ==
  ASSUME Init
  PROVE  IInv
<1>1. op.pc = "idle" /\ op.cmd = "none" /\ result.code = "none"
  BY DEF Init, Idle, Nothing
<1>2. TypeOK
  BY <1>1 DEF Init, TypeOK
<1>3. Reached(op.pc)
  BY <1>1 DEF Reached, SetupSteps, Early, AfterLoad, UpdateOnly, Unmigrated, Checks
<1>4. Reported
  BY <1>1 DEF Reported, StartedRunsTheTag, RefusalsKeepTheServer, ResetIsComplete
<1> QED
  BY <1>2, <1>3, <1>4 DEF IInv

LEMMA StepKeeps ==
  ASSUME IInv, [Next]_vars
  PROVE  IInv'
<1>1. CASE UNCHANGED vars
  BY <1>1 DEF vars, IInv, TypeOK, Reached, Reported, StartedRunsTheTag, RunsTheTag,
              RefusalsKeepTheServer, ResetIsComplete, Whole, Server, Boots, CanMigrate
<1>2. CASE \/ Publish \/ Sysctl \/ ContainerDies
           \/ spawn_caddy \/ lifespan \/ cert_renewal_job
  BY <1>2, EnvironmentSteps
<1>3. CASE BeginSetup
  BY <1>3, SetupBegins
<1>4. CASE \/ write_config \/ ensure_dns_record \/ open_firewall_ports
  BY <1>4, SetupSteps1
<1>5. CASE \/ ensure_low_port_binding \/ bootstrap_database \/ WriteCaddyfile \/ EditConfig
  BY <1>5, SetupSteps2
<1>6. CASE BeginStart \/ BeginUpdate
  BY <1>6, StartBegins
<1>7. CASE load_config \/ inspect_state \/ preflight_low_ports \/ verify_started
  BY <1>7, StartChecks
<1>8. CASE remove_container \/ podman_run
  BY <1>8, StartReplaces
<1>9. CASE stop \/ restart
  BY <1>9, StopAndRestart
<1>10. CASE Pull \/ migrate \/ Recreate
  BY <1>10, UpdateSteps
<1>11. CASE BeginReset
  BY <1>11, ResetBegins
<1>12. CASE RemoveServer \/ SweepHolders \/ RemoveVolume
  BY <1>12, ResetSteps
<1>13. CASE wipe_config_dir
  BY <1>13, WipeKeeps
<1>14. CASE Interrupt
  BY <1>14, InterruptKeeps
<1> QED
  BY <1>1, <1>2, <1>3, <1>4, <1>5, <1>6, <1>7, <1>8, <1>9, <1>10, <1>11, <1>12,
     <1>13, <1>14 DEF Next

LEMMA AlwaysIInv == Spec => []IInv
<1>1. Init => IInv
  BY InitHolds
<1>2. IInv /\ [Next]_vars => IInv'
  BY StepKeeps
<1> QED
  BY <1>1, <1>2, PTL DEF Spec

\* Every variable keeps its type: the configuration is whole, torn or absent,
\* and a command that runs is at one of the steps of its kind.
THEOREM TypeCorrect == Spec => []TypeOK
<1>1. IInv => TypeOK
  BY DEF IInv
<1> QED
  BY <1>1, AlwaysIInv, PTL

\* A `start' (cli/main.py), alone or within update.sh, reports the server up
\* only with a container of the image that the configured tag names.
THEOREM StartedAlwaysRunsTheTag == Spec => []StartedRunsTheTag
<1>1. IInv => StartedRunsTheTag
  BY DEF IInv, Reported
<1> QED
  BY <1>1, AlwaysIInv, PTL

\* A command that refuses to go on has left the container it found, and that
\* boots if it did before: not so an `update' that has migrated the schema.
THEOREM RefusalsAlwaysKeepTheServer == Spec => []RefusalsKeepTheServer
<1>1. IInv => RefusalsKeepTheServer
  BY DEF IInv, Reported
<1> QED
  BY <1>1, AlwaysIInv, PTL

\* reset.sh never finds the default volume in use once it has swept the
\* containers on it, and a reset that reports done has left nothing in it, no
\* container and no configuration.
THEOREM ResetIsAlwaysComplete == Spec => []ResetIsComplete
<1>1. IInv => ResetIsComplete
  BY DEF IInv, Reported
<1> QED
  BY <1>1, AlwaysIInv, PTL

HIDE HostAssumption
-----------------------------------------------------------------------------
(***************************************************************************)
(* Download: a file at its target is always complete, for any tree,        *)
(* history of it, number of workers and of runs.                           *)
(*                                                                         *)
(* A .part may hold pieces of a blob that is no longer there, at their     *)
(* places but of any length.  So the inductive invariant says only that    *)
(* about what is on the disk, and of a transfer under way that what it has *)
(* written together with what it has still to receive is complete.  A      *)
(* range answer makes that true, whatever the .part was made of: it is     *)
(* refused when the .part is as long as the blob.                          *)
(***************************************************************************)
CONSTANTS Files, InSub, Blobs, MaxWorkers, MaxCommits, MaxRuns, None
VARIABLES tree, commits, part, target, stage, revision, listed, task

D == INSTANCE Download WITH pc <- stage, files <- listed

(***************************************************************************)
(* Pieces, and what a finished file may be: all pieces at their places,    *)
(* as many as some blob has, the last of them from that blob.              *)
(***************************************************************************)
Piece == Nat \X Nat
InPlace(s) == \A i \in 1 .. Len(s) : s[i][2] = i
Complete(s) ==
  /\ InPlace(s)
  /\ \E b \in Blobs : b.size = Len(s) /\ (s # <<>> => s[Len(s)][1] = b.id)

(***************************************************************************)
(* What is on the disk is in place; what a transfer has written together   *)
(* with what it has still to receive is complete.                          *)
(***************************************************************************)
OnDisk == \A f \in Files :
  /\ part[f] # None => part[f] \in Seq(Piece) /\ InPlace(part[f])
  /\ target[f] # None => target[f] \in Seq(Piece) /\ Complete(target[f])

Underway == \A f \in Files : D!State(f) = "streaming" =>
  /\ part[f] \in Seq(Piece) /\ task[f].body \in Seq(Piece)
  /\ Complete(part[f] \o task[f].body)

Shapes ==
  /\ tree \in [D!Revisions -> [Files -> Blobs \cup {None}]]
  /\ DOMAIN part = Files /\ DOMAIN target = Files /\ DOMAIN task = Files
  /\ part = [f \in Files |-> part[f]] /\ target = [f \in Files |-> target[f]]
  /\ task = [f \in Files |-> task[f]]
  /\ revision \in D!Revisions

DInv == Shapes /\ OnDisk /\ Underway

(***************************************************************************)
(* All pieces of a blob, in their order, are a complete file.              *)
(***************************************************************************)
LEMMA PiecesComplete ==
  ASSUME D!Parameters, NEW b \in Blobs
  PROVE  /\ D!Pieces(b) \in Seq(Piece) /\ Len(D!Pieces(b)) = b.size
         /\ \A i \in 1 .. b.size : D!Pieces(b)[i] = <<b.id, i>>
         /\ Complete(D!Pieces(b))
<1>1. b.id \in Nat /\ b.size \in Nat
  BY DEF D!Parameters
<1> DEFINE s == D!Pieces(b)
<1>2. s = [i \in 1 .. b.size |-> <<b.id, i>>]
  BY DEF D!Pieces
<1>3. \A i \in 1 .. b.size : s[i] = <<b.id, i>> /\ s[i] \in Piece
  BY <1>1, <1>2 DEF Piece
<1>4. s \in Seq(Piece) /\ Len(s) = b.size
  <2>1. s \in [1 .. b.size -> Piece]
    BY <1>2, <1>3
  <2> HIDE DEF s
  <2>2. s \in Seq(Piece)
    BY <1>1, <2>1, IsASeq
  <2>3. Len(s) \in Nat /\ DOMAIN s = 1 .. Len(s) /\ DOMAIN s = 1 .. b.size
    BY <2>1, <2>2, LenProperties
  <2> QED
    BY <1>1, <2>2, <2>3
<1> HIDE DEF s
<1>5. InPlace(s)
  BY <1>1, <1>3, <1>4 DEF InPlace
<1>6. s # <<>> => s[Len(s)][1] = b.id
  <2> SUFFICES ASSUME s # <<>> PROVE s[Len(s)][1] = b.id
    OBVIOUS
  <2>1. Len(s) \in 1 .. b.size
    BY <1>1, <1>4, EmptySeq
  <2> QED
    BY <1>3, <1>4, <2>1
<1> QED
  BY <1>3, <1>4, <1>5, <1>6 DEF s, Complete

(***************************************************************************)
(* A range answer continues what is there, wherever that came from.        *)
(***************************************************************************)
LEMMA RangeContinues ==
  ASSUME D!Parameters, NEW b \in Blobs, NEW s \in Seq(Piece), InPlace(s), Len(s) < b.size
  PROVE  LET rest == D!iter_blob_window(b, Len(s))
         IN  rest \in Seq(Piece) /\ Complete(s \o rest)
<1> DEFINE rest == SubSeq(D!Pieces(b), Len(s) + 1, b.size)
<1>1. b.id \in Nat /\ b.size \in Nat /\ Len(s) \in Nat
  BY LenProperties DEF D!Parameters
<1>2. \A i \in 1 .. b.size : D!Pieces(b)[i] = <<b.id, i>> /\ D!Pieces(b)[i] \in Piece
  <2>1. \A i \in 1 .. b.size : D!Pieces(b)[i] = <<b.id, i>>
    BY PiecesComplete
  <2>2. \A i \in 1 .. b.size : <<b.id, i>> \in Piece
    BY <1>1 DEF Piece
  <2> QED
    BY <2>1, <2>2
<1>3. /\ rest \in Seq(Piece) /\ Len(rest) = b.size - Len(s)
      /\ \A i \in 1 .. b.size - Len(s) : rest[i] = D!Pieces(b)[Len(s) + i]
  <2>1. \A i \in Len(s) + 1 .. b.size : D!Pieces(b)[i] \in Piece
    BY <1>1, <1>2
  <2>2. b.size - (Len(s) + 1) + 1 = b.size - Len(s)
        /\ \A i \in 1 .. b.size - Len(s) : (Len(s) + 1) + i - 1 = Len(s) + i
    BY <1>1
  <2> HIDE DEF rest
  <2>3. /\ rest \in Seq(Piece)
        /\ Len(rest) = IF Len(s) + 1 <= b.size THEN b.size - (Len(s) + 1) + 1 ELSE 0
        /\ \A i \in 1 .. b.size - (Len(s) + 1) + 1 :
             rest[i] = D!Pieces(b)[(Len(s) + 1) + i - 1]
    <3>1. D!Pieces(b) \in Seq(Piece) /\ Len(s) + 1 \in Int /\ b.size \in Int
      BY <1>1, PiecesComplete
    <3> QED
      BY <2>1, <3>1, SubSeqProperties DEF rest
  <2> QED
    BY <1>1, <2>2, <2>3
<1> HIDE DEF rest
<1>4. ASSUME NEW i \in 1 .. b.size - Len(s)
      PROVE  rest[i] = <<b.id, Len(s) + i>>
  <2>1. Len(s) + i \in 1 .. b.size
    BY <1>1
  <2> QED
    BY <1>2, <1>3, <2>1
<1> DEFINE all == s \o rest
<1>5. /\ all \in Seq(Piece) /\ Len(all) = b.size
      /\ \A i \in 1 .. b.size : all[i] = IF i <= Len(s) THEN s[i] ELSE rest[i - Len(s)]
  <2>1. /\ all \in Seq(Piece) /\ Len(all) = Len(s) + Len(rest)
        /\ \A i \in 1 .. Len(s) + Len(rest) :
             all[i] = IF i <= Len(s) THEN s[i] ELSE rest[i - Len(s)]
    BY <1>3, ConcatProperties
  <2>2. Len(s) + Len(rest) = b.size
    BY <1>1, <1>3
  <2> QED
    BY <2>1, <2>2
<1> HIDE DEF all
<1>6. InPlace(all)
  <2> SUFFICES ASSUME NEW i \in 1 .. b.size PROVE all[i][2] = i
    BY <1>5 DEF InPlace
  <2>1. CASE i <= Len(s)
    BY <1>1, <1>5, <2>1 DEF InPlace
  <2>2. CASE ~(i <= Len(s))
    <3> DEFINE k == i - Len(s)
    <3>1. k \in 1 .. b.size - Len(s) /\ Len(s) + k = i
      BY <1>1, <2>2
    <3>2. all[i] = rest[k]
      BY <1>5, <2>2
    <3> HIDE DEF k
    <3>3. all[i] = <<b.id, i>>
      BY <1>4, <3>1, <3>2
    <3> QED
      BY <3>3
  <2> QED
    BY <2>1, <2>2
<1>7. all[Len(all)][1] = b.id
  <2> DEFINE k == b.size - Len(s)
  <2>1. b.size \in 1 .. b.size /\ k \in 1 .. k /\ ~(b.size <= Len(s)) /\ Len(s) + k = b.size
    BY <1>1
  <2>2. all[b.size] = rest[k]
    BY <1>5, <2>1
  <2>3. rest[k] = <<b.id, Len(s) + k>>
    BY <1>4, <2>1
  <2> HIDE DEF k
  <2>4. all[b.size] = <<b.id, b.size>>
    BY <2>1, <2>2, <2>3
  <2> QED
    BY <1>5, <2>4
<1> QED
  BY <1>3, <1>5, <1>6, <1>7 DEF rest, all, Complete, D!iter_blob_window

(***************************************************************************)
(* Receiving moves a piece from what is to come to what is there.          *)
(***************************************************************************)
LEMMA Shift ==
  ASSUME NEW S, NEW s \in Seq(S), NEW t \in Seq(S), t # <<>>
  PROVE  /\ Append(s, Head(t)) \in Seq(S) /\ Tail(t) \in Seq(S)
         /\ Append(s, Head(t)) \o Tail(t) = s \o t
<1>1. Head(t) \in S /\ Tail(t) \in Seq(S) /\ Len(t) \in Nat \ {0} /\ Head(t) = t[1]
  BY HeadTailProperties, EmptySeq
<1>2. <<Head(t)>> \in Seq(S)
  BY <1>1
<1>3. t = <<Head(t)>> \o Tail(t)
  <2>1. 1 \in 1 .. Len(t) /\ Len(t) \in 1 .. Len(t)
    BY <1>1
  <2>2. SubSeq(t, 1, Len(t)) = <<t[1]>> \o SubSeq(t, 1 + 1, Len(t))
    BY <2>1, SubSeqRecursiveFirst
  <2> QED
    BY <1>1, <2>2, SubSeqFull, TailIsSubSeq
<1>4. Append(s, Head(t)) = s \o <<Head(t)>>
  BY <1>1, AppendIsConcat
<1>5. (s \o <<Head(t)>>) \o Tail(t) = s \o (<<Head(t)>> \o Tail(t))
  <2> DEFINE first == <<Head(t)>>
             rest == Tail(t)
  <2>1. s \in Seq(S) /\ first \in Seq(S) /\ rest \in Seq(S)
    BY <1>1, <1>2
  <2> HIDE DEF first, rest
  <2>2. (s \o first) \o rest = s \o (first \o rest)
    BY ONLY <2>1, ConcatAssociative, SMTT(30)
  <2> QED
    BY <2>2 DEF first, rest
<1> QED
  BY <1>1, <1>2, <1>3, <1>4, <1>5, ConcatProperties

(***************************************************************************)
(* What comes before something that is in place is in place itself.        *)
(***************************************************************************)
LEMMA PrefixInPlace ==
  ASSUME NEW s \in Seq(Piece), NEW t \in Seq(Piece), InPlace(s \o t)
  PROVE  InPlace(s)
<1>1. Len(s) \in Nat /\ Len(t) \in Nat
  BY LenProperties
<1> SUFFICES ASSUME NEW i \in 1 .. Len(s)
             PROVE  s[i][2] = i
  BY DEF InPlace
<1>2. i \in 1 .. Len(s) + Len(t) /\ i <= Len(s)
  BY <1>1
<1>3. Len(s \o t) = Len(s) + Len(t) /\ (s \o t)[i] = s[i]
  BY <1>2, ConcatProperties
<1> QED
  BY <1>2, <1>3 DEF InPlace

(***************************************************************************)
(* At first nothing is on the disk and no transfer is under way.           *)
(***************************************************************************)
LEMMA DInit == D!Init => DInv
  BY DEF D!Init, DInv, Shapes, OnDisk, Underway, D!State, D!Revisions

(***************************************************************************)
(* Steps that leave the disk alone and start no transfer.                  *)
(***************************************************************************)
LEMMA Elsewhere ==
  ASSUME DInv, Shapes', UNCHANGED <<part, target>>,
         \A f \in Files : D!State(f)' = "streaming" => task'[f] = task[f]
  PROVE  DInv'
<1>1. OnDisk'
  BY DEF DInv, OnDisk
<1>2. Underway'
  BY DEF DInv, Underway, D!State
<1> QED
  BY <1>1, <1>2 DEF DInv

(***************************************************************************)
(* The end of a run drops its transfers and leaves their .part files.      *)
(***************************************************************************)
LEMMA RunEnds ==
  ASSUME DInv, D!EndRun, UNCHANGED <<tree, part, target, revision>>
  PROVE  DInv'
<1>1. Shapes'
  BY DEF DInv, Shapes, D!EndRun
<1>2. \A f \in Files : D!State(f)' = "none"
  BY DEF D!EndRun, D!State
<1> QED
  BY <1>1, <1>2, Elsewhere

(***************************************************************************)
(* A step of the transfer of f.                                            *)
(***************************************************************************)
LEMMA OneTransfer ==
  ASSUME DInv, NEW f \in Files, UNCHANGED <<tree, revision>>,
         NEW p, part' = [part EXCEPT ![f] = p],
         NEW g, target' = [target EXCEPT ![f] = g],
         NEW t, task' = [task EXCEPT ![f] = t],
         p # None => p \in Seq(Piece) /\ InPlace(p),
         g # None => g \in Seq(Piece) /\ Complete(g),
         t # None /\ t.state = "streaming" =>
           p \in Seq(Piece) /\ t.body \in Seq(Piece) /\ Complete(p \o t.body)
  PROVE  DInv'
<1>1. Shapes'
  BY DEF DInv, Shapes
<1>2. /\ part'[f] = p /\ target'[f] = g /\ task'[f] = t
      /\ \A e \in Files \ {f} : part'[e] = part[e] /\ target'[e] = target[e] /\ task'[e] = task[e]
  BY DEF DInv, Shapes
<1>3. OnDisk'
  BY <1>2 DEF DInv, OnDisk
<1>4. Underway'
  BY <1>2 DEF DInv, Underway, D!State
<1> QED
  BY <1>1, <1>3, <1>4 DEF DInv

(***************************************************************************)
(* An answer other than 404 and 416 brings what the opened .part still     *)
(* needs: the whole blob with 200, the rest of it with 206.                *)
(***************************************************************************)
LEMMA Answered ==
  ASSUME D!Parameters, DInv, NEW f \in Files, NEW answer,
         answer = D!resolve_file(f, D!ResumeFrom(f)), answer.status \notin {404, 416}
  PROVE  LET p == D!OpenPart(f, answer)
         IN  p \in Seq(Piece) /\ InPlace(p) /\ answer.body \in Seq(Piece)
             /\ Complete(p \o answer.body)
<1> DEFINE b == D!resolve_blob(f)
           n == D!ResumeFrom(f)
<1>1. b \in Blobs \cup {None}
  BY DEF DInv, Shapes, D!resolve_blob
<1>2. b # None
  BY DEF D!resolve_file
<1>3. b \in Blobs /\ b.size \in Nat
  BY <1>1, <1>2 DEF D!Parameters
<1>4. n \in Nat /\ (n # 0 => part[f] # None /\ part[f] \in Seq(Piece) /\ InPlace(part[f]) /\ n = Len(part[f]))
  BY LenProperties DEF D!ResumeFrom, DInv, OnDisk
<1>5. <<>> \in Seq(Piece) /\ InPlace(<<>>)
  <2>1. <<>> \in Seq(Piece) /\ Len(<<>>) = 0
    BY EmptySeq
  <2> QED
    BY <2>1 DEF InPlace
<1>6. ASSUME answer.status = 200, answer.body = D!Pieces(b)
      PROVE  LET p == D!OpenPart(f, answer)
             IN  p \in Seq(Piece) /\ InPlace(p) /\ answer.body \in Seq(Piece)
                 /\ Complete(p \o answer.body)
  <2>1. D!OpenPart(f, answer) = <<>>
    BY <1>6 DEF D!OpenPart
  <2>2. answer.body \in Seq(Piece) /\ Complete(answer.body)
    BY <1>3, <1>6, PiecesComplete
  <2>3. <<>> \o answer.body = answer.body
    BY <2>2, ConcatEmptySeq
  <2> QED
    BY <1>5, <2>1, <2>2, <2>3
<1>7. CASE b.lfs
  BY <1>2, <1>6, <1>7 DEF D!resolve_file, D!maybe_lfs_pointer, D!handle_get
<1>8. CASE ~b.lfs /\ n = 0
  <2>1. answer = [status |-> 200, body |-> D!iter_blob_window(b, 0)]
    BY <1>2, <1>8 DEF D!resolve_file, D!maybe_lfs_pointer
  <2>2. answer.status = 200 /\ answer.body = D!iter_blob_window(b, 0)
    BY <2>1
  <2>3. D!iter_blob_window(b, 0) = D!Pieces(b)
    <3> HIDE DEF b
    <3> QED
      BY <1>3, PiecesComplete, SubSeqFull DEF D!iter_blob_window
  <2> QED
    BY <1>6, <2>2, <2>3
<1>9. CASE ~b.lfs /\ n # 0
  <2>1. /\ n < b.size
        /\ answer = [status |-> 206, body |-> D!iter_blob_window(b, n)]
    BY <1>2, <1>9 DEF D!resolve_file, D!maybe_lfs_pointer, D!parse_range
  <2>2. D!OpenPart(f, answer) = part[f]
    BY <1>4, <1>9, <2>1 DEF D!OpenPart
  <2> QED
    BY <1>3, <1>4, <1>9, <2>1, <2>2, RangeContinues
<1> QED
  BY <1>7, <1>8, <1>9

(***************************************************************************)
(* Every step of a transfer keeps the invariant.                           *)
(***************************************************************************)
LEMMA TransferKeeps ==
  ASSUME D!Parameters, DInv, NEW f \in Files, D!Transfer(f)
  PROVE  DInv'
<1> DEFINE same == part' = [part EXCEPT ![f] = part[f]] /\ target' = [target EXCEPT ![f] = target[f]]
<1>1. /\ part[f] # None => part[f] \in Seq(Piece) /\ InPlace(part[f])
      /\ target[f] # None => target[f] \in Seq(Piece) /\ Complete(target[f])
  BY DEF DInv, OnDisk
<1>2. /\ part' = part => part' = [part EXCEPT ![f] = part[f]]
      /\ target' = target => target' = [target EXCEPT ![f] = target[f]]
      /\ task' = task => task' = [task EXCEPT ![f] = task[f]]
  BY DEF DInv, Shapes
<1>3. CASE D!acquire(f)
  <2> DEFINE t == [state |-> "asking"]
  <2>1. /\ UNCHANGED <<tree, revision, part, target>>
        /\ task' = [task EXCEPT ![f] = t] /\ t.state # "streaming"
    BY <1>3 DEF D!acquire, D!remote, D!disk
  <2> HIDE DEF t
  <2> QED
    BY <1>1, <1>2, <2>1, OneTransfer
<1>4. CASE D!transfer_one(f)
  <2> DEFINE answer == D!resolve_file(f, D!ResumeFrom(f))
  <2>1. UNCHANGED <<tree, revision>>
    BY <1>4 DEF D!transfer_one, D!remote
  <2>2. CASE answer.status = 404
    BY <1>4, <2>1, <2>2, RunEnds DEF D!transfer_one, D!disk
  <2>3. CASE answer.status = 416
    <3>1. part' = [part EXCEPT ![f] = None] /\ target' = target /\ task' = task
      BY <1>4, <2>3 DEF D!transfer_one, D!restart
    <3>2. task[f] = None \/ task[f].state # "streaming"
      BY <1>4 DEF D!transfer_one, D!State
    <3> QED
      BY <1>1, <1>2, <2>1, <3>1, <3>2, OneTransfer
  <2>4. CASE answer.status \notin {404, 416}
    <3> DEFINE p == D!OpenPart(f, answer)
               t == [state |-> "streaming", body |-> answer.body]
    <3>1. part' = [part EXCEPT ![f] = p] /\ target' = target /\ task' = [task EXCEPT ![f] = t]
      BY <1>4, <2>4 DEF D!transfer_one
    <3>2. p \in Seq(Piece) /\ InPlace(p) /\ t.body \in Seq(Piece) /\ Complete(p \o t.body)
      BY <2>4, Answered
    <3> HIDE DEF p, t
    <3> QED
      BY <1>1, <1>2, <2>1, <3>1, <3>2, OneTransfer
  <2> QED
    BY <2>2, <2>3, <2>4
<1>5. CASE D!receive(f)
  <2>1. /\ part[f] \in Seq(Piece) /\ task[f].body \in Seq(Piece) /\ task[f].body # <<>>
        /\ Complete(part[f] \o task[f].body)
        /\ task[f] # None /\ task[f].state = "streaming"
    BY <1>5 DEF D!receive, DInv, Underway, D!State
  <2> DEFINE s == part[f]
             body == task[f].body
             p == Append(s, Head(body))
             t == [task[f] EXCEPT !.body = Tail(body)]
  <2>2. /\ UNCHANGED <<tree, revision>> /\ target' = target
        /\ part' = [part EXCEPT ![f] = p] /\ task' = [task EXCEPT ![f] = t]
    <3>1. UNCHANGED <<tree, revision, target>>
      BY <1>5 DEF D!receive, D!remote
    <3>2. part' = [part EXCEPT ![f] = Append(@, Head(body))]
          /\ task' = [task EXCEPT ![f].body = Tail(body)]
      BY <1>5 DEF D!receive
    <3> QED
      BY <3>1, <3>2
  <2>3. /\ p \in Seq(Piece) /\ Tail(body) \in Seq(Piece)
        /\ p \o Tail(body) = s \o body
    <3>1. s \in Seq(Piece) /\ body \in Seq(Piece) /\ body # <<>>
      BY <2>1
    <3> HIDE DEF s, body
    <3> QED
      BY <3>1, Shift
  <2> HIDE DEF p
  <2>4. InPlace(p)
    BY <2>1, <2>3, PrefixInPlace DEF Complete
  <2>5. t # None /\ t.state = "streaming" => t.body = Tail(body)
    BY <2>1
  <2>6. t # None /\ t.state = "streaming" =>
          p \in Seq(Piece) /\ t.body \in Seq(Piece) /\ Complete(p \o t.body)
    BY <2>1, <2>3, <2>5
  <2> HIDE DEF s, body, t
  <2> QED
    BY <1>1, <1>2, <2>2, <2>3, <2>4, <2>6, OneTransfer
<1>6. CASE D!finish(f)
  <2>1. /\ part[f] \in Seq(Piece) /\ task[f].body = <<>> /\ Complete(part[f] \o task[f].body)
    BY <1>6 DEF D!finish, DInv, Underway, D!State
  <2>2. part[f] \o <<>> = part[f]
    BY <2>1, ConcatEmptySeq
  <2>3. /\ UNCHANGED <<tree, revision>>
        /\ target' = [target EXCEPT ![f] = part[f]] /\ part' = [part EXCEPT ![f] = None]
        /\ task' = [task EXCEPT ![f] = D!Finished]
    BY <1>6 DEF D!finish, D!remote
  <2>4. D!Finished.state # "streaming"
    BY DEF D!Finished
  <2> QED
    BY <2>1, <2>2, <2>3, <2>4, OneTransfer
<1> QED
  BY <1>3, <1>4, <1>5, <1>6 DEF D!Transfer

(***************************************************************************)
(* So does every step.                                                     *)
(***************************************************************************)
LEMMA DStep ==
  ASSUME D!Parameters, DInv, [D!Next]_(D!vars)
  PROVE  DInv'
<1>1. CASE D!Commit
  <2>1. PICK f \in Files, b \in Blobs \cup {None} : tree' = [tree EXCEPT !["main"][f] = b]
    BY <1>1 DEF D!Commit
  <2>2. UNCHANGED <<part, target, task, revision>>
    BY <1>1 DEF D!Commit, D!disk
  <2>3. Shapes'
    BY <2>1, <2>2 DEF DInv, Shapes, D!Revisions
  <2> QED
    BY <2>2, <2>3, Elsewhere
<1>2. CASE D!download_command
  <2>1. Shapes' /\ UNCHANGED <<part, target>> /\ \A f \in Files : D!State(f)' = "none"
    BY <1>2 DEF D!download_command, D!remote, D!disk, DInv, Shapes, D!State
  <2> QED
    BY <2>1, Elsewhere
<1>3. CASE D!walk_root
  <2>1. Shapes' /\ UNCHANGED <<part, target, task>>
    BY <1>3 DEF D!walk_root, D!remote, D!disk, DInv, Shapes
  <2> QED
    BY <2>1, Elsewhere
<1>4. CASE D!walk_sub
  <2>1. UNCHANGED <<tree, part, target, revision>>
    BY <1>4 DEF D!walk_sub, D!remote, D!disk
  <2>2. CASE D!EndRun
    BY <2>1, <2>2, RunEnds
  <2>3. CASE UNCHANGED task
    <3>1. Shapes'
      BY <2>1, <2>3 DEF DInv, Shapes
    <3> QED
      BY <2>1, <2>3, <3>1, Elsewhere
  <2> QED
    BY <1>4, <2>2, <2>3 DEF D!walk_sub
<1>5. CASE D!schedule
  <2>1. Shapes' /\ UNCHANGED <<part, target>>
    BY <1>5 DEF D!schedule, D!remote, D!disk, DInv, Shapes
  <2>2. \A f \in Files : D!State(f)' # "streaming"
    BY <1>5 DEF D!schedule, D!State, D!Waiting
  <2> QED
    BY <2>1, <2>2, Elsewhere
<1>6. CASE D!report \/ D!BreakOff
  BY <1>6, RunEnds DEF D!report, D!BreakOff, D!remote, D!disk
<1>7. CASE UNCHANGED D!vars
  <2>1. UNCHANGED <<tree, part, target, revision, task>>
    BY <1>7 DEF D!vars
  <2>2. Shapes'
    BY <2>1 DEF DInv, Shapes
  <2> QED
    BY <2>1, <2>2, Elsewhere
<1> QED
  BY <1>1, <1>2, <1>3, <1>4, <1>5, <1>6, <1>7, TransferKeeps
  DEF D!Next, D!Step, D!Walk

(***************************************************************************)
(* A file at its target is always complete: every piece at its place, as   *)
(* many as some version of the blob has, the last of them of that version. *)
(* The .part of an earlier run, of whatever version, never becomes a       *)
(* target that is cut short or runs on (download.py, transfer_one).        *)
(***************************************************************************)
THEOREM TargetsAreAlwaysComplete == D!Parameters => (D!Spec => []D!TargetsAreComplete)
<1> SUFFICES ASSUME D!Parameters
             PROVE  D!Spec => []D!TargetsAreComplete
  OBVIOUS
<1>1. DInv => D!TargetsAreComplete
  <2> SUFFICES ASSUME DInv, NEW f \in Files, target[f] # None
               PROVE  /\ \A i \in DOMAIN target[f] : target[f][i][2] = i
                      /\ \E b \in Blobs : /\ b.size = Len(target[f])
                                          /\ target[f] # <<>> => target[f][Len(target[f])][1] = b.id
    BY DEF D!TargetsAreComplete
  <2>1. target[f] \in Seq(Piece) /\ Complete(target[f])
    BY DEF DInv, OnDisk
  <2> QED
    BY <2>1, LenProperties DEF Complete, InPlace
<1>2. D!Init => DInv
  BY DInit
<1>3. DInv /\ [D!Next]_(D!vars) => DInv'
  BY DStep
<1> QED
  BY <1>1, <1>2, <1>3, PTL DEF D!Spec

-----------------------------------------------------------------------------
(***************************************************************************)
(* Credentials: names belong to their tokens, and the saves of commands    *)
(* that do not overlap are atomic, for any servers, users and commands.    *)
(*                                                                         *)
(* The first needs that every store, wherever it is (in a file that has    *)
(* been written or in the hands of a command), has only names of their     *)
(* tokens.  The second needs what a single command has in hand: a sound    *)
(* store that differs from the one on the disk in its own server only, and *)
(* a temporary file that it alone has opened.                              *)
(***************************************************************************)
CONSTANTS Proc, Url, Spelling, User, File
VARIABLES file, tmp, text, proc, runs, past

C == INSTANCE Credentials

(***************************************************************************)
(* What a command has in hand at its step.                                 *)
(***************************************************************************)
Saving == {"open", "write", "replace"}
Opened == {"write", "replace"}

Command == [pc : {"idle", "verify"} \cup Saving, cmd : {"none", "login", "logout", "transfer"},
            store : C!Store, url : Url \cup {None}, token : User \cup {None},
            lent : BOOLEAN, fd : File \cup {None}]

InHand(c) ==
  /\ c.pc # "idle" => c.url \in Url
  /\ c.pc = "verify" => c.token \in User
  /\ c.pc \in Opened => c.fd \in File

CTyped ==
  /\ file \in File \cup {None} /\ tmp \in File \cup {None}
  /\ text \in [File -> C!Store \cup {Torn}]
  /\ proc \in [Proc -> Command] /\ \A p \in Proc : InHand(proc[p])
  /\ past \in [overlap : BOOLEAN, lent : BOOLEAN]
  /\ file # None => file # tmp

(***************************************************************************)
(* Every name that is stored, or is going to be, is that of its token.     *)
(***************************************************************************)
Belong(store) == \A u \in C!Known(store) : store.servers[u].username \in {None, store.servers[u].token}

Honest(c) == c.pc # "idle" =>
  /\ Belong(c.store)
  /\ c.pc = "verify" /\ c.cmd = "transfer" /\ ~c.lent /\ c.url \in C!Known(c.store)
       => c.token = c.store.servers[c.url].token

Names == ~past.lent =>
  /\ \A f \in File : text[f] # Torn => Belong(text[f])
  /\ \A p \in Proc : Honest(proc[p])

(***************************************************************************)
(* A command that nothing overlaps: what it is going to save differs from  *)
(* the store in one entry, and the temporary file is its own.              *)
(***************************************************************************)
Apart(store, url) == \A u \in Url \ {url} : store.servers[u] = C!load.servers[u]

Lone(c) == c.pc # "idle" =>
  /\ C!Sound(c.store)
  /\ Apart(c.store, c.url)
  /\ c.pc \in Opened => tmp = c.fd
  /\ c.pc = "write" => text[tmp] = Torn
  /\ c.pc = "replace" => text[tmp] = c.store

Solo == ~past.overlap =>
  /\ \A p, q \in Proc : C!Active(p) /\ C!Active(q) => p = q
  /\ C!load # Torn /\ C!Sound(C!load)
  /\ \A p \in Proc : Lone(proc[p])

CInv == CTyped /\ Names /\ Solo

(***************************************************************************)
(* The least of some numbers is one of them.                               *)
(***************************************************************************)
LEMMA MinIsIn ==
  ASSUME NEW S \in SUBSET Nat, S # {}
  PROVE  C!Min(S) \in S
<1> DEFINE less == {pair \in Nat \X Nat : pair[1] < pair[2]}
<1>1. IsWellFoundedOn(less, Nat)
  BY NatLessThanWellFounded DEF OpToRel
<1>2. \A m, n \in Nat : <<n, m>> \notin less => m <= n
  OBVIOUS
<1> HIDE DEF less
<1>3. PICK m \in S : \A n \in S : <<n, m>> \notin less
  BY <1>1, WFMin
<1>4. \A n \in S : m <= n
  BY <1>2, <1>3
<1> QED
  BY <1>4 DEF C!Min

(***************************************************************************)
(* The operations on a store: its type, its names, and what they change.   *)
(***************************************************************************)
LEMMA EmptyStore ==
  ASSUME C!Parameters
  PROVE  C!empty \in C!Store /\ C!empty # Torn /\ Belong(C!empty) /\ C!Sound(C!empty)
<1>1. C!empty \in C!Store
  BY DEF C!empty, C!Store
<1> QED
  BY <1>1 DEF C!Parameters, Belong, C!Sound, C!Known, C!empty

LEMMA LoginStores ==
  ASSUME C!Parameters, NEW store \in C!Store, NEW url \in Url, NEW token \in User,
         NEW new \in {C!with_login(store, url, token, token),
                      C!with_default(C!with_login(store, url, token, token), url)}
  PROVE  /\ new \in C!Store
         /\ Belong(store) => Belong(new)
         /\ C!Sound(store) => C!Sound(new)
         /\ \A u \in Url \ {url} : new.servers[u] = store.servers[u]
<1> DEFINE entry == [token |-> token, username |-> token]
<1>1. entry \in C!ServerEntry /\ entry # None /\ entry.username = entry.token
  BY DEF C!Parameters, C!ServerEntry
<1> HIDE DEF entry
<1>2. /\ new.servers = [store.servers EXCEPT ![url] = entry]
      /\ new.default \in {url, store.default} /\ (store.default = None => new.default = url)
      /\ new = [servers |-> new.servers, default |-> new.default]
  BY DEF C!with_login, C!with_default, entry
<1>3. store.servers \in [Url -> C!ServerEntry \cup {None}] /\ store.default \in Url \cup {None}
  BY DEF C!Store
<1>4. new.servers \in [Url -> C!ServerEntry \cup {None}] /\ new.default \in Url \cup {None}
  BY <1>1, <1>2, <1>3
<1>5. new \in C!Store
  BY <1>2, <1>4 DEF C!Store
<1>6. new.servers[url] = entry /\ \A u \in Url \ {url} : new.servers[u] = store.servers[u]
  BY <1>2, <1>3
<1>7. Belong(store) => Belong(new)
  BY <1>1, <1>6 DEF Belong, C!Known
<1>8. C!Sound(store) => C!Sound(new)
  BY <1>1, <1>2, <1>3, <1>6 DEF C!Sound, C!Known
<1> QED
  BY <1>5, <1>6, <1>7, <1>8

LEMMA LogoutStores ==
  ASSUME C!Parameters, NEW store \in C!Store, NEW url \in Url
  PROVE  LET new == C!without(store, url)
         IN  /\ new \in C!Store
             /\ Belong(store) => Belong(new)
             /\ C!Sound(store) => C!Sound(new)
             /\ \A u \in Url \ {url} : new.servers[u] = store.servers[u]
<1> DEFINE left == C!Known(store) \ {url}
           new == C!without(store, url)
<1>1. left \in SUBSET Nat /\ left \subseteq Url
  BY DEF C!Parameters, C!Known
<1>2. left # {} => C!Min(left) \in left
  BY <1>1, MinIsIn
<1>3. store.servers \in [Url -> C!ServerEntry \cup {None}] /\ store.default \in Url \cup {None}
  BY DEF C!Store
<1>4. /\ new = [servers |-> [store.servers EXCEPT ![url] = None],
                default |-> IF store.default # url THEN store.default
                            ELSE IF left = {} THEN None ELSE C!Min(left)]
  BY DEF C!without
<1>5. /\ new.servers = [store.servers EXCEPT ![url] = None]
      /\ new.default \in {None} \cup left \cup ({store.default} \ {url})
      /\ new = [servers |-> new.servers, default |-> new.default]
  BY <1>2, <1>4
<1> HIDE DEF new
<1>6. new.servers \in [Url -> C!ServerEntry \cup {None}] /\ new.default \in Url \cup {None}
  BY <1>1, <1>3, <1>5
<1>7. new \in C!Store
  BY <1>5, <1>6 DEF C!Store
<1>8. new.servers[url] = None /\ \A u \in Url \ {url} : new.servers[u] = store.servers[u]
  BY <1>3, <1>5
<1>9. C!Known(new) = left
  BY <1>8 DEF C!Known
<1>10. Belong(store) => Belong(new)
  BY <1>8, <1>9 DEF Belong, C!Known
<1>11. C!Sound(store) => C!Sound(new)
  BY <1>5, <1>9 DEF C!Sound
<1> QED
  BY <1>7, <1>8, <1>10, <1>11 DEF new

LEMMA UsernameStores ==
  ASSUME C!Parameters, NEW store \in C!Store, NEW url \in C!Known(store), NEW name \in User
  PROVE  LET new == C!with_username(store, url, name)
         IN  /\ new \in C!Store
             /\ Belong(store) /\ name = store.servers[url].token => Belong(new)
             /\ C!Sound(store) => C!Sound(new)
             /\ \A u \in Url \ {url} : new.servers[u] = store.servers[u]
<1> DEFINE new == C!with_username(store, url, name)
           entry == [store.servers[url] EXCEPT !.username = name]
<1>1. url \in Url /\ store.servers[url] \in C!ServerEntry
  BY DEF C!Known, C!Store
<1>2. entry \in C!ServerEntry /\ entry # None
      /\ entry.username = name /\ entry.token = store.servers[url].token
  BY <1>1 DEF C!Parameters, C!ServerEntry
<1>3. store.servers \in [Url -> C!ServerEntry \cup {None}] /\ store.default \in Url \cup {None}
      /\ store = [servers |-> store.servers, default |-> store.default]
  BY DEF C!Store
<1>4. new = [servers |-> [store.servers EXCEPT ![url] = entry], default |-> store.default]
  BY <1>3 DEF C!with_username
<1> HIDE DEF entry, new
<1>5. new.servers = [store.servers EXCEPT ![url] = entry] /\ new.default = store.default
  BY <1>4
<1>6. new \in C!Store
  BY <1>1, <1>2, <1>3, <1>4 DEF C!Store
<1>7. new.servers[url] = entry /\ \A u \in Url \ {url} : new.servers[u] = store.servers[u]
  BY <1>1, <1>3, <1>5
<1>8. C!Known(new) = C!Known(store)
  BY <1>1, <1>2, <1>7 DEF C!Known
<1>9. Belong(store) /\ name = store.servers[url].token => Belong(new)
  BY <1>2, <1>7, <1>8 DEF Belong, C!Known
<1>10. C!Sound(store) => C!Sound(new)
  BY <1>5, <1>8 DEF C!Sound
<1> QED
  BY <1>6, <1>7, <1>9, <1>10 DEF new

(***************************************************************************)
(* What a command loads is a store, with names of their tokens.            *)
(***************************************************************************)
LEMMA LoadIs ==
  ASSUME C!Parameters, CTyped, C!load # Torn
  PROVE  /\ C!load \in C!Store
         /\ Names /\ ~past.lent => Belong(C!load)
<1>1. CASE file = None
  BY <1>1, EmptyStore DEF C!load
<1>2. CASE file # None
  <2>1. file \in File /\ C!load = text[file]
    BY <1>2 DEF CTyped, C!load
  <2> QED
    BY <2>1 DEF CTyped, Names
<1> QED
  BY <1>1, <1>2

(***************************************************************************)
(* Initial states.                                                         *)
(***************************************************************************)
LEMMA FreshIs ==
  ASSUME C!Parameters
  PROVE  C!Fresh \in Command /\ InHand(C!Fresh) /\ Honest(C!Fresh) /\ Lone(C!Fresh)
<1>1. /\ C!Fresh.pc = "idle"
      /\ C!Fresh \in Command
  BY EmptyStore DEF C!Fresh, Command
<1> QED
  BY <1>1 DEF InHand, Honest, Lone, Opened

(***************************************************************************)
(* The store may be one of an earlier version, with an entry and no name.  *)
(***************************************************************************)
LEMMA CInit == C!Parameters /\ C!Init => CInv
<1> SUFFICES ASSUME C!Parameters, C!Init
             PROVE  CInv
  OBVIOUS
<1>1. C!Min(File) \in File
  BY MinIsIn DEF C!Parameters
<1>2. PICK u \in Url, user \in User :
        LET old == [servers |-> [C!empty.servers EXCEPT ![u] = [token |-> user, username |-> None]],
                    default |-> u]
        IN  text = [f \in File |-> IF f = file THEN old ELSE Torn]
  BY DEF C!Init
<1> DEFINE entry == [token |-> user, username |-> None]
           servers == [C!empty.servers EXCEPT ![u] = entry]
           old == [servers |-> servers, default |-> u]
<1>3. entry \in C!ServerEntry /\ entry # None /\ entry.username = None
  BY DEF C!ServerEntry, C!Parameters
<1>4. C!empty.servers = [v \in Url |-> None]
  BY DEF C!empty
<1>5. text = [f \in File |-> IF f = file THEN old ELSE Torn]
  BY <1>2
<1> HIDE DEF entry
<1>6. servers \in [Url -> C!ServerEntry \cup {None}] /\ servers[u] = entry
      /\ \A v \in Url \ {u} : servers[v] = None
  BY <1>3, <1>4
<1> HIDE DEF servers
<1>7. old.servers = servers /\ old.default = u /\ old \in C!Store
  BY <1>6 DEF C!Store
<1>8. old # Torn
  BY <1>7 DEF C!Parameters
<1> HIDE DEF old
<1>9. Belong(old) /\ C!Sound(old)
  BY <1>3, <1>6, <1>7 DEF Belong, C!Sound, C!Known
<1>10. /\ file \in {None, C!Min(File)} /\ tmp = None
       /\ proc = [p \in Proc |-> C!Fresh] /\ past = [overlap |-> FALSE, lent |-> FALSE]
  BY DEF C!Init
<1>11. CTyped
  BY <1>1, <1>5, <1>7, <1>10, FreshIs DEF CTyped
<1>12. Names
  BY <1>5, <1>9, <1>10, FreshIs DEF Names
<1>13. C!load \in {C!empty, old}
  BY <1>1, <1>5, <1>10 DEF C!load
<1>14. C!load # Torn /\ C!Sound(C!load)
  BY <1>8, <1>9, <1>13, EmptyStore
<1>15. \A p \in Proc : ~C!Active(p) /\ Lone(proc[p])
  BY <1>10, FreshIs DEF C!Active, C!At, C!Fresh
<1> QED
  BY <1>10, <1>11, <1>12, <1>14, <1>15 DEF CInv, Solo

(***************************************************************************)
(* A step of a command that leaves the files alone: it starts, learns a    *)
(* name, or ends.                                                          *)
(***************************************************************************)
LEMMA MovesOn ==
  ASSUME C!Parameters, CInv, NEW p \in Proc, NEW c \in Command, C!Move(p, c),
         UNCHANGED <<file, tmp, text>>, past' \in [overlap : BOOLEAN, lent : BOOLEAN],
         past.lent => past'.lent, past.overlap => past'.overlap,
         InHand(c), ~past'.lent => Honest(c), ~past'.overlap => Lone(c),
         ~past'.overlap /\ c.pc # "idle" => \A q \in Proc \ {p} : ~C!Active(q)
  PROVE  CInv'
<1>1. proc' = [proc EXCEPT ![p] = c] /\ proc \in [Proc -> Command]
  BY DEF C!Move, CInv, CTyped
<1>2. proc'[p] = c /\ \A q \in Proc \ {p} : proc'[q] = proc[q]
  BY <1>1
<1>3. CTyped'
  BY <1>1, <1>2 DEF CInv, CTyped
<1>4. Names'
  BY <1>2 DEF CInv, Names
<1>5. C!load' = C!load
  BY DEF C!load
<1>6. Solo'
  <2> SUFFICES ASSUME ~past'.overlap
               PROVE  /\ \A q, r \in Proc : C!Active(q)' /\ C!Active(r)' => q = r
                      /\ C!load' # Torn /\ C!Sound(C!load)'
                      /\ \A q \in Proc : Lone(proc[q])'
    BY DEF Solo
  <2>1. ~past.overlap
    OBVIOUS
  <2>2. \A q, r \in Proc : C!Active(q)' /\ C!Active(r)' => q = r
    BY <1>2, <2>1 DEF CInv, Solo, C!Active, C!At
  <2>3. C!load' # Torn /\ C!Sound(C!load)'
    BY <1>5, <2>1 DEF CInv, Solo, C!Sound, C!Known
  <2>4. ASSUME NEW q \in Proc
        PROVE  Lone(proc[q])'
    <3>1. Lone(proc'[q])
      BY <1>2, <2>1 DEF CInv, Solo
    <3> QED
      BY <1>5, <3>1 DEF Lone, Apart, C!Sound, C!Known
  <2> QED
    BY <2>2, <2>3, <2>4
<1> QED
  BY <1>3, <1>4, <1>6 DEF CInv

(***************************************************************************)
(* A command that ends or is killed leaves the files as they are.          *)
(***************************************************************************)
LEMMA CommandEnds ==
  ASSUME C!Parameters, CInv, NEW p \in Proc, C!End(p), UNCHANGED <<file, tmp, text, past>>
  PROVE  CInv'
<1>1. C!Move(p, C!Fresh) /\ C!Fresh.pc = "idle"
  BY DEF C!End, C!Fresh
<1>2. past' \in [overlap : BOOLEAN, lent : BOOLEAN]
  BY DEF CInv, CTyped
<1> QED
  BY <1>1, <1>2, FreshIs, MovesOn

(***************************************************************************)
(* A command starts.                                                       *)
(***************************************************************************)
LEMMA Launches ==
  ASSUME C!Parameters, CInv, NEW p \in Proc, NEW c \in Command, C!Launch(p, c),
         C!load # Torn, InHand(c), c.pc \in {"verify", "open"},
         ~past.lent => Honest(c), C!Sound(C!load) => C!Sound(c.store), Apart(c.store, c.url)
  PROVE  CInv'
<1>1. /\ C!Move(p, c) /\ UNCHANGED <<file, tmp, text>> /\ ~C!Active(p)
      /\ past' = [past EXCEPT !.overlap = @ \/ \E q \in Proc : C!Active(q)]
  BY DEF C!Launch, C!files, C!Active
<1>2. past \in [overlap : BOOLEAN, lent : BOOLEAN]
  BY DEF CInv, CTyped
<1>3. /\ past'.lent = past.lent /\ past'.overlap = (past.overlap \/ \E q \in Proc : C!Active(q))
      /\ past' \in [overlap : BOOLEAN, lent : BOOLEAN]
  BY <1>1, <1>2
<1>4. ~past'.overlap => Lone(c)
  BY <1>3 DEF CInv, Solo, Lone, Opened
<1> QED
  BY <1>1, <1>3, <1>4, MovesOn

(***************************************************************************)
(* The server a command speaks to is one that has a normalized URL.        *)
(***************************************************************************)
LEMMA Targeted ==
  ASSUME C!Parameters, CInv, C!load # Torn, NEW url \in C!Targets
  PROVE  url \in Url
<1> DEFINE raw == [url : Url, spelling : Spelling] \cup {None}
<1>1. url # None /\ \E option, env \in raw : url = C!resolve_url(C!load, option, env)
  BY DEF C!Targets
<1>2. C!load.default \in Url \cup {None}
  BY LoadIs DEF CInv, C!Store
<1> QED
  BY <1>1, <1>2 DEF C!resolve_url, C!normalize_server_url

(***************************************************************************)
(* The three ways in which a command begins.                               *)
(***************************************************************************)
LEMMA BeginStep ==
  ASSUME C!Parameters, CInv, NEW p \in Proc, C!Begin(p)
  PROVE  CInv'
<1>1. C!load # Torn /\ C!load \in C!Store /\ (~past.lent => Belong(C!load))
  BY LoadIs DEF C!Begin, CInv
<1>2. PICK url \in C!Targets :
        \/ C!auth_login(p, url) \/ C!auth_logout(p, url)
        \/ \E env \in User \cup {None} : C!resolve_username(p, url, env)
  BY DEF C!Begin
<1>3. url \in Url
  BY <1>1, Targeted
<1>4. CASE C!auth_login(p, url)
  <2>1. PICK token \in User :
          C!Launch(p, [C!Fresh EXCEPT !.pc = "verify", !.cmd = "login", !.store = C!load,
                         !.url = url, !.token = token])
    BY <1>4 DEF C!auth_login
  <2> DEFINE c == [C!Fresh EXCEPT !.pc = "verify", !.cmd = "login", !.store = C!load,
                     !.url = url, !.token = token]
  <2>2. c \in Command /\ c.pc = "verify" /\ c.cmd = "login" /\ c.store = C!load
        /\ c.url = url /\ c.token = token
    BY <1>1, <1>3, FreshIs DEF C!Fresh, Command
  <2>3. C!Launch(p, c)
    BY <2>1
  <2> HIDE DEF c
  <2>4. InHand(c) /\ (~past.lent => Honest(c)) /\ Apart(c.store, c.url)
    BY <1>1, <1>3, <2>2 DEF InHand, Opened, Honest, Apart
  <2> QED
    BY <1>1, <2>2, <2>3, <2>4, Launches
<1>5. CASE C!auth_logout(p, url)
  <2> DEFINE new == C!without(C!load, url)
             c == [C!Fresh EXCEPT !.pc = "open", !.cmd = "logout", !.store = new, !.url = url]
  <2>1. C!Launch(p, c)
    BY <1>5 DEF C!auth_logout
  <2>2. /\ new \in C!Store /\ (Belong(C!load) => Belong(new))
        /\ C!Sound(C!load) => C!Sound(new)
        /\ \A u \in Url \ {url} : new.servers[u] = C!load.servers[u]
    BY <1>1, <1>3, LogoutStores
  <2> HIDE DEF new
  <2>3. c \in Command /\ c.pc = "open" /\ c.cmd = "logout" /\ c.store = new /\ c.url = url
    BY <1>3, <2>2, FreshIs DEF C!Fresh, Command, Saving
  <2> HIDE DEF c
  <2>4. InHand(c) /\ (~past.lent => Honest(c)) /\ Apart(c.store, c.url)
    BY <1>1, <1>3, <2>2, <2>3 DEF InHand, Opened, Honest, Apart
  <2> QED
    BY <1>1, <2>1, <2>2, <2>3, <2>4, Launches
<1>6. ASSUME NEW env \in User \cup {None}, C!resolve_username(p, url, env)
      PROVE  CInv'
  <2> DEFINE token == C!resolve_token(C!load, url, env)
             c == [C!Fresh EXCEPT !.pc = "verify", !.cmd = "transfer", !.store = C!load,
                     !.url = url, !.token = token, !.lent = env # None]
  <2>1. token # None /\ C!Launch(p, c)
    BY <1>6 DEF C!resolve_username
  <2>2. C!load.servers[url] \in C!ServerEntry \cup {None}
    BY <1>1, <1>3 DEF C!Store
  <2>3. token \in User /\ (env = None => token = C!load.servers[url].token)
    BY <2>1, <2>2 DEF C!resolve_token, C!ServerEntry
  <2> HIDE DEF token
  <2>4. c \in Command /\ c.pc = "verify" /\ c.store = C!load /\ c.url = url /\ c.token = token
        /\ c.lent = (env # None)
    BY <1>1, <1>3, <2>3, FreshIs DEF C!Fresh, Command
  <2> HIDE DEF c
  <2>5. InHand(c) /\ (~past.lent => Honest(c)) /\ Apart(c.store, c.url)
    BY <1>1, <1>3, <2>3, <2>4 DEF InHand, Opened, Honest, Apart
  <2> QED
    BY <1>1, <2>1, <2>4, <2>5, Launches
<1> QED
  BY <1>2, <1>4, <1>5, <1>6

(***************************************************************************)
(* The server has told the name.                                           *)
(***************************************************************************)
LEMMA Learns ==
  ASSUME C!Parameters, CInv, NEW p \in Proc, C!At(p, "verify"), NEW new \in C!Store,
         C!Move(p, [proc[p] EXCEPT !.pc = "open", !.store = new]),
         UNCHANGED <<file, tmp, text>>, past'.overlap = past.overlap,
         past' \in [overlap : BOOLEAN, lent : BOOLEAN], past.lent => past'.lent,
         ~past'.lent => Belong(new),
         C!Sound(proc[p].store) => C!Sound(new),
         \A u \in Url \ {proc[p].url} : new.servers[u] = proc[p].store.servers[u]
  PROVE  CInv'
<1> DEFINE c == [proc[p] EXCEPT !.pc = "open", !.store = new]
<1>1. proc[p] \in Command /\ InHand(proc[p]) /\ proc[p].pc = "verify"
  BY DEF CInv, CTyped, C!At
<1>2. c \in Command /\ c.pc = "open" /\ c.store = new /\ c.url = proc[p].url
  BY <1>1 DEF Command, Saving
<1>3. C!Move(p, c)
  OBVIOUS
<1> HIDE DEF c
<1>4. InHand(c) /\ (~past'.lent => Honest(c))
  BY <1>1, <1>2 DEF InHand, Honest, Opened
<1>5. ~past'.overlap => Lone(c)
  BY <1>1, <1>2 DEF CInv, Solo, Lone, Apart, Opened
<1>6. ~past'.overlap => \A q \in Proc \ {p} : ~C!Active(q)
  BY <1>1 DEF CInv, Solo, C!Active, C!At
<1> QED
  BY <1>2, <1>3, <1>4, <1>5, <1>6, MovesOn

(***************************************************************************)
(* What the answer of GET /api/auth/me leads to.                           *)
(***************************************************************************)
LEMMA MeStep ==
  ASSUME C!Parameters, CInv, NEW p \in Proc, C!me(p)
  PROVE  CInv'
<1> DEFINE c == proc[p]
<1>1. /\ C!At(p, "verify") /\ UNCHANGED <<file, tmp, text>>
      /\ c \in Command /\ c.url \in Url /\ c.token \in User /\ c.store \in C!Store
      /\ ~past.lent => Honest(c)
      /\ past \in [overlap : BOOLEAN, lent : BOOLEAN] /\ c.lent \in BOOLEAN
  BY DEF C!me, C!files, C!At, CInv, CTyped, InHand, Command, Names
<1>2. CASE C!End(p) /\ UNCHANGED past
  BY <1>1, <1>2, CommandEnds
<1>3. ASSUME NEW new \in {C!with_login(c.store, c.url, c.token, c.token),
                          C!with_default(C!with_login(c.store, c.url, c.token, c.token), c.url)},
             C!Move(p, [c EXCEPT !.pc = "open", !.store = new]), UNCHANGED past
      PROVE  CInv'
  <2>1. /\ new \in C!Store
        /\ Belong(c.store) => Belong(new)
        /\ C!Sound(c.store) => C!Sound(new)
        /\ \A u \in Url \ {c.url} : new.servers[u] = c.store.servers[u]
    BY <1>1, LoginStores
  <2>2. ~past.lent => Belong(new)
    BY <1>1, <2>1 DEF Honest, C!At
  <2> QED
    BY <1>1, <1>3, <2>1, <2>2, Learns
<1>4. ASSUME c.cmd = "transfer", c.url \in C!Known(c.store),
             C!Move(p, [c EXCEPT !.pc = "open",
                          !.store = C!with_username(c.store, c.url, c.token)]),
             past' = [past EXCEPT !.lent = @ \/ c.lent]
      PROVE  CInv'
  <2> DEFINE new == C!with_username(c.store, c.url, c.token)
  <2>1. /\ new \in C!Store
        /\ Belong(c.store) /\ c.token = c.store.servers[c.url].token => Belong(new)
        /\ C!Sound(c.store) => C!Sound(new)
        /\ \A u \in Url \ {c.url} : new.servers[u] = c.store.servers[u]
    BY <1>1, <1>4, UsernameStores
  <2>2. /\ past'.overlap = past.overlap /\ past' \in [overlap : BOOLEAN, lent : BOOLEAN]
        /\ past'.lent = (past.lent \/ c.lent)
    BY <1>1, <1>4
  <2>3. C!Move(p, [c EXCEPT !.pc = "open", !.store = new])
    BY <1>4
  <2> HIDE DEF new
  <2>4. ~past'.lent => Belong(new)
    BY <1>1, <1>4, <2>1, <2>2 DEF Honest, C!At
  <2> QED
    BY <1>1, <2>1, <2>2, <2>3, <2>4, Learns
<1> QED
  BY <1>2, <1>3, <1>4 DEF C!me

(***************************************************************************)
(* Saving.  Only the last step changes what the next command will load.    *)
(***************************************************************************)
LEMMA OpenStep ==
  ASSUME C!Parameters, CInv, NEW p \in Proc, C!Open(p)
  PROVE  CInv' /\ C!load' = C!load
<1> DEFINE f == IF tmp # None THEN tmp ELSE C!Min(File \ C!InUse)
           c == [proc[p] EXCEPT !.pc = "write", !.fd = f]
<1>1. /\ C!At(p, "open") /\ tmp' = f /\ file' = file /\ past' = past
      /\ text' = [text EXCEPT ![f] = Torn] /\ proc' = [proc EXCEPT ![p] = c]
  BY DEF C!Open, C!Move
<1>2. f \in File /\ (tmp = None => f \notin C!InUse) /\ (tmp # None => f = tmp)
  <2>1. CASE tmp # None
    BY <2>1 DEF CInv, CTyped
  <2>2. CASE tmp = None
    <3>1. File \ C!InUse # {} /\ File \ C!InUse \in SUBSET Nat
      BY <2>2 DEF C!Open, C!Parameters
    <3>2. C!Min(File \ C!InUse) \in File \ C!InUse
      BY <3>1, MinIsIn
    <3> QED
      BY <2>2, <3>2
  <2> QED
    BY <2>1, <2>2
<1> HIDE DEF f
<1>3. /\ proc[p] \in Command /\ proc[p].pc = "open" /\ InHand(proc[p])
      /\ proc \in [Proc -> Command] /\ text \in [File -> C!Store \cup {Torn}]
  BY <1>1 DEF CInv, CTyped, C!At
<1>4. c \in Command /\ c.pc = "write" /\ c.fd = f /\ c.store = proc[p].store /\ c.url = proc[p].url
  BY <1>2, <1>3 DEF Command, Saving
<1> HIDE DEF c
<1>5. /\ proc'[p] = c /\ \A q \in Proc \ {p} : proc'[q] = proc[q]
      /\ text'[f] = Torn /\ \A g \in File \ {f} : text'[g] = text[g]
  BY <1>1, <1>2, <1>3
<1>6. file # None => file # f
  BY <1>2 DEF CInv, CTyped, C!InUse
<1>7. CTyped'
  <2>1. InHand(c)
    BY <1>2, <1>3, <1>4 DEF InHand, Opened
  <2>2. text' \in [File -> C!Store \cup {Torn}] /\ proc' \in [Proc -> Command]
    BY <1>1, <1>2, <1>3, <1>4
  <2> QED
    BY <1>1, <1>2, <1>5, <1>6, <2>1, <2>2 DEF CInv, CTyped
<1>8. Names'
  <2>1. Honest(proc[p]) => Honest(c)
    BY <1>3, <1>4 DEF Honest
  <2> QED
    BY <1>1, <1>5, <2>1 DEF CInv, Names
<1>9. C!load' = C!load
  BY <1>1, <1>2, <1>5, <1>6 DEF C!load, CInv, CTyped
<1>10. Solo'
  <2> SUFFICES ASSUME ~past.overlap
               PROVE  /\ \A q, r \in Proc : C!Active(q)' /\ C!Active(r)' => q = r
                      /\ C!load' # Torn /\ C!Sound(C!load)'
                      /\ \A q \in Proc : Lone(proc[q])'
    BY <1>1 DEF Solo
  <2>1. \A q, r \in Proc : C!Active(q)' /\ C!Active(r)' => q = r
    BY <1>3, <1>4, <1>5 DEF CInv, Solo, C!Active, C!At
  <2>2. C!load' # Torn /\ C!Sound(C!load)'
    BY <1>9 DEF CInv, Solo, C!Sound, C!Known
  <2>3. ASSUME NEW q \in Proc
        PROVE  Lone(proc[q])'
    <3>1. CASE q = p
      <4>1. Lone(proc[p])
        BY DEF CInv, Solo
      <4> QED
        BY <1>1, <1>3, <1>4, <1>5, <1>9, <3>1, <4>1 DEF Lone, Apart, C!Sound, C!Known, Opened
    <3>2. CASE q # p
      <4>1. proc'[q].pc = "idle"
        BY <1>3, <1>5, <3>2 DEF CInv, Solo, C!Active, C!At
      <4> QED
        BY <4>1 DEF Lone
    <3> QED
      BY <3>1, <3>2
  <2> QED
    BY <2>1, <2>2, <2>3
<1> QED
  BY <1>7, <1>8, <1>9, <1>10 DEF CInv

(***************************************************************************)
(* Alone, a command writes to a file no other one has, over no text.       *)
(***************************************************************************)
LEMMA WriteStep ==
  ASSUME C!Parameters, CInv, NEW p \in Proc, C!Write(p)
  PROVE  CInv' /\ (past.overlap \/ C!load' = C!load)
<1> DEFINE f == proc[p].fd
           c == [proc[p] EXCEPT !.pc = "replace"]
<1>1. /\ C!At(p, "write") /\ UNCHANGED <<file, tmp, past>>
      /\ proc' = [proc EXCEPT ![p] = c]
      /\ \/ text' = [text EXCEPT ![f] = proc[p].store]
         \/ text[f] # Torn /\ text' = [text EXCEPT ![f] = Torn]
  BY DEF C!Write, C!Goto, C!Move
<1>2. /\ proc[p] \in Command /\ proc[p].pc = "write" /\ InHand(proc[p]) /\ f \in File
      /\ proc \in [Proc -> Command] /\ text \in [File -> C!Store \cup {Torn}]
  BY <1>1 DEF CInv, CTyped, C!At, InHand, Opened
<1>3. /\ c \in Command /\ c.pc = "replace" /\ c.fd = f
      /\ c.store = proc[p].store /\ c.url = proc[p].url
  BY <1>2 DEF Command, Saving
<1>4. c.store \in C!Store
  BY <1>3 DEF Command
<1> HIDE DEF c, f
<1>5. /\ proc'[p] = c /\ \A q \in Proc \ {p} : proc'[q] = proc[q]
      /\ text'[f] \in {c.store, Torn} /\ \A g \in File \ {f} : text'[g] = text[g]
      /\ text[f] = Torn => text'[f] = c.store
  BY <1>1, <1>2, <1>3
<1>6. CTyped'
  <2>1. InHand(c)
    BY <1>2, <1>3 DEF InHand, Opened
  <2>2. text' \in [File -> C!Store \cup {Torn}] /\ proc' \in [Proc -> Command]
    BY <1>1, <1>2, <1>3, <1>4
  <2> QED
    BY <1>1, <1>5, <2>1, <2>2 DEF CInv, CTyped
<1>7. Names'
  <2>1. Honest(proc[p]) => Honest(c) /\ Belong(c.store)
    BY <1>2, <1>3 DEF Honest
  <2> QED
    BY <1>1, <1>5, <2>1 DEF CInv, Names
<1>8. ~past.overlap => tmp = f /\ text[f] = Torn
  <2>1. f = proc[p].fd
    BY DEF f
  <2> QED
    BY <1>2, <2>1 DEF CInv, Solo, Lone, Opened
<1>9. past.overlap \/ C!load' = C!load
  BY <1>1, <1>5, <1>8 DEF C!load, CInv, CTyped
<1>10. Solo'
  <2> SUFFICES ASSUME ~past.overlap
               PROVE  /\ \A q, r \in Proc : C!Active(q)' /\ C!Active(r)' => q = r
                      /\ C!load' # Torn /\ C!Sound(C!load)'
                      /\ \A q \in Proc : Lone(proc[q])'
    BY <1>1 DEF Solo
  <2>1. \A q, r \in Proc : C!Active(q)' /\ C!Active(r)' => q = r
    BY <1>2, <1>3, <1>5 DEF CInv, Solo, C!Active, C!At
  <2>2. C!load' # Torn /\ C!Sound(C!load)'
    BY <1>9 DEF CInv, Solo, C!Sound, C!Known
  <2>3. ASSUME NEW q \in Proc
        PROVE  Lone(proc[q])'
    <3>1. CASE q = p
      <4>1. Lone(proc[p])
        BY DEF CInv, Solo
      <4> QED
        BY <1>1, <1>2, <1>3, <1>5, <1>8, <1>9, <3>1, <4>1 DEF Lone, Apart, C!Sound, C!Known, Opened
    <3>2. CASE q # p
      <4>1. proc'[q].pc = "idle"
        BY <1>2, <1>5, <3>2 DEF CInv, Solo, C!Active, C!At
      <4> QED
        BY <4>1 DEF Lone
    <3> QED
      BY <3>1, <3>2
  <2> QED
    BY <2>1, <2>2, <2>3
<1> QED
  BY <1>6, <1>7, <1>9, <1>10 DEF CInv

(***************************************************************************)
(* The rename: the store becomes what the command has written.             *)
(***************************************************************************)
Atomic ==
  C!load' # C!load =>
    /\ C!load' # Torn /\ C!Sound(C!load)'
    /\ \E url \in Url : \A other \in Url \ {url} :
         C!load'.servers[other] = C!load.servers[other]

LEMMA ReplaceStep ==
  ASSUME C!Parameters, CInv, NEW p \in Proc, C!Replace(p)
  PROVE  CInv' /\ (past.overlap \/ Atomic)
<1>1. /\ proc[p].pc = "replace" /\ proc' = [proc EXCEPT ![p] = C!Fresh] /\ past' = past
      /\ C!End(p)
      /\ proc[p].url \in Url
  BY DEF C!Replace, C!End, C!Move, C!At, CInv, CTyped, InHand
<1>2. CASE tmp = None
  <2>1. UNCHANGED <<file, tmp, text, past>>
    BY <1>1, <1>2 DEF C!Replace, C!files
  <2>2. C!load' = C!load
    BY <2>1 DEF C!load
  <2> QED
    BY <1>1, <2>1, <2>2, CommandEnds DEF Atomic
<1>3. CASE tmp # None
  <2>1. /\ file' = tmp /\ tmp' = None
        /\ text' = [f \in File |-> IF f = file THEN Torn ELSE text[f]]
    BY <1>3 DEF C!Replace
  <2>2. tmp \in File /\ tmp # file /\ None \notin File
        /\ text \in [File -> C!Store \cup {Torn}] /\ proc \in [Proc -> Command]
    BY <1>3 DEF CInv, CTyped, C!Parameters
  <2>3. C!load' = text[tmp]
    BY <2>1, <2>2 DEF C!load
  <2>4. proc'[p] = C!Fresh /\ \A q \in Proc \ {p} : proc'[q] = proc[q]
    BY <1>1, <2>2
  <2>5. CTyped'
    <3>1. text' \in [File -> C!Store \cup {Torn}] /\ proc' \in [Proc -> Command]
      BY <1>1, <2>1, <2>2, FreshIs
    <3> QED
      BY <1>1, <2>1, <2>2, <2>4, <3>1, FreshIs DEF CInv, CTyped
  <2>6. Names'
    BY <1>1, <2>1, <2>4, FreshIs DEF CInv, Names
  <2>7. ASSUME ~past.overlap
        PROVE  /\ C!load' # Torn /\ C!Sound(C!load)'
               /\ \A u \in Url \ {proc[p].url} : C!load'.servers[u] = C!load.servers[u]
    <3>1. Lone(proc[p]) /\ proc[p].store \in C!Store
      BY <2>2, <2>7 DEF CInv, Solo, Command
    <3>2. C!load' = proc[p].store
      BY <1>1, <2>3, <3>1 DEF Lone
    <3> QED
      BY <1>1, <3>1, <3>2 DEF Lone, Apart, C!Parameters, C!Sound, C!Known
  <2>8. Solo'
    <3> SUFFICES ASSUME ~past.overlap
                 PROVE  /\ \A q, r \in Proc : C!Active(q)' /\ C!Active(r)' => q = r
                        /\ C!load' # Torn /\ C!Sound(C!load)'
                        /\ \A q \in Proc : Lone(proc[q])'
      BY <1>1 DEF Solo
    <3>1. \A q \in Proc : proc'[q].pc = "idle"
      BY <1>1, <2>4 DEF CInv, Solo, C!Active, C!At, C!Fresh
    <3> QED
      BY <2>7, <3>1 DEF C!Active, C!At, Lone
  <2> QED
    BY <1>1, <2>5, <2>6, <2>7, <2>8 DEF CInv, Atomic
<1> QED
  BY <1>2, <1>3

(***************************************************************************)
(* Every step keeps the invariant, and changes the store atomically unless *)
(* commands have overlapped.                                               *)
(***************************************************************************)
LEMMA CStep ==
  ASSUME C!Parameters, CInv, [C!Next]_(C!vars)
  PROVE  CInv' /\ (past'.overlap \/ Atomic)
<1>1. ASSUME NEW p \in Proc, C!Begin(p) \/ C!me(p) \/ C!Interrupt(p)
      PROVE  CInv' /\ C!load' = C!load
  <2>1. UNCHANGED <<file, tmp, text>>
    BY <1>1 DEF C!Begin, C!auth_login, C!auth_logout, C!resolve_username, C!Launch,
                C!me, C!Interrupt, C!files
  <2>2. CASE C!Interrupt(p)
    <3>1. C!End(p) /\ past' = past
      BY <2>2 DEF C!Interrupt
    <3>2. C!load' = C!load
      BY <2>1 DEF C!load
    <3> QED
      BY <2>1, <3>1, <3>2, CommandEnds
  <2>3. C!load' = C!load
    BY <2>1 DEF C!load
  <2> SUFFICES CInv'
    BY <2>3
  <2>4. CASE C!Begin(p)
    BY <2>4, BeginStep, Zenon
  <2>5. CASE C!me(p)
    BY <2>5, MeStep, Zenon
  <2> QED
    BY <1>1, <2>2, <2>4, <2>5
<1>2. ASSUME NEW p \in Proc, C!save(p)
      PROVE  CInv' /\ (past'.overlap \/ Atomic)
  <2>1. past' = past
    BY <1>2 DEF C!save, C!Open, C!Write, C!Replace
  <2> QED
    BY <1>2, <2>1, OpenStep, WriteStep, ReplaceStep DEF C!save, Atomic
<1>3. CASE UNCHANGED C!vars
  <2>1. UNCHANGED <<file, tmp, text, proc, past>>
    BY <1>3 DEF C!vars
  <2>2. C!load' = C!load
    BY <2>1 DEF C!load
  <2>3. CTyped' /\ Names'
    BY <2>1 DEF CInv, CTyped, Names
  <2>4. Solo'
    BY <2>1, <2>2 DEF CInv, Solo, Lone, Apart, C!Active, C!At, C!Sound, C!Known
  <2> QED
    BY <2>2, <2>3, <2>4 DEF CInv, Atomic
<1> QED
  BY <1>1, <1>2, <1>3 DEF C!Next, Atomic

(***************************************************************************)
(* The user name stored with a token is always that of its user, whatever  *)
(* overlaps, is killed or logs in again, unless a token of the environment *)
(* met an entry without a name (omc, Store and resolve_username).          *)
(***************************************************************************)
THEOREM CredentialsAlwaysBelongTogether ==
  C!Parameters => (C!Spec => []C!CredentialsBelongTogether)
<1> SUFFICES ASSUME C!Parameters
             PROVE  C!Spec => []C!CredentialsBelongTogether
  OBVIOUS
<1>1. CInv => C!CredentialsBelongTogether
  BY LoadIs DEF CInv, Belong, C!CredentialsBelongTogether
<1> QED
  BY <1>1, CInit, CStep, PTL DEF C!Spec

(***************************************************************************)
(* As long as commands run one at a time, what the next one will load      *)
(* changes only from one sound store to another and only in the entry of   *)
(* one server, also when commands are killed anywhere (Store.save).        *)
(***************************************************************************)
THEOREM SavesAreAlwaysAtomic == C!Parameters => (C!Spec => C!SavesAreAtomic)
<1> SUFFICES ASSUME C!Parameters
             PROVE  C!Spec => C!SavesAreAtomic
  OBVIOUS
<1>1. CInv /\ [C!Next]_(C!vars) =>
        [~past'.overlap /\ C!load' # C!load =>
           /\ C!load' # Torn /\ C!Sound(C!load')
           /\ \E url \in Url : \A other \in Url \ {url} :
                C!load'.servers[other] = C!load.servers[other]]_(C!vars)
  BY CStep DEF Atomic, C!Sound, C!Known
<1> QED
  BY <1>1, CInit, CStep, PTL DEF C!Spec, C!SavesAreAtomic
=============================================================================
