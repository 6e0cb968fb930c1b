------------------------------- MODULE Host -------------------------------
(***************************************************************************)
(* The operator's side of an installation: the commands `setup', `start',  *)
(* `stop', `restart', `update' and `reset' of src/outo_models/cli, the      *)
(* scripts update.sh and reset.sh they run, the boot of the server inside   *)
(* its container, and the renewal job that may reload Caddy.                *)
(*                                                                          *)
(* One operator runs one command at a time, and every command takes several *)
(* steps between which the command may be interrupted, the container may    *)
(* die, a release may be published and the host's port threshold change.    *)
(* An image is identified by its version, and a version's code knows the    *)
(* schemas up to its own number: alembic refuses a database of a later one. *)
(***************************************************************************)
EXTENDS Integers

CONSTANTS Tags,        \* image references: moving tags such as `:stable'
          Providers,   \* DNS providers offered: "cloudflare", "manual"
          Versions,    \* bound: the versions that are ever published
          MaxWrites,   \* bound: how often the configuration is written
          Volumes,     \* names of data volumes
          DefaultVolume, \* outo-models-data: written out in setup and the scripts
          Absent,      \* no file
          Torn,        \* a file that was truncated and not yet written
          NoBox        \* no container

VARIABLES registry,    \* [Tags -> Versions]: what a pull would fetch
          local,       \* [Tags -> Versions]: the local image of a tag
          config,      \* config.yaml
          caddyfile,   \* the wizard's Caddyfile
          data,        \* [Volumes -> schema of the database there, 0: none]
          box,         \* the container named outo-models
          holders,     \* throwaway containers left behind on the default volume
          blocked,     \* rootless podman cannot publish the low ports
          writes,      \* writings of the configuration: each has its own values
          op,          \* the command that runs, and its next step
          result       \* how the last command ended

files == <<config, caddyfile>>
images == <<registry, local>>
host == <<registry, blocked, writes>>
vars == <<registry, local, config, caddyfile, data, box, holders, blocked,
          writes, op, result>>

\* An installation without a host name is internal, "ip"; one whose name was
\* given as the address of an internal one has asked for no provider, "none".
Modes == {"ip", "none"} \cup Providers
Configs == [tag : Tags, mode : Modes, volume : Volumes, values : 1..MaxWrites]
Boxes == [image : Versions, values : 1..MaxWrites, mode : Modes, volume : Volumes,
          status : {"running", "created", "exited"},
          caddy : {"down", "plain", "http01", "dns01"}, app : {"down", "up"}]

ASSUME HostAssumption ==
    /\ Providers \subseteq {"cloudflare", "manual"}
    /\ Versions \subseteq Nat \ {0}
    /\ DefaultVolume \in Volumes
    /\ MaxWrites \in Nat
    /\ NoBox \notin Boxes

Idle == [cmd |-> "none", pc |-> "idle"]
Nothing == [code |-> "none"]

Servers == (Versions \X (1..MaxWrites) \X Modes \X Volumes) \cup {NoBox}
Pcs == {"write", "written", "dns", "firewall", "low_ports", "bootstrap", "caddyfile",
        "pull", "migrate", "socket", "load", "inspect", "preflight", "remove", "run",
        "verify", "rm_box", "sweep", "rm_volume", "wipe"}
Ops == [cmd : {"setup"}, pc : Pcs, tag : Tags, mode : Modes, was : Servers,
        boots : BOOLEAN]
         \cup [cmd : {"start", "update"}, pc : Pcs, tag : Tags \cup {"config"},
               verify : BOOLEAN, was : Servers, boots : BOOLEAN]
         \cup [cmd : {"reset"}, pc : Pcs, tag : {"none"}, was : Servers,
               boots : BOOLEAN]

TypeOK == /\ registry \in [Tags -> Versions] /\ local \in [Tags -> Versions]
          /\ config \in Configs \cup {Absent, Torn}
          /\ caddyfile \in {Absent, "plain", "http01", "dns01"}
          /\ data \in [Volumes -> Versions \cup {0}]
          /\ box \in Boxes \cup {NoBox}
          /\ holders \in 0..1 /\ blocked \in BOOLEAN /\ writes \in 0..MaxWrites
          /\ op \in Ops \cup {Idle}
          /\ op # Idle => result = Nothing
          /\ op.cmd = "setup" => writes > 0

Init == /\ registry \in [Tags -> Versions]
        /\ local = registry
        /\ config = Absent
        /\ caddyfile = Absent
        /\ data = [v \in Volumes |-> 0]
        /\ box = NoBox
        /\ holders = 0
        /\ blocked \in BOOLEAN
        /\ writes = 0
        /\ op = Idle
        /\ result = Nothing

Whole == config \notin {Absent, Torn}
Running == IF box = NoBox THEN FALSE ELSE box.status = "running"

Begin(command) == /\ op = Idle
                  /\ op' = command
                  /\ result' = Nothing
At(pc) == op.pc = pc
Goto(pc) == op' = [op EXCEPT !.pc = pc] /\ UNCHANGED result
\* The command ends; its record keeps what it found.
Exit(code) == /\ op' = Idle
              /\ result' = [code |-> code, cmd |-> op.cmd, was |-> op.was,
                            boots |-> op.boots]

\* A container without its processes.
Halted(status) == [box EXCEPT !.status = status, !.caddy = "down", !.app = "down"]
Stopped == Halted(IF box.status = "created" THEN "created" ELSE "exited")

CanMigrate(version, volume) == data[volume] <= version

\* What identifies the server that a command found, and whether its code still
\* knows the schema of its volume.
Server == IF box = NoBox THEN NoBox ELSE <<box.image, box.values, box.mode, box.volume>>
Boots == IF box = NoBox THEN FALSE ELSE CanMigrate(box.image, box.volume)

(***************************************************************************)
(* The environment.                                                         *)
(***************************************************************************)

Publish == /\ \E t \in Tags, v \in Versions : v > registry[t] /\ registry' = [registry EXCEPT ![t] = v]
           /\ UNCHANGED <<local, files, data, box, holders, blocked, writes, op, result>>

Sysctl == /\ blocked' = ~blocked
          /\ UNCHANGED <<images, files, data, box, holders, writes, op, result>>

ContainerDies == /\ Running
                 /\ box' = Halted("exited")
                 /\ UNCHANGED <<images, files, data, holders, host, op, result>>

(***************************************************************************)
(* The server in the container: Caddy is spawned with the wizard's file, or *)
(* with one rendered from the settings, and the app migrates its database.  *)
(***************************************************************************)

\* The file the wizard renders knows the DNS provider; the one rendered from
\* the settings does not: TlsConfig.from_settings is not given any.
render_caddyfile_setup(mode) ==
    CASE mode = "ip"                 -> "plain"
      [] mode \in {"manual", "none"} -> "http01"
      [] mode = "cloudflare"         -> "dns01"
from_settings(mode) == IF mode = "ip" THEN "plain" ELSE "http01"

resolve_caddyfile == IF caddyfile # Absent THEN caddyfile ELSE from_settings(box.mode)

spawn_caddy == /\ Running /\ box.caddy = "down"
                /\ box' = [box EXCEPT !.caddy = resolve_caddyfile]
                /\ UNCHANGED <<images, files, data, holders, blocked, writes, op, result>>

\* A migration that fails ends the app, and the container with it.
lifespan == /\ Running /\ box.caddy # "down" /\ box.app = "down"
            /\ IF CanMigrate(box.image, box.volume)
               THEN /\ data' = [data EXCEPT ![box.volume] = box.image]
                    /\ box' = [box EXCEPT !.app = "up"]
               ELSE /\ box' = Halted("exited")
                    /\ UNCHANGED data
            /\ UNCHANGED <<images, files, holders, blocked, writes, op, result>>

\* The jobs run inside the app, one instance of each at a time.
Scheduled == Running /\ box.app = "up"

\* The factory of the app renders from the settings of the environment.
reload == box' = [box EXCEPT !.caddy = from_settings(box.mode)]

\* A tick that finds the certificate unhealthy and the admin API reachable
\* loads the configuration; every other tick does nothing.
renewal_job == /\ box.mode # "ip"
               /\ reload
cert_renewal_job == /\ Scheduled
                    /\ renewal_job
                    /\ UNCHANGED <<images, files, data, holders, blocked, writes, op, result>>

(***************************************************************************)
(* setup                                                                    *)
(***************************************************************************)

\* A blank domain is internal and takes the server address in its place, which
\* is not checked and may be a host name: then nothing is internal any more.
collect_mode(domain, address, provider) ==
    CASE domain = "hostname"                        -> provider
      [] domain = "blank" /\ address = "hostname"   -> "none"
      [] OTHER                                       -> "ip"
collect_answers ==
    {[tag |-> t, mode |-> collect_mode(d, a, p)] :
        t \in Tags, d \in {"blank", "ip", "hostname"}, a \in {"ip", "hostname"},
        p \in Providers}

\* Answers that are missing or malformed end the wizard before it has begun.
BeginSetup == /\ writes < MaxWrites
              /\ writes' = writes + 1
              /\ \E a \in collect_answers :
                    Begin([cmd |-> "setup", pc |-> "write", tag |-> a.tag, mode |-> a.mode,
                           was |-> Server, boots |-> Boots])
              /\ UNCHANGED <<images, files, data, box, holders, blocked>>

\* `path.write_text' truncates the file and then fills it.
write_config == /\ \/ /\ At("write")
                      /\ config' = Torn
                      /\ Goto("written")
                   \/ /\ At("written")
                      /\ config' = [tag |-> op.tag, mode |-> op.mode,
                                    volume |-> DefaultVolume, values |-> writes]
                      /\ Goto("dns")
                /\ UNCHANGED <<images, caddyfile, data, box, holders, blocked, writes>>

\* The manual provider only shows the record.  The Cloudflare provider is used
\* without its client, and "none" is not a provider that the factory knows: the
\* step ends the wizard unless it is skipped.
ensure_dns_record == /\ At("dns")
                     /\ \E skip_dns \in BOOLEAN :
                           IF skip_dns \/ op.mode \in {"ip", "manual"} THEN Goto("firewall")
                                                                   ELSE Exit("dns_failed")
                     /\ UNCHANGED <<images, files, data, box, holders, blocked, writes>>

\* Skipped by a flag or with a warning inside a container; else it may fail.
open_firewall_ports == /\ At("firewall")
                       /\ Goto("low_ports") \/ Exit("firewall_failed")
                       /\ UNCHANGED <<images, files, data, box, holders, blocked, writes>>

\* Inside a container, or when the script fails, the wizard only warns.
ensure_low_port_binding == /\ At("low_ports")
                           /\ blocked' \in {blocked, FALSE}
                           /\ Goto("bootstrap")
                           /\ UNCHANGED <<images, files, data, box, holders, writes>>

\* The wizard's code is that of one of the local images, and the host's shim
\* mounts the default volume.
bootstrap_database == /\ At("bootstrap")
                      /\ \E t \in Tags :
                            IF CanMigrate(local[t], DefaultVolume)
                            THEN /\ data' = [data EXCEPT ![DefaultVolume] = local[t]]
                                 /\ Goto("caddyfile")
                            ELSE Exit("migrate_failed") /\ UNCHANGED data
                      /\ UNCHANGED <<images, files, box, holders, blocked, writes>>

WriteCaddyfile == /\ At("caddyfile")
                  /\ caddyfile' = render_caddyfile_setup(op.mode)
                  /\ Exit("configured")
                  /\ UNCHANGED <<images, config, data, box, holders, blocked, writes>>

\* The operator edits config.yaml: the approval of signups, say, or the volume.
EditConfig == /\ Whole /\ op = Idle
              /\ writes < MaxWrites
              /\ writes' = writes + 1
              /\ \E v \in Volumes :
                    config' = [config EXCEPT !.values = writes', !.volume = v]
              /\ result' = Nothing
              /\ UNCHANGED <<images, caddyfile, data, box, holders, blocked, op>>

(***************************************************************************)
(* start, stop, restart                                                     *)
(***************************************************************************)

BeginStart == /\ \E verify \in BOOLEAN :
                    Begin([cmd |-> "start", pc |-> "load", tag |-> "config",
                           verify |-> verify, was |-> Server, boots |-> Boots])
              /\ UNCHANGED <<images, files, data, box, holders, blocked, writes>>

load_config == /\ At("load")
               /\ IF Whole THEN Goto("inspect") ELSE Exit("config_error")
               /\ UNCHANGED <<images, files, data, box, holders, blocked, writes>>

\* Digests are compared, not names.
MatchesByName == TRUE       \* mutant: the name of the image is compared
container_image_matches == box.image = local[config.tag]

Verify == IF op.verify THEN Goto("verify") ELSE Exit("unverified")

RemovedFirst == /\ At("inspect")      \* mutant: the old one goes before the checks
                /\ IF Running /\ container_image_matches
                   THEN Verify /\ UNCHANGED box
                   ELSE Goto("preflight") /\ box' = NoBox
                /\ UNCHANGED <<images, files, data, holders, blocked, writes>>
inspect_state == /\ At("inspect")
                 /\ IF Running /\ container_image_matches THEN Verify ELSE Goto("preflight")
                 /\ UNCHANGED <<images, files, data, box, holders, blocked, writes>>

preflight_low_ports == /\ At("preflight")
                       /\ IF blocked THEN Exit("low_ports_blocked") ELSE Goto("remove")
                       /\ UNCHANGED <<images, files, data, box, holders, blocked, writes>>

remove_container == /\ At("remove")
                    /\ box' = NoBox
                    /\ Goto("run")
                    /\ UNCHANGED <<images, files, data, holders, blocked, writes>>

\* It runs on the volume of the configuration.
Created(status) == [image |-> local[config.tag], values |-> config.values, mode |-> config.mode,
                    volume |-> config.volume, status |-> status, caddy |-> "down", app |-> "down"]

\* A failed `podman run' may leave the container it created.
podman_run == /\ At("run")
              /\ \/ box' = Created("running") /\ Verify
                 \/ box' = Created("created") /\ Exit("run_failed")
                 \/ Exit("run_failed") /\ UNCHANGED box
              /\ UNCHANGED <<images, files, data, holders, blocked, writes>>

\* The probe goes through Caddy, by the scheme the settings of the command imply.
Healthy == /\ Scheduled
           /\ (box.caddy = "plain") = (config.mode = "ip")

verify_started == /\ At("verify")
                  /\ (Healthy /\ Exit("up")) \/ Exit("verify_failed")
                  /\ UNCHANGED <<images, files, data, box, holders, blocked, writes>>

stop == /\ op = Idle /\ box # NoBox
        /\ box' = Stopped
        /\ result' = [code |-> "stopped"]
        /\ UNCHANGED <<images, files, data, holders, blocked, writes, op>>

\* The same container boots again, with the environment it was created with.
restart == /\ op = Idle /\ box # NoBox
           /\ box' = Halted("running")
           /\ result' = [code |-> "restarted"]
           /\ UNCHANGED <<images, files, data, holders, blocked, writes, op>>

(***************************************************************************)
(* update: pull, migrate in a throwaway container, `start' in another.  The *)
(* script mounts the default volume in both, whatever the configuration     *)
(* names.                                                                   *)
(***************************************************************************)

\* Without --image it is the tag of the configuration, or the fallback.
BeginUpdate == /\ \E t \in Tags :
                     Begin([cmd |-> "update", pc |-> "pull", tag |-> t,
                            verify |-> TRUE, was |-> Server, boots |-> Boots])
               /\ UNCHANGED <<images, files, data, box, holders, blocked, writes>>

Pull == /\ At("pull")
        /\ \/ local' = [local EXCEPT ![op.tag] = registry[op.tag]] /\ Goto("migrate")
           \/ Exit("pull_failed") /\ UNCHANGED local
        /\ UNCHANGED <<registry, files, data, box, holders, blocked, writes>>

migrate == /\ At("migrate")
           /\ IF CanMigrate(local[op.tag], DefaultVolume)
              THEN /\ data' = [data EXCEPT ![DefaultVolume] = local[op.tag]]
                   /\ Goto("socket")
              ELSE Exit("migrate_failed") /\ UNCHANGED data
           /\ UNCHANGED <<images, files, box, holders, blocked, writes>>

\* A shim that forwards no socket path ends the update before the recreate.
Recreate == /\ At("socket")
            /\ Goto("load") \/ Exit("no_host_socket")
            /\ UNCHANGED <<images, files, data, box, holders, blocked, writes>>

(***************************************************************************)
(* reset                                                                    *)
(***************************************************************************)

\* The flag, the environment variable and three exact answers, or nothing.
gather_yes_confirmations(answers) == answers = 3

BeginReset == /\ \E destroy, env \in BOOLEAN, answers \in 2..3 :
                    IF destroy /\ env /\ gather_yes_confirmations(answers)
                    THEN Begin([cmd |-> "reset", pc |-> "rm_box", tag |-> "none",
                                was |-> Server, boots |-> Boots])
                    ELSE /\ op = Idle
                         /\ result' = [code |-> "refused", cmd |-> "reset",
                                       was |-> Server, boots |-> Boots]
                         /\ UNCHANGED op
              /\ UNCHANGED <<images, files, data, box, holders, blocked, writes>>

\* A call of podman that fails ends the script, but for that of a stop.
RemoveServer == /\ At("rm_box")
                /\ \/ box' = NoBox /\ Goto("sweep")
                   \/ box # NoBox /\ box' \in {box, Stopped} /\ Exit("script_failed")
                /\ UNCHANGED <<images, files, data, holders, blocked, writes>>

\* Every other container on the default volume goes, except the one that runs
\* this, or the first that does not ends the script.
NotSwept == /\ At("sweep")     \* mutant: only the named container goes
            /\ Goto("rm_volume")
            /\ UNCHANGED <<images, files, data, box, holders, blocked, writes>>
SweepHolders == /\ At("sweep")
                /\ \/ holders' = 0 /\ Goto("rm_volume")
                   \/ holders # 0 /\ Exit("script_failed") /\ UNCHANGED holders
                /\ UNCHANGED <<images, files, data, box, blocked, writes>>

RemoveVolume == /\ At("rm_volume")
                /\ \/ /\ holders = 0
                      /\ data' = [data EXCEPT ![DefaultVolume] = 0] /\ Goto("wipe")
                   \/ /\ Exit(IF holders = 0 THEN "script_failed" ELSE "volume_busy")
                      /\ UNCHANGED data
                /\ UNCHANGED <<images, files, box, holders, blocked, writes>>

\* The files of the directory go one by one, in no fixed order, until one of
\* them cannot be deleted.
wipe_config_dir == /\ At("wipe")
                   /\ \/ /\ config # Absent
                         /\ config' = Absent
                         /\ UNCHANGED <<caddyfile, op, result>>
                      \/ /\ caddyfile # Absent
                         /\ caddyfile' = Absent
                         /\ UNCHANGED <<config, op, result>>
                      \/ /\ config = Absent /\ caddyfile = Absent
                         /\ Exit("reset")
                         /\ UNCHANGED files
                      \/ /\ Exit("wipe_failed")
                         /\ UNCHANGED files
                   /\ UNCHANGED <<images, data, box, holders, blocked, writes>>

(***************************************************************************)
(* A command that is interrupted leaves what it did.  Commands run in        *)
(* throwaway containers: all but the one of `reset' mount the default        *)
(* volume, and one that is killed before it is cleaned up stays on it.       *)
(***************************************************************************)

Interrupt == /\ op # Idle
             /\ Exit("interrupted")
             /\ \/ UNCHANGED holders
                \/ op.cmd # "reset" /\ holders' = 1
             /\ UNCHANGED <<images, files, data, box, blocked, writes>>

Next == \/ Publish \/ Sysctl \/ ContainerDies
        \/ spawn_caddy \/ lifespan \/ cert_renewal_job
        \/ BeginSetup \/ write_config \/ ensure_dns_record \/ open_firewall_ports
        \/ ensure_low_port_binding \/ bootstrap_database \/ WriteCaddyfile
        \/ EditConfig
        \/ BeginStart \/ load_config \/ inspect_state \/ preflight_low_ports
        \/ remove_container \/ podman_run \/ verify_started \/ stop \/ restart
        \/ BeginUpdate \/ Pull \/ migrate \/ Recreate
        \/ BeginReset \/ RemoveServer \/ SweepHolders \/ RemoveVolume \/ wipe_config_dir
        \/ Interrupt

Spec == Init /\ [][Next]_vars

(***************************************************************************)
(* Properties                                                               *)
(***************************************************************************)

\* After a `start' that reports the server up, alone or within `update', the
\* container is of the image that the configured tag names on this host, also
\* when an earlier pull moved the tag under a container that kept running.
StartedRunsTheTag ==
    result.code = "up" => Whole /\ box # NoBox /\ box.image = local[config.tag]

\* A command that refuses to go on, for the low ports, a pull, a migration, the
\* host's socket or the configuration, has not touched the container it found.
\* If that could boot on its volume it still can, so that the operator can start
\* it by hand after a refused `start' (the ordering invariant in start.py).  This
\* is not so for an `update' that has got past its migration: it has moved the
\* schema the two share, and the container it keeps may halt when it boots again.
PastMigration(r) == r.cmd = "update" /\ r.code \notin {"pull_failed", "migrate_failed"}

RefusalsKeepTheServer ==
    result.code \in {"low_ports_blocked", "pull_failed", "migrate_failed",
                     "no_host_socket", "config_error"} =>
        /\ result.was = Server
        /\ result.boots /\ ~PastMigration(result) => Boots

\* A confirmed `reset' never fails on a volume in use, whatever interrupted
\* commands left behind, and one that reports done leaves no container, no data
\* in the default volume, no configuration and no secret of the installation.
\* It does not know of another volume that the configuration names.
ResetIsComplete ==
    /\ result.code # "volume_busy"
    /\ result.code = "reset" => /\ box = NoBox
                               /\ data[DefaultVolume] = 0
                               /\ holders = 0
                               /\ config = Absent
                               /\ caddyfile = Absent
=============================================================================
