-------------------------------- MODULE Cdi --------------------------------
(***************************************************************************)
(* How a Space gets its GPUs (spaces/cdi.py and the ladder around it in    *)
(* spaces/runtime_manager.py): the specs are looked for in the server's    *)
(* own directories, then on the host through a helper container; the       *)
(* assignments are mapped to the names the spec defines; and when podman   *)
(* refuses these names, the server translates the specs' edits itself.     *)
(*                                                                         *)
(* A name is a prefix "gpu-" or none, and what follows it; an assignment   *)
(* is a kind or none, and a name; a spec is a kind, the edits of every     *)
(* device and a list of devices; a path is a sequence of words.  A block   *)
(* of edits keeps what the translation tells apart.  Its symlinks are one  *)
(* create-symlinks hook, its folders one update-ldcache hook.              *)
(***************************************************************************)
EXTENDS Integers, SequencesExt

CONSTANTS Numbers,     \* the names that are integers
          Kind,        \* DEFAULT_KIND
          LocalSpecs,  \* what the server's directories may hold
          HostSpecs,   \* what those of the host may hold
          Assignments, \* the GPU lists an owner may have
          LdPath,      \* the key LD_LIBRARY_PATH
          None

\* A directory holds a list of specs, a spec lists its devices, and the edits
\* of both are lists; the value of LD_LIBRARY_PATH is a list of folders.
IsList(s) == s \in Seq(ToSet(s))
IsBlock(b) ==
  /\ IsList(b.nodes) /\ IsList(b.mounts) /\ IsList(b.links)
  /\ IsList(b.env) /\ IsList(b.gids) /\ IsList(b.folders)
  /\ \A e \in ToSet(b.env) : e.key = LdPath => IsList(e.value)
IsSpec(s) ==
  /\ IsBlock(s.edits) /\ IsList(s.devices)
  /\ \A d \in ToSet(s.devices) : IsBlock(d.edits)

Parameters ==
  /\ \A list \in LocalSpecs \cup HostSpecs :
       IsList(list) /\ \A s \in ToSet(list) : IsSpec(s)
  /\ \A list \in Assignments : IsList(list)

ASSUME CdiAssumption == Parameters

VARIABLES local, host,  \* the two sources, sequences of specs
          ask,          \* the identifiers of this start
          stage,        \* what the specs are read for: "names" or "edits"
          pc,
          specs,        \* what the ladder has found
          wire,         \* names in the create body, all sent under Kind
          next,         \* the identifier translated next
          out           \* the translation so far

vars == <<local, host, ask, stage, pc, specs, wire, next, out>>
inputs == <<local, host, ask>>

NoEdits == [nodes |-> <<>>, mounts |-> <<>>, env |-> <<>>, gids |-> <<>>,
            folders |-> <<>>, notes |-> {}]

(***************************************************************************)
(* Names: "gpu-0" and "0" are one device, "gpu-<uuid>" and "<uuid>" two.   *)
(* A qualified assignment does not begin with "gpu-": it is left as it is. *)
(***************************************************************************)
device_name(name) ==
  IF name.prefix /\ name.id \in Numbers THEN [name EXCEPT !.prefix = FALSE]
                                        ELSE name
normalized(a) == IF a.kind = None THEN [a EXCEPT !.name = device_name(@)] ELSE a

Init ==
  /\ local \in LocalSpecs /\ host \in HostSpecs
  /\ \E list \in Assignments :
       ask = [i \in DOMAIN list |-> normalized(list[i])]
  /\ stage = "names" /\ pc = "probe" /\ specs = <<>> /\ wire = <<>>
  /\ next = 1 /\ out = NoEdits

DefinesAKind(list) == \E i \in DOMAIN list : list[i].kind # None
split_identifier(a) == IF a.kind = None THEN Kind ELSE a.kind
OfKind(list, kind) ==        \* the first counts; 0: there is none
  SelectInSeq(list, LAMBDA s : s.kind = kind)
SpecOf(a) == OfKind(specs, split_identifier(a))

\* A name that is listed twice keeps its place and has its last entry.
Named(spec, name) == SelectLastInSubSeq(spec.devices, 1, Len(spec.devices),
                                        LAMBDA d : d.name = name)
device_index(spec) == ToSet(spec.devices)

FindQueried(spec, name) ==   \* mutant: the spelling of the assignment is kept
  IF \E d \in device_index(spec) : device_name(d.name) = device_name(name)
    THEN name ELSE None

find_device(spec, name) ==
  LET alias(d) == device_name(d.name) = device_name(name)
  IN  IF \E d \in device_index(spec) : d.name = name THEN name
      ELSE IF \E d \in device_index(spec) : alias(d)
        THEN spec.devices[SelectInSeq(spec.devices, alias)].name
      ELSE None

match_device(a) ==           \* None: no spec of the kind, or no such device
  IF SpecOf(a) = 0 THEN None ELSE find_device(specs[SpecOf(a)], a.name)
-----------------------------------------------------------------------------
(***************************************************************************)
(* The ladder of _cdi_specs.                                               *)
(***************************************************************************)
probe_specs ==
  /\ pc = "probe"
  /\ specs' = local
  /\ pc' = IF DefinesAKind(local) THEN stage ELSE "helper"
  /\ UNCHANGED <<inputs, stage, wire, next, out>>

read_host_cdi_texts ==       \* any failure of the helper is an empty answer
  /\ pc = "helper" /\ pc' = stage
  /\ \/ DefinesAKind(host) /\ specs' = host
     \/ UNCHANGED specs
  /\ UNCHANGED <<inputs, stage, wire, next, out>>

resolve_names ==
  /\ pc = "names"
  /\ IF specs = <<>> THEN wire' = ask /\ pc' = "create"
     ELSE IF \E i \in DOMAIN ask : match_device(ask[i]) = None
       THEN pc' = "failed" /\ UNCHANGED wire
     ELSE /\ wire' = [i \in DOMAIN ask |->
                       [kind |-> None, name |-> match_device(ask[i])]]
          /\ pc' = "create"
  /\ UNCHANGED <<inputs, stage, specs, next, out>>

\* podman matches names exactly, and may refuse even those it should know
create_and_start ==
  /\ pc = "create"
  /\ \/ /\ \A i \in DOMAIN wire : wire[i].kind = None /\ \E s \in ToSet(host) :
             s.kind = Kind /\ wire[i].name \in {d.name : d \in device_index(s)}
        /\ pc' = "named" /\ UNCHANGED stage
     \/ stage' = "edits" /\ pc' = "probe"
  /\ UNCHANGED <<inputs, specs, wire, next, out>>
-----------------------------------------------------------------------------
(***************************************************************************)
(* The translation.                                                        *)
(***************************************************************************)
host_source(path, mounts) ==
  IF \E m \in ToSet(mounts) : m.destination = path
    THEN mounts[SelectInSeq(mounts, LAMBDA m : m.destination = path)].source
    ELSE path

resolved(link, mounts) ==    \* a relative target is below the link's directory
  IF link.absolute THEN link.target
                   ELSE host_source(Front(link.link), mounts) \o link.target

symlink_mount(link, mounts) ==
  [source |-> host_source(resolved(link, mounts), mounts),
   destination |-> link.link]

Once(list) ==
  FoldLeft(LAMBDA seen, x : IF x \in ToSet(seen) THEN seen ELSE Append(seen, x),
           <<>>, list)

Put(env, entry) ==
  [k \in DOMAIN env \cup {entry.key} |-> IF k = entry.key THEN entry.value ELSE env[k]]
PutAll(env, entries) == FoldLeft(Put, env, entries)

HooksFirst(acc, device, edits) ==   \* mutant: links before the block's mounts
  [nodes |-> acc.nodes \o edits.nodes,
   mounts |-> acc.mounts
              \o [i \in DOMAIN edits.links |->
                    symlink_mount(edits.links[i], acc.mounts)]
              \o edits.mounts,
   env |-> PutAll(acc.env, edits.env),
   gids |-> Once(acc.gids \o edits.gids),
   folders |-> acc.folders \o edits.folders,
   notes |-> IF edits.other THEN acc.notes \cup {device} ELSE acc.notes]

translate_edits(acc, device, edits) ==
  LET mounts == acc.mounts \o edits.mounts
  IN  [nodes |-> acc.nodes \o edits.nodes,
       mounts |-> mounts \o [i \in DOMAIN edits.links |->
                               symlink_mount(edits.links[i], mounts)],
       env |-> PutAll(acc.env, edits.env),
       gids |-> Once(acc.gids \o edits.gids),
       folders |-> acc.folders \o edits.folders,
       notes |-> IF edits.other THEN acc.notes \cup {device} ELSE acc.notes]

merge_ld_library_path(acc) ==
  IF acc.folders = <<>> THEN acc
  ELSE LET old == IF LdPath \in DOMAIN acc.env THEN acc.env[LdPath] ELSE <<>>
       IN  [acc EXCEPT !.env = Put(@, [key   |-> LdPath,
                                       value |-> Once(acc.folders \o old)])]

BlocksOf(a) ==               \* the spec's edits, then those of the device
  LET spec == specs[SpecOf(a)]
  IN  <<spec.edits, spec.devices[Named(spec, match_device(a))].edits>>

resolve_edits ==             \* one identifier of its loop
  LET name == match_device(ask[next])
      two  == BlocksOf(ask[next])
  IN  /\ pc = "edits" /\ next <= Len(ask)
      /\ IF name = None \/ \E b \in ToSet(two) : b.unsupported
           THEN pc' = "failed" /\ UNCHANGED <<out, next>>
           ELSE /\ out' = translate_edits(translate_edits(out, name, two[1]), name, two[2])
                /\ next' = next + 1 /\ UNCHANGED pc
      /\ UNCHANGED <<inputs, stage, specs, wire>>

translated_body ==           \* the one retry, or its refusal
  /\ pc = "edits" /\ next > Len(ask)
  /\ out' = merge_ld_library_path(out)
  /\ pc' \in {"translated", "refused"}
  /\ UNCHANGED <<inputs, stage, specs, wire, next>>

Next == \/ probe_specs \/ read_host_cdi_texts \/ resolve_names
        \/ create_and_start \/ resolve_edits \/ translated_body

Spec == Init /\ [][Next]_vars
-----------------------------------------------------------------------------
(***************************************************************************)
(* The names put on the wire are spelt as a spec spells them, whatever     *)
(* spelling the assignment has, and name the device that the translation   *)
(* would deliver: podman compares names exactly, and under Kind, the kind  *)
(* of every assignment that names none (_find_device, resolve_names).  A   *)
(* name that is assigned under another kind is that of a device of its own *)
(* spec, but goes out under Kind all the same, and is not claimed to be    *)
(* defined there.                                                          *)
(***************************************************************************)
Defined(name, i) == name \in {d.name : d \in device_index(specs[i])}

WireNamesAreDefined ==
  pc = "create" /\ specs # <<>> =>
    \A i \in DOMAIN ask :
      /\ wire[i].kind = None /\ device_name(wire[i].name) = device_name(ask[i].name)
      /\ SpecOf(ask[i]) # 0 /\ Defined(wire[i].name, SpecOf(ask[i]))
      /\ ask[i].kind \in {None, Kind} =>
           OfKind(specs, Kind) # 0 /\ Defined(wire[i].name, OfKind(specs, Kind))

(***************************************************************************)
(* What the translation delivers, stated over all blocks it has met, in    *)
(* order, instead of step by step.                                         *)
(***************************************************************************)
Blocks == FlattenSeq([i \in DOMAIN ask |-> BlocksOf(ask[i])])
All(field(_)) == FlattenSeq([i \in DOMAIN Blocks |-> field(Blocks[i])])
Before(list, x, y) == \E i, j \in DOMAIN list : i < j /\ list[i] = x /\ list[j] = y

NothingLeftOut ==            \* each effect is delivered, or noted
  \A b \in ToSet(Blocks) :
    /\ ToSet(b.nodes) \subseteq ToSet(out.nodes)
    /\ ToSet(b.mounts) \subseteq ToSet(out.mounts)
    /\ ToSet(b.gids) \subseteq ToSet(out.gids)
    /\ \A l \in ToSet(b.links) :
         \E m \in ToSet(out.mounts) : m.destination = l.link
    /\ b.other => out.notes # {}

\* A link points to where its target comes from, unless it is a later block
\* that says where that is.
Mounted(path, mounts) == \E m \in ToSet(mounts) : m.destination = path
Settled(path, b) == Mounted(path, b.mounts) \/ ~Mounted(path, out.mounts)

LinksFollowMounts ==
  \A b \in ToSet(Blocks) : \A l \in ToSet(b.links) :
    LET path == resolved(l, out.mounts)
    IN  (l.absolute \/ Settled(Front(l.link), b)) /\ Settled(path, b) =>
          \E k \in ToSet(out.mounts) :
            k.destination = l.link /\ k.source = host_source(path, out.mounts)

LastEntryWins ==
  LET entries == All(LAMBDA b : b.env)
  IN  \A i \in DOMAIN entries :
        entries[i].key # LdPath /\ (\A j \in DOMAIN entries :
                                      j > i => entries[j].key # entries[i].key)
          => out.env[entries[i].key] = entries[i].value

FoldersFirst ==
  LET folders == All(LAMBDA b : b.folders)
      path    == out.env[LdPath]
  IN  folders # <<>> =>
        /\ ToSet(folders) \subseteq ToSet(path) /\ IsInjective(path)
        /\ \A i, j \in DOMAIN path :
             path[i] \in ToSet(folders) /\ path[j] \notin ToSet(folders) => i < j

(***************************************************************************)
(* A container started from translated edits has all of what the specs ask *)
(* for, or the note says what it lacks: resolve_edits "failing loudly is   *)
(* mandatory", and the merge rules of its helpers.                         *)
(***************************************************************************)
TranslationIsFaithful ==
  pc = "translated" =>
    NothingLeftOut /\ LinksFollowMounts /\ LastEntryWins /\ FoldersFirst
=============================================================================
