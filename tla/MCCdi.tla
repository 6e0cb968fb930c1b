------------------------------- MODULE MCCdi -------------------------------
(***************************************************************************)
(* Specs of two kinds with one or two devices, named with and without      *)
(* prefix, whose edits exercise every merge rule and every way a link      *)
(* finds its target, read locally or on the host; assignments with and     *)
(* without a kind.                                                         *)
(***************************************************************************)
EXTENDS Cdi

Plain(id) == [prefix |-> FALSE, id |-> id]
Gpu(id) == [prefix |-> TRUE, id |-> id]
MCNumbers == {"0", "1"}

Empty == [nodes |-> <<>>, mounts |-> <<>>, env |-> <<>>, gids |-> <<>>,
          links |-> <<>>, folders |-> <<>>, other |-> FALSE,
          unsupported |-> FALSE]
Absolute(target, link) == [absolute |-> TRUE, target |-> target, link |-> link]
Relative(target, link) == [absolute |-> FALSE, target |-> target, link |-> link]
File == [source |-> <<"host", "lib">>, destination |-> <<"usr", "lib">>]
Folder == [source |-> <<"host">>, destination |-> <<"usr">>]
Lib == [Empty EXCEPT !.mounts = <<File>>,
                     !.links = <<Absolute(<<"usr", "lib">>, <<"usr", "lib.1">>),
                                 Relative(<<"lib">>, <<"usr", "lib.3">>)>>,
                     !.folders = <<"f1", "f2">>]
Dir == [Empty EXCEPT !.mounts = <<Folder>>,
                     !.links = <<Relative(<<"lib">>, <<"usr", "lib.4">>)>>]
Env(value) == [Empty EXCEPT !.nodes = <<"ctl">>, !.gids = <<"44", "44">>,
                 !.env = <<[key |-> "LD", value |-> <<"f2", "old">>],
                           [key |-> "K", value |-> <<value>>]>>]
Own == [Env("v2") EXCEPT !.nodes = <<"card">>, !.folders = <<"f2", "f3">>,
          !.links = <<Absolute(<<"usr", "lib">>, <<"usr", "lib.2">>)>>]
Hook == [Empty EXCEPT !.other = TRUE]
Odd == [Empty EXCEPT !.unsupported = TRUE]

Devices(names, edits) ==
  [i \in DOMAIN names |-> [name |-> names[i], edits |-> edits[i]]]
Names == {<<Plain("0")>>, <<Gpu("0")>>, <<Gpu("u")>>, <<Plain("0"), Gpu("0")>>,
          <<Gpu("0"), Plain("1")>>, <<Plain("0"), Plain("0")>>}
Specs == {[kind |-> k, edits |-> g, devices |-> Devices(n, <<a, b>>)] :
            k \in {"nvidia", "other"}, g \in {Empty, Lib, Dir, Env("v1")},
            n \in Names, a \in {Own, Lib}, b \in {Env("v3"), Hook, Odd}}
Vendor == [kind |-> "other", edits |-> Empty, devices |-> <<>>]
Vendor0 == [Vendor EXCEPT !.devices = <<[name |-> Plain("0"), edits |-> Dir]>>]
MCHostSpecs == {<<>>} \cup {<<s>> : s \in Specs} \cup {<<Vendor, s>> : s \in Specs}
                 \cup {<<s, Vendor0>> : s \in Specs}
MCLocalSpecs == {<<>>, <<Vendor>>, <<[Vendor EXCEPT !.kind = None]>>,
                 <<[kind |-> "nvidia", edits |-> Lib,
                    devices |-> <<[name |-> Gpu("0"), edits |-> Own]>>]>>}

Bare(name) == [kind |-> None, name |-> name]
Qualified(kind, name) == [kind |-> kind, name |-> name]
MCAssignments ==
  {<<a>> : a \in {Bare(Plain("0")), Bare(Gpu("1")), Bare(Gpu("u")), Bare(Plain("u")),
                  Qualified("nvidia", Gpu("0")), Qualified("other", Plain("0"))}}
  \cup {<<Bare(Plain("0")), Bare(Plain("1"))>>,
        <<Qualified("other", Plain("0")), Bare(Gpu("0"))>>,
        <<Bare(Gpu("1")), Bare(Gpu("0"))>>}
=============================================================================
