----------------------------- MODULE SpacesProofs -----------------------------
(***************************************************************************)
(* Proofs about Spaces: for any number of requests, Spaces, ports, pushes, *)
(* re-creations and crashes.                                               *)
(*                                                                         *)
(* The inductive invariant says of each request what its own record holds  *)
(* (Knows), what is true of the containers as long as no other lifecycle   *)
(* has overlapped it (Lone), and, if no two Spaces share a container name, *)
(* what it has made so far (Owns); of all of them that a request beyond    *)
(* its lock holds the lock and that one begun alone is still alone; and of *)
(* a container whose start was overlapped by nobody that its port is its   *)
(* own (Reserved), also when it has died, so that podman may restart it.   *)
(*                                                                         *)
(* The last part is about Cdi, which details the one step of a start that  *)
(* asks for a GPU; it has variables of its own.                            *)
(***************************************************************************)
EXTENDS Spaces, TLAPS, WellFoundedInduction, NaturalsInduction, SequenceTheorems

USE SpacesAssumption

(***************************************************************************)
(* Where a request has the lock of its Space, its image, and its port.     *)
(***************************************************************************)
Holding == {"stop", "context", "build", "remove", "allocate", "names", "create",
            "run", "edits", "started"}
Built == {"remove", "allocate", "names", "create", "run", "edits", "started"}
Assigned == {"names", "create", "run", "edits", "started", "forward"}

Knows(q) ==
  /\ q.pc \notin {"idle"} \cup Ended => q.space \in Space
  /\ q.pc \in Holding \cup {"lock"} => q.op # "proxy"
  /\ q.pc = "forward" => q.op = "proxy"
  /\ q.pc \in Built \cup {"build"} => q.built \in Content
  /\ q.pc \in Assigned => q.port \in Ports
  /\ q.field = "gpus" => podman = "since 6"

(***************************************************************************)
(* The container a request is about.                                       *)
(***************************************************************************)
Of(q) == containers[container_name(q.space)]

Lone(q) == q.alone =>
  /\ q.why # "port" /\ q.reached # "other"
  /\ q.pc \in {"names", "create", "run", "edits"} =>
       \A n \in Name \ {container_name(q.space)} :
         containers[n] # None => containers[n].port # q.port
  /\ q.pc = "run" => Of(q) # None /\ Of(q).port = q.port /\ Of(q).state = "created"
  /\ q.pc = "forward" =>
       \A n \in Name : containers[n] # None /\ containers[n].port = q.port
                         => containers[n].image = q.had.image

Owns(q) ==
  /\ q.pc \in {"stop", "context", "build", "remove"} => q.had = Contents(Of(q))
  /\ q.pc \in Built => images[container_name(q.space)] = q.built
  /\ q.pc \in {"run", "started"} =>
       /\ Of(q) # None
       /\ Of(q).image = q.built /\ Of(q).wanted = q.gpu /\ Of(q).port = q.port
       /\ Of(q).gpu = IF q.gpu THEN "given" ELSE "none"
  /\ q.pc = "started" => Of(q).state # "created"

Alone == \A r \in Req : Active(r) /\ req[r].alone => Others(r) = {}

Choosing == {"names", "create", "run", "edits"}

Reserved == \A m \in Name : containers[m] # None /\ containers[m].solo =>
  /\ \A n \in Name \ {m} :
       containers[n] # None => containers[n].port # containers[m].port
  /\ \A r \in Req : req[r].pc \in Choosing /\ NameOf(r) # m
                      => req[r].port # containers[m].port

Locked == \A r \in Req : req[r].pc \in Holding => lock[req[r].space] = r

(***************************************************************************)
(* No two Spaces share a container name.  The code joins owner and name by *)
(* a hyphen without a check, so this is a condition of the two theorems    *)
(* that need it, not a fact.                                               *)
(***************************************************************************)
NamesApart == \A s, t \in Space : container_name(s) = container_name(t) => s = t

IInv ==
  /\ TypeOK /\ Alone /\ Reserved /\ Locked
  /\ \A r \in Req : Knows(req[r]) /\ Lone(req[r])
  /\ NamesApart => \A r \in Req : Owns(req[r])

(***************************************************************************)
(* The type invariant in parts, and what a step of a request with the lock *)
(* leaves alone: the containers and images of other names.                 *)
(***************************************************************************)
HostOK ==
  /\ row \in [Space -> 0 .. MaxBorn] /\ sdk \in [Space -> Sdk]
  /\ head \in [Space -> 0 .. MaxPush] /\ site \in [Space -> Content \cup {None}]
  /\ podman \in {"before 6", "since 6"}
  /\ born \in 0 .. MaxBorn /\ faults \in 0 .. MaxFaults

Machines ==
  /\ images \in [Name -> Content \cup {None}]
  /\ containers \in [Name -> Container \cup {None}]

Kept(r) == containers'[NameOf(r)] # None =>
  /\ Mine(r) # None
  /\ containers'[NameOf(r)].port = Mine(r).port
  /\ containers'[NameOf(r)].solo = Mine(r).solo

Chooses(p, q) == q.pc \in Choosing => p.pc \in Choosing /\ q.port = p.port

Apart(r) ==
  /\ HostOK' /\ Machines' /\ podman' = podman
  /\ \A n \in Name \ {NameOf(r)} :
       images'[n] = images[n] /\ containers'[n] = containers[n]
  /\ req[r].pc \in Holding \/ UNCHANGED <<images, containers>>
  /\ Kept(r) \/ Reserved'

(***************************************************************************)
(* A port stays its container's own while no port is chosen and no         *)
(* container made.                                                         *)
(***************************************************************************)
LEMMA StillReserved ==
  ASSUME Reserved,
         \A m \in Name : containers'[m] # None =>
           /\ containers[m] # None /\ containers'[m].port = containers[m].port
           /\ containers'[m].solo = containers[m].solo,
         \A r \in Req : req'[r].pc \in Choosing =>
           /\ req[r].pc \in Choosing /\ req'[r].port = req[r].port
           /\ req'[r].space = req[r].space
  PROVE  Reserved'
<1> SUFFICES ASSUME NEW m \in Name, containers'[m] # None, containers'[m].solo
             PROVE  /\ \A n \in Name \ {m} : containers'[n] # None =>
                         containers'[n].port # containers'[m].port
                    /\ \A r \in Req : req'[r].pc \in Choosing /\ NameOf(r)' # m
                                        => req'[r].port # containers'[m].port
  BY DEF Reserved
<1>1. /\ containers[m] # None /\ containers[m].solo
      /\ containers'[m].port = containers[m].port
  OBVIOUS
<1>2. \A n \in Name \ {m} : containers[n] # None => containers[n].port # containers[m].port
  BY <1>1 DEF Reserved
<1>3. ASSUME NEW r \in Req, req'[r].pc \in Choosing, NameOf(r)' # m
      PROVE  req'[r].port # containers'[m].port
  <2>1. NameOf(r) # m
    BY <1>3 DEF NameOf
  <2> QED
    BY <1>1, <1>3, <2>1 DEF Reserved
<1> QED
  BY <1>1, <1>2, <1>3

LEMMA TypeParts ==
  TypeOK <=> /\ HostOK /\ Machines /\ lock \in [Space -> Req \cup {None}]
             /\ req \in [Req -> Request]
  BY DEF TypeOK, HostOK, Machines

(***************************************************************************)
(* A step of a lifecycle request.  Any other lifecycle it overlaps is no   *)
(* longer alone, and, if names are apart, none of them has the same        *)
(* container.                                                              *)
(***************************************************************************)
LEMMA WorksKeeps ==
  ASSUME IInv, NEW r \in Req, NEW q \in Request, Active(r), req[r].op # "proxy",
         req' = [req EXCEPT ![r] = q], q.pc # "forward",
         Knows(q), Lone(q)', NamesApart => Owns(q)',
         q.pc \notin {"idle"} \cup Ended =>
           q.space = req[r].space /\ q.alone = req[r].alone,
         Chooses(req[r], q) \/ Reserved', Apart(r), lock' \in [Space -> Req \cup {None}],
         \A s \in Space :
           lock'[s] = lock[s] \/ (s = req[r].space /\ lock[s] \in {r, None}),
         q.pc \in Holding => lock'[q.space] = r
  PROVE  IInv'
<1>1. /\ HostOK' /\ Machines' /\ podman' = podman
      /\ \A n \in Name \ {NameOf(r)} :
           images'[n] = images[n] /\ containers'[n] = containers[n]
      /\ req[r].pc \in Holding \/ UNCHANGED <<images, containers>>
  BY DEF Apart
<1>2. req \in [Req -> Request]
  BY DEF IInv, TypeOK
<1>3. /\ req'[r] = q /\ (\A p \in Req \ {r} : req'[p] = req[p])
      /\ req' \in [Req -> Request]
  BY <1>2
<1>4. TypeOK'
  BY <1>1, <1>3, TypeParts DEF TypeOK, HostOK, Machines
<1>5. \A p \in Req : Knows(req[p])'
  BY <1>1, <1>3 DEF IInv, Knows
<1>6. \A p \in Req \ {r} : Active(p) => ~req[p].alone
  BY DEF IInv, Alone, Others
<1>7. ASSUME NEW p \in Req
      PROVE  Lone(req[p])'
  <2>1. CASE p = r
    BY <1>3, <2>1 DEF Lone, Of
  <2>2. CASE p # r
    <3>1. req'[p] = req[p] /\ Lone(req[p])
      BY <1>3, <2>2 DEF IInv
    <3>2. CASE Active(p)
      BY <1>6, <2>2, <3>1, <3>2 DEF Lone
    <3>3. CASE ~Active(p)
      BY <3>1, <3>3 DEF Lone, Active, Ended
    <3> QED
      BY <3>2, <3>3
  <2> QED
    BY <2>1, <2>2
<1>8. Alone'
  <2> SUFFICES ASSUME NEW p \in Req, Active(p)', req'[p].alone
               PROVE  Others(p)' = {}
    BY DEF Alone
  <2>1. p = r
    BY <1>3, <1>6 DEF Active
  <2>2. req[r].alone
    BY <1>3, <2>1 DEF Active
  <2>3. Others(r) = {}
    BY <2>2 DEF IInv, Alone
  <2> QED
    BY <1>3, <2>1, <2>3 DEF Others, Active
<1>9. Locked'
  <2> SUFFICES ASSUME NEW p \in Req, req'[p].pc \in Holding
               PROVE  lock'[req'[p].space] = p
    BY DEF Locked
  <2>1. CASE p = r
    BY <1>3, <2>1
  <2>2. CASE p # r
    <3>1. req'[p] = req[p]
      BY <1>3, <2>2
    <3>2. lock[req[p].space] = p /\ req[p].space \in Space
      BY <3>1 DEF IInv, Locked, Knows, Holding, Ended
    <3> QED
      BY <2>2, <3>1, <3>2
  <2> QED
    BY <2>1, <2>2
<1>10. ASSUME NamesApart, NEW p \in Req
       PROVE  Owns(req[p])'
  <2>1. CASE p = r
    BY <1>3, <1>10, <2>1 DEF Owns, Of
  <2>2. CASE p # r
    <3>1. req'[p] = req[p] /\ Owns(req[p])
      BY <1>3, <1>10, <2>2 DEF IInv
    <3>2. CASE req[p].pc \in Holding
      <4>1. lock[req[p].space] = p /\ req[p].space \in Space
        BY <3>2 DEF IInv, Locked, Knows, Holding, Ended
      <4>2. req[r].space \in Space
        BY DEF IInv, Knows, Active
      <4> DEFINE n == container_name(req[p].space)
      <4>3. images'[n] = images[n] /\ containers'[n] = containers[n]
        <5>1. CASE req[r].pc \in Holding
          <6>1. lock[req[r].space] = r
            BY <5>1 DEF IInv, Locked
          <6>2. n \in Name /\ n # NameOf(r)
            BY <1>10, <2>2, <4>1, <4>2, <6>1 DEF Name, NamesApart, NameOf
          <6> QED
            BY <1>1, <6>2
        <5>2. CASE req[r].pc \notin Holding
          BY <1>1, <5>2
        <5> QED
          BY <5>1, <5>2
      <4> HIDE DEF n
      <4>4. Of(req[p])' = Of(req[p])
        BY <3>1, <4>3 DEF Of, n
      <4> QED
        BY <3>1, <4>3, <4>4 DEF Owns, n, Contents
    <3>3. CASE req[p].pc \notin Holding
      BY <3>1, <3>3 DEF Owns, Holding, Built
    <3> QED
      BY <3>2, <3>3
  <2> QED
    BY <2>1, <2>2
<1>11. Reserved'
  <2> SUFFICES ASSUME Kept(r), Chooses(req[r], q)
               PROVE  Reserved'
    BY DEF Apart
  <2>1. \A m \in Name : containers'[m] # None =>
          /\ containers[m] # None /\ containers'[m].port = containers[m].port
          /\ containers'[m].solo = containers[m].solo
    <3>1. req[r].space \in Space
      BY DEF IInv, Knows, Active
    <3>2. NameOf(r) \in Name
      BY <3>1 DEF NameOf, Name
    <3> QED
      BY <1>1, <3>2 DEF Kept, Mine
  <2>2. \A p \in Req : req'[p].pc \in Choosing =>
          /\ req[p].pc \in Choosing /\ req'[p].port = req[p].port
          /\ req'[p].space = req[p].space
    BY <1>3 DEF Chooses, Choosing, Ended
  <2> QED
    BY <2>1, <2>2, StillReserved DEF IInv
<1> QED
  BY <1>4, <1>5, <1>7, <1>8, <1>9, <1>10, <1>11 DEF IInv
-----------------------------------------------------------------------------
LEMMA AwayTyped ==
  ASSUME NEW pc \in Ended, NEW why \in {"", "port"}, NEW alone \in BOOLEAN
  PROVE  [Fresh EXCEPT !.pc = pc, !.why = why, !.alone = alone] \in Request
  BY DEF Fresh, Request, Ended, Pc, Op, Sdk

(***************************************************************************)
(* ... by which it ends, and may free the lock it holds,                   *)
(***************************************************************************)
LEMMA Ends ==
  ASSUME IInv, NEW r \in Req, Active(r), req[r].op # "proxy",
         NEW pc \in Ended, NEW why \in {"", "port"}, End(r, pc, why),
         why = "port" => ~req[r].alone, Apart(r),
         \/ UNCHANGED lock
         \/ Free(r) /\ (req[r].pc \in Holding \/ Unlocked(req[r].space))
  PROVE  IInv'
<1>0. req[r].alone \in BOOLEAN
  BY DEF IInv, TypeOK, Request
<1> DEFINE alone == (why = "port" => req[r].alone)
<1>1. alone \in BOOLEAN /\ (alone => why # "port")
  BY <1>0
<1>2. req' = [req EXCEPT ![r] = [Fresh EXCEPT !.pc = pc, !.why = why, !.alone = alone]]
  BY DEF End, Move
<1> HIDE DEF alone
<1>3. PICK q \in Request : q = [Fresh EXCEPT !.pc = pc, !.why = why, !.alone = alone]
  BY <1>1, AwayTyped
<1>4. /\ q.pc = pc /\ q.why = why /\ q.alone = alone /\ q.reached = ""
      /\ q.field = "none"
  BY <1>3 DEF Fresh
<1>5. q.pc \notin Holding \cup {"lock", "forward"} \cup Built \cup {"build"} \cup Assigned
  BY <1>4 DEF Holding, Built, Assigned, Ended
<1>6. Knows(q) /\ Chooses(req[r], q)
  BY <1>4, <1>5 DEF Knows, Chooses, Choosing, Holding
<1>7. Lone(q)'
  BY <1>1, <1>4, <1>5 DEF Lone, Holding
<1>8. Owns(q)'
  BY <1>5 DEF Owns, Holding
<1>9. lock \in [Space -> Req \cup {None}] /\ req[r].space \in Space
  BY DEF IInv, TypeOK, Knows, Active
<1>10. req[r].pc \in Holding => lock[req[r].space] = r
  BY DEF IInv, Locked
<1>11. /\ lock' \in [Space -> Req \cup {None}]
       /\ \A s \in Space :
            lock'[s] = lock[s] \/ (s = req[r].space /\ lock[s] \in {r, None})
  BY <1>9, <1>10 DEF Free, Unlocked
<1> QED
  BY <1>2, <1>3, <1>4, <1>5, <1>6, <1>7, <1>8, <1>11, WorksKeeps

LEMMA Holder ==
  ASSUME IInv, NEW r \in Req, req[r].pc \in Holding
  PROVE  /\ Active(r) /\ req[r].op # "proxy" /\ req[r].space \in Space
         /\ lock[req[r].space] = r /\ req[r] \in Request
         /\ NameOf(r) \in Name /\ Knows(req[r]) /\ Lone(req[r])
<1>1. req[r].pc \notin {"idle"} \cup Ended
  BY DEF Holding, Ended
<1>2. Knows(req[r]) /\ Lone(req[r]) /\ req[r] \in Request /\ lock[req[r].space] = r
  BY DEF IInv, TypeOK, Locked
<1> QED
  BY <1>1, <1>2 DEF Knows, Active, NameOf, Name

(***************************************************************************)
(* ... or goes on with it.                                                 *)
(***************************************************************************)
LEMMA GoesOn ==
  ASSUME IInv, NEW r \in Req, req[r].pc \in Holding, NEW q \in Request,
         Move(r, q), q.pc \in Holding,
         q.space = req[r].space /\ q.alone = req[r].alone,
         Knows(q), Lone(q)', NamesApart => Owns(q)',
         Chooses(req[r], q) \/ Reserved', Apart(r), UNCHANGED lock
  PROVE  IInv'
<1>1. req' = [req EXCEPT ![r] = q] /\ q.pc # "forward"
  BY DEF Move, Holding
<1>2. lock \in [Space -> Req \cup {None}]
  BY DEF IInv, TypeOK
<1> QED
  BY <1>1, <1>2, Holder, WorksKeeps

(***************************************************************************)
(* What Apart takes, for steps that change nothing, an image or a          *)
(* container.                                                              *)
(***************************************************************************)
LEMMA Same ==
  ASSUME IInv, UNCHANGED <<host, site, podman>>
  PROVE  HostOK' /\ podman' = podman
  BY TypeParts DEF IInv, host, HostOK

LEMMA Untouched ==
  ASSUME IInv, NEW r \in Req, HostOK', podman' = podman, UNCHANGED <<images, containers>>
  PROVE  Apart(r)
  BY DEF Apart, IInv, TypeOK, Machines, Kept, Mine

LEMMA ImageChanged ==
  ASSUME IInv, NEW r \in Req, req[r].pc \in Holding, NEW content \in Content,
         images' = [images EXCEPT ![NameOf(r)] = content],
         UNCHANGED <<host, site, podman, containers>>
  PROVE  Apart(r) /\ images'[NameOf(r)] = content
<1>1. images \in [Name -> Content \cup {None}] /\ containers \in [Name -> Container \cup {None}]
  BY DEF IInv, TypeOK
<1>2. images' \in [Name -> Content \cup {None}] /\ images'[NameOf(r)] = content
  BY <1>1, Holder
<1> QED
  BY <1>1, <1>2, Same DEF Apart, Machines, Kept, Mine

LEMMA ContainerChanged ==
  ASSUME IInv, NEW r \in Req, req[r].pc \in Holding, NEW c \in Container \cup {None},
         Reserved' \/ (c # None => /\ Mine(r) # None
                                  /\ c.port = Mine(r).port /\ c.solo = Mine(r).solo),
         containers' = [containers EXCEPT ![NameOf(r)] = c],
         UNCHANGED <<host, site, podman, images>>
  PROVE  Apart(r) /\ containers'[NameOf(r)] = c
<1>1. images \in [Name -> Content \cup {None}] /\ containers \in [Name -> Container \cup {None}]
  BY DEF IInv, TypeOK
<1>2. NameOf(r) \in Name
  BY Holder
<1>3. /\ containers'[NameOf(r)] = c
      /\ \A n \in Name \ {NameOf(r)} : containers'[n] = containers[n]
      /\ containers' \in [Name -> Container \cup {None}]
  BY <1>1, <1>2
<1>4. Kept(r) \/ Reserved'
  BY <1>3 DEF Kept
<1> QED
  BY <1>1, <1>3, <1>4, Same DEF Apart, Machines
-----------------------------------------------------------------------------
LEMMA Fails ==
  ASSUME IInv, NEW r \in Req, req[r].pc \in Holding, NEW why \in {"", "port"},
         Fail(r, why), why = "port" => ~req[r].alone,
         UNCHANGED <<host, site, images, containers, podman>>
  PROVE  IInv'
<1>1. Apart(r)
  BY Same, Untouched
<1>2. Active(r) /\ req[r].op # "proxy" /\ "failed" \in Ended
  BY Holder DEF Ended
<1> QED
  BY <1>1, <1>2, Ends DEF Fail

LEMMA Queued ==
  ASSUME IInv, NEW r \in Req, req[r].pc = "lock"
  PROVE  /\ Active(r) /\ req[r].op # "proxy" /\ req[r].space \in Space
         /\ req[r] \in Request
<1>1. req[r] \in Request /\ Knows(req[r])
  BY DEF IInv, TypeOK
<1> QED
  BY <1>1 DEF Knows, Active, Ended

(***************************************************************************)
(* Requests with some fields replaced.                                     *)
(***************************************************************************)
SameBut(q, p) ==
  /\ q.op = p.op /\ q.space = p.space /\ q.gpu = p.gpu
  /\ q.alone = p.alone /\ q.reached = p.reached

(***************************************************************************)
(* A request that goes on holding its lock knows what it knew, and what    *)
(* its next step needs.                                                    *)
(***************************************************************************)
LEMMA KnowsStill ==
  ASSUME NEW p, NEW q, p.pc \in Holding, q.pc \in Holding, Knows(p), SameBut(q, p),
         q.pc \in Built \cup {"build"} => q.built \in Content,
         q.pc \in Assigned => q.port \in Ports,
         q.field = "gpus" => podman = "since 6"
  PROVE  Knows(q)
<1>1. p.pc \notin {"idle"} \cup Ended /\ q.pc # "forward"
  BY DEF Holding, Ended
<1>2. p.space \in Space /\ p.op # "proxy"
  BY <1>1 DEF Knows
<1>3. q.space \in Space /\ q.op # "proxy"
  BY <1>2 DEF SameBut
<1> QED
  BY <1>1, <1>3 DEF Knows

LEMMA LoneEarly ==
  ASSUME IInv, NEW r \in Req, NEW q, SameBut(q, req[r]), q.why = req[r].why,
         q.pc \notin {"names", "create", "run", "edits", "forward"}
  PROVE  Lone(q)'
<1>1. Lone(req[r])
  BY DEF IInv
<1> QED
  BY <1>1 DEF Lone, SameBut

LEMMA TreeTyped ==
  ASSUME IInv, NEW s \in Space, row[s] # 0
  PROVE  Tree(s) \in Content
<1>1. row[s] \in 0 .. MaxBorn /\ head[s] \in 0 .. MaxPush
  BY DEF IInv, TypeOK
<1>2. row[s] \in 1 .. MaxBorn
  BY <1>1
<1> QED
  BY <1>1, <1>2 DEF Tree, Content

LEMMA DeleteKeeps ==
  ASSUME IInv, NEW r \in Req, delete_space(r)
  PROVE  IInv'
<1>1. Active(r) /\ req[r].op # "proxy" /\ req[r].space \in Space
  BY Queued DEF delete_space, At
<1>2. HostOK' /\ podman' = podman
  <2>1. HostOK /\ UNCHANGED <<head, site, podman, born, faults>>
    BY TypeParts DEF IInv, delete_space
  <2>2. row' = [row EXCEPT ![req[r].space] = 0]
    BY DEF delete_space
  <2>3. PICK kind \in {sdk[req[r].space], "static"} :
          sdk' = [sdk EXCEPT ![req[r].space] = kind]
    BY DEF delete_space
  <2>4. kind \in Sdk
    <3>1. sdk[req[r].space] \in Sdk /\ "static" \in Sdk
      BY <1>1, <2>1 DEF HostOK, Sdk
    <3> QED
      BY <3>1
  <2>5. row' \in [Space -> 0 .. MaxBorn]
    <3>1. 0 \in 0 .. MaxBorn
      OBVIOUS
    <3> QED
      BY <2>1, <2>2, <3>1 DEF HostOK
  <2>6. sdk' \in [Space -> Sdk]
    BY <2>1, <2>3, <2>4 DEF HostOK
  <2> QED
    BY <2>1, <2>5, <2>6 DEF HostOK
<1>3. Apart(r)
  BY <1>2, Untouched DEF delete_space
<1> QED
  BY <1>1, <1>3, Ends DEF delete_space, Ended

LEMMA RunStaticKeeps ==
  ASSUME IInv, NEW r \in Req, RunStatic(r)
  PROVE  IInv'
<1> DEFINE s == req[r].space
<1>1. Active(r) /\ req[r].op # "proxy" /\ s \in Space /\ Unlocked(s)
  BY Queued DEF RunStatic, At
<1>2. /\ UNCHANGED <<row, sdk, head, born, faults, podman, images, containers>>
      /\ Free(r) /\ (End(r, "ok", "") \/ End(r, "failed", ""))
      /\ \/ UNCHANGED site
         \/ row[s] # 0 /\ site' = [site EXCEPT ![s] = IF head[s] = 0 THEN @ ELSE Tree(s)]
  BY DEF RunStatic, Succeed, Break, Fail, host
<1>3. row[s] # 0 => Tree(s) \in Content
  BY <1>1, TreeTyped
<1>4. site' \in [Space -> Content \cup {None}]
  <2>1. site \in [Space -> Content \cup {None}]
    BY DEF IInv, TypeOK
  <2> DEFINE tree == Tree(s)
  <2>2. \/ site' = site
        \/ tree \in Content /\ (site' = site \/ site' = [site EXCEPT ![s] = tree])
    BY <1>1, <1>2, <1>3, <2>1
  <2> HIDE DEF tree, s
  <2> QED
    BY <2>1, <2>2
<1>5. HostOK' /\ podman' = podman
  BY <1>2, <1>4, TypeParts DEF IInv, HostOK
<1>6. Apart(r)
  BY <1>2, <1>5, Untouched
<1> QED
  BY <1>1, <1>2, <1>6, Ends DEF Ended

LEMMA RefuseDockerKeeps ==
  ASSUME IInv, NEW r \in Req, RefuseDocker(r)
  PROVE  IInv'
<1>1. Active(r) /\ req[r].op # "proxy" /\ Unlocked(req[r].space)
  BY Queued DEF RefuseDocker, At
<1>2. Apart(r)
  BY Same, Untouched DEF RefuseDocker
<1> QED
  BY <1>1, <1>2, Ends DEF RefuseDocker, Fail, Ended

LEMMA AcquireKeeps ==
  ASSUME IInv, NEW r \in Req, Acquire(r)
  PROVE  IInv'
<1>1. Active(r) /\ req[r].op # "proxy" /\ req[r].space \in Space /\ req[r] \in Request
  BY Queued DEF Acquire, At
<1>2. /\ lock[req[r].space] = None /\ lock' = [lock EXCEPT ![req[r].space] = r]
      /\ UNCHANGED <<host, site, images, containers, podman>>
  BY DEF Acquire, Unlocked
<1> DEFINE had == Contents(Mine(r))
           pc == IF req[r].op = "start" THEN "context" ELSE "stop"
           record == [req[r] EXCEPT !.had = had, !.sdk = Fresh.sdk, !.pc = pc]
<1>3. req' = [req EXCEPT ![r] = record]
  BY DEF Acquire, Move
<1>4. had \in [image : Content, port : Ports] \cup {None}
  <2>1. Mine(r) \in Container \cup {None}
    BY <1>1 DEF IInv, TypeOK, Mine, NameOf, Name
  <2> QED
    BY <2>1 DEF Contents, Container
<1>5. Fresh.sdk \in Sdk
  BY DEF Fresh, Sdk
<1> HIDE DEF had
<1>6. record \in Request
  <2>1. pc \in Pc
    BY DEF Pc
  <2> HIDE DEF pc
  <2> QED
    BY <1>1, <1>4, <1>5, <2>1 DEF Request
<1>7. PICK q \in Request : q = record
  BY <1>6
<1>8. /\ q.pc = pc /\ q.had = had /\ q.space = req[r].space /\ q.alone = req[r].alone
      /\ q.op = req[r].op /\ q.field = req[r].field /\ q.why = req[r].why
      /\ q.reached = req[r].reached
  <2> HIDE DEF pc
  <2>1. DOMAIN req[r] = {"op", "space", "gpu", "pc", "alone", "sdk", "had", "built", "port",
                         "field", "why", "reached"}
    BY <1>1 DEF Request
  <2> QED
    BY <1>7, <2>1
<1> HIDE DEF record
<1>9. q.pc \in {"context", "stop"}
  BY <1>8
<1> HIDE DEF pc
<1>10. Knows(req[r]) /\ Lone(req[r])
  BY DEF IInv
<1>11. q.pc \in Holding /\ q.pc \notin Built \cup {"build"} \cup Assigned
  BY <1>9 DEF Holding, Built, Assigned
<1>12. Knows(q)
  BY <1>1, <1>8, <1>10, <1>11 DEF Knows, Holding
<1>13. Lone(q)'
  BY <1>8, <1>9, <1>10 DEF Lone
<1>14. Owns(q)'
  <2>1. had = Contents(containers'[container_name(q.space)])
    BY <1>2, <1>8 DEF had, Mine, NameOf
  <2> QED
    BY <1>8, <1>9, <1>11, <2>1 DEF Owns, Of
<1>15. Apart(r)
  BY <1>2, Same, Untouched
<1>16. /\ lock' \in [Space -> Req \cup {None}] /\ lock'[q.space] = r
       /\ \A s \in Space :
            lock'[s] = lock[s] \/ (s = req[r].space /\ lock[s] \in {r, None})
  BY <1>1, <1>2, <1>8 DEF IInv, TypeOK
<1>17. q.pc # "forward" /\ req' = [req EXCEPT ![r] = q]
  BY <1>3, <1>7, <1>9
<1>18. Chooses(req[r], q)
  BY <1>9 DEF Chooses, Choosing
<1> QED
  BY <1>1, <1>8, <1>12, <1>13, <1>14, <1>15, <1>16, <1>17, <1>18, WorksKeeps

LEMMA StopKeeps ==
  ASSUME IInv, NEW r \in Req, StopContainer(r)
  PROVE  IInv'
<1>1. req[r].pc = "stop" /\ req[r].pc \in Holding
  BY DEF StopContainer, At, Holding
<1>2. UNCHANGED <<host, site, images, podman>>
  BY DEF StopContainer
<1>3. CASE Fail(r, "") /\ UNCHANGED containers
  BY <1>1, <1>2, <1>3, Fails
<1>4. CASE /\ Mine(r) # None
           /\ containers' = [containers EXCEPT ![NameOf(r)].state = "exited"]
           /\ IF req[r].op = "stop" THEN Succeed(r)
              ELSE Goto(r, "context") /\ UNCHANGED lock
  <2> DEFINE c == [Mine(r) EXCEPT !.state = "exited"]
  <2>1. Mine(r) \in Container
    BY <1>1, <1>4, Holder DEF IInv, TypeOK, Mine
  <2>2. /\ c \in Container /\ c.state = "exited" /\ Contents(c) = Contents(Mine(r))
        /\ c # None /\ c.port = Mine(r).port /\ c.solo = Mine(r).solo
    BY <1>4, <2>1 DEF Container, Contents
  <2>3. containers' = [containers EXCEPT ![NameOf(r)] = c]
    BY <1>1, <1>4, Holder DEF Mine
  <2> HIDE DEF c
  <2>4. Apart(r) /\ containers'[NameOf(r)] = c
    BY <1>1, <1>2, <1>4, <2>2, <2>3, ContainerChanged
  <2>5. CASE Succeed(r)
    BY <1>1, <2>4, <2>5, Holder, Ends DEF Succeed, Ended
  <2>6. CASE Goto(r, "context") /\ UNCHANGED lock
    <3>1. req[r] \in Request /\ "context" \in Pc
      BY <1>1, Holder DEF Pc
    <3>2. PICK q \in Request :
            /\ q = [req[r] EXCEPT !.pc = "context"] /\ SameBut(q, req[r])
            /\ q.pc = "context" /\ q.field = req[r].field /\ q.built = req[r].built
            /\ q.had = req[r].had /\ q.port = req[r].port /\ q.why = req[r].why
      <4> DEFINE record == [req[r] EXCEPT !.pc = "context"]
      <4>1. record \in Request
        BY <3>1 DEF Request
      <4>2. /\ record.pc = "context" /\ record.field = req[r].field
            /\ record.built = req[r].built /\ record.had = req[r].had
            /\ record.port = req[r].port /\ record.why = req[r].why
        BY <3>1 DEF Request
      <4>3. SameBut(record, req[r])
        BY <3>1 DEF Request, SameBut
      <4> QED
        BY <4>1, <4>2, <4>3
    <3>3. q.space = req[r].space /\ q.alone = req[r].alone
      BY <3>2 DEF SameBut
    <3>4. Move(r, q)
      BY <2>6, <3>2 DEF Goto
    <3>5. Knows(q) /\ q.pc \in Holding
      <4>1. q.pc \in Holding /\ q.pc \notin Built \cup {"build"} /\ q.pc \notin Assigned
        BY <3>2 DEF Holding, Built, Assigned
      <4>2. req[r].pc \in Holding /\ Knows(req[r])
        BY <1>1, Holder
      <4>3. q.field = "gpus" => podman = "since 6"
        BY <3>2, <4>2 DEF Knows
      <4>4. SameBut(q, req[r])
        BY <3>2
      <4> QED
        BY <4>1, <4>2, <4>3, <4>4, KnowsStill
    <3>6. Lone(q)'
      BY <3>2, LoneEarly
    <3>7. ASSUME NamesApart
          PROVE  Owns(q)'
      <4>1. req[r].had = Contents(Mine(r))
        BY <1>1, <3>7 DEF IInv, Owns, Of, Mine, NameOf
      <4>2. q.had = Contents(containers'[container_name(q.space)])
        BY <2>2, <2>4, <3>2, <3>3, <4>1 DEF NameOf
      <4> QED
        BY <3>2, <4>2 DEF Owns, Of, Built
    <3>8. Chooses(req[r], q)
      BY <1>1, <3>2 DEF Chooses, Choosing
    <3> QED
      BY <1>1, <2>4, <2>6, <3>3, <3>4, <3>5, <3>6, <3>7, <3>8, GoesOn
  <2> QED
    BY <1>4, <2>5, <2>6
<1> QED
  BY <1>3, <1>4 DEF StopContainer

LEMMA ContextKeeps ==
  ASSUME IInv, NEW r \in Req, make_build_context(r)
  PROVE  IInv'
<1> DEFINE s == req[r].space
<1>1. /\ req[r].pc = "context" /\ req[r].pc \in Holding
      /\ UNCHANGED <<host, site, images, containers, podman>>
  BY DEF make_build_context, At, Holding
<1>2. CASE Break(r)
  BY <1>1, <1>2, Fails DEF Break
<1>3. CASE /\ row[s] # 0 /\ UNCHANGED lock
           /\ Move(r, [req[r] EXCEPT !.pc = "build", !.built = Tree(s)])
  <2>1. req[r] \in Request /\ "build" \in Pc /\ Tree(s) \in Content
    BY <1>1, <1>3, Holder, TreeTyped DEF Pc
  <2>2. PICK q \in Request :
          /\ q = [req[r] EXCEPT !.pc = "build", !.built = Tree(s)] /\ SameBut(q, req[r])
          /\ q.pc = "build" /\ q.field = req[r].field /\ q.built = Tree(s)
          /\ q.had = req[r].had /\ q.port = req[r].port /\ q.why = req[r].why
    <3> DEFINE record == [req[r] EXCEPT !.pc = "build", !.built = Tree(s)]
    <3>1. record \in Request
      BY <2>1 DEF Request
    <3>2. /\ record.pc = "build" /\ record.field = req[r].field
          /\ record.built = Tree(s)
          /\ record.had = req[r].had /\ record.port = req[r].port /\ record.why = req[r].why
      BY <2>1 DEF Request
    <3>3. SameBut(record, req[r])
      BY <2>1 DEF Request, SameBut
    <3> QED
      BY <3>1, <3>2, <3>3
  <2>3. q.space = s /\ q.alone = req[r].alone
    BY <2>2 DEF SameBut
  <2>4. Move(r, q)
    BY <1>3, <2>2
  <2>5. Knows(q) /\ q.pc \in Holding
    <3>1. q.pc \in Holding /\ q.pc \notin Assigned
      BY <2>2 DEF Holding, Assigned
    <3>2. req[r].pc \in Holding /\ Knows(req[r])
      BY <1>1, Holder
    <3>3. q.field = "gpus" => podman = "since 6"
      BY <2>2, <3>2 DEF Knows
    <3>4. q.built \in Content /\ SameBut(q, req[r])
      BY <2>1, <2>2
    <3> QED
      BY <3>1, <3>2, <3>3, <3>4, KnowsStill
  <2>6. Lone(q)'
    BY <2>2, LoneEarly
  <2>7. ASSUME NamesApart
        PROVE  Owns(q)'
    <3>1. req[r].had = Contents(Mine(r)) /\ Mine(r)' = Mine(r)
      BY <1>1, <1>3, <2>7 DEF IInv, Owns, Of, Mine, NameOf, Contents, Move
    <3>2. q.had = Contents(containers'[container_name(q.space)])
      BY <1>1, <2>2, <2>3, <3>1 DEF Mine, NameOf
    <3> QED
      BY <2>2, <3>2 DEF Owns, Of, Built
  <2>8. Apart(r)
    BY <1>1, Same, Untouched
  <2>9. Chooses(req[r], q)
    BY <1>1, <2>2 DEF Chooses, Choosing
  <2> QED
    BY <1>1, <1>3, <2>3, <2>4, <2>5, <2>6, <2>7, <2>8, <2>9, GoesOn
<1> QED
  BY <1>2, <1>3 DEF make_build_context

LEMMA BuildKeeps ==
  ASSUME IInv, NEW r \in Req, build_image(r)
  PROVE  IInv'
<1>1. /\ req[r].pc = "build" /\ req[r].pc \in Holding
      /\ UNCHANGED <<host, site, containers, podman>>
  BY DEF build_image, At, Holding
<1>2. CASE Fail(r, "") /\ UNCHANGED images
  BY <1>1, <1>2, Fails
<1>3. CASE /\ images' = [images EXCEPT ![NameOf(r)] = req[r].built]
           /\ Goto(r, "remove") /\ UNCHANGED lock
  <2>1. req[r] \in Request /\ "remove" \in Pc /\ req[r].built \in Content
    BY <1>1, Holder DEF Pc, Knows
  <2>2. PICK q \in Request :
          /\ q = [req[r] EXCEPT !.pc = "remove"] /\ SameBut(q, req[r])
          /\ q.pc = "remove" /\ q.field = req[r].field /\ q.built = req[r].built
          /\ q.had = req[r].had /\ q.port = req[r].port /\ q.why = req[r].why
    <3> DEFINE record == [req[r] EXCEPT !.pc = "remove"]
    <3>1. record \in Request
      BY <2>1 DEF Request
    <3>2. /\ record.pc = "remove" /\ record.field = req[r].field
          /\ record.built = req[r].built
          /\ record.had = req[r].had /\ record.port = req[r].port /\ record.why = req[r].why
      BY <2>1 DEF Request
    <3>3. SameBut(record, req[r])
      BY <2>1 DEF Request, SameBut
    <3> QED
      BY <3>1, <3>2, <3>3
  <2>3. q.space = req[r].space /\ q.alone = req[r].alone
    BY <2>2 DEF SameBut
  <2>4. Move(r, q)
    BY <1>3, <2>2 DEF Goto
  <2>5. Knows(q) /\ q.pc \in Holding
    <3>1. q.pc \in Holding /\ q.pc \notin Assigned
      BY <2>2 DEF Holding, Assigned
    <3>2. req[r].pc \in Holding /\ Knows(req[r])
      BY <1>1, Holder
    <3>3. q.field = "gpus" => podman = "since 6"
      BY <2>2, <3>2 DEF Knows
    <3>4. q.built \in Content /\ SameBut(q, req[r])
      BY <2>1, <2>2
    <3> QED
      BY <3>1, <3>2, <3>3, <3>4, KnowsStill
  <2>6. Lone(q)'
    BY <2>2, LoneEarly
  <2>7. Apart(r) /\ images'[NameOf(r)] = req[r].built
    BY <1>1, <1>3, <2>1, ImageChanged
  <2>8. ASSUME NamesApart
        PROVE  Owns(q)'
    <3>1. req[r].had = Contents(containers[NameOf(r)])
      BY <1>1, <2>8 DEF IInv, Owns, Of, NameOf
    <3>2. /\ q.had = Contents(containers'[container_name(q.space)])
          /\ images'[container_name(q.space)] = q.built
      BY <1>1, <2>2, <2>3, <2>7, <3>1 DEF NameOf
    <3> QED
      BY <2>2, <3>2 DEF Owns, Of
  <2>9. Chooses(req[r], q)
    BY <1>1, <2>2 DEF Chooses, Choosing
  <2> QED
    BY <1>1, <1>3, <2>3, <2>4, <2>5, <2>6, <2>7, <2>8, <2>9, GoesOn
<1> QED
  BY <1>2, <1>3 DEF build_image

LEMMA RemoveKeeps ==
  ASSUME IInv, NEW r \in Req, RemoveOld(r)
  PROVE  IInv'
<1>1. /\ req[r].pc = "remove" /\ req[r].pc \in Holding
      /\ UNCHANGED <<host, site, images, podman>>
  BY DEF RemoveOld, At, Holding
<1>2. CASE Fail(r, "") /\ UNCHANGED containers
  BY <1>1, <1>2, Fails
<1>3. CASE /\ containers' = [containers EXCEPT ![NameOf(r)] = None]
           /\ Goto(r, "allocate") /\ UNCHANGED lock
  <2>1. req[r] \in Request /\ "allocate" \in Pc /\ req[r].built \in Content
    BY <1>1, Holder DEF Pc, Knows, Built
  <2>2. PICK q \in Request :
          /\ q = [req[r] EXCEPT !.pc = "allocate"] /\ SameBut(q, req[r])
          /\ q.pc = "allocate" /\ q.field = req[r].field /\ q.built = req[r].built
          /\ q.had = req[r].had /\ q.port = req[r].port /\ q.why = req[r].why
    <3> DEFINE record == [req[r] EXCEPT !.pc = "allocate"]
    <3>1. record \in Request
      BY <2>1 DEF Request
    <3>2. /\ record.pc = "allocate" /\ record.field = req[r].field
          /\ record.built = req[r].built
          /\ record.had = req[r].had /\ record.port = req[r].port /\ record.why = req[r].why
      BY <2>1 DEF Request
    <3>3. SameBut(record, req[r])
      BY <2>1 DEF Request, SameBut
    <3> QED
      BY <3>1, <3>2, <3>3
  <2>3. q.space = req[r].space /\ q.alone = req[r].alone
    BY <2>2 DEF SameBut
  <2>4. Move(r, q)
    BY <1>3, <2>2 DEF Goto
  <2>5. Knows(q) /\ q.pc \in Holding
    <3>1. q.pc \in Holding /\ q.pc \notin Assigned
      BY <2>2 DEF Holding, Assigned
    <3>2. req[r].pc \in Holding /\ Knows(req[r])
      BY <1>1, Holder
    <3>3. q.field = "gpus" => podman = "since 6"
      BY <2>2, <3>2 DEF Knows
    <3>4. q.built \in Content /\ SameBut(q, req[r])
      BY <2>1, <2>2
    <3> QED
      BY <3>1, <3>2, <3>3, <3>4, KnowsStill
  <2>6. Lone(q)'
    BY <2>2, LoneEarly
  <2>7. Apart(r)
    BY <1>1, <1>3, ContainerChanged
  <2>8. ASSUME NamesApart
        PROVE  Owns(q)'
    <3>1. images[NameOf(r)] = req[r].built
      BY <1>1, <2>8 DEF IInv, Owns, NameOf, Built
    <3>2. images'[container_name(q.space)] = q.built
      BY <1>1, <2>2, <2>3, <3>1 DEF NameOf
    <3> QED
      BY <2>2, <3>2 DEF Owns
  <2>9. Chooses(req[r], q)
    BY <1>1, <2>2 DEF Chooses, Choosing
  <2> QED
    BY <1>1, <1>3, <2>3, <2>4, <2>5, <2>6, <2>7, <2>8, <2>9, GoesOn
<1> QED
  BY <1>2, <1>3 DEF RemoveOld

(***************************************************************************)
(* The set of naturals below a natural is well-founded, so that there is a *)
(* first free port.                                                        *)
(***************************************************************************)
LEMMA SmallestFree ==
  ASSUME NEW free \in SUBSET Ports, free # {}
  PROVE  Min(free) \in free
<1> DEFINE less == {pair \in Nat \X Nat : pair[1] < pair[2]}
<1>1. IsWellFoundedOn(less, Nat)
  BY NatLessThanWellFounded DEF OpToRel
<1>2. free \subseteq Nat
  OBVIOUS
<1>3. \A x, y \in Nat : <<x, y>> \notin less => y <= x
  OBVIOUS
<1> HIDE DEF less
<1>4. PICK p \in free : \A x \in free : <<x, p>> \notin less
  BY <1>1, <1>2, WFMin
<1>5. \A x \in free : p <= x
  BY <1>2, <1>3, <1>4
<1> QED
  BY <1>5 DEF Min

LEMMA AllocateKeeps ==
  ASSUME IInv, NEW r \in Req, allocate_host_port(r)
  PROVE  IInv'
<1> DEFINE free == Ports \ used_ports
           pc == IF req[r].gpu THEN "names" ELSE "create"
           port == Min(free)
<1>1. /\ req[r].pc = "allocate" /\ req[r].pc \in Holding
      /\ UNCHANGED <<host, site, images, containers, podman>>
  BY DEF allocate_host_port, At, Holding
<1>2. CASE free = {}
  <2>1. Fail(r, "")
    BY <1>2 DEF allocate_host_port
  <2> QED
    BY <1>1, <2>1, Fails
<1>3. CASE free # {}
  <2>1. Move(r, [req[r] EXCEPT !.port = port, !.had = None, !.pc = pc]) /\ UNCHANGED lock
    BY <1>3 DEF allocate_host_port
  <2>2. port \in Ports /\ port \notin used_ports
    BY <1>3, SmallestFree
  <2>3. pc \in Pc /\ pc \in {"names", "create"}
    BY DEF Pc
  <2>4. req[r] \in Request /\ req[r].built \in Content
    BY <1>1, Holder DEF Knows, Built
  <2> HIDE DEF port, pc, free
  <2>5. PICK q \in Request :
          /\ q = [req[r] EXCEPT !.port = port, !.had = None, !.pc = pc] /\ SameBut(q, req[r])
          /\ q.pc = pc /\ q.field = req[r].field /\ q.built = req[r].built
          /\ q.had = None /\ q.port = port /\ q.why = req[r].why
    <3> DEFINE record == [req[r] EXCEPT !.port = port, !.had = None, !.pc = pc]
    <3>1. record \in Request
      BY <2>2, <2>3, <2>4 DEF Request
    <3>2. /\ record.pc = pc /\ record.field = req[r].field
          /\ record.built = req[r].built
          /\ record.had = None /\ record.port = port /\ record.why = req[r].why
      BY <2>2, <2>3, <2>4 DEF Request
    <3>3. SameBut(record, req[r])
      BY <2>2, <2>3, <2>4 DEF Request, SameBut
    <3> QED
      BY <3>1, <3>2, <3>3
  <2>6. q.space = req[r].space /\ q.alone = req[r].alone
    BY <2>5 DEF SameBut
  <2>7. Move(r, q)
    BY <2>1, <2>5
  <2>8. Knows(q) /\ q.pc \in Holding
    <3>1. q.pc \in Holding
      BY <2>3, <2>5 DEF Holding
    <3>2. Knows(req[r])
      BY <1>1, Holder
    <3>3. q.field = "gpus" => podman = "since 6"
      BY <2>5, <3>2 DEF Knows
    <3>4. q.built \in Content /\ q.port \in Ports
      BY <2>2, <2>4, <2>5
    <3>5. SameBut(q, req[r])
      BY <2>5
    <3> QED
      BY <1>1, <3>1, <3>2, <3>3, <3>4, <3>5, KnowsStill
  <2>9. Lone(q)'
    <3>1. Lone(req[r])
      BY DEF IInv
    <3>2. \A n \in Name : containers'[n] # None => containers'[n].port # q.port
      BY <1>1, <2>2, <2>5 DEF used_ports
    <3> QED
      BY <2>3, <2>5, <3>1, <3>2 DEF Lone, SameBut
  <2>10. Apart(r)
    BY <1>1, Same, Untouched
  <2>11. ASSUME NamesApart
         PROVE  Owns(q)'
    <3>1. images[NameOf(r)] = req[r].built
      BY <1>1, <2>11 DEF IInv, Owns, NameOf, Built
    <3>2. images'[container_name(q.space)] = q.built
      BY <1>1, <2>5, <2>6, <3>1 DEF NameOf
    <3> QED
      BY <2>3, <2>5, <3>2 DEF Owns
  <2>12. Reserved'
    <3> SUFFICES ASSUME NEW m \in Name, containers[m] # None, containers[m].solo
                 PROVE  /\ \A n \in Name \ {m} : containers[n] # None =>
                             containers[n].port # containers[m].port
                        /\ \A p \in Req : req'[p].pc \in Choosing /\ NameOf(p)' # m
                                            => req'[p].port # containers[m].port
      BY <1>1 DEF Reserved, NameOf
    <3>1. /\ req'[r].port = port /\ containers[m].port # port
          /\ \A p \in Req \ {r} : req'[p] = req[p]
      BY <2>2, <2>5, <2>7 DEF used_ports, Move, IInv, TypeOK
    <3>2. \A p \in Req \ {r} : NameOf(p)' = NameOf(p)
      BY <3>1 DEF NameOf
    <3> QED
      BY <3>1, <3>2 DEF IInv, Reserved
  <2> QED
    BY <1>1, <2>1, <2>6, <2>7, <2>8, <2>9, <2>10, <2>11, <2>12, GoesOn
<1> QED
  BY <1>2, <1>3

LEMMA NamesKeep ==
  ASSUME IInv, NEW r \in Req, gpu_device_names(r)
  PROVE  IInv'
<1>1. /\ req[r].pc = "names" /\ req[r].pc \in Holding
      /\ UNCHANGED <<host, site, images, containers, podman>>
  BY DEF gpu_device_names, At, Holding
<1>2. CASE Fail(r, "")
  BY <1>1, <1>2, Fails
<1>3. CASE /\ \E known \in BOOLEAN :
                Move(r, [req[r] EXCEPT !.pc = "create", !.field = GpuField(known)])
           /\ UNCHANGED lock
  <2>1. PICK known \in BOOLEAN :
          Move(r, [req[r] EXCEPT !.pc = "create", !.field = GpuField(known)])
    BY <1>3
  <2> DEFINE field == GpuField(known)
  <2>2. field \in {"none", "gpus", "devices", "edits"} /\ (field = "gpus" => podman = "since 6")
    BY DEF GpuField
  <2>3. req[r] \in Request /\ req[r].built \in Content /\ req[r].port \in Ports /\ "create" \in Pc
    BY <1>1, Holder DEF Knows, Built, Assigned, Pc
  <2> HIDE DEF field
  <2>4. PICK q \in Request :
          /\ q = [req[r] EXCEPT !.field = field, !.pc = "create"] /\ SameBut(q, req[r])
          /\ q.pc = "create" /\ q.field = field /\ q.built = req[r].built
          /\ q.had = req[r].had /\ q.port = req[r].port /\ q.why = req[r].why
    <3> DEFINE record == [req[r] EXCEPT !.field = field, !.pc = "create"]
    <3>1. record \in Request
      BY <2>2, <2>3 DEF Request
    <3>2. /\ record.pc = "create" /\ record.field = field /\ record.built = req[r].built
          /\ record.had = req[r].had /\ record.port = req[r].port /\ record.why = req[r].why
      BY <2>2, <2>3 DEF Request
    <3>3. SameBut(record, req[r])
      BY <2>2, <2>3 DEF Request, SameBut
    <3> QED
      BY <3>1, <3>2, <3>3
  <2>5. q.space = req[r].space /\ q.alone = req[r].alone
    BY <2>4 DEF SameBut
  <2>6. Move(r, q)
    BY <2>1, <2>3, <2>4 DEF field, Request
  <2>7. Knows(q) /\ q.pc \in Holding
    <3>1. q.pc \in Holding
      BY <2>4 DEF Holding
    <3>2. Knows(req[r])
      BY <1>1, Holder
    <3>3. q.field = "gpus" => podman = "since 6"
      BY <2>2, <2>4, <3>2 DEF Knows
    <3> QED
      BY <1>1, <2>3, <2>4, <3>1, <3>2, <3>3, KnowsStill
  <2>8. Lone(q)'
    <3>1. Lone(req[r])
      BY DEF IInv
    <3> QED
      BY <1>1, <2>4, <3>1 DEF Lone, SameBut
  <2>9. Apart(r)
    BY <1>1, Same, Untouched
  <2>10. ASSUME NamesApart
         PROVE  Owns(q)'
    <3>1. images[NameOf(r)] = req[r].built
      BY <1>1, <2>10 DEF IInv, Owns, NameOf, Built
    <3>2. images'[container_name(q.space)] = q.built
      BY <1>1, <2>4, <2>5, <3>1 DEF NameOf
    <3> QED
      BY <2>4, <3>2 DEF Owns
  <2>11. Chooses(req[r], q)
    BY <1>1, <2>4 DEF Chooses, Choosing
  <2> QED
    BY <1>1, <1>3, <2>5, <2>6, <2>7, <2>8, <2>9, <2>10, <2>11, GoesOn
<1> QED
  BY <1>2, <1>3 DEF gpu_device_names
-----------------------------------------------------------------------------
(***************************************************************************)
(* The attempts to create and start the container, and the retry.          *)
(***************************************************************************)
LEMMA RefusedKeeps ==
  ASSUME IInv, NEW r \in Req, req[r].pc \in {"create", "run"},
         NEW why \in {"", "port"}, why = "port" => ~req[r].alone, Refused(r, why),
         UNCHANGED <<host, site, images, containers, podman>>
  PROVE  IInv'
<1>1. req[r].pc \in Holding
  BY DEF Holding
<1>2. CASE Fail(r, why)
  BY <1>1, <1>2, Fails
<1>3. CASE /\ Move(r, [req[r] EXCEPT !.pc = "edits", !.why = why]) /\ UNCHANGED lock
  <2>1. /\ req[r] \in Request /\ "edits" \in Pc /\ req[r].built \in Content
        /\ req[r].port \in Ports
    BY <1>1, Holder DEF Pc, Knows, Built, Assigned
  <2>2. PICK q \in Request :
          /\ q = [req[r] EXCEPT !.pc = "edits", !.why = why] /\ SameBut(q, req[r])
          /\ q.pc = "edits" /\ q.field = req[r].field /\ q.built = req[r].built
          /\ q.had = req[r].had /\ q.port = req[r].port /\ q.why = why
    <3> DEFINE record == [req[r] EXCEPT !.pc = "edits", !.why = why]
    <3>1. record \in Request
      BY <2>1 DEF Request
    <3>2. /\ record.pc = "edits" /\ record.field = req[r].field
          /\ record.built = req[r].built /\ record.had = req[r].had
          /\ record.port = req[r].port /\ record.why = why
      BY <2>1 DEF Request
    <3>3. SameBut(record, req[r])
      BY <2>1 DEF Request, SameBut
    <3> QED
      BY <3>1, <3>2, <3>3
  <2>3. q.space = req[r].space /\ q.alone = req[r].alone
    BY <2>2 DEF SameBut
  <2>4. Move(r, q)
    BY <1>3, <2>2
  <2>5. Knows(q) /\ q.pc \in Holding
    <3>1. q.pc \in Holding
      BY <2>2 DEF Holding
    <3>2. Knows(req[r])
      BY <1>1, Holder
    <3>3. q.field = "gpus" => podman = "since 6"
      BY <2>2, <3>2 DEF Knows
    <3> QED
      BY <1>1, <2>1, <2>2, <3>1, <3>2, <3>3, KnowsStill
  <2>6. Lone(q)'
    <3>1. Lone(req[r])
      BY DEF IInv
    <3>2. q.alone => /\ q.why # "port" /\ q.reached # "other"
                     /\ req[r].alone
      BY <2>2, <3>1 DEF Lone, SameBut
    <3>3. ASSUME req[r].alone
          PROVE  \A n \in Name \ {container_name(req[r].space)} :
                   containers[n] # None => containers[n].port # req[r].port
      <4>1. req[r].pc \in {"create", "run"}
        OBVIOUS
      <4> QED
        BY <3>1, <3>3, <4>1 DEF Lone
    <3> QED
      BY <2>2, <2>3, <3>2, <3>3 DEF Lone
  <2>7. Apart(r)
    BY Same, Untouched
  <2>8. ASSUME NamesApart
        PROVE  Owns(q)'
    <3>1. images[NameOf(r)] = req[r].built
      BY <2>8 DEF IInv, Owns, NameOf, Built
    <3>2. images'[container_name(q.space)] = q.built
      BY <2>2, <2>3, <3>1 DEF NameOf
    <3> QED
      BY <2>2, <3>2 DEF Owns
  <2>9. Chooses(req[r], q)
    BY <1>1, <2>2 DEF Chooses, Choosing
  <2> QED
    BY <1>1, <1>3, <2>3, <2>4, <2>5, <2>6, <2>7, <2>8, <2>9, GoesOn
<1> QED
  BY <1>2, <1>3 DEF Refused

LEMMA CreateKeeps ==
  ASSUME IInv, NEW r \in Req, CreateContainer(r)
  PROVE  IInv'
<1> DEFINE n == NameOf(r)
           c == [image |-> images[n], port |-> req[r].port, gpu |-> GpuOf(r),
                 wanted |-> req[r].gpu, solo |-> req[r].alone, state |-> "created"]
<1>1. /\ req[r].pc = "create" /\ req[r].pc \in Holding
      /\ UNCHANGED <<host, site, images, podman>>
  BY DEF CreateContainer, At, Holding
<1>2. CASE Refused(r, "") /\ UNCHANGED containers
  BY <1>1, <1>2, RefusedKeeps
<1>3. CASE /\ Mine(r) = None /\ images[n] # None
           /\ containers' = [containers EXCEPT ![n] = c]
           /\ Goto(r, "run") /\ UNCHANGED lock
  <2>1. /\ req[r] \in Request /\ "run" \in Pc /\ req[r].built \in Content
        /\ req[r].port \in Ports /\ n \in Name
    BY <1>1, Holder DEF Pc, Knows, Built, Assigned
  <2>2. GpuOf(r) = IF req[r].gpu THEN "given" ELSE "none"
    <3>1. req[r].field = "gpus" => podman = "since 6"
      BY DEF IInv, Knows
    <3> QED
      BY <3>1 DEF GpuOf
  <2>3. c \in Container
    <3>1. images[n] \in Content
      BY <1>3, <2>1 DEF IInv, TypeOK
    <3>2. GpuOf(r) \in {"none", "given", "lost"}
      BY DEF GpuOf
    <3>3. req[r].gpu \in BOOLEAN /\ req[r].alone \in BOOLEAN
      BY <2>1 DEF Request
    <3> QED
      BY <2>1, <3>1, <3>2, <3>3 DEF Container
  <2>4. /\ c # None /\ c.image = images[n] /\ c.port = req[r].port /\ c.gpu = GpuOf(r)
        /\ c.wanted = req[r].gpu /\ c.solo = req[r].alone /\ c.state = "created"
    BY <2>3
  <2> HIDE DEF c
  <2>5. PICK q \in Request :
          /\ q = [req[r] EXCEPT !.pc = "run"] /\ SameBut(q, req[r])
          /\ q.pc = "run" /\ q.field = req[r].field /\ q.built = req[r].built
          /\ q.had = req[r].had /\ q.port = req[r].port /\ q.why = req[r].why
    <3> DEFINE record == [req[r] EXCEPT !.pc = "run"]
    <3>1. record \in Request
      BY <2>1 DEF Request
    <3>2. /\ record.pc = "run" /\ record.field = req[r].field
          /\ record.built = req[r].built /\ record.had = req[r].had
          /\ record.port = req[r].port /\ record.why = req[r].why
      BY <2>1 DEF Request
    <3>3. SameBut(record, req[r])
      BY <2>1 DEF Request, SameBut
    <3> QED
      BY <3>1, <3>2, <3>3
  <2>6. q.space = req[r].space /\ q.alone = req[r].alone /\ q.gpu = req[r].gpu
    BY <2>5 DEF SameBut
  <2>7. Move(r, q)
    BY <1>3, <2>5 DEF Goto
  <2>8. Reserved'
    <3>1. /\ containers'[n] = c /\ (\A m \in Name \ {n} : containers'[m] = containers[m])
          /\ req'[r] = q /\ (\A p \in Req \ {r} : req'[p] = req[p])
      BY <1>3, <2>1, <2>7 DEF Move, IInv, TypeOK
    <3>2. NameOf(r)' = n /\ (\A p \in Req \ {r} : NameOf(p)' = NameOf(p))
      BY <2>6, <3>1 DEF NameOf
    <3>3. req[r].alone => Others(r) = {} /\ \A m \in Name \ {n} :
             containers[m] # None => containers[m].port # req[r].port
      <4>1. Active(r) /\ Lone(req[r])
        BY <1>1, Holder
      <4> QED
        BY <1>1, <4>1 DEF IInv, Alone, Lone, NameOf
    <3>4. \A p \in Req \ {r} : req[p].pc \in Choosing => p \in Others(r)
      BY Holder DEF Others, Choosing, Holding
    <3>5. \A m \in Name \ {n} : containers[m] # None /\ containers[m].solo
                                => containers[m].port # req[r].port
      BY <1>1 DEF IInv, Reserved, Choosing
    <3> HIDE DEF n
    <3>6. ASSUME NEW m \in Name, containers'[m] # None, containers'[m].solo
          PROVE  /\ \A k \in Name \ {m} : containers'[k] # None =>
                      containers'[k].port # containers'[m].port
                 /\ \A p \in Req : req'[p].pc \in Choosing /\ NameOf(p)' # m
                                     => req'[p].port # containers'[m].port
      <4>1. CASE m = n
        BY <2>4, <3>1, <3>2, <3>3, <3>4, <3>6, <4>1
      <4>2. CASE m # n
        <5>1. /\ containers'[m] = containers[m] /\ containers[m] # None /\ containers[m].solo
              /\ containers[m].port # req[r].port
          BY <3>1, <3>5, <3>6, <4>2
        <5>2. \A k \in Name \ {m} : containers'[k] # None =>
                 containers'[k].port # containers'[m].port
          BY <2>4, <3>1, <5>1 DEF IInv, Reserved
        <5>3. \A p \in Req \ {r} : req'[p].pc \in Choosing /\ NameOf(p)' # m
                                     => req'[p].port # containers'[m].port
          <6>1. \A p \in Req : req[p].pc \in Choosing /\ NameOf(p) # m
                                => req[p].port # containers[m].port
            BY <5>1 DEF IInv, Reserved
          <6> QED
            BY <3>1, <3>2, <5>1, <6>1
        <5>4. req'[r].port = req[r].port
          BY <2>5, <3>1 DEF SameBut
        <5> QED
          BY <5>1, <5>2, <5>3, <5>4
      <4> QED
        BY <4>1, <4>2
    <3> QED
      BY <3>6 DEF Reserved
  <2>9. Apart(r) /\ containers'[n] = c
    BY <1>1, <1>3, <2>3, <2>4, <2>8, ContainerChanged
  <2>10. Knows(q) /\ q.pc \in Holding
    <3>1. q.pc \in Holding
      BY <2>5 DEF Holding
    <3>2. req[r].pc \in Holding /\ Knows(req[r])
      BY <1>1, Holder
    <3>3. q.field = "gpus" => podman = "since 6"
      BY <2>5, <3>2 DEF Knows
    <3>4. q.built \in Content /\ q.port \in Ports /\ SameBut(q, req[r])
      BY <2>1, <2>5
    <3> QED
      BY <3>1, <3>2, <3>3, <3>4, KnowsStill
  <2>11. Lone(q)'
    <3>1. Lone(req[r])
      BY DEF IInv
    <3>2. Of(q)' = c
      BY <2>9, <2>6 DEF Of, NameOf
    <3>3. \A m \in Name \ {container_name(q.space)} : containers'[m] = containers[m]
      BY <2>9, <2>6 DEF Apart, NameOf
    <3> HIDE DEF n
    <3> QED
      BY <1>1, <2>4, <2>5, <2>6, <3>1, <3>2, <3>3 DEF Lone, SameBut
  <2>12. ASSUME NamesApart
         PROVE  Owns(q)'
    <3>1. images[n] = req[r].built
      BY <1>1, <2>12 DEF IInv, Owns, NameOf, Built
    <3>2. images'[container_name(q.space)] = q.built
      BY <1>1, <2>5, <2>6, <3>1 DEF NameOf
    <3>3. Of(q)' = c
      BY <2>9, <2>6 DEF Of, NameOf
    <3>4. c.wanted = q.gpu /\ c.gpu = IF q.gpu THEN "given" ELSE "none"
      BY <2>2, <2>4, <2>6
    <3> HIDE DEF n
    <3> QED
      BY <2>4, <2>5, <3>1, <3>2, <3>3, <3>4 DEF Owns
  <2> QED
    BY <1>1, <1>3, <2>9, <2>6, <2>7, <2>10, <2>11, <2>12, <2>8, GoesOn
<1> QED
  BY <1>2, <1>3 DEF CreateContainer

(***************************************************************************)
(* A container that nobody has overlapped finds its port free.             *)
(***************************************************************************)
LEMMA LoneRun ==
  ASSUME IInv, NEW r \in Req, req[r].pc = "run", req[r].alone
  PROVE  Mine(r) # None /\ Listening(Mine(r).port) = {}
<1>1. Lone(req[r])
  BY DEF IInv
<1>2. /\ Mine(r) # None /\ Mine(r).port = req[r].port /\ Mine(r).state = "created"
      /\ \A n \in Name \ {NameOf(r)} :
           containers[n] # None => containers[n].port # req[r].port
  BY <1>1 DEF Lone, Of, Mine, NameOf
<1> QED
  BY <1>2 DEF Listening, Serving, Mine

LEMMA StartKeeps ==
  ASSUME IInv, NEW r \in Req, StartContainer(r)
  PROVE  IInv'
<1> DEFINE n == NameOf(r)
           c == [Mine(r) EXCEPT !.state = "running"]
<1>1. /\ req[r].pc = "run" /\ req[r].pc \in Holding
      /\ UNCHANGED <<host, site, images, podman>>
  BY DEF StartContainer, At, Holding
<1>2. CASE Refused(r, "") /\ UNCHANGED containers
  BY <1>1, <1>2, RefusedKeeps
<1>3. CASE /\ Mine(r) # None /\ Listening(Mine(r).port) # {}
           /\ Refused(r, "port") /\ UNCHANGED containers
  BY <1>1, <1>3, LoneRun, RefusedKeeps
<1>4. CASE /\ Mine(r) # None /\ Listening(Mine(r).port) = {}
           /\ containers' = [containers EXCEPT ![n].state = "running"]
           /\ Goto(r, "started") /\ UNCHANGED lock
  <2>1. /\ req[r] \in Request /\ "started" \in Pc /\ req[r].built \in Content
        /\ req[r].port \in Ports /\ n \in Name
    BY <1>1, Holder DEF Pc, Knows, Built, Assigned
  <2>2. Mine(r) \in Container
    BY <1>4, <2>1 DEF IInv, TypeOK, Mine
  <2>3. /\ c \in Container /\ c # None /\ c.image = Mine(r).image /\ c.port = Mine(r).port
        /\ c.state = "running"
    BY <2>2 DEF Container
  <2>4. c.gpu = Mine(r).gpu /\ c.solo = Mine(r).solo
    BY <2>2 DEF Container
  <2>5. c.wanted = Mine(r).wanted
    BY <2>2 DEF Container
  <2>6. containers' = [containers EXCEPT ![n] = c]
    BY <1>4, <2>1 DEF Mine
  <2> HIDE DEF c
  <2>7. Apart(r) /\ containers'[n] = c
    BY <1>1, <1>4, <2>3, <2>4, <2>6, ContainerChanged
  <2>8. PICK q \in Request :
          /\ q = [req[r] EXCEPT !.pc = "started"] /\ SameBut(q, req[r])
          /\ q.pc = "started" /\ q.field = req[r].field /\ q.built = req[r].built
          /\ q.had = req[r].had /\ q.port = req[r].port /\ q.why = req[r].why
    <3> DEFINE record == [req[r] EXCEPT !.pc = "started"]
    <3>1. record \in Request
      BY <2>1 DEF Request
    <3>2. /\ record.pc = "started" /\ record.field = req[r].field
          /\ record.built = req[r].built /\ record.had = req[r].had
          /\ record.port = req[r].port /\ record.why = req[r].why
      BY <2>1 DEF Request
    <3>3. SameBut(record, req[r])
      BY <2>1 DEF Request, SameBut
    <3> QED
      BY <3>1, <3>2, <3>3
  <2>9. q.space = req[r].space /\ q.alone = req[r].alone /\ q.gpu = req[r].gpu
    BY <2>8 DEF SameBut
  <2>10. Move(r, q)
    BY <1>4, <2>8 DEF Goto
  <2>11. Knows(q) /\ q.pc \in Holding
    <3>1. q.pc \in Holding
      BY <2>8 DEF Holding
    <3>2. req[r].pc \in Holding /\ Knows(req[r])
      BY <1>1, Holder
    <3>3. q.field = "gpus" => podman = "since 6"
      BY <2>8, <3>2 DEF Knows
    <3>4. q.built \in Content /\ q.port \in Ports /\ SameBut(q, req[r])
      BY <2>1, <2>8
    <3> QED
      BY <3>1, <3>2, <3>3, <3>4, KnowsStill
  <2>12. Lone(q)'
    BY <2>8, LoneEarly
  <2>13. ASSUME NamesApart
         PROVE  Owns(q)'
    <3>1. images[n] = req[r].built
      BY <1>1, <2>13 DEF IInv, Owns, NameOf, Built
    <3>2. images'[container_name(q.space)] = q.built
      BY <1>1, <2>8, <2>9, <3>1 DEF NameOf
    <3>3. Of(q)' = c
      BY <2>7, <2>9 DEF Of, NameOf
    <3>4. Owns(req[r]) /\ Of(req[r]) = Mine(r)
      BY <2>13 DEF IInv, Of, Mine, NameOf
    <3>5. /\ Mine(r).image = req[r].built /\ Mine(r).port = req[r].port
          /\ Mine(r).gpu = IF req[r].gpu THEN "given" ELSE "none"
      BY <1>1, <3>4 DEF Owns
    <3>6. Mine(r).wanted = req[r].gpu
      BY <1>1, <3>4 DEF Owns
    <3>7. c.wanted = q.gpu
      BY <2>5, <2>9, <3>6
    <3>8. c.gpu = IF q.gpu THEN "given" ELSE "none"
      BY <2>4, <2>9, <3>5
    <3>9. c.image = q.built /\ c.port = q.port
      BY <2>3, <2>8, <3>5
    <3> QED
      BY <2>3, <2>8, <3>2, <3>3, <3>7, <3>8, <3>9 DEF Owns
  <2>14. Chooses(req[r], q)
    BY <1>1, <2>8 DEF Chooses, Choosing
  <2> QED
    BY <1>1, <1>4, <2>7, <2>9, <2>10, <2>11, <2>12, <2>13, <2>14, GoesOn
<1> QED
  BY <1>2, <1>3, <1>4 DEF StartContainer

LEMMA RetryKeeps ==
  ASSUME IInv, NEW r \in Req, retry_translated(r)
  PROVE  IInv'
<1>1. /\ req[r].pc = "edits" /\ req[r].pc \in Holding
      /\ UNCHANGED <<host, site, images, podman>>
  BY DEF retry_translated, At, Holding
<1>2. CASE Fail(r, req[r].why) /\ UNCHANGED containers
  <2>1. req[r].why \in {"", "port"}
    BY <1>1, Holder DEF Request
  <2>2. req[r].why = "port" => ~req[r].alone
    BY DEF IInv, Lone
  <2> QED
    BY <1>1, <1>2, <2>1, <2>2, Fails
<1>3. CASE /\ containers' = [containers EXCEPT ![NameOf(r)] = None]
           /\ Move(r, [req[r] EXCEPT !.field = "edits", !.pc = "create"])
           /\ UNCHANGED lock
  <2>1. /\ req[r] \in Request /\ "create" \in Pc /\ req[r].built \in Content
        /\ req[r].port \in Ports /\ NameOf(r) \in Name
    BY <1>1, Holder DEF Pc, Knows, Built, Assigned
  <2>2. PICK q \in Request :
          /\ q = [req[r] EXCEPT !.field = "edits", !.pc = "create"] /\ SameBut(q, req[r])
          /\ q.pc = "create" /\ q.field = "edits" /\ q.built = req[r].built
          /\ q.had = req[r].had /\ q.port = req[r].port /\ q.why = req[r].why
    <3> DEFINE record == [req[r] EXCEPT !.field = "edits", !.pc = "create"]
    <3>1. record \in Request
      BY <2>1 DEF Request
    <3>2. /\ record.pc = "create" /\ record.field = "edits"
          /\ record.built = req[r].built /\ record.had = req[r].had
          /\ record.port = req[r].port /\ record.why = req[r].why
      BY <2>1 DEF Request
    <3>3. SameBut(record, req[r])
      BY <2>1 DEF Request, SameBut
    <3> QED
      BY <3>1, <3>2, <3>3
  <2>3. q.space = req[r].space /\ q.alone = req[r].alone
    BY <2>2 DEF SameBut
  <2>4. Move(r, q)
    BY <1>3, <2>2
  <2>5. Knows(q) /\ q.pc \in Holding
    <3>1. q.pc \in Holding
      BY <2>2 DEF Holding
    <3>2. req[r].pc \in Holding /\ Knows(req[r])
      BY <1>1, Holder
    <3>3. q.field = "gpus" => podman = "since 6"
      BY <2>2
    <3>4. q.built \in Content /\ q.port \in Ports /\ SameBut(q, req[r])
      BY <2>1, <2>2
    <3> QED
      BY <3>1, <3>2, <3>3, <3>4, KnowsStill
  <2>6. Apart(r)
    BY <1>1, <1>3, ContainerChanged
  <2>7. Lone(q)'
    <3>1. Lone(req[r])
      BY DEF IInv
    <3>2. \A n \in Name \ {container_name(q.space)} : containers'[n] = containers[n]
      BY <2>3, <2>6 DEF Apart, NameOf
    <3> QED
      BY <1>1, <2>2, <2>3, <3>1, <3>2 DEF Lone, SameBut
  <2>8. ASSUME NamesApart
        PROVE  Owns(q)'
    <3>1. images[NameOf(r)] = req[r].built
      BY <1>1, <2>8 DEF IInv, Owns, NameOf, Built
    <3>2. images'[container_name(q.space)] = q.built
      BY <1>1, <2>2, <2>3, <3>1 DEF NameOf
    <3> QED
      BY <2>2, <3>2 DEF Owns
  <2>9. Chooses(req[r], q)
    BY <1>1, <2>2 DEF Chooses, Choosing
  <2> QED
    BY <1>1, <1>3, <2>3, <2>4, <2>5, <2>6, <2>7, <2>8, <2>9, GoesOn
<1> QED
  BY <1>2, <1>3 DEF retry_translated

LEMMA StartedKeeps ==
  ASSUME IInv, NEW r \in Req, Started(r)
  PROVE  IInv'
<1>1. req[r].pc \in Holding /\ UNCHANGED <<host, site, images, containers, podman>>
  BY DEF Started, At, Holding
<1>2. Apart(r)
  BY <1>1, Same, Untouched
<1> QED
  BY <1>1, <1>2, Holder, Ends DEF Started, Succeed, Ended
-----------------------------------------------------------------------------
(***************************************************************************)
(* Steps of nobody: the registry, pushes, containers that die, a crash.    *)
(***************************************************************************)
LEMMA HostKeeps ==
  ASSUME IInv, HostOK', UNCHANGED <<images, containers, podman, lock, req>>
  PROVE  IInv'
<1>1. TypeOK'
  <2>1. /\ images \in [Name -> Content \cup {None}]
        /\ containers \in [Name -> Container \cup {None}]
        /\ lock \in [Space -> Req \cup {None}] /\ req \in [Req -> Request]
    BY DEF IInv, TypeOK
  <2> QED
    BY <2>1 DEF TypeOK, HostOK
<1>2. Alone' /\ Locked'
  BY DEF IInv, Alone, Active, Others, Locked
<1>3. Reserved'
  BY StillReserved DEF IInv
<1>4. \A r \in Req : Knows(req[r])' /\ Lone(req[r])'
  BY DEF IInv, Knows, Lone, Of
<1>5. NamesApart => \A r \in Req : Owns(req[r])'
  BY DEF IInv, Owns, Of, Contents
<1> QED
  BY <1>1, <1>2, <1>3, <1>4, <1>5 DEF IInv

LEMMA CreateSpaceKeeps ==
  ASSUME IInv, NEW s \in Space, create_space(s)
  PROVE  IInv'
<1>1. HostOK /\ born < MaxBorn
  BY TypeParts DEF IInv, create_space
<1>2. PICK kind \in Sdk : sdk' = [sdk EXCEPT ![s] = kind]
  BY DEF create_space
<1>3. /\ row' = [row EXCEPT ![s] = born + 1] /\ head' = [head EXCEPT ![s] = 0]
      /\ born' = born + 1
      /\ UNCHANGED <<site, images, containers, podman, lock, req, faults>>
  BY DEF create_space
<1>4. born + 1 \in 0 .. MaxBorn /\ 0 \in 0 .. MaxPush
  <2>1. born \in 0 .. MaxBorn
    BY <1>1 DEF HostOK
  <2> QED
    BY <1>1, <2>1
<1>5. HostOK'
  BY <1>1, <1>2, <1>3, <1>4 DEF HostOK
<1> QED
  BY <1>3, <1>5, HostKeeps

LEMMA PushKeeps ==
  ASSUME IInv, NEW s \in Space, Push(s)
  PROVE  IInv'
<1>1. HostOK /\ head[s] < MaxPush
  BY TypeParts DEF IInv, Push
<1>2. /\ head' = [head EXCEPT ![s] = @ + 1]
      /\ UNCHANGED <<row, sdk, site, images, containers, podman, lock, req, born, faults>>
  BY DEF Push
<1>3. head[s] + 1 \in 0 .. MaxPush
  <2>1. head[s] \in 0 .. MaxPush
    BY <1>1 DEF HostOK
  <2> QED
    BY <1>1, <2>1
<1>4. HostOK'
  BY <1>1, <1>2, <1>3 DEF HostOK
<1> QED
  BY <1>2, <1>4, HostKeeps

LEMMA BecomesKeeps ==
  ASSUME IInv, NEW n \in Name, containers[n] # None, containers[n].state # "created",
         NEW state \in {"died", "running", "exited"}, Becomes(n, state)
  PROVE  IInv'
<1> DEFINE c == [containers[n] EXCEPT !.state = state]
<1>1. /\ containers' = [containers EXCEPT ![n].state = state]
      /\ UNCHANGED <<host, site, images, podman, lock, req>>
  BY DEF Becomes
<1>2. containers \in [Name -> Container \cup {None}] /\ containers[n] \in Container
  BY DEF IInv, TypeOK
<1>3. c \in Container /\ c # None /\ c.state # "created"
  <2>1. c \in Container /\ c.state = state
    BY <1>2 DEF Container
  <2> HIDE DEF c
  <2> QED
    BY <2>1
<1>4. /\ c.image = containers[n].image /\ c.port = containers[n].port
      /\ c.gpu = containers[n].gpu
  BY <1>2 DEF Container
<1>5. c.wanted = containers[n].wanted /\ c.solo = containers[n].solo
  BY <1>2 DEF Container
<1>6. containers' = [containers EXCEPT ![n] = c]
  BY <1>1
<1> HIDE DEF c
<1>7. /\ containers' \in [Name -> Container \cup {None}] /\ containers'[n] = c
      /\ \A m \in Name \ {n} : containers'[m] = containers[m]
  BY <1>2, <1>3, <1>6
<1>8. HostOK' /\ podman' = podman /\ UNCHANGED <<images, lock, req>>
  BY <1>1, Same
<1>9. TypeOK'
  BY <1>7, <1>8 DEF IInv, TypeOK, HostOK
<1>10. Alone' /\ Locked'
  BY <1>8 DEF IInv, Alone, Active, Others, Locked
<1>11. \A r \in Req : Knows(req[r])'
  BY <1>8 DEF IInv, Knows
<1>12. \A m \in Name :
         /\ containers'[m] # None <=> containers[m] # None
         /\ containers'[m] # None =>
              /\ containers'[m].port = containers[m].port
              /\ containers'[m].image = containers[m].image
              /\ containers'[m].solo = containers[m].solo
              /\ containers[m].state = "created" => containers'[m].state = "created"
  BY <1>3, <1>4, <1>5, <1>7
<1>13. Reserved'
  <2>1. \A r \in Req : req'[r] = req[r]
    BY <1>8
  <2> QED
    BY <1>12, <2>1, StillReserved DEF IInv
<1>14. ASSUME NEW r \in Req
       PROVE  Lone(req[r])'
  <2>1. Lone(req[r]) /\ Knows(req[r]) /\ req'[r] = req[r]
    BY <1>8 DEF IInv
  <2>2. req[r].pc = "run" => container_name(req[r].space) \in Name
    BY <2>1 DEF Knows, Name, Ended
  <2> QED
    BY <1>12, <2>1, <2>2 DEF Lone, Of
<1>15. ASSUME NamesApart, NEW r \in Req
       PROVE  Owns(req[r])'
  <2> DEFINE m == container_name(req[r].space)
  <2>1. Owns(req[r]) /\ Knows(req[r]) /\ req'[r] = req[r] /\ images' = images
    BY <1>8, <1>15 DEF IInv
  <2>2. CASE req[r].pc \in Holding
    <3>1. m \in Name
      BY <2>1, <2>2 DEF Knows, Name, Ended, Holding
    <3>2. CASE m = n
      <4>1. Of(req[r]) = containers[n] /\ Of(req[r])' = c
        BY <1>7, <2>1, <3>2 DEF Of
      <4>2. Contents(c) = Contents(containers[n])
        BY <1>3, <1>4 DEF Contents
      <4>3. req[r].pc \in {"stop", "context", "build", "remove"} => req[r].had = Contents(c)
        BY <2>1, <4>1, <4>2 DEF Owns
      <4>4. req[r].pc \in {"run", "started"} =>
              /\ c.image = req[r].built /\ c.port = req[r].port
              /\ c.gpu = IF req[r].gpu THEN "given" ELSE "none"
        BY <1>4, <2>1, <4>1 DEF Owns
      <4>5. req[r].pc \in {"run", "started"} => c.wanted = req[r].gpu
        BY <1>5, <2>1, <4>1 DEF Owns
      <4>6. req[r].pc \in Built => images'[container_name(req[r].space)] = req[r].built
        BY <2>1 DEF Owns
      <4> HIDE DEF m
      <4> QED
        BY <1>3, <2>1, <4>1, <4>3, <4>4, <4>5, <4>6 DEF Owns
    <3>3. CASE m # n
      <4>1. Of(req[r])' = Of(req[r])
        BY <1>7, <2>1, <3>1, <3>3 DEF Of
      <4> QED
        BY <2>1, <4>1 DEF Owns, Contents
    <3> QED
      BY <3>2, <3>3
  <2>3. CASE req[r].pc \notin Holding
    BY <2>1, <2>3 DEF Owns, Holding, Built
  <2> QED
    BY <2>2, <2>3
<1> QED
  BY <1>9, <1>10, <1>13, <1>11, <1>14, <1>15 DEF IInv

LEMMA CrashKeeps ==
  ASSUME IInv, Crash
  PROVE  IInv'
<1> DEFINE failed == [Fresh EXCEPT !.pc = "failed"]
<1>1. /\ faults < MaxFaults /\ faults' = faults + 1
      /\ req' = [r \in Req |-> IF Active(r) THEN failed ELSE req[r]]
      /\ lock' = [s \in Space |-> None]
      /\ UNCHANGED <<row, sdk, head, born, site, images, containers, podman>>
  BY DEF Crash
<1>2. failed \in Request /\ failed.pc = "failed" /\ failed.field = "none"
  BY DEF Fresh, Request, Pc, Op, Sdk
<1>3. failed.why = "" /\ failed.reached = ""
  BY DEF Fresh
<1> HIDE DEF failed
<1>4. HostOK'
  <2>1. HostOK
    BY TypeParts DEF IInv
  <2>2. faults \in 0 .. MaxFaults
    BY <2>1 DEF HostOK
  <2>3. faults' \in 0 .. MaxFaults
    BY <1>1, <2>2
  <2> QED
    BY <1>1, <2>1, <2>3 DEF HostOK
<1>5. req' \in [Req -> Request]
  BY <1>1, <1>2 DEF IInv, TypeOK
<1>6. lock' \in [Space -> Req \cup {None}]
  BY <1>1
<1>7. TypeOK'
  BY <1>1, <1>4, <1>5, <1>6 DEF IInv, TypeOK, HostOK
<1>8. \A r \in Req : (IF Active(r) THEN req'[r] = failed ELSE req'[r] = req[r])
  BY <1>1
<1>9. \A r \in Req : req'[r].pc \in {"idle"} \cup Ended
  BY <1>2, <1>8 DEF Active, Ended
<1>10. Alone' /\ Locked'
  BY <1>9 DEF Alone, Active, Locked, Holding, Ended
<1>11. Reserved'
  <2>1. \A r \in Req : req'[r].pc \notin Choosing
    BY <1>9 DEF Choosing, Ended
  <2> QED
    BY <1>1, <2>1, StillReserved DEF IInv
<1>12. \A r \in Req : Knows(req[r])'
  <2> SUFFICES ASSUME NEW r \in Req
               PROVE  req'[r].field = "gpus" => podman' = "since 6"
    BY <1>9 DEF Knows, Holding, Built, Assigned, Ended
  <2> QED
    BY <1>1, <1>2, <1>8 DEF IInv, Knows
<1>13. \A r \in Req : Lone(req[r])'
  <2> SUFFICES ASSUME NEW r \in Req, req'[r].alone
               PROVE  req'[r].why # "port" /\ req'[r].reached # "other"
    BY <1>9 DEF Lone, Ended
  <2> QED
    BY <1>3, <1>8 DEF IInv, Lone
<1>14. \A r \in Req : Owns(req[r])'
  BY <1>9 DEF Owns, Built, Ended
<1> QED
  BY <1>7, <1>10, <1>11, <1>12, <1>13, <1>14 DEF IInv
-----------------------------------------------------------------------------
(***************************************************************************)
(* A new lifecycle: it overlaps, and is overlapped by, whoever is active.  *)
(***************************************************************************)
LEMMA BeginKeeps ==
  ASSUME IInv, NEW r \in Req, Begin(r)
  PROVE  IInv'
<1>1. req[r].pc = "idle" /\ UNCHANGED <<host, site, images, containers, podman, lock>>
  BY DEF Begin, At
<1>2. PICK s \in Space, op \in Op \ {"proxy"} :
        req' = [q \in Req |->
          IF q = r THEN [Fresh EXCEPT !.pc = "lock", !.op = op, !.space = s,
                           !.gpu = s.owner \in GpuOwners, !.sdk = sdk[s],
                           !.alone = Others(r) = {}]
          ELSE IF Active(q) THEN [req[q] EXCEPT !.alone = FALSE]
          ELSE req[q]]
  BY DEF Begin
<1> DEFINE gpu == s.owner \in GpuOwners
           alone == Others(r) = {}
           kind == sdk[s]
           record == [Fresh EXCEPT !.pc = "lock", !.op = op, !.space = s, !.gpu = gpu,
                                   !.sdk = kind, !.alone = alone]
<1>3. gpu \in BOOLEAN /\ alone \in BOOLEAN /\ kind \in Sdk
  <2>1. gpu \in BOOLEAN /\ alone \in BOOLEAN
    OBVIOUS
  <2>2. kind \in Sdk
    BY DEF IInv, TypeOK
  <2> QED
    BY <2>1, <2>2
<1>4. req'[r] = record
  BY <1>2
<1> HIDE DEF gpu, alone, kind
<1>5. record \in Request
  BY <1>3 DEF Fresh, Request, Pc
<1>6. /\ record.pc = "lock" /\ record.op = op /\ record.space = s /\ record.field = "none"
      /\ record.why = "" /\ record.reached = ""
  BY DEF Fresh
<1>7. record.alone = alone
  BY DEF Fresh
<1> HIDE DEF record
<1>8. \A q \in Req \ {r} :
        IF Active(q) THEN req'[q] = [req[q] EXCEPT !.alone = FALSE] ELSE req'[q] = req[q]
  BY <1>2
<1>9. req \in [Req -> Request]
  BY DEF IInv, TypeOK
<1>10. ASSUME NEW q \in Req \ {r}
       PROVE  /\ req'[q] \in Request
              /\ req'[q].pc = req[q].pc /\ req'[q].op = req[q].op
              /\ req'[q].space = req[q].space /\ req'[q].field = req[q].field
              /\ req'[q].built = req[q].built /\ req'[q].had = req[q].had
              /\ req'[q].port = req[q].port /\ req'[q].why = req[q].why
              /\ req'[q].reached = req[q].reached
              /\ req'[q].alone => ~Active(q) /\ req[q].alone
  <2>1. req[q] \in Request
    BY <1>9
  <2>2. CASE Active(q)
    <3>1. req'[q] = [req[q] EXCEPT !.alone = FALSE]
      BY <1>8, <2>2
    <3>2. req'[q].alone = FALSE
      BY <2>1, <3>1 DEF Request
    <3> QED
      BY <2>1, <3>1, <3>2 DEF Request
  <2>3. CASE ~Active(q)
    BY <1>8, <2>1, <2>3
  <2> QED
    BY <2>2, <2>3
<1>11. \A q \in Req \ {r} : req'[q].gpu = req[q].gpu
  <2> SUFFICES ASSUME NEW q \in Req \ {r}
               PROVE  req'[q].gpu = req[q].gpu
    OBVIOUS
  <2>1. req[q] \in Request
    BY <1>9
  <2>2. CASE Active(q)
    <3>1. req'[q] = [req[q] EXCEPT !.alone = FALSE]
      BY <1>8, <2>2
    <3> QED
      BY <2>1, <3>1 DEF Request
  <2>3. CASE ~Active(q)
    BY <1>8, <2>3
  <2> QED
    BY <2>2, <2>3
<1>12. HostOK' /\ podman' = podman /\ UNCHANGED <<images, containers, lock>>
  BY <1>1, Same
<1>13. req' \in [Req -> Request]
  <2>1. \A q \in Req : req'[q] \in Request
    BY <1>4, <1>5, <1>10
  <2> HIDE DEF record
  <2>2. req' = [q \in Req |-> req'[q]]
    BY <1>2
  <2> QED
    BY <2>1, <2>2
<1>14. TypeOK'
  <2>1. /\ images' \in [Name -> Content \cup {None}]
        /\ containers' \in [Name -> Container \cup {None}]
        /\ lock' \in [Space -> Req \cup {None}]
    BY <1>12 DEF IInv, TypeOK
  <2> QED
    BY <1>12, <1>13, <2>1 DEF TypeOK, HostOK
<1>15. Reserved'
  <2>1. \A q \in Req : req'[q].pc \in Choosing =>
          /\ req[q].pc \in Choosing /\ req'[q].port = req[q].port
          /\ req'[q].space = req[q].space
    BY <1>4, <1>6, <1>10 DEF Choosing
  <2> QED
    BY <1>12, <2>1, StillReserved DEF IInv
<1>16. Alone'
  <2> SUFFICES ASSUME NEW p \in Req, Active(p)', req'[p].alone
               PROVE  Others(p)' = {}
    BY DEF Alone
  <2>1. p = r
    BY <1>10 DEF Active
  <2>2. Others(r) = {}
    BY <1>4, <1>7, <2>1 DEF alone
  <2> QED
    BY <1>10, <2>1, <2>2 DEF Others, Active
<1>17. Locked'
  <2> SUFFICES ASSUME NEW q \in Req, req'[q].pc \in Holding
               PROVE  lock'[req'[q].space] = q
    BY DEF Locked
  <2>1. q # r
    BY <1>4, <1>6 DEF Holding
  <2>2. req'[q].pc = req[q].pc /\ req'[q].space = req[q].space
    BY <1>10, <2>1
  <2>3. lock[req[q].space] = q
    BY <2>2 DEF IInv, Locked
  <2> QED
    BY <1>12, <2>2, <2>3
<1>18. ASSUME NEW q \in Req
       PROVE  Knows(req[q])' /\ Lone(req[q])' /\ (NamesApart => Owns(req[q])')
  <2>1. CASE q = r
    <3>1. Knows(req[q])'
      BY <1>4, <1>6, <2>1 DEF Knows, Holding, Built, Assigned
    <3>2. Lone(req[q])'
      BY <1>4, <1>6, <2>1 DEF Lone
    <3>3. Owns(req[q])'
      BY <1>4, <1>6, <2>1 DEF Owns, Built
    <3> QED
      BY <3>1, <3>2, <3>3
  <2>2. CASE q # r
    <3>1. Knows(req[q]) /\ Lone(req[q]) /\ (NamesApart => Owns(req[q]))
      BY DEF IInv
    <3>2. Knows(req[q])'
      BY <1>10, <1>12, <2>2, <3>1 DEF Knows
    <3>3. Lone(req[q])'
      BY <1>10, <2>2, <3>1 DEF Lone, Active, Ended
    <3>4. Of(req[q])' = Of(req[q])
      BY <1>10, <1>12, <2>2 DEF Of
    <3>5. ASSUME NamesApart
          PROVE  Owns(req[q])'
      <4>1. Owns(req[q])
        BY <3>1, <3>5
      <4>2. /\ req'[q].pc = req[q].pc /\ req'[q].space = req[q].space
            /\ req'[q].built = req[q].built /\ req'[q].had = req[q].had
            /\ req'[q].port = req[q].port
        BY <1>10, <2>2
      <4>3. req'[q].gpu = req[q].gpu
        BY <1>11, <2>2
      <4> QED
        BY <1>12, <3>4, <4>1, <4>2, <4>3 DEF Owns, Contents
    <3> QED
      BY <3>2, <3>3, <3>5
  <2> QED
    BY <2>1, <2>2
<1> QED
  BY <1>14, <1>15, <1>16, <1>17, <1>18 DEF IInv

(***************************************************************************)
(* Proxied calls change nothing but their own request.                     *)
(***************************************************************************)
LEMMA VisitKeeps ==
  ASSUME IInv, NEW r \in Req, ~Active(r) \/ req[r].op = "proxy", NEW q \in Request,
         Move(r, q), q.pc \in {"forward"} \cup Ended, Knows(q), Lone(q),
         q.pc = "forward" /\ q.alone => Others(r) = {},
         UNCHANGED <<host, site, images, containers, podman, lock>>
  PROVE  IInv'
<1>1. HostOK' /\ podman' = podman /\ UNCHANGED <<images, containers, lock>>
  BY Same
<1>2. /\ req'[r] = q /\ (\A p \in Req \ {r} : req'[p] = req[p])
      /\ req' \in [Req -> Request]
  BY DEF IInv, TypeOK, Move
<1>3. TypeOK'
  BY <1>1, <1>2 DEF IInv, TypeOK, HostOK
<1>4. Reserved'
  <2>1. \A p \in Req : req'[p].pc \in Choosing => req'[p] = req[p]
    BY <1>2 DEF Choosing, Ended
  <2> QED
    BY <1>1, <2>1, StillReserved DEF IInv
<1>5. \A p \in Req : Others(p)' = Others(p)
  BY <1>2 DEF Others, Active, Knows, Ended
<1>6. Alone'
  BY <1>2, <1>5 DEF IInv, Alone, Active
<1>7. q.pc \notin Holding \cup Built \cup {"build"}
  BY DEF Holding, Built, Ended
<1>8. Locked'
  BY <1>1, <1>2, <1>7 DEF IInv, Locked
<1>9. ASSUME NEW p \in Req
      PROVE  Knows(req[p])'
  <2>1. req'[p] = (IF p = r THEN q ELSE req[p]) /\ Knows(req'[p])
    BY <1>2 DEF IInv
  <2> QED
    BY <1>1, <2>1 DEF Knows
<1>10. ASSUME NEW p \in Req
       PROVE  Lone(req[p])'
  <2>1. req'[p] = (IF p = r THEN q ELSE req[p]) /\ Lone(req'[p])
    BY <1>2 DEF IInv
  <2> QED
    BY <1>1, <2>1 DEF Lone, Of
<1>11. Owns(q)'
  BY <1>7 DEF Owns, Holding
<1>12. ASSUME NamesApart, NEW p \in Req
       PROVE  Owns(req[p])'
  <2>1. CASE p = r
    BY <1>2, <1>11, <2>1 DEF Owns, Of
  <2>2. CASE p # r
    <3>1. req'[p] = req[p] /\ Owns(req[p])
      BY <1>2, <1>12, <2>2 DEF IInv
    <3>2. Of(req[p])' = Of(req[p]) /\ images' = images
      BY <1>1, <3>1 DEF Of
    <3> QED
      BY <3>1, <3>2 DEF Owns, Contents
  <2> QED
    BY <2>1, <2>2
<1> QED
  BY <1>3, <1>4, <1>6, <1>8, <1>9, <1>10, <1>12 DEF IInv

LEMMA DispatchKeeps ==
  ASSUME IInv, NEW r \in Req, proxy_dispatch(r)
  PROVE  IInv'
<1>1. ~Active(r) /\ UNCHANGED <<host, site, images, containers, podman, lock>>
  BY DEF proxy_dispatch
<1>2. PICK s \in Space :
        LET c == containers[container_name(s)]
        IN  /\ Status(c)
            /\ Move(r, [Fresh EXCEPT !.pc = "forward", !.space = s, !.port = c.port,
                          !.had = Contents(c), !.alone = Others(r) = {} /\ c.solo])
  BY DEF proxy_dispatch
<1> DEFINE c == containers[container_name(s)]
           port == c.port
           had == Contents(c)
           alone == Others(r) = {} /\ c.solo
           record == [Fresh EXCEPT !.pc = "forward", !.space = s, !.port = port,
                                   !.had = had, !.alone = alone]
<1>3. Move(r, record) /\ Serving(c)
  BY <1>2 DEF Status
<1>4. container_name(s) \in Name /\ c \in Container
  BY <1>3 DEF Serving, IInv, TypeOK, Name
<1>5. port \in Ports /\ had \in [image : Content, port : Ports] /\ had.image = c.image
  BY <1>3, <1>4 DEF Container, Contents, Serving
<1>6. alone => \A n \in Name : containers[n] # None /\ containers[n].port = port
                                => containers[n].image = had.image
  BY <1>3, <1>4, <1>5 DEF IInv, Reserved, Serving
<1>7. alone \in BOOLEAN
  BY <1>4 DEF Container
<1> HIDE DEF port, had, alone
<1>8. record \in Request
  BY <1>5, <1>7 DEF Fresh, Request, Pc, Op, Sdk
<1>9. /\ record.pc = "forward" /\ record.op = "proxy" /\ record.space = s
      /\ record.port = port /\ record.had = had /\ record.field = "none"
      /\ record.why = "" /\ record.reached = ""
  BY DEF Fresh
<1>10. record.alone = alone
  BY DEF Fresh
<1>11. PICK q \in Request : q = record
  BY <1>8
<1>12. /\ q.pc = "forward" /\ q.op = "proxy" /\ q.space = s /\ q.port = port
       /\ q.had = had /\ q.field = "none" /\ q.why = "" /\ q.reached = ""
       /\ q.alone = alone /\ Move(r, q)
  BY <1>3, <1>9, <1>10, <1>11
<1> HIDE DEF record
<1>13. Knows(q)
  BY <1>5, <1>12 DEF Knows, Holding, Built
<1>14. Lone(q)
  BY <1>6, <1>12 DEF Lone
<1>15. q.alone => Others(r) = {}
  BY <1>12 DEF alone
<1> QED
  BY <1>1, <1>12, <1>13, <1>14, <1>15, VisitKeeps

LEMMA StreamKeeps ==
  ASSUME IInv, NEW r \in Req, stream_proxy_response(r)
  PROVE  IInv'
<1> DEFINE there == Listening(req[r].port)
<1>1. req[r].pc = "forward" /\ UNCHANGED <<host, site, images, containers, podman, lock>>
  BY DEF stream_proxy_response, At
<1>2. req[r] \in Request /\ Knows(req[r]) /\ Lone(req[r])
  BY DEF IInv, TypeOK
<1>3. req[r].op = "proxy"
  BY <1>1, <1>2 DEF Knows
<1>4. CASE there = {}
  <2> DEFINE record == [Fresh EXCEPT !.pc = "failed"]
  <2>1. record \in Request /\ record.pc = "failed" /\ record.field = "none"
    BY DEF Fresh, Request, Pc, Op, Sdk
  <2>2. record.why = "" /\ record.reached = ""
    BY DEF Fresh
  <2>3. Move(r, record)
    BY <1>4 DEF stream_proxy_response
  <2> HIDE DEF record
  <2>4. PICK q \in Request : q = record
    BY <2>1
  <2>5. Knows(q)
    BY <2>1, <2>4 DEF Knows, Holding, Built, Assigned, Ended
  <2>6. Lone(q)
    BY <2>1, <2>2, <2>4 DEF Lone
  <2> QED
    BY <1>1, <1>3, <2>1, <2>3, <2>4, <2>5, <2>6, VisitKeeps DEF Ended
<1>5. CASE there # {}
  <2>1. PICK n \in there :
          LET own == containers[n].image = req[r].had.image
          IN  Move(r, [Fresh EXCEPT !.pc = "ok", !.alone = own \/ req[r].alone,
                         !.reached = IF own THEN "" ELSE "other"])
    BY <1>5 DEF stream_proxy_response
  <2> DEFINE own == containers[n].image = req[r].had.image
             reached == IF own THEN "" ELSE "other"
             alone == own \/ req[r].alone
             record == [Fresh EXCEPT !.pc = "ok", !.alone = alone, !.reached = reached]
  <2>2. Move(r, record)
    BY <2>1
  <2>3. alone \in BOOLEAN /\ reached \in {"", "other"}
    BY <1>2 DEF Request
  <2>4. alone => reached # "other"
    BY <1>1, <1>2 DEF Lone, Listening, Serving
  <2> HIDE DEF reached, alone
  <2>5. record \in Request
    BY <2>3 DEF Fresh, Request, Pc, Op, Sdk
  <2>6. /\ record.pc = "ok" /\ record.field = "none" /\ record.why = ""
        /\ record.reached = reached
    BY DEF Fresh
  <2>7. record.alone = alone
    BY DEF Fresh
  <2> HIDE DEF record
  <2>8. PICK q \in Request : q = record
    BY <2>5
  <2>9. Knows(q)
    BY <2>6, <2>8 DEF Knows, Holding, Built, Assigned, Ended
  <2>10. Lone(q)
    BY <2>4, <2>6, <2>7, <2>8 DEF Lone
  <2> QED
    BY <1>1, <1>3, <2>2, <2>6, <2>8, <2>9, <2>10, VisitKeeps DEF Ended
<1> QED
  BY <1>4, <1>5
-----------------------------------------------------------------------------
LEMMA IInvInit == Init => IInv
<1> SUFFICES ASSUME Init
             PROVE  IInv
  OBVIOUS
<1>1. Fresh \in Request /\ Fresh.pc = "idle" /\ Fresh.field = "none"
  BY DEF Fresh, Request, Pc, Op, Sdk
<1>2. Fresh.why = "" /\ Fresh.reached = ""
  BY DEF Fresh
<1>3. \A r \in Req : req[r] = Fresh
  BY DEF Init
<1>4. \A n \in Name : containers[n] = None
  BY DEF Init
<1>5. TypeOK
  <2>1. 0 \in 0 .. MaxBorn /\ 0 \in 0 .. MaxPush /\ 0 \in 0 .. MaxFaults
    OBVIOUS
  <2>2. "static" \in Sdk
    BY DEF Sdk
  <2> QED
    BY <1>1, <2>1, <2>2 DEF Init, TypeOK
<1>6. Alone /\ Locked
  BY <1>1, <1>3 DEF Alone, Active, Locked, Holding
<1>7. Reserved
  BY <1>4 DEF Reserved
<1>8. \A r \in Req : Knows(req[r])
  BY <1>1, <1>3 DEF Knows, Holding, Built, Assigned
<1>9. \A r \in Req : Lone(req[r])
  BY <1>1, <1>2, <1>3 DEF Lone
<1>10. \A r \in Req : Owns(req[r])
  BY <1>1, <1>3 DEF Owns, Built
<1> QED
  BY <1>5, <1>6, <1>7, <1>8, <1>9, <1>10 DEF IInv

LEMMA IInvNext == IInv /\ [Next]_vars => IInv'
<1> SUFFICES ASSUME IInv, [Next]_vars
             PROVE  IInv'
  OBVIOUS
<1>1. CASE \E s \in Space : create_space(s) \/ Push(s)
  BY <1>1, CreateSpaceKeeps, PushKeeps
<1>2. CASE \E r \in Req : Begin(r) \/ proxy_dispatch(r)
  BY <1>2, BeginKeeps, DispatchKeeps
<1>3. CASE \E r \in Req : Step(r)
  <2>1. PICK r \in Req : Step(r)
    BY <1>3
  <2>2. CASE delete_space(r) \/ RunStatic(r) \/ RefuseDocker(r) \/ Acquire(r)
    BY <2>2, DeleteKeeps, RunStaticKeeps, RefuseDockerKeeps, AcquireKeeps
  <2>3. CASE StopContainer(r) \/ make_build_context(r) \/ build_image(r)
    BY <2>3, StopKeeps, ContextKeeps, BuildKeeps
  <2>4. CASE RemoveOld(r) \/ allocate_host_port(r) \/ gpu_device_names(r)
    BY <2>4, RemoveKeeps, AllocateKeeps, NamesKeep
  <2>5. CASE CreateContainer(r) \/ StartContainer(r) \/ retry_translated(r)
    BY <2>5, CreateKeeps, StartKeeps, RetryKeeps
  <2>6. CASE Started(r) \/ stream_proxy_response(r)
    BY <2>6, StartedKeeps, StreamKeeps
  <2> QED
    BY <2>1, <2>2, <2>3, <2>4, <2>5, <2>6 DEF Step
<1>4. CASE \E n \in Name : ContainerDies(n) \/ ContainerRestarts(n)
  BY <1>4, BecomesKeeps DEF ContainerDies, ContainerRestarts, Serving
<1>5. CASE Crash
  BY <1>5, CrashKeeps
<1>6. CASE UNCHANGED vars
  <2>1. UNCHANGED <<row, sdk, head, site, images, containers, podman, lock, req, born, faults>>
    BY <1>6 DEF vars
  <2>2. HostOK'
    BY <2>1, TypeParts DEF IInv, HostOK
  <2> QED
    BY <2>1, <2>2, HostKeeps
<1> QED
  BY <1>1, <1>2, <1>3, <1>4, <1>5, <1>6 DEF Next

LEMMA Invariance == Spec => []IInv
  BY IInvInit, IInvNext, PTL DEF Spec
-----------------------------------------------------------------------------
(***************************************************************************)
(* The runtime keeps its types: what runs is always the tree of a Space    *)
(* that existed, on a port of the range.                                   *)
(***************************************************************************)
THEOREM TypeCorrect == Spec => []TypeOK
<1>1. IInv => TypeOK
  BY DEF IInv
<1> QED
  BY <1>1, Invariance, PTL

(***************************************************************************)
(* The port that _allocate_host_port picks from the listing is free when   *)
(* the container is started, unless another lifecycle has overlapped: no   *)
(* container that was stopped, abandoned by a crash or left behind by a    *)
(* deleted Space can take it.                                              *)
(***************************************************************************)
THEOREM SoloStartsAlwaysGetAPort == Spec => []SoloStartsGetAPort
<1>1. IInv => SoloStartsGetAPort
  BY DEF IInv, Lone, SoloStartsGetAPort
<1> QED
  BY <1>1, Invariance, PTL

(***************************************************************************)
(* A call proxied while no lifecycle runs, to a container whose start none *)
(* overlapped, is answered by that container: its port stays its own while *)
(* it exists, so that nobody else takes it when the container dies, and    *)
(* podman can restart nobody else on it.                                   *)
(***************************************************************************)
THEOREM ProxyAlwaysReachesItsSpace == Spec => []ProxyReachesItsSpace
<1>1. IInv => ProxyReachesItsSpace
  BY DEF IInv, Lone, ProxyReachesItsSpace
<1> QED
  BY <1>1, Invariance, PTL

(***************************************************************************)
(* The order in SpaceRuntimeManager.start is load-bearing: until the new   *)
(* image is built, what was there when the request took the lock is still  *)
(* there, through crashes, deletions and re-creations of the Space and     *)
(* whatever other requests do.                                             *)
(***************************************************************************)
THEOREM StartAlwaysKeepsUntilBuilt == NamesApart => (Spec => []StartKeepsUntilBuilt)
<1> SUFFICES ASSUME NamesApart
             PROVE  Spec => []StartKeepsUntilBuilt
  OBVIOUS
<1>1. IInv => StartKeepsUntilBuilt
  <2> SUFFICES ASSUME IInv, NEW r \in Req, req[r].pc \in {"context", "build", "remove"},
                      req[r].had # None
               PROVE  /\ Mine(r) # None
                      /\ Mine(r).image = req[r].had.image
                      /\ Mine(r).port = req[r].had.port
    BY DEF StartKeepsUntilBuilt
  <2>1. req[r].had = Contents(Mine(r))
    BY DEF IInv, Owns, Of, Mine, NameOf
  <2> QED
    BY <2>1 DEF Contents
<1> QED
  BY <1>1, Invariance, PTL

(***************************************************************************)
(* A start that reports success has left a container of its name with the  *)
(* image it built, its port, and the GPU it asked for: an engine that      *)
(* would ignore the new field is never given it.                           *)
(***************************************************************************)
THEOREM StartedAlwaysRunsTheBuild == NamesApart => (Spec => []StartedRunsTheBuild)
<1> SUFFICES ASSUME NamesApart
             PROVE  Spec => []StartedRunsTheBuild
  OBVIOUS
<1>1. IInv => StartedRunsTheBuild
  <2> SUFFICES ASSUME IInv, NEW r \in Req, req[r].pc = "started"
               PROVE  /\ Mine(r) # None
                      /\ Mine(r).image = req[r].built /\ Mine(r).wanted = req[r].gpu
                      /\ Mine(r).gpu = IF req[r].gpu THEN "given" ELSE "none"
                      /\ Mine(r).port = req[r].port /\ Mine(r).state # "created"
    BY DEF StartedRunsTheBuild, At
  <2>1. Owns(req[r]) /\ Of(req[r]) = Mine(r)
    BY DEF IInv, Of, Mine, NameOf
  <2> QED
    BY <2>1 DEF Owns
<1> QED
  BY <1>1, Invariance, PTL

HIDE SpacesAssumption
-----------------------------------------------------------------------------
(***************************************************************************)
(* The names of GPUs, and the edits that deliver them (Cdi).               *)
(***************************************************************************)
CONSTANTS Numbers, Kind, LocalSpecs, HostSpecs, Assignments, LdPath
VARIABLES local, remote, ask, stage, step, specs, wire, next, out

Gpu == INSTANCE Cdi WITH host <- remote, pc <- step

(***************************************************************************)
(* A set of numbers has a least one, and a bounded one a largest.          *)
(***************************************************************************)
LEMMA Least ==
  ASSUME NEW S \in SUBSET Nat, S # {}
  PROVE  \E m \in S : \A n \in S : m <= n
<1> DEFINE less == {pair \in Nat \X Nat : pair[1] < pair[2]}
<1>1. IsWellFoundedOn(less, Nat)
  BY NatLessThanWellFounded DEF OpToRel
<1>2. \A m, n \in Nat : <<n, m>> \notin less => m <= n
  OBVIOUS
<1> HIDE DEF less
<1>3. PICK m \in S : \A n \in S : <<n, m>> \notin less
  BY <1>1, WFMin
<1> QED
  BY <1>2, <1>3

LEMMA LeastOf ==
  ASSUME NEW S \in SUBSET Nat, S # {}
  PROVE  Gpu!Min(S) \in S /\ \A n \in S : Gpu!Min(S) <= n
BY Least DEF Gpu!Min

LEMMA LargestOf ==
  ASSUME NEW N \in Nat, NEW S \in SUBSET (0 .. N), S # {}
  PROVE  Gpu!Max(S) \in S /\ \A n \in S : Gpu!Max(S) >= n
<1> DEFINE Below == {d \in Nat : \E n \in S : n + d = N}
<1>1. \A n \in S : n \in Nat /\ N - n \in Nat /\ n + (N - n) = N
  OBVIOUS
<1>2. Below \in SUBSET Nat /\ Below # {}
  BY <1>1
<1>3. PICK d \in Below : \A e \in Below : d <= e
  BY <1>2, Least
<1>4. PICK m \in S : m + d = N
  BY <1>3
<1>5. ASSUME NEW n \in S
      PROVE  m >= n
  <2>1. N - n \in Below
    BY <1>1
  <2>2. d <= N - n /\ d \in Nat
    BY <1>3, <2>1
  <2> QED
    BY <1>1, <1>4, <2>2
<1> QED
  BY <1>5 DEF Gpu!Max

(***************************************************************************)
(* What holds of 0, and of n + 1 if of n, holds of every number.           *)
(***************************************************************************)
LEMMA EveryNumber ==
  ASSUME NEW S \in SUBSET Nat, 0 \in S, \A n \in S : n + 1 \in S
  PROVE  S = Nat
<1> SUFFICES ASSUME Nat \ S # {}
             PROVE  FALSE
  OBVIOUS
<1>1. PICK m \in Nat \ S : \A n \in Nat \ S : m <= n
  BY Least
<1>2. m - 1 \in Nat /\ m - 1 \notin Nat \ S
  BY <1>1
<1>3. (m - 1) + 1 \in S
  BY <1>2
<1> QED
  BY <1>1, <1>3

(***************************************************************************)
(* The last index of a list is the largest.                                *)
(***************************************************************************)
LEMMA LastIndex ==
  ASSUME NEW n \in Nat, NEW S \in SUBSET (1 .. n + 1)
  PROVE  /\ n + 1 \in S => Gpu!Max(S) = n + 1 /\ S \ {n + 1} \in SUBSET (1 .. n)
         /\ n + 1 \notin S => S \in SUBSET (1 .. n)
<1>1. CASE n + 1 \in S
  <2>1. S \in SUBSET (0 .. n + 1) /\ S # {} /\ n + 1 \in Nat
    BY <1>1
  <2>2. Gpu!Max(S) \in S /\ \A m \in S : Gpu!Max(S) >= m
    BY <2>1, LargestOf
  <2>3. Gpu!Max(S) \in 1 .. n + 1 /\ Gpu!Max(S) >= n + 1
    BY <1>1, <2>2
  <2>4. Gpu!Max(S) = n + 1
    BY <2>3
  <2>5. S \ {n + 1} \in SUBSET (1 .. n)
    OBVIOUS
  <2> QED
    BY <1>1, <2>4, <2>5
<1>2. CASE n + 1 \notin S
  BY <1>2
<1> QED
  BY <1>1, <1>2

(***************************************************************************)
(* FoldLeft recurses over the sets of indexes of its list.  With either    *)
(* step of this module, this recursion has a solution; so the fold goes    *)
(* through its list index by index.                                        *)
(***************************************************************************)
Seen(seen, x) == IF x \in Gpu!ToSet(seen) THEN seen ELSE Append(seen, x)
Accumulate(kind, acc, x) == IF kind = "put" THEN Gpu!Put(acc, x) ELSE Seen(acc, x)
Runs(kind, base, list, n, g) ==
  g = [s \in SUBSET (1 .. n) |->
         IF s = {} THEN base
         ELSE Accumulate(kind, g[s \ {Gpu!Max(s)}], list[Gpu!Max(s)])]
Visits(kind, base, list, n, past, last) ==
  /\ past[0] = base /\ past[n] = last
  /\ \A i \in 1 .. n : past[i] = Accumulate(kind, past[i - 1], list[i])

LEMMA FoldRuns ==
  ASSUME NEW kind, NEW base, NEW list, NEW n \in Nat
  PROVE  \E g : Runs(kind, base, list, n, g)
<1> DEFINE Good == {m \in Nat : \E g : Runs(kind, base, list, m, g)}
<1>1. 0 \in Good
  <2> DEFINE g == [s \in SUBSET (1 .. 0) |-> base]
  <2>1. \A s \in SUBSET (1 .. 0) : s = {}
    OBVIOUS
  <2>2. Runs(kind, base, list, 0, g)
    BY <2>1 DEF Runs
  <2> QED
    BY <2>2
<1>2. ASSUME NEW m \in Good
      PROVE  m + 1 \in Good
  <2>1. PICK g : Runs(kind, base, list, m, g)
    BY <1>2
  <2> DEFINE h == [s \in SUBSET (1 .. m + 1) |->
                     IF m + 1 \in s THEN Accumulate(kind, g[s \ {m + 1}], list[m + 1]) ELSE g[s]]
             this(s) == IF s = {} THEN base
                        ELSE Accumulate(kind, h[s \ {Gpu!Max(s)}], list[Gpu!Max(s)])
  <2>2. ASSUME NEW s \in SUBSET (1 .. m)
        PROVE  s \in SUBSET (1 .. m + 1) /\ m + 1 \notin s /\ h[s] = g[s]
    BY <2>2
  <2>3. ASSUME NEW s \in SUBSET (1 .. m + 1)
        PROVE  h[s] = this(s)
    <3>1. CASE m + 1 \in s
      <4>1. Gpu!Max(s) = m + 1 /\ s \ {m + 1} \in SUBSET (1 .. m) /\ s # {}
        BY <3>1, LastIndex
      <4>2. h[s \ {m + 1}] = g[s \ {m + 1}]
        BY <2>2, <4>1
      <4>3. h[s] = Accumulate(kind, g[s \ {m + 1}], list[m + 1])
        BY <3>1
      <4> QED
        BY <4>1, <4>2, <4>3
    <3>2. CASE m + 1 \notin s
      <4>1. s \in SUBSET (1 .. m) /\ h[s] = g[s]
        BY <3>2, LastIndex
      <4>2. CASE s = {}
        BY <2>1, <4>1, <4>2 DEF Runs
      <4>3. CASE s # {}
        <5>1. Gpu!Max(s) \in s
          <6>1. s \in SUBSET (0 .. m) /\ m \in Nat
            BY <4>1
          <6> QED
            BY <4>3, <6>1, LargestOf
        <5>2. s \ {Gpu!Max(s)} \in SUBSET (1 .. m)
          BY <4>1
        <5>3. h[s \ {Gpu!Max(s)}] = g[s \ {Gpu!Max(s)}]
          BY <2>2, <5>2
        <5>4. g[s] = Accumulate(kind, g[s \ {Gpu!Max(s)}], list[Gpu!Max(s)])
          BY <2>1, <4>1, <4>3 DEF Runs
        <5> QED
          BY <4>1, <4>3, <5>3, <5>4
      <4> QED
        BY <4>2, <4>3
    <3> QED
      BY <3>1, <3>2
  <2>4. h = [s \in SUBSET (1 .. m + 1) |-> h[s]]
    OBVIOUS
  <2>5. h = [s \in SUBSET (1 .. m + 1) |-> this(s)]
    <3> HIDE DEF h, this
    <3> QED
      BY <2>3, <2>4
  <2> HIDE DEF h
  <2>6. Runs(kind, base, list, m + 1, h)
    BY <2>5 DEF Runs
  <2>7. m + 1 \in Nat
    BY <1>2
  <2> QED
    BY <2>6, <2>7
<1>3. n \in Good
  <2> HIDE DEF Good
  <2>1. Good \in SUBSET Nat
    BY DEF Good
  <2> QED
    BY <1>1, <1>2, <2>1, EveryNumber
<1> QED
  BY <1>3

\* What a fold has made of the first i elements, for every i.
LEMMA IndexByIndex ==
  ASSUME NEW kind, NEW base, NEW list, NEW n \in Nat, NEW f,
         Runs(kind, base, list, n, f)
  PROVE  \E past : Visits(kind, base, list, n, past, f[1 .. n])
<1> DEFINE past == [i \in 0 .. n |-> f[1 .. i]]
<1>1. past[0] = base /\ past[n] = f[1 .. n]
  <2>1. 1 .. 0 = {} /\ {} \in SUBSET (1 .. n)
    OBVIOUS
  <2>2. f[{}] = base
    BY <2>1 DEF Runs
  <2> QED
    BY <2>1, <2>2
<1>2. ASSUME NEW i \in 1 .. n
      PROVE  past[i] = Accumulate(kind, past[i - 1], list[i])
  <2>1. Gpu!Max(1 .. i) = i /\ (1 .. i) \ {i} = 1 .. i - 1
    <3>1. i - 1 \in Nat /\ 1 .. i \in SUBSET (1 .. (i - 1) + 1) /\ (i - 1) + 1 = i /\ i \in 1 .. i
      OBVIOUS
    <3>2. (1 .. i) \ {i} = 1 .. i - 1
      OBVIOUS
    <3>3. Gpu!Max(1 .. i) = (i - 1) + 1
      BY <3>1, LastIndex
    <3> QED
      BY <3>1, <3>2, <3>3
  <2>2. 1 .. i \in SUBSET (1 .. n) /\ 1 .. i # {}
    OBVIOUS
  <2>3. f[1 .. i] = Accumulate(kind, f[1 .. i - 1], list[i])
    BY <2>1, <2>2 DEF Runs
  <2>4. i \in 0 .. n /\ i - 1 \in 0 .. n
    OBVIOUS
  <2> QED
    BY <2>3, <2>4
<1> HIDE DEF past
<1>3. Visits(kind, base, list, n, past, f[1 .. n])
  BY <1>1, <1>2 DEF Visits
<1> QED
  BY <1>3

\* Both folds of Cdi, index by index.
LEMMA PutAllRuns ==
  ASSUME NEW env, NEW list, NEW n \in Nat, DOMAIN list = 1 .. n
  PROVE  \E past : /\ past[0] = env /\ past[n] = Gpu!PutAll(env, list)
                   /\ \A i \in 1 .. n : past[i] = Gpu!Put(past[i - 1], list[i])
<1> DEFINE Folds(g) == g = [s \in SUBSET (1 .. n) |->
                             IF s = {} THEN env
                             ELSE Gpu!Put(g[s \ {Gpu!Max(s)}], list[Gpu!Max(s)])]
           f == CHOOSE g : Folds(g)
<1>1. PICK g : Runs("put", env, list, n, g)
  BY FoldRuns
<1>2. Folds(g)
  BY <1>1 DEF Runs, Accumulate
<1>3. Folds(f)
  BY <1>2
<1>4. Gpu!PutAll(env, list) = f[1 .. n]
  BY DEF Gpu!PutAll, Gpu!FoldLeft, Gpu!MapThenFoldSet
<1> HIDE DEF f
<1>5. Runs("put", env, list, n, f)
  BY <1>3 DEF Runs, Accumulate
<1>6. PICK past : Visits("put", env, list, n, past, f[1 .. n])
  BY <1>5, IndexByIndex
<1>7. /\ past[0] = env /\ past[n] = Gpu!PutAll(env, list)
      /\ \A i \in 1 .. n : past[i] = Gpu!Put(past[i - 1], list[i])
  BY <1>4, <1>6 DEF Visits, Accumulate
<1> QED
  BY <1>7

LEMMA OnceRuns ==
  ASSUME NEW list, NEW n \in Nat, DOMAIN list = 1 .. n
  PROVE  \E past : /\ past[0] = <<>> /\ past[n] = Gpu!Once(list)
                   /\ \A i \in 1 .. n : past[i] = Seen(past[i - 1], list[i])
<1> DEFINE Folds(g) == g = [s \in SUBSET (1 .. n) |->
                             IF s = {} THEN <<>>
                             ELSE IF list[Gpu!Max(s)] \in Gpu!ToSet(g[s \ {Gpu!Max(s)}])
                               THEN g[s \ {Gpu!Max(s)}]
                               ELSE Append(g[s \ {Gpu!Max(s)}], list[Gpu!Max(s)])]
           f == CHOOSE g : Folds(g)
<1>1. PICK g : Runs("once", <<>>, list, n, g)
  BY FoldRuns, Zenon
<1>2. Folds(g)
  BY <1>1, Zenon DEF Runs, Accumulate, Seen
<1>3. Folds(f)
  BY <1>2, Zenon
<1>4. Gpu!Once(list) = f[1 .. n]
  BY DEF Gpu!Once, Gpu!FoldLeft, Gpu!MapThenFoldSet
<1> HIDE DEF f
<1>5. Runs("once", <<>>, list, n, f)
  BY <1>3 DEF Runs, Accumulate, Seen
<1>6. PICK past : Visits("once", <<>>, list, n, past, f[1 .. n])
  BY <1>5, IndexByIndex
<1>7. /\ past[0] = <<>> /\ past[n] = Gpu!Once(list)
      /\ \A i \in 1 .. n : past[i] = Seen(past[i - 1], list[i])
  BY <1>4, <1>6 DEF Visits, Accumulate
<1> QED
  BY <1>7

(***************************************************************************)
(* Lists.                                                                  *)
(***************************************************************************)
LEMMA ListIs ==
  ASSUME NEW s, Gpu!IsList(s)
  PROVE  /\ Len(s) \in Nat /\ DOMAIN s = 1 .. Len(s)
         /\ \A i \in 1 .. Len(s) : s[i] \in Gpu!ToSet(s)
         /\ \A x \in Gpu!ToSet(s) : \E i \in 1 .. Len(s) : s[i] = x
BY DEF Gpu!IsList, Gpu!ToSet

\* Every sequence is a list.
LEMMA IsAList ==
  ASSUME NEW T, NEW s \in Seq(T)
  PROVE  Gpu!IsList(s)
<1>1. /\ Len(s) \in Nat /\ DOMAIN s = 1 .. Len(s)
      /\ s = [i \in 1 .. Len(s) |-> s[i]]
  OBVIOUS
<1>2. \A i \in 1 .. Len(s) : s[i] \in Gpu!ToSet(s)
  BY <1>1 DEF Gpu!ToSet
<1>3. [i \in 1 .. Len(s) |-> s[i]] \in [1 .. Len(s) -> Gpu!ToSet(s)]
  BY <1>2
<1>4. s \in [1 .. Len(s) -> Gpu!ToSet(s)]
  BY <1>1, <1>3
<1>5. s \in Seq(Gpu!ToSet(s))
  BY <1>1, <1>4, SeqDef
<1> QED
  BY <1>5 DEF Gpu!IsList

\* A list behind another.
LEMMA Joined ==
  ASSUME NEW s, NEW t, Gpu!IsList(s), Gpu!IsList(t)
  PROVE  /\ Gpu!IsList(s \o t) /\ Len(s \o t) = Len(s) + Len(t)
         /\ \A i \in 1 .. Len(s) : (s \o t)[i] = s[i]
         /\ \A i \in 1 .. Len(t) : (s \o t)[Len(s) + i] = t[i]
         /\ Gpu!ToSet(s \o t) = Gpu!ToSet(s) \cup Gpu!ToSet(t)
<1> DEFINE T == Gpu!ToSet(s) \cup Gpu!ToSet(t)
<1>1. s \in Seq(T) /\ t \in Seq(T)
  BY DEF Gpu!IsList
<1> HIDE DEF T
<1>2. /\ s \o t \in Seq(T) /\ Len(s \o t) = Len(s) + Len(t)
      /\ \A i \in 1 .. Len(s) : (s \o t)[i] = s[i]
      /\ \A i \in 1 .. Len(t) : (s \o t)[Len(s) + i] = t[i]
      /\ Len(s) \in Nat /\ Len(t) \in Nat
  BY <1>1
<1>3. Gpu!IsList(s \o t)
  BY <1>2, IsAList
<1>4. \A x \in Gpu!ToSet(s) \cup Gpu!ToSet(t) : x \in Gpu!ToSet(s \o t)
  <2>1. \A x \in Gpu!ToSet(s) : \E i \in 1 .. Len(s) : (s \o t)[i] = x
    BY <1>2, ListIs
  <2>2. \A x \in Gpu!ToSet(t) : \E i \in 1 .. Len(t) : (s \o t)[Len(s) + i] = x
    BY <1>2, ListIs
  <2>3. /\ \A i \in 1 .. Len(s) : i \in 1 .. Len(s \o t)
        /\ \A i \in 1 .. Len(t) : Len(s) + i \in 1 .. Len(s \o t)
    BY <1>2
  <2>4. \A i \in 1 .. Len(s \o t) : (s \o t)[i] \in Gpu!ToSet(s \o t)
    BY <1>3, ListIs
  <2> QED
    BY <2>1, <2>2, <2>3, <2>4
<1>5. \A i \in 1 .. Len(s \o t) : (s \o t)[i] \in Gpu!ToSet(s) \cup Gpu!ToSet(t)
  <2> SUFFICES ASSUME NEW i \in 1 .. Len(s \o t)
               PROVE  (s \o t)[i] \in Gpu!ToSet(s) \cup Gpu!ToSet(t)
    OBVIOUS
  <2>1. CASE i \in 1 .. Len(s)
    BY <1>2, <2>1, ListIs
  <2>2. CASE i \notin 1 .. Len(s)
    <3>1. i - Len(s) \in 1 .. Len(t) /\ i = Len(s) + (i - Len(s))
      BY <1>2, <2>2
    <3>2. (s \o t)[i] = t[i - Len(s)]
      BY <1>2, <3>1
    <3> QED
      BY <3>1, <3>2, ListIs
  <2> QED
    BY <2>1, <2>2
<1>6. \A x \in Gpu!ToSet(s \o t) : x \in Gpu!ToSet(s) \cup Gpu!ToSet(t)
  <2> SUFFICES ASSUME NEW x \in Gpu!ToSet(s \o t)
               PROVE  x \in Gpu!ToSet(s) \cup Gpu!ToSet(t)
    OBVIOUS
  <2>1. \E i \in 1 .. Len(s \o t) : (s \o t)[i] = x
    BY <1>3, ListIs
  <2> QED
    BY <1>5, <2>1
<1> QED
  BY <1>2, <1>3, <1>4, <1>6

\* An element behind a list.
LEMMA Extended ==
  ASSUME NEW s, Gpu!IsList(s), NEW x
  PROVE  /\ Gpu!IsList(Append(s, x)) /\ Len(Append(s, x)) = Len(s) + 1
         /\ \A i \in 1 .. Len(s) : Append(s, x)[i] = s[i]
         /\ Append(s, x)[Len(s) + 1] = x
         /\ Gpu!ToSet(Append(s, x)) = Gpu!ToSet(s) \cup {x}
<1>1. Gpu!IsList(<<x>>) /\ Gpu!ToSet(<<x>>) = {x} /\ Len(<<x>>) = 1 /\ <<x>>[1] = x
  <2>1. <<x>> \in Seq({x}) /\ Len(<<x>>) = 1 /\ <<x>>[1] = x /\ DOMAIN <<x>> = {1}
    OBVIOUS
  <2> QED
    BY <2>1 DEF Gpu!IsList, Gpu!ToSet
<1>2. Append(s, x) = s \o <<x>>
  <2>1. s \in Seq(Gpu!ToSet(s) \cup {x})
    BY DEF Gpu!IsList
  <2> QED
    BY <2>1, AppendIsConcat
<1>3. 1 \in 1 .. Len(<<x>>)
  BY <1>1
<1> QED
  BY <1>1, <1>2, <1>3, Joined

LEMMA NoList ==
  /\ Gpu!IsList(<<>>) /\ Gpu!ToSet(<<>>) = {} /\ Len(<<>>) = 0
BY DEF Gpu!IsList, Gpu!ToSet

(***************************************************************************)
(* Once keeps the elements of its list, each of them once, and those of a  *)
(* first part before the others.                                           *)
(***************************************************************************)
PartFirst(part, s) ==
  \A i, j \in 1 .. Len(s) : s[i] \in part /\ s[j] \notin part => i < j
NoTwice(s) == \A i, j \in 1 .. Len(s) : s[i] = s[j] => i = j

\* One element more.
LEMMA SeenKeeps ==
  ASSUME NEW s, Gpu!IsList(s), NEW x, NEW part, NoTwice(s), PartFirst(part, s),
         x \in part => Gpu!ToSet(s) \in SUBSET part \/ x \in Gpu!ToSet(s)
  PROVE  /\ Gpu!IsList(Seen(s, x)) /\ Gpu!ToSet(Seen(s, x)) = Gpu!ToSet(s) \cup {x}
         /\ NoTwice(Seen(s, x)) /\ PartFirst(part, Seen(s, x))
<1>1. CASE x \in Gpu!ToSet(s)
  BY <1>1 DEF Seen
<1>2. CASE x \notin Gpu!ToSet(s)
  <2> DEFINE more == Append(s, x)
  <2>1. /\ Gpu!IsList(more) /\ Len(more) = Len(s) + 1 /\ more[Len(s) + 1] = x
        /\ \A i \in 1 .. Len(s) : more[i] = s[i] /\ s[i] \in Gpu!ToSet(s)
        /\ Gpu!ToSet(more) = Gpu!ToSet(s) \cup {x} /\ Len(s) \in Nat
    BY Extended, ListIs
  <2> HIDE DEF more
  <2>2. \A i \in 1 .. Len(more) : i \in 1 .. Len(s) \/ i = Len(s) + 1
    BY <2>1
  <2>3. NoTwice(more)
    <3> SUFFICES ASSUME NEW i \in 1 .. Len(more), NEW j \in 1 .. Len(more), more[i] = more[j]
                 PROVE  i = j
      BY DEF NoTwice
    <3> QED
      BY <1>2, <2>1, <2>2 DEF NoTwice
  <2>4. PartFirst(part, more)
    <3> SUFFICES ASSUME NEW i \in 1 .. Len(more), NEW j \in 1 .. Len(more),
                        more[i] \in part, more[j] \notin part
                 PROVE  i < j
      BY DEF PartFirst
    <3>1. CASE i \in 1 .. Len(s) /\ j \in 1 .. Len(s)
      BY <2>1, <3>1 DEF PartFirst
    <3>2. CASE i \in 1 .. Len(s) /\ j = Len(s) + 1
      BY <2>1, <3>2
    <3>3. CASE i = Len(s) + 1
      <4>1. Gpu!ToSet(s) \in SUBSET part /\ x \in part
        BY <1>2, <2>1, <3>3
      <4>2. \A k \in 1 .. Len(more) : more[k] \in part
        BY <2>1, <2>2, <4>1
      <4> QED
        BY <4>2
    <3> QED
      BY <2>2, <3>1, <3>2, <3>3
  <2> QED
    BY <1>2, <2>1, <2>3, <2>4 DEF Seen, more
<1> QED
  BY <1>1, <1>2

LEMMA OnceKeeps ==
  ASSUME NEW s, NEW t, Gpu!IsList(s), Gpu!IsList(t)
  PROVE  LET once == Gpu!Once(s \o t)
         IN  /\ Gpu!IsList(once) /\ NoTwice(once) /\ PartFirst(Gpu!ToSet(s), once)
             /\ Gpu!ToSet(once) = Gpu!ToSet(s) \cup Gpu!ToSet(t)
<1> DEFINE list == s \o t
           n == Len(list)
           Upto(k) == {list[i] : i \in 1 .. k}
<1>1. /\ Gpu!IsList(list) /\ n = Len(s) + Len(t) /\ Len(s) \in Nat /\ Len(t) \in Nat
      /\ DOMAIN list = 1 .. n /\ n \in Nat
      /\ Gpu!ToSet(list) = Gpu!ToSet(s) \cup Gpu!ToSet(t)
  BY Joined, ListIs
<1>2. \A i \in 1 .. Len(s) : list[i] \in Gpu!ToSet(s)
  BY Joined, ListIs
<1>3. ASSUME NEW k \in Nat, k >= Len(s)
      PROVE  Gpu!ToSet(s) \in SUBSET Upto(k)
  <2> SUFFICES ASSUME NEW x \in Gpu!ToSet(s)
               PROVE  x \in Upto(k)
    OBVIOUS
  <2>1. PICK i \in 1 .. Len(s) : s[i] = x
    BY ListIs
  <2>2. list[i] = x /\ i \in 1 .. k
    BY <1>1, <1>3, <2>1, Joined
  <2> QED
    BY <2>2
<1>4. Gpu!ToSet(list) = Upto(n)
  BY <1>1 DEF Gpu!ToSet
<1> HIDE DEF list
<1>5. PICK past : /\ past[0] = <<>> /\ past[n] = Gpu!Once(list)
                  /\ \A i \in 1 .. n : past[i] = Seen(past[i - 1], list[i])
  BY <1>1, OnceRuns
<1> DEFINE Fine(k) == /\ Gpu!IsList(past[k]) /\ NoTwice(past[k])
                      /\ PartFirst(Gpu!ToSet(s), past[k])
                      /\ Gpu!ToSet(past[k]) = Upto(k)
           Good == {k \in Nat : k <= n => Fine(k)}
<1>6. 0 \in Good
  <2>1. Upto(0) = {}
    OBVIOUS
  <2>2. Fine(0)
    BY <1>5, <2>1, NoList DEF NoTwice, PartFirst
  <2> QED
    BY <2>2
<1>7. ASSUME NEW k \in Good
      PROVE  k + 1 \in Good
  <2>1. k \in Nat /\ k + 1 \in Nat
    OBVIOUS
  <2>2. SUFFICES ASSUME k + 1 <= n
                 PROVE  Fine(k + 1)
    BY <2>1
  <2>3. Fine(k)
    BY <1>1, <2>1, <2>2
  <2>4. k + 1 \in 1 .. n /\ past[k + 1] = Seen(past[k], list[k + 1])
    <3>1. k + 1 \in 1 .. n /\ (k + 1) - 1 = k
      BY <1>1, <2>1, <2>2
    <3> QED
      BY <1>5, <3>1
  <2>5. Upto(k + 1) = Upto(k) \cup {list[k + 1]}
    <3>1. 1 .. k + 1 = (1 .. k) \cup {k + 1}
      BY <2>1
    <3> QED
      BY <3>1
  <2>6. list[k + 1] \in Gpu!ToSet(s) =>
          Upto(k) \in SUBSET Gpu!ToSet(s) \/ list[k + 1] \in Upto(k)
    <3>1. CASE k >= Len(s)
      BY <1>3, <2>1, <3>1
    <3>2. CASE k < Len(s)
      <4>1. \A i \in 1 .. k : i \in 1 .. Len(s)
        BY <1>1, <2>1, <3>2
      <4> QED
        BY <1>2, <4>1
    <3> QED
      BY <1>1, <2>1, <3>1, <3>2
  <2> HIDE DEF Upto
  <2> DEFINE had == past[k]
             x == list[k + 1]
             has == Seen(had, x)
  <2>7. /\ Gpu!IsList(had) /\ NoTwice(had) /\ PartFirst(Gpu!ToSet(s), had)
        /\ Gpu!ToSet(had) = Upto(k)
        /\ x \in Gpu!ToSet(s) => Gpu!ToSet(had) \in SUBSET Gpu!ToSet(s) \/ x \in Gpu!ToSet(had)
    BY <2>3, <2>6
  <2>8. past[k + 1] = has /\ Upto(k + 1) = Upto(k) \cup {x}
    BY <2>4, <2>5
  <2> HIDE DEF had, x
  <2>9. /\ Gpu!IsList(has) /\ Gpu!ToSet(has) = Gpu!ToSet(had) \cup {x}
        /\ NoTwice(has) /\ PartFirst(Gpu!ToSet(s), has)
    BY <2>7, SeenKeeps
  <2> HIDE DEF has
  <2> QED
    BY <2>7, <2>8, <2>9
<1>8. Fine(n)
  <2> HIDE DEF Fine
  <2>1. Good \in SUBSET Nat
    OBVIOUS
  <2> HIDE DEF Good
  <2>2. Good = Nat
    BY <1>6, <1>7, <2>1, EveryNumber
  <2> QED
    BY <1>1, <2>2 DEF Good
<1> HIDE DEF Upto
<1> QED
  BY <1>1, <1>4, <1>5, <1>8 DEF list

(***************************************************************************)
(* FlattenSeq joins one list after the other.                              *)
(***************************************************************************)
Joins(lists, n, g) ==
  g = [i \in 1 .. n |-> IF i = 1 THEN lists[i] ELSE g[i - 1] \o lists[i]]

\* The recursion of FlattenSeq has a solution.
LEMMA JoinsExist ==
  ASSUME NEW lists, NEW n \in Nat
  PROVE  \E g : Joins(lists, n, g)
<1> DEFINE Good == {m \in Nat : \E g : Joins(lists, m, g)}
<1>1. 0 \in Good
  <2> DEFINE g == [i \in 1 .. 0 |-> <<>>]
  <2>1. \A i \in 1 .. 0 : FALSE
    OBVIOUS
  <2>2. Joins(lists, 0, g)
    BY <2>1 DEF Joins
  <2> QED
    BY <2>2
<1>2. ASSUME NEW m \in Good
      PROVE  m + 1 \in Good
  <2>1. PICK g : Joins(lists, m, g)
    BY <1>2
  <2> DEFINE h == [i \in 1 .. m + 1 |->
                     IF i = 1 THEN lists[i] ELSE g[i - 1] \o lists[i]]
             this(i) == IF i = 1 THEN lists[i] ELSE h[i - 1] \o lists[i]
  <2>2. m \in Nat /\ m + 1 \in Nat
    BY <1>2
  <2>3. ASSUME NEW i \in 1 .. m + 1
        PROVE  h[i] = this(i)
    <3>1. CASE i = 1
      BY <3>1
    <3>2. CASE i # 1
      <4>1. i - 1 \in 1 .. m /\ i - 1 \in 1 .. m + 1
        BY <2>2, <3>2
      <4>2. g[i - 1] = h[i - 1]
        BY <2>1, <4>1 DEF Joins
      <4> QED
        BY <3>2, <4>2
    <3> QED
      BY <3>1, <3>2
  <2>4. h = [i \in 1 .. m + 1 |-> h[i]]
    OBVIOUS
  <2>5. h = [i \in 1 .. m + 1 |-> this(i)]
    <3> HIDE DEF h, this
    <3> QED
      BY <2>3, <2>4
  <2> HIDE DEF h
  <2>6. Joins(lists, m + 1, h)
    BY <2>5 DEF Joins
  <2> QED
    BY <2>2, <2>6
<1>3. n \in Good
  <2> HIDE DEF Good
  <2>1. Good \in SUBSET Nat
    BY DEF Good
  <2> QED
    BY <1>1, <1>2, <2>1, EveryNumber
<1> QED
  BY <1>3

LEMMA FlattenIs ==
  ASSUME NEW lists, Len(lists) \in Nat, Len(lists) # 0
  PROVE  \E g : Joins(lists, Len(lists), g) /\ Gpu!FlattenSeq(lists) = g[Len(lists)]
<1> DEFINE n == Len(lists)
           f == CHOOSE g : g = [i \in 1 .. n |-> IF i = 1 THEN lists[i] ELSE g[i - 1] \o lists[i]]
<1>1. \E g : Joins(lists, n, g)
  <2>1. n \in Nat /\ n # 0
    OBVIOUS
  <2> HIDE DEF n
  <2> QED
    BY <2>1, JoinsExist, Zenon
<1>2. Joins(lists, n, f)
  BY <1>1, Zenon DEF Joins
<1>3. Gpu!FlattenSeq(lists) = f[n]
  BY DEF Gpu!FlattenSeq
<1> HIDE DEF f
<1> QED
  BY <1>2, <1>3

\* One list more.
LEMMA FlattenMore ==
  ASSUME NEW lists, Gpu!IsList(lists), NEW list, Gpu!IsList(list)
  PROVE  Gpu!FlattenSeq(Append(lists, list)) = Gpu!FlattenSeq(lists) \o list
<1> DEFINE n == Len(lists)
           more == Append(lists, list)
<1>1. /\ n \in Nat /\ Len(more) = n + 1 /\ more[n + 1] = list
      /\ \A i \in 1 .. n : more[i] = lists[i]
  BY ListIs, Extended
<1> HIDE DEF more
<1>2. PICK h : Joins(more, n + 1, h) /\ Gpu!FlattenSeq(more) = h[n + 1]
  <2>1. Len(more) \in Nat /\ Len(more) # 0
    BY <1>1
  <2>2. \E h : Joins(more, Len(more), h) /\ Gpu!FlattenSeq(more) = h[Len(more)]
    BY <2>1, FlattenIs
  <2> QED
    BY <1>1, <2>2
<1>3. CASE n = 0
  <2>1. h[1] = list
    BY <1>1, <1>2, <1>3 DEF Joins
  <2>2. Gpu!FlattenSeq(lists) = <<>>
    <3>1. lists = <<>>
      BY <1>3 DEF Gpu!IsList
    <3> QED
      BY <3>1 DEF Gpu!FlattenSeq
  <2>3. <<>> \o list = list
    BY DEF Gpu!IsList
  <2> QED
    BY <1>2, <1>3, <2>1, <2>2, <2>3 DEF more
<1>4. CASE n # 0
  <2>1. PICK g : Joins(lists, n, g) /\ Gpu!FlattenSeq(lists) = g[n]
    BY <1>1, <1>4, FlattenIs
  <2> DEFINE Good == {i \in Nat : i \in 1 .. n => g[i] = h[i]}
  <2>2. ASSUME NEW i \in 1 .. n
        PROVE  /\ i = 1 => g[i] = lists[1] /\ h[i] = lists[1]
               /\ i # 1 => g[i] = g[i - 1] \o lists[i] /\ h[i] = h[i - 1] \o lists[i]
    <3>1. i \in 1 .. n + 1 /\ more[i] = lists[i]
      BY <1>1
    <3>2. h[i] = IF i = 1 THEN more[i] ELSE h[i - 1] \o more[i]
      BY <1>2, <3>1 DEF Joins
    <3>3. g[i] = IF i = 1 THEN lists[i] ELSE g[i - 1] \o lists[i]
      BY <2>1 DEF Joins
    <3> QED
      BY <3>1, <3>2, <3>3
  <2>3. 0 \in Good
    OBVIOUS
  <2>4. ASSUME NEW i \in Good
        PROVE  i + 1 \in Good
    <3>1. i \in Nat /\ i + 1 \in Nat /\ (i + 1) - 1 = i
      BY <2>4
    <3>2. SUFFICES ASSUME i + 1 \in 1 .. n
                   PROVE  g[i + 1] = h[i + 1]
      BY <3>1
    <3>3. CASE i = 0
      <4>1. i + 1 = 1 /\ 1 \in 1 .. n
        BY <3>2, <3>3
      <4>2. g[1] = lists[1] /\ h[1] = lists[1]
        BY <2>2, <4>1
      <4> QED
        BY <4>1, <4>2
    <3>4. CASE i # 0
      <4>1. i \in 1 .. n
        BY <1>1, <3>1, <3>2, <3>4
      <4>2. g[i] = h[i]
        BY <2>4, <4>1
      <4>3. i + 1 # 1
        BY <3>1, <3>4
      <4>4. g[i + 1] = g[i] \o lists[i + 1] /\ h[i + 1] = h[i] \o lists[i + 1]
        BY <2>2, <3>1, <3>2, <4>3
      <4> QED
        BY <4>2, <4>4
    <3> QED
      BY <3>3, <3>4
  <2>5. n \in Good
    <3> HIDE DEF Good
    <3>1. Good \in SUBSET Nat
      BY DEF Good
    <3> QED
      BY <1>1, <2>3, <2>4, <3>1, EveryNumber
  <2>6. g[n] = h[n]
    <3>1. n \in 1 .. n
      BY <1>1, <1>4
    <3> QED
      BY <2>5, <3>1
  <2>7. h[n + 1] = h[n] \o list
    <3>1. n + 1 \in 1 .. n + 1 /\ n + 1 # 1 /\ (n + 1) - 1 = n
      BY <1>1, <1>4
    <3> QED
      BY <1>1, <1>2, <3>1 DEF Joins
  <2> QED
    BY <1>2, <2>1, <2>6, <2>7 DEF more
<1> QED
  BY <1>3, <1>4

(***************************************************************************)
(* Of the first n entries, the last of each key is the one in env; and a   *)
(* value of LD_LIBRARY_PATH is a list.                                     *)
(***************************************************************************)
Latest(env, entries, n) ==
  \A i \in 1 .. n :
    (\A j \in 1 .. n : j > i => entries[j].key # entries[i].key)
      => entries[i].key \in DOMAIN env /\ env[entries[i].key] = entries[i].value
PathIsList(env) == LdPath \in DOMAIN env => Gpu!IsList(env[LdPath])

\* An entry is put into the environment.
LEMMA PutIs ==
  ASSUME NEW env, NEW entry
  PROVE  LET put == Gpu!Put(env, entry)
         IN  /\ DOMAIN put = DOMAIN env \cup {entry.key} /\ put[entry.key] = entry.value
             /\ \A k \in DOMAIN env : k # entry.key => put[k] = env[k]
BY DEF Gpu!Put

\* The next entry of a list.
LEMMA PutKeeps ==
  ASSUME NEW env, NEW entries, NEW n \in Nat, Latest(env, entries, n)
  PROVE  Latest(Gpu!Put(env, entries[n + 1]), entries, n + 1)
<1> DEFINE entry == entries[n + 1]
           put == Gpu!Put(env, entry)
<1>1. /\ DOMAIN put = DOMAIN env \cup {entry.key} /\ put[entry.key] = entry.value
      /\ \A k \in DOMAIN env : k # entry.key => put[k] = env[k]
  BY PutIs
<1> HIDE DEF put
<1>2. SUFFICES ASSUME NEW i \in 1 .. n + 1,
                      \A j \in 1 .. n + 1 : j > i => entries[j].key # entries[i].key
               PROVE  entries[i].key \in DOMAIN put /\ put[entries[i].key] = entries[i].value
  BY DEF Latest, put
<1>3. CASE i = n + 1
  BY <1>1, <1>3
<1>4. CASE i # n + 1
  <2>1. i \in 1 .. n /\ n + 1 \in 1 .. n + 1 /\ n + 1 > i
    BY <1>4
  <2>2. entries[i].key # entry.key
    BY <1>2, <2>1
  <2>3. \A j \in 1 .. n : j > i => entries[j].key # entries[i].key
    BY <1>2
  <2>4. entries[i].key \in DOMAIN env /\ env[entries[i].key] = entries[i].value
    BY <2>1, <2>3 DEF Latest
  <2> QED
    BY <1>1, <2>2, <2>4
<1> QED
  BY <1>3, <1>4

\* All entries of another list.
LEMMA PutAllKeeps ==
  ASSUME NEW env, NEW had, NEW list, Gpu!IsList(had), Gpu!IsList(list),
         Latest(env, had, Len(had)), PathIsList(env),
         \A e \in Gpu!ToSet(list) : e.key = LdPath => Gpu!IsList(e.value)
  PROVE  /\ Latest(Gpu!PutAll(env, list), had \o list, Len(had \o list))
         /\ PathIsList(Gpu!PutAll(env, list))
<1> DEFINE all == had \o list
           m == Len(had)
           n == Len(list)
<1>1. /\ m \in Nat /\ n \in Nat /\ Len(all) = m + n /\ DOMAIN list = 1 .. n
      /\ \A i \in 1 .. m : all[i] = had[i]
      /\ \A i \in 1 .. n : all[m + i] = list[i] /\ list[i] \in Gpu!ToSet(list)
  BY Joined, ListIs
<1> HIDE DEF all, m, n
<1>2. PICK past : /\ past[0] = env /\ past[n] = Gpu!PutAll(env, list)
                  /\ \A i \in 1 .. n : past[i] = Gpu!Put(past[i - 1], list[i])
  <2>1. n \in Nat /\ DOMAIN list = 1 .. n
    BY <1>1
  <2> QED
    BY <2>1, PutAllRuns
<1> DEFINE Fine(k) == Latest(past[k], all, m + k) /\ PathIsList(past[k])
           Good == {k \in Nat : k <= n => Fine(k)}
<1>3. 0 \in Good
  <2>1. m + 0 = m
    BY <1>1
  <2>2. Latest(env, all, m)
    BY <1>1 DEF Latest, m
  <2> QED
    BY <1>2, <2>1, <2>2
<1>4. ASSUME NEW k \in Good
      PROVE  k + 1 \in Good
  <2>1. k \in Nat /\ k + 1 \in Nat
    BY <1>4
  <2>2. SUFFICES ASSUME k + 1 <= n
                 PROVE  Fine(k + 1)
    BY <2>1
  <2>3. Fine(k)
    BY <1>1, <1>4, <2>1, <2>2
  <2>4. k + 1 \in 1 .. n /\ (k + 1) - 1 = k /\ m + (k + 1) = (m + k) + 1 /\ m + k \in Nat
    BY <1>1, <2>1, <2>2
  <2> DEFINE entry == list[k + 1]
             put == Gpu!Put(past[k], entry)
  <2>5. past[k + 1] = put
    BY <1>2, <2>4
  <2>6. all[m + (k + 1)] = entry /\ entry \in Gpu!ToSet(list)
    BY <1>1, <2>4
  <2>7. all[(m + k) + 1] = entry
    BY <2>4, <2>6
  <2>8. Latest(put, all, (m + k) + 1)
    BY <2>3, <2>4, <2>7, PutKeeps
  <2>9. PathIsList(put)
    <3>1. /\ DOMAIN put = DOMAIN past[k] \cup {entry.key} /\ put[entry.key] = entry.value
          /\ \A x \in DOMAIN past[k] : x # entry.key => put[x] = past[k][x]
      BY PutIs
    <3> HIDE DEF put
    <3>2. entry.key = LdPath => Gpu!IsList(entry.value)
      BY <2>6
    <3> QED
      BY <2>3, <3>1, <3>2 DEF PathIsList
  <2> HIDE DEF put
  <2> QED
    BY <2>4, <2>5, <2>8, <2>9
<1>5. Fine(n)
  <2> HIDE DEF Fine
  <2>1. Good \in SUBSET Nat
    OBVIOUS
  <2> HIDE DEF Good
  <2>2. Good = Nat
    BY <1>3, <1>4, <2>1, EveryNumber
  <2> QED
    BY <1>1, <2>2 DEF Good
<1> QED
  BY <1>1, <1>2, <1>5 DEF all

(***************************************************************************)
(* Where a path comes from does not change when mounts are added, once one *)
(* has it for its destination.                                             *)
(***************************************************************************)
LEMMA SourceStays ==
  ASSUME NEW path, NEW mounts, NEW more, Gpu!IsList(mounts), Gpu!IsList(more),
         \E m \in Gpu!ToSet(mounts) : m.destination = path
  PROVE  Gpu!host_source(path, mounts \o more) = Gpu!host_source(path, mounts)
<1> DEFINE all == mounts \o more
           I == {i \in 1 .. Len(mounts) : mounts[i].destination = path}
           J == {i \in 1 .. Len(all) : all[i].destination = path}
<1>1. /\ Len(mounts) \in Nat /\ Len(more) \in Nat /\ Len(all) = Len(mounts) + Len(more)
      /\ \A i \in 1 .. Len(mounts) : all[i] = mounts[i]
      /\ Gpu!ToSet(all) = Gpu!ToSet(mounts) \cup Gpu!ToSet(more)
  BY Joined, ListIs
<1>2. I # {} /\ I \in SUBSET Nat
  <2>1. \E i \in 1 .. Len(mounts) : mounts[i].destination = path
    BY ListIs
  <2> QED
    BY <2>1
<1>3. /\ Gpu!host_source(path, mounts) = mounts[Gpu!Min(I)].source
      /\ Gpu!host_source(path, all) = all[Gpu!Min(J)].source
  <2>1. J # {}
    BY <1>1, <1>2
  <2>2. \E m \in Gpu!ToSet(all) : m.destination = path
    BY <1>1
  <2> HIDE DEF all
  <2>3. /\ Gpu!host_source(path, all)
             = all[Gpu!SelectInSeq(all, LAMBDA m : m.destination = path)].source
        /\ Gpu!host_source(path, mounts)
             = mounts[Gpu!SelectInSeq(mounts, LAMBDA m : m.destination = path)].source
    BY <2>2 DEF Gpu!host_source
  <2> QED
    BY <1>2, <2>1, <2>3 DEF Gpu!SelectInSeq
<1> HIDE DEF all
<1>4. I \in SUBSET J /\ J \in SUBSET Nat /\ J # {}
  BY <1>1, <1>2
<1>5. /\ Gpu!Min(I) \in I /\ \A n \in I : Gpu!Min(I) <= n
      /\ Gpu!Min(J) \in J /\ \A n \in J : Gpu!Min(J) <= n
  BY <1>2, <1>4, LeastOf
<1> DEFINE i == Gpu!Min(I)
           j == Gpu!Min(J)
<1>6. i \in I /\ j \in J /\ j <= i /\ \A n \in I : i <= n
  BY <1>4, <1>5
<1> HIDE DEF i, j
<1>7. i \in Nat /\ j \in Nat /\ i <= Len(mounts) /\ j >= 1
  <2>1. i \in 1 .. Len(mounts) /\ j \in 1 .. Len(all)
    BY <1>6
  <2> QED
    BY <1>1, <2>1
<1>8. j \in 1 .. Len(mounts) /\ all[j].destination = path
  BY <1>1, <1>6, <1>7
<1>9. j \in I
  BY <1>1, <1>8
<1>10. i = j
  BY <1>6, <1>7, <1>9
<1> QED
  BY <1>1, <1>3, <1>8, <1>10 DEF i, j, all

(***************************************************************************)
(* A path is settled for a block if the block's own mounts say where it    *)
(* comes from, or no mount does; a link is, if its target is, and for a    *)
(* relative target its own directory.  What a settled link points to does  *)
(* not change when mounts are added.                                       *)
(***************************************************************************)
SettledIn(path, own, all) == Gpu!Mounted(path, own) \/ ~Gpu!Mounted(path, all)
LinkSettled(l, own, all) ==
  /\ l.absolute \/ SettledIn(Gpu!Front(l.link), own, all)
  /\ SettledIn(Gpu!resolved(l, all), own, all)
HostOf(l, mounts) == Gpu!host_source(Gpu!resolved(l, mounts), mounts)

LEMMA LinkStays ==
  ASSUME NEW l, NEW own, NEW mounts, NEW more, Gpu!IsList(mounts), Gpu!IsList(more),
         Gpu!ToSet(own) \subseteq Gpu!ToSet(mounts), LinkSettled(l, own, mounts \o more)
  PROVE  LinkSettled(l, own, mounts) /\ HostOf(l, mounts \o more) = HostOf(l, mounts)
<1> DEFINE all == mounts \o more
<1>1. Gpu!ToSet(all) = Gpu!ToSet(mounts) \cup Gpu!ToSet(more)
  BY Joined
<1>2. ASSUME NEW path, SettledIn(path, own, all)
      PROVE  /\ SettledIn(path, own, mounts)
             /\ Gpu!host_source(path, all) = Gpu!host_source(path, mounts)
  <2>1. CASE Gpu!Mounted(path, own)
    <3>1. \E m \in Gpu!ToSet(mounts) : m.destination = path
      BY <2>1 DEF Gpu!Mounted
    <3> QED
      BY <2>1, <3>1, SourceStays DEF SettledIn
  <2>2. CASE ~Gpu!Mounted(path, all)
    <3>1. /\ ~\E m \in Gpu!ToSet(all) : m.destination = path
          /\ ~\E m \in Gpu!ToSet(mounts) : m.destination = path
      BY <1>1, <2>2 DEF Gpu!Mounted
    <3> HIDE DEF all
    <3>2. Gpu!host_source(path, all) = path /\ Gpu!host_source(path, mounts) = path
      BY <3>1 DEF Gpu!host_source
    <3> QED
      BY <3>1, <3>2 DEF SettledIn, Gpu!Mounted
  <2> QED
    BY <1>2, <2>1, <2>2 DEF SettledIn
<1> HIDE DEF all
<1>3. LinkSettled(l, own, all)
  BY DEF all
<1>4. Gpu!resolved(l, all) = Gpu!resolved(l, mounts)
  BY <1>2, <1>3 DEF LinkSettled, Gpu!resolved
<1> QED
  BY <1>2, <1>3, <1>4 DEF LinkSettled, HostOf, all

(***************************************************************************)
(* A function on 1 .. n is a list; one that agrees with a list but for one *)
(* more entry is the list with that entry appended.                        *)
(***************************************************************************)
LEMMA ListOf ==
  ASSUME NEW n \in Nat, NEW s, s = [i \in 1 .. n |-> s[i]]
  PROVE  Gpu!IsList(s) /\ Len(s) = n
<1>1. DOMAIN s = 1 .. n
  OBVIOUS
<1>2. \A i \in 1 .. n : s[i] \in Gpu!ToSet(s)
  BY <1>1 DEF Gpu!ToSet
<1>3. s \in [1 .. n -> Gpu!ToSet(s)]
  BY <1>2
<1>4. s \in Seq(Gpu!ToSet(s))
  BY <1>3, SeqDef
<1>5. Len(s) = n
  BY <1>1, <1>4
<1> QED
  BY <1>4, <1>5 DEF Gpu!IsList

LEMMA OneMore ==
  ASSUME NEW s, Gpu!IsList(s), NEW t, t = [i \in 1 .. Len(s) + 1 |-> t[i]],
         \A i \in 1 .. Len(s) : t[i] = s[i]
  PROVE  t = Append(s, t[Len(s) + 1])
<1> DEFINE n == Len(s)
           more == Append(s, t[n + 1])
<1>1. /\ n \in Nat /\ Gpu!IsList(more) /\ Len(more) = n + 1 /\ more[n + 1] = t[n + 1]
      /\ \A i \in 1 .. n : more[i] = s[i]
  BY ListIs, Extended
<1>2. more = [i \in 1 .. n + 1 |-> more[i]]
  BY <1>1 DEF Gpu!IsList
<1> HIDE DEF more
<1>3. \A i \in 1 .. n + 1 : more[i] = t[i]
  <2> SUFFICES ASSUME NEW i \in 1 .. n + 1
               PROVE  more[i] = t[i]
    OBVIOUS
  <2>1. i \in 1 .. n \/ i = n + 1
    BY <1>1
  <2> QED
    BY <1>1, <2>1
<1>4. more = t
  BY <1>2, <1>3
<1> QED
  BY <1>4 DEF more

(***************************************************************************)
(* The entries and the folders of some blocks, and what a translation that *)
(* has met these blocks has delivered.                                     *)
(***************************************************************************)
Entries(blocks) == Gpu!FlattenSeq([i \in DOMAIN blocks |-> blocks[i].env])
Folders(blocks) == Gpu!FlattenSeq([i \in DOMAIN blocks |-> blocks[i].folders])

\* One block more brings its entries and its folders.
LEMMA BlockMore ==
  ASSUME NEW blocks, Gpu!IsList(blocks), NEW b
  PROVE  /\ Gpu!IsList(b.env) => Entries(Append(blocks, b)) = Entries(blocks) \o b.env
         /\ Gpu!IsList(b.folders) => Folders(Append(blocks, b)) = Folders(blocks) \o b.folders
<1> DEFINE n == Len(blocks)
           more == Append(blocks, b)
           envs(list) == [i \in DOMAIN list |-> list[i].env]
           folders(list) == [i \in DOMAIN list |-> list[i].folders]
<1>1. /\ n \in Nat /\ DOMAIN blocks = 1 .. n /\ DOMAIN more = 1 .. n + 1
      /\ more[n + 1] = b /\ \A i \in 1 .. n : more[i] = blocks[i]
  BY ListIs, Extended
<1> HIDE DEF more, n
<1>2. /\ n + 1 \in 1 .. n + 1 /\ \A i \in 1 .. n : i \in 1 .. n + 1
  BY <1>1
<1>3. envs(more) = Append(envs(blocks), b.env)
  <2>1. /\ envs(more) = [i \in 1 .. n + 1 |-> envs(more)[i]]
        /\ envs(more)[n + 1] = b.env
        /\ \A i \in 1 .. n : envs(more)[i] = envs(blocks)[i]
        /\ envs(blocks) = [i \in 1 .. n |-> envs(blocks)[i]]
    BY <1>1, <1>2
  <2> DEFINE s == envs(blocks)
             t == envs(more)
  <2> HIDE DEF envs
  <2> HIDE DEF s, t
  <2>2. Gpu!IsList(s) /\ Len(s) = n
    BY <1>1, <2>1, ListOf DEF s
  <2>3. t = [i \in 1 .. Len(s) + 1 |-> t[i]] /\ \A i \in 1 .. Len(s) : t[i] = s[i]
    BY <2>1, <2>2 DEF s, t
  <2>4. t = Append(s, t[Len(s) + 1])
    BY <2>2, <2>3, OneMore
  <2> QED
    BY <2>1, <2>2, <2>4 DEF s, t
<1>4. folders(more) = Append(folders(blocks), b.folders)
  <2>1. /\ folders(more) = [i \in 1 .. n + 1 |-> folders(more)[i]]
        /\ folders(more)[n + 1] = b.folders
        /\ \A i \in 1 .. n : folders(more)[i] = folders(blocks)[i]
        /\ folders(blocks) = [i \in 1 .. n |-> folders(blocks)[i]]
    BY <1>1, <1>2
  <2> DEFINE s == folders(blocks)
             t == folders(more)
  <2> HIDE DEF folders
  <2> HIDE DEF s, t
  <2>2. Gpu!IsList(s) /\ Len(s) = n
    BY <1>1, <2>1, ListOf DEF s
  <2>3. t = [i \in 1 .. Len(s) + 1 |-> t[i]] /\ \A i \in 1 .. Len(s) : t[i] = s[i]
    BY <2>1, <2>2 DEF s, t
  <2>4. t = Append(s, t[Len(s) + 1])
    BY <2>2, <2>3, OneMore
  <2> QED
    BY <2>1, <2>2, <2>4 DEF s, t
<1>5. Gpu!IsList(envs(blocks)) /\ Gpu!IsList(folders(blocks))
  <2>1. envs(blocks) = [i \in 1 .. n |-> envs(blocks)[i]]
    BY <1>1
  <2>2. folders(blocks) = [i \in 1 .. n |-> folders(blocks)[i]]
    BY <1>1
  <2> HIDE DEF envs, folders
  <2> QED
    BY <1>1, <2>1, <2>2, ListOf
<1>6. Entries(more) = Gpu!FlattenSeq(envs(more)) /\ Entries(blocks) = Gpu!FlattenSeq(envs(blocks))
  BY DEF Entries
<1>7. Folders(more) = Gpu!FlattenSeq(folders(more)) /\ Folders(blocks) = Gpu!FlattenSeq(folders(blocks))
  BY DEF Folders
<1> HIDE DEF envs, folders
<1>8. Gpu!IsList(b.env) => Entries(more) = Entries(blocks) \o b.env
  BY <1>3, <1>5, <1>6, FlattenMore
<1>9. Gpu!IsList(b.folders) => Folders(more) = Folders(blocks) \o b.folders
  BY <1>4, <1>5, <1>7, FlattenMore
<1> QED
  BY <1>8, <1>9 DEF more

Effects(b, acc) ==
  /\ Gpu!ToSet(b.nodes) \subseteq Gpu!ToSet(acc.nodes)
  /\ Gpu!ToSet(b.mounts) \subseteq Gpu!ToSet(acc.mounts)
  /\ Gpu!ToSet(b.gids) \subseteq Gpu!ToSet(acc.gids)
  /\ \A l \in Gpu!ToSet(b.links) : \E m \in Gpu!ToSet(acc.mounts) : m.destination = l.link
  /\ b.other => acc.notes # {}
Linked(b, acc) ==
  \A l \in Gpu!ToSet(b.links) :
    LinkSettled(l, b.mounts, acc.mounts) =>
      \E k \in Gpu!ToSet(acc.mounts) :
        k.destination = l.link /\ k.source = HostOf(l, acc.mounts)
Lists(acc) ==
  /\ acc = [nodes |-> acc.nodes, mounts |-> acc.mounts, env |-> acc.env, gids |-> acc.gids,
            folders |-> acc.folders, notes |-> acc.notes]
  /\ Gpu!IsList(acc.nodes) /\ Gpu!IsList(acc.mounts) /\ Gpu!IsList(acc.gids)
  /\ Gpu!IsList(acc.folders) /\ PathIsList(acc.env)
Delivered(blocks, acc) ==
  /\ Gpu!IsList(blocks) /\ Lists(acc)
  /\ \A b \in Gpu!ToSet(blocks) : Effects(b, acc) /\ Linked(b, acc)
  /\ Gpu!IsList(Entries(blocks)) /\ Latest(acc.env, Entries(blocks), Len(Entries(blocks)))
  /\ acc.folders = Folders(blocks)

\* Once as far as groups need it.
LEMMA OnceOf ==
  ASSUME NEW s, NEW t, Gpu!IsList(s), Gpu!IsList(t)
  PROVE  /\ Gpu!IsList(Gpu!Once(s \o t))
         /\ Gpu!ToSet(Gpu!Once(s \o t)) = Gpu!ToSet(s) \cup Gpu!ToSet(t)
BY OnceKeeps

(***************************************************************************)
(* A block already met keeps what it was given when more is added.         *)
(***************************************************************************)
LEMMA StillDelivered ==
  ASSUME NEW b, NEW acc, NEW acc2, NEW added,
         Gpu!IsList(acc.mounts), Gpu!IsList(added), acc2.mounts = acc.mounts \o added,
         Gpu!ToSet(acc.nodes) \subseteq Gpu!ToSet(acc2.nodes),
         Gpu!ToSet(acc.gids) \subseteq Gpu!ToSet(acc2.gids),
         acc.notes \subseteq acc2.notes, Effects(b, acc), Linked(b, acc)
  PROVE  Effects(b, acc2) /\ Linked(b, acc2)
<1>1. Gpu!ToSet(acc2.mounts) = Gpu!ToSet(acc.mounts) \cup Gpu!ToSet(added)
  BY Joined
<1>2. Effects(b, acc2)
  BY <1>1 DEF Effects
<1>3. ASSUME NEW l \in Gpu!ToSet(b.links), LinkSettled(l, b.mounts, acc2.mounts)
      PROVE  \E k \in Gpu!ToSet(acc2.mounts) :
               k.destination = l.link /\ k.source = HostOf(l, acc2.mounts)
  <2>1. Gpu!ToSet(b.mounts) \subseteq Gpu!ToSet(acc.mounts)
    BY DEF Effects
  <2>2. /\ LinkSettled(l, b.mounts, acc.mounts)
        /\ HostOf(l, acc2.mounts) = HostOf(l, acc.mounts)
    BY <1>3, <2>1, LinkStays
  <2>3. PICK k \in Gpu!ToSet(acc.mounts) :
          k.destination = l.link /\ k.source = HostOf(l, acc.mounts)
    BY <2>2 DEF Linked
  <2> QED
    BY <1>1, <2>2, <2>3
<1>4. Linked(b, acc2)
  BY <1>3 DEF Linked
<1> QED
  BY <1>2, <1>4

(***************************************************************************)
(* One block more.                                                         *)
(***************************************************************************)
LEMMA OneBlock ==
  ASSUME NEW blocks, NEW acc, NEW device, NEW b, Delivered(blocks, acc), Gpu!IsBlock(b)
  PROVE  Delivered(Append(blocks, b), Gpu!translate_edits(acc, device, b))
<1> DEFINE mounts == acc.mounts \o b.mounts
           links == [i \in DOMAIN b.links |-> Gpu!symlink_mount(b.links[i], mounts)]
           new == Gpu!translate_edits(acc, device, b)
           more == Append(blocks, b)
<1>1. /\ new.nodes = acc.nodes \o b.nodes
      /\ new.mounts = mounts \o links
      /\ new.env = Gpu!PutAll(acc.env, b.env)
      /\ new.gids = Gpu!Once(acc.gids \o b.gids)
      /\ new.folders = acc.folders \o b.folders
      /\ new.notes = IF b.other THEN acc.notes \cup {device} ELSE acc.notes
  BY DEF Gpu!translate_edits
<1>2. /\ Gpu!IsList(b.nodes) /\ Gpu!IsList(b.mounts) /\ Gpu!IsList(b.links)
      /\ Gpu!IsList(b.env) /\ Gpu!IsList(b.gids) /\ Gpu!IsList(b.folders)
      /\ \A e \in Gpu!ToSet(b.env) : e.key = LdPath => Gpu!IsList(e.value)
  BY DEF Gpu!IsBlock
<1>3. /\ Gpu!IsList(acc.nodes) /\ Gpu!IsList(acc.mounts) /\ Gpu!IsList(acc.gids)
      /\ Gpu!IsList(acc.folders) /\ PathIsList(acc.env)
  BY DEF Delivered, Lists
<1>4. Gpu!IsList(mounts) /\ Gpu!ToSet(mounts) = Gpu!ToSet(acc.mounts) \cup Gpu!ToSet(b.mounts)
  BY <1>2, <1>3, Joined
<1>5. /\ Gpu!IsList(links) /\ DOMAIN links = 1 .. Len(b.links) /\ DOMAIN b.links = 1 .. Len(b.links)
      /\ \A i \in 1 .. Len(b.links) : links[i] = Gpu!symlink_mount(b.links[i], mounts)
  <2>1. Len(b.links) \in Nat /\ DOMAIN b.links = 1 .. Len(b.links)
    BY <1>2, ListIs
  <2>2. links = [i \in 1 .. Len(b.links) |-> links[i]]
    BY <2>1
  <2>3. Gpu!IsList(links)
    <3> HIDE DEF links
    <3> QED
      BY <2>1, <2>2, ListOf
  <2> QED
    BY <2>1, <2>3
<1> HIDE DEF links
<1>6. /\ Gpu!IsList(new.mounts)
      /\ Gpu!ToSet(new.mounts) = Gpu!ToSet(mounts) \cup Gpu!ToSet(links)
  BY <1>1, <1>4, <1>5, Joined
<1>7. /\ Gpu!IsList(new.nodes)
      /\ Gpu!ToSet(new.nodes) = Gpu!ToSet(acc.nodes) \cup Gpu!ToSet(b.nodes)
      /\ Gpu!IsList(new.folders)
  BY <1>1, <1>2, <1>3, Joined
<1>8. /\ Gpu!IsList(new.gids)
      /\ Gpu!ToSet(new.gids) = Gpu!ToSet(acc.gids) \cup Gpu!ToSet(b.gids)
  BY <1>1, <1>2, <1>3, OnceOf
<1> HIDE DEF new, mounts
<1>9. \A l \in Gpu!ToSet(b.links) : \E k \in Gpu!ToSet(new.mounts) :
        k.destination = l.link /\ k.source = HostOf(l, mounts)
  <2> SUFFICES ASSUME NEW l \in Gpu!ToSet(b.links)
               PROVE  \E k \in Gpu!ToSet(new.mounts) :
                        k.destination = l.link /\ k.source = HostOf(l, mounts)
    OBVIOUS
  <2>1. PICK i \in 1 .. Len(b.links) : b.links[i] = l
    BY <1>2, ListIs
  <2>2. links[i] = [source |-> HostOf(l, mounts), destination |-> l.link]
    BY <1>5, <2>1 DEF Gpu!symlink_mount, HostOf
  <2>3. links[i] \in Gpu!ToSet(links)
    BY <1>5 DEF Gpu!ToSet
  <2> QED
    BY <1>6, <2>2, <2>3
<1>10. Effects(b, new)
  <2>1. /\ Gpu!ToSet(b.nodes) \subseteq Gpu!ToSet(new.nodes)
        /\ Gpu!ToSet(b.mounts) \subseteq Gpu!ToSet(new.mounts)
        /\ Gpu!ToSet(b.gids) \subseteq Gpu!ToSet(new.gids)
    BY <1>4, <1>6, <1>7, <1>8
  <2>2. b.other => new.notes # {}
    BY <1>1
  <2> QED
    BY <1>9, <2>1, <2>2 DEF Effects
<1>11. Linked(b, new)
  <2> SUFFICES ASSUME NEW l \in Gpu!ToSet(b.links),
                      LinkSettled(l, b.mounts, new.mounts)
               PROVE  \E k \in Gpu!ToSet(new.mounts) :
                        k.destination = l.link /\ k.source = HostOf(l, new.mounts)
    BY DEF Linked
  <2>1. Gpu!ToSet(b.mounts) \subseteq Gpu!ToSet(mounts)
    BY <1>4
  <2>2. HostOf(l, new.mounts) = HostOf(l, mounts)
    BY <1>1, <1>4, <1>5, <2>1, LinkStays
  <2> QED
    BY <1>9, <2>2
<1>12. /\ Gpu!IsList(blocks) /\ Gpu!IsList(Entries(blocks)) /\ acc.folders = Folders(blocks)
       /\ Latest(acc.env, Entries(blocks), Len(Entries(blocks)))
       /\ \A c \in Gpu!ToSet(blocks) : Effects(c, acc) /\ Linked(c, acc)
  BY DEF Delivered
<1>13. \A c \in Gpu!ToSet(blocks) : Effects(c, new) /\ Linked(c, new)
  <2> DEFINE added == b.mounts \o links
  <2>1. Gpu!IsList(added)
    BY <1>2, <1>5, Joined
  <2>2. new.mounts = acc.mounts \o added
    <3> DEFINE s == acc.mounts
               t == b.mounts
               T == Gpu!ToSet(s) \cup Gpu!ToSet(t) \cup Gpu!ToSet(links)
    <3>1. s \in Seq(T) /\ t \in Seq(T) /\ links \in Seq(T)
      BY <1>2, <1>3, <1>5 DEF Gpu!IsList
    <3>2. new.mounts = (s \o t) \o links
      BY <1>1 DEF mounts
    <3> HIDE DEF T, s, t
    <3>3. (s \o t) \o links = s \o (t \o links)
      BY <3>1, ConcatAssociative
    <3> QED
      BY <3>2, <3>3 DEF s, t
  <2> HIDE DEF added
  <2>3. acc.notes \subseteq new.notes
    BY <1>1
  <2>4. Gpu!ToSet(acc.nodes) \subseteq Gpu!ToSet(new.nodes)
    BY <1>7
  <2>5. Gpu!ToSet(acc.gids) \subseteq Gpu!ToSet(new.gids)
    BY <1>8
  <2> SUFFICES ASSUME NEW c \in Gpu!ToSet(blocks)
               PROVE  Effects(c, new) /\ Linked(c, new)
    OBVIOUS
  <2>6. Effects(c, acc) /\ Linked(c, acc)
    BY <1>12
  <2> QED
    BY <1>3, <2>1, <2>2, <2>3, <2>4, <2>5, <2>6, StillDelivered
<1>14. Gpu!IsList(more) /\ Gpu!ToSet(more) = Gpu!ToSet(blocks) \cup {b}
  BY <1>12, Extended
<1>15. Entries(more) = Entries(blocks) \o b.env /\ Folders(more) = Folders(blocks) \o b.folders
  BY <1>2, <1>12, BlockMore
<1>16. Gpu!IsList(Entries(more)) /\ Latest(new.env, Entries(more), Len(Entries(more)))
       /\ PathIsList(new.env)
  <2> DEFINE had == Entries(blocks)
             list == b.env
             env == acc.env
  <2>1. /\ Gpu!IsList(had) /\ Gpu!IsList(list) /\ Latest(env, had, Len(had)) /\ PathIsList(env)
        /\ \A e \in Gpu!ToSet(list) : e.key = LdPath => Gpu!IsList(e.value)
        /\ Entries(more) = had \o list /\ new.env = Gpu!PutAll(env, list)
    BY <1>1, <1>2, <1>3, <1>12, <1>15
  <2> HIDE DEF had, list, env
  <2>2. Gpu!IsList(had \o list)
    BY <2>1, Joined
  <2>3. /\ Latest(Gpu!PutAll(env, list), had \o list, Len(had \o list))
        /\ PathIsList(Gpu!PutAll(env, list))
    BY <2>1, PutAllKeeps
  <2> QED
    BY <2>1, <2>2, <2>3
<1>17. Lists(new)
  <2>1. new = [nodes |-> new.nodes, mounts |-> new.mounts, env |-> new.env, gids |-> new.gids,
               folders |-> new.folders, notes |-> new.notes]
    BY DEF new, Gpu!translate_edits
  <2> QED
    BY <1>6, <1>7, <1>8, <1>16, <2>1 DEF Lists
<1>18. new.folders = Folders(more)
  BY <1>1, <1>12, <1>15
<1> HIDE DEF more
<1>19. \A c \in Gpu!ToSet(more) : Effects(c, new) /\ Linked(c, new)
  BY <1>10, <1>11, <1>13, <1>14
<1>20. Delivered(more, new)
  BY <1>14, <1>16, <1>17, <1>18, <1>19 DEF Delivered
<1> QED
  BY <1>20 DEF more, new

-----------------------------------------------------------------------------
(***************************************************************************)
(* What the ladder has found is a list of specs, and the names on the wire *)
(* come from it; the rest of a start does not put names there.  While the  *)
(* server translates, it has delivered the blocks of the first devices,    *)
(* and it has not begun before.                                            *)
(***************************************************************************)
Listed(list) == Gpu!IsList(list) /\ \A s \in Gpu!ToSet(list) : Gpu!IsSpec(s)
BlocksMet(k) == Gpu!FlattenSeq([i \in 1 .. k |-> Gpu!BlocksOf(ask[i])])

Translating ==
  /\ step \in {"probe", "helper", "names", "create", "named"} => next = 1 /\ out = Gpu!NoEdits
  /\ step = "edits" => next \in 1 .. Len(ask) + 1 /\ Delivered(BlocksMet(next - 1), out)

GpuInv ==
  /\ stage \in {"names", "edits"} /\ Gpu!IsList(ask)
  /\ Listed(local) /\ Listed(remote) /\ Listed(specs)
  /\ Gpu!WireNamesAreDefined
  /\ Translating /\ Gpu!TranslationIsFaithful

(***************************************************************************)
(* The first spec of an assignment's kind is one that was found.           *)
(***************************************************************************)
LEMMA SpecFound ==
  ASSUME Listed(specs), NEW a, Gpu!SpecOf(a) # 0
  PROVE  Gpu!IsSpec(specs[Gpu!SpecOf(a)])
<1> DEFINE I == {i \in 1 .. Len(specs) : specs[i].kind = Gpu!split_identifier(a)}
<1>1. specs \in Seq(Gpu!ToSet(specs)) /\ DOMAIN specs = 1 .. Len(specs)
  BY DEF Listed, Gpu!IsList
<1>2. Gpu!SpecOf(a) = IF I # {} THEN Gpu!Min(I) ELSE 0
  BY DEF Gpu!SpecOf, Gpu!OfKind, Gpu!SelectInSeq
<1>3. I \in SUBSET Nat
  BY <1>1
<1>4. Gpu!SpecOf(a) \in I
  BY <1>2, <1>3, LeastOf
<1> QED
  BY <1>1, <1>4 DEF Listed, Gpu!ToSet

(***************************************************************************)
(* What _find_device returns is a name of the spec, and of the device      *)
(* asked for: the name itself, or the first alias of it.                   *)
(***************************************************************************)
LEMMA Spelled ==
  ASSUME NEW spec, Gpu!IsList(spec.devices), NEW name, Gpu!find_device(spec, name) # None
  PROVE  LET found == Gpu!find_device(spec, name)
         IN  /\ found \in {d.name : d \in Gpu!device_index(spec)}
             /\ Gpu!device_name(found) = Gpu!device_name(name)
<1> DEFINE list == spec.devices
           alias(d) == Gpu!device_name(d.name) = Gpu!device_name(name)
           I == {i \in 1 .. Len(list) : Gpu!device_name(list[i].name) = Gpu!device_name(name)}
<1>1. list \in Seq(Gpu!ToSet(list)) /\ DOMAIN list = 1 .. Len(list)
  BY DEF Gpu!IsList
<1>2. Gpu!device_index(spec) = {list[i] : i \in DOMAIN list}
  BY DEF Gpu!device_index, Gpu!ToSet
<1>3. CASE \E d \in Gpu!device_index(spec) : d.name = name
  BY <1>3 DEF Gpu!find_device
<1>4. CASE ~\E d \in Gpu!device_index(spec) : d.name = name
  <2>1. \E d \in Gpu!device_index(spec) : alias(d)
    BY <1>4 DEF Gpu!find_device
  <2>2. I # {} /\ I \in SUBSET Nat
    BY <1>1, <1>2, <2>1
  <2>3. Gpu!find_device(spec, name) = list[Gpu!Min(I)].name
    BY <1>4, <2>1, <2>2 DEF Gpu!find_device, Gpu!SelectInSeq
  <2>4. Gpu!Min(I) \in I
    BY <2>2, LeastOf
  <2> QED
    BY <1>1, <1>2, <2>3, <2>4
<1> QED
  BY <1>3, <1>4

(***************************************************************************)
(* The edits translated for a device that is known are blocks of its spec. *)
(***************************************************************************)
LEMMA BlocksFound ==
  ASSUME Listed(specs), NEW a, Gpu!match_device(a) # None
  PROVE  LET two == Gpu!BlocksOf(a)
         IN  two = <<two[1], two[2]>> /\ Gpu!IsBlock(two[1]) /\ Gpu!IsBlock(two[2])
<1> DEFINE spec == specs[Gpu!SpecOf(a)]
           found == Gpu!find_device(spec, a.name)
           list == spec.devices
           I == {i \in 1 .. Len(list) : list[i].name = found}
<1>1. Gpu!SpecOf(a) # 0 /\ Gpu!match_device(a) = found /\ found # None
  BY DEF Gpu!match_device
<1>2. Gpu!IsSpec(spec)
  BY <1>1, SpecFound
<1>3. /\ Gpu!IsBlock(spec.edits) /\ Gpu!IsList(list)
      /\ \A d \in Gpu!ToSet(list) : Gpu!IsBlock(d.edits)
  BY <1>2 DEF Gpu!IsSpec
<1>4. found \in {d.name : d \in Gpu!ToSet(list)}
  BY <1>1, <1>3, Spelled DEF Gpu!device_index
<1> HIDE DEF found
<1>5. /\ Len(list) \in Nat /\ DOMAIN list = 1 .. Len(list)
      /\ \A i \in 1 .. Len(list) : list[i] \in Gpu!ToSet(list)
      /\ \A d \in Gpu!ToSet(list) : \E i \in 1 .. Len(list) : list[i] = d
  BY <1>3, ListIs
<1>6. I # {} /\ I \in SUBSET (0 .. Len(list))
  <2>1. PICK d \in Gpu!ToSet(list) : d.name = found
    BY <1>4
  <2>2. PICK i \in 1 .. Len(list) : list[i] = d
    BY <1>5
  <2>3. i \in I
    BY <2>1, <2>2
  <2>4. I \in SUBSET (1 .. Len(list)) /\ 1 .. Len(list) \in SUBSET (0 .. Len(list))
    BY <1>5
  <2> QED
    BY <2>3, <2>4
<1>7. Gpu!Named(spec, found) = Gpu!Max(I)
  BY <1>6 DEF Gpu!Named, Gpu!SelectLastInSubSeq
<1>8. Gpu!Max(I) \in I
  BY <1>5, <1>6, LargestOf
<1>9. Gpu!IsBlock(list[Gpu!Named(spec, found)].edits)
  BY <1>3, <1>5, <1>7, <1>8
<1>10. Gpu!BlocksOf(a) = <<spec.edits, list[Gpu!Named(spec, found)].edits>>
  BY <1>1 DEF Gpu!BlocksOf
<1> QED
  BY <1>1, <1>3, <1>9, <1>10

\* The blocks depend on the specs and the assignment only.
LEMMA SameBlocks ==
  ASSUME specs' = specs, ask' = ask
  PROVE  /\ Gpu!Blocks' = Gpu!Blocks
         /\ BlocksMet(next - 1)' = BlocksMet(next' - 1)
<1>1. \A a : Gpu!SpecOf(a)' = Gpu!SpecOf(a)
  BY DEF Gpu!SpecOf, Gpu!OfKind, Gpu!SelectInSeq
<1>2. \A a : Gpu!match_device(a)' = Gpu!match_device(a)
  BY <1>1 DEF Gpu!match_device
<1>3. \A a : Gpu!BlocksOf(a)' = Gpu!BlocksOf(a)
  BY <1>1, <1>2 DEF Gpu!BlocksOf
<1>4. Gpu!Blocks' = Gpu!Blocks
  BY <1>1, <1>2, <1>3 DEF Gpu!Blocks
<1>5. BlocksMet(next - 1)' = BlocksMet(next' - 1)
  BY <1>1, <1>2, <1>3 DEF BlocksMet
<1> QED
  BY <1>4, <1>5

(***************************************************************************)
(* Before the first device nothing is delivered, and nothing is due.       *)
(***************************************************************************)
LEMMA NothingYet == Delivered(BlocksMet(0), Gpu!NoEdits)
<1>1. 1 .. 0 = {}
  OBVIOUS
<1>2. Gpu!FlattenSeq(<<>>) = <<>>
  BY DEF Gpu!FlattenSeq
<1>3. BlocksMet(0) = <<>>
  <2>1. [i \in 1 .. 0 |-> Gpu!BlocksOf(ask[i])] = <<>>
    BY <1>1
  <2> QED
    BY <1>2, <2>1 DEF BlocksMet
<1>4. Entries(<<>>) = <<>> /\ Folders(<<>>) = <<>>
  <2>1. [i \in DOMAIN <<>> |-> <<>>[i].env] = <<>> /\ [i \in DOMAIN <<>> |-> <<>>[i].folders] = <<>>
    OBVIOUS
  <2> QED
    BY <1>2, <2>1 DEF Entries, Folders
<1>5. Lists(Gpu!NoEdits)
  BY NoList DEF Lists, PathIsList, Gpu!NoEdits
<1>6. Latest(Gpu!NoEdits.env, <<>>, Len(<<>>))
  BY DEF Latest
<1> QED
  BY <1>3, <1>4, <1>5, <1>6, NoList DEF Delivered, Gpu!NoEdits

(***************************************************************************)
(* The two blocks of one more device.                                      *)
(***************************************************************************)
LEMMA MoreMet ==
  ASSUME NEW k \in Nat, Gpu!IsList(BlocksMet(k)), NEW a, NEW b,
         Gpu!BlocksOf(ask[k + 1]) = <<a, b>>
  PROVE  BlocksMet(k + 1) = Append(Append(BlocksMet(k), a), b)
<1> DEFINE two(i) == Gpu!BlocksOf(ask[i])
           s == [i \in 1 .. k |-> two(i)]
           t == [i \in 1 .. k + 1 |-> two(i)]
           met == BlocksMet(k)
<1>1. met = Gpu!FlattenSeq(s) /\ BlocksMet(k + 1) = Gpu!FlattenSeq(t)
  BY DEF BlocksMet
<1>2. two(k + 1) = <<a, b>>
  OBVIOUS
<1> HIDE DEF two, met
<1>3. k + 1 \in 1 .. k + 1 /\ \A i \in 1 .. k : i \in 1 .. k + 1
  OBVIOUS
<1>4. /\ s = [i \in 1 .. k |-> s[i]] /\ t = [i \in 1 .. k + 1 |-> t[i]]
      /\ \A i \in 1 .. k : t[i] = s[i]
      /\ t[k + 1] = <<a, b>>
  BY <1>2, <1>3
<1> HIDE DEF s, t
<1>5. Gpu!IsList(s) /\ Len(s) = k
  BY <1>4, ListOf
<1>6. t = Append(s, t[Len(s) + 1])
  <2>1. t = [i \in 1 .. Len(s) + 1 |-> t[i]] /\ \A i \in 1 .. Len(s) : t[i] = s[i]
    BY <1>4, <1>5
  <2> QED
    BY <1>5, <2>1, OneMore
<1>7. t = Append(s, <<a, b>>)
  BY <1>4, <1>5, <1>6
<1>8. Gpu!IsList(<<a, b>>)
  <2>1. <<a, b>> \in Seq({a, b})
    OBVIOUS
  <2> QED
    BY <2>1, IsAList
<1>9. Gpu!FlattenSeq(t) = Gpu!FlattenSeq(s) \o <<a, b>>
  BY <1>5, <1>7, <1>8, FlattenMore
<1>10. met \o <<a, b>> = Append(Append(met, a), b)
  <2>1. met \in Seq(Gpu!ToSet(met) \cup {a, b})
    BY DEF Gpu!IsList, met
  <2> QED
    BY <2>1
<1> QED
  BY <1>1, <1>9, <1>10 DEF met

\* The loop of resolve_edits, for one identifier.
LEMMA EditsResolved ==
  ASSUME GpuInv, Gpu!resolve_edits
  PROVE  Translating' /\ Gpu!TranslationIsFaithful'
<1> DEFINE name == Gpu!match_device(ask[next])
           two == Gpu!BlocksOf(ask[next])
<1>1. /\ step = "edits" /\ next <= Len(ask) /\ specs' = specs /\ ask' = ask
      /\ \/ step' = "failed"
         \/ /\ step' = "edits" /\ next' = next + 1 /\ name # None
            /\ out' = Gpu!translate_edits(Gpu!translate_edits(out, name, two[1]), name, two[2])
  BY DEF Gpu!resolve_edits, Gpu!inputs
<1>2. Gpu!TranslationIsFaithful'
  BY <1>1 DEF Gpu!TranslationIsFaithful
<1>3. CASE step' = "failed"
  BY <1>2, <1>3 DEF Translating
<1>4. CASE step' # "failed"
  <2>1. /\ step' = "edits" /\ next' = next + 1 /\ name # None
        /\ out' = Gpu!translate_edits(Gpu!translate_edits(out, name, two[1]), name, two[2])
    BY <1>1, <1>4
  <2>2. /\ next \in 1 .. Len(ask) + 1 /\ Delivered(BlocksMet(next - 1), out)
        /\ Listed(specs) /\ Len(ask) \in Nat
    BY <1>1, ListIs DEF GpuInv, Translating
  <2>3. two = <<two[1], two[2]>> /\ Gpu!IsBlock(two[1]) /\ Gpu!IsBlock(two[2])
    BY <2>1, <2>2, BlocksFound
  <2>4. next - 1 \in Nat /\ (next - 1) + 1 = next /\ next' - 1 = next
        /\ next' \in 1 .. Len(ask) + 1
    BY <1>1, <2>1, <2>2
  <2> DEFINE a == two[1]
             b == two[2]
             met == BlocksMet(next - 1)
  <2>5. two = <<a, b>> /\ Gpu!IsBlock(a) /\ Gpu!IsBlock(b) /\ Delivered(met, out)
    BY <2>2, <2>3
  <2>6. out' = Gpu!translate_edits(Gpu!translate_edits(out, name, a), name, b)
    BY <2>1
  <2> DEFINE k == next - 1
  <2>7. k \in Nat /\ ask[k + 1] = ask[next] /\ met = BlocksMet(k) /\ k + 1 = next
    BY <2>4
  <2>8. Gpu!BlocksOf(ask[k + 1]) = <<a, b>>
    BY <2>5, <2>7
  <2>9. Gpu!IsList(met)
    BY <2>5 DEF Delivered
  <2> HIDE DEF a, b, k, met, name, two
  <2>10. BlocksMet(k + 1) = Append(Append(BlocksMet(k), a), b)
    BY <2>7, <2>8, <2>9, MoreMet
  <2> DEFINE half == Gpu!translate_edits(out, name, a)
  <2>11. Delivered(Append(met, a), half)
    BY <2>5, OneBlock
  <2> HIDE DEF half
  <2>12. Delivered(Append(Append(met, a), b), Gpu!translate_edits(half, name, b))
    BY <2>5, <2>11, OneBlock
  <2>13. Delivered(BlocksMet(next), out')
    BY <2>6, <2>7, <2>10, <2>12 DEF half
  <2>14. BlocksMet(next - 1)' = BlocksMet(next)
    BY <1>1, <2>4, SameBlocks
  <2>15. Translating'
    BY <2>1, <2>4, <2>13, <2>14, <1>1 DEF Translating
  <2> QED
    BY <1>2, <2>15
<1> QED
  BY <1>3, <1>4

(***************************************************************************)
(* The folders go before the LD_LIBRARY_PATH there is; nothing else        *)
(* changes.                                                                *)
(***************************************************************************)
LEMMA Merged ==
  ASSUME NEW acc, Lists(acc)
  PROVE  LET new == Gpu!merge_ld_library_path(acc)
         IN  /\ new.nodes = acc.nodes /\ new.mounts = acc.mounts
             /\ new.gids = acc.gids /\ new.notes = acc.notes
             /\ \A k \in DOMAIN acc.env : k # LdPath => new.env[k] = acc.env[k]
             /\ acc.folders # <<>> =>
                  /\ Gpu!ToSet(acc.folders) \subseteq Gpu!ToSet(new.env[LdPath])
                  /\ Gpu!IsList(new.env[LdPath]) /\ NoTwice(new.env[LdPath])
                  /\ PartFirst(Gpu!ToSet(acc.folders), new.env[LdPath])
<1> DEFINE new == Gpu!merge_ld_library_path(acc)
<1>1. CASE acc.folders = <<>>
  BY <1>1 DEF Gpu!merge_ld_library_path
<1>2. CASE acc.folders # <<>>
  <2> DEFINE old == IF LdPath \in DOMAIN acc.env THEN acc.env[LdPath] ELSE <<>>
             path == Gpu!Once(acc.folders \o old)
             entry == [key |-> LdPath, value |-> path]
  <2>1. new = [acc EXCEPT !.env = Gpu!Put(acc.env, entry)]
    BY <1>2 DEF Gpu!merge_ld_library_path
  <2>2. Gpu!IsList(old) /\ Gpu!IsList(acc.folders)
    BY NoList DEF Lists, PathIsList
  <2> HIDE DEF old
  <2>3. /\ Gpu!IsList(path) /\ NoTwice(path) /\ PartFirst(Gpu!ToSet(acc.folders), path)
        /\ Gpu!ToSet(path) = Gpu!ToSet(acc.folders) \cup Gpu!ToSet(old)
    BY <2>2, OnceKeeps
  <2> HIDE DEF path
  <2> DEFINE env == Gpu!Put(acc.env, entry)
  <2>4. env[LdPath] = path /\ \A k \in DOMAIN acc.env : k # LdPath => env[k] = acc.env[k]
    <3>1. entry.key = LdPath /\ entry.value = path
      OBVIOUS
    <3> HIDE DEF entry
    <3> QED
      BY <3>1, PutIs
  <2> HIDE DEF env, new
  <2>5. /\ new.nodes = acc.nodes /\ new.mounts = acc.mounts
        /\ new.gids = acc.gids /\ new.notes = acc.notes /\ new.env = env
    <3>1. DOMAIN acc = {"nodes", "mounts", "env", "gids", "folders", "notes"}
      BY DEF Lists
    <3> QED
      BY <2>1, <3>1 DEF env
  <2> QED
    BY <2>3, <2>4, <2>5 DEF new
<1> QED
  BY <1>1, <1>2

(***************************************************************************)
(* What the translation has delivered when it has met all blocks is what   *)
(* the property asks for.                                                  *)
(***************************************************************************)
LEMMA AllDelivered ==
  ASSUME Delivered(Gpu!Blocks, out), out' = Gpu!merge_ld_library_path(out),
         Gpu!Blocks' = Gpu!Blocks
  PROVE  /\ Gpu!NothingLeftOut' /\ Gpu!LinksFollowMounts'
         /\ Gpu!LastEntryWins' /\ Gpu!FoldersFirst'
<1> DEFINE blocks == Gpu!Blocks
           entries == Entries(blocks)
           folders == Folders(blocks)
<1>1. /\ Gpu!IsList(blocks) /\ Lists(out) /\ out.folders = folders
      /\ \A b \in Gpu!ToSet(blocks) : Effects(b, out) /\ Linked(b, out)
      /\ Gpu!IsList(entries) /\ Latest(out.env, entries, Len(entries))
  BY DEF Delivered
<1>2. /\ out'.nodes = out.nodes /\ out'.mounts = out.mounts
      /\ out'.gids = out.gids /\ out'.notes = out.notes
      /\ \A k \in DOMAIN out.env : k # LdPath => out'.env[k] = out.env[k]
      /\ folders # <<>> =>
           /\ Gpu!ToSet(folders) \subseteq Gpu!ToSet(out'.env[LdPath])
           /\ Gpu!IsList(out'.env[LdPath]) /\ NoTwice(out'.env[LdPath])
           /\ PartFirst(Gpu!ToSet(folders), out'.env[LdPath])
  BY <1>1, Merged
<1>3. Gpu!NothingLeftOut'
  BY <1>1, <1>2 DEF Gpu!NothingLeftOut, Effects
<1>4. Gpu!LinksFollowMounts'
  <2> SUFFICES ASSUME NEW b \in Gpu!ToSet(blocks), NEW l \in Gpu!ToSet(b.links),
                      LinkSettled(l, b.mounts, out.mounts)
               PROVE  \E k \in Gpu!ToSet(out.mounts) :
                        k.destination = l.link /\ k.source = HostOf(l, out.mounts)
    BY <1>2 DEF Gpu!LinksFollowMounts, Gpu!Settled, LinkSettled, SettledIn, HostOf
  <2> QED
    BY <1>1 DEF Linked
<1>5. Gpu!LastEntryWins'
  <2> SUFFICES ASSUME NEW i \in DOMAIN entries, entries[i].key # LdPath,
                      \A j \in DOMAIN entries : j > i => entries[j].key # entries[i].key
               PROVE  out'.env[entries[i].key] = entries[i].value
    BY DEF Gpu!LastEntryWins, Gpu!All, Entries
  <2>1. DOMAIN entries = 1 .. Len(entries)
    BY <1>1, ListIs
  <2> HIDE DEF entries
  <2>2. entries[i].key \in DOMAIN out.env /\ out.env[entries[i].key] = entries[i].value
    BY <1>1, <2>1 DEF Latest
  <2> QED
    BY <1>2, <2>2
<1>6. Gpu!FoldersFirst'
  <2> DEFINE path == out'.env[LdPath]
  <2> SUFFICES ASSUME folders # <<>>
               PROVE  /\ Gpu!ToSet(folders) \subseteq Gpu!ToSet(path) /\ Gpu!IsInjective(path)
                      /\ \A i, j \in DOMAIN path :
                           path[i] \in Gpu!ToSet(folders) /\ path[j] \notin Gpu!ToSet(folders) => i < j
    BY DEF Gpu!FoldersFirst, Gpu!All, Folders
  <2> HIDE DEF folders
  <2>1. /\ Gpu!ToSet(folders) \subseteq Gpu!ToSet(path) /\ Gpu!IsList(path)
        /\ NoTwice(path) /\ PartFirst(Gpu!ToSet(folders), path)
    BY <1>2
  <2> HIDE DEF path
  <2>2. DOMAIN path = 1 .. Len(path)
    BY <2>1, ListIs
  <2> QED
    BY <2>1, <2>2 DEF NoTwice, PartFirst, Gpu!IsInjective
<1> QED
  BY <1>3, <1>4, <1>5, <1>6

\* The end of resolve_edits, and the retry with its result.
LEMMA BodyTranslated ==
  ASSUME GpuInv, Gpu!translated_body
  PROVE  Translating' /\ Gpu!TranslationIsFaithful'
<1>1. /\ step = "edits" /\ next > Len(ask) /\ specs' = specs /\ ask' = ask
      /\ out' = Gpu!merge_ld_library_path(out) /\ step' \in {"translated", "refused"}
  BY DEF Gpu!translated_body, Gpu!inputs
<1>2. /\ next \in 1 .. Len(ask) + 1 /\ Delivered(BlocksMet(next - 1), out)
      /\ Len(ask) \in Nat /\ DOMAIN ask = 1 .. Len(ask)
  BY <1>1, ListIs DEF GpuInv, Translating
<1>3. next - 1 = Len(ask)
  BY <1>1, <1>2
<1>4. BlocksMet(next - 1) = Gpu!Blocks
  BY <1>2, <1>3 DEF BlocksMet, Gpu!Blocks
<1>5. /\ Gpu!NothingLeftOut' /\ Gpu!LinksFollowMounts'
      /\ Gpu!LastEntryWins' /\ Gpu!FoldersFirst'
  BY <1>1, <1>2, <1>4, SameBlocks, AllDelivered
<1>6. Gpu!TranslationIsFaithful'
  BY <1>5 DEF Gpu!TranslationIsFaithful
<1>7. Translating'
  BY <1>1 DEF Translating
<1> QED
  BY <1>6, <1>7

(***************************************************************************)
(* Before anything is read the wire is empty.                              *)
(***************************************************************************)
LEMMA GpuInit == Gpu!Parameters /\ Gpu!Init => GpuInv
<1> SUFFICES ASSUME Gpu!Parameters, Gpu!Init
             PROVE  GpuInv
  OBVIOUS
<1>1. Listed(local) /\ Listed(remote)
  BY DEF Gpu!Parameters, Gpu!Init, Listed
<1>2. Listed(specs)
  BY NoList DEF Gpu!Init, Listed
<1>3. Gpu!IsList(ask)
  <2>1. PICK list \in Assignments : ask = [i \in DOMAIN list |-> Gpu!normalized(list[i])]
    BY DEF Gpu!Init
  <2>2. Len(list) \in Nat /\ DOMAIN list = 1 .. Len(list)
    BY ListIs DEF Gpu!Parameters
  <2>3. ask = [i \in 1 .. Len(list) |-> ask[i]]
    BY <2>1, <2>2
  <2> QED
    BY <2>2, <2>3, ListOf
<1>4. Translating
  BY DEF Gpu!Init, Translating
<1> QED
  BY <1>1, <1>2, <1>3, <1>4
     DEF Gpu!Init, GpuInv, Gpu!WireNamesAreDefined, Gpu!TranslationIsFaithful

(***************************************************************************)
(* A start that goes on has found every name in the spec of its kind,      *)
(* which is that of the default kind if the assignment names no other.     *)
(***************************************************************************)
LEMMA NamesResolved ==
  ASSUME GpuInv, Gpu!resolve_names
  PROVE  Gpu!WireNamesAreDefined'
<1> SUFFICES ASSUME step' = "create", specs' # <<>>
             PROVE  Gpu!WireNamesAreDefined'
  BY DEF Gpu!WireNamesAreDefined
<1>1. ask' = ask /\ specs' = specs /\ specs # <<>>
  BY DEF Gpu!resolve_names, Gpu!inputs
<1>2. /\ \A i \in DOMAIN ask : Gpu!match_device(ask[i]) # None
      /\ wire' = [i \in DOMAIN ask |->
                     [kind |-> None, name |-> Gpu!match_device(ask[i])]]
  BY <1>1 DEF Gpu!resolve_names
<1> DEFINE Right(i) ==
             /\ wire'[i].kind = None
             /\ Gpu!device_name(wire'[i].name) = Gpu!device_name(ask[i].name)
             /\ Gpu!SpecOf(ask[i]) # 0 /\ Gpu!Defined(wire'[i].name, Gpu!SpecOf(ask[i]))
             /\ ask[i].kind \in {None, Kind} =>
                  /\ Gpu!OfKind(specs, Kind) # 0
                  /\ Gpu!Defined(wire'[i].name, Gpu!OfKind(specs, Kind))
<1>3. ASSUME NEW i \in DOMAIN ask
      PROVE  Right(i)
  <2> DEFINE a == ask[i]
             spec == specs[Gpu!SpecOf(a)]
             name == wire'[i].name
  <2>1. wire'[i].kind = None /\ name = Gpu!match_device(a) /\ Gpu!match_device(a) # None
    BY <1>2, <1>3
  <2>2. /\ Gpu!SpecOf(a) # 0 /\ name = Gpu!find_device(spec, a.name)
        /\ Gpu!find_device(spec, a.name) # None
    BY <2>1 DEF Gpu!match_device
  <2>3. Gpu!IsList(spec.devices)
    BY <2>2, SpecFound DEF GpuInv, Gpu!IsSpec
  <2>4. /\ name \in {d.name : d \in Gpu!device_index(spec)}
        /\ Gpu!device_name(name) = Gpu!device_name(a.name)
    BY <2>2, <2>3, Spelled
  <2>5. Gpu!Defined(name, Gpu!SpecOf(a))
    BY <2>4 DEF Gpu!Defined
  <2>6. a.kind \in {None, Kind} => Gpu!OfKind(specs, Kind) = Gpu!SpecOf(a)
    BY DEF Gpu!SpecOf, Gpu!split_identifier
  <2> QED
    BY <2>1, <2>2, <2>4, <2>5, <2>6
<1> QED
  <2>1. \A j : Gpu!SpecOf(j)' = Gpu!SpecOf(j)
    BY <1>1 DEF Gpu!SpecOf, Gpu!OfKind, Gpu!SelectInSeq
  <2>2. Gpu!OfKind(specs, Kind)' = Gpu!OfKind(specs, Kind)
    BY <1>1 DEF Gpu!OfKind, Gpu!SelectInSeq
  <2>3. \A name, j : Gpu!Defined(name, j)' = Gpu!Defined(name, j)
    BY <1>1 DEF Gpu!Defined
  <2> QED
    BY <1>1, <1>3, <2>1, <2>2, <2>3 DEF Gpu!WireNamesAreDefined

(***************************************************************************)
(* Every step of a start, including the ladder after a refusal.            *)
(***************************************************************************)
LEMMA GpuStep ==
  ASSUME GpuInv, [Gpu!Next]_(Gpu!vars)
  PROVE  GpuInv'
<1>1. CASE Gpu!probe_specs \/ Gpu!read_host_cdi_texts
  <2>1. /\ step \in {"probe", "helper"} /\ step' \in {stage, "helper"} /\ stage' = stage
        /\ stage \in {"names", "edits"} /\ specs' \in {local, remote, specs}
        /\ local' = local /\ remote' = remote /\ ask' = ask /\ next' = next /\ out' = out
    BY <1>1 DEF GpuInv, Gpu!probe_specs, Gpu!read_host_cdi_texts, Gpu!inputs
  <2>2. step' \in {"names", "edits", "helper"}
    BY <2>1
  <2>3. next = 1 /\ out = Gpu!NoEdits
    BY <2>1 DEF GpuInv, Translating
  <2>4. Translating'
    <3>1. CASE step' # "edits"
      BY <2>1, <2>3, <3>1 DEF Translating
    <3>2. CASE step' = "edits"
      <4>1. next \in 1 .. Len(ask) + 1
        BY <2>3, ListIs DEF GpuInv
      <4>2. BlocksMet(next - 1)' = BlocksMet(0)'
        BY <2>1, <2>3
      <4>3. Delivered(BlocksMet(0), Gpu!NoEdits)'
        BY NothingYet, PTL
      <4> QED
        BY <2>1, <2>3, <3>2, <4>1, <4>2, <4>3 DEF Translating
    <3> QED
      BY <3>1, <3>2
  <2>5. Listed(local)' /\ Listed(remote)' /\ Listed(specs)' /\ Gpu!IsList(ask)'
    BY <2>1 DEF GpuInv, Listed
  <2>6. Gpu!WireNamesAreDefined' /\ Gpu!TranslationIsFaithful'
    BY <2>2 DEF Gpu!WireNamesAreDefined, Gpu!TranslationIsFaithful
  <2> QED
    BY <2>1, <2>4, <2>5, <2>6 DEF GpuInv
<1>2. CASE Gpu!resolve_names \/ Gpu!create_and_start
  <2>1. /\ step \in {"names", "create"} /\ step' \in {"create", "failed", "named", "probe"}
        /\ stage' \in {"names", "edits"} /\ specs' = specs
        /\ local' = local /\ remote' = remote /\ ask' = ask /\ next' = next /\ out' = out
    BY <1>2 DEF GpuInv, Gpu!resolve_names, Gpu!create_and_start, Gpu!inputs
  <2>2. Translating'
    BY <2>1 DEF GpuInv, Translating
  <2>3. Gpu!WireNamesAreDefined'
    <3>1. CASE Gpu!resolve_names
      BY <3>1, NamesResolved
    <3>2. CASE Gpu!create_and_start
      <4>1. step' # "create"
        BY <3>2 DEF Gpu!create_and_start
      <4> QED
        BY <4>1 DEF Gpu!WireNamesAreDefined
    <3> QED
      BY <1>2, <3>1, <3>2
  <2>4. Gpu!TranslationIsFaithful'
    BY <2>1 DEF Gpu!TranslationIsFaithful
  <2>5. Listed(local)' /\ Listed(remote)' /\ Listed(specs)' /\ Gpu!IsList(ask)'
    BY <2>1 DEF GpuInv, Listed
  <2> QED
    BY <2>1, <2>2, <2>3, <2>4, <2>5 DEF GpuInv
<1>3. CASE Gpu!resolve_edits \/ Gpu!translated_body
  <2>1. /\ step' # "create" /\ stage' = stage /\ specs' = specs
        /\ local' = local /\ remote' = remote /\ ask' = ask
    BY <1>3 DEF Gpu!resolve_edits, Gpu!translated_body, Gpu!inputs
  <2>2. Translating' /\ Gpu!TranslationIsFaithful'
    BY <1>3, EditsResolved, BodyTranslated
  <2>3. Gpu!WireNamesAreDefined'
    BY <2>1 DEF Gpu!WireNamesAreDefined
  <2>4. Listed(local)' /\ Listed(remote)' /\ Listed(specs)' /\ Gpu!IsList(ask)'
    BY <2>1 DEF GpuInv, Listed
  <2> QED
    BY <2>1, <2>2, <2>3, <2>4 DEF GpuInv
<1>4. CASE UNCHANGED Gpu!vars
  <2>1. /\ step' = step /\ stage' = stage /\ specs' = specs /\ wire' = wire
        /\ local' = local /\ remote' = remote /\ ask' = ask /\ next' = next /\ out' = out
    BY <1>4 DEF Gpu!vars
  <2>2. BlocksMet(next - 1)' = BlocksMet(next - 1) /\ Gpu!Blocks' = Gpu!Blocks
    BY <2>1, SameBlocks
  <2>3. Translating'
    BY <2>1, <2>2 DEF GpuInv, Translating
  <2>4. Gpu!WireNamesAreDefined'
    BY <2>1 DEF GpuInv, Gpu!WireNamesAreDefined, Gpu!Defined, Gpu!SpecOf, Gpu!OfKind,
                Gpu!SelectInSeq
  <2>5. Gpu!TranslationIsFaithful'
    BY <2>1, <2>2 DEF GpuInv, Gpu!TranslationIsFaithful, Gpu!NothingLeftOut,
                      Gpu!LinksFollowMounts, Gpu!Settled, Gpu!LastEntryWins,
                      Gpu!FoldersFirst, Gpu!All
  <2>6. Listed(local)' /\ Listed(remote)' /\ Listed(specs)' /\ Gpu!IsList(ask)'
    BY <2>1 DEF GpuInv, Listed
  <2> QED
    BY <2>1, <2>3, <2>4, <2>5, <2>6 DEF GpuInv
<1> QED
  BY <1>1, <1>2, <1>3, <1>4 DEF Gpu!Next

(***************************************************************************)
(* The names put on the wire are always spelt as the spec of their kind    *)
(* spells them, and name the devices of the assignment, whatever specs are *)
(* found where and however both spell their names; a name assigned without *)
(* a kind, or under the default one, is defined under the kind it goes out *)
(* with (resolve_names).                                                   *)
(***************************************************************************)
THEOREM WireNamesAreAlwaysDefined == Gpu!Parameters => (Gpu!Spec => []Gpu!WireNamesAreDefined)
<1> SUFFICES ASSUME Gpu!Parameters
             PROVE  Gpu!Spec => []Gpu!WireNamesAreDefined
  OBVIOUS
<1>1. GpuInv => Gpu!WireNamesAreDefined
  BY DEF GpuInv
<1> QED
  BY <1>1, GpuInit, GpuStep, PTL DEF Gpu!Spec

(***************************************************************************)
(* Whatever the specs hold, a container started from translated edits has  *)
(* all of what they ask for, a link points to where its target comes from, *)
(* an absolute one and a relative one, unless a later block says where     *)
(* that is, the last entry of a variable wins, and the folders of the      *)
(* specs are first in LD_LIBRARY_PATH, each of them once (resolve_edits).  *)
(***************************************************************************)
THEOREM TranslationIsAlwaysFaithful ==
  Gpu!Parameters => (Gpu!Spec => []Gpu!TranslationIsFaithful)
<1> SUFFICES ASSUME Gpu!Parameters
             PROVE  Gpu!Spec => []Gpu!TranslationIsFaithful
  OBVIOUS
<1>1. GpuInv => Gpu!TranslationIsFaithful
  BY DEF GpuInv
<1> QED
  BY <1>1, GpuInit, GpuStep, PTL DEF Gpu!Spec
=============================================================================
