------------------------------ MODULE ArmReplay ------------------------------
(***************************************************************************)
(* Neighbor resolution on the Arm path: route_arm_frame of                 *)
(* eswitch_manager.c with the neighbor table, the queue of frames that     *)
(* wait for a next hop (router/router_pending.c), the replay after an ARP  *)
(* frame, the maintenance scan, and what router commands and membership    *)
(* changes do to both tables.                                              *)
(*                                                                         *)
(* A frame is a flow; a configuration says which RIFs exist, the next hop  *)
(* of every flow and the configured gateways.  One thread runs everything, *)
(* so nothing interleaves with a replay: its loop is a sequence of steps   *)
(* that excludes all others.                                               *)
(***************************************************************************)
EXTENDS Neighbor

CONSTANTS
  Vs,            \* vSwitch ids
  Attachment,    \* the vSwitch or port of every RIF id
  Flow,          \* what route_arm_frame is called with
  Ingress,       \* the RIF a flow enters on
  Configs,       \* router configurations
  NoRoute,       \* router_ipv4_lookup found nothing
  PendingMax,    \* ROUTER_PENDING_MAX_PACKETS
  PerNeighbor,   \* ROUTER_PENDING_PER_NEIGHBOR
  PendingTimeout,\* ROUTER_PENDING_TIMEOUT_NS
  ArmFaults,     \* what may fail: "flush", "prepare", "save"
  Prompt         \* next hops that answer a probe within a second

ASSUME ArmAssumption ==
  /\ Attachment \in [Rif -> Vs \union Port] /\ Vs \intersect Port = {}
  /\ Ingress \in [Flow -> Rif]
  /\ \A c \in Configs :
       /\ c.live \subseteq Rif
       /\ c.route \in [Flow -> (c.live \X Ip) \union {NoRoute}]
       /\ c.hops \in Seq(c.live \X Ip)
  /\ PendingMax \in Nat \ {0} /\ PerNeighbor \in Nat \ {0} /\ PendingTimeout \in Nat
  /\ ArmFaults \subseteq {"flush", "prepare", "save"}

Slot == 1..PendingMax
PendingPacket == [f : Flow, key : NextHop, age : 0..(PendingTimeout + 1)]

ASSUME MarkersAssumption ==
  Free \notin NbrEntry /\ Free \notin PendingPacket /\ NoRoute \notin NextHop

VARIABLES
  nbr,      \* manager->neighbors
  pend,     \* manager->pending
  cfg,      \* manager->router
  lastId,   \* next_interface_id - 1
  member,   \* the ports of every vSwitch
  mode,     \* "loop", "replay" within a handler, "down" after the loop
  due,      \* a second has passed since the last scan
  asked,    \* prompt next hops with an unanswered probe (not in the code)
  skipped   \* gateways committed but not probed until the scan (not in the code)

armVars == <<nbr, pend, cfg, lastId, member, mode, due, asked, skipped>>

-----------------------------------------------------------------------------
(***************************************************************************)
(* router_pending.c                                                        *)
(***************************************************************************)
Waiting(q, k) == {s \in Slot : q[s] # Free /\ q[s].key = k}

FirstSlot(S) == CHOOSE s \in S : \A u \in S : s <= u

\* Mutant: the limit is compared with the whole queue.
EnqueueShared(q, k, f) ==
  LET free == {s \in Slot : q[s] = Free}
  IN IF free = {} THEN q
     ELSE [q EXCEPT ![FirstSlot(free)] = [f |-> f, key |-> k, age |-> 0]]

router_pending_enqueue(q, k, f) ==
  LET free == {s \in Slot : q[s] = Free}
  IN IF free = {} \/ Cardinality(Waiting(q, k)) >= PerNeighbor THEN q
     ELSE [q EXCEPT ![FirstSlot(free)] = [f |-> f, key |-> k, age |-> 0]]

\* Mutant: the scan does not look at the queue.
ExpireNothing(q) == q

router_pending_expire(q) ==
  [s \in Slot |-> IF q[s] # Free /\ q[s].age > PendingTimeout THEN Free ELSE q[s]]

Emptied == [s \in Slot |-> Free]

-----------------------------------------------------------------------------
(***************************************************************************)
(* route_arm_frame for a flow that is to be forwarded: sent if the next    *)
(* hop is known and still on its RIF (validate_route_neighbor), queued and *)
(* probed otherwise.                                                       *)
(***************************************************************************)
validate_route_neighbor(k) ==
  IF Attachment[k[1]] \in Vs THEN nbr[k].port \in member[Attachment[k[1]]]
  ELSE nbr[k].port = Attachment[k[1]]

Sendable(k) == router_neighbor_lookup(nbr, k) /\ validate_route_neighbor(k)

AskIf(a, p, k) == a \union (IF p THEN {k} \intersect Prompt ELSE {})

\* What the call leaves of the tables, given the queue it starts with.
route_arm_frame(q, f) ==
  LET k == cfg.route[f]
  IN IF k = NoRoute \/ Ingress[f] \notin cfg.live \/ Sendable(k)
     THEN pend' = q /\ UNCHANGED <<nbr, asked>>
     ELSE /\ pend' = router_pending_enqueue(q, k, f)
          /\ nbr' = Probed(nbr, k)
          /\ asked' = AskIf(asked, ProbeDue(nbr, k), k)

\* process_packet drops frames of a port that is no longer a member.
Arrives(r, p) ==
  /\ r \in cfg.live
  /\ IF Attachment[r] \in Vs THEN p \in member[Attachment[r]] ELSE p = Attachment[r]

Frame(f) ==
  /\ mode = "loop"
  /\ \E p \in Port : Arrives(Ingress[f], p)
  /\ route_arm_frame(pend, f)
  /\ UNCHANGED <<cfg, lastId, member, mode, due, skipped>>

(***************************************************************************)
(* process_packet on an ARP frame of the station k: learn, revoke CT if    *)
(* the mapping changed (an error ends the loop), replay.                   *)
(***************************************************************************)
Arp(k, p, m) ==
  /\ mode = "loop"
  /\ Arrives(k[1], p)
  /\ nbr' = learn_on_interface(nbr, k, p, m)
  /\ asked' = asked \ {k}
  /\ \/ mode' = "replay"
     \/ "flush" \in ArmFaults /\ LearnChanges(nbr, k, p, m) /\ mode' = "down"
  /\ UNCHANGED <<pend, cfg, lastId, member, due, skipped>>

Ready == {s \in Slot : pend[s] # Free /\ router_neighbor_lookup(nbr, pend[s].key)}

\* Mutant: the frame is routed without being taken out of the queue.
ReplayOneKeeping ==
  /\ mode = "replay" /\ Ready # {}
  /\ route_arm_frame(pend, pend[FirstSlot(Ready)].f)
  /\ UNCHANGED <<cfg, lastId, member, mode, due, skipped>>

\* One turn of the loop of replay_pending_ready.
ReplayOne ==
  /\ mode = "replay" /\ Ready # {}
  /\ LET s == FirstSlot(Ready)
     IN route_arm_frame([pend EXCEPT ![s] = Free], pend[s].f)
  /\ UNCHANGED <<cfg, lastId, member, mode, due, skipped>>

ReplayEnd ==
  /\ mode = "replay" /\ Ready = {}
  /\ mode' = "loop"
  /\ UNCHANGED <<nbr, pend, cfg, lastId, member, due, asked, skipped>>

-----------------------------------------------------------------------------
(***************************************************************************)
(* eswitch_manager_maintenance and the probes of configured gateways.      *)
(***************************************************************************)
ProbeHop(x, k) ==
  IF ~ router_neighbor_needs_refresh(x.t, k) THEN x
  ELSE [t |-> Probed(x.t, k), a |-> AskIf(x.a, ProbeDue(x.t, k), k)]

\* The loop over the gateways: what the first n of them have done.
probe_configured_next_hops(t, c) ==
  LET x[n \in 0..Len(c.hops)] ==
        IF n = 0 THEN [t |-> t, a |-> asked] ELSE ProbeHop(x[n-1], c.hops[n])
  IN x[Len(c.hops)]

Maintenance ==
  /\ mode = "loop" /\ due
  /\ due' = FALSE
  /\ pend' = router_pending_expire(pend)
  /\ LET x == probe_configured_next_hops(router_neighbor_age(nbr), cfg)
     IN nbr' = x.t /\ asked' = x.a
  /\ skipped' = {}
  /\ UNCHANGED <<cfg, lastId, member, mode>>

\* A second passes.  A prompt next hop answers before the next one does.
Tick ==
  /\ mode = "loop" /\ ~ due
  /\ \A k \in asked : ~ \E p \in Port : Arrives(k[1], p)
  /\ due' = TRUE
  /\ nbr' = NbrTick(nbr)
  /\ pend' = [s \in Slot |-> IF pend[s] = Free THEN Free
                             ELSE [pend[s] EXCEPT !.age = IF @ > PendingTimeout THEN @ ELSE @ + 1]]
  /\ UNCHANGED <<cfg, lastId, member, mode, asked, skipped>>

(***************************************************************************)
(* router_control_command: the queue is emptied before anything can fail;  *)
(* a committed configuration gives new RIFs new ids, and probes its        *)
(* gateways unless the preparation failed.                                 *)
(***************************************************************************)
\* Mutant: an attachment may get the id of one that was removed.
IdsReused(c) == TRUE

IdsNew(c) == \A r \in c.live \ cfg.live : r > lastId

RifsExist(c) == \A r \in c.live : Attachment[r] \in Port =>
                  \A vs \in Vs : Attachment[r] \notin member[vs]

Gateways(c) == {c.hops[i] : i \in DOMAIN c.hops}

HighestId(c) == IF c.live = {} THEN 0 ELSE CHOOSE r \in c.live : \A u \in c.live : u <= r

\* Mutant: the queue survives the transaction.
KeptAcross(q) == q

FlushedByCommand(q) == Emptied

RouterCommand(c) ==
  /\ mode = "loop"
  /\ IdsNew(c) /\ RifsExist(c)
  /\ pend' = FlushedByCommand(pend)
  /\ \/ /\ cfg' = c
        /\ lastId' = IF HighestId(c) > lastId THEN HighestId(c) ELSE lastId
        /\ \/ LET x == probe_configured_next_hops(nbr, c)
              IN nbr' = x.t /\ asked' = x.a /\ skipped' = {}
           \/ /\ "prepare" \in ArmFaults
              /\ skipped' = skipped \union Gateways(c)
              /\ UNCHANGED <<nbr, asked>>
     \/ "save" \in ArmFaults /\ UNCHANGED <<cfg, lastId, nbr, asked, skipped>>
  /\ UNCHANGED <<member, mode, due>>

(***************************************************************************)
(* Memberships.  A port that a RIF reserves is refused, and so is the      *)
(* deletion of a vSwitch with a RIF; a deleted vSwitch is one without      *)
(* ports.  Only a detach that fails to save leaves a trace: it attaches    *)
(* the port again, without its neighbors.                                  *)
(***************************************************************************)
AttachPort(vs, p) ==
  /\ mode = "loop"
  /\ \A r \in cfg.live : Attachment[r] # p
  /\ p \notin member[vs]
  /\ member' = [member EXCEPT ![vs] = @ \union {p}]
  /\ UNCHANGED <<nbr, pend, cfg, lastId, mode, due, asked, skipped>>

DetachPort(vs, p) ==
  /\ mode = "loop"
  /\ p \in member[vs]
  /\ nbr' = router_neighbor_invalidate_port(nbr, p)
  /\ \/ member' = [member EXCEPT ![vs] = @ \ {p}]
     \/ "save" \in ArmFaults /\ UNCHANGED member
  /\ UNCHANGED <<pend, cfg, lastId, mode, due, asked, skipped>>

DeleteVswitch(vs) ==
  /\ mode = "loop"
  /\ \A r \in cfg.live : Attachment[r] # vs
  /\ member' = [member EXCEPT ![vs] = {}]
  /\ UNCHANGED <<nbr, pend, cfg, lastId, mode, due, asked, skipped>>

\* Topology and configuration come back from the state files.
Restart ==
  /\ mode = "down"
  /\ mode' = "loop" /\ due' = FALSE
  /\ nbr' = NoNeighbors /\ pend' = Emptied /\ asked' = {} /\ skipped' = {}
  /\ UNCHANGED <<cfg, lastId, member>>

ArmInit ==
  /\ nbr = NoNeighbors /\ pend = Emptied /\ asked = {} /\ skipped = {}
  /\ cfg \in {c \in Configs : c.live = {}} /\ lastId = 0
  /\ member = [vs \in Vs |-> {}]
  /\ mode = "loop" /\ due = FALSE

ArmNext ==
  \/ \E f \in Flow : Frame(f)
  \/ \E k \in NextHop, p \in Port, m \in Mac : Arp(k, p, m)
  \/ ReplayOne
  \/ ReplayEnd
  \/ Maintenance
  \/ Tick
  \/ \E c \in Configs : RouterCommand(c)
  \/ \E vs \in Vs, p \in Port : AttachPort(vs, p)
  \/ \E vs \in Vs, p \in Port : DetachPort(vs, p)
  \/ \E vs \in Vs : DeleteVswitch(vs)
  \/ Restart

ArmSpec == ArmInit /\ [][ArmNext]_armVars

(***************************************************************************)
(* The thread goes on: a replay takes its next turn.  Seconds pass and the *)
(* scan runs however many frames arrive, since the loop polls one burst at *)
(* a time.  A prompt next hop answers: that is what makes it prompt.       *)
(***************************************************************************)
Answer(k) == k \in asked /\ \E p \in Port, m \in Mac : Arp(k, p, m)

FairArmSpec ==
  /\ ArmSpec
  /\ WF_armVars(ReplayOne) /\ WF_armVars(ReplayEnd)
  /\ SF_armVars(Maintenance) /\ SF_armVars(Tick)
  /\ \A k \in Prompt : SF_armVars(Answer(k))

-----------------------------------------------------------------------------
(***************************************************************************)
(* router_neighbor.c, router_pending.c: the values of both tables and the  *)
(* limits of the queue, README.md: "capped at 128 packets globally, 16     *)
(* packets per adjacency".                                                 *)
(***************************************************************************)
ArmTypeOK ==
  /\ nbr \in [NextHop -> NbrEntry \union {Free}]
  /\ Cardinality(NbrUsed(nbr)) <= NbrCapacity
  /\ pend \in [Slot -> PendingPacket \union {Free}]
  /\ \A k \in NextHop : Cardinality(Waiting(pend, k)) <= PerNeighbor
  /\ cfg \in Configs /\ lastId \in 0..HighestId([live |-> Rif])
  /\ member \in [Vs -> SUBSET Port]
  /\ mode \in {"loop", "replay", "down"} /\ due \in BOOLEAN
  /\ asked \subseteq NextHop /\ skipped \subseteq NextHop

(***************************************************************************)
(* router_control.c: "Pending frames were classified under the old         *)
(* route/NAT graph. Never replay them after a control-plane transaction    *)
(* changes that graph": a queued frame waits for the next hop the present  *)
(* configuration gives it.                                                 *)
(***************************************************************************)
PendingIsCurrent ==
  \A s \in Slot : pend[s] # Free =>
    /\ pend[s].key = cfg.route[pend[s].f]
    /\ Ingress[pend[s].f] \in cfg.live

(***************************************************************************)
(* validate_route_neighbor never fails: memberships that go take their     *)
(* neighbors with them, deleted vSwitches have no RIF, ids are not used    *)
(* twice.  The replay loop depends on it.                                  *)
(***************************************************************************)
NeighborOnItsRif ==
  \A k \in NextHop :
    k[1] \in cfg.live /\ router_neighbor_lookup(nbr, k) => validate_route_neighbor(k)

(***************************************************************************)
(* replay_pending_ready loops until no frame is ready, and routing a frame *)
(* may queue it again: the loop ends all the same, and, with               *)
(* router_pending_expire, no frame occupies its slot for ever.             *)
(***************************************************************************)
QueueDrains ==
  \A s \in Slot : []<>(mode = "down" \/ (mode = "loop" /\ pend[s] = Free))

(***************************************************************************)
(* probe_configured_next_hops, README.md: "refreshes them before their     *)
(* five-minute reachability lifetime expires": a reachable configured      *)
(* gateway that answers its probes never expires.  One that a failed       *)
(* preparation left unprobed has to wait for the next scan.                *)
(***************************************************************************)
HopStaysReachable ==
  [][\A i \in DOMAIN cfg.hops :
       LET k == cfg.hops[i]
       IN Tick /\ k \in Prompt \ skipped /\ router_neighbor_lookup(nbr, k)
            => router_neighbor_lookup(nbr, k)']_armVars
=============================================================================
