# A TLA+ development for the eSwitch manager daemon

This directory specifies, model-checks and partly proves the core logic of the
repository's main program, the daemon under `application/eswitch_management`.
The daemon runs on the Arm cores of a DPU. It programs the embedded switch
through DOCA Flow, handles in software what the hardware misses, and takes
commands from `eswitchctl` over a local socket. Source paths below are relative
to `application/eswitch_management/` unless they start elsewhere.

## 1. The system

One thread does everything: `main.c` loops over `eswitch_manager_poll_packets`,
`eswitch_manager_maintenance` (once a second) and one control client at a time.
There is no data race to model. What makes the program hard is elsewhere:

* **two worlds** - software state (sessions, neighbors, FDB, configuration) and
  the hardware state programmed from it, reached by calls that fail at any point
  and whose completions may be missing;
* **time** - leases, idle timers and retry delays that run while hardware
  forwards without telling software;
* **long legal histories** - some twenty configuration commands whose checks
  refer to each other's objects, in any order, over months;
* **restart** - the state file is a list of commands replayed through the same
  validator in another order.

| Component | State | Operations | Talks to | Hard part and what makes it correct |
|---|---|---|---|---|
| NAT/PAT table, `router/router_nat.c` | session slots, `next_port`, copy of the port forwards | outbound and inbound lookup, SNAT allocation, DNAT creation and rejection, ageing, flush, hardware flag | packet handlers, CT offload, router control | full range, wrap at port 65535, tuple clashes of SNAT and DNAT; lookups are unambiguous, ports exclusive, sessions match the configuration |
| CT offload, `pipeline/eswitch_pipeline.c` | CT connections, admission rules, shared adjacencies, `ct_active`, backoff | promote, flush (VR or all), expire | NAT table (owner of each connection) | failures half way; hardware and software own each other, counters are exact, every lease ends |
| Router configuration, `router/router.c` | VRs, links, RIFs, routes, NAT, port forwards, two filters, `next_interface_id` | the commands of `router_command` | router control, state file | cross-references over any command order |
| Router state file, `router/router_state.c` | one file | save by rename, load by replay | configuration | checks that are not symmetric in command order |
| Router control transaction, `router/router_control.c` | candidate configuration | flush, uplink, contexts, ACLs, hardware routes, save, publish, roll back | everything | a failure in the middle, errors of the rollback |
| Packet handlers, `eswitch_manager.c` | - | L2 switching, ARP, routing, NAT ingress, replay | all tables | the order of lookups and updates within one frame |
| Neighbor table, `router/router_neighbor.c` | MAC and port per next hop | learn, probe, age, invalidate port | handlers, CT revocation | three clocks; a stale next hop |
| Pending queue, `router/router_pending.c` | frames waiting for a neighbor | enqueue, take, expire | handlers | limits; replay under a new configuration |
| Forwarding decision, `router/router_forward.c` | - | longest-prefix match | handlers, hardware plan | reference definition |
| Hardware routes, `router/router_hw.c`, pipeline | programmed LPM records | plan, sync | configuration, neighbors | hardware is a subset of the software table |
| Filters, `router/router_egress.c`, `router/router_acl_plan.h`, pipeline | ACL generations, reply exceptions | first match, plan, swap | handlers | the hardware plan against first match |
| L2 and FDB, `l2/` | vSwitches, memberships, FDB entries with hit counters | learn, move, age, attach, detach | pipeline, topology file | partial programming and its rollback |
| Topology file, `eswitch_state.c` | one file | save, restore | manager | the second of two files |
| VLAN allow-lists, `eswitch_vlan.h` | - | overlap, admission | L2 | set reference |
| Control server, CLI, main loop | socket | one request at a time | manager | end of the loop on a dataplane error |

Not part of the daemon: `application/ethernet_switch` (the earlier learning
switch), the discovery and forwarding samples, the diagnostics, and
`cs-network-extension` (a translator from CloudStack calls to control commands).
`PROJECT.json` lists every component with its status, and the hazards at their
lines. Of the table above everything is modelled except the last row, whose
sequential loop is the interleaving of actions in every module, and parts of the
packet handlers, the pipeline and the topology file (section 6).

## 2. Modules

```
NatTable <-- NatCt <-- MCNatCt             sessions, and the CT offload on top
   ^           ^------ NatProofs
   ^-------- MCNatTable
RouterConfig <-- RouterReload <-- MCRouterConfig     validator, restart
                   ^------------- RouterConfigProofs
ConfigTx <..refines.. RouterTransaction <-- MCRouterTransaction   the transaction
                             ^------------- RouterTransactionProofs
Neighbor <-- ArmReplay <-- MCArmReplay     next hops and waiting frames
                 ^-------- ArmReplayProofs
RouterForward <-- MCRouterForward          lookup, hardware route plan
Fdb <-- MCFdb                              learned stations and their rules
RouterForward, Fdb <-- ForwardingProofs    the two tables that forward
Vlan <-- L2Switch <-- MCL2Switch           vSwitches, memberships, topology file
             ^------- L2SwitchProofs
AclPlan <-- EgressAcl, IngressDeny <-- MCFilters     filters
                           ^---------- FilterProofs
LoopLemmas                                 loops over arrays, for the proofs
```

The modules cut the daemon where its state separates. Where two parts share
state they are in one module (sessions and connections; neighbors and pending
frames; memberships, contexts and routes); where one part only triggers another,
the trigger is an action of the other (a router command in `ArmReplay`,
`L2Switch` and `EgressAcl`; a neighbor change in `NatCt` and
`RouterTransaction`). Every module has crashes, failing calls or both: a call is
a set of outcomes, each with what it leaves behind.

### NatTable: the session table

`entries` is `table->entries` (a session or `Free` per slot), `nextPort` is
`table->next_port`, `cfg` is the active configuration as the table sees it (the
policy of each VR, the port forwards).

| Action | Code |
|---|---|
| `OutboundHit`, `OutboundNew` | `router_nat_outbound` with `allocate_session`, called by `route_arm_frame` with the VR's policy on the NAT uplink, without one on a RIF that only port forwards use |
| `InboundHit`, `PortForwardNew`, `PortForwardReject` | `router_nat_inbound`, `router_nat_port_forward_inbound`, `router_nat_port_forward_reject` in `route_nat_ingress_frame` |
| `Age`, `Tick` | `router_nat_age`, time |
| `SetHardwareActive` | the hook of the CT offload |
| `ControlCommit` | the NAT side of `router_control_command` |

A packet is the tuple `packet_copy_and_parse` extracts. The hash index is left
out: it indexes the used slots. The cyclic port scan is modelled as written
(start clamped into the range, modulo of the range size, first free offset) with
16-bit ports. Time is an age per session, capped one tick past the longest
timeout, where every comparison is decided. The validator's guarantees on a
configuration are `ValidConfig`, an assumption on `Configs`; `RouterConfig`
checks the one that needs more than one command (`ForwardsDisjoint`).

### NatCt: sessions in hardware

`NatCt` extends `NatTable` and composes whole handlers. `conn` is
`pipeline->ct_sessions` (owner slot, programmed tuple, open admission rules,
lease left, both adjacencies), `adj` the adjacency table, `active` is
`ct_active`, `retry` the backoff of `router/offload_retry.h`, `due` the pending
maintenance scan, `up` the main loop.

| Action | Code |
|---|---|
| `OutboundFlow` | `route_arm_frame` up to the promotion: translate, send, `eswitch_pipeline_ct_promote` |
| `InboundFlow` | `route_nat_ingress_frame` (never promotes) |
| `NeighborChange` | `process_packet` on an ARP that changes a neighbor: global flush; an error ends the loop |
| `Maintenance` | `eswitch_pipeline_ct_expire`, then `router_nat_age` |
| `RouterControl` | the CT and NAT flush of `router_control_command` and of `detach_port_persisted`, then publication or not |
| `Clock` | one tick |

DOCA calls are nondeterministic when `Faults` is TRUE. `FlushResults` gives
every connection in scope one fate: gone, or kept with none, one or both
admission rules removed. `PromoteResults` enumerates the capacity check, the two
adjacency bindings, the entry and the two admission rules, each failing in every
way the code distinguishes, including the flush the code then starts.

### RouterConfig: the validator

`rc` is `m->router`. Every mutating command of `router_command` is a guard
`CanX(c, ..)` and a result `WithX(c, ..)`; a refused command is a stutter. Arrays
are sets, except that ids grow with the array index. An address is a subnet and
a host; `Nested` says which different subnets overlap. Capacities and `MaxId`
(65535 in the code) are constants, so the last id is reached within the bounds.

### RouterReload: restart

`Reload(rc)` writes the file in the order of `router_config_save` and replays it
through the same `CanX`/`WithX`, with the "identity" line that makes an
attachment reuse its id (and is refused for an id in use), the "next" line, which
has to be in range and above every identity, and the final restoration of the
next id. The interface array is in the order of the ids; the other arrays are
replayed in an order that nothing is assumed of. The save
precedes publication in one handler and commits by rename, so what a restart
finds is always a committed configuration and the questions are invariants.

### ConfigTx and RouterTransaction: the control transaction

`ConfigTx` is the promise of `CLI.md`, section 8: one file, one served
configuration, a command that replaces both or neither, a restart that serves
what the file holds. `RouterTransaction` is `router_control_command` step by
step: `dp` is what is programmed (uplink rules, SF contexts layer by layer, ACL
and deny generations, LPM entries, `hardware_routing_degraded`, the backoff),
`file`, `router` and `cand` the three configurations, `pc` the step. RIF ids are
`1..RifCount`, and a loop over the interface list (`ForEach`) makes one call
(`Turn`) for every RIF it concerns, in order, until an error; the loop of the
rollback ignores errors. A command moves one uplink port at most, the one the
code remembers in `removed` or `added`.

| Action | Code (`router/router_control.c` unless named) |
|---|---|
| `Command` | parse and validate into the candidate |
| `Flush`, `Detach`, `Attach`, `invalidate_changed_rifs`, `Prearm`, `AclSync`, `DenySync`, `HwSync` | the fallible dataplane steps in order |
| `Save`, `Publish` | `router_config_save` with its rename, then the assignment to `manager->router` and the second pre-arm |
| `Undo` | the error path: routes, uplinks, `rollback_prearmed_candidate`, each ignoring errors |
| `Maintenance`, `RetryDue`, `NeighborChange` | the route synchronisation of the scan and of the ARP handler, `next_hw_route_retry_ns` |
| `Crash`, `Restart` | a stop between any two steps; `router_control_restore` |

The refinement maps the state file to `store`, the candidate to `wanted`, the
step to `phase`, and serves `router` only if the switch implements it:
`Implements` compares uplinks, contexts, policies and routes with the
configuration and allows exactly what the code gives up on purpose (the ARP
meter, eligibility entries, a policy left to the Arm cores).

### Neighbor and ArmReplay: next hops and waiting frames

`Neighbor` is `router/router_neighbor.c` with its three intervals. `ArmReplay`
adds `pend` (`router/router_pending.c`), the active configuration (`cfg`: live
RIFs, next hop of every flow, configured gateways), memberships, and the place
in the loop. A replay is a sequence of steps (`ReplayOne`, `ReplayEnd`) that
excludes all others, so that its end is a question. `Frame`, `Arp`,
`Maintenance`, `RouterCommand`, `AttachPort`, `DetachPort`, `DeleteVswitch` and
`Restart` are the handlers of `eswitch_manager.c`. `asked` and `skipped` are
history: gateways that owe an answer, and gateways a failed preparation left
unprobed until the scan.

### RouterForward: lookup and hardware plan

Addresses of `Width` bits with real masks, host parts and lengths 0 to `Width`.
A RIF is its place in the interface list. `lookup_with_ingress` keeps the two
loops of `router/router_forward.c` (`BestConnected`, then `BestRoute`),
`router_hw_routes_build` the two loops, the order and the ties of
`router/router_hw.c` (`HostPlan` is the first), and `HwPick` is what an LPM table
does with the plan. Every loop is a recursive function of the turn, and so is
`PowerOf2`, which sizes the host part of a prefix: the proofs need a definition
that no `RECURSIVE` operator enters. Addresses, routes, NAT, ingress policies and
neighbors change through the validator's checks, so the arrays reach every order.

### Fdb: learned stations

`fdb` is the list of `l2/eswitch_fdb.c`, an entry with the handles it holds;
`rules` is what the hardware has. `Frame` learns or moves, with the four calls of
`eswitch_pipeline_fdb_move` and their rollback; `eswitch_fdb_age` is a scan with
counter queries, grace and retries; two flushes. `silent` is history, the truth
the counters approximate.

### Vlan and L2Switch: vSwitches

`Vlan` is `eswitch_vlan.h`, predicate by predicate, over `1..MaxVlan`.
`L2Switch` is `l2/l2_switch.c` with the persisted commands around it: `live` is
the manager's memory and the switch (memberships, classifier rules per tag,
flood groups, contexts, LPM entries through egress gates), `topo` the topology
file, `rif` the router's file. `create_vswitch_persisted`,
`attach_port_persisted`, `detach_port_persisted` and `delete_vswitch_persisted`
run to their end with one failing call anywhere, in the rollback of an earlier
step included. A call that refuses (a full array, a missing record) counts as the
call that failed: `left` is what may still fail in the handler. A loop over
memberships (`ForEach`) makes one call for each (`Turn`) until an error, and the
stages of `detach_port` are named for what is already closed (`QuietPort`,
`FlushedPort`, `UnroutedPort`), because each has its own way back. `RifAttach` .. `RifUnaddress`, `Learn`, `Expire`,
`bind_route_egress` and `Maintenance` are the router's side, `Crash` and
`Restart` read both files.

### AclPlan, EgressAcl, IngressDeny: filters

`AclPlan` has the first-match checker of `router/router_egress.c` and the two
compilations of the same rules: aligned port blocks with priorities
(`router/router_acl_plan.h`, `acl_build_generation`) and deny prefixes.
`RuleOK` and `PacketOK` say what the commands accept and what a packet carries.
`EgressAcl` is one guest RIF: `slot` is its `struct eswitch_egress_acl`
(generation, fingerprint, reply exceptions, authorised flows), changed by
`PolicySet` .. `OtherCommand`, `PortDetach`, `PfInbound`, `GuestPacket` and
`Maintenance`. `IngressDeny` is one public RIF: `deny` is the set its local entry
leads to, beside NAT range, address and policy. `MCFilters` runs both; they share
the plan and no state.

## 3. Runs

| Run | Instance | Shows |
|---|---|---|
| `nat_table` | one VR, two guests, one remote host with two ports, four configurations, three slots, ranges that end at 65535 | lookups unambiguous in both directions, SNAT ports exclusive, sessions match the configuration, hardware pins a session, 16-bit `next_port` |
| `ct` | two VRs with the same two guest tuples, two slots, capacity 1, every DOCA call may fail | hardware and software own each other through all partial failures, no stale translation, exact counters, live adjacencies; every lease ends |
| `router_config` | one VR, two RIFs (vSwitch or VF), configured MACs, two subnets, a default route, NAT, two overlapping forwards, both filters | references, NAT uplink, forwards, filter exclusion, reload |
| `router_links` | two VRs, a link, nested subnets, three RIFs | links stay point to point, routes over them keep a live gateway, reload |
| `reload` | a forward and NAT | **violation**: finding 1 |
| `fdb` | one station in two vSwitches, two ports, a list of one entry, every call may fail | no rule without owner, frames go where the table says, live stations stay, silent ones go |
| `arm` | three RIFs of which one follows another on its vSwitch, an uplink gateway that answers, two flows, two slots | limits, no frame under an old configuration, next hops on their RIF, a gateway that answers stays reachable, the replay ends, the queue drains |
| `tx` | three RIFs (two vSwitches, an uplink), ten configurations one command apart, two contexts | the transaction refines `ConfigTx`; routes of uncommitted configurations do not survive; the scan repairs |
| `forward` | 3-bit addresses, three RIFs in two VRs with equal, nested and covering prefixes, a default, an uplink with NAT and an ingress policy | the loops are longest-prefix match; what is promoted for a resolved next hop is the Arm's route |
| `forward_arm` | two RIFs of one VR, a static prefix (not the default) that covers one of their subnets | **violation**: finding 2 |
| `l2` | two vSwitches, three ports, five kinds of request of which two overlap in their second ranges, a routed vSwitch and an uplink, five rules, three contexts | one classifier per port and tag, memory is the file, classifier and flood groups follow the configuration, contexts have their gate, both files always restore together |
| `filters` | 3-bit ports, 2-bit ICMP types, four egress and five ingress rules that overlap, all arrays at their limit | hardware drops what the checker denies and nothing else, authorised flows are allowed ones, dead exceptions and lapsed authorisations go |

**Why the bounds are enough.** The NAT properties speak of pairs of sessions;
three slots give a pair and a bystander, and three ports a full range with a
hole made by a rule. CT properties relate a connection to its owner and to one
other connection or session: two slots in two VRs tell a VR-wide from a global
flush, two adjacencies fill the table. Timeouts keep the order of the code's
values. A guest that moves (`Loc = {l1, l2}` in `MCNatCt.cfg`) makes the `ct` run
four minutes long and passes as well. With capacity 1 no two connections exist at
once; `CtCapacity = 2` with one guest, where the connections of two VRs share both
adjacencies and the limit is out of reach, passes too (two minutes), and `NatProofs`
proves `AdjacencyLive` for every capacity. In the configuration runs two RIFs are
enough for every pairwise check (three for a link and a vSwitch side), and
`MaxId` lets a detached id be followed by a new one and then be exhausted; names
and unrelated networks are a symmetry set. In `fdb` a capacity of one makes two
keys compete for the list, and the grace and the retry delay are reached and
exceeded. In `arm` a RIF id follows another on the same vSwitch, which is what a
reused id could confuse; both limits and the timeout are reached. In `tx` the
last configuration does not fit into the contexts, so a refusal starts a rollback
too. In `forward` lengths 2 and 3 of 3 play /31 and /32.

Bounds that are not the code's:

* one failing call per handler in `l2` and `filters` (any number in `ct` and
  `fdb`); `tx` has `MaxFaults` = 1 within a command and `UndoFaults` = 1 more within its
  rollback. After a rollback that failed in turn (`twice`) no further command is
  taken until a restart; without this bound the run passes too, on six times as
  many states;
* `MaxRetries` and `MaxInSessions` cap counters whose larger values change no
  comparison;
* `Nested`, `Peers` and `Place` are the relations the checks look at, in place of
  32-bit prefixes, CIDRs and ports with MACs.

Fault kinds that are left out of a run's fault set because they lead to the
disagreements of section 5: `"unmeter"` (`tx`), `"delete"` and `"range"` (`l2`).

`CHECK_DEADLOCK FALSE` is set in `ct` only, where a failing flush after an ARP
stops the main loop.

The type invariants of `NatCt`, `Fdb`, `RouterTransaction`, `RouterForward`,
`L2Switch`, `EgressAcl` and `IngressDeny` (`CtTypeOK`, `FdbTypeOK`, ...) say what
the variables range over and hold in these instances too; the runs list the
properties that can be wrong in more interesting ways. All of them are proved.

**Fairness.** All of it is justified by one loop that polls bursts and never
blocks, and by retries without limit:

* `ct`: `WF(Clock)`, and `SF(CleanMaintenance)`: a scan that meets an expired
  lease does not fail for ever. Without it a permanently failing DOCA call keeps
  the session pinned, which is what the code intends;
* `fdb`: `WF(Tick)`, `WF(eswitch_fdb_age)`, and for every station `SF` of a scan
  that removes it once its removal is pending (`RemovesPending`). An entry in that
  state is queried no more, so nothing is assumed of counter queries: they may
  fail for ever;
* `arm`: `WF(ReplayOne)`, `WF(ReplayEnd)` (the loop in one handler),
  `SF(Maintenance)`, `SF(Tick)` (time passes however many frames arrive), and
  `SF(Answer)` for the gateways assumed to answer their probes;
* `tx`: `WF_pc(Proceeds)` and `WF_pc(ComesBack)` (a handler runs to its end, a
  crashed daemon is restarted), `SF(RetryDue)` and `SF` of a scan that succeeds;
* `filters`: `SF` of a scan whose removals succeed.

## 4. Proofs

Every theorem is of the form "the specification implies the property", for every
value of the constants the named assumptions allow. Each rests on one inductive
invariant per module or part, proved action by action. Every safety invariant of the
passing runs is proved, and so is the safety part of the refinement. Where a run
allows one failing call, the theorem allows any number (`MaxFaults` and
`UndoFaults` are arbitrary), except in `L2Switch` and the filters, where a handler
meets at most one.

| Module | Assumptions | Invariant | Properties |
|---|---|---|---|
| `NatProofs`, first part | `ConstantsAssumption`, `InputsAssumption` | `NatInv` | `NatTypeOK`, `ReverseTupleUnique`, `ForwardTupleUnique`, `SnatPortExclusive`, `SessionsMatchConfig`, `HardwarePinsSession` |
| `NatProofs`, second part | those, `CtAssumption`, `MarkersAssumption` | `CtInv` | `CtTypeOK`, `ConnectionOwned`, `NoStaleTranslation`, `ActiveCount`, `AdjacencyLive` |
| `RouterConfigProofs`, validator | `RcAssumption` | `RcInv`, `RcKept` | `RcTypeOK`, `NoDanglingReference`, `PublicRifUnfiltered`, `NatOwnsUplink`, `ForwardsDisjoint`, `LinkPointToPoint` |
| `RouterConfigProofs`, restart | those, `ReloadAssumption` | `RcFits` | `ReloadFaithful` |
| `RouterTransactionProofs`, memory | `TxAssumption` | `TxInv` | `TxTypeOK`, `RoutesCommitted`, refinement of `ConfigTx` by memory and file |
| `RouterTransactionProofs`, switch | that, hypothesis `Undoable` | `ServeInv` | `Serves`, safety part of `RefinesPromise` |
| `ArmReplayProofs` | `NeighborAssumption`, `ArmAssumption`, `MarkersAssumption` | `ArmInv` | `ArmTypeOK`, `PendingIsCurrent`, `NeighborOnItsRif`, `ReplayShrinks` |
| `ForwardingProofs`, learned stations | `FdbAssumption`, `FreeAssumption` | `FdbInv` | `FdbTypeOK`, `EveryRuleListed`, `ForwardsToLearned`, `LiveStationKept` |
| `ForwardingProofs`, routes | `ForwardAssumption` | `ForwardInv`, `SubnetsDisjoint` | `ForwardTypeOK`, `LookupIsLongest`, `ResolvedLikeArm` |
| `FilterProofs` | `AclAssumption`, `EgressAssumption`, `DenyAssumption` | `EgressInv`, `IngressInv` | `EgressTypeOK`, `AclIsChecker`, `IngressTypeOK`, `DropsDenied` |
| `L2SwitchProofs` | `VlanAssumption`, `L2Assumption`, hypothesis `Recoverable` | `L2Inv` | `L2TypeOK`, `Restorable`, `OneClassifier`, `SwitchesMembers`, `ContextGateExists`; the operators of `Vlan` |

The assumptions give constants their types, say that markers (`Free`, `NoConn`,
`NoRoute`, `None`) are not values they stand for, and repeat what the validator
guarantees of a configuration (`ValidConfig` in `NatTable`, the keys of a plan in
`RouterTransaction`). TLC evaluates all of them in the runs. Two theorems have a
hypothesis on the fault set. `Recoverable`: that of `L2Switch` has neither `"range"`
(a trunk's rules go one by one, and one in the middle fails) nor `"delete"` (the
second removal of a vSwitch fails). `Undoable`: that of `RouterTransaction` does
not have `"unmeter"` (the classifier of an uplink is gone when its ARP meter
fails to go, and the command does not know that it has to put it back). With any
of them the code does break the property; section 5 lists all three.

**Sessions.** `NatInv` is the conjunction of the properties, because none is
inductive alone: uniqueness of the reply tuple needs SNAT ports to be exclusive
(two sessions with one public port and different remotes would be one
`port_in_use` away from a clash), exclusiveness of a port against port forwards
needs `SessionsMatchConfig` (a DNAT session lies on a port of a current rule),
and that one needs the commit to find an empty table. Steps that only free a
session or change a field outside its tuple share the lemmas `ShrinkKeepsTuples`
and `RewriteSlot`; the two insertions share `InsertSession`; the modulo
arithmetic of the port scan is in `CandidateInRange`.

**CT offload.** A handler of `NatCt` is a chain of partial results, so the
relation between table, connections, adjacencies and counter is stated of values
(`Good`) and proved of every intermediate result of flush, promotion and
expiry; `CtInv` adds `NatInv`, the capacity and the backoff. A connection that is
half removed is still owned, which is what `ConnectionOwned` needs at its
retry. `NoStaleTranslation` follows from ownership and the uniqueness of tuples
in the session table. The counter is exact because
promotion and removal change the set of connections by one element.

**Configuration.** The references are not inductive without
`PublicRifUnfiltered`, whose second half gives every rule a policy of its
direction, VR and RIF: `DETACH` looks at policies and never at rules, so a rule
cannot dangle only because it cannot outlive its policy. `RcKept` holds the
relations that one command requires and others must not break. A link's ends as a
cardinality are not inductive: `LinkEnds` says that two peers of an end are one,
and that the peer of a routed end keeps the gateway's address.

**Forwarding.** The two loops alone are not longest-prefix match: the code
prefers a connected subnet on equal length and keeps the first of two equal
routes. `ForwardInv` is what the validator keeps true of the arrays: a route's
gateway lies in the subnet of its RIF, and no two routes of a VR have the same
prefix and length. `Longest` is the loop invariant, relative to the
routes seen so far; `ConnectedStepOK` and `StaticStepOK` are one turn,
`ConnectedLoopOK` and `StaticLoopOK` the induction.

**Hardware routes.** `ResolvedLikeArm` compares two algorithms over the same
arrays. What connects them is that the subnets of a VR never overlap, although
`IP_ADD` compares a new address only with the present ones
(`SubnetsDisjoint`); hence a destination lies on the link of one RIF. An entry of
the plan has a
reason: `FromHost` or `FromRoute`, the neighbor or static route it stems from,
and the two loops keep every entry and add one for each reason unless the array
is full. If the Arm takes a connected route, its host entry is in the plan, because
no static route in the VR is longer (`static_route_wins`), and nothing beats
length `Width`. If it takes a static route, any longer entry would be a
candidate of the Arm's lookup as well, and one of equal length is the same
route, since a VR has one route per prefix.

**Restart.** That the validator accepts its own file is not a property of any
one command. `RcFits` collects the rest of what a command asked of the
configuration (`EntriesFit`: names, attachments, subnets, gateways, rule ids,
capacities) in a form that any part of the configuration satisfies when the
whole does: two entries go together, a set has at most so many elements. The
replay is eight loops (interfaces, routes, NAT, port forwards, then policies and
rules of either filter). `ReplayGrows` tells a loop by the set it has loaded:
whatever the order, the line of the next entry leads from the candidate with a
set to the candidate with one entry more (`InterfaceLoads`, `RouteLoads`,
`NatLoads`, `ForwardLoads`, `PolicyLoads`, `RuleLoads`), or it is refused and the
configuration has one of the three shapes of finding 1. The proof therefore
shows that these three are all, for any number of entries in any order. A
link's ends need `LinkEnds` as well, and the saved entries refer to interfaces by
name, which means the same one because ids are unique (`NamedFound`).
`ReloadAssumption` says that the marker of a refused load is no configuration.

**Transaction.** `RoutesCommitted` compares the routes with the committed
configuration under any table of neighbors. This is too weak to be kept: a command whose
plan equals the old one under the present neighbors skips the
route step, so the routes have to be those of the plan the *present* neighbors
give, or be marked (`InSync`). `RoutesOK` says for which configuration at each
step: the old one up to the route step, the candidate from there to publication,
and in the rollback the old one unless the plans differ and the rollback
programs them again. Everything else a command does is shown to leave routes alone by one
relation (`After`: in shape, within the capacity, routes untouched) that is
closed under every call, loop and ignored error. `MemoryOK` (memory and file
differ only between rename and publication) gives the refinement of `ConfigTx`
with `serving <- router`.

**Switch.** The mapping of the run `tx` serves a configuration only if the switch
implements it. Between commands that is `UplinksAre` (rules on the ports of the
configuration) and `AllServed` (every context bound with its entries and
policies). Within a command neither configuration is implemented, and `ServeInv`
says how far each step has come: contexts are ready (bound as the candidate asks
or not at all), held (bound), have their ACL, have their deny policy
(`AllReady`, `AllHeld`, `AllAcl`, `AllServed`), and `PortsNow` computes the
uplinks from what the command remembers in `done`. Three things make the
rollback work, and each is a conjunct because a step could destroy it: the
rollback removes the contexts of the candidate only, so a RIF that the candidate
lacks must not be bound (`Forgettable`, which holds because an address goes
before its RIF does, `OneChange`); at most one port is to be moved back
(`TheMoved`); and the old contexts must fit again, which follows from their
having fitted when the command began. The rollback then tears down every context
and builds all of them anew (`ForgetServes`, `RearmServes`), or a call of it
failed and a fault is spent, which is what `twice` sees. Each loop is
proved by one lemma (`LoopServes`): if a turn takes a context to the next stage
or fails, so does the loop. The route synchronisation changes nothing but
eligibility (`SyncAlike`). A restart starts from an empty switch, which is ready for
any configuration. `SwitchServes` and `SwitchRefines` hold for any number of
failing calls within a command, and say nothing of the time between a rollback that
failed in turn and the next restart.

**Next hops and frames.** That a neighbor stays on its RIF is not inductive: a RIF
may go, its vSwitch be deleted, and a neighbor of it stay. It is harmless because
ids are not used twice, so `ArmInv` says that live ids and ids with resolved
neighbors are at most the last one given out. `ReplayTurnsEnd` shows that the
replay loop, which calls code that queues frames, takes a frame in every turn
and queues none.

**Learned stations.** `KeyInv` speaks of one key: every rule is under a handle of
the entry (`Handles`), while the daemon runs the handles are those of the learned
port (`Settled`), and an entry whose counter has not grown is no older than its
station's silence (`Quiet`). A failed move may leave rules on two ports; then the
loop has ended, which is why `ForwardsToLearned` is about a running daemon.

**vSwitches.** Every command of `L2Switch` does something and may have to undo it.
The invariant is a relation between three states. `TopoOK` is what `attach_port` checks,
in a form that does not depend on the order of the members: any part of such a
topology admits each of its other members, which is why the restart, which attaches
in the file's order, and the rollback of a deletion cannot be refused. `RouterOK`
says that the interfaces of the router's file find their port free and their
vSwitch there and untagged; the two files are written by different commands, and
each command checks the other's reservation. `Runs` says of every pair of vSwitch
and port that memory, classifier record, tags and flood group are all there or all
absent. With one failing call, a call after the failure succeeds, so the way
back is deterministic: `AttachedOrUndone`, `DetachedOrKept`, `DeletedOrKept` say
that a handler's result is the new topology or the old one, and `MembersReturn`
that the loop in the rollback of a deletion brings every member back. The proof
attempt corrected the model: a refusal used to leave the one
failure unused, and with three contexts a refused preparation followed by
a failing rollback broke `SwitchesMembers`. `OneClassifier` follows from `TopoOK`
with two theorems about `Vlan`: for valid lists,
`eswitch_vlan_allowlists_overlap` is exactly "some tag is in both"
(`OverlapTheorem`), and the tags enumerated for a list are its tags
(`RulesTheorem`).

**Filters.** `AclIsChecker` needs three facts about `acl_build_generation`.
The blocks of a range cover it exactly: a turn of the loop keeps "the blocks so
far cover what lies before the cursor", a block fits because it divides the
cursor and ends within the range, and `2^bits` turns are enough because
each moves the cursor. The priority of a rule is the number of offloaded rules
with a smaller id, so priorities are ordered as ids are and different for
different rules. A rule that is not offloaded never matches a TCP or UDP packet. Then the
entry that wins is one of the first matching rule. The generation is that of the
committed policy although builds, swaps and removals fail, which is
`EgressInv`: the fingerprint stands for the policy it was compiled from, and a
flow is authorised under the policy that is committed. `DropsDenied` needs that the deny ranges avoid every port
an allow rule or the NAT policy may use, that prefixes cover ranges
exactly, and that the set in hardware was compiled from a policy, NAT range and
address which still hold (`IngressInv`).

**Loops.** The library's induction theorems have an operator parameter that the
provers cannot instantiate. `LoopLemmas` derives what is needed from
well-foundedness, stated over sets: `NatSetInduction`, and `LoopRuns` (a
recursive function over the turns of a loop exists and is what its body says).
The proofs about loops over arrays (probes, connected subnets, routes, calls per
RIF) define the loop as a recursive function and use these two.

Only model-checked:

* liveness under fairness and everything with `ENABLED`, which are out of the
  prover's reach: leases, silent stations, `RoutesCatchUp`, `HopStaysReachable`,
  the draining of the queue, `DeadEntriesGo`, the fairness of `ConfigTx`
  (the rest of `RefinesPromise`).

## 5. Findings

1. **Port forward, then NAT elsewhere** (`reload`). `NAT_ENABLE` does not look at
   port forwards, `PF_ADD` requires its RIF to be the NAT uplink. The file lists
   NAT first; the next start refuses it. Two more committed shapes are refused by
   the replay: a RIF attached with the default MAC that another RIF was given
   before (`MAC_SET` checks uniqueness, attaching does not, `router/router.c:767`),
   and a RIF whose address was removed under an ingress policy (`IP_DEL`,
   `router/router.c:816`). `ReloadFaithful` shows that these three are all, and
   `ConfigurationReloads` proves it for every configuration.
2. **Promoted prefixes shadow longer Arm routes** (`forward_arm`). A static prefix
   is promoted although a longer route that covers part of it exists only on Arm.
   In the trace of `HwKeepsLongestPrefix` RIF 1 has the subnet 2/2 and a static
   route 4/1 through its resolved station 2, RIF 2 has the subnet 4/2 and no
   resolved station. Arm forwards a packet from RIF 1 for station 4 to RIF 2 by the
   connected route of length 2; in hardware the only match is 4/1, so the packet
   goes to the gateway on RIF 1, and as it never reaches Arm, station 4 is never
   asked for. The property leaves out everything else in which the two may differ:
   router-local destinations, ties, the default route and traffic within one
   subnet. A longer route through a NAT or uplink RIF is hidden in the same way.
   `HARDWARE_FAST_PATH_PLAN.md:23` asks that route selection "preserve
   longest-prefix and connected/static/default semantics of router_forward.c".
   `ResolvedLikeArm` shows what does hold: destinations whose own route is promoted
   take it.

Further disagreements between code and documents, met while modelling. None is
part of a run; each is reproduced by the change named.

| Where | What | To reproduce |
|---|---|---|
| `pipeline/eswitch_pipeline.c:3155` | A guest that moves while its connection is in hardware: promotion succeeds without comparing the adjacency, replies go to the old port until the lease ends; `router/router_nat.c:440-442` says "replies follow the latest packet that proved ownership" | `ct` with `Loc = {l1, l2}`, `Faults = FALSE` and the invariant that a connection admitting replies has the session's `loc` |
| `pipeline/eswitch_pipeline.c:4922` | A removal that fails half way leaves an entry whose next move is refused, and the error ends the loop; `application/ethernet_switch/switch_config.h:23-24`: "A removed active entry is safe but causes one relearn" | `fdb` with the invariant `up` |
| `router/router_control.c:239` | An uplink removal that fails at its second rule is not taken back; `CLI.md:985-988` lists "a removed uplink is reattached" | `tx` with `"unmeter"` in `TxFaults` |
| `pipeline/eswitch_pipeline.c:2514` | A context bound while acceleration is switched off gets an eligibility entry; the comment at 4318-4320 says "This disables acceleration" | `tx` with: degraded by a failed route step implies no `"elig"` part |
| `router/router_hw.c:69` | Neighbors of a RIF's old subnet are promoted after its address changed; `HARDWARE_FAST_PATH_PLAN.md:29`: "Invalidate before route, RIF/MAC, ... changes become effective" | `forward` with the invariant that every host route lies in its RIF's subnet |
| `pipeline/eswitch_pipeline.c:2612` | `ESW_LOCAL_IP` holds a RIF's own address under its own vSwitch and MAC only; a packet from one RIF for the address of another RIF of the VR that a promoted prefix covers is routed by hardware, where Arm answers it; `HARDWARE_FAST_PATH_PLAN.md:25`: "Punt local IPs" | `forward_arm` with: a destination that Arm decides "local" has no `HwHits` |
| `router/router_hw.c:123` | A promoted static prefix equal to a connected subnet takes its unresolved stations; on Arm the connected route wins the tie (`router/router_forward.c`); `HARDWARE_FAST_PATH_PLAN.md:23` | `forward_arm` with `MCCoveringPrefix == {<<4, 2>>}` and: a hardware route as long as the Arm's has the same hop |
| `router/router_hw.c:104-105` | A default route through a private RIF is promoted; the comment says "Default/public/NAT paths stay on Arm." | `forward` with: no plan entry of length 0 |
| `l2/l2_switch.c:326` | Deleting a vSwitch undoes nothing after its second removal fails; `README.md:246-248` | `l2` with `"delete"` in `L2Faults` |
| `l2/l2_switch.c:224` | A trunk whose removal stops in the middle stays attached without the removed tags; `CLI.md:958-960` | `l2` with `"range"` in `L2Faults` |
| `l2/l2_switch.c:263` | A detach repeated during the backoff destroys a gate that routes point at; the comment at 255-257 | `l2` with: every `<<r, p>>` in `lpm` has a record |
| `pipeline/eswitch_pipeline.c:2832` | Deleting a vSwitch removes the uplink contexts of the VR of the same number; `README.md:30-33` | `l2` with `RifVr` in `Vs` and: addressed uplinks have their context |
| `router/router_nat.c:544` | The reply exception of a new port-forward session is built from a zero inside port and MAC and matches nothing; `eswitch_manager.c:1673-1675`: "Otherwise its immediate reply could hit default-deny in hardware" | `filters` with: a reply of a session is never dropped |
| `router/router_egress.c:207` | Under default deny hardware drops echo replies of outbound ICMP sessions; `pipeline/eswitch_pipeline.c:1934-1936` | `filters` with `DropsDenied` without its restriction to TCP and UDP |

## 6. Not modelled, and the plan

**Abstractions.** Frame bytes, checksums, TTL, fragments and malformed headers;
statistics, logs and `show` output; command and file syntax and schema versions;
the lookup of a port by its stable identity; the filter on port ownership in
`eswitch_manager_hw_routes_sync`; pipe layout and match masks of DOCA; the hash
index of the NAT table. Conversions that decide something (port blocks, deny
prefixes, prefix masks, VLAN ranges, 16-bit port and id arithmetic) are modelled
as written.

**Left out.** ARP and ICMP reply construction and raw packet I/O (byte layout
without state); the control server and `eswitchctl` (one request at a time, no
state across requests); option parsing, probing and signals of `main.c`;
diagnostics and samples; the walk of a packet across router links
(`route_arm_frame` re-entered in the peer VR, bounded by a hop counter), whose
configuration is in `RouterConfig`; `cs-network-extension`, a translator whose
state is CloudStack's; `application/ethernet_switch`, the predecessor of the
daemon. Most of the repository's lines are vendored headers of DOCA and DPDK
under `.deps`, which hold declarations only: what the daemon relies on from
them is the result sets of the calls in the modules above.

**What a continuation would take up**, in this order:

1. The walk over router links, with its loop bound.
2. The CloudStack translator's reconciliation of firewall rules.
