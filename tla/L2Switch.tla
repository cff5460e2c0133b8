------------------------------ MODULE L2Switch ------------------------------
(***************************************************************************)
(* The vSwitches: l2/l2_switch.c, the persisted commands around it in      *)
(* eswitch_manager.c with the topology file of eswitch_state.c, and the    *)
(* classifier, flood-group and egress-gate calls of eswitch_pipeline.c.    *)
(* Every handler runs to its end between two packets.  Each call it makes  *)
(* may fail once; what the call leaves behind and what the handler then    *)
(* undoes is the subject of this module.                                   *)
(*                                                                         *)
(* The router is present through what it shares with the vSwitches: which  *)
(* ports and vSwitches its RIFs hold, the SF return contexts and the       *)
(* hardware routes that point at egress gates.  A router command is one    *)
(* successful step here; RouterTransaction has its failures.               *)
(***************************************************************************)
EXTENDS Vlan, FiniteSetsExt, SequencesExt

CONSTANTS
  Vs,           \* vSwitch numbers
  Port, Parent, \* ports; Parent is the uplink of the card, not a VF
  Request,      \* port modes and allow-lists a command may ask for
  Rif,          \* interface ids
  RifAt, RifVr, \* the vSwitch or port of a RIF and the number of its VR
  None,
  MaxRules,     \* ESWITCH_MAX_VLAN_MEMBERSHIPS
  MaxContexts,  \* ESWITCH_MAX_SF_RETURN_CONTEXTS
  L2Faults      \* the calls that may fail, one in each handler

Pair     == Vs \X Port
PortSpec == [mode : {"access", "trunk"}, first : VlanWord, last : VlanWord,
             xfirst : VlanWord, xlast : VlanWord]
Record   == [spec : PortSpec, tags : SUBSET Nat]

ASSUME L2Assumption ==
  /\ Vs \subseteq Nat \ {0} /\ Parent \in Port /\ Vs \intersect Port = {}
  /\ IsFiniteSet(Vs) /\ IsFiniteSet(Port) /\ IsFiniteSet(Rif)
  /\ \A r \in Rif : RifAt[r] \in Vs \union (Port \ {Parent}) /\ RifVr[r] \in Nat \ {0}
  /\ Request \subseteq PortSpec
  /\ MaxRules \in Nat /\ MaxContexts \in Nat
  /\ None \notin Port \union PortSpec /\ None \notin Record /\ \A g \in SUBSET Port : g # None

VARIABLES
  up,     \* the daemon runs
  live,   \* the manager's memory and what is programmed in the switch
  topo,   \* the topology file: vSwitches and memberships
  rif     \* router state file and manager->router: "none", "bare", "addressed"

l2vars == <<up, live, topo, rif>>

EmptyLive ==
  [sw |-> {}, mem |-> [k \in Pair |-> None],   \* switches[], memberships[]
   rec |-> [k \in Pair |-> None],              \* pipeline->memberships[] with its ingress rules
   flood |-> [v \in Vs |-> None],              \* the flood group and its members
   ctx |-> {},                                 \* SF return contexts <<rif, domain, target>>
   uplink |-> {},                              \* classifier rules of router ports
   nb |-> {},                                  \* resolved neighbors <<rif, port>>
   lpm |-> {},                                 \* hardware routes to the gate of <<rif, port>>
   degraded |-> FALSE, backoff |-> FALSE]

Topology(d) == [sw |-> d.sw, mem |-> d.mem]

-----------------------------------------------------------------------------
(***************************************************************************)
(* Requests.                                                               *)
(***************************************************************************)
Tagged(s) == eswitch_vlan_uses_tagged_domain(s.mode, s)
RuleCount(s) == IF s.mode = "trunk" THEN eswitch_vlan_allowlist_size(s) ELSE 1

ValidRequest(s) ==
  IF s.mode = "trunk" THEN eswitch_vlan_allowlist_valid(s)
  ELSE /\ s.first = s.last /\ (s.first # 0 => eswitch_vlan_valid(s.first))
       /\ s.xfirst = 0 /\ s.xlast = 0

Normal(s) ==
  [s EXCEPT !.last = eswitch_vlan_range_last(s.first, @),
            !.xlast = IF eswitch_vlan_extra_present(s)
                      THEN eswitch_vlan_range_last(s.xfirst, @) ELSE 0]

\* The VLAN tags of the classifier rules; 0 is an untagged frame.
Tags(s) ==
  IF eswitch_vlan_is_transparent_trunk(s.mode, s) THEN VlanRules(s)
  ELSE {IF s.mode = "trunk" THEN s.first ELSE 0}

(***************************************************************************)
(* The check that attach_port, eswitch_pipeline_attach_port and            *)
(* eswitch_state_add_member each repeat.  A membership has at least one    *)
(* rule, so the bound on the number of memberships follows.                *)
(***************************************************************************)
Members(M) == {k \in Pair : M[k] # None}
RuleSlots(M) == UNION {{k} \X (1..RuleCount(M[k])) : k \in Members(M)}

Admits(M, v, p, s) ==
  /\ \A k \in Members(M) :
       /\ k[1] = v => Tagged(M[k]) = Tagged(s)
       /\ k[2] = p => /\ k[1] # v /\ M[k].mode = "trunk" /\ s.mode = "trunk"
                      /\ ~ eswitch_vlan_allowlists_overlap(M[k], s)
  /\ Cardinality(RuleSlots(M)) + RuleCount(s) <= MaxRules

-----------------------------------------------------------------------------
(***************************************************************************)
(* Calls: the switch and the file a call leaves, its result, and whether a *)
(* fault may still happen.  A refusal counts as the call that failed.      *)
(***************************************************************************)
Now == [d |-> live, t |-> topo, ok |-> TRUE, left |-> 1]

Ok(o, d) == {[o EXCEPT !.d = d]}
Error(o) == {[o EXCEPT !.ok = FALSE, !.left = 0]}
Fault(o, kind, d) ==
  IF kind \in L2Faults /\ o.left > 0
  THEN {[o EXCEPT !.d = d, !.ok = FALSE, !.left = @ - 1]} ELSE {}

AndThen(S, F(_)) == UNION {IF o.ok THEN F(o) ELSE {o} : o \in S}
\* What a handler does about an error; it reports an error in any case.
OnError(S, F(_)) ==
  UNION {IF o.ok THEN {o}
         ELSE {[z EXCEPT !.ok = FALSE] : z \in F([o EXCEPT !.ok = TRUE])} : o \in S}

(***************************************************************************)
(* Pipeline.  A membership record whose ingress rules are all gone takes   *)
(* its rules back.                                                         *)
(***************************************************************************)
Spec(rec) == [k \in Pair |-> IF rec[k] = None THEN None ELSE rec[k].spec]
Ingress(d, k, T) == [d EXCEPT !.rec[k].tags = T]

eswitch_pipeline_attach_port(o, k, s) ==
  LET old == o.d.rec[k]
      new == [spec |-> Normal(s), tags |-> Tags(Normal(s))]
  IN IF \/ old # None /\ (old.spec # new.spec \/ old.tags # {})
        \/ old = None /\ ~ Admits(Spec(o.d.rec), k[1], k[2], Normal(s))
     THEN Error(o)
     ELSE Ok(o, [o.d EXCEPT !.rec[k] = new]) \union Fault(o, "ingress", o.d)

\* The rules of a list go one by one; those before the failing one are gone.
eswitch_pipeline_detach_vswitch_port(o, k) ==
  LET here == o.d.rec[k].tags
  IN IF o.d.rec[k] = None THEN Error(o)
     ELSE Ok(o, Ingress(o.d, k, {}))
          \union (IF here = {} THEN {} ELSE Fault(o, "detach", o.d))
          \union UNION {Fault(o, "range", Ingress(o.d, k, T)) : T \in (SUBSET here) \ {{}, here}}

\* Destroys the egress gate with the record.
eswitch_pipeline_release_vswitch_port(o, k) ==
  IF o.d.rec[k] = None THEN Error(o)
  ELSE IF o.d.rec[k].tags # {} THEN Error(o)
  ELSE Ok(o, [o.d EXCEPT !.rec[k] = None])

eswitch_pipeline_flood_add_port(o, k) ==
  LET group == o.d.flood[k[1]]
      ports == IF group = None THEN {} ELSE group
  IN IF k[2] \in ports THEN Error(o)
     ELSE Ok(o, [o.d EXCEPT !.flood[k[1]] = ports \union {k[2]}])
          \union Fault(o, "flood", o.d)

eswitch_pipeline_flood_remove_port(o, k) ==
  LET group == o.d.flood[k[1]]
      ports == IF group = None THEN {} ELSE group
  IN IF k[2] \notin ports THEN Error(o)
     ELSE Ok(o, [o.d EXCEPT !.flood[k[1]] = ports \ {k[2]}])
          \union Fault(o, "unflood", o.d)

eswitch_pipeline_destroy_flood_group(o, v) ==
  Ok(o, [o.d EXCEPT !.flood[v] = None])
  \union (IF o.d.flood[v] = None THEN {} ELSE Fault(o, "delete", o.d))

\* eswitch_fdb_flush_port and eswitch_fdb_flush_vswitch; Fdb has their detail.
Flushed(o) == {o} \union Fault(o, "fdb", o.d)

(***************************************************************************)
(* SF return contexts.  A context of a vSwitch has the vSwitch as domain,  *)
(* a context of an uplink the number of its VR.                            *)
(***************************************************************************)
Contexts(d, r) ==
  IF RifAt[r] \in Vs
  THEN {<<r, RifAt[r], None>>}
       \union {<<r, RifAt[r], k[2]>> : k \in {m \in Members(d.mem) : m[1] = RifAt[r]}}
  ELSE {<<r, RifVr[r], RifAt[r]>>}

Wanted(d, R) == UNION {Contexts(d, r) : r \in {s \in Rif : R[s] = "addressed"}}

preflight_router_contexts(d, R) == Cardinality(d.ctx \union Wanted(d, R)) <= MaxContexts

\* Some of the missing contexts are bound when one cannot be.
eswitch_manager_router_prearm(o, R) ==
  LET missing == Wanted(o.d, R) \ o.d.ctx
  IN IF ~ preflight_router_contexts(o.d, R) THEN Error(o)
     ELSE Ok(o, [o.d EXCEPT !.ctx = @ \union missing])
          \union UNION {Fault(o, "bind", [o.d EXCEPT !.ctx = @ \union S])
                        : S \in (SUBSET missing) \ {missing}}

Without(o, C, kind) ==
  Ok(o, [o.d EXCEPT !.ctx = @ \ C])
  \union UNION {Fault(o, kind, [o.d EXCEPT !.ctx = @ \ S]) : S \in (SUBSET C) \ {C}}

\* Mutant: the contexts of the member are kept.
UnarmNothing(o, k) == {o}

unarm_router_member(o, k) ==
  Without(o, {x \in o.d.ctx : rif[x[1]] # "none" /\ RifAt[x[1]] = k[1] /\ x[2] = k[1] /\ x[3] = k[2]},
          "unarm")

eswitch_pipeline_sf_unbind_vswitch(o, v) == Without(o, {x \in o.d.ctx : x[2] = v}, "unbind")

(***************************************************************************)
(* eswitch_manager_hw_routes_sync for manager->router: put off after a     *)
(* failure, which leaves one entry missing or one too many.                *)
(***************************************************************************)
Plan(d, R) ==
  {x \in d.nb : R[x[1]] = "addressed" /\ RifAt[x[1]] \in Vs /\ d.mem[<<RifAt[x[1]], x[2]>>] # None}

Synced(d, R) == [d EXCEPT !.lpm = Plan(d, R), !.degraded = FALSE, !.backoff = FALSE]

eswitch_manager_hw_routes_sync(o) ==
  LET plan == Plan(o.d, rif)
      broken == {plan \ {x} : x \in plan \ o.d.lpm} \union {plan \union {x} : x \in o.d.lpm \ plan}
  IN IF o.d.degraded /\ o.d.backoff THEN {o}
     ELSE Ok(o, Synced(o.d, rif))
          \union UNION {Fault(o, "route", [o.d EXCEPT !.lpm = H, !.degraded = TRUE, !.backoff = TRUE])
                        : H \in broken}

router_neighbor_invalidate_port(d, p) == [d EXCEPT !.nb = {x \in @ : x[2] # p}]

-----------------------------------------------------------------------------
(***************************************************************************)
(* l2_switch.c.  reserved(v) and held(p): what the router holds, nothing   *)
(* while the topology is restored.                                         *)
(***************************************************************************)
ReservedSwitch(v) == \E r \in Rif : rif[r] # "none" /\ RifAt[r] = v
ReservedPort(p) == \E r \in Rif : rif[r] # "none" /\ RifAt[r] = p

create_vswitch(o, v) ==
  IF v \in o.d.sw THEN Error(o) ELSE Ok(o, [o.d EXCEPT !.sw = @ \union {v}])

\* Mutant: a port that cannot be flooded keeps its ingress rules.
AttachedHalf(o, k, s) ==
  AndThen(
    AndThen(eswitch_pipeline_attach_port(o, k, s),
            LAMBDA y : eswitch_pipeline_flood_add_port(y, k)),
    LAMBDA y : Ok(y, [y.d EXCEPT !.mem[k] = Normal(s)]))

AttachedIn(o, k, s) ==
  AndThen(
    AndThen(eswitch_pipeline_attach_port(o, k, s), LAMBDA y :
      OnError(eswitch_pipeline_flood_add_port(y, k), LAMBDA z :
        AndThen(eswitch_pipeline_detach_vswitch_port(z, k), LAMBDA w :
          eswitch_pipeline_release_vswitch_port(w, k)))),
    LAMBDA y : Ok(y, [y.d EXCEPT !.mem[k] = Normal(s)]))

\* Mutant: a port of the router is accepted.
AttachReserved(o, k, s) ==
  IF ~ (k[1] \in o.d.sw /\ ValidRequest(s) /\ Admits(o.d.mem, k[1], k[2], s))
  THEN Error(o) ELSE AttachedIn(o, k, s)

attach_port(o, k, s) ==
  IF ~ /\ k[1] \in o.d.sw /\ ValidRequest(s)
       /\ ~ ReservedPort(k[2])
       /\ ~ (Tagged(s) /\ ReservedSwitch(k[1]))
       /\ Admits(o.d.mem, k[1], k[2], s)
  THEN Error(o) ELSE AttachedIn(o, k, s)

(***************************************************************************)
(* detach_port closes ingress, then flood, the FDB and the routes, and     *)
(* takes each back if the next one fails.                                  *)
(***************************************************************************)
Forgotten(d, k) == router_neighbor_invalidate_port([d EXCEPT !.mem[k] = None], k[2])
Remembered(d, old, k) == [d EXCEPT !.mem[k] = old.mem[k], !.nb = old.nb]

BackIngress(o, k, s) == eswitch_pipeline_attach_port(o, k, s)
BackFlood(o, k, s) ==
  AndThen(BackIngress(o, k, s), LAMBDA y : eswitch_pipeline_flood_add_port(y, k))

\* Mutant: the membership is not put back.
BackForgetting(o, old, k) == BackFlood(o, k, old.mem[k])

BackMember(o, old, k) ==
  BackFlood([o EXCEPT !.d = Remembered(o.d, old, k)], k, old.mem[k])

\* Ingress and flood are closed; then the FDB has forgotten the port; then no
\* route points at its gate.
QuietPort(o, k) ==
  AndThen(eswitch_pipeline_detach_vswitch_port(o, k), LAMBDA y :
    OnError(eswitch_pipeline_flood_remove_port(y, k), LAMBDA z : BackIngress(z, k, o.d.mem[k])))

FlushedPort(o, k) ==
  AndThen(QuietPort(o, k), LAMBDA y :
    OnError(Flushed(y), LAMBDA z : BackFlood(z, k, o.d.mem[k])))

UnroutedPort(o, k) ==
  AndThen(FlushedPort(o, k), LAMBDA y :
    OnError(eswitch_manager_hw_routes_sync([y EXCEPT !.d = Forgotten(y.d, k)]), LAMBDA z :
      BackMember(z, o.d, k)))

detach_port(o, k) ==
  IF o.d.mem[k] = None THEN Error(o)
  ELSE AndThen(UnroutedPort(o, k), LAMBDA y :
         OnError(eswitch_pipeline_release_vswitch_port(y, k), LAMBDA z :
           AndThen(BackMember(z, o.d, k), eswitch_manager_hw_routes_sync)))

ReleasedMember(o, k) ==
  AndThen(eswitch_pipeline_release_vswitch_port(o, k), LAMBDA z :
    Ok(z, [z.d EXCEPT !.mem[k] = None]))

\* restore_manager attaches before there is a router.
RestoredMember(o, k, s) ==
  IF ValidRequest(s) /\ Admits(o.d.mem, k[1], k[2], s) THEN AttachedIn(o, k, s) ELSE Error(o)

(***************************************************************************)
(* The loops over memberships: one call for each of a set, until an error. *)
(***************************************************************************)
Turn(call, o, k, M) ==
  CASE call = "close"   -> eswitch_pipeline_detach_vswitch_port(o, k)
    [] call = "release" -> ReleasedMember(o, k)
    [] call = "attach"  -> attach_port(o, k, M[k])
    [] call = "restore" -> RestoredMember(o, k, M[k])

ForEach(S, o, call, M) ==
  LET q == SetToSeq(S)
      G[n \in 0..Len(q)] ==
        IF n = 0 THEN {o} ELSE AndThen(G[n - 1], LAMBDA y : Turn(call, y, q[n], M))
  IN G[Len(q)]

\* delete_vswitch undoes nothing (a fault after its first removal is "delete").
ClosedSwitch(o, v, ks) ==
  AndThen(AndThen(eswitch_pipeline_sf_unbind_vswitch(o, v), Flushed), LAMBDA y :
    {z \in ForEach(ks, y, "close", o.d.mem) :
       z.ok \/ z.d.rec = o.d.rec \/ "delete" \in L2Faults})

delete_vswitch(o, v) ==
  LET ks == {k \in Members(o.d.mem) : k[1] = v}
      dry == AndThen(ClosedSwitch(o, v, ks), LAMBDA y : eswitch_pipeline_destroy_flood_group(y, v))
      free == AndThen(dry, LAMBDA y : ForEach(ks, y, "release", o.d.mem))
  IN IF v \notin o.d.sw THEN Error(o)
     ELSE AndThen(free, LAMBDA y : Ok(y, [y.d EXCEPT !.sw = @ \ {v}]))

-----------------------------------------------------------------------------
(***************************************************************************)
(* The persisted commands.  rename() is the commit point, so the file is   *)
(* either the old one or the new one; a crash before it is as if the       *)
(* handler had not run, a crash after it a crash after the handler.        *)
(***************************************************************************)
persist_manager(o) ==
  {[o EXCEPT !.t = Topology(o.d)]} \union Fault(o, "save", o.d)

Handle(S) ==
  /\ up
  /\ \E o \in S : live' = o.d /\ topo' = o.t
  /\ UNCHANGED <<up, rif>>

create_vswitch_persisted(v) ==
  Handle(AndThen(create_vswitch(Now, v), LAMBDA y :
           OnError(persist_manager(y), LAMBDA z : delete_vswitch(z, v))))

attach_port_persisted(k, s) ==
  LET Back(z) == AndThen(unarm_router_member(z, k), LAMBDA w : detach_port(w, k))
      armed == AndThen(attach_port(Now, k, s), LAMBDA y :
                 OnError(eswitch_manager_router_prearm(y, rif), Back))
  IN Handle(AndThen(armed, LAMBDA y : OnError(persist_manager(y), Back)))

detach_port_persisted(k) ==
  LET s == live.mem[k]
      unarmed == AndThen({Now} \union Fault(Now, "flush", live),
                         LAMBDA y : unarm_router_member(y, k))
      detached == AndThen(unarmed, LAMBDA y :
                    OnError(detach_port(y, k), LAMBDA z : eswitch_manager_router_prearm(z, rif)))
  IN /\ k[1] \in live.sw /\ s # None
     /\ Handle(AndThen(detached, LAMBDA y :
                 OnError(persist_manager(y), LAMBDA z :
                   AndThen(attach_port(z, k, s), LAMBDA w :
                     eswitch_manager_router_prearm(w, rif)))))

\* With the handler's refusal of a vSwitch that a VR uses.
delete_vswitch_persisted(v) ==
  LET ks == {k \in Members(live.mem) : k[1] = v}
      Back(z) == AndThen(create_vswitch(z, v), LAMBDA w : ForEach(ks, w, "attach", live.mem))
  IN /\ ~ ReservedSwitch(v)
     /\ Handle(AndThen(delete_vswitch(Now, v), LAMBDA y : OnError(persist_manager(y), Back)))

-----------------------------------------------------------------------------
(***************************************************************************)
(* The router's side: committed commands, neighbors, the route scan.       *)
(***************************************************************************)
inventory_switch(v) ==
  v \in live.sw /\ \A k \in Members(live.mem) : k[1] = v => ~ Tagged(live.mem[k])

inventory_port(p) == p # Parent /\ \A k \in Members(live.mem) : k[2] # p

\* Every router command prepares the contexts of all RIFs; a changed plan is
\* synchronised at once.
RouterCommand(r, state, d) ==
  LET R == [rif EXCEPT ![r] = state]
      armed == [d EXCEPT !.ctx = {x \in @ : x[1] # r} \union Wanted(d, R)]
  IN /\ up /\ preflight_router_contexts([d EXCEPT !.ctx = {x \in @ : x[1] # r}], R)
     /\ rif' = R
     /\ live' = IF Plan(d, R) # Plan(live, rif) THEN Synced(armed, R) ELSE armed
     /\ UNCHANGED <<up, topo>>

RifAttach(r) ==
  /\ rif[r] = "none"
  /\ IF RifAt[r] \in Vs THEN inventory_switch(RifAt[r])
     ELSE inventory_port(RifAt[r]) /\ ~ ReservedPort(RifAt[r])
  /\ RouterCommand(r, "bare", [live EXCEPT !.uplink = @ \union ({RifAt[r]} \intersect Port)])

\* Ids are not reused: the neighbors of the old interface are not seen again.
RifDetach(r) ==
  /\ rif[r] = "bare"
  /\ RouterCommand(r, "none", [live EXCEPT !.uplink = @ \ {RifAt[r]},
                                           !.nb = {x \in @ : x[1] # r}])

RifAddress(r) == rif[r] = "bare" /\ RouterCommand(r, "addressed", live)

RifUnaddress(r) == rif[r] = "addressed" /\ RouterCommand(r, "bare", live)

\* A station of the vSwitch answers ARP; the handler synchronises the routes.
Learn(r, p) ==
  /\ rif[r] = "addressed" /\ RifAt[r] \in Vs /\ live.mem[<<RifAt[r], p>>] # None
  /\ <<r, p>> \notin live.nb
  /\ Handle(eswitch_manager_hw_routes_sync([Now EXCEPT !.d.nb = @ \union {<<r, p>>}]))

\* Time passes; the next scan takes the route out.
Expire(r, p) ==
  /\ up /\ <<r, p>> \in live.nb
  /\ live' = [live EXCEPT !.nb = @ \ {<<r, p>>}]
  /\ UNCHANGED <<up, topo, rif>>

Maintenance == Handle(eswitch_manager_hw_routes_sync(Now))

RetryDue ==
  /\ up /\ live.backoff /\ live' = [live EXCEPT !.backoff = FALSE]
  /\ UNCHANGED <<up, topo, rif>>

\* A routed frame binds the contexts it needs (bind_route_egress).
bind_route_egress(r, p) ==
  /\ up /\ rif[r] = "addressed"
  /\ RifAt[r] = p \/ (RifAt[r] \in Vs /\ <<r, p>> \in live.nb /\ live.mem[<<RifAt[r], p>>] # None)
  /\ LET new == {x \in Contexts(live, r) : x[3] \in {None, p}}
     IN /\ Cardinality(live.ctx \union new) <= MaxContexts
        /\ live' = [live EXCEPT !.ctx = @ \union new]
  /\ UNCHANGED <<up, topo, rif>>

-----------------------------------------------------------------------------
(***************************************************************************)
(* Crash and restart: restore_manager attaches what the file lists, before *)
(* there is a router, and router_control_restore looks for what its RIFs   *)
(* need.                                                                   *)
(***************************************************************************)
Restored(t, R) ==
  LET empty == [d |-> [EmptyLive EXCEPT !.sw = t.sw], t |-> t, ok |-> TRUE, left |-> 0]
      rifs == {r \in Rif : R[r] # "none"}
      Found(d) == \A r \in rifs :
                    IF RifAt[r] \in Vs
                    THEN RifAt[r] \in d.sw /\ \A k \in Members(d.mem) :
                           k[1] = RifAt[r] => ~ Tagged(d.mem[k])
                    ELSE \A k \in Members(d.mem) : k[2] # RifAt[r]
      ports == {RifAt[r] : r \in rifs} \intersect Port
  IN AndThen(ForEach(Members(t.mem), empty, "restore", t.mem), LAMBDA y :
       IF ~ Found(y.d) THEN Error(y)
       ELSE eswitch_manager_router_prearm([y EXCEPT !.d.uplink = ports], R))

Crash ==
  /\ up /\ up' = FALSE /\ live' = EmptyLive
  /\ UNCHANGED <<topo, rif>>

Restart ==
  /\ ~ up /\ up' = TRUE
  /\ \E o \in Restored(topo, rif) : o.ok /\ live' = o.d
  /\ UNCHANGED <<topo, rif>>

Init ==
  /\ up = TRUE /\ live = EmptyLive /\ topo = Topology(EmptyLive)
  /\ rif = [r \in Rif |-> "none"]

Command ==
  \/ \E v \in Vs : create_vswitch_persisted(v) \/ delete_vswitch_persisted(v)
  \/ \E k \in Pair : detach_port_persisted(k) \/ \E s \in Request : attach_port_persisted(k, s)

Routing ==
  \/ \E r \in Rif : RifAttach(r) \/ RifDetach(r) \/ RifAddress(r) \/ RifUnaddress(r)
  \/ \E r \in Rif, p \in Port : Learn(r, p) \/ Expire(r, p) \/ bind_route_egress(r, p)

Next == Command \/ Routing \/ Maintenance \/ RetryDue \/ Crash \/ Restart

L2Spec == Init /\ [][Next]_l2vars

-----------------------------------------------------------------------------
(***************************************************************************)
(* Properties                                                              *)
(***************************************************************************)
\* Type invariant: what the file, the memory and the switch range over, and
\* the capacity of the classifier (ESWITCH_MAX_VLAN_MEMBERSHIPS).
MemType  == [Pair -> PortSpec \union {None}]
TopoType == [sw : SUBSET Vs, mem : MemType]
Domains  == Vs \union {RifVr[r] : r \in Rif}
Context  == Rif \X Domains \X (Port \union {None})
LiveType == [sw : SUBSET Vs, mem : MemType, rec : [Pair -> Record \union {None}],
             flood : [Vs -> (SUBSET Port) \union {None}], ctx : SUBSET Context,
             uplink : SUBSET Port, nb : SUBSET (Rif \X Port), lpm : SUBSET (Rif \X Port),
             degraded : BOOLEAN, backoff : BOOLEAN]

L2TypeOK ==
  /\ up \in BOOLEAN /\ topo \in TopoType /\ live \in LiveType
  /\ rif \in [Rif -> {"none", "bare", "addressed"}]
  /\ Cardinality(RuleSlots(topo.mem)) <= MaxRules

\* The topology file and the router file are written by different commands.
\* Wherever the daemon stops, the two fit together: the next start finds every
\* port and vSwitch of every RIF (router_control_restore fails otherwise).
Restorable == \A o \in Restored(topo, rif) : o.ok

\* A frame of a port with a given tag is classified into one vSwitch or to the
\* router, never to both (eswitch_pipeline_attach_port).
OneClassifier ==
  /\ \A k, m \in Members(Spec(live.rec)) :
       k[2] = m[2] /\ k # m => live.rec[k].tags \intersect live.rec[m].tags = {}
  /\ \A k \in Members(Spec(live.rec)) : k[2] \in live.uplink => live.rec[k].tags = {}

\* The tags a member's frames may carry.
MemberTags(s) == IF s.mode = "trunk" THEN VlanSet(s) ELSE {0}

\* A command that reports an error after a failing call of a kind in L2Faults
\* leaves memory, file, classifier and flood groups as they were (README.md,
\* CLI.md section 8; a removal that stops in the middle is not undone): the
\* memory the daemon goes on with is what it would start from, a configured port
\* has one rule for every VLAN of its list, and other ports have none.
SwitchesMembers ==
  up => /\ Topology(live) = topo
        /\ \A k \in Pair :
             IF live.mem[k] = None THEN live.rec[k] = None
             ELSE live.rec[k] = [spec |-> live.mem[k], tags |-> MemberTags(live.mem[k])]
        /\ \A v \in Vs : \A p \in Port :
             (live.flood[v] # None /\ p \in live.flood[v]) <=> live.mem[<<v, p>>] # None

\* No return context of a RIF points at the egress gate of a port that has
\* left the vSwitch (unarm_router_member before detach_port).
ContextGateExists ==
  \A x \in live.ctx :
    RifAt[x[1]] \in Vs /\ x[3] # None => live.rec[<<x[2], x[3]>>] # None

=============================================================================
