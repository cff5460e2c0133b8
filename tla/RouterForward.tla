---------------------------- MODULE RouterForward ----------------------------
(***************************************************************************)
(* Where a packet goes: the forwarding decision router_forward.c takes on  *)
(* Arm and the route plan router_hw.c gives the hardware, both from the    *)
(* addresses, static routes, policies and neighbors of the virtual         *)
(* routers.  The two must agree, or a packet takes another path once its   *)
(* flow is offloaded.                                                      *)
(*                                                                         *)
(* Addresses have Width bits in place of 32; everything else about them is *)
(* kept: masks, host parts, the lengths 0 and Width.  A RIF is its place   *)
(* in the interface list.  Of a neighbor entry only the RIF, the address   *)
(* and whether it is still reachable matter here.                          *)
(***************************************************************************)
EXTENDS Naturals, Sequences, FiniteSets, SequencesExt

CONSTANTS
  Width,        \* bits of an address
  Reserved,     \* addresses no interface can have: this-net, loopback, multicast
  NoRoute,      \* destinations never routed: multicast and broadcast
  RifCount,     \* interface_count
  VrOf,         \* the VR of each
  Uplinks,      \* RIFs attached to a physical port, the others to a vSwitch
  IfAddress,    \* <<address, length>> pairs `vr ip add` is called with
  RoutePrefix,  \* <<prefix, length>> pairs `vr route add` is called with
  PolicyRifs,   \* RIFs that may be given an ingress policy
  Stations,     \* addresses that answer ARP or serve as gateways
  MaxRoutes,    \* ROUTER_MAX_ROUTES
  NbrSlots,     \* ROUTER_MAX_NEIGHBORS
  HwCapacity,   \* hw_route_capacity
  None

Rif == 1..RifCount
Addr == 0..(2^Width - 1)
PrefixLen == 0..Width
Route == [rif : Rif, prefix : Addr, len : PrefixLen, gw : Addr]
Slot  == 1..NbrSlots
Nbr   == [rif : Rif, ip : Addr, live : BOOLEAN]

ASSUME ForwardAssumption ==
  /\ Width \in Nat \ {0, 1}
  /\ RifCount \in Nat /\ Uplinks \subseteq Rif /\ VrOf \in [Rif -> Nat] /\ PolicyRifs \subseteq Rif
  /\ IfAddress \subseteq Addr \X PrefixLen /\ RoutePrefix \subseteq Addr \X PrefixLen
  /\ Stations \subseteq Addr
  /\ MaxRoutes \in Nat /\ NbrSlots \in Nat /\ HwCapacity \in Nat
  /\ None \notin Addr \union Nbr

VARIABLES
  addr,     \* the address of each RIF, or None
  routes,   \* the static routes, in the order they were added
  nat,      \* the RIFs that have a NAT policy
  ingress,  \* the RIFs that have an ingress policy
  nbrs      \* the slots of the neighbor table

forwardVars == <<addr, routes, nat, ingress, nbrs>>

-----------------------------------------------------------------------------
(***************************************************************************)
(* Prefix arithmetic: router.c mask, usable_address, and the matches of    *)
(* both lookups.                                                           *)
(***************************************************************************)
PowerOf2[k \in 0..Width] == IF k = 0 THEN 1 ELSE 2 * PowerOf2[k - 1]

HostSize(len)       == PowerOf2[Width - len]
Masked(ip, len)     == ip - (ip % HostSize(len))
Covers(p, len, ip)  == Masked(ip, len) = p
SameSubnet(a, b, l) == Masked(a, l) = Masked(b, l)

usable_address(ip, len) ==
  /\ ip \notin Reserved
  /\ len # 0
  /\ len < Width - 1 => ip % HostSize(len) \notin {0, HostSize(len) - 1}

InSubnet(r, ip) == addr[r] # None /\ SameSubnet(ip, addr[r].ip, addr[r].len)

-----------------------------------------------------------------------------
(* router_ipv4_lookup: both loops keep the best route found so far.        *)

Found(r, hop, len, conn) == [egress |-> r, hop |-> hop, len |-> len, conn |-> conn]
Nothing == [egress |-> None, hop |-> None, len |-> 0, conn |-> FALSE]

ConnectedStep(vr, d, best, r) ==
  IF /\ VrOf[r] = vr /\ InSubnet(r, d)
     /\ \/ best.hop = None
        \/ addr[r].len > best.len
        \/ addr[r].len = best.len /\ ~ best.conn
  THEN Found(r, d, addr[r].len, TRUE)
  ELSE best

\* Mutant: a static route wins ties.
StaticStepTies(vr, d, best, route) ==
  IF \/ VrOf[route.rif] # vr
     \/ ~ Covers(route.prefix, route.len, d)
     \/ best.hop # None /\ route.len < best.len
  THEN best ELSE Found(route.rif, route.gw, route.len, FALSE)

\* `egress` is assigned before the loop knows whether that RIF is usable.
StaticStep(vr, d, best, route) ==
  IF \/ VrOf[route.rif] # vr
     \/ ~ Covers(route.prefix, route.len, d)
     \/ best.hop # None /\ route.len <= best.len
  THEN best
  ELSE IF addr[route.rif] = None
       THEN [best EXCEPT !.egress = route.rif]
       ELSE Found(route.rif, route.gw, route.len, FALSE)

\* The best of the first n interfaces, then with the first n static routes.
BestConnected(vr, d) ==
  LET best[n \in 0..RifCount] ==
        IF n = 0 THEN Nothing ELSE ConnectedStep(vr, d, best[n-1], n)
  IN best[RifCount]

BestRoute(vr, d) ==
  LET best[n \in 0..Len(routes)] ==
        IF n = 0 THEN BestConnected(vr, d) ELSE StaticStep(vr, d, best[n-1], routes[n])
  IN best[Len(routes)]

LocalAddr(vr) == {addr[r].ip : r \in {s \in Rif : VrOf[s] = vr /\ addr[s] # None}}

Decision(kind, route) == [kind |-> kind, route |-> route]

lookup_with_ingress(r, d) ==
  LET best == BestRoute(VrOf[r], d)
  IN  IF d \in NoRoute THEN Decision("no_route", Nothing)
      ELSE IF d \in LocalAddr(VrOf[r]) THEN Decision("local", Nothing)
      ELSE IF best.hop = None THEN Decision("no_route", Nothing)
      ELSE Decision("forward", best)

-----------------------------------------------------------------------------
(* router_hw_routes_build and what an LPM lookup does with its result.     *)

HwRoute(r, prefix, len, hop) ==
  [vr |-> VrOf[r], egress |-> r, prefix |-> prefix, len |-> len, hop |-> hop]

\* A plan stops growing at the first append_route that finds it full.
append_route(plan, e) ==
  CASE plan.full -> plan
    [] ~ plan.full /\ Len(plan.seq) >= HwCapacity -> [plan EXCEPT !.full = TRUE]
    [] OTHER ->
         IF \E i \in DOMAIN plan.seq :
              /\ plan.seq[i].vr = e.vr
              /\ plan.seq[i].prefix = e.prefix /\ plan.seq[i].len = e.len
         THEN plan
         ELSE [plan EXCEPT !.seq = Append(@, e)]

\* An ingress policy keeps its whole VR on Arm.
router_ingress_vr_has_policy(vr) == \E r \in ingress : VrOf[r] = vr

Promotable(r) ==
  /\ ~ router_ingress_vr_has_policy(VrOf[r])
  /\ r \notin Uplinks /\ addr[r] # None /\ r \notin nat

\* Mutant: a route of another VR counts.
StaticWinsAnyVr(r, ip) ==
  \E i \in DOMAIN routes :
    /\ routes[i].len > addr[r].len
    /\ Covers(routes[i].prefix, routes[i].len, ip)

static_route_wins(r, ip) ==
  \E i \in DOMAIN routes :
    /\ VrOf[routes[i].rif] = VrOf[r]
    /\ routes[i].len > addr[r].len
    /\ Covers(routes[i].prefix, routes[i].len, ip)

Resolved(r, ip) == \E s \in Slot : nbrs[s] = [rif |-> r, ip |-> ip, live |-> TRUE]

HostStep(plan, n) ==
  IF n # None /\ n.live /\ Promotable(n.rif) /\ ~ static_route_wins(n.rif, n.ip)
  THEN append_route(plan, HwRoute(n.rif, n.ip, Width, n.ip))
  ELSE plan

PrefixStep(plan, route) ==
  IF Promotable(route.rif) /\ Resolved(route.rif, route.gw)
  THEN append_route(plan, HwRoute(route.rif, route.prefix, route.len, route.gw))
  ELSE plan

\* The plan after the first n neighbors, then with the first n static routes.
HostPlan ==
  LET plan[n \in 0..NbrSlots] ==
        IF n = 0 THEN [seq |-> <<>>, full |-> FALSE] ELSE HostStep(plan[n-1], nbrs[n])
  IN plan[NbrSlots]

router_hw_routes_build ==
  LET plan[n \in 0..Len(routes)] ==
        IF n = 0 THEN HostPlan ELSE PrefixStep(plan[n-1], routes[n])
  IN plan[Len(routes)]

Plan == Range(router_hw_routes_build.seq)

\* ESW_LOCAL_IP holds the ingress RIF's own address; all else reaches the LPM.
HwHits(plan, r, d) ==
  IF addr[r] # None /\ addr[r].ip = d THEN {}
  ELSE {e \in plan : e.vr = VrOf[r] /\ Covers(e.prefix, e.len, d)}

HwPick(hits) == CHOOSE e \in hits : \A f \in hits : f.len <= e.len

-----------------------------------------------------------------------------
(* The router commands that change a route, and the neighbor table.        *)

IpAdd(r, a) ==
  /\ addr[r] = None
  /\ usable_address(a[1], a[2])
  /\ \A s \in Rif :
       VrOf[s] = VrOf[r] /\ addr[s] # None =>
         ~ SameSubnet(addr[s].ip, a[1], IF addr[s].len < a[2] THEN addr[s].len ELSE a[2])
  /\ addr' = [addr EXCEPT ![r] = [ip |-> a[1], len |-> a[2]]]
  /\ UNCHANGED <<routes, nat, ingress, nbrs>>

RoutesReference(r) == \E i \in DOMAIN routes : routes[i].rif = r

IpDel(r) ==
  /\ addr[r] # None
  /\ ~ RoutesReference(r) /\ r \notin nat
  /\ addr' = [addr EXCEPT ![r] = None]
  /\ UNCHANGED <<routes, nat, ingress, nbrs>>

RouteAdd(r, p, gw) ==
  /\ Masked(p[1], p[2]) = p[1]
  /\ InSubnet(r, gw) /\ usable_address(gw, addr[r].len) /\ gw # addr[r].ip
  /\ Len(routes) < MaxRoutes
  /\ \A i \in DOMAIN routes :
       ~ (VrOf[routes[i].rif] = VrOf[r] /\ routes[i].prefix = p[1] /\ routes[i].len = p[2])
  /\ routes' = Append(routes, [rif |-> r, prefix |-> p[1], len |-> p[2], gw |-> gw])
  /\ UNCHANGED <<addr, nat, ingress, nbrs>>

IsDefault(route) == route.len = 0

NatOf(vr) == {r \in nat : VrOf[r] = vr}

RouteDel(i) ==
  /\ ~ (IsDefault(routes[i]) /\ routes[i].rif \in nat)
  /\ routes' = RemoveAt(routes, i)
  /\ UNCHANGED <<addr, nat, ingress, nbrs>>

NatEnable(r) ==
  /\ NatOf(VrOf[r]) = {} /\ addr[r] # None
  /\ \E i \in DOMAIN routes : IsDefault(routes[i]) /\ routes[i].rif = r
  /\ nat' = nat \union {r}
  /\ UNCHANGED <<addr, routes, ingress, nbrs>>

NatDisable(r) ==
  /\ nat' = nat \ {r}
  /\ UNCHANGED <<addr, routes, ingress, nbrs>>

\* IP_DEL looks at no policy, so a policy may outlive its address.
IngressPolicySet(r) ==
  /\ addr[r] # None
  /\ ingress' = ingress \union {r}
  /\ UNCHANGED <<addr, routes, nat, nbrs>>

IngressPolicyDelete(r) ==
  /\ ingress' = ingress \ {r}
  /\ UNCHANGED <<addr, routes, nat, nbrs>>

\* learn_on_interface: the sender lies in the RIF's subnet and is not the RIF.
FreeSlots == {s \in Slot : nbrs[s] = None}
SlotsOf(r, ip) == {s \in Slot : nbrs[s] # None /\ nbrs[s].rif = r /\ nbrs[s].ip = ip}

Learn(r, ip) ==
  /\ ip # 0 /\ InSubnet(r, ip) /\ ip # addr[r].ip
  /\ LET known == SlotsOf(r, ip)
         room  == IF known # {} THEN known ELSE FreeSlots
     IN  /\ room # {}
         /\ nbrs' = [nbrs EXCEPT ![CHOOSE s \in room : \A t \in room : s <= t] =
                       [rif |-> r, ip |-> ip, live |-> TRUE]]
  /\ UNCHANGED <<addr, routes, nat, ingress>>

\* ROUTER_NEIGHBOR_REACHABLE_NS pass without an ARP of the station.
Expire(s) ==
  /\ nbrs[s] # None /\ nbrs[s].live
  /\ nbrs' = [nbrs EXCEPT ![s].live = FALSE]
  /\ UNCHANGED <<addr, routes, nat, ingress>>

router_neighbor_age ==
  /\ \E s \in Slot : nbrs[s] # None /\ ~ nbrs[s].live
  /\ nbrs' = [s \in Slot |-> IF nbrs[s] # None /\ ~ nbrs[s].live THEN None ELSE nbrs[s]]
  /\ UNCHANGED <<addr, routes, nat, ingress>>

Init ==
  /\ addr = [r \in Rif |-> None]
  /\ routes = <<>>
  /\ nat = {} /\ ingress = {}
  /\ nbrs = [s \in Slot |-> None]

Next ==
  \/ \E r \in Rif :
       \/ \E a \in IfAddress : IpAdd(r, a)
       \/ IpDel(r)
       \/ \E p \in RoutePrefix, gw \in Stations : RouteAdd(r, p, gw)
       \/ NatEnable(r)
       \/ \E ip \in Stations : Learn(r, ip)
  \/ \E r \in nat : NatDisable(r)
  \/ \E r \in PolicyRifs : IngressPolicySet(r)
  \/ \E r \in ingress : IngressPolicyDelete(r)
  \/ \E i \in DOMAIN routes : RouteDel(i)
  \/ \E s \in Slot : Expire(s)
  \/ router_neighbor_age

ForwardSpec == Init /\ [][Next]_forwardVars

-----------------------------------------------------------------------------
(***************************************************************************)
(* Types, and the links a route depends on: it leaves through an addressed *)
(* RIF, towards a gateway of that RIF's subnet.                            *)
(***************************************************************************)
ForwardTypeOK ==
  /\ addr \in [Rif -> [ip : Addr \ Reserved, len : PrefixLen \ {0}] \union {None}]
  /\ routes \in Seq(Route) /\ Len(routes) <= MaxRoutes
  /\ \A i \in DOMAIN routes : InSubnet(routes[i].rif, routes[i].gw)
  /\ nat \subseteq Rif /\ ingress \subseteq Rif
  /\ nbrs \in [Slot -> Nbr \union {None}]

\* All routes to d a VR has, connected and static.
Candidates(vr, d) ==
  {Found(r, d, addr[r].len, TRUE) : r \in {s \in Rif : VrOf[s] = vr /\ InSubnet(s, d)}}
    \union
  {Found(routes[i].rif, routes[i].gw, routes[i].len, FALSE) :
     i \in {j \in DOMAIN routes : /\ VrOf[routes[j].rif] = vr
                                  /\ Covers(routes[j].prefix, routes[j].len, d)}}

(***************************************************************************)
(* The loops of lookup_with_ingress decide as longest-prefix routing is    *)
(* defined: no route of the VR that covers the destination is longer than  *)
(* the one taken, a connected route wins a tie, and a packet is dropped    *)
(* only when the VR has no route at all.  It rests on what the validators  *)
(* keep true over any sequence of commands: the static loop replaces       *)
(* `egress` before it knows the RIF to be usable.                          *)
(***************************************************************************)
LookupIsLongest ==
  \A r \in Rif, d \in Addr \ NoRoute :
    LET all == Candidates(VrOf[r], d)
        dec == lookup_with_ingress(r, d)
    IN  addr[r] # None /\ d \notin LocalAddr(VrOf[r]) =>
          IF all = {} THEN dec.kind = "no_route"
          ELSE /\ dec.kind = "forward"
               /\ dec.route \in all
               /\ \A c \in all \ {dec.route} :
                    c.len < dec.route.len \/ (c.len = dec.route.len /\ dec.route.conn)

(***************************************************************************)
(* A destination whose Arm route leaves through a private RIF and whose    *)
(* next hop is resolved takes that same route in hardware: the order of    *)
(* the plan, its /32 entries for connected stations and static_route_wins  *)
(* reproduce the Arm decision.  (While the plan fits, and no neighbor      *)
(* outlived a change of its RIF's address.)                                *)
(***************************************************************************)
SameHop(e, route) == e.egress = route.egress /\ e.hop = route.hop

NeighborsOnLink == \A s \in Slot : nbrs[s] # None /\ nbrs[s].live =>
                     InSubnet(nbrs[s].rif, nbrs[s].ip)

ResolvedLikeArm ==
  LET build == router_hw_routes_build
      plan  == Range(build.seq)
  IN  NeighborsOnLink /\ ~ build.full =>
        \A r \in Rif \ Uplinks, d \in Addr :
          LET dec  == lookup_with_ingress(r, d)
              hits == HwHits(plan, r, d)
          IN  /\ addr[r] # None /\ dec.kind = "forward"
              /\ Promotable(dec.route.egress)
              /\ Resolved(dec.route.egress, dec.route.hop)
              => hits # {} /\ SameHop(HwPick(hits), dec.route)

(***************************************************************************)
(* What the documents say beyond that: longest-prefix semantics.  When Arm *)
(* forwards a packet between two RIFs, the hardware either has no route    *)
(* for it (Arm then forwards it) or one at least as long as the Arm's.     *)
(***************************************************************************)
HwKeepsLongestPrefix ==
  NeighborsOnLink =>
    \A r \in Rif \ Uplinks, d \in Addr :
      LET dec  == lookup_with_ingress(r, d)
          hits == HwHits(Plan, r, d)
      IN  /\ addr[r] # None /\ dec.kind = "forward" /\ dec.route.egress # r
          /\ hits # {}
          => HwPick(hits).len >= dec.route.len
=============================================================================
