---------------------------- MODULE RouterConfig ----------------------------
(***************************************************************************)
(* The desired router configuration and its validator, router_command of   *)
(* router/router.c: virtual routers, links between them, interfaces        *)
(* (RIFs), static routes, NAT policies, port forwards and the two filters. *)
(*                                                                         *)
(* One action per mutating command; a command that fails a check changes   *)
(* nothing and is a stuttering step, as are the show commands.  Each       *)
(* command is a pair CanX(c, ..) / WithX(c, ..) over a configuration c, so *)
(* that RouterReload can replay the same validator on a candidate.         *)
(*                                                                         *)
(* The arrays are sets: entries are appended, removed in place and written *)
(* to the state file in array order, and no command depends on the order.  *)
(* An address is a subnet and a host in it; usable_address and the syntax  *)
(* checks of parse hold of every input.                                    *)
(***************************************************************************)
EXTENDS Integers, FiniteSets

CONSTANTS
  Vr, Link, Name,  \* ids of VRs and links, interface names
  Switch, Vf,      \* vSwitches and VF representors of the inventory
  Net, Host,       \* subnets, hosts within a subnet
  Nested,          \* pairs of different subnets that overlap
  Dest, Default,   \* route prefixes other than 0.0.0.0/0, and 0.0.0.0/0
  Forward,         \* port-forward inputs: protocol, port sets, private host
  RuleId,          \* ids of port forwards and filter rules
  MacInput,        \* MACs `vr interface set` may be given
  Filters,         \* filters that are configured: subset of {"egress", "ingress"}
  MaxId,           \* UINT16_MAX, the last interface id
  MaxVrs, MaxLinks, MaxInterfaces, MaxRoutes, MaxForwards, MaxPolicies, MaxRules,
  NoAddr           \* has_address is false

Addr == [net : Net, host : Host]
Kind == {"switch", "port", "link"}
Mac  == (Vr \X (1..MaxId)) \union MacInput

RcInterface ==
  [vr : Vr, id : 1..MaxId, name : Name, kind : Kind,
   at : Switch \union Vf \union Link, mac : Mac, addr : Addr \union {NoAddr}]
RcRoute   == [vr : Vr, rif : 1..MaxId, dest : Dest \union {Default}, gw : Addr]
RcNat     == [vr : Vr, rif : 1..MaxId, pub : Addr \union {NoAddr}]
RcForward == [vr : Vr, rif : 1..MaxId, id : RuleId, map : Forward, pub : Addr]
RcPolicy  == [dir : Filters, vr : Vr, rif : 1..MaxId, allow : BOOLEAN]
RcRule    == [dir : Filters, vr : Vr, rif : 1..MaxId, id : RuleId]

RcConfig ==
  [vrs : SUBSET Vr, links : SUBSET Link, next : 1..(MaxId + 1),
   ifs : SUBSET RcInterface, routes : SUBSET RcRoute, nats : SUBSET RcNat,
   pfs : SUBSET RcForward, policies : SUBSET RcPolicy, rules : SUBSET RcRule]

ASSUME RcAssumption ==
  /\ MaxId \in Nat \ {0}
  /\ {MaxVrs, MaxLinks, MaxInterfaces, MaxRoutes, MaxForwards, MaxPolicies,
      MaxRules} \subseteq Nat
  /\ Nested \subseteq Net \X Net
  /\ NoAddr \notin Addr
  /\ Default \notin Dest
  /\ Filters \subseteq {"egress", "ingress"}
  /\ \A f \in Forward : {"proto", "pub", "ip", "priv"} = DOMAIN f

VARIABLE rc   \* m->router, the committed configuration

(***************************************************************************)
(* router_config_init.                                                     *)
(***************************************************************************)
EmptyConfig ==
  [vrs |-> {}, links |-> {}, next |-> 1, ifs |-> {}, routes |-> {}, nats |-> {},
   pfs |-> {}, policies |-> {}, rules |-> {}]

(***************************************************************************)
(* The reference checks: which entries use an interface.                   *)
(***************************************************************************)
Uses(S, rif) == \E x \in S : x.rif = rif

FilterUses(c, dir, rif) == \E p \in c.policies : p.dir = dir /\ p.rif = rif

NatOf(c, vr) == {n \in c.nats : n.vr = vr}

\* router_link_peer
Peers(c, r) ==
  {p \in c.ifs : r.kind = "link" /\ p.kind = "link" /\ p.at = r.at /\ p.id # r.id}

PeerRoutesUse(c, r) ==
  \E p \in Peers(c, r), x \in c.routes : x.rif = p.id /\ x.gw = r.addr

Overlap(a, b) ==
  a.net = b.net \/ <<a.net, b.net>> \in Nested \/ <<b.net, a.net>> \in Nested

Replaced(c, r, s) == [c EXCEPT !.ifs = (@ \ {r}) \union {s}]

-----------------------------------------------------------------------------
(***************************************************************************)
(* vr create/delete, link create/delete.                                   *)
(***************************************************************************)
CanCreate(c, vr) == vr \notin c.vrs /\ Cardinality(c.vrs) < MaxVrs
WithVr(c, vr)    == [c EXCEPT !.vrs = @ \union {vr}]
CanDelete(c, vr) == vr \in c.vrs /\ \A r \in c.ifs : r.vr # vr
WithoutVr(c, vr) == [c EXCEPT !.vrs = @ \ {vr}]

CanLinkCreate(c, l) == l \notin c.links /\ Cardinality(c.links) < MaxLinks
WithLink(c, l)      == [c EXCEPT !.links = @ \union {l}]
CanLinkDelete(c, l) == l \in c.links /\ \A r \in c.ifs : r.kind = "link" => r.at # l
WithoutLink(c, l)   == [c EXCEPT !.links = @ \ {l}]

(***************************************************************************)
(* vr port/switch/link attach.  The new interface has the next id and a    *)
(* MAC made of its VR and id, whether or not some RIF was given that MAC.  *)
(***************************************************************************)
\* Mutant: the id counter's last value is taken for an id.
IdLeftLate(c) == c.next <= MaxId + 1

IdLeft(c) == c.next <= MaxId

CanAttach(c, vr, name, kind, at) ==
  /\ vr \in c.vrs
  /\ \A r \in c.ifs : ~(r.vr = vr /\ r.name = name)
  /\ Cardinality(c.ifs) < MaxInterfaces
  /\ IdLeft(c)
  /\ kind = "port" => \A r \in c.ifs : r.kind = "port" => r.at # at /\ r.vr # vr
  /\ kind = "link" =>
       LET ends == {r \in c.ifs : r.kind = "link" /\ r.at = at}
       IN at \in c.links /\ Cardinality(ends) < 2 /\ \A r \in ends : r.vr # vr

WithInterface(c, vr, name, kind, at) ==
  [c EXCEPT !.ifs = @ \union {[vr |-> vr, id |-> c.next, name |-> name, kind |-> kind,
                               at |-> at, mac |-> <<vr, c.next>>, addr |-> NoAddr]},
            !.next = @ + 1]

\* Mutant: the ingress filter is not consulted.
CanDetachFiltered(c, r) ==
  /\ r.addr = NoAddr
  /\ ~Uses(c.routes, r.id) /\ ~Uses(c.nats, r.id) /\ ~Uses(c.pfs, r.id)
  /\ ~FilterUses(c, "egress", r.id)

CanDetach(c, r) ==
  /\ r.addr = NoAddr
  /\ ~Uses(c.routes, r.id)
  /\ ~Uses(c.nats, r.id)
  /\ ~Uses(c.pfs, r.id)
  /\ ~FilterUses(c, "egress", r.id)
  /\ ~FilterUses(c, "ingress", r.id)

WithoutInterface(c, r) == [c EXCEPT !.ifs = @ \ {r}]

(***************************************************************************)
(* vr ip add/del and vr interface set.                                     *)
(***************************************************************************)
CanIpAdd(c, r, a) ==
  /\ r.addr = NoAddr
  /\ \A s \in c.ifs :
       s.addr # NoAddr =>
         /\ s.vr = r.vr => ~Overlap(s.addr, a)
         /\ r.kind = "switch" /\ s.kind = "switch" /\ s.at = r.at => s.addr # a
  /\ \A p \in Peers(c, r) : p.addr # NoAddr => p.addr.net = a.net /\ p.addr # a

\* Mutants: port forwards, own routes, the peer's routes are not consulted.
CanIpDelForwarded(c, r) ==
  r.addr # NoAddr /\ ~Uses(c.routes, r.id) /\ ~Uses(c.nats, r.id) /\ ~PeerRoutesUse(c, r)
CanIpDelRouted(c, r) ==
  r.addr # NoAddr /\ ~Uses(c.nats, r.id) /\ ~Uses(c.pfs, r.id) /\ ~PeerRoutesUse(c, r)
CanIpDelPeerRouted(c, r) ==
  r.addr # NoAddr /\ ~Uses(c.routes, r.id) /\ ~Uses(c.nats, r.id) /\ ~Uses(c.pfs, r.id)

CanIpDel(c, r) ==
  /\ r.addr # NoAddr
  /\ ~Uses(c.routes, r.id)
  /\ ~Uses(c.nats, r.id)
  /\ ~Uses(c.pfs, r.id)
  /\ ~PeerRoutesUse(c, r)

WithAddress(c, r, a) == Replaced(c, r, [r EXCEPT !.addr = a])

CanMacSet(c, r, mac) == \A s \in c.ifs : s.mac = mac => s = r
WithMac(c, r, mac)   == Replaced(c, r, [r EXCEPT !.mac = mac])

(***************************************************************************)
(* vr route add/del.                                                       *)
(***************************************************************************)
CanRouteAdd(c, r, dest, gw) ==
  /\ r.addr # NoAddr /\ gw # r.addr /\ gw.net = r.addr.net
  /\ r.kind = "link" => \E p \in Peers(c, r) : p.addr = gw
  /\ Cardinality(c.routes) < MaxRoutes
  /\ \A x \in c.routes : ~(x.vr = r.vr /\ x.dest = dest)

WithRoute(c, r, dest, gw) ==
  [c EXCEPT !.routes = @ \union {[vr |-> r.vr, rif |-> r.id, dest |-> dest, gw |-> gw]}]

CanRouteDelAlways(c, x) == TRUE   \* mutant: NAT is not consulted
CanRouteDel(c, x) ==
  x.dest = Default => \A n \in NatOf(c, x.vr) : n.rif # x.rif
WithoutRoute(c, x) == [c EXCEPT !.routes = @ \ {x}]

(***************************************************************************)
(* vr nat enable/disable.  pub is NoAddr for `--address interface`.        *)
(***************************************************************************)
CanNatEnable(c, r, pub) ==
  /\ NatOf(c, r.vr) = {}
  /\ r.kind # "link" /\ r.addr # NoAddr
  /\ ~FilterUses(c, "egress", r.id)
  /\ \E x \in c.routes : x.vr = r.vr /\ x.rif = r.id /\ x.dest = Default
  /\ pub \in {NoAddr, r.addr}
  /\ Cardinality(c.nats) < MaxVrs

WithNat(c, r, pub) ==
  [c EXCEPT !.nats = @ \union {[vr |-> r.vr, rif |-> r.id, pub |-> pub]}]
WithoutNat(c, vr)  == [c EXCEPT !.nats = @ \ NatOf(c, vr)]

(***************************************************************************)
(* vr port-forward add/delete.  Port ranges are sets of ports; the overlap *)
(* of private ranges is tolerated between two single ports.                *)
(***************************************************************************)
PrivateClash(f, g) ==
  /\ Cardinality(f.priv) > 1 \/ Cardinality(g.priv) > 1
  /\ f.proto = g.proto /\ f.ip = g.ip /\ f.priv \cap g.priv # {}

CanForwardAdd(c, r, id, f) ==
  /\ ~FilterUses(c, "egress", r.id)
  /\ r.kind # "link" /\ r.addr # NoAddr
  /\ \A n \in NatOf(c, r.vr) : n.rif = r.id
  /\ \A x \in {y \in c.pfs : y.vr = r.vr} :
       /\ x.id # id
       /\ x.map.proto = f.proto /\ x.pub = r.addr => x.map.pub \cap f.pub = {}
       /\ ~PrivateClash(x.map, f)
  /\ Cardinality(c.pfs) < MaxForwards

WithForward(c, r, id, f) ==
  [c EXCEPT !.pfs = @ \union
     {[vr |-> r.vr, rif |-> r.id, id |-> id, map |-> f, pub |-> r.addr]}]
WithoutForward(c, x) == [c EXCEPT !.pfs = @ \ {x}]

(***************************************************************************)
(* vr egress|ingress policy set/delete and rule add/delete.                *)
(***************************************************************************)
CanFilter(dir, r) ==
  IF dir = "egress" THEN r.kind = "switch" ELSE r.kind # "link" /\ r.addr # NoAddr

PolicyOf(c, dir, r) == {p \in c.policies : p.dir = dir /\ p.vr = r.vr /\ p.rif = r.id}
RulesOf(c, dir, r)  == {x \in c.rules : x.dir = dir /\ x.vr = r.vr /\ x.rif = r.id}

\* Mutant: port forwards are not consulted.
CanPolicySetForwarded(c, dir, r) ==
  /\ CanFilter(dir, r)
  /\ dir = "egress" => \A n \in NatOf(c, r.vr) : n.rif # r.id
  /\ PolicyOf(c, dir, r) = {} =>
       Cardinality({p \in c.policies : p.dir = dir}) < MaxPolicies

CanPolicySet(c, dir, r) ==
  /\ CanFilter(dir, r)
  /\ dir = "egress" => (\A n \in NatOf(c, r.vr) : n.rif # r.id) /\ ~Uses(c.pfs, r.id)
  /\ PolicyOf(c, dir, r) = {} =>
       Cardinality({p \in c.policies : p.dir = dir}) < MaxPolicies

WithPolicy(c, dir, r, allow) ==
  [c EXCEPT !.policies = (@ \ PolicyOf(c, dir, r)) \union
     {[dir |-> dir, vr |-> r.vr, rif |-> r.id, allow |-> allow]}]

CanPolicyDelete(c, dir, r) == PolicyOf(c, dir, r) # {} /\ RulesOf(c, dir, r) = {}
WithoutPolicy(c, dir, r)   == [c EXCEPT !.policies = @ \ PolicyOf(c, dir, r)]

CanRuleAdd(c, dir, r, id) ==
  /\ CanFilter(dir, r)
  /\ PolicyOf(c, dir, r) # {}
  /\ \A x \in RulesOf(c, dir, r) : x.id # id
  /\ Cardinality({x \in c.rules : x.dir = dir}) < MaxRules

WithRule(c, dir, r, id) ==
  [c EXCEPT !.rules = @ \union {[dir |-> dir, vr |-> r.vr, rif |-> r.id, id |-> id]}]
WithoutRule(c, x) == [c EXCEPT !.rules = @ \ {x}]

-----------------------------------------------------------------------------
(***************************************************************************)
(* The commands, as router_control_command commits them.                   *)
(***************************************************************************)
Create(vr)     == CanCreate(rc, vr) /\ rc' = WithVr(rc, vr)
Delete(vr)     == CanDelete(rc, vr) /\ rc' = WithoutVr(rc, vr)
LinkCreate(l)  == CanLinkCreate(rc, l) /\ rc' = WithLink(rc, l)
LinkDelete(l)  == CanLinkDelete(rc, l) /\ rc' = WithoutLink(rc, l)

Attach(vr, name, kind, at) ==
  CanAttach(rc, vr, name, kind, at) /\ rc' = WithInterface(rc, vr, name, kind, at)
AttachSwitch(vr, name) == \E at \in Switch : Attach(vr, name, "switch", at)
AttachPort(vr, name)   == \E at \in Vf : Attach(vr, name, "port", at)
AttachLink(vr, name)   == \E at \in Link : Attach(vr, name, "link", at)
Detach(r)   == CanDetach(rc, r) /\ rc' = WithoutInterface(rc, r)

IpAdd(r)    == \E a \in Addr : CanIpAdd(rc, r, a) /\ rc' = WithAddress(rc, r, a)
IpDel(r)    == CanIpDel(rc, r) /\ rc' = WithAddress(rc, r, NoAddr)
MacSet(r)   == \E m \in MacInput : CanMacSet(rc, r, m) /\ rc' = WithMac(rc, r, m)

RouteAdd(r) == \E dest \in Dest \union {Default}, gw \in Addr :
                 CanRouteAdd(rc, r, dest, gw) /\ rc' = WithRoute(rc, r, dest, gw)
RouteDel    == \E x \in rc.routes : CanRouteDel(rc, x) /\ rc' = WithoutRoute(rc, x)

NatEnable(r)   == \E pub \in Addr \union {NoAddr} :
                    CanNatEnable(rc, r, pub) /\ rc' = WithNat(rc, r, pub)
NatDisable(vr) == NatOf(rc, vr) # {} /\ rc' = WithoutNat(rc, vr)

ForwardAdd(r)  == \E id \in RuleId, f \in Forward :
                    CanForwardAdd(rc, r, id, f) /\ rc' = WithForward(rc, r, id, f)
ForwardDelete  == \E x \in rc.pfs : rc' = WithoutForward(rc, x)

PolicySet(dir, r)    == \E allow \in BOOLEAN :
                          CanPolicySet(rc, dir, r) /\ rc' = WithPolicy(rc, dir, r, allow)
PolicyDelete(dir, r) == CanPolicyDelete(rc, dir, r) /\ rc' = WithoutPolicy(rc, dir, r)
RuleAdd(dir, r)      == \E id \in RuleId :
                          CanRuleAdd(rc, dir, r, id) /\ rc' = WithRule(rc, dir, r, id)
RuleDelete           == \E x \in rc.rules : rc' = WithoutRule(rc, x)

RcInit == rc = EmptyConfig

RcNext ==
  \/ \E vr \in Vr : Create(vr) \/ Delete(vr) \/ NatDisable(vr)
  \/ \E l \in Link : LinkCreate(l) \/ LinkDelete(l)
  \/ \E vr \in Vr, name \in Name :
       AttachSwitch(vr, name) \/ AttachPort(vr, name) \/ AttachLink(vr, name)
  \/ \E r \in rc.ifs :
       \/ Detach(r) \/ IpAdd(r) \/ IpDel(r) \/ MacSet(r)
       \/ RouteAdd(r) \/ NatEnable(r) \/ ForwardAdd(r)
       \/ \E dir \in Filters : PolicySet(dir, r) \/ PolicyDelete(dir, r) \/ RuleAdd(dir, r)
  \/ RouteDel
  \/ ForwardDelete
  \/ RuleDelete

RcSpec == RcInit /\ [][RcNext]_rc

-----------------------------------------------------------------------------
\* The configuration keeps its shape and its ids stay 16 bits wide: attach
\* refuses before next_interface_id, which is wider than an id, passes
\* UINT16_MAX + 1.
RcTypeOK == rc \in RcConfig

\* Nothing points at an object that is gone: the interfaces of a VR and of a
\* link keep it, and a route, NAT policy, port forward, filter policy or rule
\* names an interface of its own VR.  router_config_save would refuse a
\* dangling reference after the dataplane was already reprogrammed.
NoDanglingReference ==
  /\ \A r \in rc.ifs :
       /\ r.vr \in rc.vrs
       /\ r.id < rc.next
       /\ r.kind = "link" => r.at \in rc.links
  /\ \A r, s \in rc.ifs : r.id = s.id => r = s
  /\ \A x \in rc.routes \union rc.nats \union rc.pfs \union rc.policies \union rc.rules :
       \E r \in rc.ifs : r.id = x.rif /\ r.vr = x.vr

\* An enabled NAT policy keeps what `vr nat enable` required of it, through
\* every later command: one policy per VR, on an addressed non-link RIF that
\* owns the VR's default route, with that RIF's address as public address.
NatOwnsUplink ==
  \A n \in rc.nats :
    /\ NatOf(rc, n.vr) = {n}
    /\ \E r \in rc.ifs :
         /\ r.id = n.rif /\ r.kind # "link" /\ r.addr # NoAddr
         /\ n.pub \in {NoAddr, r.addr}
         /\ \E x \in rc.routes : x.vr = n.vr /\ x.rif = n.rif /\ x.dest = Default

\* Port forwards of a VR never compete for a public endpoint (the premise of
\* the NAT table's lookups), and their stored public_ip is the address their
\* RIF still has.
ForwardsDisjoint ==
  \A x \in rc.pfs :
    /\ \E r \in rc.ifs : r.id = x.rif /\ r.addr = x.pub
    /\ \A y \in rc.pfs :
         (x.vr = y.vr /\ x.map.proto = y.map.proto /\ x.pub = y.pub /\ x # y)
           => x.id # y.id /\ x.map.pub \cap y.map.pub = {}

\* The guest egress filter and the public side exclude each other in whichever
\* order they are configured, and a rule never outlives its policy: without a
\* policy the dataplane would not consult the rule at all.
PublicRifUnfiltered ==
  /\ \A p \in rc.policies :
       p.dir = "egress" => ~Uses(rc.nats, p.rif) /\ ~Uses(rc.pfs, p.rif)
  /\ \A x \in rc.rules :
       \E p \in rc.policies : p.dir = x.dir /\ p.vr = x.vr /\ p.rif = x.rif

\* A router link stays a point-to-point subnet: at most two ends, in two VRs,
\* with distinct addresses of one subnet, and a route over the link has the
\* other end's current address as its gateway.
LinkPointToPoint ==
  \A r \in rc.ifs :
    r.kind = "link" =>
      /\ Cardinality(Peers(rc, r)) <= 1
      /\ \A p \in Peers(rc, r) :
           /\ p.vr # r.vr
           /\ p.addr # NoAddr /\ r.addr # NoAddr =>
                p.addr.net = r.addr.net /\ p.addr # r.addr
      /\ \A x \in rc.routes : x.rif = r.id => \E p \in Peers(rc, r) : p.addr = x.gw
=============================================================================
