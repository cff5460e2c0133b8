------------------------- MODULE RouterConfigProofs -------------------------
(***************************************************************************)
(* Proofs about RouterConfig and RouterReload: for any number of VRs,      *)
(* links, interfaces and rules, no command of the validator leaves a       *)
(* dangling reference, and the egress filter and the public side exclude   *)
(* each other; NAT keeps its uplink, port forwards stay apart and links    *)
(* point to point.                                                         *)
(*                                                                         *)
(* The invariant needs the two parts together: detach asks the policies of *)
(* a RIF and not its rules, so that no rule dangles only because a rule    *)
(* never outlives its policy.                                              *)
(*                                                                         *)
(* A restart restores the configuration because everything the validator   *)
(* asked of an entry when it was accepted (RcFits) still holds of it among *)
(* the entries that are left, and so of every part of the file.            *)
(***************************************************************************)
EXTENDS RouterReload, LoopLemmas, FiniteSetTheorems, TLAPS

RcInv == RcTypeOK /\ NoDanglingReference /\ PublicRifUnfiltered

\* The empty configuration satisfies the invariant.
LEMMA RcInvInit == RcInit => RcInv
  BY RcAssumption DEF RcInit, RcInv, RcTypeOK, RcConfig, EmptyConfig,
     NoDanglingReference, PublicRifUnfiltered

\* `vr create`.
LEMMA CreateStep ==
  ASSUME RcInv, NEW vr \in Vr, Create(vr) PROVE RcInv'
  <1>1. /\ rc'.vrs = rc.vrs \union {vr} /\ rc'.links = rc.links
        /\ rc'.next = rc.next
        /\ rc'.ifs = rc.ifs
        /\ rc'.routes = rc.routes
        /\ rc'.nats = rc.nats
        /\ rc'.pfs = rc.pfs
        /\ rc'.policies = rc.policies
        /\ rc'.rules = rc.rules
    BY DEF RcInv, RcTypeOK, RcConfig, Create, WithVr
  <1>2. RcTypeOK'
    BY DEF RcInv, RcTypeOK, RcConfig, Create, WithVr
  <1>3. NoDanglingReference'
    BY <1>1 DEF RcInv, NoDanglingReference
  <1>4. PublicRifUnfiltered'
    BY <1>1 DEF RcInv, PublicRifUnfiltered, Uses
  <1> QED BY <1>2, <1>3, <1>4 DEF RcInv

\* `vr delete`: no interface is left in the VR.
LEMMA DeleteStep ==
  ASSUME RcInv, NEW vr \in Vr, Delete(vr) PROVE RcInv'
  <1>1. /\ rc'.vrs = rc.vrs \ {vr} /\ rc'.links = rc.links
        /\ rc'.next = rc.next
        /\ rc'.ifs = rc.ifs
        /\ rc'.routes = rc.routes
        /\ rc'.nats = rc.nats
        /\ rc'.pfs = rc.pfs
        /\ rc'.policies = rc.policies
        /\ rc'.rules = rc.rules
    BY DEF RcInv, RcTypeOK, RcConfig, Delete, WithoutVr
  <1>2. RcTypeOK'
    BY DEF RcInv, RcTypeOK, RcConfig, Delete, WithoutVr
  <1>3. NoDanglingReference'
    BY <1>1 DEF RcInv, NoDanglingReference, Delete, CanDelete
  <1>4. PublicRifUnfiltered'
    BY <1>1 DEF RcInv, PublicRifUnfiltered, Uses
  <1> QED BY <1>2, <1>3, <1>4 DEF RcInv

\* `link create`.
LEMMA LinkCreateStep ==
  ASSUME RcInv, NEW l \in Link, LinkCreate(l) PROVE RcInv'
  <1>1. /\ rc'.vrs = rc.vrs /\ rc'.links = rc.links \union {l}
        /\ rc'.next = rc.next
        /\ rc'.ifs = rc.ifs
        /\ rc'.routes = rc.routes
        /\ rc'.nats = rc.nats
        /\ rc'.pfs = rc.pfs
        /\ rc'.policies = rc.policies
        /\ rc'.rules = rc.rules
    BY DEF RcInv, RcTypeOK, RcConfig, LinkCreate, WithLink
  <1>2. RcTypeOK'
    BY DEF RcInv, RcTypeOK, RcConfig, LinkCreate, WithLink
  <1>3. NoDanglingReference'
    BY <1>1 DEF RcInv, NoDanglingReference
  <1>4. PublicRifUnfiltered'
    BY <1>1 DEF RcInv, PublicRifUnfiltered, Uses
  <1> QED BY <1>2, <1>3, <1>4 DEF RcInv

\* `link delete`: no endpoint is left on the link.
LEMMA LinkDeleteStep ==
  ASSUME RcInv, NEW l \in Link, LinkDelete(l) PROVE RcInv'
  <1>1. /\ rc'.vrs = rc.vrs /\ rc'.links = rc.links \ {l}
        /\ rc'.next = rc.next
        /\ rc'.ifs = rc.ifs
        /\ rc'.routes = rc.routes
        /\ rc'.nats = rc.nats
        /\ rc'.pfs = rc.pfs
        /\ rc'.policies = rc.policies
        /\ rc'.rules = rc.rules
    BY DEF RcInv, RcTypeOK, RcConfig, LinkDelete, WithoutLink
  <1>2. RcTypeOK'
    BY DEF RcInv, RcTypeOK, RcConfig, LinkDelete, WithoutLink
  <1>3. NoDanglingReference'
    BY <1>1 DEF RcInv, NoDanglingReference, LinkDelete, CanLinkDelete
  <1>4. PublicRifUnfiltered'
    BY <1>1 DEF RcInv, PublicRifUnfiltered, Uses
  <1> QED BY <1>2, <1>3, <1>4 DEF RcInv

\* The attach commands: the new interface has a fresh id.
LEMMA AttachStep ==
  ASSUME RcInv, NEW vr \in Vr, NEW name \in Name, NEW kind \in Kind,
         NEW at \in Switch \union Vf \union Link, Attach(vr, name, kind, at) PROVE RcInv'
  <1> DEFINE new == [vr |-> vr, id |-> rc.next, name |-> name, kind |-> kind,
               at |-> at, mac |-> <<vr, rc.next>>, addr |-> NoAddr]
  <1>1. /\ rc'.vrs = rc.vrs /\ rc'.links = rc.links
        /\ rc'.next = rc.next + 1
        /\ rc'.ifs = rc.ifs \union {new}
        /\ rc'.routes = rc.routes
        /\ rc'.nats = rc.nats
        /\ rc'.pfs = rc.pfs
        /\ rc'.policies = rc.policies
        /\ rc'.rules = rc.rules
    BY DEF RcInv, RcTypeOK, RcConfig, Attach, WithInterface
  <1>a. new \in RcInterface /\ rc.next + 1 \in 1..(MaxId + 1)
    BY RcAssumption DEF RcInv, RcTypeOK, RcConfig, RcInterface, Mac, Attach, CanAttach, IdLeft
  <1>b. rc.next \in Int /\ \A r \in rc.ifs : r.id \in Int
    BY RcAssumption DEF RcInv, RcTypeOK, RcConfig, RcInterface
  <1>2. RcTypeOK'
    BY <1>1, <1>a DEF RcInv, RcTypeOK, RcConfig, Attach, WithInterface
  <1>3. NoDanglingReference'
    BY <1>1, <1>a, <1>b DEF RcInv, NoDanglingReference, Attach, CanAttach
  <1>4. PublicRifUnfiltered'
    BY <1>1 DEF RcInv, PublicRifUnfiltered, Uses
  <1> QED BY <1>2, <1>3, <1>4 DEF RcInv

\* The detach commands: nothing refers to the interface, and rules have
\* policies, so no rule does either.
LEMMA DetachStep ==
  ASSUME RcInv, NEW r \in rc.ifs, Detach(r) PROVE RcInv'
  <1>1. /\ rc'.vrs = rc.vrs /\ rc'.links = rc.links
        /\ rc'.next = rc.next
        /\ rc'.ifs = rc.ifs \ {r}
        /\ rc'.routes = rc.routes
        /\ rc'.nats = rc.nats
        /\ rc'.pfs = rc.pfs
        /\ rc'.policies = rc.policies
        /\ rc'.rules = rc.rules
    BY DEF RcInv, RcTypeOK, RcConfig, Detach, WithoutInterface
  <1>a. \A p \in rc.policies : p.dir = "egress" \/ p.dir = "ingress"
    BY RcAssumption DEF RcInv, RcTypeOK, RcConfig, RcPolicy
  <1>2. RcTypeOK'
    BY DEF RcInv, RcTypeOK, RcConfig, Detach, WithoutInterface
  <1>3. NoDanglingReference'
    BY <1>1, <1>a DEF RcInv, NoDanglingReference, PublicRifUnfiltered,
       Detach, CanDetach, Uses, FilterUses
  <1>4. PublicRifUnfiltered'
    BY <1>1 DEF RcInv, PublicRifUnfiltered, Uses
  <1> QED BY <1>2, <1>3, <1>4 DEF RcInv

\* `vr ip add`, `vr ip del` and `vr interface set` replace an interface by
\* one of the same identity.
LEMMA ReplaceStep ==
  ASSUME RcInv, NEW r \in rc.ifs, NEW s \in RcInterface,
         s.id = r.id, s.vr = r.vr, s.kind = r.kind, s.at = r.at,
         rc' = Replaced(rc, r, s) PROVE RcInv'
  <1>1. /\ rc'.vrs = rc.vrs /\ rc'.links = rc.links
        /\ rc'.next = rc.next
        /\ rc'.ifs = (rc.ifs \ {r}) \union {s}
        /\ rc'.routes = rc.routes
        /\ rc'.nats = rc.nats
        /\ rc'.pfs = rc.pfs
        /\ rc'.policies = rc.policies
        /\ rc'.rules = rc.rules
    BY DEF RcInv, RcTypeOK, RcConfig, Replaced
  <1>2. RcTypeOK'
    BY DEF RcInv, RcTypeOK, RcConfig, Replaced
  <1>3. NoDanglingReference'
    BY <1>1 DEF RcInv, NoDanglingReference
  <1>4. PublicRifUnfiltered'
    BY <1>1 DEF RcInv, PublicRifUnfiltered, Uses
  <1> QED BY <1>2, <1>3, <1>4 DEF RcInv

\* `vr route add`.
LEMMA RouteAddStep ==
  ASSUME RcInv, NEW r \in rc.ifs, RouteAdd(r) PROVE RcInv'
  <1>1. PICK dest \in Dest \union {Default}, gw \in Addr :
          CanRouteAdd(rc, r, dest, gw) /\ rc' = WithRoute(rc, r, dest, gw)
    BY DEF RouteAdd
  <1> DEFINE new == [vr |-> r.vr, rif |-> r.id, dest |-> dest, gw |-> gw]
  <1>2. /\ rc'.vrs = rc.vrs /\ rc'.links = rc.links
        /\ rc'.next = rc.next /\ rc'.ifs = rc.ifs
        /\ rc'.nats = rc.nats /\ rc'.pfs = rc.pfs
        /\ rc'.policies = rc.policies /\ rc'.rules = rc.rules
        /\ rc'.routes = rc.routes \union {new}
    BY <1>1 DEF RcInv, RcTypeOK, RcConfig, WithRoute
  <1>3. new \in RcRoute
    BY <1>1, RcAssumption DEF RcInv, RcTypeOK, RcConfig, RcInterface, RcRoute
  <1>4. RcTypeOK'
    BY <1>1, <1>3 DEF RcInv, RcTypeOK, RcConfig, WithRoute
  <1>5. NoDanglingReference'
    BY <1>2 DEF RcInv, NoDanglingReference
  <1>6. PublicRifUnfiltered'
    BY <1>1, <1>2 DEF RcInv, PublicRifUnfiltered, Uses
  <1> QED BY <1>4, <1>5, <1>6 DEF RcInv

\* `vr nat enable`: the RIF has no egress policy.
LEMMA NatEnableStep ==
  ASSUME RcInv, NEW r \in rc.ifs, NatEnable(r) PROVE RcInv'
  <1>1. PICK pub \in Addr \union {NoAddr} :
          CanNatEnable(rc, r, pub) /\ rc' = WithNat(rc, r, pub)
    BY DEF NatEnable
  <1> DEFINE new == [vr |-> r.vr, rif |-> r.id, pub |-> pub]
  <1>2. /\ rc'.vrs = rc.vrs /\ rc'.links = rc.links
        /\ rc'.next = rc.next /\ rc'.ifs = rc.ifs
        /\ rc'.routes = rc.routes /\ rc'.pfs = rc.pfs
        /\ rc'.policies = rc.policies /\ rc'.rules = rc.rules
        /\ rc'.nats = rc.nats \union {new}
    BY <1>1 DEF RcInv, RcTypeOK, RcConfig, WithNat
  <1>3. new \in RcNat
    BY <1>1, RcAssumption DEF RcInv, RcTypeOK, RcConfig, RcInterface, RcNat
  <1>4. RcTypeOK'
    BY <1>1, <1>3 DEF RcInv, RcTypeOK, RcConfig, WithNat
  <1>5. NoDanglingReference'
    BY <1>2 DEF RcInv, NoDanglingReference
  <1>6. PublicRifUnfiltered'
    BY <1>1, <1>2 DEF RcInv, PublicRifUnfiltered, Uses, CanNatEnable, FilterUses
  <1> QED BY <1>4, <1>5, <1>6 DEF RcInv

\* `vr port-forward add`: the RIF has no egress policy.
LEMMA ForwardAddStep ==
  ASSUME RcInv, NEW r \in rc.ifs, ForwardAdd(r) PROVE RcInv'
  <1>1. PICK id \in RuleId, f \in Forward :
          CanForwardAdd(rc, r, id, f) /\ rc' = WithForward(rc, r, id, f)
    BY DEF ForwardAdd
  <1> DEFINE new == [vr |-> r.vr, rif |-> r.id, id |-> id, map |-> f, pub |-> r.addr]
  <1>2. /\ rc'.vrs = rc.vrs /\ rc'.links = rc.links
        /\ rc'.next = rc.next /\ rc'.ifs = rc.ifs
        /\ rc'.routes = rc.routes /\ rc'.nats = rc.nats
        /\ rc'.policies = rc.policies /\ rc'.rules = rc.rules
        /\ rc'.pfs = rc.pfs \union {new}
    BY <1>1 DEF RcInv, RcTypeOK, RcConfig, WithForward
  <1>3. new \in RcForward
    BY <1>1, RcAssumption DEF RcInv, RcTypeOK, RcConfig, RcInterface, RcForward, CanForwardAdd
  <1>4. RcTypeOK'
    BY <1>1, <1>3 DEF RcInv, RcTypeOK, RcConfig, WithForward
  <1>5. NoDanglingReference'
    BY <1>2 DEF RcInv, NoDanglingReference
  <1>6. PublicRifUnfiltered'
    BY <1>1, <1>2 DEF RcInv, PublicRifUnfiltered, Uses, CanForwardAdd, FilterUses
  <1> QED BY <1>4, <1>5, <1>6 DEF RcInv

\* `vr egress|ingress policy set`: an egress policy avoids public RIFs.
LEMMA PolicySetStep ==
  ASSUME RcInv, NEW r \in rc.ifs, NEW dir \in Filters, PolicySet(dir, r) PROVE RcInv'
  <1>1. PICK allow \in BOOLEAN :
          CanPolicySet(rc, dir, r) /\ rc' = WithPolicy(rc, dir, r, allow)
    BY DEF PolicySet
  <1> DEFINE new == [dir |-> dir, vr |-> r.vr, rif |-> r.id, allow |-> allow]
  <1>2. /\ rc'.vrs = rc.vrs /\ rc'.links = rc.links
        /\ rc'.next = rc.next /\ rc'.ifs = rc.ifs
        /\ rc'.routes = rc.routes /\ rc'.nats = rc.nats
        /\ rc'.pfs = rc.pfs /\ rc'.rules = rc.rules
        /\ rc'.policies = (rc.policies \ PolicyOf(rc, dir, r)) \union {new}
    BY <1>1 DEF RcInv, RcTypeOK, RcConfig, WithPolicy
  <1>3. new \in RcPolicy
    BY <1>1, RcAssumption DEF RcInv, RcTypeOK, RcConfig, RcInterface, RcPolicy
  <1>4. RcTypeOK'
    BY <1>1, <1>3 DEF RcInv, RcTypeOK, RcConfig, WithPolicy
  <1>5. NoDanglingReference'
    BY <1>2 DEF RcInv, NoDanglingReference
  <1>6. PublicRifUnfiltered'
    <2>1. dir = "egress" => ~Uses(rc.nats, r.id) /\ ~Uses(rc.pfs, r.id)
      BY <1>1 DEF RcInv, NoDanglingReference, CanPolicySet, NatOf, Uses
    <2>2. \A p \in rc'.policies :
            p.dir = "egress" => ~Uses(rc'.nats, p.rif) /\ ~Uses(rc'.pfs, p.rif)
      BY <1>2, <2>1 DEF RcInv, PublicRifUnfiltered
    <2>3. \A x \in rc'.rules :
            \E p \in rc'.policies : p.dir = x.dir /\ p.vr = x.vr /\ p.rif = x.rif
      <3> SUFFICES ASSUME NEW x \in rc.rules
                   PROVE  \E p \in rc'.policies : p.dir = x.dir /\ p.vr = x.vr /\ p.rif = x.rif
        BY <1>2
      <3>1. PICK p \in rc.policies : p.dir = x.dir /\ p.vr = x.vr /\ p.rif = x.rif
        BY DEF RcInv, PublicRifUnfiltered
      <3>2. CASE p \in PolicyOf(rc, dir, r)
        <4>1. new.dir = x.dir /\ new.vr = x.vr /\ new.rif = x.rif
          BY <3>1, <3>2 DEF PolicyOf
        <4> QED BY <1>2, <4>1
      <3>3. CASE p \notin PolicyOf(rc, dir, r)
        BY <1>2, <3>1, <3>3
      <3> QED BY <3>2, <3>3
    <2> QED BY <2>2, <2>3 DEF PublicRifUnfiltered
  <1> QED BY <1>4, <1>5, <1>6 DEF RcInv

\* `vr egress|ingress rule add`: the policy exists.
LEMMA RuleAddStep ==
  ASSUME RcInv, NEW r \in rc.ifs, NEW dir \in Filters, RuleAdd(dir, r) PROVE RcInv'
  <1>1. PICK id \in RuleId :
          CanRuleAdd(rc, dir, r, id) /\ rc' = WithRule(rc, dir, r, id)
    BY DEF RuleAdd
  <1> DEFINE new == [dir |-> dir, vr |-> r.vr, rif |-> r.id, id |-> id]
  <1>2. /\ rc'.vrs = rc.vrs /\ rc'.links = rc.links
        /\ rc'.next = rc.next /\ rc'.ifs = rc.ifs
        /\ rc'.routes = rc.routes /\ rc'.nats = rc.nats
        /\ rc'.pfs = rc.pfs /\ rc'.policies = rc.policies
        /\ rc'.rules = rc.rules \union {new}
    BY <1>1 DEF RcInv, RcTypeOK, RcConfig, WithRule
  <1>3. new \in RcRule
    BY <1>1, RcAssumption DEF RcInv, RcTypeOK, RcConfig, RcInterface, RcRule
  <1>4. RcTypeOK'
    BY <1>1, <1>3 DEF RcInv, RcTypeOK, RcConfig, WithRule
  <1>5. NoDanglingReference'
    BY <1>2 DEF RcInv, NoDanglingReference
  <1>6. PublicRifUnfiltered'
    BY <1>1, <1>2 DEF RcInv, PublicRifUnfiltered, Uses, CanRuleAdd, PolicyOf
  <1> QED BY <1>4, <1>5, <1>6 DEF RcInv

\* `vr route del`.
LEMMA RouteDelStep ==
  ASSUME RcInv, RouteDel PROVE RcInv'
  <1>1. PICK x \in rc.routes : rc' = WithoutRoute(rc, x)
    BY DEF RouteDel
  <1>2. /\ rc'.vrs = rc.vrs /\ rc'.links = rc.links
        /\ rc'.next = rc.next /\ rc'.ifs = rc.ifs
        /\ rc'.nats = rc.nats /\ rc'.pfs = rc.pfs
        /\ rc'.policies = rc.policies /\ rc'.rules = rc.rules
        /\ rc'.routes = rc.routes \ {x}
    BY <1>1 DEF RcInv, RcTypeOK, RcConfig, WithoutRoute
  <1>3. RcTypeOK'
    BY <1>1 DEF RcInv, RcTypeOK, RcConfig, WithoutRoute
  <1>4. NoDanglingReference'
    BY <1>2 DEF RcInv, NoDanglingReference
  <1>5. PublicRifUnfiltered'
    BY <1>2 DEF RcInv, PublicRifUnfiltered, Uses
  <1> QED BY <1>3, <1>4, <1>5 DEF RcInv

\* `vr nat disable`.
LEMMA NatDisableStep ==
  ASSUME RcInv, NEW vr \in Vr, NatDisable(vr) PROVE RcInv'
  <1>2. /\ rc'.vrs = rc.vrs /\ rc'.links = rc.links
        /\ rc'.next = rc.next /\ rc'.ifs = rc.ifs
        /\ rc'.routes = rc.routes /\ rc'.pfs = rc.pfs
        /\ rc'.policies = rc.policies /\ rc'.rules = rc.rules
        /\ rc'.nats = rc.nats \ NatOf(rc, vr)
    BY DEF RcInv, RcTypeOK, RcConfig, NatDisable, WithoutNat
  <1>3. RcTypeOK'
    BY DEF RcInv, RcTypeOK, RcConfig, NatDisable, WithoutNat
  <1>4. NoDanglingReference'
    BY <1>2 DEF RcInv, NoDanglingReference
  <1>5. PublicRifUnfiltered'
    BY <1>2 DEF RcInv, PublicRifUnfiltered, Uses
  <1> QED BY <1>3, <1>4, <1>5 DEF RcInv

\* `vr port-forward delete`.
LEMMA ForwardDeleteStep ==
  ASSUME RcInv, ForwardDelete PROVE RcInv'
  <1>1. PICK x \in rc.pfs : rc' = WithoutForward(rc, x)
    BY DEF ForwardDelete
  <1>2. /\ rc'.vrs = rc.vrs /\ rc'.links = rc.links
        /\ rc'.next = rc.next /\ rc'.ifs = rc.ifs
        /\ rc'.routes = rc.routes /\ rc'.nats = rc.nats
        /\ rc'.policies = rc.policies /\ rc'.rules = rc.rules
        /\ rc'.pfs = rc.pfs \ {x}
    BY <1>1 DEF RcInv, RcTypeOK, RcConfig, WithoutForward
  <1>3. RcTypeOK'
    BY <1>1 DEF RcInv, RcTypeOK, RcConfig, WithoutForward
  <1>4. NoDanglingReference'
    BY <1>2 DEF RcInv, NoDanglingReference
  <1>5. PublicRifUnfiltered'
    BY <1>2 DEF RcInv, PublicRifUnfiltered, Uses
  <1> QED BY <1>3, <1>4, <1>5 DEF RcInv

\* `vr egress|ingress rule delete`.
LEMMA RuleDeleteStep ==
  ASSUME RcInv, RuleDelete PROVE RcInv'
  <1>1. PICK x \in rc.rules : rc' = WithoutRule(rc, x)
    BY DEF RuleDelete
  <1>2. /\ rc'.vrs = rc.vrs /\ rc'.links = rc.links
        /\ rc'.next = rc.next /\ rc'.ifs = rc.ifs
        /\ rc'.routes = rc.routes /\ rc'.nats = rc.nats
        /\ rc'.pfs = rc.pfs /\ rc'.policies = rc.policies
        /\ rc'.rules = rc.rules \ {x}
    BY <1>1 DEF RcInv, RcTypeOK, RcConfig, WithoutRule
  <1>3. RcTypeOK'
    BY <1>1 DEF RcInv, RcTypeOK, RcConfig, WithoutRule
  <1>4. NoDanglingReference'
    BY <1>2 DEF RcInv, NoDanglingReference
  <1>5. PublicRifUnfiltered'
    BY <1>2 DEF RcInv, PublicRifUnfiltered, Uses
  <1> QED BY <1>3, <1>4, <1>5 DEF RcInv

\* `vr egress|ingress policy delete`: no rule of the policy is left.
LEMMA PolicyDeleteStep ==
  ASSUME RcInv, NEW r \in rc.ifs, NEW dir \in Filters,
         PolicyDelete(dir, r) PROVE RcInv'
  <1>2. /\ rc'.vrs = rc.vrs /\ rc'.links = rc.links
        /\ rc'.next = rc.next /\ rc'.ifs = rc.ifs
        /\ rc'.routes = rc.routes /\ rc'.nats = rc.nats
        /\ rc'.pfs = rc.pfs /\ rc'.rules = rc.rules
        /\ rc'.policies = rc.policies \ PolicyOf(rc, dir, r)
    BY DEF RcInv, RcTypeOK, RcConfig, PolicyDelete, WithoutPolicy
  <1>3. RcTypeOK'
    BY DEF RcInv, RcTypeOK, RcConfig, PolicyDelete, WithoutPolicy
  <1>4. NoDanglingReference'
    BY <1>2 DEF RcInv, NoDanglingReference
  <1>5. PublicRifUnfiltered'
    BY <1>2 DEF RcInv, PublicRifUnfiltered, Uses, PolicyDelete, CanPolicyDelete,
       PolicyOf, RulesOf
  <1> QED BY <1>3, <1>4, <1>5 DEF RcInv

\* The three commands that replace an interface.
LEMMA InterfaceStep ==
  ASSUME RcInv, NEW r \in rc.ifs, IpAdd(r) \/ IpDel(r) \/ MacSet(r) PROVE RcInv'
  <1> r \in RcInterface
    BY DEF RcInv, RcTypeOK, RcConfig
  <1>1. CASE IpAdd(r)
    <2>1. PICK a \in Addr : rc' = Replaced(rc, r, [r EXCEPT !.addr = a])
      BY <1>1 DEF IpAdd, WithAddress
    <2>2. [r EXCEPT !.addr = a] \in RcInterface
      BY DEF RcInterface
    <2> QED BY <2>1, <2>2, ReplaceStep DEF RcInterface
  <1>2. CASE IpDel(r)
    <2>1. rc' = Replaced(rc, r, [r EXCEPT !.addr = NoAddr])
      BY <1>2 DEF IpDel, WithAddress
    <2>2. [r EXCEPT !.addr = NoAddr] \in RcInterface
      BY DEF RcInterface
    <2> QED BY <2>1, <2>2, ReplaceStep DEF RcInterface
  <1>3. CASE MacSet(r)
    <2>1. PICK m \in MacInput : rc' = Replaced(rc, r, [r EXCEPT !.mac = m])
      BY <1>3 DEF MacSet, WithMac
    <2>2. [r EXCEPT !.mac = m] \in RcInterface
      BY DEF RcInterface, Mac
    <2> QED BY <2>1, <2>2, ReplaceStep DEF RcInterface
  <1> QED BY <1>1, <1>2, <1>3

\* Every command keeps the invariant.
LEMMA RcInvNext == RcInv /\ [RcNext]_rc => RcInv'
  <1> SUFFICES ASSUME RcInv, [RcNext]_rc PROVE RcInv'
    OBVIOUS
  <1>1. CASE \E vr \in Vr : Create(vr) \/ Delete(vr) \/ NatDisable(vr)
    BY <1>1, CreateStep, DeleteStep, NatDisableStep
  <1>2. CASE \E l \in Link : LinkCreate(l) \/ LinkDelete(l)
    BY <1>2, LinkCreateStep, LinkDeleteStep
  <1>3. CASE \E vr \in Vr, name \in Name :
               AttachSwitch(vr, name) \/ AttachPort(vr, name) \/ AttachLink(vr, name)
    <2>1. PICK vr \in Vr, name \in Name, kind \in Kind, at \in Switch \union Vf \union Link :
            Attach(vr, name, kind, at)
      BY <1>3 DEF AttachSwitch, AttachPort, AttachLink, Kind
    <2> QED BY <2>1, AttachStep
  <1>4. CASE \E r \in rc.ifs :
               \/ Detach(r) \/ IpAdd(r) \/ IpDel(r) \/ MacSet(r)
               \/ RouteAdd(r) \/ NatEnable(r) \/ ForwardAdd(r)
    BY <1>4, DetachStep, InterfaceStep, RouteAddStep, NatEnableStep, ForwardAddStep
  <1>5. CASE \E r \in rc.ifs, dir \in Filters :
               PolicySet(dir, r) \/ PolicyDelete(dir, r) \/ RuleAdd(dir, r)
    BY <1>5, PolicySetStep, PolicyDeleteStep, RuleAddStep
  <1>6. CASE RouteDel \/ ForwardDelete \/ RuleDelete
    BY <1>6, RouteDelStep, ForwardDeleteStep, RuleDeleteStep
  <1>7. CASE UNCHANGED rc
    BY <1>7 DEF RcInv, RcTypeOK, NoDanglingReference, PublicRifUnfiltered
  <1> QED BY <1>1, <1>2, <1>3, <1>4, <1>5, <1>6, <1>7 DEF RcNext

\* The inductive invariant holds of every committed configuration.
THEOREM RcInvariant == RcSpec => []RcInv
  BY RcInvInit, RcInvNext, PTL DEF RcSpec

\* Interface ids stay within 16 bits and every entry keeps its type.
THEOREM RcTypes == RcSpec => []RcTypeOK
  BY RcInvariant, PTL DEF RcInv

\* router_config_save never meets a dangling route, NAT policy, port forward,
\* filter policy or rule.
THEOREM ReferencesResolve == RcSpec => []NoDanglingReference
  BY RcInvariant, PTL DEF RcInv

\* A public RIF has no guest egress filter, and every rule has its policy.
THEOREM FilterAndPublicExclude == RcSpec => []PublicRifUnfiltered
  BY RcInvariant, PTL DEF RcInv

-----------------------------------------------------------------------------
(***************************************************************************)
(* What a command required of several objects at once keeps holding.  The  *)
(* number of ends of a link is not inductive as a cardinality: LinkEnds    *)
(* says that two peers of an end are one.                                  *)
(***************************************************************************)
LinkEnds ==
  \A r \in rc.ifs :
    r.kind = "link" =>
      /\ \A p, q \in Peers(rc, r) : p = q
      /\ \A p \in Peers(rc, r) :
           /\ p.vr # r.vr
           /\ p.addr # NoAddr /\ r.addr # NoAddr =>
                p.addr.net = r.addr.net /\ p.addr # r.addr
      /\ \A x \in rc.routes : x.rif = r.id => \E p \in Peers(rc, r) : p.addr = x.gw

RcKept == NatOwnsUplink /\ ForwardsDisjoint /\ LinkEnds

\* Commands on VRs, links and filters leave it alone.
LEMMA KeptSame ==
  ASSUME RcKept, rc'.ifs = rc.ifs, rc'.routes = rc.routes, rc'.nats = rc.nats,
         rc'.pfs = rc.pfs
  PROVE  RcKept'
  <1>1. NatOwnsUplink'
    BY DEF RcKept, NatOwnsUplink, NatOf
  <1>2. ForwardsDisjoint'
    BY DEF RcKept, ForwardsDisjoint
  <1>3. LinkEnds'
    BY DEF RcKept, LinkEnds, Peers
  <1> QED BY <1>1, <1>2, <1>3 DEF RcKept

\* What the cardinality in LinkPointToPoint comes to.
LEMMA TwoElements ==
  ASSUME NEW a, NEW b, a # b PROVE Cardinality({a, b}) = 2
  <1>1. IsFiniteSet({a}) /\ Cardinality({a}) = 1
    BY FS_Singleton
  <1>2. Cardinality({a} \union {b}) = Cardinality({a}) + 1
    BY <1>1, FS_AddElement
  <1>3. {a, b} = {a} \union {b}
    OBVIOUS
  <1> QED BY <1>1, <1>2, <1>3

\* The attach commands: a link gets at most two ends, in different VRs.
LEMMA AttachKept ==
  ASSUME RcInv, RcKept, NEW vr \in Vr, NEW name \in Name, NEW kind \in Kind,
         NEW at \in Switch \union Vf \union Link, Attach(vr, name, kind, at)
  PROVE  RcKept'
  <1> DEFINE new == [vr |-> vr, id |-> rc.next, name |-> name, kind |-> kind,
               at |-> at, mac |-> <<vr, rc.next>>, addr |-> NoAddr]
  <1>1. /\ rc'.ifs = rc.ifs \union {new} /\ rc'.routes = rc.routes
        /\ rc'.nats = rc.nats /\ rc'.pfs = rc.pfs
    BY DEF RcInv, RcTypeOK, RcConfig, Attach, WithInterface
  <1>2. /\ new.vr = vr /\ new.id = rc.next /\ new.kind = kind /\ new.at = at
        /\ new.addr = NoAddr
    OBVIOUS
  <1> HIDE DEF new
  <1>3. \A r \in rc.ifs : r.id # new.id
    BY <1>2, RcAssumption DEF RcInv, RcTypeOK, RcConfig, RcInterface, NoDanglingReference
  <1>4. \A x \in rc.routes : x.rif # new.id
    BY <1>3 DEF RcInv, NoDanglingReference
  <1>5. NatOwnsUplink'
    BY <1>1 DEF RcKept, NatOwnsUplink, NatOf
  <1>6. ForwardsDisjoint'
    BY <1>1 DEF RcKept, ForwardsDisjoint
  <1>7. ASSUME kind = "link"
        PROVE  /\ \A r, q \in rc.ifs : r.kind = "link" /\ r.at = at /\ q.kind = "link" /\ q.at = at
                    => r = q
               /\ \A r \in rc.ifs : r.kind = "link" /\ r.at = at => r.vr # vr
    <2> DEFINE ends == {r \in rc.ifs : r.kind = "link" /\ r.at = at}
    <2>1. Cardinality(ends) < 2 /\ \A r \in ends : r.vr # vr
      BY <1>7 DEF Attach, CanAttach
    <2>2. ASSUME NEW a \in ends, NEW b \in ends, a # b PROVE FALSE
      <3>1. a.id # b.id
        BY <2>2 DEF RcInv, NoDanglingReference
      <3>2. b \in Peers(rc, a) /\ \A c \in ends : c # a => c \in Peers(rc, a)
        BY <3>1 DEF Peers, RcInv, NoDanglingReference
      <3>3. ends = {a, b}
        BY <3>2 DEF RcKept, LinkEnds
      <3>4. Cardinality({a, b}) = 2
        BY <2>2, TwoElements
      <3> QED BY <2>1, <3>3, <3>4
    <2> QED BY <2>1, <2>2
  <1>8. LinkEnds'
    <2> SUFFICES ASSUME NEW r \in rc'.ifs, r.kind = "link"
                 PROVE  /\ \A p, q \in Peers(rc', r) : p = q
                        /\ \A p \in Peers(rc', r) :
                             /\ p.vr # r.vr
                             /\ p.addr # NoAddr /\ r.addr # NoAddr =>
                                  p.addr.net = r.addr.net /\ p.addr # r.addr
                        /\ \A x \in rc'.routes : x.rif = r.id =>
                             \E p \in Peers(rc', r) : p.addr = x.gw
      BY DEF LinkEnds
    <2>1. CASE r = new
      <3>1. Peers(rc', r) = {p \in rc.ifs : p.kind = "link" /\ p.at = at}
        BY <1>1, <1>2, <1>3, <2>1 DEF Peers
      <3> QED BY <3>1, <1>1, <1>2, <1>4, <1>7, <2>1
    <2>2. CASE r \in rc.ifs /\ kind = "link" /\ r.at = at
      <3>1. Peers(rc, r) = {}
        BY <1>7, <2>2 DEF Peers
      <3>2. Peers(rc', r) = {new}
        BY <3>1, <1>1, <1>2, <1>3, <2>2 DEF Peers
      <3>3. \A x \in rc.routes : x.rif # r.id
        BY <3>1, <2>2 DEF RcKept, LinkEnds
      <3> QED BY <3>2, <3>3, <1>1, <1>2, <1>7, <2>2
    <2>3. CASE r \in rc.ifs /\ ~ (kind = "link" /\ r.at = at)
      <3>1. Peers(rc', r) = Peers(rc, r)
        BY <1>1, <1>2, <2>3 DEF Peers
      <3> QED BY <3>1, <1>1, <2>3 DEF RcKept, LinkEnds
    <2> QED BY <2>1, <2>2, <2>3, <1>1
  <1> QED BY <1>5, <1>6, <1>8 DEF RcKept

\* The detach commands: an unaddressed interface is nobody's gateway.
LEMMA DetachKept ==
  ASSUME RcInv, RcKept, NEW r \in rc.ifs, Detach(r) PROVE RcKept'
  <1>1. /\ rc'.ifs = rc.ifs \ {r} /\ rc'.routes = rc.routes
        /\ rc'.nats = rc.nats /\ rc'.pfs = rc.pfs
    BY DEF RcInv, RcTypeOK, RcConfig, Detach, WithoutInterface
  <1>2. r.addr = NoAddr /\ \A x \in rc.routes : x.gw # NoAddr
    BY RcAssumption DEF Detach, CanDetach, RcInv, RcTypeOK, RcConfig, RcRoute
  <1>3. NatOwnsUplink'
    BY <1>1, <1>2 DEF RcKept, NatOwnsUplink, NatOf
  <1>4. ForwardsDisjoint'
    BY <1>1 DEF RcKept, ForwardsDisjoint, Detach, CanDetach, Uses
  <1>5. LinkEnds'
    <2>1. \A q \in rc.ifs : Peers(rc', q) = Peers(rc, q) \ {r}
      BY <1>1 DEF Peers
    <2> QED BY <1>1, <1>2, <2>1 DEF RcKept, LinkEnds
  <1> QED BY <1>3, <1>4, <1>5 DEF RcKept

\* An interface is replaced by one of the same identity, and its address
\* changes only where nothing depends on it.
LEMMA ReplaceKept ==
  ASSUME RcInv, RcKept, NEW r \in rc.ifs, NEW s \in RcInterface,
         s.id = r.id, s.vr = r.vr, s.kind = r.kind, s.at = r.at,
         rc' = Replaced(rc, r, s),
         \A n \in rc.nats \union rc.pfs : n.rif = r.id => s.addr = r.addr,
         \A p \in Peers(rc, r), x \in rc.routes :
           x.rif = p.id /\ x.gw = r.addr => s.addr = r.addr,
         \A p \in Peers(rc, r) : p.addr # NoAddr /\ s.addr # NoAddr =>
           p.addr.net = s.addr.net /\ p.addr # s.addr
  PROVE  RcKept'
  <1>1. /\ rc'.ifs = (rc.ifs \ {r}) \union {s} /\ rc'.routes = rc.routes
        /\ rc'.nats = rc.nats /\ rc'.pfs = rc.pfs
    BY DEF RcInv, RcTypeOK, RcConfig, Replaced
  <1>2. \A q \in rc.ifs : q.id = r.id => q = r
    BY DEF RcInv, NoDanglingReference
  <1>3. NatOwnsUplink'
    <2> SUFFICES ASSUME NEW n \in rc.nats
                 PROVE  /\ NatOf(rc', n.vr) = {n}
                        /\ \E q \in rc'.ifs :
                             /\ q.id = n.rif /\ q.kind # "link" /\ q.addr # NoAddr
                             /\ n.pub \in {NoAddr, q.addr}
                             /\ \E x \in rc'.routes :
                                  x.vr = n.vr /\ x.rif = n.rif /\ x.dest = Default
      BY <1>1 DEF NatOwnsUplink
    <2>1. NatOf(rc', n.vr) = {n}
      BY <1>1 DEF NatOf, RcKept, NatOwnsUplink
    <2>2. PICK q \in rc.ifs :
            /\ q.id = n.rif /\ q.kind # "link" /\ q.addr # NoAddr
            /\ n.pub \in {NoAddr, q.addr}
            /\ \E x \in rc.routes : x.vr = n.vr /\ x.rif = n.rif /\ x.dest = Default
      BY DEF RcKept, NatOwnsUplink
    <2>3. CASE q = r
      BY <1>1, <2>1, <2>2, <2>3
    <2>4. CASE q # r
      BY <1>1, <2>1, <2>2, <2>4
    <2> QED BY <2>3, <2>4
  <1>4. ForwardsDisjoint'
    <2>1. ASSUME NEW x \in rc.pfs PROVE \E q \in rc'.ifs : q.id = x.rif /\ q.addr = x.pub
      <3>1. PICK q \in rc.ifs : q.id = x.rif /\ q.addr = x.pub
        BY DEF RcKept, ForwardsDisjoint
      <3>2. CASE q = r
        BY <1>1, <3>1, <3>2
      <3>3. CASE q # r
        BY <1>1, <3>1, <3>3
      <3> QED BY <3>2, <3>3
    <2> QED BY <1>1, <2>1 DEF RcKept, ForwardsDisjoint
  <1>5. LinkEnds'
    <2>1. Peers(rc', s) = Peers(rc, r)
      BY <1>1, <1>2 DEF Peers
    <2>2. ASSUME NEW q \in rc.ifs, q # r
          PROVE  /\ r \in Peers(rc, q) => Peers(rc', q) = (Peers(rc, q) \ {r}) \union {s}
                 /\ r \notin Peers(rc, q) => Peers(rc', q) = Peers(rc, q)
      BY <1>1, <1>2, <2>2 DEF Peers
    <2> SUFFICES ASSUME NEW q \in rc'.ifs, q.kind = "link"
                 PROVE  /\ \A p, o \in Peers(rc', q) : p = o
                        /\ \A p \in Peers(rc', q) :
                             /\ p.vr # q.vr
                             /\ p.addr # NoAddr /\ q.addr # NoAddr =>
                                  p.addr.net = q.addr.net /\ p.addr # q.addr
                        /\ \A x \in rc'.routes : x.rif = q.id =>
                             \E p \in Peers(rc', q) : p.addr = x.gw
      BY DEF LinkEnds
    <2>3. CASE q = s
      <3>1. r.kind = "link" /\ r.id = q.id
        BY <2>3
      <3> QED BY <3>1, <2>1, <2>3, <1>1 DEF RcKept, LinkEnds
    <2>4. CASE q \in rc.ifs /\ q # r
      <3>1. CASE r \notin Peers(rc, q)
        BY <3>1, <2>2, <2>4, <1>1 DEF RcKept, LinkEnds
      <3>2. CASE r \in Peers(rc, q)
        <4>1. Peers(rc, q) = {r} /\ Peers(rc', q) = {s}
          BY <3>2, <2>2, <2>4 DEF RcKept, LinkEnds
        <4>2. q \in Peers(rc, r)
          BY <3>2, <2>4 DEF Peers
        <4>3. r.vr # q.vr /\ \A x \in rc.routes : x.rif = q.id => r.addr = x.gw
          BY <4>1, <2>4 DEF RcKept, LinkEnds
        <4>4. \A x \in rc.routes : x.rif = q.id => s.addr = x.gw
          BY <4>2, <4>3
        <4> QED BY <4>1, <4>2, <4>3, <4>4, <1>1
      <3> QED BY <3>1, <3>2
    <2> QED BY <2>3, <2>4, <1>1
  <1> QED BY <1>3, <1>4, <1>5 DEF RcKept

\* `vr ip add`, `vr ip del` and `vr interface set`.
LEMMA InterfaceKept ==
  ASSUME RcInv, RcKept, NEW r \in rc.ifs, IpAdd(r) \/ IpDel(r) \/ MacSet(r) PROVE RcKept'
  <1>0. r \in RcInterface /\ \A q \in rc.ifs : q.id = r.id => q = r
    BY DEF RcInv, RcTypeOK, RcConfig, NoDanglingReference
  <1>1. CASE IpAdd(r)
    <2>1. PICK a \in Addr : CanIpAdd(rc, r, a) /\ rc' = Replaced(rc, r, [r EXCEPT !.addr = a])
      BY <1>1 DEF IpAdd, WithAddress
    <2> DEFINE s == [r EXCEPT !.addr = a]
    <2>2. /\ s \in RcInterface /\ s.id = r.id /\ s.vr = r.vr /\ s.kind = r.kind
          /\ s.at = r.at /\ s.addr = a
      BY <1>0 DEF RcInterface
    <2>3. rc' = Replaced(rc, r, s)
      BY <2>1
    <2> HIDE DEF s
    <2>4. r.addr = NoAddr /\ \A p \in Peers(rc, r) : p.addr # NoAddr => p.addr.net = a.net /\ p.addr # a
      BY <2>1 DEF CanIpAdd
    <2>5. /\ \A x \in rc.routes : x.gw # NoAddr
          /\ \A x \in rc.pfs : x.pub # NoAddr
      BY RcAssumption DEF RcInv, RcTypeOK, RcConfig, RcRoute, RcForward
    <2>6. \A n \in rc.nats \union rc.pfs : n.rif # r.id
      BY <1>0, <2>4, <2>5 DEF RcKept, NatOwnsUplink, ForwardsDisjoint
    <2> QED BY <2>2, <2>3, <2>4, <2>5, <2>6, ReplaceKept
  <1>2. CASE IpDel(r)
    <2> DEFINE s == [r EXCEPT !.addr = NoAddr]
    <2>1. rc' = Replaced(rc, r, s)
      BY <1>2 DEF IpDel, WithAddress
    <2>2. /\ s \in RcInterface /\ s.id = r.id /\ s.vr = r.vr /\ s.kind = r.kind
          /\ s.at = r.at /\ s.addr = NoAddr
      BY <1>0 DEF RcInterface
    <2> HIDE DEF s
    <2>3. /\ \A n \in rc.nats \union rc.pfs : n.rif # r.id
          /\ \A p \in Peers(rc, r), x \in rc.routes : ~ (x.rif = p.id /\ x.gw = r.addr)
      BY <1>2 DEF IpDel, CanIpDel, Uses, PeerRoutesUse
    <2> QED BY <2>1, <2>2, <2>3, ReplaceKept
  <1>3. CASE MacSet(r)
    <2>1. PICK m \in MacInput : rc' = Replaced(rc, r, [r EXCEPT !.mac = m])
      BY <1>3 DEF MacSet, WithMac
    <2> DEFINE s == [r EXCEPT !.mac = m]
    <2>2. /\ s \in RcInterface /\ s.id = r.id /\ s.vr = r.vr /\ s.kind = r.kind
          /\ s.at = r.at /\ s.addr = r.addr
      BY <1>0 DEF RcInterface, Mac
    <2>3. rc' = Replaced(rc, r, s)
      BY <2>1
    <2> HIDE DEF s
    <2>4. \A p \in Peers(rc, r) : r.kind = "link"
      BY DEF Peers
    <2>5. \A p \in Peers(rc, r) : p.addr # NoAddr /\ s.addr # NoAddr =>
            p.addr.net = s.addr.net /\ p.addr # s.addr
      BY <2>2, <2>4 DEF RcKept, LinkEnds
    <2> QED BY <2>2, <2>3, <2>5, ReplaceKept
  <1> QED BY <1>1, <1>2, <1>3

\* `vr route add`: the gateway over a link is its other end.
LEMMA RouteAddKept ==
  ASSUME RcInv, RcKept, NEW r \in rc.ifs, RouteAdd(r) PROVE RcKept'
  <1>1. PICK dest \in Dest \union {Default}, gw \in Addr :
          CanRouteAdd(rc, r, dest, gw) /\ rc' = WithRoute(rc, r, dest, gw)
    BY DEF RouteAdd
  <1> DEFINE new == [vr |-> r.vr, rif |-> r.id, dest |-> dest, gw |-> gw]
  <1>2. /\ rc'.ifs = rc.ifs /\ rc'.nats = rc.nats /\ rc'.pfs = rc.pfs
        /\ rc'.routes = rc.routes \union {new}
    BY <1>1 DEF RcInv, RcTypeOK, RcConfig, WithRoute
  <1>3. NatOwnsUplink'
    BY <1>2 DEF RcKept, NatOwnsUplink, NatOf
  <1>4. ForwardsDisjoint'
    BY <1>2 DEF RcKept, ForwardsDisjoint
  <1>5. LinkEnds'
    <2>1. \A q \in rc.ifs : Peers(rc', q) = Peers(rc, q) /\ (q.id = r.id => q = r)
      BY <1>2 DEF Peers, RcInv, NoDanglingReference
    <2>2. r.kind = "link" => \E p \in Peers(rc, r) : p.addr = new.gw
      BY <1>1 DEF CanRouteAdd
    <2> QED BY <1>2, <2>1, <2>2 DEF RcKept, LinkEnds
  <1> QED BY <1>3, <1>4, <1>5 DEF RcKept

\* `vr route del`: the default route of a NAT uplink stays.
LEMMA RouteDelKept ==
  ASSUME RcInv, RcKept, RouteDel PROVE RcKept'
  <1>1. PICK x \in rc.routes : CanRouteDel(rc, x) /\ rc' = WithoutRoute(rc, x)
    BY DEF RouteDel
  <1>2. /\ rc'.ifs = rc.ifs /\ rc'.nats = rc.nats /\ rc'.pfs = rc.pfs
        /\ rc'.routes = rc.routes \ {x}
    BY <1>1 DEF RcInv, RcTypeOK, RcConfig, WithoutRoute
  <1>3. NatOwnsUplink'
    <2>1. \A n \in rc.nats, y \in rc.routes :
            y.vr = n.vr /\ y.rif = n.rif /\ y.dest = Default => y # x
      BY <1>1 DEF CanRouteDel, NatOf
    <2> QED BY <1>2, <2>1 DEF RcKept, NatOwnsUplink, NatOf
  <1>4. ForwardsDisjoint'
    BY <1>2 DEF RcKept, ForwardsDisjoint
  <1>5. LinkEnds'
    BY <1>2 DEF RcKept, LinkEnds, Peers
  <1> QED BY <1>3, <1>4, <1>5 DEF RcKept

\* `vr nat enable` and `vr nat disable`.
LEMMA NatKept ==
  ASSUME RcInv, RcKept,
         (\E r \in rc.ifs : NatEnable(r)) \/ (\E vr \in Vr : NatDisable(vr))
  PROVE  RcKept'
  <1>1. ASSUME NEW r \in rc.ifs, NatEnable(r) PROVE RcKept'
    <2>1. PICK pub \in Addr \union {NoAddr} :
            CanNatEnable(rc, r, pub) /\ rc' = WithNat(rc, r, pub)
      BY <1>1 DEF NatEnable
    <2> DEFINE new == [vr |-> r.vr, rif |-> r.id, pub |-> pub]
    <2>2. /\ rc'.ifs = rc.ifs /\ rc'.routes = rc.routes /\ rc'.pfs = rc.pfs
          /\ rc'.nats = rc.nats \union {new}
      BY <2>1 DEF RcInv, RcTypeOK, RcConfig, WithNat
    <2>3. NatOwnsUplink'
      <3>1. \A n \in rc.nats : n.vr # r.vr
        BY <2>1 DEF CanNatEnable, NatOf
      <3>2. \A n \in rc.nats : NatOf(rc', n.vr) = {n}
        BY <2>2, <3>1 DEF RcKept, NatOwnsUplink, NatOf
      <3>3. NatOf(rc', new.vr) = {new}
        BY <2>2, <3>1 DEF NatOf
      <3>4. /\ new.rif = r.id /\ r.kind # "link" /\ r.addr # NoAddr /\ new.pub \in {NoAddr, r.addr}
            /\ \E x \in rc.routes : x.vr = new.vr /\ x.rif = new.rif /\ x.dest = Default
        BY <2>1 DEF CanNatEnable
      <3> HIDE DEF new
      <3> QED BY <2>2, <3>2, <3>3, <3>4 DEF RcKept, NatOwnsUplink
    <2>4. ForwardsDisjoint' /\ LinkEnds'
      BY <2>2 DEF RcKept, ForwardsDisjoint, LinkEnds, Peers
    <2> QED BY <2>3, <2>4 DEF RcKept
  <1>2. ASSUME NEW vr \in Vr, NatDisable(vr) PROVE RcKept'
    <2>2. /\ rc'.ifs = rc.ifs /\ rc'.routes = rc.routes /\ rc'.pfs = rc.pfs
          /\ rc'.nats = rc.nats \ NatOf(rc, vr)
      BY <1>2 DEF RcInv, RcTypeOK, RcConfig, NatDisable, WithoutNat
    <2>3. NatOwnsUplink'
      BY <2>2 DEF RcKept, NatOwnsUplink, NatOf
    <2>4. ForwardsDisjoint' /\ LinkEnds'
      BY <2>2 DEF RcKept, ForwardsDisjoint, LinkEnds, Peers
    <2> QED BY <2>3, <2>4 DEF RcKept
  <1> QED BY <1>1, <1>2

\* `vr port-forward add` and `vr port-forward delete`.
LEMMA ForwardKept ==
  ASSUME RcInv, RcKept, (\E r \in rc.ifs : ForwardAdd(r)) \/ ForwardDelete PROVE RcKept'
  <1>1. ASSUME NEW r \in rc.ifs, ForwardAdd(r) PROVE RcKept'
    <2>1. PICK id \in RuleId, f \in Forward :
            CanForwardAdd(rc, r, id, f) /\ rc' = WithForward(rc, r, id, f)
      BY <1>1 DEF ForwardAdd
    <2> DEFINE new == [vr |-> r.vr, rif |-> r.id, id |-> id, map |-> f, pub |-> r.addr]
    <2>2. /\ rc'.ifs = rc.ifs /\ rc'.routes = rc.routes /\ rc'.nats = rc.nats
          /\ rc'.pfs = rc.pfs \union {new}
      BY <2>1 DEF RcInv, RcTypeOK, RcConfig, WithForward
    <2>3. ForwardsDisjoint'
      <3>1. new.rif = r.id /\ new.pub = r.addr
        OBVIOUS
      <3>2. \A x \in rc.pfs :
              x.vr = new.vr =>
                /\ x.id # new.id
                /\ x.map.proto = new.map.proto /\ x.pub = new.pub
                     => x.map.pub \cap new.map.pub = {}
        BY <2>1 DEF CanForwardAdd
      <3> HIDE DEF new
      <3> QED BY <2>2, <3>1, <3>2 DEF RcKept, ForwardsDisjoint
    <2>4. NatOwnsUplink' /\ LinkEnds'
      BY <2>2 DEF RcKept, NatOwnsUplink, NatOf, LinkEnds, Peers
    <2> QED BY <2>3, <2>4 DEF RcKept
  <1>2. CASE ForwardDelete
    <2>1. PICK x \in rc.pfs : rc' = WithoutForward(rc, x)
      BY <1>2 DEF ForwardDelete
    <2>2. /\ rc'.ifs = rc.ifs /\ rc'.routes = rc.routes /\ rc'.nats = rc.nats
          /\ rc'.pfs = rc.pfs \ {x}
      BY <2>1 DEF RcInv, RcTypeOK, RcConfig, WithoutForward
    <2>3. ForwardsDisjoint'
      BY <2>2 DEF RcKept, ForwardsDisjoint
    <2>4. NatOwnsUplink' /\ LinkEnds'
      BY <2>2 DEF RcKept, NatOwnsUplink, NatOf, LinkEnds, Peers
    <2> QED BY <2>3, <2>4 DEF RcKept
  <1> QED BY <1>1, <1>2

\* Every command keeps it, given the references.
LEMMA RcKeptNext == RcInv /\ RcKept /\ [RcNext]_rc => RcKept'
  <1> SUFFICES ASSUME RcInv, RcKept, [RcNext]_rc PROVE RcKept'
    OBVIOUS
  <1>1. ASSUME NEW vr \in Vr, Create(vr) \/ Delete(vr) PROVE RcKept'
    <2>1. /\ rc'.ifs = rc.ifs /\ rc'.routes = rc.routes /\ rc'.nats = rc.nats
          /\ rc'.pfs = rc.pfs
      BY <1>1 DEF RcInv, RcTypeOK, RcConfig, Create, WithVr, Delete, WithoutVr
    <2> QED BY <2>1, KeptSame
  <1>2. ASSUME NEW l \in Link, LinkCreate(l) \/ LinkDelete(l) PROVE RcKept'
    <2>1. /\ rc'.ifs = rc.ifs /\ rc'.routes = rc.routes /\ rc'.nats = rc.nats
          /\ rc'.pfs = rc.pfs
      BY <1>2 DEF RcInv, RcTypeOK, RcConfig, LinkCreate, WithLink, LinkDelete, WithoutLink
    <2> QED BY <2>1, KeptSame
  <1>3. CASE \E vr \in Vr, name \in Name :
               AttachSwitch(vr, name) \/ AttachPort(vr, name) \/ AttachLink(vr, name)
    <2>1. PICK vr \in Vr, name \in Name, kind \in Kind, at \in Switch \union Vf \union Link :
            Attach(vr, name, kind, at)
      BY <1>3 DEF AttachSwitch, AttachPort, AttachLink, Kind
    <2> QED BY <2>1, AttachKept
  <1>4. ASSUME NEW r \in rc.ifs,
               \/ Detach(r) \/ IpAdd(r) \/ IpDel(r) \/ MacSet(r)
               \/ RouteAdd(r) \/ NatEnable(r) \/ ForwardAdd(r)
        PROVE  RcKept'
    BY <1>4, DetachKept, InterfaceKept, RouteAddKept, NatKept, ForwardKept
  <1>5. ASSUME NEW r \in rc.ifs, NEW dir \in Filters,
               PolicySet(dir, r) \/ PolicyDelete(dir, r) \/ RuleAdd(dir, r)
        PROVE  RcKept'
    <2>1. /\ rc'.ifs = rc.ifs /\ rc'.routes = rc.routes /\ rc'.nats = rc.nats
          /\ rc'.pfs = rc.pfs
      BY <1>5 DEF RcInv, RcTypeOK, RcConfig, PolicySet, WithPolicy, PolicyDelete,
         WithoutPolicy, RuleAdd, WithRule
    <2> QED BY <2>1, KeptSame
  <1>6. CASE RuleDelete
    <2>1. /\ rc'.ifs = rc.ifs /\ rc'.routes = rc.routes /\ rc'.nats = rc.nats
          /\ rc'.pfs = rc.pfs
      BY <1>6 DEF RcInv, RcTypeOK, RcConfig, RuleDelete, WithoutRule
    <2> QED BY <2>1, KeptSame
  <1>7. CASE RouteDel \/ ForwardDelete \/ \E vr \in Vr : NatDisable(vr)
    BY <1>7, RouteDelKept, ForwardKept, NatKept
  <1>8. CASE UNCHANGED rc
    BY <1>8, KeptSame
  <1> QED BY <1>1, <1>2, <1>3, <1>4, <1>5, <1>6, <1>7, <1>8 DEF RcNext

\* The relations between objects hold of every committed configuration.
THEOREM RelationsKept == RcSpec => []RcKept
  <1>1. RcInit => RcKept
    BY DEF RcInit, EmptyConfig, RcKept, NatOwnsUplink, ForwardsDisjoint, LinkEnds
  <1> QED BY <1>1, RcInvariant, RcKeptNext, PTL DEF RcSpec

\* A NAT policy keeps its addressed uplink with the default route: no later
\* IP_DEL, DETACH or ROUTE_DEL takes them away.
THEOREM NatKeepsUplink == RcSpec => []NatOwnsUplink
  BY RelationsKept, PTL DEF RcKept

\* Port forwards never compete for a public endpoint and follow the address
\* of their RIF: what the NAT table's lookups rely on.
THEOREM ForwardsKeepApart == RcSpec => []ForwardsDisjoint
  BY RelationsKept, PTL DEF RcKept

\* A router link has at most two ends, in two VRs, with distinct addresses of
\* one subnet, and its routes lead to the other end (router_link_peer).
THEOREM LinksPointToPoint == RcSpec => []LinkPointToPoint
  <1>1. LinkEnds => LinkPointToPoint
    <2> SUFFICES ASSUME LinkEnds, NEW r \in rc.ifs, r.kind = "link"
                 PROVE  Cardinality(Peers(rc, r)) <= 1
      BY DEF LinkEnds, LinkPointToPoint
    <2>1. CASE Peers(rc, r) = {}
      BY <2>1, FS_EmptySet
    <2>2. CASE Peers(rc, r) # {}
      <3>1. PICK p \in Peers(rc, r) : TRUE
        BY <2>2
      <3>2. Peers(rc, r) = {p}
        BY <3>1 DEF LinkEnds
      <3> QED BY <3>2, FS_Singleton
    <2> QED BY <2>1, <2>2
  <1>2. RcKept => LinkPointToPoint
    BY <1>1 DEF RcKept
  <1> QED BY <1>2, RelationsKept, PTL
-----------------------------------------------------------------------------
(***************************************************************************)
(* The rest of what the validator asked of a configuration, which a replay *)
(* asks again: names and attachments, subnets, gateways, rule ids, and the *)
(* capacities.                                                             *)
(***************************************************************************)
\* A set of at most m entries.
Within(S, m) == IsFiniteSet(S) /\ Cardinality(S) <= m

\* What attach and `vr ip add` asked of two interfaces.
Together(r, s) ==
  /\ ~ (r.vr = s.vr /\ r.name = s.name)
  /\ r.kind = "port" /\ s.kind = "port" => r.at # s.at /\ r.vr # s.vr
  /\ r.addr # NoAddr /\ s.addr # NoAddr =>
       /\ r.vr = s.vr => ~ Overlap(r.addr, s.addr)
       /\ r.kind = "switch" /\ s.kind = "switch" /\ r.at = s.at => r.addr # s.addr

InterfacesFit ==
  /\ Within(rc.ifs, MaxInterfaces)
  /\ \A r, s \in rc.ifs : r # s => Together(r, s)

\* The gateway of a route is a neighbor on the subnet of its interface.
Gateway(x, r) == r.addr # NoAddr /\ x.gw # r.addr /\ x.gw.net = r.addr.net

RoutesFit ==
  /\ Within(rc.routes, MaxRoutes)
  /\ \A x \in rc.routes : \E r \in rc.ifs : r.id = x.rif /\ Gateway(x, r)
  /\ \A x, y \in rc.routes : x.vr = y.vr /\ x.dest = y.dest => x = y

NatsFit == Within(rc.nats, MaxVrs)

ForwardsFit ==
  /\ Within(rc.pfs, MaxForwards)
  /\ \A x \in rc.pfs : \E r \in rc.ifs : r.id = x.rif /\ r.kind # "link"
  /\ \A x, y \in rc.pfs : x # y /\ x.vr = y.vr => x.id # y.id /\ ~ PrivateClash(x.map, y.map)

\* The kind of interface a filter may be on.
Filterable(dir, kind) == IF dir = "egress" THEN kind = "switch" ELSE kind # "link"

FiltersFit ==
  /\ \A dir \in Filters : Within(Of(rc.policies, dir), MaxPolicies) /\ Within(Of(rc.rules, dir), MaxRules)
  /\ \A p \in rc.policies : \E r \in rc.ifs : r.id = p.rif /\ Filterable(p.dir, r.kind)
  /\ \A p, q \in rc.policies : p.dir = q.dir /\ p.rif = q.rif => p = q

RcFits == InterfacesFit /\ RoutesFit /\ NatsFit /\ ForwardsFit /\ FiltersFit

\* The empty configuration fits.
LEMMA FitsInit == RcInit => RcFits
  <1> SUFFICES ASSUME RcInit PROVE RcFits
    OBVIOUS
  <1>1. /\ rc.ifs = {} /\ rc.routes = {} /\ rc.nats = {} /\ rc.pfs = {}
        /\ rc.policies = {} /\ rc.rules = {}
    BY DEF RcInit, EmptyConfig
  <1>2. \A m \in Nat : Within({}, m)
    BY FS_EmptySet DEF Within
  <1>3. {MaxInterfaces, MaxRoutes, MaxVrs, MaxForwards, MaxPolicies, MaxRules} \subseteq Nat
    BY RcAssumption
  <1>4. \A dir : Of({}, dir) = {}
    BY DEF Of
  <1> QED BY <1>1, <1>2, <1>3, <1>4 DEF RcFits, InterfacesFit, RoutesFit, NatsFit, ForwardsFit, FiltersFit

\* Entries come and go within the capacity that the validator checks.
LEMMA WithinGrows ==
  ASSUME NEW S, NEW m \in Nat, Within(S, m), Cardinality(S) < m, NEW x
  PROVE  Within(S \union {x}, m)
  <1>1. IsFiniteSet(S \union {x}) /\ Cardinality(S) \in Nat
        /\ (Cardinality(S \union {x}) = Cardinality(S) \/ Cardinality(S \union {x}) = Cardinality(S) + 1)
    BY FS_AddElement, FS_CardinalityType DEF Within
  <1> QED BY <1>1 DEF Within

LEMMA WithinShrinks ==
  ASSUME NEW S, NEW m \in Nat, Within(S, m), NEW T, T \subseteq S
  PROVE  Within(T, m)
  <1>1. IsFiniteSet(T) /\ Cardinality(T) <= Cardinality(S)
    BY FS_Subset DEF Within
  <1>2. Cardinality(T) \in Nat /\ Cardinality(S) \in Nat
    BY <1>1, FS_CardinalityType DEF Within
  <1> QED BY <1>1, <1>2 DEF Within

\* A part that lacks an element is below the capacity.
LEMMA WithinRoom ==
  ASSUME NEW S, NEW m \in Nat, Within(S, m), NEW T, T \subseteq S, NEW x \in S, x \notin T
  PROVE  IsFiniteSet(T) /\ Cardinality(T) < m
  <1>1. IsFiniteSet(S) /\ Cardinality(S) \in Nat /\ Cardinality(S) <= m
    BY FS_CardinalityType DEF Within
  <1>2. IsFiniteSet(T) /\ Cardinality(T) <= Cardinality(S) /\ (Cardinality(S) = Cardinality(T) => S = T)
    BY <1>1, FS_Subset
  <1>3. Cardinality(T) \in Nat
    BY <1>2, FS_CardinalityType
  <1> QED BY <1>1, <1>2, <1>3

LEMMA WithinSwapped ==
  ASSUME NEW S, NEW m \in Nat, Within(S, m), NEW r \in S, NEW s
  PROVE  Within((S \ {r}) \union {s}, m)
  <1>1. IsFiniteSet(S \ {r}) /\ Cardinality(S \ {r}) < m
    <2>1. S \ {r} \subseteq S /\ r \notin S \ {r}
      OBVIOUS
    <2> QED BY <2>1, WithinRoom
  <1>2. Within(S \ {r}, m)
    BY WithinShrinks
  <1> QED BY <1>1, <1>2, WithinGrows

LEMMA Capacities == {MaxInterfaces, MaxRoutes, MaxVrs, MaxForwards, MaxPolicies, MaxRules} \subseteq Nat
  BY RcAssumption

\* A part whose entries stay keeps fitting.
LEMMA FitsSame ==
  ASSUME RcFits
  PROVE  /\ rc'.ifs = rc.ifs => InterfacesFit'
         /\ rc'.ifs = rc.ifs /\ rc'.routes = rc.routes => RoutesFit'
         /\ rc'.nats = rc.nats => NatsFit'
         /\ rc'.ifs = rc.ifs /\ rc'.pfs = rc.pfs => ForwardsFit'
         /\ rc'.ifs = rc.ifs /\ rc'.policies = rc.policies /\ rc'.rules = rc.rules => FiltersFit'
  <1>1. rc'.ifs = rc.ifs => InterfacesFit'
    BY DEF RcFits, InterfacesFit
  <1>2. rc'.ifs = rc.ifs /\ rc'.routes = rc.routes => RoutesFit'
    BY DEF RcFits, RoutesFit
  <1>3. rc'.nats = rc.nats => NatsFit'
    BY DEF RcFits, NatsFit
  <1>4. rc'.ifs = rc.ifs /\ rc'.pfs = rc.pfs => ForwardsFit'
    BY DEF RcFits, ForwardsFit
  <1>5. rc'.ifs = rc.ifs /\ rc'.policies = rc.policies /\ rc'.rules = rc.rules => FiltersFit'
    BY DEF RcFits, FiltersFit
  <1> QED BY <1>1, <1>2, <1>3, <1>4, <1>5

\* A command on an interface leaves what depends on it alone, if what depends
\* on it finds an interface of the same id, kind and, for a route, address.
LEMMA DependentsFit ==
  ASSUME RcFits, rc'.routes = rc.routes, rc'.nats = rc.nats, rc'.pfs = rc.pfs,
         rc'.policies = rc.policies, rc'.rules = rc.rules,
         \A x \in rc.routes, r \in rc.ifs : r.id = x.rif =>
           \E s \in rc'.ifs : s.id = r.id /\ s.addr = r.addr,
         \A x \in rc.pfs \union rc.policies, r \in rc.ifs : r.id = x.rif =>
           \E s \in rc'.ifs : s.id = r.id /\ s.kind = r.kind
  PROVE  RoutesFit' /\ NatsFit' /\ ForwardsFit' /\ FiltersFit'
  <1>1. RoutesFit'
    <2>1. ASSUME NEW x \in rc.routes PROVE \E s \in rc'.ifs : s.id = x.rif /\ Gateway(x, s)
      <3>1. PICK r \in rc.ifs : r.id = x.rif /\ Gateway(x, r)
        BY DEF RcFits, RoutesFit
      <3>2. PICK s \in rc'.ifs : s.id = r.id /\ s.addr = r.addr
        BY <3>1
      <3> QED BY <3>1, <3>2 DEF Gateway
    <2> QED BY <2>1 DEF RcFits, RoutesFit
  <1>2. NatsFit'
    BY FitsSame
  <1>3. ForwardsFit'
    <2>1. ASSUME NEW x \in rc.pfs PROVE \E s \in rc'.ifs : s.id = x.rif /\ s.kind # "link"
      <3>1. PICK r \in rc.ifs : r.id = x.rif /\ r.kind # "link"
        BY DEF RcFits, ForwardsFit
      <3> QED BY <3>1
    <2> QED BY <2>1 DEF RcFits, ForwardsFit
  <1>4. FiltersFit'
    <2>1. ASSUME NEW p \in rc.policies PROVE \E s \in rc'.ifs : s.id = p.rif /\ Filterable(p.dir, s.kind)
      <3>1. PICK r \in rc.ifs : r.id = p.rif /\ Filterable(p.dir, r.kind)
        BY DEF RcFits, FiltersFit
      <3>2. PICK s \in rc'.ifs : s.id = r.id /\ s.kind = r.kind
        BY <3>1
      <3> QED BY <3>1, <3>2
    <2> QED BY <2>1 DEF RcFits, FiltersFit
  <1> QED BY <1>1, <1>2, <1>3, <1>4

\* The attach commands.
LEMMA AttachFits ==
  ASSUME RcInv, RcFits, NEW vr \in Vr, NEW name \in Name, NEW kind \in Kind,
         NEW at \in Switch \union Vf \union Link, Attach(vr, name, kind, at)
  PROVE  RcFits'
  <1> DEFINE new == [vr |-> vr, id |-> rc.next, name |-> name, kind |-> kind,
               at |-> at, mac |-> <<vr, rc.next>>, addr |-> NoAddr]
  <1>1. /\ rc'.ifs = rc.ifs \union {new} /\ rc'.routes = rc.routes
        /\ rc'.nats = rc.nats /\ rc'.pfs = rc.pfs
        /\ rc'.policies = rc.policies /\ rc'.rules = rc.rules
    BY DEF RcInv, RcTypeOK, RcConfig, Attach, WithInterface
  <1>2. /\ new.vr = vr /\ new.name = name /\ new.kind = kind /\ new.at = at
        /\ new.addr = NoAddr
    OBVIOUS
  <1> HIDE DEF new
  <1>3. InterfacesFit'
    <2>1. Within(rc'.ifs, MaxInterfaces)
      BY <1>1, WithinGrows, Capacities DEF RcFits, InterfacesFit, Attach, CanAttach
    <2>2. \A r \in rc.ifs : Together(r, new) /\ Together(new, r)
      BY <1>2 DEF Attach, CanAttach, Together
    <2> QED BY <1>1, <2>1, <2>2 DEF RcFits, InterfacesFit
  <1> QED BY <1>1, <1>3, DependentsFit DEF RcFits

\* The detach commands: nothing depends on the interface.
LEMMA DetachFits ==
  ASSUME RcInv, RcFits, NEW r \in rc.ifs, Detach(r) PROVE RcFits'
  <1>1. /\ rc'.ifs = rc.ifs \ {r} /\ rc'.routes = rc.routes
        /\ rc'.nats = rc.nats /\ rc'.pfs = rc.pfs
        /\ rc'.policies = rc.policies /\ rc'.rules = rc.rules
    BY DEF RcInv, RcTypeOK, RcConfig, Detach, WithoutInterface
  <1>2. InterfacesFit'
    BY <1>1, WithinShrinks, Capacities DEF RcFits, InterfacesFit
  <1>3. \A p \in rc.policies : p.dir = "egress" \/ p.dir = "ingress"
    BY RcAssumption DEF RcInv, RcTypeOK, RcConfig, RcPolicy
  <1>4. \A x \in rc.routes \union rc.pfs \union rc.policies : x.rif # r.id
    BY <1>3 DEF Detach, CanDetach, Uses, FilterUses
  <1>5. \A x \in rc.routes \union rc.pfs \union rc.policies, q \in rc.ifs : q.id = x.rif => q \in rc'.ifs
    BY <1>1, <1>4
  <1> QED BY <1>1, <1>2, <1>5, DependentsFit DEF RcFits

\* An interface is replaced by one that gets along with the others, and its
\* address changes only when no route needs it.
LEMMA ReplaceFits ==
  ASSUME RcInv, RcFits, NEW r \in rc.ifs, NEW s \in RcInterface,
         s.id = r.id, s.kind = r.kind, rc' = Replaced(rc, r, s),
         \A q \in rc.ifs : q # r => Together(q, s) /\ Together(s, q),
         \A x \in rc.routes : x.rif = r.id => s.addr = r.addr
  PROVE  RcFits'
  <1>1. /\ rc'.ifs = (rc.ifs \ {r}) \union {s} /\ rc'.routes = rc.routes
        /\ rc'.nats = rc.nats /\ rc'.pfs = rc.pfs
        /\ rc'.policies = rc.policies /\ rc'.rules = rc.rules
    BY DEF RcInv, RcTypeOK, RcConfig, Replaced
  <1>2. InterfacesFit'
    <2>1. Within(rc'.ifs, MaxInterfaces)
      <3>1. MaxInterfaces \in Nat /\ Within(rc.ifs, MaxInterfaces)
        BY Capacities DEF RcFits, InterfacesFit
      <3>2. Within((rc.ifs \ {r}) \union {s}, MaxInterfaces)
        BY <3>1, WithinSwapped
      <3> QED BY <1>1, <3>2
    <2> QED BY <1>1, <2>1 DEF RcFits, InterfacesFit
  <1>3. \A x \in rc.routes, q \in rc.ifs : q.id = x.rif =>
          \E o \in rc'.ifs : o.id = q.id /\ o.addr = q.addr
    BY <1>1
  <1>4. \A x \in rc.pfs \union rc.policies, q \in rc.ifs : q.id = x.rif =>
          \E o \in rc'.ifs : o.id = q.id /\ o.kind = q.kind
    BY <1>1
  <1> QED BY <1>1, <1>2, <1>3, <1>4, DependentsFit DEF RcFits

\* `vr ip add`, `vr ip del` and `vr interface set`.
LEMMA InterfaceFits ==
  ASSUME RcInv, RcFits, NEW r \in rc.ifs, IpAdd(r) \/ IpDel(r) \/ MacSet(r) PROVE RcFits'
  <1>0. r \in RcInterface /\ \A q \in rc.ifs : q # r => Together(q, r) /\ Together(r, q)
    BY DEF RcInv, RcTypeOK, RcConfig, RcFits, InterfacesFit
  <1>1. CASE IpAdd(r)
    <2>1. PICK a \in Addr : CanIpAdd(rc, r, a) /\ rc' = Replaced(rc, r, [r EXCEPT !.addr = a])
      BY <1>1 DEF IpAdd, WithAddress
    <2> DEFINE s == [r EXCEPT !.addr = a]
    <2>2. /\ s \in RcInterface /\ s.id = r.id /\ s.vr = r.vr /\ s.kind = r.kind
          /\ s.at = r.at /\ s.name = r.name /\ s.addr = a
      BY <1>0 DEF RcInterface
    <2>3. rc' = Replaced(rc, r, s)
      BY <2>1
    <2> HIDE DEF s
    <2>4. ASSUME NEW q \in rc.ifs, q # r PROVE Together(q, s) /\ Together(s, q)
      <3>1. q.addr # NoAddr =>
              /\ q.vr = r.vr => ~ Overlap(q.addr, a) /\ ~ Overlap(a, q.addr)
              /\ r.kind = "switch" /\ q.kind = "switch" /\ q.at = r.at => q.addr # a
        BY <2>1 DEF CanIpAdd, Overlap
      <3>2. Together(q, r) /\ Together(r, q)
        BY <1>0, <2>4
      <3> QED BY <2>2, <3>1, <3>2 DEF Together
    <2>5. \A x \in rc.routes : x.rif # r.id
      <3>1. r.addr = NoAddr /\ \A q \in rc.ifs : q.id = r.id => q = r
        BY <2>1 DEF CanIpAdd, RcInv, NoDanglingReference
      <3> QED BY <3>1 DEF RcFits, RoutesFit, Gateway
    <2> QED BY <2>2, <2>3, <2>4, <2>5, ReplaceFits
  <1>2. CASE IpDel(r)
    <2> DEFINE s == [r EXCEPT !.addr = NoAddr]
    <2>1. rc' = Replaced(rc, r, s)
      BY <1>2 DEF IpDel, WithAddress
    <2>2. /\ s \in RcInterface /\ s.id = r.id /\ s.vr = r.vr /\ s.kind = r.kind
          /\ s.at = r.at /\ s.name = r.name /\ s.addr = NoAddr
      BY <1>0 DEF RcInterface
    <2> HIDE DEF s
    <2>3. \A q \in rc.ifs : q # r => Together(q, s) /\ Together(s, q)
      BY <1>0, <2>2 DEF Together
    <2>4. \A x \in rc.routes : x.rif # r.id
      BY <1>2 DEF IpDel, CanIpDel, Uses
    <2> QED BY <2>1, <2>2, <2>3, <2>4, ReplaceFits
  <1>3. CASE MacSet(r)
    <2>1. PICK m \in MacInput : rc' = Replaced(rc, r, [r EXCEPT !.mac = m])
      BY <1>3 DEF MacSet, WithMac
    <2> DEFINE s == [r EXCEPT !.mac = m]
    <2>2. /\ s \in RcInterface /\ s.id = r.id /\ s.vr = r.vr /\ s.kind = r.kind
          /\ s.at = r.at /\ s.name = r.name /\ s.addr = r.addr
      BY <1>0 DEF RcInterface, Mac
    <2>3. rc' = Replaced(rc, r, s)
      BY <2>1
    <2> HIDE DEF s
    <2>4. \A q \in rc.ifs : q # r => Together(q, s) /\ Together(s, q)
      BY <1>0, <2>2 DEF Together
    <2> QED BY <2>2, <2>3, <2>4, ReplaceFits
  <1> QED BY <1>1, <1>2, <1>3

\* `vr route add` and `vr route del`.
LEMMA RouteFits ==
  ASSUME RcInv, RcFits, RouteDel \/ \E r \in rc.ifs : RouteAdd(r) PROVE RcFits'
  <1>1. ASSUME NEW r \in rc.ifs, RouteAdd(r) PROVE RcFits'
    <2>1. PICK dest \in Dest \union {Default}, gw \in Addr :
            CanRouteAdd(rc, r, dest, gw) /\ rc' = WithRoute(rc, r, dest, gw)
      BY <1>1 DEF RouteAdd
    <2> DEFINE new == [vr |-> r.vr, rif |-> r.id, dest |-> dest, gw |-> gw]
    <2>2. /\ rc'.ifs = rc.ifs /\ rc'.nats = rc.nats /\ rc'.pfs = rc.pfs
          /\ rc'.policies = rc.policies /\ rc'.rules = rc.rules
          /\ rc'.routes = rc.routes \union {new}
      BY <2>1 DEF RcInv, RcTypeOK, RcConfig, WithRoute
    <2>3. new.vr = r.vr /\ new.rif = r.id /\ new.dest = dest /\ new.gw = gw
      OBVIOUS
    <2> HIDE DEF new
    <2>4. Within(rc'.routes, MaxRoutes)
      <3>1. MaxRoutes \in Nat /\ Within(rc.routes, MaxRoutes) /\ Cardinality(rc.routes) < MaxRoutes
        BY <2>1, Capacities DEF RcFits, RoutesFit, CanRouteAdd
      <3>2. Within(rc.routes \union {new}, MaxRoutes)
        BY ONLY <3>1, WithinGrows
      <3> QED BY <2>2, <3>2
    <2>5. r.id = new.rif /\ Gateway(new, r)
      BY <2>1, <2>3 DEF CanRouteAdd, Gateway
    <2>6. \A x \in rc.routes : ~ (x.vr = new.vr /\ x.dest = new.dest)
      BY <2>1, <2>3 DEF CanRouteAdd
    <2>7. RoutesFit'
      BY <2>2, <2>4, <2>5, <2>6 DEF RcFits, RoutesFit
    <2> QED BY <2>2, <2>7, FitsSame DEF RcFits
  <1>2. CASE RouteDel
    <2>1. PICK x \in rc.routes : rc' = WithoutRoute(rc, x)
      BY <1>2 DEF RouteDel
    <2>2. /\ rc'.ifs = rc.ifs /\ rc'.nats = rc.nats /\ rc'.pfs = rc.pfs
          /\ rc'.policies = rc.policies /\ rc'.rules = rc.rules
          /\ rc'.routes = rc.routes \ {x}
      BY <2>1 DEF RcInv, RcTypeOK, RcConfig, WithoutRoute
    <2>3. Within(rc'.routes, MaxRoutes)
      BY <2>2, WithinShrinks, Capacities DEF RcFits, RoutesFit
    <2>4. RoutesFit'
      BY <2>2, <2>3 DEF RcFits, RoutesFit
    <2> QED BY <2>2, <2>4, FitsSame DEF RcFits
  <1> QED BY <1>1, <1>2

\* `vr nat enable` and `vr nat disable`.
LEMMA NatFits ==
  ASSUME RcInv, RcFits,
         (\E r \in rc.ifs : NatEnable(r)) \/ (\E vr \in Vr : NatDisable(vr))
  PROVE  RcFits'
  <1>1. ASSUME NEW r \in rc.ifs, NatEnable(r) PROVE RcFits'
    <2>1. PICK pub \in Addr \union {NoAddr} :
            CanNatEnable(rc, r, pub) /\ rc' = WithNat(rc, r, pub)
      BY <1>1 DEF NatEnable
    <2> DEFINE new == [vr |-> r.vr, rif |-> r.id, pub |-> pub]
    <2>2. /\ rc'.ifs = rc.ifs /\ rc'.routes = rc.routes /\ rc'.pfs = rc.pfs
          /\ rc'.policies = rc.policies /\ rc'.rules = rc.rules
          /\ rc'.nats = rc.nats \union {new}
      BY <2>1 DEF RcInv, RcTypeOK, RcConfig, WithNat
    <2> HIDE DEF new
    <2>3. NatsFit'
      <3>1. MaxVrs \in Nat /\ Within(rc.nats, MaxVrs) /\ Cardinality(rc.nats) < MaxVrs
        BY <2>1, Capacities DEF RcFits, NatsFit, CanNatEnable
      <3>2. Within(rc.nats \union {new}, MaxVrs)
        BY ONLY <3>1, WithinGrows
      <3> QED BY <2>2, <3>2 DEF NatsFit
    <2> QED BY <2>2, <2>3, FitsSame DEF RcFits
  <1>2. ASSUME NEW vr \in Vr, NatDisable(vr) PROVE RcFits'
    <2>1. /\ rc'.ifs = rc.ifs /\ rc'.routes = rc.routes /\ rc'.pfs = rc.pfs
          /\ rc'.policies = rc.policies /\ rc'.rules = rc.rules
          /\ rc'.nats = rc.nats \ NatOf(rc, vr)
      BY <1>2 DEF RcInv, RcTypeOK, RcConfig, NatDisable, WithoutNat
    <2>2. NatsFit'
      BY <2>1, WithinShrinks, Capacities DEF RcFits, NatsFit
    <2> QED BY <2>1, <2>2, FitsSame DEF RcFits
  <1> QED BY <1>1, <1>2

\* Whether two private endpoints clash does not depend on which is first.
LEMMA ClashSymmetric ==
  ASSUME NEW f, NEW g PROVE PrivateClash(f, g) = PrivateClash(g, f)
  <1>1. f.priv \cap g.priv = g.priv \cap f.priv
    OBVIOUS
  <1> QED BY <1>1 DEF PrivateClash

\* `vr port-forward add` and `vr port-forward delete`.
LEMMA ForwardFits ==
  ASSUME RcInv, RcFits, (\E r \in rc.ifs : ForwardAdd(r)) \/ ForwardDelete PROVE RcFits'
  <1>1. ASSUME NEW r \in rc.ifs, ForwardAdd(r) PROVE RcFits'
    <2>1. PICK id \in RuleId, f \in Forward :
            CanForwardAdd(rc, r, id, f) /\ rc' = WithForward(rc, r, id, f)
      BY <1>1 DEF ForwardAdd
    <2> DEFINE new == [vr |-> r.vr, rif |-> r.id, id |-> id, map |-> f, pub |-> r.addr]
    <2>2. /\ rc'.ifs = rc.ifs /\ rc'.routes = rc.routes /\ rc'.nats = rc.nats
          /\ rc'.policies = rc.policies /\ rc'.rules = rc.rules
          /\ rc'.pfs = rc.pfs \union {new}
      BY <2>1 DEF RcInv, RcTypeOK, RcConfig, WithForward
    <2>3. new.vr = r.vr /\ new.rif = r.id /\ new.id = id /\ new.map = f
      OBVIOUS
    <2> HIDE DEF new
    <2>4. Within(rc'.pfs, MaxForwards)
      <3>1. MaxForwards \in Nat /\ Within(rc.pfs, MaxForwards) /\ Cardinality(rc.pfs) < MaxForwards
        BY <2>1, Capacities DEF RcFits, ForwardsFit, CanForwardAdd
      <3>2. Within(rc.pfs \union {new}, MaxForwards)
        BY ONLY <3>1, WithinGrows
      <3> QED BY <2>2, <3>2
    <2>5. r.id = new.rif /\ r.kind # "link"
      BY <2>1, <2>3 DEF CanForwardAdd
    <2>6. \A x \in rc.pfs : x.vr = new.vr =>
            x.id # new.id /\ ~ PrivateClash(x.map, new.map) /\ ~ PrivateClash(new.map, x.map)
      BY <2>1, <2>3, ClashSymmetric DEF CanForwardAdd
    <2>7. ForwardsFit'
      BY <2>2, <2>4, <2>5, <2>6 DEF RcFits, ForwardsFit
    <2> QED BY <2>2, <2>7, FitsSame DEF RcFits
  <1>2. CASE ForwardDelete
    <2>1. PICK x \in rc.pfs : rc' = WithoutForward(rc, x)
      BY <1>2 DEF ForwardDelete
    <2>2. /\ rc'.ifs = rc.ifs /\ rc'.routes = rc.routes /\ rc'.nats = rc.nats
          /\ rc'.policies = rc.policies /\ rc'.rules = rc.rules
          /\ rc'.pfs = rc.pfs \ {x}
      BY <2>1 DEF RcInv, RcTypeOK, RcConfig, WithoutForward
    <2>3. ForwardsFit'
      <3>1. Within(rc'.pfs, MaxForwards)
        BY <2>2, WithinShrinks, Capacities DEF RcFits, ForwardsFit
      <3> QED BY <2>2, <3>1 DEF RcFits, ForwardsFit
    <2> QED BY <2>2, <2>3, FitsSame DEF RcFits
  <1> QED BY <1>1, <1>2

\* `vr egress|ingress policy set` and `... policy delete`.
LEMMA PolicyFits ==
  ASSUME RcInv, RcFits, NEW r \in rc.ifs, NEW dir \in Filters,
         PolicySet(dir, r) \/ PolicyDelete(dir, r)
  PROVE  RcFits'
  <1>1. CASE PolicySet(dir, r)
    <2>1. PICK allow \in BOOLEAN :
            CanPolicySet(rc, dir, r) /\ rc' = WithPolicy(rc, dir, r, allow)
      BY <1>1 DEF PolicySet
    <2> DEFINE new == [dir |-> dir, vr |-> r.vr, rif |-> r.id, allow |-> allow]
               old == PolicyOf(rc, dir, r)
    <2>2. /\ rc'.ifs = rc.ifs /\ rc'.routes = rc.routes /\ rc'.nats = rc.nats
          /\ rc'.pfs = rc.pfs /\ rc'.rules = rc.rules
          /\ rc'.policies = (rc.policies \ old) \union {new}
      BY <2>1 DEF RcInv, RcTypeOK, RcConfig, WithPolicy
    <2>3. new.dir = dir /\ new.vr = r.vr /\ new.rif = r.id
      OBVIOUS
    <2> HIDE DEF new
    <2>4. \A p \in rc.policies : p.dir = dir /\ p.rif = r.id => p \in old
      BY DEF PolicyOf, RcInv, NoDanglingReference
    <2>5. \A p \in old : p.dir = dir
      BY DEF PolicyOf
    <2>6. ASSUME NEW d \in Filters PROVE Within(Of(rc'.policies, d), MaxPolicies)
      <3>0. MaxPolicies \in Nat /\ Within(Of(rc.policies, d), MaxPolicies)
        BY Capacities DEF RcFits, FiltersFit
      <3>1. CASE d # dir
        <4>1. Of(rc'.policies, d) = Of(rc.policies, d)
          BY <2>2, <2>3, <2>5, <3>1 DEF Of
        <4> QED BY <3>0, <4>1
      <3>2. CASE d = dir /\ old = {}
        <4>1. Of(rc'.policies, d) = Of(rc.policies, d) \union {new}
          BY <2>2, <2>3, <3>2 DEF Of
        <4>2. Cardinality(Of(rc.policies, d)) < MaxPolicies
          BY <2>1, <3>2 DEF CanPolicySet, Of
        <4>3. Within(Of(rc.policies, d) \union {new}, MaxPolicies)
          BY ONLY <3>0, <4>2, WithinGrows
        <4> QED BY <4>1, <4>3
      <3>3. CASE d = dir /\ old # {}
        <4>1. PICK o \in old : TRUE
          BY <3>3
        <4>2. \A p \in old : p = o
          BY <4>1 DEF PolicyOf, RcFits, FiltersFit
        <4>3. o \in Of(rc.policies, d) /\ old = {o}
          BY <3>3, <4>1, <4>2 DEF Of, PolicyOf
        <4>4. Of(rc'.policies, d) = (Of(rc.policies, d) \ {o}) \union {new}
          BY <2>2, <2>3, <3>3, <4>3 DEF Of
        <4>5. Within((Of(rc.policies, d) \ {o}) \union {new}, MaxPolicies)
          BY ONLY <3>0, <4>3, WithinSwapped
        <4> QED BY <4>4, <4>5
      <3> QED BY <3>1, <3>2, <3>3
    <2>7. r.id = new.rif /\ Filterable(new.dir, r.kind)
      BY <2>1, <2>3 DEF CanPolicySet, CanFilter, Filterable
    <2>8. FiltersFit'
      <3>1. \A p \in rc'.policies : \E q \in rc'.ifs : q.id = p.rif /\ Filterable(p.dir, q.kind)
        BY <2>2, <2>7 DEF RcFits, FiltersFit
      <3>2. \A p, q \in rc'.policies : p.dir = q.dir /\ p.rif = q.rif => p = q
        BY <2>2, <2>3, <2>4 DEF RcFits, FiltersFit
      <3> QED BY <2>2, <2>6, <3>1, <3>2 DEF RcFits, FiltersFit
    <2> QED BY <2>2, <2>8, FitsSame DEF RcFits
  <1>2. CASE PolicyDelete(dir, r)
    <2>1. /\ rc'.ifs = rc.ifs /\ rc'.routes = rc.routes /\ rc'.nats = rc.nats
          /\ rc'.pfs = rc.pfs /\ rc'.rules = rc.rules
          /\ rc'.policies = rc.policies \ PolicyOf(rc, dir, r)
      BY <1>2 DEF RcInv, RcTypeOK, RcConfig, PolicyDelete, WithoutPolicy
    <2>2. ASSUME NEW d \in Filters PROVE Within(Of(rc'.policies, d), MaxPolicies)
      <3>1. Of(rc'.policies, d) \subseteq Of(rc.policies, d)
        BY <2>1 DEF Of
      <3>2. MaxPolicies \in Nat /\ Within(Of(rc.policies, d), MaxPolicies)
        BY Capacities DEF RcFits, FiltersFit
      <3> QED BY ONLY <3>1, <3>2, WithinShrinks
    <2>3. FiltersFit'
      BY <2>1, <2>2 DEF RcFits, FiltersFit
    <2> QED BY <2>1, <2>3, FitsSame DEF RcFits
  <1> QED BY <1>1, <1>2

\* `vr egress|ingress rule add` and `... rule delete`.
LEMMA RuleFits ==
  ASSUME RcInv, RcFits,
         (\E r \in rc.ifs, dir \in Filters : RuleAdd(dir, r)) \/ RuleDelete
  PROVE  RcFits'
  <1>1. ASSUME NEW r \in rc.ifs, NEW dir \in Filters, RuleAdd(dir, r) PROVE RcFits'
    <2>1. PICK id \in RuleId : CanRuleAdd(rc, dir, r, id) /\ rc' = WithRule(rc, dir, r, id)
      BY <1>1 DEF RuleAdd
    <2> DEFINE new == [dir |-> dir, vr |-> r.vr, rif |-> r.id, id |-> id]
    <2>2. /\ rc'.ifs = rc.ifs /\ rc'.routes = rc.routes /\ rc'.nats = rc.nats
          /\ rc'.pfs = rc.pfs /\ rc'.policies = rc.policies
          /\ rc'.rules = rc.rules \union {new}
      BY <2>1 DEF RcInv, RcTypeOK, RcConfig, WithRule
    <2>3. new.dir = dir
      OBVIOUS
    <2> HIDE DEF new
    <2>4. ASSUME NEW d \in Filters PROVE Within(Of(rc'.rules, d), MaxRules)
      <3>0. MaxRules \in Nat /\ Within(Of(rc.rules, d), MaxRules)
        BY Capacities DEF RcFits, FiltersFit
      <3>1. CASE d # dir
        <4>1. Of(rc'.rules, d) = Of(rc.rules, d)
          BY <2>2, <2>3, <3>1 DEF Of
        <4> QED BY <3>0, <4>1
      <3>2. CASE d = dir
        <4>1. Of(rc'.rules, d) = Of(rc.rules, d) \union {new}
          BY <2>2, <2>3, <3>2 DEF Of
        <4>2. Cardinality(Of(rc.rules, d)) < MaxRules
          BY <2>1, <3>2 DEF CanRuleAdd, Of
        <4>3. Within(Of(rc.rules, d) \union {new}, MaxRules)
          BY ONLY <3>0, <4>2, WithinGrows
        <4> QED BY <4>1, <4>3
      <3> QED BY <3>1, <3>2
    <2>5. FiltersFit'
      BY <2>2, <2>4 DEF RcFits, FiltersFit
    <2> QED BY <2>2, <2>5, FitsSame DEF RcFits
  <1>2. CASE RuleDelete
    <2>1. PICK x \in rc.rules : rc' = WithoutRule(rc, x)
      BY <1>2 DEF RuleDelete
    <2>2. /\ rc'.ifs = rc.ifs /\ rc'.routes = rc.routes /\ rc'.nats = rc.nats
          /\ rc'.pfs = rc.pfs /\ rc'.policies = rc.policies
          /\ rc'.rules = rc.rules \ {x}
      BY <2>1 DEF RcInv, RcTypeOK, RcConfig, WithoutRule
    <2>3. ASSUME NEW d \in Filters PROVE Within(Of(rc'.rules, d), MaxRules)
      <3>1. Of(rc'.rules, d) \subseteq Of(rc.rules, d)
        BY <2>2 DEF Of
      <3>2. MaxRules \in Nat /\ Within(Of(rc.rules, d), MaxRules)
        BY Capacities DEF RcFits, FiltersFit
      <3> QED BY ONLY <3>1, <3>2, WithinShrinks
    <2>4. FiltersFit'
      BY <2>2, <2>3 DEF RcFits, FiltersFit
    <2> QED BY <2>2, <2>4, FitsSame DEF RcFits
  <1> QED BY <1>1, <1>2

\* Every command keeps the configuration fitting.
LEMMA RcFitsNext == RcInv /\ RcFits /\ [RcNext]_rc => RcFits'
  <1> SUFFICES ASSUME RcInv, RcFits, [RcNext]_rc PROVE RcFits'
    OBVIOUS
  <1>1. ASSUME NEW vr \in Vr, Create(vr) \/ Delete(vr) PROVE RcFits'
    <2>1. /\ rc'.ifs = rc.ifs /\ rc'.routes = rc.routes /\ rc'.nats = rc.nats
          /\ rc'.pfs = rc.pfs /\ rc'.policies = rc.policies /\ rc'.rules = rc.rules
      BY <1>1 DEF RcInv, RcTypeOK, RcConfig, Create, WithVr, Delete, WithoutVr
    <2> QED BY <2>1, FitsSame DEF RcFits
  <1>2. ASSUME NEW l \in Link, LinkCreate(l) \/ LinkDelete(l) PROVE RcFits'
    <2>1. /\ rc'.ifs = rc.ifs /\ rc'.routes = rc.routes /\ rc'.nats = rc.nats
          /\ rc'.pfs = rc.pfs /\ rc'.policies = rc.policies /\ rc'.rules = rc.rules
      BY <1>2 DEF RcInv, RcTypeOK, RcConfig, LinkCreate, WithLink, LinkDelete, WithoutLink
    <2> QED BY <2>1, FitsSame DEF RcFits
  <1>3. CASE \E vr \in Vr, name \in Name :
               AttachSwitch(vr, name) \/ AttachPort(vr, name) \/ AttachLink(vr, name)
    <2>1. PICK vr \in Vr, name \in Name, kind \in Kind, at \in Switch \union Vf \union Link :
            Attach(vr, name, kind, at)
      BY <1>3 DEF AttachSwitch, AttachPort, AttachLink, Kind
    <2> QED BY <2>1, AttachFits
  <1>4. ASSUME NEW r \in rc.ifs,
               \/ Detach(r) \/ IpAdd(r) \/ IpDel(r) \/ MacSet(r)
               \/ RouteAdd(r) \/ NatEnable(r) \/ ForwardAdd(r)
        PROVE  RcFits'
    BY <1>4, DetachFits, InterfaceFits, RouteFits, NatFits, ForwardFits
  <1>5. ASSUME NEW r \in rc.ifs, NEW dir \in Filters,
               PolicySet(dir, r) \/ PolicyDelete(dir, r) \/ RuleAdd(dir, r)
        PROVE  RcFits'
    BY <1>5, PolicyFits, RuleFits
  <1>6. CASE RuleDelete \/ RouteDel \/ ForwardDelete \/ \E vr \in Vr : NatDisable(vr)
    BY <1>6, RuleFits, RouteFits, ForwardFits, NatFits
  <1>7. CASE UNCHANGED rc
    BY <1>7, FitsSame DEF RcFits
  <1> QED BY <1>1, <1>2, <1>3, <1>4, <1>5, <1>6, <1>7 DEF RcNext

\* Names, attachments, subnets, gateways, rule ids and capacities: what a
\* command asked when it was accepted holds of every committed configuration.
THEOREM EntriesFit == RcSpec => []RcFits
  BY FitsInit, RcInvariant, RcFitsNext, PTL DEF RcSpec

-----------------------------------------------------------------------------
(***************************************************************************)
(* Restart.  A load goes through candidates that have the saved VRs and    *)
(* links and a part of the saved entries; the line of the next entry leads *)
(* to the candidate with that entry, or is refused if the configuration    *)
(* has one of the three shapes.                                            *)
(***************************************************************************)

\* A loop whose n-th line leads from the n-th set to the next ends in the last.
LEMMA ReplayFollows ==
  ASSUME NEW kind, NEW L \in Nat, NEW q, Len(q) = L, NEW c, NEW J, c \in J[0],
         \A n \in 1..L : \A y \in J[n-1] : Replay(kind, y, q[n]) \in J[n]
  PROVE  ReplayAll(kind, q, c) \in J[L]
<1> DEFINE R(m, x) == [n \in 0..m |-> IF n = 0 THEN c ELSE Replay(kind, x[n-1], q[n])]
           load == CHOOSE x : x = R(L, x)
           T == {m \in Nat : \E x : x = R(m, x)}
<1>1. 0 \in T
  <2>1. [n \in 0..0 |-> c] = R(0, [n \in 0..0 |-> c])
    OBVIOUS
  <2> QED BY <2>1
<1>2. ASSUME NEW m \in Nat, m \in T PROVE m + 1 \in T
  <2>1. PICK x : x = R(m, x)
    BY <1>2
  <2> DEFINE y == [n \in 0..(m+1) |-> IF n = m + 1 THEN Replay(kind, x[m], q[m+1]) ELSE x[n]]
  <2>2. ASSUME NEW n \in 0..(m+1)
        PROVE  y[n] = IF n = 0 THEN c ELSE Replay(kind, y[n-1], q[n])
    <3>1. CASE n = m + 1
      <4>1. n - 1 = m /\ m \in 0..(m+1) /\ m # m + 1 /\ n # 0
        BY <3>1
      <4>2. y[m] = x[m]
        BY <4>1
      <4> QED BY <3>1, <4>1, <4>2
    <3>2. CASE n # m + 1
      <4>1. n \in 0..m /\ (n # 0 => n - 1 \in 0..(m+1) /\ n - 1 # m + 1)
        BY <3>2
      <4>2. x[n] = IF n = 0 THEN c ELSE Replay(kind, x[n-1], q[n])
        BY <2>1, <4>1
      <4>3. n # 0 => y[n-1] = x[n-1]
        BY <4>1
      <4>4. y[n] = x[n]
        BY <3>2
      <4> QED BY <4>2, <4>3, <4>4
    <3> QED BY <3>1, <3>2
  <2>3. y = R(m + 1, y)
    BY <2>2
  <2> HIDE DEF y, R
  <2> QED BY <2>3
<1>3. Nat \subseteq T
  <2> HIDE DEF T
  <2> QED BY <1>1, <1>2, NatSetInduction
<1>4. load = R(L, load)
  <2>1. \E x : x = R(L, x)
    BY <1>3
  <2> HIDE DEF R
  <2> QED BY <2>1
<1>5. ReplayAll(kind, q, c) = load[L]
  BY DEF ReplayAll
<1> HIDE DEF load
<1> DEFINE U == {n \in Nat : n <= L => load[n] \in J[n]}
<1>6. 0 \in U
  BY <1>4
<1>7. ASSUME NEW n \in Nat, n \in U PROVE n + 1 \in U
  <2>1. SUFFICES ASSUME n + 1 <= L PROVE load[n+1] \in J[n+1]
    OBVIOUS
  <2>2. n + 1 \in 1..L /\ n + 1 \in 0..L /\ (n + 1) - 1 = n /\ n + 1 # 0 /\ load[n] \in J[n]
    BY <1>7, <2>1
  <2>3. load[n+1] = Replay(kind, load[n], q[n+1])
    BY <1>4, <2>2
  <2> QED BY <2>2, <2>3
<1>8. Nat \subseteq U
  <2> HIDE DEF U
  <2> QED BY <1>6, <1>7, NatSetInduction
<1> QED BY <1>5, <1>8

\* A sequence that lists a set, each element once.
Lists(q, S) ==
  /\ Cardinality(S) \in Nat /\ q \in [1..Cardinality(S) -> S]
  /\ \A i, j \in 1..Cardinality(S) : q[i] = q[j] => i = j
  /\ \A x \in S : \E i \in 1..Cardinality(S) : q[i] = x

LEMMA SetListed ==
  ASSUME NEW S, IsFiniteSet(S) PROVE Lists(SetToSeq(S), S)
  BY Enumerates DEF Lists

\* A loop over a set, told by what is loaded.
LEMMA ReplayGrows ==
  ASSUME NEW kind, NEW S, NEW q, Lists(q, S), NEW c, NEW K, c \in K[{}],
         \A X \in SUBSET S : \A k \in S \ X, y \in K[X] : Replay(kind, y, k) \in K[X \union {k}]
  PROVE  ReplayAll(kind, q, c) \in K[S]
<1> DEFINE L == Cardinality(S)
           Done(n) == {q[i] : i \in 1..n}
           J == [n \in 0..L |-> K[Done(n)]]
<1>1. L \in Nat /\ q \in [1..L -> S] /\ \A i, j \in 1..L : q[i] = q[j] => i = j
  BY DEF Lists
<1>2. \A x \in S : \E i \in 1..L : q[i] = x
  BY DEF Lists
<1> HIDE DEF L
<1>3. Len(q) = L
  BY <1>1
<1>4. Done(0) = {} /\ Done(L) = S
  BY <1>1, <1>2
<1>5. ASSUME NEW n \in 1..L
      PROVE  Done(n - 1) \in SUBSET S /\ q[n] \in S \ Done(n - 1) /\ Done(n) = Done(n - 1) \union {q[n]}
  <2>1. \A i \in 1..(n - 1) : i \in 1..L /\ i # n
    BY <1>1
  <2>2. \A i \in 1..n : i = n \/ i \in 1..(n - 1)
    OBVIOUS
  <2>3. \A i \in 1..(n - 1) : i \in 1..n
    OBVIOUS
  <2> QED BY <1>1, <2>1, <2>2, <2>3
<1> HIDE DEF Done
<1>6. 0 \in 0..L /\ L \in 0..L
  BY <1>1
<1>7. c \in J[0]
  BY <1>4, <1>6
<1>8. ASSUME NEW n \in 1..L, NEW y \in J[n-1] PROVE Replay(kind, y, q[n]) \in J[n]
  <2>1. n - 1 \in 0..L /\ n \in 0..L
    BY <1>1
  <2>2. J[n-1] = K[Done(n - 1)] /\ J[n] = K[Done(n)]
    BY ONLY <2>1
  <2> HIDE DEF J
  <2>3. y \in K[Done(n - 1)]
    BY <1>8, <2>2, Zenon
  <2>4. Replay(kind, y, q[n]) \in K[Done(n - 1) \union {q[n]}]
    BY <1>5, <2>3
  <2> QED BY <1>5, <2>2, <2>4, Zenon
<1>9. J[L] = K[S]
  BY <1>4, <1>6
<1> HIDE DEF J
<1>10. ReplayAll(kind, q, c) \in J[L]
  BY ONLY <1>1, <1>3, <1>7, <1>8, ReplayFollows
<1> QED BY <1>9, <1>10

\* The interfaces can be listed in the order of their ids, and are.
LEMMA InterfacesListed ==
  ASSUME RcInv, IsFiniteSet(rc.ifs) PROVE Lists(Interfaces(rc), rc.ifs)
<1> DEFINE Sorted(q, n) == \A i, j \in 1..n : i < j => q[i].id < q[j].id
           Sortable(S, n) == \E q \in [1..n -> S] : Sorted(q, n)
           T == {n \in Nat : \A S \in SUBSET rc.ifs : Cardinality(S) = n => Sortable(S, n)}
           L == Cardinality(rc.ifs)
<1>1. /\ \A r \in rc.ifs : r.id \in Nat /\ r.id \in 0..MaxId
      /\ \A r, s \in rc.ifs : r.id = s.id => r = s
      /\ MaxId \in Nat
  BY RcAssumption DEF RcInv, RcTypeOK, RcConfig, RcInterface, NoDanglingReference
<1>2. \A S \in SUBSET rc.ifs : IsFiniteSet(S)
  BY FS_Subset
<1>3. 0 \in T
  <2>1. SUFFICES ASSUME NEW S \in SUBSET rc.ifs, Cardinality(S) = 0 PROVE Sortable(S, 0)
    OBVIOUS
  <2>2. [i \in 1..0 |-> i] \in [1..0 -> S] /\ Sorted([i \in 1..0 |-> i], 0)
    OBVIOUS
  <2> QED BY <2>2
<1>4. ASSUME NEW n \in Nat, n \in T PROVE n + 1 \in T
  <2>1. SUFFICES ASSUME NEW S \in SUBSET rc.ifs, Cardinality(S) = n + 1 PROVE Sortable(S, n + 1)
    OBVIOUS
  <2>2. S # {}
    <3>1. Cardinality({}) = 0
      BY FS_EmptySet
    <3>2. Cardinality(S) # 0
      BY <2>1
    <3> QED BY ONLY <3>1, <3>2
  <2> DEFINE ids == {r.id : r \in S}
  <2>3. ids \subseteq 0..MaxId /\ ids # {}
    BY <1>1, <2>2
  <2>4. PICK x \in ids : \A y \in ids : y <= x
    <3> HIDE DEF ids
    <3> QED BY <1>1, <2>3, NatGreatest
  <2>5. PICK r \in S : r.id = x
    OBVIOUS
  <2>6. \A s \in S \ {r} : s.id < r.id
    <3> SUFFICES ASSUME NEW s \in S \ {r} PROVE s.id < r.id
      OBVIOUS
    <3>1. s.id \in ids /\ s \in rc.ifs /\ r \in rc.ifs /\ s # r
      OBVIOUS
    <3>2. s.id <= r.id
      BY <2>4, <2>5, <3>1
    <3>3. s.id \in Nat /\ r.id \in Nat /\ s.id # r.id
      BY <1>1, <3>1
    <3> QED BY <3>2, <3>3
  <2>7. Cardinality(S \ {r}) = n
    <3>1. IsFiniteSet(S)
      BY <1>2
    <3>2. Cardinality(S \ {r}) = Cardinality(S) - 1
      BY ONLY <3>1, FS_RemoveElement
    <3> QED BY ONLY <2>1, <3>2
  <2>8. Sortable(S \ {r}, n)
    BY <1>4, <2>7
  <2>9. PICK q \in [1..n -> S \ {r}] : Sorted(q, n)
    BY <2>8
  <2> DEFINE p == [i \in 1..(n+1) |-> IF i = n + 1 THEN r ELSE q[i]]
  <2>10. \A i \in 1..(n+1) : i # n + 1 => i \in 1..n /\ q[i] \in S \ {r}
    OBVIOUS
  <2>11. p \in [1..(n+1) -> S]
    BY <2>10
  <2>12. Sorted(p, n + 1)
    <3> SUFFICES ASSUME NEW i \in 1..(n+1), NEW j \in 1..(n+1), i < j PROVE p[i].id < p[j].id
      OBVIOUS
    <3>1. i # n + 1 /\ p[i] = q[i]
      OBVIOUS
    <3>2. CASE j = n + 1
      BY <2>6, <2>10, <3>1, <3>2
    <3>3. CASE j # n + 1
      BY <2>9, <2>10, <3>1, <3>3
    <3> QED BY <3>2, <3>3
  <2> HIDE DEF p
  <2> QED BY <2>11, <2>12
<1>5. Nat \subseteq T
  <2> HIDE DEF T
  <2> QED BY <1>3, <1>4, NatSetInduction
<1>6. L \in Nat
  BY FS_CardinalityType
<1>7. Sortable(rc.ifs, L)
  BY <1>5, <1>6
<1> DEFINE q == Interfaces(rc)
<1>8. q \in [1..L -> rc.ifs] /\ Sorted(q, L)
  BY <1>7 DEF Interfaces
<1> HIDE DEF q, L
<1>9. ASSUME NEW i \in 1..L, NEW j \in 1..L, q[i] = q[j] PROVE i = j
  <2>1. q[i] \in rc.ifs /\ q[j] \in rc.ifs
    BY <1>8
  <2>2. q[i].id \in Nat /\ ~ (q[i].id < q[j].id) /\ ~ (q[j].id < q[i].id)
    BY <1>1, <1>9, <2>1
  <2>3. i \in Nat /\ j \in Nat /\ ~ (i < j) /\ ~ (j < i)
    BY <1>6, <1>8, <2>2
  <2> QED BY <2>3
<1> USE DEF L
<1>10. \A x \in rc.ifs : \E i \in 1..L : q[i] = x
  BY <1>8, <1>9, InjectionOnto
<1> QED BY <1>6, <1>8, <1>9, <1>10 DEF Lists, q

\* What holds of every committed configuration.
RcHolds == RcInv /\ RcKept /\ RcFits

\* A configuration with the saved VRs and links.
Candidate(n, I, R, N, F, P, X) ==
  [vrs |-> rc.vrs, links |-> rc.links, next |-> n, ifs |-> I, routes |-> R, nats |-> N,
   pfs |-> F, policies |-> P, rules |-> X]

\* None of the three shapes that are refused.
Clean == MacsUnique /\ ForwardsOnUplink /\ IngressAddressed

\* Where a load stands: at a candidate, or refused.
Loaded(c) == {c} \union (IF Clean THEN {} ELSE {Rejected})

LEMMA CandidateFields ==
  ASSUME NEW n, NEW I, NEW R, NEW N, NEW F, NEW P, NEW X
  PROVE  LET c == Candidate(n, I, R, N, F, P, X)
         IN /\ c.vrs = rc.vrs /\ c.links = rc.links /\ c.next = n /\ c.ifs = I /\ c.routes = R
            /\ c.nats = N /\ c.pfs = F /\ c.policies = P /\ c.rules = X
  BY DEF Candidate

\* A candidate is a configuration, and so no refusal.
LEMMA CandidateStands ==
  ASSUME RcInv, NEW n \in 1..(MaxId + 1), NEW I \in SUBSET RcInterface,
         NEW R \in SUBSET rc.routes, NEW N \in SUBSET rc.nats, NEW F \in SUBSET rc.pfs,
         NEW P \in SUBSET rc.policies, NEW X \in SUBSET rc.rules
  PROVE  Candidate(n, I, R, N, F, P, X) # Rejected
  <1>1. Candidate(n, I, R, N, F, P, X) \in RcConfig
    BY DEF Candidate, RcInv, RcTypeOK, RcConfig
  <1> QED BY <1>1, ReloadAssumption

\* The name in a line means the interface that the entry refers to.
LEMMA NamedFound ==
  ASSUME RcInv, NEW c, c.ifs = rc.ifs,
         NEW x \in rc.routes \union rc.nats \union rc.pfs \union rc.policies \union rc.rules
  PROVE  Named(c, x) \in rc.ifs /\ Named(c, x).id = x.rif /\ Named(c, x).vr = x.vr
  <1>1. PICK r \in rc.ifs : r.id = x.rif /\ r.vr = x.vr
    BY DEF RcInv, NoDanglingReference
  <1>2. \A s \in rc.ifs : s.id = r.id => s = r
    BY DEF RcInv, NoDanglingReference
  <1> QED BY <1>1, <1>2 DEF Named

\* The route lines: the gateway is on-link, and the other end of a link.
LEMMA RouteLoads ==
  ASSUME RcHolds, NEW n \in 1..(MaxId + 1), NEW X \in SUBSET rc.routes, NEW k \in rc.routes \ X,
         NEW y \in Loaded(Candidate(n, rc.ifs, X, {}, {}, {}, {}))
  PROVE  Replay("route", y, k) \in Loaded(Candidate(n, rc.ifs, X \union {k}, {}, {}, {}, {}))
<1> DEFINE E == {}
           c == Candidate(n, rc.ifs, X, E, E, E, E)
           r == Named(c, k)
<1>1. c.ifs = rc.ifs /\ c.routes = X
  BY CandidateFields
<1>2. r \in rc.ifs /\ r.id = k.rif /\ r.vr = k.vr
  BY <1>1, NamedFound DEF RcHolds
<1>3. k \in RcRoute /\ rc.ifs \in SUBSET RcInterface
  BY DEF RcHolds, RcInv, RcTypeOK, RcConfig
<1>4. c # Rejected
  BY <1>3, CandidateStands DEF RcHolds
<1>5. WithRoute(c, r, k.dest, k.gw) = Candidate(n, rc.ifs, X \union {k}, {}, {}, {}, {})
  <2>1. [vr |-> r.vr, rif |-> r.id, dest |-> k.dest, gw |-> k.gw] = k
    BY <1>2, <1>3 DEF RcRoute
  <2> HIDE DEF r
  <2>2. WithRoute(c, r, k.dest, k.gw) = [c EXCEPT !.routes = X \union {k}]
    BY <1>1, <2>1 DEF WithRoute
  <2> DEFINE Z == X \union {k}
  <2>3. [c EXCEPT !.routes = Z] = Candidate(n, rc.ifs, Z, E, E, E, E)
    <3> HIDE DEF E, Z
    <3> QED BY ONLY SMTT(30) DEF c, Candidate
  <2> QED BY <2>2, <2>3
<1> HIDE DEF c, r
<1>6. CanRouteAdd(c, r, k.dest, k.gw)
  <2>1. Gateway(k, r)
    <3>1. PICK q \in rc.ifs : q.id = k.rif /\ Gateway(k, q)
      BY DEF RcHolds, RcFits, RoutesFit
    <3>2. q = r
      BY <1>2, <3>1 DEF RcHolds, RcInv, NoDanglingReference
    <3> QED BY <3>1, <3>2
  <2>2. r.kind = "link" => \E p \in Peers(c, r) : p.addr = k.gw
    BY <1>1, <1>2 DEF RcHolds, RcKept, LinkEnds, Peers
  <2>3. Cardinality(X) < MaxRoutes
    <3>1. MaxRoutes \in Nat /\ Within(rc.routes, MaxRoutes)
      BY Capacities DEF RcHolds, RcFits, RoutesFit
    <3> QED BY <3>1, WithinRoom
  <2>4. \A x \in X : ~ (x.vr = r.vr /\ x.dest = k.dest)
    BY <1>2 DEF RcHolds, RcFits, RoutesFit
  <2> QED BY <1>1, <2>1, <2>2, <2>3, <2>4 DEF CanRouteAdd, Gateway
<1>7. Replay("route", y, k) = ReplayRoute(y, k)
  BY DEF Replay
<1>8. y \in Loaded(c)
  BY DEF c
<1>9. CASE y = c
  BY <1>4, <1>5, <1>6, <1>7, <1>9 DEF ReplayRoute, Checked, Loaded, r
<1>10. CASE y # c
  BY <1>4, <1>7, <1>8, <1>10 DEF ReplayRoute, Loaded
<1> QED BY <1>9, <1>10

\* The NAT lines: the interface owns the default route.
LEMMA NatLoads ==
  ASSUME RcHolds, NEW n \in 1..(MaxId + 1), NEW X \in SUBSET rc.nats, NEW k \in rc.nats \ X,
         NEW y \in Loaded(Candidate(n, rc.ifs, rc.routes, X, {}, {}, {}))
  PROVE  Replay("nat", y, k) \in Loaded(Candidate(n, rc.ifs, rc.routes, X \union {k}, {}, {}, {}))
<1> DEFINE E == {}
           c == Candidate(n, rc.ifs, rc.routes, X, E, E, E)
           r == Named(c, k)
<1>1. c.ifs = rc.ifs /\ c.routes = rc.routes /\ c.nats = X /\ c.policies = {}
  BY CandidateFields
<1>2. r \in rc.ifs /\ r.id = k.rif /\ r.vr = k.vr
  BY <1>1, NamedFound DEF RcHolds
<1>3. k \in RcNat /\ rc.ifs \in SUBSET RcInterface
  BY DEF RcHolds, RcInv, RcTypeOK, RcConfig
<1>4. c # Rejected
  BY <1>3, CandidateStands DEF RcHolds
<1>5. WithNat(c, r, k.pub) = Candidate(n, rc.ifs, rc.routes, X \union {k}, {}, {}, {})
  <2>1. [vr |-> r.vr, rif |-> r.id, pub |-> k.pub] = k
    BY <1>2, <1>3 DEF RcNat
  <2> HIDE DEF r
  <2>2. WithNat(c, r, k.pub) = [c EXCEPT !.nats = X \union {k}]
    BY <1>1, <2>1 DEF WithNat
  <2> DEFINE Z == X \union {k}
  <2>3. [c EXCEPT !.nats = Z] = Candidate(n, rc.ifs, rc.routes, Z, E, E, E)
    <3> HIDE DEF E, Z
    <3> QED BY ONLY SMTT(30) DEF c, Candidate
  <2> QED BY <2>2, <2>3
<1> HIDE DEF c, r
<1>6. CanNatEnable(c, r, k.pub)
  <2>1. NatOf(c, r.vr) = {}
    BY <1>1, <1>2 DEF RcHolds, RcKept, NatOwnsUplink, NatOf
  <2>2. /\ r.kind # "link" /\ r.addr # NoAddr /\ k.pub \in {NoAddr, r.addr}
        /\ \E x \in rc.routes : x.vr = r.vr /\ x.rif = r.id /\ x.dest = Default
    <3>1. PICK q \in rc.ifs :
            /\ q.id = k.rif /\ q.kind # "link" /\ q.addr # NoAddr
            /\ k.pub \in {NoAddr, q.addr}
            /\ \E x \in rc.routes : x.vr = k.vr /\ x.rif = k.rif /\ x.dest = Default
      BY DEF RcHolds, RcKept, NatOwnsUplink
    <3>2. q = r
      BY <1>2, <3>1 DEF RcHolds, RcInv, NoDanglingReference
    <3> QED BY <1>2, <3>1, <3>2
  <2>3. Cardinality(X) < MaxVrs
    <3>1. MaxVrs \in Nat /\ Within(rc.nats, MaxVrs)
      BY Capacities DEF RcHolds, RcFits, NatsFit
    <3> QED BY <3>1, WithinRoom
  <2> QED BY <1>1, <2>1, <2>2, <2>3 DEF CanNatEnable, FilterUses
<1>7. Replay("nat", y, k) = ReplayNat(y, k)
  BY DEF Replay
<1>8. y \in Loaded(c)
  BY DEF c
<1>9. CASE y = c
  BY <1>4, <1>5, <1>6, <1>7, <1>9 DEF ReplayNat, Checked, Loaded, r
<1>10. CASE y # c
  BY <1>4, <1>7, <1>8, <1>10 DEF ReplayNat, Loaded
<1> QED BY <1>9, <1>10

\* The port-forward lines: refused only beside a NAT uplink.
LEMMA ForwardLoads ==
  ASSUME RcHolds, NEW n \in 1..(MaxId + 1), NEW X \in SUBSET rc.pfs, NEW k \in rc.pfs \ X,
         NEW y \in Loaded(Candidate(n, rc.ifs, rc.routes, rc.nats, X, {}, {}))
  PROVE  Replay("forward", y, k) \in Loaded(Candidate(n, rc.ifs, rc.routes, rc.nats, X \union {k}, {}, {}))
<1> DEFINE E == {}
           c == Candidate(n, rc.ifs, rc.routes, rc.nats, X, E, E)
           r == Named(c, k)
<1>1. c.ifs = rc.ifs /\ c.nats = rc.nats /\ c.pfs = X /\ c.policies = {}
  BY CandidateFields
<1>2. r \in rc.ifs /\ r.id = k.rif /\ r.vr = k.vr
  BY <1>1, NamedFound DEF RcHolds
<1>3. k \in RcForward /\ rc.ifs \in SUBSET RcInterface
  BY DEF RcHolds, RcInv, RcTypeOK, RcConfig
<1>4. c # Rejected
  BY <1>3, CandidateStands DEF RcHolds
<1>a. \A q \in rc.ifs : q.id = k.rif => q = r
  BY <1>2 DEF RcHolds, RcInv, NoDanglingReference
<1>b. r.addr = k.pub
  BY <1>a DEF RcHolds, RcKept, ForwardsDisjoint
<1>5. WithForward(c, r, k.id, k.map) = Candidate(n, rc.ifs, rc.routes, rc.nats, X \union {k}, {}, {})
  <2>1. [vr |-> r.vr, rif |-> r.id, id |-> k.id, map |-> k.map, pub |-> r.addr] = k
    BY <1>2, <1>3, <1>b DEF RcForward
  <2> HIDE DEF r
  <2>2. WithForward(c, r, k.id, k.map) = [c EXCEPT !.pfs = X \union {k}]
    BY <1>1, <2>1 DEF WithForward
  <2> DEFINE Z == X \union {k}
  <2>3. [c EXCEPT !.pfs = Z] = Candidate(n, rc.ifs, rc.routes, rc.nats, Z, E, E)
    <3> HIDE DEF E, Z
    <3> QED BY ONLY SMTT(30) DEF c, Candidate
  <2> QED BY <2>2, <2>3
<1> HIDE DEF c, r
<1>6. CanForwardAdd(c, r, k.id, k.map) \/ ~ Clean
  <2>1. r.kind # "link" /\ r.addr # NoAddr
    <3>1. k.pub # NoAddr
      BY <1>3, RcAssumption DEF RcForward
    <3> QED BY <1>a, <1>b, <3>1 DEF RcHolds, RcFits, ForwardsFit
  <2>2. ASSUME NEW x \in X, x.vr = r.vr
        PROVE  /\ x.id # k.id
               /\ x.map.proto = k.map.proto /\ x.pub = r.addr => x.map.pub \cap k.map.pub = {}
               /\ ~ PrivateClash(x.map, k.map)
    <3>1. x \in rc.pfs /\ x # k /\ x.vr = k.vr
      BY <1>2, <2>2
    <3>2. x.id # k.id /\ ~ PrivateClash(x.map, k.map)
      BY <3>1 DEF RcHolds, RcFits, ForwardsFit
    <3>3. x.map.proto = k.map.proto /\ x.pub = k.pub => x.map.pub \cap k.map.pub = {}
      BY <3>1 DEF RcHolds, RcKept, ForwardsDisjoint
    <3> QED BY <1>b, <3>2, <3>3
  <2>3. Cardinality(X) < MaxForwards
    <3>1. MaxForwards \in Nat /\ Within(rc.pfs, MaxForwards)
      BY Capacities DEF RcHolds, RcFits, ForwardsFit
    <3> QED BY <3>1, WithinRoom
  <2>4. (\A m \in NatOf(c, r.vr) : m.rif = r.id) \/ ~ Clean
    BY <1>1, <1>2 DEF Clean, ForwardsOnUplink, NatOf
  <2>5. ~ FilterUses(c, "egress", r.id)
    BY <1>1 DEF FilterUses
  <2> QED BY <1>1, <2>1, <2>2, <2>3, <2>4, <2>5 DEF CanForwardAdd
<1>7. Replay("forward", y, k) = ReplayForward(y, k)
  BY DEF Replay
<1>8. y \in Loaded(c)
  BY DEF c
<1>9. CASE y = c
  BY <1>4, <1>5, <1>6, <1>7, <1>9 DEF ReplayForward, Checked, Loaded, r
<1>10. CASE y # c
  BY <1>4, <1>7, <1>8, <1>10 DEF ReplayForward, Loaded
<1> QED BY <1>9, <1>10

\* A filter is still allowed where it is, unless the address is gone.
LEMMA FilterStays ==
  ASSUME RcHolds, NEW p \in rc.policies, NEW r \in rc.ifs, r.id = p.rif
  PROVE  CanFilter(p.dir, r) \/ ~ Clean
  <1>1. p.dir = "egress" \/ p.dir = "ingress"
    BY RcAssumption DEF RcHolds, RcInv, RcTypeOK, RcConfig, RcPolicy
  <1>2. Filterable(p.dir, r.kind)
    BY DEF RcHolds, RcFits, FiltersFit, RcInv, NoDanglingReference
  <1>3. p.dir = "ingress" => r.addr # NoAddr \/ ~ Clean
    BY DEF Clean, IngressAddressed
  <1> QED BY <1>1, <1>2, <1>3 DEF CanFilter, Filterable

\* The policy lines of one filter.
LEMMA PolicyLoads ==
  ASSUME RcHolds, NEW n \in 1..(MaxId + 1), NEW dir \in Filters,
         NEW P \in SUBSET rc.policies, \A p \in P : p.dir # dir, NEW R \in SUBSET rc.rules,
         NEW X \in SUBSET Of(rc.policies, dir), NEW k \in Of(rc.policies, dir) \ X,
         NEW y \in Loaded(Candidate(n, rc.ifs, rc.routes, rc.nats, rc.pfs, P \union X, R))
  PROVE  Replay("policy", y, k)
           \in Loaded(Candidate(n, rc.ifs, rc.routes, rc.nats, rc.pfs, P \union (X \union {k}), R))
<1> DEFINE W == P \union X
           Z == P \union (X \union {k})
           c == Candidate(n, rc.ifs, rc.routes, rc.nats, rc.pfs, W, R)
           r == Named(c, k)
<1>1. c.ifs = rc.ifs /\ c.nats = rc.nats /\ c.pfs = rc.pfs /\ c.policies = P \union X
  BY CandidateFields
<1>0. k \in rc.policies /\ k.dir = dir /\ X \subseteq rc.policies /\ \A p \in X : p.dir = dir
  BY DEF Of
<1>2. r \in rc.ifs /\ r.id = k.rif /\ r.vr = k.vr
  BY <1>0, <1>1, NamedFound DEF RcHolds
<1>3. k \in RcPolicy /\ rc.ifs \in SUBSET RcInterface
  BY <1>0 DEF RcHolds, RcInv, RcTypeOK, RcConfig
<1>4. c # Rejected
  BY <1>0, <1>3, CandidateStands DEF RcHolds
<1>a. PolicyOf(c, dir, r) = {}
  <2>1. ASSUME NEW p \in X, p.rif = r.id PROVE FALSE
    <3>1. p \in rc.policies /\ p.dir = k.dir /\ p.rif = k.rif /\ p # k
      BY <1>0, <1>2, <2>1
    <3> QED BY <1>0, <3>1 DEF RcHolds, RcFits, FiltersFit
  <2> QED BY <1>1, <2>1 DEF PolicyOf
<1>5. WithPolicy(c, dir, r, k.allow)
        = Candidate(n, rc.ifs, rc.routes, rc.nats, rc.pfs, P \union (X \union {k}), R)
  <2>1. [dir |-> dir, vr |-> r.vr, rif |-> r.id, allow |-> k.allow] = k
    BY <1>0, <1>2, <1>3 DEF RcPolicy
  <2>2. (c.policies \ PolicyOf(c, dir, r)) \union {k} = P \union (X \union {k})
    BY <1>1, <1>a
  <2> HIDE DEF r
  <2>3. WithPolicy(c, dir, r, k.allow) = [c EXCEPT !.policies = P \union (X \union {k})]
    BY <2>1, <2>2 DEF WithPolicy
  <2>4. [c EXCEPT !.policies = Z] = Candidate(n, rc.ifs, rc.routes, rc.nats, rc.pfs, Z, R)
    <3> HIDE DEF W, Z
    <3> QED BY ONLY SMTT(30) DEF c, Candidate
  <2> QED BY <2>3, <2>4
<1> HIDE DEF c, r
<1>6. CanPolicySet(c, dir, r) \/ ~ Clean
  <2>1. CanFilter(dir, r) \/ ~ Clean
    BY <1>0, <1>2, FilterStays
  <2>2. dir = "egress" => (\A m \in NatOf(c, r.vr) : m.rif # r.id) /\ ~ Uses(c.pfs, r.id)
    BY <1>0, <1>1, <1>2 DEF RcHolds, RcInv, PublicRifUnfiltered, Uses, NatOf
  <2>3. Cardinality({p \in c.policies : p.dir = dir}) < MaxPolicies
    <3>1. MaxPolicies \in Nat /\ Within(Of(rc.policies, dir), MaxPolicies)
      BY Capacities DEF RcHolds, RcFits, FiltersFit
    <3>2. {p \in c.policies : p.dir = dir} = X
      BY <1>0, <1>1
    <3>3. Cardinality(X) < MaxPolicies
      BY <3>1, WithinRoom
    <3> QED BY <3>2, <3>3
  <2> QED BY <2>1, <2>2, <2>3 DEF CanPolicySet
<1>7. Replay("policy", y, k) = ReplayPolicy(y, k)
  BY DEF Replay
<1>8. y \in Loaded(c)
  BY DEF c
<1>9. CASE y = c
  BY <1>0, <1>4, <1>5, <1>6, <1>7, <1>9 DEF ReplayPolicy, Checked, Loaded, r
<1>10. CASE y # c
  BY <1>4, <1>7, <1>8, <1>10 DEF ReplayPolicy, Loaded
<1> QED BY <1>9, <1>10

\* The rule lines of one filter, when its policies are loaded.
LEMMA RuleLoads ==
  ASSUME RcHolds, NEW n \in 1..(MaxId + 1), NEW dir \in Filters,
         NEW P \in SUBSET rc.policies, Of(rc.policies, dir) \subseteq P,
         NEW R \in SUBSET rc.rules, \A x \in R : x.dir # dir,
         NEW X \in SUBSET Of(rc.rules, dir), NEW k \in Of(rc.rules, dir) \ X,
         NEW y \in Loaded(Candidate(n, rc.ifs, rc.routes, rc.nats, rc.pfs, P, R \union X))
  PROVE  Replay("rule", y, k)
           \in Loaded(Candidate(n, rc.ifs, rc.routes, rc.nats, rc.pfs, P, R \union (X \union {k})))
<1> DEFINE W == R \union X
           Z == R \union (X \union {k})
           c == Candidate(n, rc.ifs, rc.routes, rc.nats, rc.pfs, P, W)
           r == Named(c, k)
<1>1. c.ifs = rc.ifs /\ c.policies = P /\ c.rules = R \union X
  BY CandidateFields
<1>0. k \in rc.rules /\ k.dir = dir /\ X \subseteq rc.rules /\ \A x \in X : x.dir = dir
  BY DEF Of
<1>2. r \in rc.ifs /\ r.id = k.rif /\ r.vr = k.vr
  BY <1>0, <1>1, NamedFound DEF RcHolds
<1>3. k \in RcRule /\ rc.ifs \in SUBSET RcInterface /\ rc.rules \in SUBSET RcRule
  BY <1>0 DEF RcHolds, RcInv, RcTypeOK, RcConfig
<1>4. c # Rejected
  BY <1>0, <1>3, CandidateStands DEF RcHolds
<1>5. WithRule(c, dir, r, k.id)
        = Candidate(n, rc.ifs, rc.routes, rc.nats, rc.pfs, P, R \union (X \union {k}))
  <2>1. [dir |-> dir, vr |-> r.vr, rif |-> r.id, id |-> k.id] = k
    BY <1>0, <1>2, <1>3 DEF RcRule
  <2>2. c.rules \union {k} = R \union (X \union {k})
    BY <1>1
  <2> HIDE DEF r
  <2>3. WithRule(c, dir, r, k.id) = [c EXCEPT !.rules = R \union (X \union {k})]
    BY <2>1, <2>2 DEF WithRule
  <2>4. [c EXCEPT !.rules = Z] = Candidate(n, rc.ifs, rc.routes, rc.nats, rc.pfs, P, Z)
    <3> HIDE DEF W, Z
    <3> QED BY ONLY SMTT(30) DEF c, Candidate
  <2> QED BY <2>3, <2>4
<1> HIDE DEF c, r
<1>6. CanRuleAdd(c, dir, r, k.id) \/ ~ Clean
  <2>1. PICK p \in rc.policies : p.dir = dir /\ p.vr = k.vr /\ p.rif = k.rif
    BY <1>0 DEF RcHolds, RcInv, PublicRifUnfiltered
  <2>2. CanFilter(dir, r) \/ ~ Clean
    BY <1>2, <2>1, FilterStays
  <2>3. p \in PolicyOf(c, dir, r)
    BY <1>1, <1>2, <2>1 DEF PolicyOf, Of
  <2>4. ASSUME NEW x \in RulesOf(c, dir, r), x.id = k.id PROVE FALSE
    <3>1. x \in X /\ x.dir = k.dir /\ x.vr = k.vr /\ x.rif = k.rif
      BY <1>0, <1>1, <1>2, <2>4 DEF RulesOf
    <3>2. x = k
      BY <1>0, <1>3, <2>4, <3>1 DEF RcRule
    <3> QED BY <3>1, <3>2
  <2>5. Cardinality({x \in c.rules : x.dir = dir}) < MaxRules
    <3>1. MaxRules \in Nat /\ Within(Of(rc.rules, dir), MaxRules)
      BY Capacities DEF RcHolds, RcFits, FiltersFit
    <3>2. {x \in c.rules : x.dir = dir} = X
      BY <1>0, <1>1
    <3>3. Cardinality(X) < MaxRules
      BY <3>1, WithinRoom
    <3> QED BY <3>2, <3>3
  <2> QED BY <2>2, <2>3, <2>4, <2>5 DEF CanRuleAdd
<1>7. Replay("rule", y, k) = ReplayRule(y, k)
  BY DEF Replay
<1>8. y \in Loaded(c)
  BY DEF c
<1>9. CASE y = c
  BY <1>0, <1>4, <1>5, <1>6, <1>7, <1>9 DEF ReplayRule, Checked, Loaded, r
<1>10. CASE y # c
  BY <1>4, <1>7, <1>8, <1>10 DEF ReplayRule, Loaded
<1> QED BY <1>9, <1>10

\* A candidate while the interface lines are loaded, and an interface after its
\* attachment and after its MAC.
Attached(n, X) == Candidate(n, X, {}, {}, {}, {}, {})

Raw(k) == [vr |-> k.vr, id |-> k.id, name |-> k.name, kind |-> k.kind, at |-> k.at,
           mac |-> <<k.vr, k.id>>, addr |-> NoAddr]
Bare(k) == [vr |-> k.vr, id |-> k.id, name |-> k.name, kind |-> k.kind, at |-> k.at,
            mac |-> k.mac, addr |-> NoAddr]

LEMMA AttachedFields ==
  ASSUME NEW n, NEW X, NEW Z
  PROVE  /\ Attached(n, X).vrs = rc.vrs /\ Attached(n, X).links = rc.links
         /\ Attached(n, X).next = n /\ Attached(n, X).ifs = X
         /\ [Attached(n, X) EXCEPT !.next = Z] = Attached(Z, X)
         /\ [Attached(n, X) EXCEPT !.ifs = Z] = Attached(n, Z)
  BY ONLY DEF Attached, Candidate

LEMMA InterfaceRecord ==
  ASSUME NEW k \in RcInterface
  PROVE  /\ k = [vr |-> k.vr, id |-> k.id, name |-> k.name, kind |-> k.kind, at |-> k.at,
                 mac |-> k.mac, addr |-> k.addr]
         /\ Raw(k) \in RcInterface /\ Bare(k) \in RcInterface
         /\ [Raw(k) EXCEPT !.mac = k.mac] = Bare(k)
         /\ [Bare(k) EXCEPT !.addr = k.addr] = k
         /\ k.addr = NoAddr => Bare(k) = k
  <1>1. k = [vr |-> k.vr, id |-> k.id, name |-> k.name, kind |-> k.kind, at |-> k.at,
             mac |-> k.mac, addr |-> k.addr]
    BY DEF RcInterface
  <1>2. [Raw(k) EXCEPT !.mac = k.mac] = Bare(k)
    BY ONLY DEF Raw, Bare
  <1>3. [Bare(k) EXCEPT !.addr = k.addr]
          = [vr |-> k.vr, id |-> k.id, name |-> k.name, kind |-> k.kind, at |-> k.at,
             mac |-> k.mac, addr |-> k.addr]
    BY ONLY DEF Bare
  <1>4. k.vr \in Vr /\ k.id \in 1..MaxId
    BY DEF RcInterface
  <1>5. <<k.vr, k.id>> \in Mac
    BY <1>4 DEF Mac
  <1>6. Raw(k) \in RcInterface /\ Bare(k) \in RcInterface
    BY <1>5 DEF RcInterface, Raw, Bare
  <1>7. k.addr = NoAddr => Bare(k) = k
    BY <1>1 DEF Bare
  <1> QED BY <1>1, <1>2, <1>3, <1>6, <1>7

\* What an interface line meets: the id is free, and nothing loaded clashes.
LEMMA InterfaceMeets ==
  ASSUME RcHolds, NEW X \in SUBSET rc.ifs, NEW k \in rc.ifs \ X
  PROVE  /\ k \in RcInterface /\ X \in SUBSET RcInterface
         /\ k.id \in 1..(MaxId + 1) /\ k.id + 1 \in 1..(MaxId + 1) /\ k.id <= MaxId
         /\ \A r \in X : r.id # k.id /\ Together(r, k) /\ Together(k, r)
         /\ Cardinality(X) < MaxInterfaces
  <1>1. k \in RcInterface /\ X \in SUBSET RcInterface
    BY DEF RcHolds, RcInv, RcTypeOK, RcConfig
  <1>2. k.id \in 1..MaxId /\ MaxId \in Nat
    BY <1>1, RcAssumption DEF RcInterface
  <1>3. \A r \in X : r # k /\ r \in rc.ifs
    OBVIOUS
  <1>4. \A r \in X : r.id # k.id
    BY <1>3 DEF RcHolds, RcInv, NoDanglingReference
  <1>5. \A r \in X : Together(r, k) /\ Together(k, r)
    BY <1>3 DEF RcHolds, RcFits, InterfacesFit
  <1>6. Cardinality(X) < MaxInterfaces
    <2>1. MaxInterfaces \in Nat /\ Within(rc.ifs, MaxInterfaces)
      BY Capacities DEF RcHolds, RcFits, InterfacesFit
    <2> QED BY <2>1, WithinRoom
  <1> QED BY <1>1, <1>2, <1>4, <1>5, <1>6

\* The identity line and the attachment: never refused.
LEMMA AttachLoads ==
  ASSUME RcHolds, NEW n \in 1..(MaxId + 1), NEW X \in SUBSET rc.ifs, NEW k \in rc.ifs \ X
  PROVE  ReplayAttach(Attached(n, X), k) = Attached(k.id + 1, X \union {Raw(k)})
<1> DEFINE c == Attached(n, X)
           i == Attached(k.id, X)
           at == {r \in i.ifs : r.kind = "link" /\ r.at = k.at}
<1>1. /\ k \in RcInterface /\ X \in SUBSET RcInterface
      /\ k.id \in 1..(MaxId + 1) /\ k.id <= MaxId
      /\ \A r \in X : r.id # k.id /\ Together(r, k)
      /\ Cardinality(X) < MaxInterfaces
  BY InterfaceMeets
<1>2. c # Rejected /\ i # Rejected
  BY <1>1, CandidateStands DEF RcHolds, Attached
<1>3. WithIdentity(c, k) = i /\ c.ifs = X
  BY AttachedFields DEF WithIdentity
<1>4. i.ifs = X /\ i.next = k.id /\ i.vrs = rc.vrs /\ i.links = rc.links
  BY AttachedFields
<1>5. CanIdentify(c, k)
  BY <1>1, <1>3 DEF CanIdentify
<1>6. WithInterface(i, k.vr, k.name, k.kind, k.at) = Attached(k.id + 1, X \union {Raw(k)})
  <2>1. WithInterface(i, k.vr, k.name, k.kind, k.at)
          = [[i EXCEPT !.ifs = X \union {Raw(k)}] EXCEPT !.next = k.id + 1]
    BY <1>4 DEF WithInterface, Raw
  <2> DEFINE Z == X \union {Raw(k)}
             m == k.id + 1
  <2>2. [i EXCEPT !.ifs = Z] = Attached(k.id, Z)
    <3> HIDE DEF Z
    <3> QED BY ONLY AttachedFields DEF i
  <2>3. [Attached(k.id, Z) EXCEPT !.next = m] = Attached(m, Z)
    <3> HIDE DEF Z, m
    <3> QED BY ONLY AttachedFields
  <2> QED BY ONLY <2>1, <2>2, <2>3
<1> HIDE DEF c, i
<1>7. k.kind = "link" => k.at \in i.links /\ Cardinality(at) < 2 /\ \A r \in at : r.vr # k.vr
  <2>1. SUFFICES ASSUME k.kind = "link"
                 PROVE  k.at \in i.links /\ Cardinality(at) < 2 /\ \A r \in at : r.vr # k.vr
    OBVIOUS
  <2>2. k.at \in i.links
    BY <1>4, <2>1 DEF RcHolds, RcInv, NoDanglingReference
  <2>3. at \subseteq Peers(rc, k)
    BY <1>1, <1>4, <2>1 DEF Peers
  <2>4. \A p, q \in Peers(rc, k) : p = q
    BY <2>1 DEF RcHolds, RcKept, LinkEnds
  <2>5. \A r \in at : r.vr # k.vr
    BY <2>1, <2>3 DEF RcHolds, RcKept, LinkEnds
  <2>6. Cardinality(at) < 2
    <3> HIDE DEF at
    <3>1. CASE at = {}
      BY <3>1, FS_EmptySet
    <3>2. CASE at # {}
      <4>1. PICK e : at = {e}
        BY <2>3, <2>4, <3>2
      <4>2. Cardinality({e}) = 1
        BY FS_Singleton
      <4> QED BY ONLY <4>1, <4>2
    <3> QED BY <3>1, <3>2
  <2> QED BY <2>2, <2>5, <2>6
<1>8. CanAttach(i, k.vr, k.name, k.kind, k.at)
  <2>1. k.vr \in i.vrs
    BY <1>4 DEF RcHolds, RcInv, NoDanglingReference
  <2>2. \A r \in i.ifs : ~ (r.vr = k.vr /\ r.name = k.name)
    BY <1>1, <1>4 DEF Together
  <2>3. k.kind = "port" => \A r \in i.ifs : r.kind = "port" => r.at # k.at /\ r.vr # k.vr
    BY <1>1, <1>4 DEF Together
  <2>4. Cardinality(i.ifs) < MaxInterfaces /\ IdLeft(i)
    BY <1>1, <1>4 DEF IdLeft
  <2> QED BY <1>7, <2>1, <2>2, <2>3, <2>4 DEF CanAttach
<1>9. ReplayAttach(c, k) = Attached(k.id + 1, X \union {Raw(k)})
  BY <1>2, <1>3, <1>5, <1>6, <1>8 DEF ReplayAttach, Checked
<1> QED BY <1>9 DEF c

\* A line that changes the interface just attached.
LEMMA SelfReplaced ==
  ASSUME NEW n, NEW X, NEW r, r \notin X, NEW s
  PROVE  Replaced(Attached(n, X \union {r}), r, s) = Attached(n, X \union {s})
<1> DEFINE W == X \union {r}
           Z == X \union {s}
<1>1. Attached(n, W).ifs = W
  <2> HIDE DEF W
  <2> QED BY AttachedFields
<1>2. (W \ {r}) \union {s} = Z
  OBVIOUS
<1>3. Replaced(Attached(n, W), r, s) = [Attached(n, W) EXCEPT !.ifs = Z]
  BY <1>1, <1>2 DEF Replaced
<1>4. [Attached(n, W) EXCEPT !.ifs = Z] = Attached(n, Z)
  <2> HIDE DEF W, Z
  <2> QED BY ONLY AttachedFields
<1> QED BY <1>3, <1>4

\* The MAC: refused only where another interface has it.
LEMMA MacLoads ==
  ASSUME RcHolds, NEW X \in SUBSET rc.ifs, NEW k \in rc.ifs \ X
  PROVE  ReplayMac(Attached(k.id + 1, X \union {Raw(k)}), k)
           \in Loaded(Attached(k.id + 1, X \union {Bare(k)}))
<1> DEFINE W == X \union {Raw(k)}
           c == Attached(k.id + 1, W)
           b == Attached(k.id + 1, X \union {Bare(k)})
<1>1. /\ k \in RcInterface /\ X \in SUBSET RcInterface
      /\ k.id + 1 \in 1..(MaxId + 1)
      /\ \A r \in X : r.id # k.id
  BY InterfaceMeets
<1>2. Raw(k) \in RcInterface /\ [Raw(k) EXCEPT !.mac = k.mac] = Bare(k) /\ Raw(k).id = k.id
  BY <1>1, InterfaceRecord DEF Raw
<1>3. c # Rejected
  BY <1>1, <1>2, CandidateStands DEF RcHolds, Attached
<1>4. Self(c, k) = Raw(k) /\ WithMac(c, Raw(k), k.mac) = b
  <2> DEFINE m == k.id + 1
             r == Raw(k)
             s == Bare(k)
  <2>a. r.id = k.id /\ r \notin X
    BY <1>1, <1>2
  <2>1. Replaced(c, Raw(k), Bare(k)) = b
    <3> HIDE DEF m, r, s
    <3>1. Replaced(Attached(m, X \union {r}), r, s) = Attached(m, X \union {s})
      BY ONLY <2>a, SelfReplaced
    <3> QED BY ONLY <3>1 DEF m, r, s, b, c, W
  <2>2. c.ifs = W
    BY AttachedFields
  <2>3. Self(c, k) = Raw(k)
    BY <1>1, <2>2, <2>a DEF Self
  <2> QED BY <1>2, <2>1, <2>3 DEF WithMac
<1>5. c.ifs = W
  BY AttachedFields
<1> HIDE DEF b, c
<1>6. CanMacSet(c, Raw(k), k.mac) \/ ~ Clean
  BY <1>5 DEF CanMacSet, Clean, MacsUnique
<1>7. ReplayMac(c, k) \in Loaded(b)
  BY <1>3, <1>4, <1>6 DEF ReplayMac, Checked, Loaded
<1> QED BY <1>7 DEF b, c

\* The address: what was asked of it when it was given still holds.
LEMMA AddressLoads ==
  ASSUME RcHolds, NEW X \in SUBSET rc.ifs, NEW k \in rc.ifs \ X
  PROVE  ReplayIp(Attached(k.id + 1, X \union {Bare(k)}), k) = Attached(k.id + 1, X \union {k})
<1> DEFINE W == X \union {Bare(k)}
           c == Attached(k.id + 1, W)
           b == Bare(k)
<1>1. /\ k \in RcInterface /\ X \in SUBSET RcInterface
      /\ k.id + 1 \in 1..(MaxId + 1)
      /\ \A r \in X : r.id # k.id /\ Together(r, k)
  BY InterfaceMeets
<1>2. /\ b \in RcInterface /\ [b EXCEPT !.addr = k.addr] = k
      /\ b.id = k.id /\ b.vr = k.vr /\ b.kind = k.kind /\ b.at = k.at /\ b.addr = NoAddr
      /\ k.addr = NoAddr => b = k
  BY <1>1, InterfaceRecord DEF Bare
<1>3. c # Rejected
  BY <1>1, <1>2, CandidateStands DEF RcHolds, Attached
<1>4. Self(c, k) = b /\ WithAddress(c, b, k.addr) = Attached(k.id + 1, X \union {k})
  <2> HIDE DEF b
  <2> DEFINE m == k.id + 1
  <2>a. b.id = k.id /\ b \notin X
    BY <1>1, <1>2
  <2>1. Replaced(Attached(m, X \union {b}), b, k) = Attached(m, X \union {k})
    <3> HIDE DEF m
    <3> QED BY ONLY <2>a, SelfReplaced
  <2>2. c.ifs = X \union {b}
    BY AttachedFields DEF b
  <2>3. Self(c, k) = b
    BY <1>1, <2>2, <2>a DEF Self
  <2>4. c = Attached(m, X \union {b})
    BY ONLY DEF c, W, b
  <2> QED BY <1>2, <2>1, <2>3, <2>4 DEF WithAddress
<1>5. c.ifs = W
  BY AttachedFields
<1> HIDE DEF b, c
<1>6. CASE k.addr = NoAddr
  BY <1>2, <1>6 DEF ReplayIp, c, b
<1>7. CASE k.addr # NoAddr
  <2>1. \A s \in c.ifs :
          s.addr # NoAddr =>
            /\ s.vr = b.vr => ~ Overlap(s.addr, k.addr)
            /\ b.kind = "switch" /\ s.kind = "switch" /\ s.at = b.at => s.addr # k.addr
    <3> SUFFICES ASSUME NEW s \in c.ifs, s.addr # NoAddr
                 PROVE  /\ s.vr = b.vr => ~ Overlap(s.addr, k.addr)
                        /\ b.kind = "switch" /\ s.kind = "switch" /\ s.at = b.at => s.addr # k.addr
      OBVIOUS
    <3>1. s \in X /\ Together(s, k)
      BY <1>1, <1>2, <1>5 DEF b
    <3> QED BY <1>2, <1>7, <3>1 DEF Together
  <2>2. \A p \in Peers(c, b) : p.addr # NoAddr => p.addr.net = k.addr.net /\ p.addr # k.addr
    <3> SUFFICES ASSUME NEW p \in Peers(c, b), p.addr # NoAddr
                 PROVE  p.addr.net = k.addr.net /\ p.addr # k.addr
      OBVIOUS
    <3>1. p \in X /\ k.kind = "link" /\ p.kind = "link" /\ p.at = k.at /\ p.id # k.id
      BY <1>2, <1>5 DEF Peers, b
    <3>2. p \in Peers(rc, k)
      BY <3>1 DEF Peers
    <3> QED BY <1>7, <3>1, <3>2 DEF RcHolds, RcKept, LinkEnds
  <2>3. CanIpAdd(c, b, k.addr)
    BY <1>2, <2>1, <2>2 DEF CanIpAdd
  <2>4. ReplayIp(c, k) = Attached(k.id + 1, X \union {k})
    BY <1>3, <1>4, <1>7, <2>3 DEF ReplayIp, Checked
  <2> QED BY <2>4 DEF c
<1> QED BY <1>6, <1>7

\* The lines of an interface.
LEMMA InterfaceLoads ==
  ASSUME RcHolds, NEW n \in 1..(MaxId + 1), NEW X \in SUBSET rc.ifs, NEW k \in rc.ifs \ X,
         NEW y \in Loaded(Attached(n, X))
  PROVE  /\ k.id + 1 \in 1..(MaxId + 1)
         /\ Replay("interface", y, k) \in Loaded(Attached(k.id + 1, X \union {k}))
<1> DEFINE a == Attached(k.id + 1, X \union {Raw(k)})
           b == Attached(k.id + 1, X \union {Bare(k)})
           d == Attached(k.id + 1, X \union {k})
<1>1. k.id + 1 \in 1..(MaxId + 1)
  BY InterfaceMeets
<1>2. ReplayAttach(Attached(n, X), k) = a
  BY AttachLoads
<1>3. ReplayMac(a, k) \in Loaded(b)
  BY MacLoads
<1>4. ReplayIp(b, k) = d
  BY AddressLoads
<1>5. Replay("interface", y, k) = ReplayIp(ReplayMac(ReplayAttach(y, k), k), k)
  BY DEF Replay, ReplayInterface
<1>6. ReplayAttach(Rejected, k) = Rejected /\ ReplayMac(Rejected, k) = Rejected
      /\ ReplayIp(Rejected, k) = Rejected
  BY DEF ReplayAttach, ReplayMac, ReplayIp
<1> HIDE DEF a, b, d
<1>7. y = Attached(n, X) \/ (y = Rejected /\ ~ Clean)
  BY DEF Loaded
<1>8. ReplayMac(a, k) = b \/ (ReplayMac(a, k) = Rejected /\ ~ Clean)
  BY <1>3 DEF Loaded
<1>9. Replay("interface", y, k) = d \/ (Replay("interface", y, k) = Rejected /\ ~ Clean)
  BY <1>2, <1>4, <1>5, <1>6, <1>7, <1>8
<1>10. Replay("interface", y, k) \in Loaded(d)
  BY <1>9 DEF Loaded
<1> QED BY <1>1, <1>10 DEF d

\* A candidate while the filter lines are loaded.
Filtered(n, P, X) == Candidate(n, rc.ifs, rc.routes, rc.nats, rc.pfs, P, X)

\* The loop over one filter's policies.
LEMMA PoliciesLoad ==
  ASSUME RcHolds, NEW n \in 1..(MaxId + 1), NEW dir,
         NEW P \in SUBSET rc.policies, \A p \in P : p.dir # dir, NEW R \in SUBSET rc.rules,
         NEW y \in Loaded(Filtered(n, P, R))
  PROVE  ReplayAll("policy", SetToSeq(Of(rc.policies, dir)), y)
           \in Loaded(Filtered(n, P \union Of(rc.policies, dir), R))
<1> DEFINE S == Of(rc.policies, dir)
           K == [X \in SUBSET S |-> Loaded(Filtered(n, P \union X, R))]
<1>1. \A k \in S : dir \in Filters
  BY DEF Of, RcHolds, RcInv, RcTypeOK, RcConfig, RcPolicy
<1>2. IsFiniteSet(S)
  <2>1. CASE dir \in Filters
    BY <2>1 DEF RcHolds, RcFits, FiltersFit, Within
  <2>2. CASE dir \notin Filters
    <3>1. S = {}
      BY <1>1, <2>2
    <3> QED BY <3>1, FS_EmptySet
  <2> QED BY <2>1, <2>2
<1>3. y \in K[{}]
  <2>1. P \union {} = P
    OBVIOUS
  <2> QED BY <2>1
<1>4. ASSUME NEW X \in SUBSET S, NEW k \in S \ X, NEW z \in K[X]
      PROVE  Replay("policy", z, k) \in K[X \union {k}]
  <2>1. dir \in Filters /\ X \union {k} \in SUBSET S
    BY <1>1
  <2>2. z \in Loaded(Candidate(n, rc.ifs, rc.routes, rc.nats, rc.pfs, P \union X, R))
    BY DEF Filtered
  <2>3. Replay("policy", z, k)
          \in Loaded(Candidate(n, rc.ifs, rc.routes, rc.nats, rc.pfs, P \union (X \union {k}), R))
    BY <2>1, <2>2, PolicyLoads
  <2> QED BY <2>1, <2>3 DEF Filtered
<1>5. K[S] = Loaded(Filtered(n, P \union S, R))
  OBVIOUS
<1>6. Lists(SetToSeq(S), S)
  BY <1>2, SetListed
<1> HIDE DEF K, S
<1>7. ReplayAll("policy", SetToSeq(S), y) \in K[S]
  BY ONLY <1>2, <1>3, <1>4, <1>6, ReplayGrows
<1> QED BY <1>5, <1>7 DEF S

\* The loop over one filter's rules, after that over its policies.
LEMMA RulesLoad ==
  ASSUME RcHolds, NEW n \in 1..(MaxId + 1), NEW dir,
         NEW P \in SUBSET rc.policies, Of(rc.policies, dir) \subseteq P,
         NEW R \in SUBSET rc.rules, \A x \in R : x.dir # dir,
         NEW y \in Loaded(Filtered(n, P, R))
  PROVE  ReplayAll("rule", SetToSeq(Of(rc.rules, dir)), y)
           \in Loaded(Filtered(n, P, R \union Of(rc.rules, dir)))
<1> DEFINE S == Of(rc.rules, dir)
           K == [X \in SUBSET S |-> Loaded(Filtered(n, P, R \union X))]
<1>1. \A k \in S : dir \in Filters
  BY DEF Of, RcHolds, RcInv, RcTypeOK, RcConfig, RcRule
<1>2. IsFiniteSet(S)
  <2>1. CASE dir \in Filters
    BY <2>1 DEF RcHolds, RcFits, FiltersFit, Within
  <2>2. CASE dir \notin Filters
    <3>1. S = {}
      BY <1>1, <2>2
    <3> QED BY <3>1, FS_EmptySet
  <2> QED BY <2>1, <2>2
<1>3. y \in K[{}]
  <2>1. R \union {} = R
    OBVIOUS
  <2> QED BY <2>1
<1>4. ASSUME NEW X \in SUBSET S, NEW k \in S \ X, NEW z \in K[X]
      PROVE  Replay("rule", z, k) \in K[X \union {k}]
  <2>1. dir \in Filters /\ X \union {k} \in SUBSET S
    BY <1>1
  <2>2. z \in Loaded(Candidate(n, rc.ifs, rc.routes, rc.nats, rc.pfs, P, R \union X))
    BY DEF Filtered
  <2>3. Replay("rule", z, k)
          \in Loaded(Candidate(n, rc.ifs, rc.routes, rc.nats, rc.pfs, P, R \union (X \union {k})))
    BY <2>1, <2>2, RuleLoads
  <2> QED BY <2>1, <2>3 DEF Filtered
<1>5. K[S] = Loaded(Filtered(n, P, R \union S))
  OBVIOUS
<1>6. Lists(SetToSeq(S), S)
  BY <1>2, SetListed
<1> HIDE DEF K, S
<1>7. ReplayAll("rule", SetToSeq(S), y) \in K[S]
  BY ONLY <1>2, <1>3, <1>4, <1>6, ReplayGrows
<1> QED BY <1>5, <1>7 DEF S

\* One filter.
LEMMA FilterLoads ==
  ASSUME RcHolds, NEW n \in 1..(MaxId + 1), NEW dir,
         NEW P \in SUBSET rc.policies, \A p \in P : p.dir # dir,
         NEW R \in SUBSET rc.rules, \A x \in R : x.dir # dir,
         NEW y \in Loaded(Filtered(n, P, R))
  PROVE  ReplayFilter(y, rc, dir)
           \in Loaded(Filtered(n, P \union Of(rc.policies, dir), R \union Of(rc.rules, dir)))
<1> DEFINE A == P \union Of(rc.policies, dir)
           z == ReplayAll("policy", SetToSeq(Of(rc.policies, dir)), y)
<1>1. A \in SUBSET rc.policies /\ Of(rc.policies, dir) \subseteq A
  BY DEF Of
<1>2. z \in Loaded(Filtered(n, A, R))
  BY PoliciesLoad
<1>3. ReplayFilter(y, rc, dir) = ReplayAll("rule", SetToSeq(Of(rc.rules, dir)), z)
  BY DEF ReplayFilter
<1> HIDE DEF A, z
<1>4. ReplayAll("rule", SetToSeq(Of(rc.rules, dir)), z)
        \in Loaded(Filtered(n, A, R \union Of(rc.rules, dir)))
  BY <1>1, <1>2, RulesLoad
<1> QED BY <1>3, <1>4 DEF A

\* The loop over the interfaces, in the order of their ids.
LEMMA InterfacesLoad ==
  ASSUME RcHolds
  PROVE  \E n \in 1..(MaxId + 1) :
           ReplayAll("interface", Interfaces(rc), Attached(1, {})) \in Loaded(Attached(n, rc.ifs))
<1> DEFINE N == 1..(MaxId + 1)
           S == rc.ifs
           K == [X \in SUBSET S |-> UNION {Loaded(Attached(n, X)) : n \in N}]
           c == Attached(1, {})
<1>1. 1 \in N
  BY RcAssumption
<1>2. c \in Loaded(c)
  BY DEF Loaded
<1>3. c \in K[{}]
  BY <1>1, <1>2
<1>4. ASSUME NEW X \in SUBSET S, NEW k \in S \ X, NEW z \in K[X]
      PROVE  Replay("interface", z, k) \in K[X \union {k}]
  <2>1. PICK n \in N : z \in Loaded(Attached(n, X))
    OBVIOUS
  <2>2. k.id + 1 \in N /\ Replay("interface", z, k) \in Loaded(Attached(k.id + 1, X \union {k}))
    BY <2>1, InterfaceLoads
  <2>3. X \union {k} \in SUBSET S
    OBVIOUS
  <2> DEFINE W == X \union {k}
             m == k.id + 1
  <2>4. m \in N /\ Replay("interface", z, k) \in Loaded(Attached(m, W)) /\ W \in SUBSET S
    BY <2>2, <2>3
  <2> HIDE DEF W, m
  <2>5. Replay("interface", z, k) \in K[W]
    BY <2>4
  <2> QED BY <2>5 DEF W
<1>5. Lists(Interfaces(rc), S)
  BY InterfacesListed DEF RcHolds, RcFits, InterfacesFit, Within
<1>6. K[S] = UNION {Loaded(Attached(n, S)) : n \in N}
  OBVIOUS
<1>7. IsFiniteSet(S)
  BY DEF RcHolds, RcFits, InterfacesFit, Within
<1> HIDE DEF K, S, c, N
<1>8. ReplayAll("interface", Interfaces(rc), c) \in K[S]
  BY ONLY <1>3, <1>4, <1>5, <1>7, ReplayGrows
<1> QED BY <1>6, <1>8 DEF c, S, N

\* The loops over the routes, the NAT policies and the port forwards.
LEMMA RoutesLoad ==
  ASSUME RcHolds, NEW n \in 1..(MaxId + 1), NEW y \in Loaded(Attached(n, rc.ifs))
  PROVE  ReplayAll("route", SetToSeq(rc.routes), y)
           \in Loaded(Candidate(n, rc.ifs, rc.routes, {}, {}, {}, {}))
<1> DEFINE S == rc.routes
           K == [X \in SUBSET S |-> Loaded(Candidate(n, rc.ifs, X, {}, {}, {}, {}))]
<1>1. y \in K[{}]
  BY DEF Attached
<1>2. ASSUME NEW X \in SUBSET S, NEW k \in S \ X, NEW z \in K[X]
      PROVE  Replay("route", z, k) \in K[X \union {k}]
  <2>1. z \in Loaded(Candidate(n, rc.ifs, X, {}, {}, {}, {})) /\ X \union {k} \in SUBSET S
    OBVIOUS
  <2>2. Replay("route", z, k) \in Loaded(Candidate(n, rc.ifs, X \union {k}, {}, {}, {}, {}))
    BY <2>1, RouteLoads
  <2> QED BY <2>1, <2>2
<1>3. IsFiniteSet(S) /\ Lists(SetToSeq(S), S)
  BY SetListed DEF RcHolds, RcFits, RoutesFit, Within
<1>4. K[S] = Loaded(Candidate(n, rc.ifs, S, {}, {}, {}, {}))
  OBVIOUS
<1> HIDE DEF K, S
<1>5. ReplayAll("route", SetToSeq(S), y) \in K[S]
  BY ONLY <1>1, <1>2, <1>3, ReplayGrows
<1> QED BY <1>4, <1>5 DEF S

LEMMA NatsLoad ==
  ASSUME RcHolds, NEW n \in 1..(MaxId + 1),
         NEW y \in Loaded(Candidate(n, rc.ifs, rc.routes, {}, {}, {}, {}))
  PROVE  ReplayAll("nat", SetToSeq(rc.nats), y)
           \in Loaded(Candidate(n, rc.ifs, rc.routes, rc.nats, {}, {}, {}))
<1> DEFINE S == rc.nats
           K == [X \in SUBSET S |-> Loaded(Candidate(n, rc.ifs, rc.routes, X, {}, {}, {}))]
<1>1. y \in K[{}]
  OBVIOUS
<1>2. ASSUME NEW X \in SUBSET S, NEW k \in S \ X, NEW z \in K[X]
      PROVE  Replay("nat", z, k) \in K[X \union {k}]
  <2>1. z \in Loaded(Candidate(n, rc.ifs, rc.routes, X, {}, {}, {})) /\ X \union {k} \in SUBSET S
    OBVIOUS
  <2>2. Replay("nat", z, k) \in Loaded(Candidate(n, rc.ifs, rc.routes, X \union {k}, {}, {}, {}))
    BY <2>1, NatLoads
  <2> QED BY <2>1, <2>2
<1>3. IsFiniteSet(S) /\ Lists(SetToSeq(S), S)
  BY SetListed DEF RcHolds, RcFits, NatsFit, Within
<1>4. K[S] = Loaded(Candidate(n, rc.ifs, rc.routes, S, {}, {}, {}))
  OBVIOUS
<1> HIDE DEF K, S
<1>5. ReplayAll("nat", SetToSeq(S), y) \in K[S]
  BY ONLY <1>1, <1>2, <1>3, ReplayGrows
<1> QED BY <1>4, <1>5 DEF S

LEMMA ForwardsLoad ==
  ASSUME RcHolds, NEW n \in 1..(MaxId + 1),
         NEW y \in Loaded(Candidate(n, rc.ifs, rc.routes, rc.nats, {}, {}, {}))
  PROVE  ReplayAll("forward", SetToSeq(rc.pfs), y) \in Loaded(Filtered(n, {}, {}))
<1> DEFINE S == rc.pfs
           K == [X \in SUBSET S |-> Loaded(Candidate(n, rc.ifs, rc.routes, rc.nats, X, {}, {}))]
<1>1. y \in K[{}]
  OBVIOUS
<1>2. ASSUME NEW X \in SUBSET S, NEW k \in S \ X, NEW z \in K[X]
      PROVE  Replay("forward", z, k) \in K[X \union {k}]
  <2>1. z \in Loaded(Candidate(n, rc.ifs, rc.routes, rc.nats, X, {}, {})) /\ X \union {k} \in SUBSET S
    OBVIOUS
  <2>2. Replay("forward", z, k)
          \in Loaded(Candidate(n, rc.ifs, rc.routes, rc.nats, X \union {k}, {}, {}))
    BY <2>1, ForwardLoads
  <2> QED BY <2>1, <2>2
<1>3. IsFiniteSet(S) /\ Lists(SetToSeq(S), S)
  BY SetListed DEF RcHolds, RcFits, ForwardsFit, Within
<1>4. K[S] = Loaded(Filtered(n, {}, {}))
  BY DEF Filtered
<1> HIDE DEF K, S
<1>5. ReplayAll("forward", SetToSeq(S), y) \in K[S]
  BY ONLY <1>1, <1>2, <1>3, ReplayGrows
<1> QED BY <1>4, <1>5 DEF S

\* The whole file: everything is restored, or a shape was refused.
LEMMA FileLoads ==
  ASSUME RcHolds
  PROVE  \E n \in 1..(MaxId + 1) :
           Replayed(rc) \in Loaded(Filtered(n, rc.policies, rc.rules))
<1> DEFINE base == [EmptyConfig EXCEPT !.vrs = rc.vrs, !.links = rc.links]
           ifs == ReplayAll("interface", Interfaces(rc), base)
           rts == ReplayAll("route", SetToSeq(rc.routes), ifs)
           nat == ReplayAll("nat", SetToSeq(rc.nats), rts)
           pfs == ReplayAll("forward", SetToSeq(rc.pfs), nat)
           egress == ReplayFilter(pfs, rc, "egress")
           Pe == Of(rc.policies, "egress")
           Pi == Of(rc.policies, "ingress")
           Re == Of(rc.rules, "egress")
           Ri == Of(rc.rules, "ingress")
<1>1. base = Attached(1, {})
  <2> DEFINE E == {}
             z == [vrs |-> E, links |-> E, next |-> 1, ifs |-> E, routes |-> E, nats |-> E,
                   pfs |-> E, policies |-> E, rules |-> E]
  <2> DEFINE y == [vrs |-> rc.vrs, links |-> E, next |-> 1, ifs |-> E, routes |-> E, nats |-> E,
                   pfs |-> E, policies |-> E, rules |-> E]
             x == [vrs |-> rc.vrs, links |-> rc.links, next |-> 1, ifs |-> E, routes |-> E,
                   nats |-> E, pfs |-> E, policies |-> E, rules |-> E]
  <2>1. [z EXCEPT !.vrs = rc.vrs] = y
    <3> HIDE DEF E
    <3> QED BY ONLY DEF z, y
  <2>2. [y EXCEPT !.links = rc.links] = x
    <3> HIDE DEF E
    <3> QED BY ONLY DEF x, y
  <2>3. base = [[z EXCEPT !.vrs = rc.vrs] EXCEPT !.links = rc.links]
    BY ONLY DEF base, z, EmptyConfig, E
  <2>4. x = Attached(1, {})
    BY ONLY DEF x, E, Attached, Candidate
  <2> HIDE DEF x, y, z
  <2> QED BY ONLY <2>1, <2>2, <2>3, <2>4
<1>2. Replayed(rc) = ReplayFilter(egress, rc, "ingress")
  BY DEF Replayed
<1>3. /\ Pe \in SUBSET rc.policies /\ Re \in SUBSET rc.rules
      /\ \A p \in Pe \union Re : p.dir # "ingress"
      /\ Pe \union Pi = rc.policies /\ Re \union Ri = rc.rules
  <2>1. \A p \in rc.policies \union rc.rules : p.dir = "egress" \/ p.dir = "ingress"
    BY RcAssumption DEF RcHolds, RcInv, RcTypeOK, RcConfig, RcPolicy, RcRule
  <2> QED BY <2>1 DEF Of
<1> HIDE DEF base
<1>4. PICK n \in 1..(MaxId + 1) : ifs \in Loaded(Attached(n, rc.ifs))
  BY <1>1, InterfacesLoad
<1> HIDE DEF ifs
<1>5. rts \in Loaded(Candidate(n, rc.ifs, rc.routes, {}, {}, {}, {}))
  BY <1>4, RoutesLoad
<1> HIDE DEF rts
<1>6. nat \in Loaded(Candidate(n, rc.ifs, rc.routes, rc.nats, {}, {}, {}))
  BY <1>5, NatsLoad
<1> HIDE DEF nat
<1>7. pfs \in Loaded(Filtered(n, {}, {}))
  BY <1>6, ForwardsLoad
<1> HIDE DEF pfs
<1>8. egress \in Loaded(Filtered(n, Pe, Re))
  <2>1. egress \in Loaded(Filtered(n, {} \union Pe, {} \union Re))
    BY <1>7, FilterLoads
  <2>2. {} \union Pe = Pe /\ {} \union Re = Re
    OBVIOUS
  <2> HIDE DEF egress, Pe, Re
  <2> QED BY <2>1, <2>2
<1> HIDE DEF egress
<1>9. Replayed(rc) \in Loaded(Filtered(n, Pe \union Pi, Re \union Ri))
  <2>1. (\A p \in Pe : p.dir # "ingress") /\ (\A x \in Re : x.dir # "ingress")
    BY <1>3
  <2> HIDE DEF Pe, Re
  <2>2. ReplayFilter(egress, rc, "ingress")
          \in Loaded(Filtered(n, Pe \union Of(rc.policies, "ingress"), Re \union Of(rc.rules, "ingress")))
    BY <1>3, <1>8, <2>1, FilterLoads
  <2> QED BY <1>2, <2>2
<1> HIDE DEF Pe, Pi, Re, Ri
<1>10. Replayed(rc) \in Loaded(Filtered(n, rc.policies, rc.rules))
  BY <1>3, <1>9
<1> QED BY <1>10

\* A daemon that restarts gets its configuration back.
LEMMA RestartRestores == RcHolds => ReloadFaithful
<1> SUFFICES ASSUME RcHolds PROVE ReloadFaithful
  OBVIOUS
<1>1. rc \in RcConfig
  BY DEF RcHolds, RcInv, RcTypeOK
<1>2. CanNext(rc)
  BY <1>1 DEF CanNext, RcConfig, RcHolds, RcInv, NoDanglingReference
<1>3. PICK n \in 1..(MaxId + 1) : Replayed(rc) \in Loaded(Filtered(n, rc.policies, rc.rules))
  BY FileLoads
<1> DEFINE c == Filtered(n, rc.policies, rc.rules)
<1>4. c # Rejected
  <2>1. rc.ifs \in SUBSET RcInterface
    BY <1>1 DEF RcConfig
  <2> QED BY <2>1, CandidateStands DEF Filtered, RcHolds
<1>5. WithNext(c, rc) = rc
  <2>1. rc = [vrs |-> rc.vrs, links |-> rc.links, next |-> rc.next, ifs |-> rc.ifs,
              routes |-> rc.routes, nats |-> rc.nats, pfs |-> rc.pfs,
              policies |-> rc.policies, rules |-> rc.rules]
    BY <1>1 DEF RcConfig
  <2>2. WithNext(c, rc)
          = [vrs |-> rc.vrs, links |-> rc.links, next |-> rc.next, ifs |-> rc.ifs,
             routes |-> rc.routes, nats |-> rc.nats, pfs |-> rc.pfs,
             policies |-> rc.policies, rules |-> rc.rules]
    BY ONLY DEF WithNext, Filtered, Candidate
  <2> QED BY ONLY <2>1, <2>2
<1> HIDE DEF c
<1>6. CASE Replayed(rc) = c
  BY <1>2, <1>4, <1>5, <1>6 DEF Reload, ReloadFaithful
<1>7. CASE Replayed(rc) = Rejected /\ ~ Clean
  BY <1>7 DEF Reload, ReloadFaithful, Clean
<1>8. Replayed(rc) \in Loaded(c)
  BY <1>3 DEF c
<1> QED BY <1>6, <1>7, <1>8 DEF Loaded

\* A committed configuration survives a restart: router_config_load restores
\* exactly what router_config_save wrote, unless two interfaces have one MAC, a
\* port forward is beside the NAT uplink, or an ingress filter is on an
\* interface without an address.
THEOREM ConfigurationReloads == RcSpec => []ReloadFaithful
  BY RcInvariant, RelationsKept, EntriesFit, RestartRestores, PTL DEF RcHolds
=============================================================================
