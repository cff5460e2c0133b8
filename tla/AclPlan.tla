------------------------------ MODULE AclPlan -------------------------------
(***************************************************************************)
(* The filters of one router interface: the Arm's verdict on a packet      *)
(* (router/router_egress.c) and the two sets of hardware entries derived   *)
(* from the same rules, the egress ACL (router/router_acl_plan.h and       *)
(* acl_build_generation) and the ingress deny prefixes.                    *)
(*                                                                         *)
(* A policy is [allow, rules]; a rule matches a protocol (0 is every       *)
(* protocol), a range of destination ports (first = 0 is every port), an   *)
(* ICMP type and code (-1 is every one) and its CIDR pair, which is kept   *)
(* as the set of peers it covers.  A packet has a well-formed, unfragmented *)
(* IPv4 header and the interface's MAC; `port` is its destination port, or *)
(* the identifier of an ICMP echo.                                         *)
(***************************************************************************)
EXTENDS Integers, FiniteSets, FiniteSetsExt

CONSTANTS
  PortBits, IcmpBits,  \* 16 and 8: widths of a port and of an ICMP type or code
  MaxPriorities,       \* 7: CONTROL priorities left beside the default's
  MaxRanges,           \* ESWITCH_INGRESS_DENY_MAX_RANGES
  MaxSpecs,            \* ESWITCH_INGRESS_DENY_MAX_RULES
  MaxIcmp,             \* size of the ICMP match array
  NoPolicy             \* the interface has no policy

ASSUME AclAssumption ==
  {PortBits, IcmpBits, MaxPriorities, MaxRanges, MaxSpecs, MaxIcmp} \subseteq Nat

ICMP == 1
TCP  == 6
UDP  == 17
Port == 0 .. 2^PortBits - 1
Byte == 0 .. 2^IcmpBits - 1

\* What the commands accept in a rule, and what a packet carries.
RuleOK(r) ==
  /\ {r.id, r.proto} \subseteq Nat /\ {r.first, r.last} \subseteq Port
  /\ {r.type, r.code} \subseteq Byte \union {-1} /\ r.allow \in BOOLEAN

PacketOK(p) == p.proto \in Nat /\ p.port \in Port /\ {p.type, p.code} \subseteq Byte

-----------------------------------------------------------------------------
(* The Arm's verdict. *)

Matches(r, p) ==
  /\ r.proto \in {0, p.proto}
  /\ p.peer \in r.peers
  /\ r.first # 0 => p.proto \in {TCP, UDP} /\ p.port \in r.first .. r.last
  /\ r.type >= 0 => p.proto = ICMP /\ p.type = r.type
  /\ r.code >= 0 => p.proto = ICMP /\ p.code = r.code

\* local is the set of peers that address the router itself; it is empty for
\* the ingress filter, which covers the router's own services.
firewall_check(policy, local, p) ==
  IF policy = NoPolicy \/ p.peer \in local THEN "n/a"
  ELSE LET hit  == {r \in policy.rules : Matches(r, p)}
           best == CHOOSE r \in hit : \A s \in hit : r.id <= s.id
       IN IF (hit # {} /\ best.allow) \/ (hit = {} /\ policy.allow) THEN "allow" ELSE "deny"

-----------------------------------------------------------------------------
(* Ranges as ternary prefixes. *)

\* A block one larger than what remains.
PortBlockOver(bits, cursor, last) ==
  Max({b \in {2^k : k \in 0 .. bits} : cursor % b = 0 /\ b <= last - cursor + 2})

\* The largest aligned power of two at the cursor that stays within the range.
router_acl_port_block(bits, cursor, last) ==
  Max({b \in {2^k : k \in 0 .. bits} : cursor % b = 0 /\ b <= last - cursor + 1})

\* A turn of the loop over a range, at the cursor s.at with the blocks s.got.
BlockTurn(bits, last, s) ==
  LET b == router_acl_port_block(bits, s.at, last)
  IN IF s.at > last THEN s
     ELSE [at |-> s.at + b, got |-> s.got \union {[at |-> s.at, size |-> b]}]

Blocks(bits, first, last) ==
  LET run[n \in 0 .. 2^bits] ==
        IF n = 0 THEN [at |-> first, got |-> {}] ELSE BlockTurn(bits, last, run[n-1])
  IN run[2^bits].got

\* The mask of a block keeps the bits above its size.
InBlock(x, b) == x - (x % b.size) = b.at

\* The inclusive ranges a set of numbers falls into.
RangesOf(S) ==
  {x \in S \X S : /\ x[1] <= x[2]
                  /\ x[1] .. x[2] \subseteq S
                  /\ x[1] - 1 \notin S /\ x[2] + 1 \notin S}

-----------------------------------------------------------------------------
(* The egress ACL: per rule one priority, in the order of the rule ids, and *)
(* one entry per protocol and port block.  Other protocols stay on the Arm. *)

router_acl_applies(r, proto) ==
  proto \in {TCP, UDP} /\ r.proto \in {0, proto} /\ r.type < 0 /\ r.code < 0

Offloaded(rules) == {r \in rules : router_acl_applies(r, TCP) \/ router_acl_applies(r, UDP)}

acl_can_offload(rules) ==
  /\ \A r \in rules : r.proto \in {0, ICMP, TCP, UDP}
  /\ Cardinality(Offloaded(rules)) <= MaxPriorities

\* Rules that are not projected take no priority.
Priority(rules, r) == Cardinality({s \in Offloaded(rules) : s.id < r.id})

RuleEntries(rules, r, t) ==
  {[prio |-> Priority(rules, r), proto |-> t, block |-> b, peers |-> r.peers, allow |-> r.allow]
     : b \in Blocks(PortBits, r.first, IF r.first = 0 THEN 2^PortBits - 1 ELSE r.last)}

acl_build_generation(rules) ==
  UNION {RuleEntries(rules, x[1], x[2])
         : x \in {y \in Offloaded(rules) \X {TCP, UDP} : router_acl_applies(y[1], y[2])}}

\* What the policy pipe does with a TCP or UDP packet: the entry of the lowest
\* priority number decides, the default entry last; an allow goes to the Arm.
AclVerdict(entries, allow, p) ==
  LET hit == {e \in entries : e.proto = p.proto /\ p.peer \in e.peers /\ InBlock(p.port, e.block)}
      top == {e \in hit : \A d \in hit : e.prio <= d.prio}
  IN IF (top # {} /\ \A e \in top : e.allow) \/ (top = {} /\ allow) THEN "arm" ELSE "drop"

-----------------------------------------------------------------------------
(* The ingress deny prefixes of a default-deny policy.  nat is the set of   *)
(* ports the NAT policy of the interface may allocate.                      *)

MayAllow(policy, proto) ==
  {r \in policy.rules : r.allow /\ r.type < 0 /\ r.code < 0 /\ r.proto \in {0, proto}}

Excluded(policy, nat, proto) ==
  nat \union UNION {IF r.first = 0 THEN Port ELSE r.first .. r.last : r \in MayAllow(policy, proto)}

\* The ranges without the exemption of the NAT ports.
DenyRangesNoNat(policy, nat, proto) ==
  LET ranges == RangesOf(Port \ Excluded(policy, {}, proto))
  IN IF policy.allow \/ Cardinality(ranges) > MaxRanges THEN {} ELSE ranges

router_ingress_l4_deny_ranges(policy, nat, proto) ==
  LET ranges == RangesOf(Port \ Excluded(policy, nat, proto))
  IN IF policy.allow \/ Cardinality(ranges) > MaxRanges THEN {} ELSE ranges

AnyByte == [at |-> 0, size |-> 2^IcmpBits]

IcmpAllowed(policy) ==
  UNION {(IF r.type >= 0 THEN {r.type} ELSE Byte) \X (IF r.code >= 0 THEN {r.code} ELSE Byte)
         : r \in {x \in policy.rules : x.allow /\ x.first = 0 /\ x.proto \in {0, ICMP}}}

\* Whole types as prefixes over the type, the other types code by code.
router_ingress_icmp_deny_matches(policy) ==
  LET allowed == IcmpAllowed(policy)
      full    == {t \in Byte : \A c \in Byte : <<t, c>> \notin allowed}
      denied(t) == {c \in Byte : <<t, c>> \notin allowed}
      types   == UNION {{[type |-> b, code |-> AnyByte] : b \in Blocks(IcmpBits, x[1], x[2])}
                        : x \in RangesOf(full)}
      codes(t) == UNION {{[type |-> [at |-> t, size |-> 1], code |-> b]
                            : b \in Blocks(IcmpBits, x[1], x[2])} : x \in RangesOf(denied(t))}
      matches == types \union (UNION {codes(t) : t \in Byte \ full})
  IN IF policy.allow \/ Cardinality(matches) > MaxIcmp THEN {} ELSE matches

PortSpecs(ranges, proto) ==
  UNION {{[proto |-> proto, port |-> b] : b \in Blocks(PortBits, x[1], x[2])} : x \in ranges}

\* Appending starts over from nothing when the array overflows: TCP prefixes
\* that do not fit are dropped, UDP prefixes that do not fit take the TCP ones
\* with them, and ICMP prefixes that do not fit leave nothing at all.
DenySpecs(policy, nat) ==
  LET Fitting(S) == IF Cardinality(S) <= MaxSpecs THEN S ELSE {}
      tcp  == Fitting(PortSpecs(router_ingress_l4_deny_ranges(policy, nat, TCP), TCP))
      both == Fitting(tcp \union PortSpecs(router_ingress_l4_deny_ranges(policy, nat, UDP), UDP))
      icmp == {[proto |-> ICMP, type |-> m.type, code |-> m.code]
                 : m \in router_ingress_icmp_deny_matches(policy)}
  IN Fitting(both \union icmp)

SpecHits(s, p) ==
  /\ s.proto = p.proto
  /\ IF s.proto = ICMP THEN InBlock(p.type, s.type) /\ InBlock(p.code, s.code)
                       ELSE InBlock(p.port, s.port)
=============================================================================
