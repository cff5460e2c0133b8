---------------------------- MODULE IngressDeny -----------------------------
(***************************************************************************)
(* The hardware deny prefixes of one public interface on a vSwitch, next   *)
(* to the Arm's handling of the same packets: reverse NAT first, the       *)
(* ingress policy second.  The prefixes hang off the interface's entry in  *)
(* ESW_LOCAL_IP, so they exist only while the interface is addressed.      *)
(***************************************************************************)
EXTENDS AclPlan

CONSTANTS
  InPacket,        \* packets from outside to the interface's address
  InRule,          \* rules `vr ingress rule add` may be given
  NatRange,        \* port ranges `vr nat enable` may be given, as sets
  MaxInSessions,   \* bound on outbound NAT sessions
  DenyFaults       \* calls that may fail, one per command

ASSUME DenyAssumption ==
  /\ \A r \in InRule : RuleOK(r)
  /\ \A p \in InPacket : PacketOK(p)
  /\ MaxInSessions \in Nat
  /\ \A n \in NatRange : n \subseteq Port
  /\ DenyFaults \subseteq {"flush", "build", "target", "save"}

VARIABLES
  pub,    \* committed configuration: address, policy, ports of the NAT policy
  nat,    \* outbound sessions: protocol and public port (echo identifier)
  deny    \* the prefixes the interface's entry leads to; {} is the Arm

inVars == <<pub, nat, deny>>

Pub == [addressed : BOOLEAN, nat : NatRange \union {{}},
        policy : [allow : BOOLEAN, rules : SUBSET InRule] \union {NoPolicy}]

-----------------------------------------------------------------------------
(* eswitch_pipeline_ingress_deny_sync with fault f, as [deny, ok]: an equal *)
(* set is kept, a set that cannot be built is replaced by the Arm, and the  *)
(* entry is redirected only to a complete set.                              *)
eswitch_pipeline_ingress_deny_sync(d, c, f) ==
  LET specs == DenySpecs(c.policy, c.nat)
  IN IF c.policy = NoPolicy
     THEN [deny |-> IF d # {} /\ f = "target" THEN d ELSE {}, ok |-> ~ (d # {} /\ f = "target")]
     ELSE IF ~ c.addressed \/ (d # {} /\ d = specs) THEN [deny |-> d, ok |-> TRUE]
     ELSE IF f = "build" THEN [deny |-> {}, ok |-> TRUE]
     ELSE [deny |-> IF f = "target" THEN d ELSE specs, ok |-> f # "target"]

-----------------------------------------------------------------------------
(* Router commands: flush the sessions, unbind a changed interface (which   *)
(* first redirects its entry to the Arm), synchronize, save.  A failure     *)
(* unbinds and rebinds the interface with the committed configuration.      *)

InCommit(c, f) ==
  LET bound == IF c.addressed = pub.addressed THEN deny ELSE {}
      done  == eswitch_pipeline_ingress_deny_sync(bound, c, f)
      ok    == done.ok /\ f \notin {"flush", "save"}
  IN /\ pub' = IF ok THEN c ELSE pub
     /\ deny' = IF ok THEN done.deny
                ELSE eswitch_pipeline_ingress_deny_sync({}, pub, "none").deny
     /\ nat' = IF f = "flush" THEN nat ELSE {}

InFaults == DenyFaults \union {"none"}

InPolicySet == \E allow \in BOOLEAN, f \in InFaults :
  /\ pub.addressed
  /\ InCommit([pub EXCEPT !.policy =
               [allow |-> allow, rules |-> IF @ = NoPolicy THEN {} ELSE @.rules]], f)

InPolicyDelete == \E f \in InFaults :
  /\ pub.policy # NoPolicy /\ pub.policy.rules = {}
  /\ InCommit([pub EXCEPT !.policy = NoPolicy], f)

InRuleAdd == \E r \in InRule, f \in InFaults :
  /\ pub.addressed /\ pub.policy # NoPolicy
  /\ \A x \in pub.policy.rules : x.id # r.id
  /\ InCommit([pub EXCEPT !.policy.rules = @ \union {r}], f)

InRuleDelete == \E f \in InFaults :
  /\ pub.policy # NoPolicy
  /\ \E r \in pub.policy.rules : InCommit([pub EXCEPT !.policy.rules = @ \ {r}], f)

InNatEnable == \E n \in NatRange, f \in InFaults :
  /\ pub.addressed /\ pub.nat = {}
  /\ InCommit([pub EXCEPT !.nat = n], f)

InNatDisable == \E f \in InFaults : pub.nat # {} /\ InCommit([pub EXCEPT !.nat = {}], f)

InIpAdd == \E f \in InFaults : ~ pub.addressed /\ InCommit([pub EXCEPT !.addressed = TRUE], f)

InIpDel == \E f \in InFaults :
  /\ pub.addressed /\ pub.nat = {}
  /\ InCommit([pub EXCEPT !.addressed = FALSE], f)

-----------------------------------------------------------------------------
(* Outbound NAT sessions: TCP, UDP and ICMP echo share the port range. *)

NatOutbound == \E proto \in {TCP, UDP, ICMP}, port \in pub.nat :
  /\ Cardinality(nat) < MaxInSessions
  /\ nat' = nat \union {[proto |-> proto, port |-> port]}
  /\ UNCHANGED <<pub, deny>>

NatAge == \E x \in nat : nat' = nat \ {x} /\ UNCHANGED <<pub, deny>>

IngressInit ==
  /\ pub = [addressed |-> FALSE, nat |-> {}, policy |-> NoPolicy]
  /\ nat = {}
  /\ deny = {}

IngressNext ==
  \/ InPolicySet \/ InPolicyDelete \/ InRuleAdd \/ InRuleDelete
  \/ InNatEnable \/ InNatDisable \/ InIpAdd \/ InIpDel
  \/ NatOutbound \/ NatAge

IngressSpec == IngressInit /\ [][IngressNext]_inVars

-----------------------------------------------------------------------------
HwDrops(p) == \E s \in deny : SpecHits(s, p)

\* An echo reply (type 0, code 0) is matched by its identifier.
NatReply(p) ==
  /\ [proto |-> p.proto, port |-> p.port] \in nat
  /\ p.proto = ICMP => p.type = 0 /\ p.code = 0

(* Type invariant: the prefixes fit the array and exist only for an         *)
(* addressed interface with a default-deny policy.                          *)
IngressTypeOK ==
  /\ pub \in Pub
  /\ nat \subseteq [proto : {TCP, UDP, ICMP}, port : Port] /\ Cardinality(nat) <= MaxInSessions
  /\ Cardinality(deny) <= MaxSpecs
  /\ deny # {} => pub.addressed /\ pub.policy # NoPolicy /\ ~ pub.policy.allow

(* Whatever the hardware drops, the Arm's policy denies, and no TCP or UDP  *)
(* reply of a NAT session is dropped: across every rule and NAT change,     *)
(* every overflow of the arrays and every failing build.                    *)
DropsDenied ==
  \A p \in InPacket : HwDrops(p) =>
    /\ firewall_check(pub.policy, {}, p) = "deny"
    /\ p.proto # ICMP => ~ NatReply(p)
=============================================================================
