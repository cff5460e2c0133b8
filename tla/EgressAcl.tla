----------------------------- MODULE EgressAcl ------------------------------
(***************************************************************************)
(* The egress filter of one guest interface in hardware, next to the Arm's *)
(* checker it stands in for.  A packet a guest sends to the router meets,  *)
(* in this order: the authorized flows (to the hardware route), the guard  *)
(* (router-local addresses, reply exceptions of port-forward sessions and  *)
(* other protocols go to the Arm), the policy ACL (drop, or the Arm).      *)
(*                                                                         *)
(* Packets of Reply answer port-forward sessions: the session is named by  *)
(* the packet the guest's service sends back to the client.  Every other   *)
(* packet is routed to another private interface, without NAT.             *)
(***************************************************************************)
EXTENDS AclPlan

CONSTANTS
  Packet,            \* every guest packet the properties look at
  Reply, Sent,       \* replies of port-forward sessions; packets guests send
  Place,             \* where a guest packet may come from: a port and a MAC
  Peers,             \* peers that may become addresses of the router
  InputRule,         \* rules `vr egress rule add` may be given
  MaxExceptions,     \* ESWITCH_MAX_PF_REPLY_EXCEPTIONS
  MaxAuthorized,     \* ESWITCH_MAX_EGRESS_AUTHORIZED_FLOWS
  Lease,             \* ESWITCH_EGRESS_AUTHORIZED_LEASE_NS in ticks
  EgressFaults,      \* hardware calls that may fail, one per handler
  None,              \* no session, no slot
  Unset              \* the inside location of a session nobody answered yet

ASSUME EgressAssumption ==
  /\ \A r \in InputRule : RuleOK(r)
  /\ \A p \in Packet : PacketOK(p)
  /\ Reply \union Sent \subseteq Packet /\ \A q \in Reply : q.proto \in {TCP, UDP}
  /\ {MaxExceptions, MaxAuthorized, Lease} \subseteq Nat \ {0}
  /\ EgressFaults \subseteq {"flush", "build", "gate", "select", "save", "add", "remove"}
  /\ None \notin Place /\ Unset \notin Place /\ None # Unset

VARIABLES
  conf,      \* committed configuration: the policy, the router's addresses,
             \* whether a port-forward rule exists
  sessions,  \* port-forward sessions of the NAT table: the inside location
  slot       \* struct eswitch_egress_acl of the interface, or None

egVars == <<conf, sessions, slot>>

Policy == [allow : BOOLEAN, rules : SUBSET InputRule] \union {NoPolicy}
Conf   == [policy : Policy, local : SUBSET Peers, forwards : BOOLEAN]

NoSessions == [q \in Reply |-> None]

-----------------------------------------------------------------------------
(* What the hardware does with a guest packet. *)

Authorized(s, p, at) == \E a \in s.auth : a.flow = p /\ a.at = at

HwGuest(s, p, at) ==
  CASE s = None                                 -> "arm"
    [] s # None /\ Authorized(s, p, at)         -> "route"
    [] s # None /\ ~ Authorized(s, p, at)       ->
         IF \/ s.mode = "arm" \/ p.peer \in s.local \/ p.proto \notin {TCP, UDP}
            \/ [reply |-> p, at |-> at] \in s.except
         THEN "arm" ELSE AclVerdict(s.entries, s.allow, p)

-----------------------------------------------------------------------------
(* eswitch_pipeline_egress_acl_sync: a generation is built beside the old   *)
(* one and selected last; what cannot be built falls back to the Arm, a     *)
(* failing selector is the caller's error.                                  *)

\* A fingerprint without the policy's contents, and the one of the code.
FingerprintNoPolicy(c) == <<c.local, c.forwards>>
acl_fingerprint(c) == <<c.policy, c.local, c.forwards>>

\* The generation, as [entries, allow] or as the Arm fallback without entries.
Compiled(c, f) ==
  IF acl_can_offload(c.policy.rules) /\ f # "build"
  THEN [mode |-> "acl", entries |-> acl_build_generation(c.policy.rules)]
  ELSE [mode |-> "arm", entries |-> {}]

\* A slot that takes over the authorized flows of the old generation.
SelectedKeepingFlows(c, f) ==
  [mode |-> Compiled(c, f).mode, entries |-> Compiled(c, f).entries, allow |-> c.policy.allow,
   local |-> c.local, print |-> acl_fingerprint(c), gate |-> f # "gate", except |-> {},
   auth |-> IF slot = None THEN {} ELSE slot.auth]

\* The slot once the new generation is selected: no exceptions, no flows.
Selected(c, f) ==
  [mode |-> Compiled(c, f).mode, entries |-> Compiled(c, f).entries, allow |-> c.policy.allow,
   local |-> c.local, print |-> acl_fingerprint(c), gate |-> f # "gate", except |-> {},
   auth |-> {}]

UpToDate(s, c) ==
  /\ s # None
  /\ s.print = acl_fingerprint(c)
  /\ (s.mode = "arm") = ~ acl_can_offload(c.policy.rules)

\* [slot, ok] after the synchronization with fault f.
eswitch_pipeline_egress_acl_sync(s, c, f) ==
  CASE c.policy = NoPolicy /\ s = None           -> [slot |-> s, ok |-> TRUE]
    [] c.policy # NoPolicy /\ UpToDate(s, c)     -> [slot |-> s, ok |-> TRUE]
    [] c.policy = NoPolicy /\ s # None           ->
         [slot |-> IF f = "select" THEN s ELSE None, ok |-> f # "select"]
    [] c.policy # NoPolicy /\ ~ UpToDate(s, c)   ->
         [slot |-> IF f = "select" THEN s ELSE Selected(c, f), ok |-> f # "select"]

-----------------------------------------------------------------------------
(* Router commands.  Each first flushes the exceptions and the sessions; a  *)
(* failure unbinds the interface, which destroys the slot, and synchronizes *)
(* again with the committed configuration.                                  *)

Flushed(s) == IF s = None THEN s ELSE [s EXCEPT !.except = {}]

Commit(c, f) ==
  LET done == eswitch_pipeline_egress_acl_sync(Flushed(slot), c, f)
      ok   == done.ok /\ f \notin {"flush", "save"}
  IN /\ conf' = IF ok THEN c ELSE conf
     /\ slot' = IF ok THEN done.slot
                ELSE eswitch_pipeline_egress_acl_sync(None, conf, "none").slot
     /\ sessions' = IF f = "flush" THEN sessions ELSE NoSessions

CommandFaults == (EgressFaults \intersect {"flush", "build", "gate", "select", "save"}) \union {"none"}

PolicySet == \E allow \in BOOLEAN, f \in CommandFaults :
  Commit([conf EXCEPT !.policy =
            [allow |-> allow, rules |-> IF @ = NoPolicy THEN {} ELSE @.rules]], f)

PolicyDelete == \E f \in CommandFaults :
  /\ conf.policy # NoPolicy /\ conf.policy.rules = {}
  /\ Commit([conf EXCEPT !.policy = NoPolicy], f)

RuleAdd == \E r \in InputRule, f \in CommandFaults :
  /\ conf.policy # NoPolicy
  /\ \A x \in conf.policy.rules : x.id # r.id
  /\ Commit([conf EXCEPT !.policy.rules = @ \union {r}], f)

RuleDelete == \E f \in CommandFaults :
  /\ conf.policy # NoPolicy
  /\ \E r \in conf.policy.rules : Commit([conf EXCEPT !.policy.rules = @ \ {r}], f)

\* `vr ip add` and `vr ip del` on another interface of the router.
Readdress == \E x \in Peers, f \in CommandFaults :
  Commit([conf EXCEPT !.local = IF x \in @ THEN @ \ {x} ELSE @ \union {x}], f)

ForwardChange == \E f \in CommandFaults :
  Commit([conf EXCEPT !.forwards = ~ @], f)

\* A command about something else of the router, for example a route.
OtherCommand == \E f \in CommandFaults : Commit(conf, f)

\* `vs port detach`: the same flushes, and no synchronization of the ACL.
PortDetach == \E f \in (EgressFaults \intersect {"flush"}) \union {"none"} :
  /\ slot' = Flushed(slot)
  /\ sessions' = IF f = "flush" THEN sessions ELSE NoSessions
  /\ UNCHANGED conf

-----------------------------------------------------------------------------
(* Port-forward sessions.  The exception is committed before the inbound    *)
(* packet is delivered; without it the interface falls back to the Arm.     *)

Live(e) == sessions[e.reply] # None

acl_pf_reply_fallback(s) == 
  [s EXCEPT !.mode = "arm", !.entries = {}, !.gate = FALSE, !.except = {}, !.auth = {}]

\* Stale exceptions are pruned first.  An exception of q's own tuple is still
\* q's when the new session took the table entry of the old one.  The new
\* exception matches the inside location the session has now.
eswitch_pipeline_egress_acl_pf_reply_add(q, at, same, f) ==
  LET kept  == {e \in slot.except : Live(e) \/ (same /\ e.reply = q)}
      there == \E e \in kept : e.reply = q
      full  == Cardinality(kept) >= MaxExceptions
      stuck == f = "remove" /\ kept # slot.except
  IN CASE slot = None -> [slot |-> slot, ok |-> TRUE]
       [] slot # None /\ slot.mode = "arm" -> [slot |-> slot, ok |-> TRUE]
       [] slot # None /\ slot.mode = "acl" ->
            IF ~ stuck /\ there THEN [slot |-> [slot EXCEPT !.except = kept], ok |-> TRUE]
            ELSE IF ~ stuck /\ ~ full /\ f # "add"
            THEN [slot |-> [slot EXCEPT !.except = kept \union {[reply |-> q, at |-> at]}],
                  ok |-> TRUE]
            ELSE IF ~ stuck /\ full /\ f = "select"
            THEN [slot |-> [slot EXCEPT !.except = kept], ok |-> FALSE]
            ELSE [slot |-> acl_pf_reply_fallback(slot), ok |-> TRUE]

\* An inbound packet of a port forward: the session is found or created
\* without an inside location; when the guest's side cannot be prepared the
\* session is rejected and the packet dropped.
PfInbound(q) ==
  \E f \in (EgressFaults \intersect {"add", "remove", "select"}) \union {"none"},
     same \in BOOLEAN :
    LET at  == IF sessions[q] = None THEN Unset ELSE sessions[q]
        add == eswitch_pipeline_egress_acl_pf_reply_add(q, at, same, f)
    IN /\ conf.forwards
       /\ slot' = add.slot
       /\ sessions' = [sessions EXCEPT ![q] = IF add.ok THEN at ELSE None]
       /\ UNCHANGED conf

-----------------------------------------------------------------------------
(* A guest packet that reaches the Arm.  A denied packet passes when it     *)
(* answers a port-forward session; an allowed one is authorized.            *)

Lapsed(s) == {a \in s.auth : a.left = 0}
PrunedNone(s, f) == s
Pruned(s, f) == IF f = "remove" THEN s ELSE [s EXCEPT !.auth = @ \ Lapsed(s)]

\* prune, renew or add; a full table or a failing call adds nothing.
eswitch_pipeline_egress_authorize(s, p, at, f) ==
  LET kept == Pruned(s, f)
      mine == {a \in kept.auth : a.flow = p /\ a.at = at}
  IN IF \/ ~ s.gate \/ p.proto \notin {TCP, UDP}
        \/ Lapsed(kept) # {}
     THEN s
     ELSE IF mine = {} /\ (Cardinality(kept.auth) >= MaxAuthorized \/ f = "add") THEN kept
     ELSE [kept EXCEPT !.auth = (@ \ mine) \union {[flow |-> p, at |-> at, left |-> Lease]}]

GuestPacket(p, at) ==
  \E f \in (EgressFaults \intersect {"add", "remove"}) \union {"none"} :
    LET verdict == firewall_check(conf.policy, conf.local, p)
        answers == p \in Reply /\ sessions[p] # None
    IN /\ HwGuest(slot, p, at) = "arm"
       /\ p.peer \notin conf.local
       /\ verdict # "deny" \/ answers
       /\ sessions' = IF answers THEN [sessions EXCEPT ![p] = at] ELSE sessions
       /\ slot' = IF p \notin Reply /\ verdict = "allow" /\ slot # None
                  THEN eswitch_pipeline_egress_authorize(slot, p, at, f) ELSE slot
       /\ UNCHANGED conf

-----------------------------------------------------------------------------
(* Periodic work: idle sessions end, then stale exceptions and lapsed       *)
(* authorizations are removed, each until the first failure.                *)

PruneNothing(s, left, f) == s
PrunedExceptions(s, left, f) ==
  IF f = "remove" THEN s ELSE [s EXCEPT !.except = {e \in @ : left[e.reply] # None}]

Maintain(idle, f) ==
  LET left == [q \in Reply |-> IF q \in idle THEN None ELSE sessions[q]]
  IN /\ sessions' = left
     /\ slot' = IF slot = None THEN slot ELSE Pruned(PrunedExceptions(slot, left, f), f)
     /\ UNCHANGED conf

Maintenance ==
  \E idle \in SUBSET Reply, f \in (EgressFaults \intersect {"remove"}) \union {"none"} :
    Maintain(idle, f)

Tick ==
  /\ slot # None /\ \E a \in slot.auth : a.left > 0
  /\ slot' = [slot EXCEPT !.auth =
                {[a EXCEPT !.left = IF @ = 0 THEN 0 ELSE @ - 1] : a \in @}]
  /\ UNCHANGED <<conf, sessions>>

EgressInit ==
  /\ conf = [policy |-> NoPolicy, local |-> {}, forwards |-> FALSE]
  /\ sessions = NoSessions
  /\ slot = None

EgressNext ==
  \/ PolicySet \/ PolicyDelete \/ RuleAdd \/ RuleDelete
  \/ Readdress \/ ForwardChange \/ OtherCommand \/ PortDetach
  \/ \E q \in Reply : PfInbound(q)
  \/ \E p \in Sent, at \in Place : GuestPacket(p, at)
  \/ Maintenance \/ Tick

EgressSpec == EgressInit /\ [][EgressNext]_egVars

\* Maintenance runs again and again, and its removals succeed now and then.
FairMaintenance == SF_egVars(\E idle \in SUBSET Reply : Maintain(idle, "none"))

-----------------------------------------------------------------------------
(* Type invariant: neither table of the slot outgrows its array, and no     *)
(* packet is authorized twice (authorized_flow_same).                       *)
EgressTypeOK ==
  /\ conf \in Conf
  /\ sessions \in [Reply -> Place \union {None, Unset}]
  /\ slot # None =>
       /\ slot.mode \in {"acl", "arm"}
       /\ Cardinality(slot.except) <= MaxExceptions
       /\ slot.auth \subseteq [flow : Packet \ Reply, at : Place, left : 0 .. Lease]
       /\ Cardinality(slot.auth) <= MaxAuthorized
       /\ \A a, b \in slot.auth : a.flow = b.flow /\ a.at = b.at => a = b

(* The ACL decides TCP and UDP exactly as the Arm's checker would for the   *)
(* committed configuration, whatever commands, failures and fallbacks came  *)
(* before: hardware drops nothing the checker allows, and what is offloaded *)
(* and denied is dropped unless a session exempts it.  An authorized flow   *)
(* bypasses the checker for a lease: tightening a policy revokes the flows  *)
(* it no longer allows.                                                     *)
AclIsChecker ==
  \A p \in Packet, at \in Place :
    LET hw      == HwGuest(slot, p, at)
        verdict == firewall_check(conf.policy, conf.local, p)
    IN /\ hw = "drop" => verdict = "deny"
       /\ hw = "route" => verdict # "deny"
       /\ /\ verdict = "deny" /\ p.proto \in {TCP, UDP}
          /\ slot # None /\ slot.mode = "acl" /\ [reply |-> p, at |-> at] \notin slot.except
          => hw = "drop"

(* Neither table of the slot fills up with the dead: an exception whose     *)
(* session is gone is removed in the end, and so is every authorization     *)
(* whose lease has run out, although removals of both may fail (the two     *)
(* prunes of the maintenance and of the packet handlers).                   *)
DeadEntriesGo ==
  /\ \A q \in Reply :
       (slot # None /\ (\E e \in slot.except : e.reply = q) /\ sessions[q] = None)
         ~> (slot = None \/ (\A e \in slot.except : e.reply # q) \/ sessions[q] # None)
  /\ []<>(slot = None \/ Lapsed(slot) = {})
=============================================================================
