------------------------- MODULE RouterTransaction -------------------------
(***************************************************************************)
(* router_control_command: a validated candidate configuration is pushed   *)
(* to the switch step by step, saved, and published; a failing step starts *)
(* the rollback.  With the calls of eswitch_pipeline.c and                 *)
(* eswitch_manager.c it makes, what each leaves behind when it fails, the  *)
(* periodic route synchronisation, crashes and restarts.                   *)
(*                                                                         *)
(* A configuration is reduced to what these steps look at: the identity of *)
(* every RIF, the generation of its egress and ingress policy, and its     *)
(* hardware-safe routes.  What a command may change is RouterConfig's      *)
(* subject; sessions and pending frames are NatCt's and ArmReplay's.       *)
(***************************************************************************)
EXTENDS Naturals, FiniteSets, Sequences

CONSTANTS
  RifCount,     \* interface ids are 1..RifCount, in the order of the interface list
  Port,         \* uplink ports
  Vs,           \* vSwitches
  Hop,          \* next hops of hardware routes, with their MAC and port
  Resolvable,   \* the sets of next hops the neighbor table may hold
  Configs,      \* router configurations
  NoConfig, Broken, None,
  MaxContexts,  \* ESWITCH_MAX_SF_RETURN_CONTEXTS
  TxFaults,     \* the calls that may fail
  MaxFaults,    \* how many fail within one handler
  UndoFaults    \* how many more fail within the rollback of a command

Rif == 1..RifCount

\* A configuration: rif[r] is [at, mac, addressed] or None, acl and deny the
\* policy generations, plan the routes <<key, next hop>> of router_hw.c.
ASSUME TxAssumption ==
  /\ RifCount \in Nat /\ Port \intersect Vs = {}
  /\ \A c \in Configs :
       /\ DOMAIN c = {"rif", "acl", "deny", "plan"}
       /\ \A r \in Rif : c.rif[r] # None => /\ DOMAIN c.rif[r] = {"at", "mac", "addressed"}
                                             /\ c.rif[r].at \in Port \union Vs
       /\ \A x \in c.plan : x[2] \in Hop
       /\ \A n \in Resolvable : \A x, y \in {z \in c.plan : z[2] \in n} : x[1] = y[1] => x = y
  /\ {} \in Resolvable /\ Resolvable \subseteq SUBSET Hop
  /\ MaxContexts \in Nat /\ MaxFaults \in Nat /\ UndoFaults \in Nat

(***************************************************************************)
(* A context has its entries in the order remove_sf_return_context takes   *)
(* them out, after the policies that sf_unbind_rif removes first.          *)
(***************************************************************************)
Layer == <<"deny", "acl", "sel", "elig", "local", "ret">>
Parts(at) == IF at \in Vs THEN {"sel", "elig", "local", "ret"} ELSE {"ret"}
Unbound == [id |-> None, parts |-> {}, acl |-> None, deny |-> None]

Arm == "arm"   \* an ACL selector that sends to the Arm cores

EmptySwitch ==
  [up |-> [p \in Port |-> {}],          \* "rule": classifier, "meter": ARP meter
   rif |-> [r \in Rif |-> Unbound],
   hw |-> {},                           \* entries of the LPM pipe
   degraded |-> FALSE,                  \* hardware_routing_degraded
   backoff |-> FALSE,                   \* now < next_hw_route_retry_ns
   late |-> FALSE]                      \* hw is of an older neighbor table (not in the code)

VARIABLES
  dp,       \* what is programmed in the switch
  file,     \* the router state file
  router,   \* manager->router
  cand,     \* the candidate of the command under way
  pc,       \* the step of the command, "idle" or "down"
  done,     \* removed_detached, added_attached
  nb,       \* next hops the neighbor table resolves
  left,     \* faults the handler may still meet
  twice     \* a step of a rollback failed since the start (not in the code)

vars == <<dp, file, router, cand, pc, done, nb, left, twice>>

Plan(c) == {x \in c.plan : x[2] \in nb}

-----------------------------------------------------------------------------
(***************************************************************************)
(* A call maps the switch to a set of outcomes: the switch it leaves, its  *)
(* result, and the faults left.                                            *)
(***************************************************************************)
Ok(o, d) == {[o EXCEPT !.d = d]}
Error(o) == {[o EXCEPT !.ok = FALSE]}
Fault(o, kind, d, ok) ==
  IF kind \in TxFaults /\ o.left > 0
  THEN {[d |-> d, ok |-> ok, left |-> o.left - 1]} ELSE {}

AndThen(S, F(_)) == UNION {IF o.ok THEN F(o) ELSE {o} : o \in S}
Whatever(S, F(_)) == UNION {F([o EXCEPT !.ok = TRUE]) : o \in S}

Adrs(c) == {r \in Rif : c.rif[r] # None /\ c.rif[r].addressed}
PortsOf(c) == {c.rif[r].at : r \in {s \in Rif : c.rif[s] # None}} \intersect Port

(***************************************************************************)
(* The uplink classifier.  Losing the ARP meter is not an error of attach. *)
(***************************************************************************)
eswitch_pipeline_attach_router_port(o, p) ==
  IF "rule" \in o.d.up[p] THEN Error(o)
  ELSE Ok(o, [o.d EXCEPT !.up[p] = {"rule", "meter"}])
       \union Fault(o, "meter", [o.d EXCEPT !.up[p] = {"rule"}], TRUE)
       \union Fault(o, "attach", o.d, FALSE)

eswitch_pipeline_detach_port(o, p) ==
  Ok(o, [o.d EXCEPT !.up[p] = {}])
  \union (IF "rule" \in o.d.up[p] THEN Fault(o, "detach", o.d, FALSE) ELSE {})
  \union (IF "meter" \in o.d.up[p]
          THEN Fault(o, "unmeter", [o.d EXCEPT !.up[p] = {"meter"}], FALSE) ELSE {})

(***************************************************************************)
(* eswitch_pipeline_sf_unbind_rif with remove_sf_return_context: layer by  *)
(* layer; the context stays active until the last one is gone.             *)
(***************************************************************************)
Present(x, k) ==
  CASE Layer[k] = "deny" -> x.deny # None
    [] Layer[k] = "acl"  -> x.acl # None
    [] OTHER             -> Layer[k] \in x.parts

Stripped(x, k) ==
  [id |-> IF k = Len(Layer) THEN None ELSE x.id,
   parts |-> x.parts \ {Layer[i] : i \in 1..k},
   acl |-> IF k >= 2 THEN None ELSE x.acl,
   deny |-> IF k >= 1 THEN None ELSE x.deny]

eswitch_pipeline_sf_unbind_rif(o, r) ==
  LET x == o.d.rif[r]
      here == {k \in DOMAIN Layer : Present(x, k)}
      Kind(k) == IF \E i \in here : i < k THEN "half" ELSE "unbind"
  IN Ok(o, [o.d EXCEPT !.rif[r] = Unbound])
     \union UNION {Fault(o, Kind(k), [o.d EXCEPT !.rif[r] = Stripped(x, k - 1)], FALSE)
                   : k \in here}

(***************************************************************************)
(* bind_sf_return_context: an active context is accepted if its identity   *)
(* fits.  The eligibility entry is optional.                               *)
(***************************************************************************)
Bound(d) == {r \in Rif : d.rif[r].id # None}

bind_sf_return_context(o, c, r) ==
  LET x == o.d.rif[r]
      full == [x EXCEPT !.id = c.rif[r], !.parts = Parts(c.rif[r].at)]
      WithoutElig == [[o.d EXCEPT !.rif[r] = [full EXCEPT !.parts = @ \ {"elig"}]]
                         EXCEPT !.degraded = TRUE]
  IN IF x.id # None
     THEN IF x.id = c.rif[r] THEN {o} ELSE Error(o)
     ELSE IF Cardinality(Bound(o.d)) >= MaxContexts THEN Error(o)
     ELSE Ok(o, [o.d EXCEPT !.rif[r] = full])
          \union Fault(o, "bind", o.d, FALSE)
          \union (IF "elig" \in full.parts THEN Fault(o, "elig", WithoutElig, TRUE) ELSE {})

(***************************************************************************)
(* The policies: a generation that cannot be built falls back to the Arm   *)
(* cores, a selector that cannot be switched is an error.                  *)
(***************************************************************************)
SetAcl(o, r, g) == Ok(o, [o.d EXCEPT !.rif[r].acl = g])
SetDeny(o, r, g) == Ok(o, [o.d EXCEPT !.rif[r].deny = g])

SelectAcl(o, c, r) ==
  IF o.d.rif[r].acl = c.acl[r] THEN {o}
  ELSE SetAcl(o, r, c.acl[r])
       \union Fault(o, "build", [o.d EXCEPT !.rif[r].acl = Arm], TRUE)
       \union Fault(o, "acl", o.d, FALSE)

DropAcl(o, r) == SetAcl(o, r, None) \union Fault(o, "acl", o.d, FALSE)

DropDeny(o, r) == SetDeny(o, r, None) \union Fault(o, "deny", o.d, FALSE)

SelectDeny(o, c, r) ==
  IF o.d.rif[r].deny = c.deny[r] \/ "local" \notin o.d.rif[r].parts THEN {o}
  ELSE SetDeny(o, r, c.deny[r])
       \union Fault(o, "build", [o.d EXCEPT !.rif[r].deny = None], TRUE)
       \union Fault(o, "deny", o.d, FALSE)

(***************************************************************************)
(* The loops over the interface list: one call for each RIF of a set, in   *)
(* order, until an error.  The loop of the rollback ignores errors.        *)
(***************************************************************************)
Turn(call, o, c, r) ==
  CASE call = "attach" -> eswitch_pipeline_attach_router_port(o, c.rif[r].at)
    [] call = "unbind" -> eswitch_pipeline_sf_unbind_rif(o, r)
    [] call = "forget" -> Whatever(eswitch_pipeline_sf_unbind_rif(o, r), LAMBDA y : {y})
    [] call = "bind"   -> bind_sf_return_context(o, c, r)
    [] call = "acl"    -> SelectAcl(o, c, r)
    [] call = "noacl"  -> DropAcl(o, r)
    [] call = "deny"   -> SelectDeny(o, c, r)
    [] call = "nodeny" -> DropDeny(o, r)

ForEach(S, o, call, c) ==
  LET G[n \in 0..RifCount] ==
        IF n = 0 THEN {o}
        ELSE IF n \in S THEN AndThen(G[n - 1], LAMBDA y : Turn(call, y, c, n))
        ELSE G[n - 1]
  IN G[RifCount]

preflight_router_contexts(o, c) ==
  Cardinality(Bound(o.d) \union Adrs(c)) <= MaxContexts

\* A refusal counts as the step that failed.
Refused(o) == {[o EXCEPT !.ok = FALSE, !.left = IF @ > 0 THEN @ - 1 ELSE 0]}

eswitch_manager_router_prearm(o, c) ==
  IF ~ preflight_router_contexts(o, c) THEN Refused(o)
  ELSE ForEach(Adrs(c), o, "bind", c)

eswitch_pipeline_egress_acl_sync(o, c) ==
  AndThen(
    ForEach({r \in Adrs(c) : c.acl[r] # None}, o, "acl", c),
    LAMBDA z : ForEach({r \in Rif : z.d.rif[r].acl # None /\ c.acl[r] = None}, z, "noacl", c))

eswitch_pipeline_ingress_deny_sync(o, c) ==
  AndThen(
    ForEach({r \in Rif : o.d.rif[r].deny # None /\ c.deny[r] = None}, o, "nodeny", c),
    LAMBDA z : ForEach({r \in Adrs(c) : c.deny[r] # None}, z, "deny", c))

(***************************************************************************)
(* eswitch_pipeline_hw_routes_sync.  A route that cannot be added or       *)
(* updated is missing afterwards, one that cannot be removed stays; then   *)
(* every eligibility entry goes, and IPv4 is routed by the Arm cores.      *)
(***************************************************************************)
Keys(R) == {x[1] : x \in R}
Active(d) == {r \in Rif : d.rif[r].id # None /\ d.rif[r].id.at \in Vs}

WithElig(d, S) ==
  [d EXCEPT !.rif = [r \in Rif |-> IF r \in S THEN [d.rif[r] EXCEPT !.parts = @ \union {"elig"}]
                                   ELSE d.rif[r]]]
Ineligible(d) ==
  [d EXCEPT !.rif = [r \in Rif |-> [d.rif[r] EXCEPT !.parts = @ \ {"elig"}]]]

BrokenPlans(d, R) ==
  {R \ {x} : x \in R \ d.hw} \union {R \union {x} : x \in {y \in d.hw : y[1] \notin Keys(R)}}

eswitch_pipeline_hw_routes_sync(o, R) ==
  LET missing == {r \in Active(o.d) : "elig" \notin o.d.rif[r].parts}
  IN Ok(o, [WithElig(o.d, Active(o.d)) EXCEPT !.hw = R, !.degraded = FALSE, !.late = FALSE])
     \union (UNION {Fault(o, "route", [Ineligible(o.d) EXCEPT !.hw = H, !.degraded = TRUE,
                                                             !.late = FALSE], FALSE)
                    : H \in BrokenPlans(o.d, R)})
     \union (UNION {Fault(o, "elig", [WithElig(o.d, {r \in missing : r < s})
                                        EXCEPT !.hw = R, !.degraded = TRUE, !.late = FALSE], FALSE)
                    : s \in missing})

\* eswitch_manager_hw_routes_sync for a candidate, and for manager->router,
\* which is put off for a while after a failure.
SyncCandidate(o, R) ==
  {IF y.ok THEN [y EXCEPT !.d.backoff = FALSE] ELSE y
     : y \in eswitch_pipeline_hw_routes_sync(o, R)}

\* Mutant: only a success ends the backoff.
SyncOnlyHealthy(o, R) ==
  IF o.d.degraded THEN {o}
  ELSE {[y EXCEPT !.d.backoff = ~ y.ok] : y \in eswitch_pipeline_hw_routes_sync(o, R)}

SyncActive(o, R) ==
  IF o.d.degraded /\ o.d.backoff THEN {o}
  ELSE {[y EXCEPT !.d.backoff = ~ y.ok] : y \in eswitch_pipeline_hw_routes_sync(o, R)}

-----------------------------------------------------------------------------
(***************************************************************************)
(* The command.                                                            *)
(***************************************************************************)
Now == [d |-> dp, ok |-> TRUE, left |-> left]
Fresh == [d |-> dp, ok |-> TRUE, left |-> MaxFaults]

(***************************************************************************)
(* What the validator lets one command change.  A RIF is attached without  *)
(* an address and detached without address and policies; an address and a  *)
(* MAC change alone.  (Ids are never reused; here they are, which hides    *)
(* nothing as long as nothing is left of a detached RIF.)                  *)
(***************************************************************************)
Bare(c, r) == ~ c.rif[r].addressed /\ c.acl[r] = None /\ c.deny[r] = None

RifCommand(c, d) ==
  /\ c.acl = d.acl /\ c.deny = d.deny
  /\ \E r \in Rif :
       /\ \A s \in Rif \ {r} : c.rif[s] = d.rif[s]
       /\ LET x == c.rif[r]
              y == d.rif[r]
          IN CASE x = None -> y # None /\ Bare(d, r)
               [] y = None -> x # None /\ Bare(c, r)
               [] OTHER -> \/ y = [x EXCEPT !.mac = y.mac]
                           \/ y = [x EXCEPT !.addressed = ~ @]

PolicyCommand(c, d) ==
  \E r \in Rif : d = [c EXCEPT !.acl[r] = d.acl[r]] \/ d = [c EXCEPT !.deny[r] = d.deny[r]]

RouteCommand(c, d) == d = [c EXCEPT !.plan = d.plan]

OneCommand(c, d) == c # d /\ (RifCommand(c, d) \/ PolicyCommand(c, d) \/ RouteCommand(c, d))

RunStep(from, to, S) ==
  /\ pc = from
  /\ \E o \in S :
       /\ dp' = o.d /\ left' = o.left
       /\ pc' = IF o.ok THEN to ELSE "undo"
  /\ UNCHANGED <<file, router, cand, nb, twice>>

\* Bound: no command after a rollback that failed in turn, until a restart.
Command ==
  /\ pc = "idle" /\ ~ twice /\ pc' = "flush"
  /\ cand' \in {c \in Configs : OneCommand(router, c)}
  /\ left' = MaxFaults /\ done' = {}
  /\ UNCHANGED <<dp, file, router, nb, twice>>

\* The reply exceptions, the hardware connections and the NAT sessions.
Flush == RunStep("flush", "detach", {Now} \union Fault(Now, "flush", dp, FALSE)) /\ UNCHANGED done

\* A command moves at most one port.
Removed == PortsOf(router) \ PortsOf(cand)
Added == PortsOf(cand) \ PortsOf(router)
The(S) == CHOOSE p \in S : TRUE

Detach ==
  /\ RunStep("detach", "attach",
             IF Removed = {} THEN {Now} ELSE eswitch_pipeline_detach_port(Now, The(Removed)))
  /\ done' = IF Removed # {} /\ pc' = "attach" THEN {"detached"} ELSE {}

Attach ==
  /\ RunStep("attach", "invalidate",
             IF Added = {} THEN {Now} ELSE eswitch_pipeline_attach_router_port(Now, The(Added)))
  /\ done' = done \union IF Added # {} /\ pc' = "invalidate" THEN {"attached"} ELSE {}

invalidate_changed_rifs ==
  /\ RunStep("invalidate", "prearm",
             ForEach({r \in Rif : router.rif[r] # None /\ cand.rif[r] # router.rif[r]},
                     Now, "unbind", cand))
  /\ UNCHANGED done

Prearm == RunStep("prearm", "acl", eswitch_manager_router_prearm(Now, cand)) /\ UNCHANGED done
AclSync == RunStep("acl", "deny", eswitch_pipeline_egress_acl_sync(Now, cand)) /\ UNCHANGED done
DenySync == RunStep("deny", "hw", eswitch_pipeline_ingress_deny_sync(Now, cand)) /\ UNCHANGED done

HwPlanChanged == Plan(router) # Plan(cand)

HwSync ==
  /\ RunStep("hw", "save", IF HwPlanChanged THEN SyncCandidate(Now, Plan(cand)) ELSE {Now})
  /\ UNCHANGED done

\* The rename is the commit point.
Save ==
  /\ pc = "save"
  /\ \/ file' = cand /\ pc' = "publish" /\ UNCHANGED left
     \/ /\ "save" \in TxFaults /\ left > 0 /\ left' = left - 1
        /\ pc' = "undo" /\ UNCHANGED file
  /\ UNCHANGED <<dp, router, cand, done, nb, twice>>

\* A failing preparation after the commit is only logged.
Publish ==
  /\ pc = "publish" /\ pc' = "idle"
  /\ router' = cand
  /\ \E o \in eswitch_manager_router_prearm(Now, cand) : dp' = o.d
  /\ done' = {} /\ left' = MaxFaults
  /\ UNCHANGED <<file, cand, nb, twice>>

(***************************************************************************)
(* The rollback: every error of its own is ignored, except that the        *)
(* policies are restored only after a complete pre-arm.                    *)
(***************************************************************************)
\* Mutant: the candidate's contexts are left in place.
RollbackKeeping(o) ==
  LET armed == eswitch_manager_router_prearm(o, router)
      acls == AndThen(armed, LAMBDA y : eswitch_pipeline_egress_acl_sync(y, router))
  IN AndThen(acls, LAMBDA y : eswitch_pipeline_ingress_deny_sync(y, router))

rollback_prearmed_candidate(o) ==
  LET unbound == ForEach({r \in Rif : cand.rif[r] # None}, o, "forget", cand)
      armed == AndThen(unbound, LAMBDA y : eswitch_manager_router_prearm(y, router))
      acls == AndThen(armed, LAMBDA y : eswitch_pipeline_egress_acl_sync(y, router))
  IN AndThen(acls, LAMBDA y : eswitch_pipeline_ingress_deny_sync(y, router))

\* Mutant: the routes of the candidate stay.
UndoNoRoutes(o) == {o}

UndoRoutes(o) == IF HwPlanChanged THEN SyncActive(o, Plan(router)) ELSE {o}
UndoAttach(o) ==
  IF "attached" \in done THEN eswitch_pipeline_detach_port(o, The(Added)) ELSE {o}
UndoDetach(o) ==
  IF "detached" \in done
  THEN eswitch_pipeline_attach_router_port(o, The(Removed)) ELSE {o}

Undo ==
  /\ pc = "undo" /\ pc' = "idle"
  /\ \E o \in Whatever(Whatever(Whatever(UndoRoutes([Now EXCEPT !.left = @ + UndoFaults]),
                                         UndoAttach), UndoDetach),
                       rollback_prearmed_candidate) :
       dp' = o.d /\ twice' = (o.left < left + UndoFaults)
  /\ cand' = router /\ done' = {} /\ left' = MaxFaults
  /\ UNCHANGED <<file, router, nb>>

-----------------------------------------------------------------------------
(***************************************************************************)
(* The rest of the loop, crash and restart.                                *)
(***************************************************************************)
Maintenance ==
  /\ pc = "idle"
  /\ \E o \in SyncActive(Fresh, Plan(router)) : dp' = o.d
  /\ UNCHANGED <<file, router, cand, pc, done, nb, left, twice>>

RetryDue ==
  /\ pc = "idle" /\ dp.backoff
  /\ dp' = [dp EXCEPT !.backoff = FALSE]
  /\ UNCHANGED <<file, router, cand, pc, done, nb, left, twice>>

\* A neighbor is learned, moves or expires.  The next scan synchronises if it
\* expired, or if the ARP handler could not send the gateway's answer.
NeighborChange ==
  /\ pc = "idle" /\ nb' \in Resolvable /\ nb' # nb
  /\ \/ dp' = [dp EXCEPT !.late = TRUE]
     \/ LET plan == {x \in router.plan : x[2] \in nb'}
        IN /\ ~ (dp.degraded /\ dp.backoff)
           /\ \E o \in SyncActive(Fresh, plan) : dp' = o.d
  /\ UNCHANGED <<file, router, cand, pc, done, left, twice>>

Crash ==
  /\ pc # "down" /\ pc' = "down"
  /\ dp' = EmptySwitch /\ router' = NoConfig /\ cand' = NoConfig
  /\ done' = {} /\ nb' = {} /\ left' = MaxFaults /\ twice' = FALSE
  /\ UNCHANGED file

\* router_control_restore and the rest of eswitch_manager_init; only a route
\* synchronisation without resources is tolerated.
Restored(c) ==
  LET o == [d |-> EmptySwitch, ok |-> TRUE, left |-> MaxFaults]
      uplinks == {r \in Rif : c.rif[r] # None /\ c.rif[r].at \in Port}
      ports == ForEach(uplinks, o, "attach", c)
      armed == AndThen(ports, LAMBDA y : eswitch_manager_router_prearm(y, c))
      acls == AndThen(armed, LAMBDA y : eswitch_pipeline_egress_acl_sync(y, c))
      denies == AndThen(acls, LAMBDA y : eswitch_pipeline_ingress_deny_sync(y, c))
  IN AndThen(denies, LAMBDA y : {[z EXCEPT !.ok = z.ok \/ z.d.degraded]
                                   : z \in SyncActive(y, {})})

Restart ==
  /\ pc = "down" /\ pc' = "idle"
  /\ \E o \in Restored(file) : o.ok /\ dp' = o.d
  /\ router' = file /\ cand' = file
  /\ UNCHANGED <<file, done, nb, left, twice>>

Init ==
  /\ file \in Configs /\ router = file /\ cand = file /\ nb = {}
  /\ \E o \in Restored(file) : o.ok /\ o.left = MaxFaults /\ dp = o.d
  /\ pc = "idle" /\ done = {} /\ left = MaxFaults /\ twice = FALSE

CommandStep ==
  \/ Flush \/ Detach \/ Attach \/ invalidate_changed_rifs
  \/ Prearm \/ AclSync \/ DenySync \/ HwSync \/ Save \/ Publish \/ Undo

Next ==
  Command \/ CommandStep \/ Maintenance \/ RetryDue \/ NeighborChange \/ Crash \/ Restart

Steps == {"flush", "detach", "attach", "invalidate", "prearm", "acl", "deny",
          "hw", "save", "undo"}

\* A command runs to its end in one call, unless the daemon crashes, and the
\* service manager restarts the daemon.  (A step of Next with this effect on pc
\* is a CommandStep or Crash, and Restart.)
Proceeds ==
  /\ pc \in Steps \union {"publish"}
  /\ pc' \in (Steps \union {"publish", "idle", "down"}) \ {pc}
ComesBack == pc = "down" /\ pc' = "idle"

TransactionSpec ==
  /\ Init /\ [][Next]_vars
  /\ WF_pc(Proceeds) /\ WF_pc(ComesBack)

\* Time passes, and a synchronisation that is tried again and again succeeds
\* again and again.
LiveTransactionSpec ==
  /\ TransactionSpec
  /\ SF_vars(RetryDue) /\ SF_vars(Maintenance /\ ~ dp'.degraded)

-----------------------------------------------------------------------------
(***************************************************************************)
(* Properties                                                              *)
(***************************************************************************)
\* Type invariant of the transaction's state.
TxTypeOK ==
  /\ file \in Configs /\ router \in Configs \union {NoConfig}
  /\ pc \in Steps \union {"idle", "publish", "down"}
  /\ left \in 0..MaxFaults /\ nb \in Resolvable
  /\ \A p \in Port : dp.up[p] \subseteq {"rule", "meter"}
  /\ \A r \in Rif : dp.rif[r].parts \subseteq
       IF dp.rif[r].id = None THEN {} ELSE Parts(dp.rif[r].id.at)
  /\ Cardinality(Bound(dp)) <= MaxContexts
  /\ {dp.degraded, dp.backoff, dp.late} \subseteq BOOLEAN

\* No hardware route comes from a configuration other than c, unless hardware
\* routing is marked degraded or the next scan has yet to see a neighbor.
RoutesOf(d, c) == d.degraded \/ d.late \/ d.hw \subseteq c.plan

(***************************************************************************)
(* The switch does what c asks for, up to what the code gives up on        *)
(* purpose: the ARP meter, the eligibility entries, a policy that is left  *)
(* to the Arm cores.                                                       *)
(***************************************************************************)
Implements(d, c) ==
  /\ \A p \in Port : "rule" \in d.up[p] <=> p \in PortsOf(c)
  /\ \A r \in Rif :
       LET x == d.rif[r]
       IN IF r \in Adrs(c)
          THEN /\ x.id = c.rif[r]
               /\ Parts(x.id.at) \ {"elig"} \subseteq x.parts
               /\ x.acl \in IF c.acl[r] = None THEN {None} ELSE {c.acl[r], Arm}
               /\ x.deny \in {c.deny[r], None}
          ELSE x = Unbound
  /\ RoutesOf(d, c)

Phase ==
  CASE pc \in Steps     -> "busy"
    [] pc = "publish"   -> "committed"
    [] OTHER            -> pc

Serving ==
  IF pc = "idle" /\ ~ twice /\ ~ Implements(dp, router) THEN Broken ELSE router

Wanted == IF pc \in {"idle", "down"} THEN file ELSE cand

Promise == INSTANCE ConfigTx WITH
  Config <- Configs, store <- file, serving <- Serving, wanted <- Wanted, phase <- Phase

\* router_control_command implements the promise of ConfigTx: whichever step
\* fails, and wherever the daemon crashes, memory and state file change
\* together or not at all, and so does what the switch serves, as long as no
\* step of a rollback failed in turn.
RefinesPromise == Promise!TxSpec

\* Even if a step of the rollback fails: between commands a switch that is not
\* marked degraded holds no route of a configuration that was never committed.
RoutesCommitted == pc = "idle" => RoutesOf(dp, router)

\* Route entries that a neighbor, a failure or the backoff has left behind do
\* not stay: the scan brings the table back to the plan of the committed
\* configuration.
RoutesCatchUp ==
  (pc = "idle" /\ dp.hw # Plan(router)) ~> (pc = "down" \/ dp.hw = Plan(router))

=============================================================================
