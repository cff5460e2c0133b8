---------------------------- MODULE RouterReload ----------------------------
(***************************************************************************)
(* Restart of the daemon with a saved configuration: router_config_save    *)
(* writes the configuration as commands, and router_config_load replays    *)
(* them through the validator into an isolated candidate; the first one    *)
(* that is refused makes the load, and with it the start, fail.            *)
(*                                                                         *)
(* The save happens before the new configuration is published, in the same *)
(* handler, and replaces the file by a rename: what a restart finds, even  *)
(* after a crash in between, is a configuration RouterConfig commits.  So  *)
(* the questions are invariants over rc.                                   *)
(***************************************************************************)
EXTENDS RouterConfig, SequencesExt

CONSTANT Rejected   \* "invalid configuration (nothing loaded)"

ASSUME ReloadAssumption == Rejected \notin RcConfig

Checked(c, allowed, result) == IF c # Rejected /\ allowed THEN result ELSE Rejected

\* The interface a replayed command names by VR and name.
Named(c, s) == CHOOSE r \in c.ifs : r.id = s.rif

(***************************************************************************)
(* An "identity" line, the attachment, the MAC and the address.  The       *)
(* identity line, refused for an id in use, makes the attachment reuse it. *)
(***************************************************************************)
CanIdentify(c, s)  == \A r \in c.ifs : r.id # s.id
WithIdentity(c, s) == [c EXCEPT !.next = s.id]

ReplayAttach(c, s) ==
  IF c = Rejected THEN Rejected
  ELSE LET i == WithIdentity(c, s)
       IN Checked(i, CanIdentify(c, s) /\ CanAttach(i, s.vr, s.name, s.kind, s.at),
                  WithInterface(i, s.vr, s.name, s.kind, s.at))

Self(c, s) == CHOOSE r \in c.ifs : r.id = s.id

ReplayMac(c, s) ==
  IF c = Rejected THEN Rejected
  ELSE Checked(c, CanMacSet(c, Self(c, s), s.mac), WithMac(c, Self(c, s), s.mac))

ReplayIp(c, s) ==
  IF c = Rejected \/ s.addr = NoAddr THEN c
  ELSE Checked(c, CanIpAdd(c, Self(c, s), s.addr), WithAddress(c, Self(c, s), s.addr))

ReplayInterface(c, s) == ReplayIp(ReplayMac(ReplayAttach(c, s), s), s)

ReplayRoute(c, s) ==
  IF c = Rejected THEN Rejected
  ELSE Checked(c, CanRouteAdd(c, Named(c, s), s.dest, s.gw),
               WithRoute(c, Named(c, s), s.dest, s.gw))

ReplayNat(c, s) ==
  IF c = Rejected THEN Rejected
  ELSE Checked(c, CanNatEnable(c, Named(c, s), s.pub), WithNat(c, Named(c, s), s.pub))

ReplayForward(c, s) ==
  IF c = Rejected THEN Rejected
  ELSE Checked(c, CanForwardAdd(c, Named(c, s), s.id, s.map),
               WithForward(c, Named(c, s), s.id, s.map))

ReplayPolicy(c, s) ==
  IF c = Rejected THEN Rejected
  ELSE Checked(c, CanPolicySet(c, s.dir, Named(c, s)),
               WithPolicy(c, s.dir, Named(c, s), s.allow))

ReplayRule(c, s) ==
  IF c = Rejected THEN Rejected
  ELSE Checked(c, CanRuleAdd(c, s.dir, Named(c, s), s.id),
               WithRule(c, s.dir, Named(c, s), s.id))

Replay(kind, c, s) ==
  CASE kind = "interface" -> ReplayInterface(c, s)
    [] kind = "route"     -> ReplayRoute(c, s)
    [] kind = "nat"       -> ReplayNat(c, s)
    [] kind = "forward"   -> ReplayForward(c, s)
    [] kind = "policy"    -> ReplayPolicy(c, s)
    [] kind = "rule"      -> ReplayRule(c, s)

\* The lines of one kind, from the first entry of the array to the last.
ReplayAll(kind, q, c) ==
  LET load[n \in 0..Len(q)] == IF n = 0 THEN c ELSE Replay(kind, load[n - 1], q[n])
  IN load[Len(q)]

Of(S, dir) == {x \in S : x.dir = dir}

\* The interface array is in the order of the ids.
Interfaces(c) ==
  CHOOSE q \in [1..Cardinality(c.ifs) -> c.ifs] :
    \A i, j \in 1..Cardinality(c.ifs) : i < j => q[i].id < q[j].id

(***************************************************************************)
(* The file in the order it is written, replayed.  VRs and links come      *)
(* first and are never refused; the saved next id is restored at the end.  *)
(***************************************************************************)
ReplayFilter(c, saved, dir) ==
  LET policies == ReplayAll("policy", SetToSeq(Of(saved.policies, dir)), c)
  IN ReplayAll("rule", SetToSeq(Of(saved.rules, dir)), policies)

Replayed(saved) ==
  LET base == [EmptyConfig EXCEPT !.vrs = saved.vrs, !.links = saved.links]
      ifs  == ReplayAll("interface", Interfaces(saved), base)
      rts  == ReplayAll("route", SetToSeq(saved.routes), ifs)
      nat  == ReplayAll("nat", SetToSeq(saved.nats), rts)
      pfs  == ReplayAll("forward", SetToSeq(saved.pfs), nat)
  IN ReplayFilter(ReplayFilter(pfs, saved, "egress"), saved, "ingress")

\* Mutant: the next id is left where the replay ended.
WithNextReplayed(c, saved) == c

WithNext(c, saved) == [c EXCEPT !.next = saved.next]

\* The "next" line is in range and above every identity line.
CanNext(saved) == saved.next \in 1..(MaxId + 1) /\ \A s \in saved.ifs : s.id < saved.next

Reload(saved) ==
  LET c == Replayed(saved)
  IN IF c = Rejected \/ ~CanNext(saved) THEN Rejected ELSE WithNext(c, saved)

-----------------------------------------------------------------------------
\* The three ways a committed configuration differs from one the replay can
\* rebuild: two RIFs with one MAC, a port forward beside the NAT uplink, and
\* an ingress filter on a RIF without address.
MacsUnique == \A r, s \in rc.ifs : r.mac = s.mac => r = s

ForwardsOnUplink == \A x \in rc.pfs, n \in rc.nats : x.vr = n.vr => x.rif = n.rif

IngressAddressed ==
  \A p \in rc.policies :
    p.dir = "ingress" => \A r \in rc.ifs : r.id = p.rif => r.addr # NoAddr

\* A load that succeeds restores exactly the saved configuration: interface
\* ids, MACs, addresses, policies and the next id, nothing more or less.  A
\* configuration without those three shapes is never refused: every other
\* check of the validator holds of the final configuration and of each prefix
\* of the file, whatever order the commands were given in.
ReloadFaithful ==
  LET c == Reload(rc)
  IN c = rc \/ (c = Rejected /\ ~ (MacsUnique /\ ForwardsOnUplink /\ IngressAddressed))

\* What the documentation promises without that premise: the committed
\* configuration survives a restart of the daemon.
Reloads == Reload(rc) = rc
=============================================================================
