------------------------------ MODULE NatTable ------------------------------
(***************************************************************************)
(* The software NAT/PAT session table of the Arm dataplane                 *)
(* (router/router_nat.c), driven the way eswitch_manager.c drives it:      *)
(* outbound frames of route_arm_frame, public-side frames of               *)
(* route_nat_ingress_frame, the maintenance pass and the control-plane     *)
(* transaction of router_control.c.                                        *)
(*                                                                         *)
(* The table has one owner, the polling lcore: every operation runs to     *)
(* completion and is one action; NatCt composes them into whole handlers.  *)
(* Packets that fail to parse or that no session, policy or rule applies   *)
(* to change only counters and are stuttering steps.  Frame bytes and      *)
(* checksums are left out; a packet is the tuple packet_copy_and_parse     *)
(* extracts.                                                               *)
(*                                                                         *)
(* Time is kept as ages: last_seen_ns is modelled by the number of ticks   *)
(* since the session was last used, capped one tick past the longest idle  *)
(* timeout, where every comparison router_nat_age makes is already         *)
(* decided.                                                                *)
(***************************************************************************)
EXTENDS Integers

CONSTANTS
  Vr,           \* virtual router ids
  Rif,          \* router interface ids
  Ip,           \* IPv4 addresses
  Port,         \* L4 ports and ICMP identifiers
  Loc,          \* reverse-delivery identities (RIF, port and MAC of a guest)
  MaxSessions,  \* ROUTER_NAT_MAX_SESSIONS
  TcpIdle, UdpIdle, IcmpIdle,  \* ROUTER_NAT_*_IDLE_NS, in ticks
  Configs,      \* configurations router_control.c can commit
  OutPkts,      \* packets guests may send towards a public RIF
  InPkts,       \* packets that may arrive on a public RIF
  Free,         \* an unused session slot
  NoPolicy,     \* a VR without a NAT policy
  NoLoc         \* the zeroed struct router_nat_inside of a new DNAT session

UInt16 == {n \in Int : 0 <= n /\ n <= 65535}

Proto == {"tcp", "udp", "icmp"}
Slot  == 1..MaxSessions

Packet ==
  [proto : Proto, sip : Ip, sport : Port, dip : Ip, dport : Port]

Policy == [rif : Rif, addr : Ip, first : Port, last : Port]

Rule ==
  [vr : Vr, rif : Rif, proto : {"tcp", "udp"}, addr : Ip,
   first : Port, last : Port, priv : Ip, pfirst : Port]

Config == [policy : [Vr -> Policy \union {NoPolicy}], forwards : SUBSET Rule]

Timeout(proto) ==
  CASE proto = "tcp" -> TcpIdle
    [] proto = "udp" -> UdpIdle
    [] OTHER         -> IcmpIdle

Longer(a, b) == IF a >= b THEN a ELSE b
MaxAge == 1 + Longer(TcpIdle, Longer(UdpIdle, IcmpIdle))

Session ==
  [vr : Vr, proto : Proto, rif : Rif,
   iip : Ip, iport : Port, rip : Ip, rport : Port, pip : Ip, pport : Port,
   pf : BOOLEAN, loc : Loc \union {NoLoc}, hw : BOOLEAN, age : 0..MaxAge]

(***************************************************************************)
(* Whether a port-forward rule owns a public endpoint, and the private     *)
(* port it maps a public port to.                                          *)
(***************************************************************************)
Covers(r, vr, proto, ip, port) ==
  /\ r.vr = vr
  /\ r.proto = proto
  /\ r.addr = ip
  /\ r.first <= port
  /\ port <= r.last

PrivatePort(r, port) == r.pfirst + (port - r.first)

(***************************************************************************)
(* What the validator of router.c guarantees of a committed configuration: *)
(* NAT ranges start at 1024 or above and are not empty, port ranges of one *)
(* VR, protocol and public address do not overlap, and a private range is  *)
(* as long as its public range.                                            *)
(***************************************************************************)
ValidConfig(c) ==
  /\ c \in Config
  /\ \A vr \in Vr :
       c.policy[vr] # NoPolicy =>
         /\ 1024 <= c.policy[vr].first
         /\ c.policy[vr].first <= c.policy[vr].last
         /\ c.policy[vr].first .. c.policy[vr].last \subseteq Port
  /\ \A r \in c.forwards :
       /\ r.first <= r.last
       /\ \A p \in r.first .. r.last : PrivatePort(r, p) \in Port
  /\ \A r, s \in c.forwards :
       (r.vr = s.vr /\ r.proto = s.proto /\ r.addr = s.addr /\ r # s)
         => r.last < s.first \/ s.last < r.first

ASSUME ConstantsAssumption ==
  /\ MaxSessions \in Nat \ {0}
  /\ TcpIdle \in Nat /\ UdpIdle \in Nat /\ IcmpIdle \in Nat
  /\ Port \subseteq UInt16
  /\ NoPolicy \notin Policy
  /\ Free \notin Session
  /\ NoLoc \notin Loc

ASSUME InputsAssumption ==
  /\ Configs # {}
  /\ \A c \in Configs : ValidConfig(c)
  /\ OutPkts \subseteq Packet
  /\ InPkts \subseteq Packet

VARIABLES
  entries,   \* table->entries: a session or Free in every slot
  nextPort,  \* table->next_port
  cfg        \* the active router_config, port-forward copy of the table included

natVars == <<entries, nextPort, cfg>>

Used(i) == entries[i] # Free

(***************************************************************************)
(* find_outbound and find_inbound: full tuple equality within one VR.      *)
(***************************************************************************)
MatchOutbound(s, vr, p) ==
  /\ s.vr = vr
  /\ s.proto = p.proto
  /\ s.iip = p.sip
  /\ s.iport = p.sport
  /\ s.rip = p.dip
  /\ s.rport = p.dport

MatchInbound(s, vr, p) ==
  /\ s.vr = vr
  /\ s.proto = p.proto
  /\ s.pip = p.dip
  /\ s.pport = p.dport
  /\ s.rip = p.sip
  /\ s.rport = p.sport

FoundOutbound(vr, p) == \E i \in Slot : Used(i) /\ MatchOutbound(entries[i], vr, p)
FoundInbound(vr, p)  == \E i \in Slot : Used(i) /\ MatchInbound(entries[i], vr, p)

(***************************************************************************)
(* port_in_use: a public port is taken by a port-forward rule, whether or  *)
(* not the rule has sessions, or by any session of the VR and protocol,    *)
(* whatever its remote endpoint.                                           *)
(***************************************************************************)
\* Mutants: sessions are not consulted; rules are not consulted.
PortInUseRulesOnly(vr, proto, ip, port) ==
  \E r \in cfg.forwards : Covers(r, vr, proto, ip, port)

PortInUseSessionsOnly(vr, proto, ip, port) ==
  \E i \in Slot :
    /\ Used(i)
    /\ entries[i].vr = vr
    /\ entries[i].proto = proto
    /\ entries[i].pip = ip
    /\ entries[i].pport = port

PortInUse(vr, proto, ip, port) ==
  \/ \E r \in cfg.forwards : Covers(r, vr, proto, ip, port)
  \/ \E i \in Slot :
       /\ Used(i)
       /\ entries[i].vr = vr
       /\ entries[i].proto = proto
       /\ entries[i].pip = ip
       /\ entries[i].pport = port

FirstFree(i) == ~Used(i) /\ \A j \in Slot : j < i => Used(j)

(***************************************************************************)
(* The cyclic port scan of allocate_session: from next_port, clamped into  *)
(* the policy's range, once around the range.                              *)
(***************************************************************************)
RangeSize(pol) == pol.last - pol.first + 1

ScanStart(pol) ==
  IF nextPort < pol.first \/ nextPort > pol.last THEN pol.first ELSE nextPort

Candidate(pol, offset) ==
  pol.first + ((ScanStart(pol) - pol.first + offset) % RangeSize(pol))

Offsets(pol) == 0 .. (RangeSize(pol) - 1)

Allocates(vr, proto, pol, port) ==
  \E k \in Offsets(pol) :
    /\ port = Candidate(pol, k)
    /\ ~PortInUse(vr, proto, pol.addr, port)
    /\ \A m \in Offsets(pol) :
         m < k => PortInUse(vr, proto, pol.addr, Candidate(pol, m))

\* Mutant: the wrap at the end of the range is missing.
PortAfterUnwrapped(pol, port) == port + 1

PortAfter(pol, port) == IF port = pol.last THEN pol.first ELSE port + 1

SnatSession(vr, pol, p, port, loc) ==
  [vr |-> vr, proto |-> p.proto, rif |-> pol.rif,
   iip |-> p.sip, iport |-> p.sport, rip |-> p.dip, rport |-> p.dport,
   pip |-> pol.addr, pport |-> port,
   pf |-> FALSE, loc |-> loc, hw |-> FALSE, age |-> 0]

DnatSession(vr, r, p) ==
  [vr |-> vr, proto |-> p.proto, rif |-> r.rif,
   iip |-> r.priv, iport |-> PrivatePort(r, p.dport),
   rip |-> p.sip, rport |-> p.sport,
   pip |-> r.addr, pport |-> p.dport,
   pf |-> TRUE, loc |-> NoLoc, hw |-> FALSE, age |-> 0]

Refreshed(s, loc) == [s EXCEPT !.loc = loc, !.age = 0]

(***************************************************************************)
(* The RIF a frame leaves or enters by: the NAT uplink of its VR, or a RIF *)
(* that some port-forward rule uses.  An interface belongs to one VR.      *)
(***************************************************************************)
NatUplink(vr, rif) == cfg.policy[vr] # NoPolicy /\ cfg.policy[vr].rif = rif
ForwardingRif(vr, rif) == \E r \in cfg.forwards : r.vr = vr /\ r.rif = rif
PublicRif(vr, rif) == NatUplink(vr, rif) \/ ForwardingRif(vr, rif)

-----------------------------------------------------------------------------
(***************************************************************************)
(* router_nat_outbound as route_arm_frame calls it: with the VR's policy   *)
(* when the frame leaves by the NAT uplink, without one when it leaves by  *)
(* a RIF that only port-forward rules use, where only DNAT sessions are    *)
(* translated.                                                             *)
(***************************************************************************)
HitsOutbound(vr, rif, p, i) ==
  /\ PublicRif(vr, rif)
  /\ Used(i)
  /\ MatchOutbound(entries[i], vr, p)
  /\ NatUplink(vr, rif) \/ entries[i].pf

OutboundHit(vr, rif, p, loc) ==
  /\ \E i \in Slot :
       /\ HitsOutbound(vr, rif, p, i)
       /\ entries' = [entries EXCEPT ![i] = Refreshed(entries[i], loc)]
  /\ UNCHANGED <<nextPort, cfg>>

InsertsOutbound(vr, rif, p, i, port) ==
  /\ NatUplink(vr, rif)
  /\ ~FoundOutbound(vr, p)
  /\ FirstFree(i)
  /\ Allocates(vr, p.proto, cfg.policy[vr], port)

OutboundNew(vr, rif, p, loc) ==
  /\ \E i \in Slot, port \in Port :
       /\ InsertsOutbound(vr, rif, p, i, port)
       /\ entries' = [entries EXCEPT
                        ![i] = SnatSession(vr, cfg.policy[vr], p, port, loc)]
       /\ nextPort' = PortAfter(cfg.policy[vr], port)
  /\ UNCHANGED cfg

(***************************************************************************)
(* route_nat_ingress_frame.  router_nat_inbound refreshes a matching       *)
(* session before the firewall verdict, so a hit refreshes even when the   *)
(* frame is then denied or fails the RIF comparison.                       *)
(***************************************************************************)
InboundHit(vr, rif, p) ==
  /\ PublicRif(vr, rif)
  /\ \E i \in Slot :
       /\ Used(i)
       /\ MatchInbound(entries[i], vr, p)
       /\ entries' = [entries EXCEPT ![i] = Refreshed(entries[i], entries[i].loc)]
  /\ UNCHANGED <<nextPort, cfg>>

(***************************************************************************)
(* router_nat_port_forward_inbound on a reverse miss that the ingress      *)
(* firewall allows: a DNAT session whose return tuple no session owns.     *)
(* When the target does not route inwards, or the reply exception cannot   *)
(* be installed, the new session is rejected within the same handler and   *)
(* the table is as before: that outcome is a stuttering step.              *)
(***************************************************************************)
ReturnView(r, p) ==
  [proto |-> p.proto, sip |-> r.priv, sport |-> PrivatePort(r, p.dport),
   dip |-> p.sip, dport |-> p.sport]

\* Mutant: the return tuple is not looked up.
PortForwardNewUnchecked(vr, rif, p) ==
  /\ ForwardingRif(vr, rif)
  /\ ~FoundInbound(vr, p)
  /\ \E i \in Slot, r \in cfg.forwards :
       /\ r.rif = rif
       /\ Covers(r, vr, p.proto, p.dip, p.dport)
       /\ FirstFree(i)
       /\ entries' = [entries EXCEPT ![i] = DnatSession(vr, r, p)]
  /\ UNCHANGED <<nextPort, cfg>>

PortForwardNew(vr, rif, p) ==
  /\ ForwardingRif(vr, rif)
  /\ ~FoundInbound(vr, p)
  /\ \E i \in Slot, r \in cfg.forwards :
       /\ r.rif = rif
       /\ Covers(r, vr, p.proto, p.dip, p.dport)
       /\ ~FoundOutbound(vr, ReturnView(r, p))
       /\ FirstFree(i)
       /\ entries' = [entries EXCEPT ![i] = DnatSession(vr, r, p)]
  /\ UNCHANGED <<nextPort, cfg>>

(***************************************************************************)
(* router_nat_port_forward_reject of an established DNAT session, after a  *)
(* later frame of it fails to route inwards or loses its reply exception.  *)
(* A session that hardware uses is kept.                                   *)
(***************************************************************************)
PortForwardReject(vr, rif, p) ==
  /\ PublicRif(vr, rif)
  /\ \E i \in Slot :
       /\ Used(i)
       /\ MatchInbound(entries[i], vr, p)
       /\ entries[i].pf
       /\ entries[i].rif = rif
       /\ ~entries[i].hw
       /\ entries' = [entries EXCEPT ![i] = Free]
  /\ UNCHANGED <<nextPort, cfg>>

(***************************************************************************)
(* router_nat_age.                                                         *)
(***************************************************************************)
\* Mutant: hardware_active does not hold aging back.
ExpiredInHardware(s) == s.age > Timeout(s.proto)

Expired(s) == ~s.hw /\ s.age > Timeout(s.proto)

Aged(table) ==
  [i \in Slot |-> IF table[i] # Free /\ Expired(table[i]) THEN Free ELSE table[i]]

Age ==
  /\ \E i \in Slot : Used(i) /\ Expired(entries[i])
  /\ entries' = Aged(entries)
  /\ UNCHANGED <<nextPort, cfg>>

(***************************************************************************)
(* router_nat_flush with VR 0, the only argument the daemon passes.        *)
(***************************************************************************)
\* Mutant: a configuration change keeps the sessions.
FlushedNothing(table) == table

Flushed(table) ==
  [i \in Slot |-> IF table[i] # Free /\ table[i].hw THEN table[i] ELSE Free]

(***************************************************************************)
(* router_nat_session_set_hardware_active, the lifecycle hook of the CT    *)
(* offload.                                                                *)
(***************************************************************************)
InHardware(s, active) == [s EXCEPT !.hw = active]

SetHardwareActive(i, active) ==
  /\ Used(i)
  /\ entries[i].hw # active
  /\ entries' = [entries EXCEPT ![i] = InHardware(entries[i], active)]
  /\ UNCHANGED <<nextPort, cfg>>

(***************************************************************************)
(* The NAT side of router_control_command.  The sessions are flushed only  *)
(* once every hardware connection is gone; the candidate replaces the      *)
(* active configuration only if all later steps succeed, and next_port is  *)
(* never reset.  detach_port_persisted flushes the same way and keeps the  *)
(* configuration.                                                          *)
(***************************************************************************)
ControlCommit(candidate) ==
  /\ \A i \in Slot : Used(i) => ~entries[i].hw
  /\ entries' = Flushed(entries)
  /\ cfg' \in {candidate, cfg}
  /\ UNCHANGED nextPort

Older(s) == [s EXCEPT !.age = IF s.age = MaxAge THEN MaxAge ELSE s.age + 1]

Tick ==
  /\ entries' = [i \in Slot |-> IF Used(i) THEN Older(entries[i]) ELSE Free]
  /\ UNCHANGED <<nextPort, cfg>>

-----------------------------------------------------------------------------
NatInit ==
  /\ entries = [i \in Slot |-> Free]
  /\ nextPort = 0
  /\ cfg \in Configs

NatOutbound == \E vr \in Vr, rif \in Rif, p \in OutPkts, loc \in Loc :
                 OutboundHit(vr, rif, p, loc) \/ OutboundNew(vr, rif, p, loc)

NatInbound == \E vr \in Vr, rif \in Rif, p \in InPkts :
                \/ InboundHit(vr, rif, p)
                \/ PortForwardNew(vr, rif, p)
                \/ PortForwardReject(vr, rif, p)

NatNext ==
  \/ NatOutbound
  \/ NatInbound
  \/ Age
  \/ \E i \in Slot, active \in BOOLEAN : SetHardwareActive(i, active)
  \/ \E c \in Configs : ControlCommit(c)
  \/ Tick

NatSpec == NatInit /\ [][NatNext]_natVars

-----------------------------------------------------------------------------
\* Every slot holds a well-formed session or is free; next_port stays a
\* 16-bit value (allocate_session wraps it at the end of the range).
NatTypeOK ==
  /\ entries \in [Slot -> Session \union {Free}]
  /\ nextPort \in UInt16
  /\ cfg \in Configs

\* A reply names one guest: no two sessions of a VR and protocol share both
\* public endpoint and remote endpoint, so find_inbound is never ambiguous.
ReverseTupleUnique ==
  \A i, j \in Slot :
    /\ Used(i) /\ Used(j)
    /\ entries[i].vr = entries[j].vr
    /\ entries[i].proto = entries[j].proto
    /\ entries[i].pip = entries[j].pip
    /\ entries[i].pport = entries[j].pport
    /\ entries[i].rip = entries[j].rip
    /\ entries[i].rport = entries[j].rport
    => i = j

\* A guest's flow has one translation: find_outbound is never ambiguous, also
\* between SNAT sessions and DNAT sessions created from the public side.
ForwardTupleUnique ==
  \A i, j \in Slot :
    /\ Used(i) /\ Used(j)
    /\ entries[i].vr = entries[j].vr
    /\ entries[i].proto = entries[j].proto
    /\ entries[i].iip = entries[j].iip
    /\ entries[i].iport = entries[j].iport
    /\ entries[i].rip = entries[j].rip
    /\ entries[i].rport = entries[j].rport
    => i = j

\* A public port that SNAT handed out belongs to that one session, whatever
\* the remote endpoint: no other SNAT session and no DNAT session has it.
SnatPortExclusive ==
  \A i, j \in Slot :
    /\ Used(i) /\ Used(j)
    /\ ~entries[i].pf
    /\ entries[i].vr = entries[j].vr
    /\ entries[i].proto = entries[j].proto
    /\ entries[i].pip = entries[j].pip
    /\ entries[i].pport = entries[j].pport
    => i = j

\* Sessions never outlive the configuration that made them: an SNAT session
\* sits on its VR's policy, inside the port range and off every forwarded
\* port, and a DNAT session is what a configured rule says.
SessionsMatchConfig ==
  \A i \in Slot :
    Used(i) =>
      LET s == entries[i] IN
      IF s.pf
      THEN \E r \in cfg.forwards :
             /\ r.rif = s.rif
             /\ Covers(r, s.vr, s.proto, s.pip, s.pport)
             /\ s.iip = r.priv
             /\ s.iport = PrivatePort(r, s.pport)
      ELSE LET pol == cfg.policy[s.vr] IN
           /\ pol # NoPolicy
           /\ s.rif = pol.rif
           /\ s.pip = pol.addr
           /\ pol.first <= s.pport /\ s.pport <= pol.last
           /\ ~\E r \in cfg.forwards : Covers(r, s.vr, s.proto, s.pip, s.pport)

\* While hardware uses a session nothing frees it or rewrites its tuple, so
\* the public port it pins cannot be handed to another guest.
Tuple(s) == <<s.vr, s.proto, s.rif, s.iip, s.iport, s.rip, s.rport, s.pip, s.pport, s.pf>>

HardwarePinsSession ==
  [][\A i \in Slot :
       (Used(i) /\ entries[i].hw)
         => entries'[i] # Free /\ Tuple(entries'[i]) = Tuple(entries[i])]_natVars
=============================================================================
