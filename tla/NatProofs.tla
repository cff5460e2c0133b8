------------------------------ MODULE NatProofs ------------------------------
(***************************************************************************)
(* Proofs about NatTable for every number of sessions, VRs and ports and   *)
(* every set of valid configurations, and about NatCt, whose connections   *)
(* in hardware follow the table.                                           *)
(*                                                                         *)
(* NatInv is inductive.  None of its uniqueness parts is inductive alone:  *)
(* that a new DNAT session takes no public port that SNAT handed out needs *)
(* SessionsMatchConfig (no SNAT session sits on a forwarded port), which   *)
(* in turn holds across a commit only because the commit empties the table.*)
(***************************************************************************)
EXTENDS NatCt, FiniteSetTheorems, TLAPS

NatInv ==
  /\ NatTypeOK
  /\ ReverseTupleUnique
  /\ ForwardTupleUnique
  /\ SnatPortExclusive
  /\ SessionsMatchConfig

\* The longest idle timeout exists, so ages are bounded by a natural number
\* (router_nat_age compares ages with one of the three timeouts).
LEMMA MaxAgeNat == MaxAge \in Nat \ {0}
  BY ConstantsAssumption DEF MaxAge, Longer

\* Two sessions with the same Tuple agree on every field lookups compare.
LEMMA TupleFields ==
  ASSUME NEW s \in Session, NEW t \in Session, Tuple(s) = Tuple(t)
  PROVE  /\ s.vr = t.vr /\ s.proto = t.proto /\ s.rif = t.rif
         /\ s.iip = t.iip /\ s.iport = t.iport
         /\ s.rip = t.rip /\ s.rport = t.rport
         /\ s.pip = t.pip /\ s.pport = t.pport /\ s.pf = t.pf
  BY DEF Tuple

\* The parts of NatInv about tuples survive every step that keeps the
\* configuration and only frees sessions or changes fields outside the tuple:
\* refreshing, ageing, rejecting, and setting hardware_active.
LEMMA ShrinkKeepsTuples ==
  ASSUME NatInv, NatTypeOK', cfg' = cfg,
         \A i \in Slot : entries'[i] # Free =>
           entries[i] # Free /\ Tuple(entries'[i]) = Tuple(entries[i])
  PROVE  NatInv'
<1>1. \A i \in Slot : entries'[i] # Free =>
        /\ entries[i] # Free
        /\ entries'[i].vr = entries[i].vr /\ entries'[i].proto = entries[i].proto
        /\ entries'[i].rif = entries[i].rif
        /\ entries'[i].iip = entries[i].iip /\ entries'[i].iport = entries[i].iport
        /\ entries'[i].rip = entries[i].rip /\ entries'[i].rport = entries[i].rport
        /\ entries'[i].pip = entries[i].pip /\ entries'[i].pport = entries[i].pport
        /\ entries'[i].pf = entries[i].pf
  <2> TAKE i \in Slot
  <2> HAVE entries'[i] # Free
  <2>0. NatTypeOK
    BY DEF NatInv
  <2>1. entries \in [Slot -> Session \union {Free}]
    BY ONLY <2>0 DEF NatTypeOK
  <2>2. entries' \in [Slot -> Session \union {Free}]
    BY DEF NatTypeOK
  <2>3. entries[i] # Free /\ Tuple(entries'[i]) = Tuple(entries[i])
    OBVIOUS
  <2>4. entries[i] \in Session
    BY ONLY <2>1, <2>3, i \in Slot
  <2>5. entries'[i] \in Session
    BY ONLY <2>2, entries'[i] # Free, i \in Slot
  <2>6. QED BY ONLY <2>3, <2>4, <2>5, TupleFields
<1>2. ReverseTupleUnique'
  BY <1>1 DEF NatInv, ReverseTupleUnique, Used
<1>3. ForwardTupleUnique'
  BY <1>1 DEF NatInv, ForwardTupleUnique, Used
<1>4. SnatPortExclusive'
  BY <1>1 DEF NatInv, SnatPortExclusive, Used
<1>5. SessionsMatchConfig'
  BY <1>1 DEF NatInv, SessionsMatchConfig, Used, Covers, PrivatePort
<1>6. QED BY <1>2, <1>3, <1>4, <1>5 DEF NatInv

\* Writing one slot with the same tuple, or freeing it, preserves NatInv.
LEMMA RewriteSlot ==
  ASSUME NatInv, cfg' = cfg, nextPort' = nextPort,
         NEW i \in Slot, NEW s \in Session \union {Free},
         entries' = [entries EXCEPT ![i] = s],
         s # Free => entries[i] # Free /\ Tuple(s) = Tuple(entries[i])
  PROVE  NatInv'
<1>1. NatTypeOK
  BY DEF NatInv
<1>2. entries \in [Slot -> Session \union {Free}]
  BY ONLY <1>1 DEF NatTypeOK
<1>3. NatTypeOK'
  <2>1. entries' \in [Slot -> Session \union {Free}]
    BY ONLY <1>2, i \in Slot, s \in Session \union {Free},
            entries' = [entries EXCEPT ![i] = s]
  <2>2. nextPort' \in UInt16 /\ cfg' \in Configs
    BY ONLY <1>1, cfg' = cfg, nextPort' = nextPort DEF NatTypeOK
  <2>3. QED BY ONLY <2>1, <2>2 DEF NatTypeOK
<1>4. \A j \in Slot : entries'[j] # Free =>
        entries[j] # Free /\ Tuple(entries'[j]) = Tuple(entries[j])
  <2> TAKE j \in Slot
  <2> HAVE entries'[j] # Free
  <2>1. CASE j = i
    <3>1. entries'[j] = s
      BY ONLY <1>2, <2>1, i \in Slot, entries' = [entries EXCEPT ![i] = s]
    <3>2. QED BY <2>1, <3>1
  <2>2. CASE j # i
    <3>1. entries'[j] = entries[j]
      BY ONLY <1>2, <2>2, j \in Slot, entries' = [entries EXCEPT ![i] = s]
    <3>2. QED BY <3>1
  <2>3. QED BY <2>1, <2>2
<1>5. QED BY <1>3, <1>4, ShrinkKeepsTuples

\* Refreshing a session, ageing it or changing hardware_active leaves a
\* session with the same tuple.
LEMMA RefreshedSession ==
  ASSUME NEW s \in Session, NEW loc \in Loc \union {NoLoc}
  PROVE  Refreshed(s, loc) \in Session /\ Tuple(Refreshed(s, loc)) = Tuple(s)
<1>1. 0 \in 0..MaxAge
  BY MaxAgeNat
<1>2. QED BY <1>1 DEF Session, Tuple, Refreshed

\* The passing of time keeps a session's tuple and bounds its age.
LEMMA OlderSession ==
  ASSUME NEW s \in Session
  PROVE  Older(s) \in Session /\ Tuple(Older(s)) = Tuple(s)
<1>1. (IF s.age = MaxAge THEN MaxAge ELSE s.age + 1) \in 0..MaxAge
  BY MaxAgeNat DEF Session
<1>2. QED BY <1>1 DEF Session, Tuple, Older

\* Setting hardware_active keeps a session's tuple.
LEMMA HardwareSession ==
  ASSUME NEW s \in Session, NEW hw \in BOOLEAN
  PROVE  /\ InHardware(s, hw) \in Session
         /\ Tuple(InHardware(s, hw)) = Tuple(s)
  BY DEF Session, Tuple, InHardware

\* A used slot holds a session.
LEMMA UsedIsSession ==
  ASSUME NatInv, NEW i \in Slot, Used(i)
  PROVE  entries[i] \in Session
<1>1. NatTypeOK
  BY DEF NatInv
<1>2. entries \in [Slot -> Session \union {Free}]
  BY ONLY <1>1 DEF NatTypeOK
<1>3. QED BY ONLY <1>2, Used(i), i \in Slot DEF Used

\* A translated outbound packet refreshes its session (router_nat_outbound).
LEMMA OutboundHitStep ==
  ASSUME NatInv, NEW vr \in Vr, NEW rif \in Rif, NEW p \in OutPkts, NEW loc \in Loc,
         OutboundHit(vr, rif, p, loc)
  PROVE  NatInv'
<1>1. PICK i \in Slot :
        /\ Used(i)
        /\ entries' = [entries EXCEPT ![i] = Refreshed(entries[i], loc)]
  BY DEF OutboundHit, HitsOutbound
<1>2. cfg' = cfg /\ nextPort' = nextPort
  BY DEF OutboundHit, HitsOutbound
<1>3. entries[i] \in Session
  BY <1>1, UsedIsSession
<1>4. /\ Refreshed(entries[i], loc) \in Session
      /\ Tuple(Refreshed(entries[i], loc)) = Tuple(entries[i])
  BY ONLY <1>3, loc \in Loc, RefreshedSession
<1>5. QED BY <1>1, <1>2, <1>4, RewriteSlot DEF Used

\* A reply refreshes its session (router_nat_inbound).
LEMMA InboundHitStep ==
  ASSUME NatInv, NEW vr \in Vr, NEW rif \in Rif, NEW p \in InPkts,
         InboundHit(vr, rif, p)
  PROVE  NatInv'
<1>1. PICK i \in Slot :
        /\ Used(i)
        /\ entries' = [entries EXCEPT ![i] = Refreshed(entries[i], entries[i].loc)]
  BY DEF InboundHit
<1>2. cfg' = cfg /\ nextPort' = nextPort
  BY DEF InboundHit
<1>3. entries[i] \in Session
  BY <1>1, UsedIsSession
<1>4. entries[i].loc \in Loc \union {NoLoc}
  BY <1>3 DEF Session
<1>5. /\ Refreshed(entries[i], entries[i].loc) \in Session
      /\ Tuple(Refreshed(entries[i], entries[i].loc)) = Tuple(entries[i])
  BY ONLY <1>3, <1>4, RefreshedSession
<1>6. QED BY <1>1, <1>2, <1>5, RewriteSlot DEF Used

\* Rejecting a DNAT session frees one slot (router_nat_port_forward_reject).
LEMMA RejectStep ==
  ASSUME NatInv, NEW vr \in Vr, NEW rif \in Rif, NEW p \in InPkts,
         PortForwardReject(vr, rif, p)
  PROVE  NatInv'
<1>1. PICK i \in Slot : entries' = [entries EXCEPT ![i] = Free]
  BY DEF PortForwardReject
<1>2. cfg' = cfg /\ nextPort' = nextPort
  BY DEF PortForwardReject
<1>3. QED BY <1>1, <1>2, RewriteSlot

\* The lifecycle hook of the CT offload changes one flag.
LEMMA HardwareStep ==
  ASSUME NatInv, NEW i \in Slot, NEW hw \in BOOLEAN, SetHardwareActive(i, hw)
  PROVE  NatInv'
<1>1. /\ Used(i)
      /\ entries' = [entries EXCEPT ![i] = InHardware(entries[i], hw)]
      /\ cfg' = cfg /\ nextPort' = nextPort
  BY DEF SetHardwareActive
<1>2. entries[i] \in Session
  BY <1>1, UsedIsSession
<1>3. /\ InHardware(entries[i], hw) \in Session
      /\ Tuple(InHardware(entries[i], hw)) = Tuple(entries[i])
  BY ONLY <1>2, hw \in BOOLEAN, HardwareSession
<1>4. QED BY <1>1, <1>3, RewriteSlot DEF Used

\* router_nat_age only frees sessions.
LEMMA AgeStep ==
  ASSUME NatInv, Age
  PROVE  NatInv'
<1>1. NatTypeOK
  BY DEF NatInv
<1>2. entries \in [Slot -> Session \union {Free}]
  BY ONLY <1>1 DEF NatTypeOK
<1>3. entries' = Aged(entries) /\ cfg' = cfg /\ nextPort' = nextPort
  BY DEF Age
<1>4. \A i \in Slot : entries'[i] = Free \/ entries'[i] = entries[i]
  BY ONLY <1>3 DEF Aged
<1>5. entries' \in [Slot -> Session \union {Free}]
  BY ONLY <1>2, <1>3 DEF Aged
<1>6. NatTypeOK'
  BY ONLY <1>1, <1>3, <1>5 DEF NatTypeOK
<1>7. \A i \in Slot : entries'[i] # Free =>
        entries[i] # Free /\ Tuple(entries'[i]) = Tuple(entries[i])
  BY ONLY <1>4
<1>8. QED BY <1>3, <1>6, <1>7, ShrinkKeepsTuples

\* Time passes.
LEMMA TickStep ==
  ASSUME NatInv, Tick
  PROVE  NatInv'
<1>1. NatTypeOK
  BY DEF NatInv
<1>2. /\ entries' = [i \in Slot |-> IF Used(i) THEN Older(entries[i]) ELSE Free]
      /\ cfg' = cfg /\ nextPort' = nextPort
  BY DEF Tick
<1>3. \A i \in Slot : Used(i) =>
        Older(entries[i]) \in Session /\ Tuple(Older(entries[i])) = Tuple(entries[i])
  BY UsedIsSession, OlderSession
<1>4. entries' \in [Slot -> Session \union {Free}]
  BY ONLY <1>2, <1>3
<1>5. NatTypeOK'
  BY ONLY <1>1, <1>2, <1>4 DEF NatTypeOK
<1>6. \A i \in Slot : entries'[i] # Free =>
        entries[i] # Free /\ Tuple(entries'[i]) = Tuple(entries[i])
  BY ONLY <1>2, <1>3 DEF Used
<1>7. QED BY <1>2, <1>5, <1>6, ShrinkKeepsTuples

\* An empty table satisfies every part of NatInv, whatever the configuration.
LEMMA EmptyTable ==
  ASSUME NatInv, entries' = [i \in Slot |-> Free], nextPort' = nextPort, cfg' \in Configs
  PROVE  NatInv'
<1>1. NatTypeOK
  BY DEF NatInv
<1>2. \A i \in Slot : entries'[i] = Free
  OBVIOUS
<1>3. entries' \in [Slot -> Session \union {Free}]
  OBVIOUS
<1>4. NatTypeOK'
  BY ONLY <1>1, <1>3, cfg' \in Configs, nextPort' = nextPort DEF NatTypeOK
<1>5. ReverseTupleUnique' /\ ForwardTupleUnique' /\ SnatPortExclusive'
      /\ SessionsMatchConfig'
  BY <1>2 DEF ReverseTupleUnique, ForwardTupleUnique, SnatPortExclusive,
              SessionsMatchConfig, Used
<1>6. QED BY ONLY <1>4, <1>5 DEF NatInv

\* A commit may therefore replace the configuration: by then every hardware
\* connection is gone and router_nat_flush has emptied the table.
LEMMA CommitStep ==
  ASSUME NatInv, NEW c \in Configs, ControlCommit(c)
  PROVE  NatInv'
<1>1. entries' = [i \in Slot |-> Free]
  BY DEF ControlCommit, Flushed, Used
<1>2. cfg' \in Configs /\ nextPort' = nextPort
  BY DEF ControlCommit, NatInv, NatTypeOK
<1>3. QED BY <1>1, <1>2, EmptyTable

\* Whether two sessions would answer the same lookup, or share a public port.
SameReverse(s, t) ==
  /\ s.vr = t.vr /\ s.proto = t.proto /\ s.pip = t.pip /\ s.pport = t.pport
  /\ s.rip = t.rip /\ s.rport = t.rport

SameForward(s, t) ==
  /\ s.vr = t.vr /\ s.proto = t.proto /\ s.iip = t.iip /\ s.iport = t.iport
  /\ s.rip = t.rip /\ s.rport = t.rport

SamePublicPort(s, t) ==
  s.vr = t.vr /\ s.proto = t.proto /\ s.pip = t.pip /\ s.pport = t.pport

\* What SessionsMatchConfig asks of one session.
Matches(s) ==
  IF s.pf
  THEN \E r \in cfg.forwards :
         /\ r.rif = s.rif
         /\ Covers(r, s.vr, s.proto, s.pip, s.pport)
         /\ s.iip = r.priv
         /\ s.iport = PrivatePort(r, s.pport)
  ELSE /\ cfg.policy[s.vr] # NoPolicy
       /\ s.rif = cfg.policy[s.vr].rif
       /\ s.pip = cfg.policy[s.vr].addr
       /\ cfg.policy[s.vr].first <= s.pport /\ s.pport <= cfg.policy[s.vr].last
       /\ ~\E r \in cfg.forwards : Covers(r, s.vr, s.proto, s.pip, s.pport)

\* Filling a free slot with a session that conflicts with none preserves
\* NatInv: the obligation of the two insertion paths.  The same handler may
\* also change fields outside the tuples (the promotion of NatCt does).
LEMMA InsertSession ==
  ASSUME NatInv, cfg' = cfg, nextPort' \in UInt16,
         NEW i \in Slot, NEW s \in Session, entries[i] = Free,
         entries' \in [Slot -> Session \union {Free}],
         \A j \in Slot : entries'[j] # Free =>
           IF j = i THEN Tuple(entries'[j]) = Tuple(s)
           ELSE entries[j] # Free /\ Tuple(entries'[j]) = Tuple(entries[j]),
         \A j \in Slot : Used(j) =>
           /\ ~SameReverse(s, entries[j])
           /\ ~SameForward(s, entries[j])
           /\ ~(SamePublicPort(s, entries[j]) /\ (~s.pf \/ ~entries[j].pf)),
         Matches(s)
  PROVE  NatInv'
<1>1. NatTypeOK
  BY DEF NatInv
<1>2. entries \in [Slot -> Session \union {Free}]
  BY ONLY <1>1 DEF NatTypeOK
<1>4. NatTypeOK'
  BY ONLY <1>1, entries' \in [Slot -> Session \union {Free}], cfg' = cfg,
          nextPort' \in UInt16 DEF NatTypeOK
<1> DEFINE was(j) == IF j = i THEN s ELSE entries[j]
<1>5. \A j \in Slot : entries'[j] # Free =>
        /\ j # i => Used(j)
        /\ entries'[j].vr = was(j).vr /\ entries'[j].proto = was(j).proto
        /\ entries'[j].rif = was(j).rif
        /\ entries'[j].iip = was(j).iip /\ entries'[j].iport = was(j).iport
        /\ entries'[j].rip = was(j).rip /\ entries'[j].rport = was(j).rport
        /\ entries'[j].pip = was(j).pip /\ entries'[j].pport = was(j).pport
        /\ entries'[j].pf = was(j).pf
  <2> TAKE j \in Slot
  <2> HAVE entries'[j] # Free
  <2>1. entries'[j] \in Session
    BY ONLY entries' \in [Slot -> Session \union {Free}], entries'[j] # Free, j \in Slot
  <2>2. (j # i => Used(j)) /\ Tuple(entries'[j]) = Tuple(was(j))
    BY DEF Used
  <2>3. was(j) \in Session
    BY ONLY <1>2, <2>2, s \in Session, j \in Slot DEF Used
  <2> HIDE DEF was
  <2>4. QED BY ONLY <2>1, <2>2, <2>3, TupleFields
<1>6. ReverseTupleUnique'
  BY <1>5 DEF NatInv, ReverseTupleUnique, SameReverse, Used
<1>7. ForwardTupleUnique'
  BY <1>5 DEF NatInv, ForwardTupleUnique, SameForward, Used
<1>8. SnatPortExclusive'
  BY <1>5 DEF NatInv, SnatPortExclusive, SamePublicPort, Used
<1>9. SessionsMatchConfig'
  BY <1>5 DEF NatInv, SessionsMatchConfig, Matches, Used, Covers, PrivatePort
<1>10. QED BY ONLY <1>4, <1>6, <1>7, <1>8, <1>9 DEF NatInv

\* The table that has only slot i written satisfies InsertSession's condition.
LEMMA WrittenSlot ==
  ASSUME NatInv, NEW i \in Slot, NEW s \in Session,
         entries' = [entries EXCEPT ![i] = s]
  PROVE  /\ entries' \in [Slot -> Session \union {Free}]
         /\ \A j \in Slot : entries'[j] # Free =>
              IF j = i THEN Tuple(entries'[j]) = Tuple(s)
              ELSE entries[j] # Free /\ Tuple(entries'[j]) = Tuple(entries[j])
<1>1. entries \in [Slot -> Session \union {Free}]
  BY DEF NatInv, NatTypeOK
<1>2. entries'[i] = s /\ \A j \in Slot : j # i => entries'[j] = entries[j]
  BY ONLY <1>1, i \in Slot, entries' = [entries EXCEPT ![i] = s]
<1>3. entries' \in [Slot -> Session \union {Free}]
  BY ONLY <1>1, i \in Slot, s \in Session, entries' = [entries EXCEPT ![i] = s]
<1>4. QED BY ONLY <1>2, <1>3

\* The cyclic scan of allocate_session never leaves the policy's range, and
\* next_port never leaves 16 bits.
LEMMA CandidateInRange ==
  ASSUME NEW pol \in Policy, pol.first <= pol.last, nextPort \in UInt16,
         NEW k \in Offsets(pol)
  PROVE  pol.first <= Candidate(pol, k) /\ Candidate(pol, k) <= pol.last
<1>1. pol.first \in UInt16 /\ pol.last \in UInt16
  BY ConstantsAssumption DEF Policy
<1>2. pol.first \in Int /\ pol.last \in Int /\ nextPort \in Int
  BY ONLY <1>1, nextPort \in UInt16 DEF UInt16
<1>3. ScanStart(pol) \in Int /\ ScanStart(pol) >= pol.first
  BY ONLY <1>2 DEF ScanStart
<1>4. RangeSize(pol) \in Int /\ RangeSize(pol) > 0 /\ k \in Int
  BY ONLY <1>2, pol.first <= pol.last, k \in Offsets(pol) DEF RangeSize, Offsets
<1> DEFINE d == ScanStart(pol) - pol.first + k
<1>5. d \in Int
  BY ONLY <1>2, <1>3, <1>4
<1>6. 0 <= d % RangeSize(pol) /\ d % RangeSize(pol) < RangeSize(pol)
      /\ d % RangeSize(pol) \in Int
  BY ONLY <1>4, <1>5, SMT
<1>7. QED BY ONLY <1>2, <1>6 DEF Candidate, RangeSize

\* next_port wraps at the end of the range, so it stays 16 bits wide.
LEMMA PortAfterInRange ==
  ASSUME NEW pol \in Policy, NEW port \in Port, port <= pol.last
  PROVE  PortAfter(pol, port) \in UInt16
<1>1. pol.first \in UInt16 /\ pol.last \in UInt16 /\ port \in UInt16
  BY ConstantsAssumption DEF Policy
<1>2. QED BY ONLY <1>1, port <= pol.last DEF PortAfter, UInt16

\* allocate_session picks a public port no session and no rule holds, so the
\* new SNAT session is well formed and conflicts with none.
LEMMA NewSnatSession ==
  ASSUME NatInv, NEW vr \in Vr, NEW rif \in Rif, NEW p \in OutPkts, NEW loc \in Loc,
         NEW i \in Slot, NEW port \in Port, InsertsOutbound(vr, rif, p, i, port),
         NEW s, s = SnatSession(vr, cfg.policy[vr], p, port, loc)
  PROVE  /\ s \in Session /\ entries[i] = Free
         /\ PortAfter(cfg.policy[vr], port) \in UInt16
         /\ \A j \in Slot : Used(j) =>
              /\ ~SameReverse(s, entries[j])
              /\ ~SameForward(s, entries[j])
              /\ ~(SamePublicPort(s, entries[j]) /\ (~s.pf \/ ~entries[j].pf))
         /\ Matches(s)
<1> DEFINE pol == cfg.policy[vr]
<1>1. NatTypeOK
  BY DEF NatInv
<1>2. ValidConfig(cfg) /\ nextPort \in UInt16
  BY ONLY <1>1, InputsAssumption DEF NatTypeOK
<1>3. pol # NoPolicy /\ ~FoundOutbound(vr, p)
  BY DEF InsertsOutbound, NatUplink
<1>4. pol \in Policy /\ pol.first <= pol.last
  BY ONLY <1>2, <1>3, vr \in Vr DEF ValidConfig, Config
<1>5. FirstFree(i) /\ Allocates(vr, p.proto, pol, port)
  BY DEF InsertsOutbound
<1>6. PICK k \in Offsets(pol) :
        port = Candidate(pol, k) /\ ~PortInUse(vr, p.proto, pol.addr, port)
  BY <1>5 DEF Allocates
<1>7. pol.first <= port /\ port <= pol.last
  BY ONLY <1>2, <1>4, <1>6, CandidateInRange
<1>8. PortAfter(pol, port) \in UInt16
  BY ONLY <1>4, port \in Port, <1>7, PortAfterInRange
<1>9. p \in Packet
  BY InputsAssumption
<1>10. 0 \in 0..MaxAge
  BY MaxAgeNat
<1>11. s \in Session
  BY ONLY <1>4, <1>9, <1>10, vr \in Vr, port \in Port, loc \in Loc,
          s = SnatSession(vr, cfg.policy[vr], p, port, loc)
     DEF Session, SnatSession, Policy, Packet
<1>12. /\ s.vr = vr /\ s.proto = p.proto /\ s.rif = pol.rif
       /\ s.iip = p.sip /\ s.iport = p.sport /\ s.rip = p.dip /\ s.rport = p.dport
       /\ s.pip = pol.addr /\ s.pport = port /\ s.pf = FALSE
  BY ONLY s = SnatSession(vr, cfg.policy[vr], p, port, loc) DEF SnatSession
<1>13. \A j \in Slot : Used(j) => ~SamePublicPort(s, entries[j])
  BY ONLY <1>6, <1>12 DEF PortInUse, SamePublicPort
<1>14. \A j \in Slot : Used(j) => ~SameForward(s, entries[j])
  BY ONLY <1>3, <1>12 DEF FoundOutbound, MatchOutbound, SameForward
<1>15. \A j \in Slot : Used(j) => ~SameReverse(s, entries[j])
  BY ONLY <1>13 DEF SameReverse, SamePublicPort
<1>16. Matches(s)
  BY ONLY <1>3, <1>6, <1>7, <1>12 DEF Matches, PortInUse
<1>17. entries[i] = Free
  BY ONLY <1>5 DEF FirstFree, Used
<1>18. QED BY ONLY <1>8, <1>11, <1>13, <1>14, <1>15, <1>16, <1>17

\* router_nat_outbound of a flow without a session.
LEMMA OutboundNewStep ==
  ASSUME NatInv, NEW vr \in Vr, NEW rif \in Rif, NEW p \in OutPkts, NEW loc \in Loc,
         OutboundNew(vr, rif, p, loc)
  PROVE  NatInv'
<1>1. PICK i \in Slot, port \in Port :
        /\ InsertsOutbound(vr, rif, p, i, port)
        /\ entries' = [entries EXCEPT ![i] = SnatSession(vr, cfg.policy[vr], p, port, loc)]
        /\ nextPort' = PortAfter(cfg.policy[vr], port)
  BY DEF OutboundNew
<1>2. cfg' = cfg
  BY DEF OutboundNew
<1> DEFINE s == SnatSession(vr, cfg.policy[vr], p, port, loc)
<1>3. entries' = [entries EXCEPT ![i] = s]
  BY <1>1
<1> HIDE DEF s
<1>4. /\ s \in Session /\ entries[i] = Free
      /\ PortAfter(cfg.policy[vr], port) \in UInt16
      /\ \A j \in Slot : Used(j) =>
           /\ ~SameReverse(s, entries[j])
           /\ ~SameForward(s, entries[j])
           /\ ~(SamePublicPort(s, entries[j]) /\ (~s.pf \/ ~entries[j].pf))
      /\ Matches(s)
  BY <1>1, NewSnatSession DEF s
<1>5. QED BY <1>1, <1>2, <1>3, <1>4, WrittenSlot, InsertSession

\* A new DNAT session conflicts with no DNAT session because both lookups
\* missed, and with no SNAT session because none sits on a forwarded port.
LEMMA PortForwardNewStep ==
  ASSUME NatInv, NEW vr \in Vr, NEW rif \in Rif, NEW p \in InPkts,
         PortForwardNew(vr, rif, p)
  PROVE  NatInv'
<1>1. NatTypeOK /\ SessionsMatchConfig
  BY DEF NatInv
<1>2. ValidConfig(cfg) /\ nextPort \in UInt16
  BY ONLY <1>1, InputsAssumption DEF NatTypeOK
<1>3. ~FoundInbound(vr, p) /\ cfg' = cfg /\ nextPort' = nextPort
  BY DEF PortForwardNew
<1>4. PICK i \in Slot, r \in cfg.forwards :
        /\ Covers(r, vr, p.proto, p.dip, p.dport)
        /\ ~FoundOutbound(vr, ReturnView(r, p))
        /\ FirstFree(i)
        /\ entries' = [entries EXCEPT ![i] = DnatSession(vr, r, p)]
  BY DEF PortForwardNew
<1>5. p \in Packet
  BY InputsAssumption
<1>6. r \in Rule
  BY ONLY <1>2, r \in cfg.forwards DEF ValidConfig, Config
<1>7. p.dport \in UInt16 /\ r.first \in UInt16 /\ r.last \in UInt16
  BY ONLY <1>5, <1>6, ConstantsAssumption DEF Packet, Rule
<1>8. PrivatePort(r, p.dport) \in Port
  <2>1. p.dport \in r.first .. r.last
    BY ONLY <1>4, <1>7 DEF Covers, UInt16
  <2>2. \A q \in r.first .. r.last : PrivatePort(r, q) \in Port
    BY ONLY <1>2, r \in cfg.forwards DEF ValidConfig
  <2>3. QED BY ONLY <2>1, <2>2
<1> DEFINE s == DnatSession(vr, r, p)
<1>9. 0 \in 0..MaxAge
  BY MaxAgeNat
<1>10. s \in Session
  BY ONLY <1>5, <1>6, <1>8, <1>9, vr \in Vr DEF Session, DnatSession, Rule, Packet
<1>11. /\ s.vr = vr /\ s.proto = p.proto /\ s.rif = r.rif
       /\ s.iip = r.priv /\ s.iport = PrivatePort(r, p.dport)
       /\ s.rip = p.sip /\ s.rport = p.sport
       /\ s.pip = r.addr /\ s.pport = p.dport /\ s.pf = TRUE
  BY ONLY DEF DnatSession
<1>12. entries' = [entries EXCEPT ![i] = s]
  BY ONLY <1>4
<1> HIDE DEF s
<1>13. r.addr = p.dip
  BY ONLY <1>4 DEF Covers
<1>14. \A j \in Slot : Used(j) => ~SameReverse(s, entries[j])
  BY ONLY <1>3, <1>11, <1>13 DEF FoundInbound, MatchInbound, SameReverse
<1>15. \A j \in Slot : Used(j) => ~SameForward(s, entries[j])
  <2>1. \A j \in Slot : Used(j) => ~MatchOutbound(entries[j], vr, ReturnView(r, p))
    BY ONLY <1>4 DEF FoundOutbound
  <2>2. QED BY ONLY <2>1, <1>11 DEF MatchOutbound, SameForward, ReturnView
<1>16. \A j \in Slot : Used(j) => ~(SamePublicPort(s, entries[j]) /\ ~entries[j].pf)
  BY ONLY <1>1, <1>4, <1>11, <1>13 DEF SessionsMatchConfig, SamePublicPort, Covers
<1>17. Matches(s)
  BY ONLY <1>4, <1>11, <1>13 DEF Matches, Covers
<1>18. entries[i] = Free
  BY ONLY <1>4 DEF FirstFree, Used
<1>19. QED
  BY <1>2, <1>3, <1>10, <1>11, <1>12, <1>14, <1>15, <1>16, <1>17, <1>18,
     WrittenSlot, InsertSession

-----------------------------------------------------------------------------
\* Every step of the table, and every stuttering step, preserves NatInv.
LEMMA NatInvStep ==
  ASSUME NatInv, [NatNext]_natVars
  PROVE  NatInv'
<1>1. CASE NatOutbound
  BY <1>1, OutboundHitStep, OutboundNewStep DEF NatOutbound
<1>2. CASE NatInbound
  BY <1>2, InboundHitStep, PortForwardNewStep, RejectStep DEF NatInbound
<1>3. CASE Age
  BY <1>3, AgeStep
<1>4. CASE \E i \in Slot, hw \in BOOLEAN : SetHardwareActive(i, hw)
  BY <1>4, HardwareStep
<1>5. CASE \E c \in Configs : ControlCommit(c)
  BY <1>5, CommitStep
<1>6. CASE Tick
  BY <1>6, TickStep
<1>7. CASE UNCHANGED natVars
  <2>1. entries' = entries /\ nextPort' = nextPort /\ cfg' = cfg
    BY <1>7 DEF natVars
  <2>2. NatTypeOK
    BY DEF NatInv
  <2>3. NatTypeOK'
    BY ONLY <2>1, <2>2 DEF NatTypeOK
  <2>4. QED BY <2>1, <2>3, ShrinkKeepsTuples
<1>8. QED BY <1>1, <1>2, <1>3, <1>4, <1>5, <1>6, <1>7 DEF NatNext

\* The empty table satisfies NatInv.
LEMMA NatInvInit ==
  ASSUME NatInit
  PROVE  NatInv
<1>1. \A i \in Slot : entries[i] = Free
  BY DEF NatInit
<1>2. entries \in [Slot -> Session \union {Free}] /\ nextPort \in UInt16 /\ cfg \in Configs
  BY DEF NatInit, UInt16
<1>3. QED
  BY <1>1, <1>2 DEF NatInv, NatTypeOK, ReverseTupleUnique, ForwardTupleUnique,
                    SnatPortExclusive, SessionsMatchConfig, Used

\* The inductive invariant of the NAT table holds in every reachable state.
THEOREM NatInvariant == NatSpec => []NatInv
<1>1. NatInit => NatInv
  BY NatInvInit
<1>2. NatInv /\ [NatNext]_natVars => NatInv'
  BY NatInvStep
<1>3. QED BY <1>1, <1>2, PTL DEF NatSpec

\* The table of router_nat.c stays well formed and next_port stays 16 bits wide.
THEOREM NatTypes == NatSpec => []NatTypeOK
<1>1. NatInv => NatTypeOK
  BY DEF NatInv
<1>2. QED BY <1>1, NatInvariant, PTL

\* A reply finds at most one session: find_inbound is never ambiguous.
THEOREM RepliesUnambiguous == NatSpec => []ReverseTupleUnique
<1>1. NatInv => ReverseTupleUnique
  BY DEF NatInv
<1>2. QED BY <1>1, NatInvariant, PTL

\* A guest's packet finds at most one session: find_outbound is never
\* ambiguous.
THEOREM TranslationsUnambiguous == NatSpec => []ForwardTupleUnique
<1>1. NatInv => ForwardTupleUnique
  BY DEF NatInv
<1>2. QED BY <1>1, NatInvariant, PTL

\* A public port that allocate_session handed out has one owner.
THEOREM PublicPortsExclusive == NatSpec => []SnatPortExclusive
<1>1. NatInv => SnatPortExclusive
  BY DEF NatInv
<1>2. QED BY <1>1, NatInvariant, PTL

\* No session survives the configuration that made it (router_control_command
\* flushes before it publishes).
THEOREM SessionsFollowConfig == NatSpec => []SessionsMatchConfig
<1>1. NatInv => SessionsMatchConfig
  BY DEF NatInv
<1>2. QED BY <1>1, NatInvariant, PTL

-----------------------------------------------------------------------------
\* What HardwarePinsSession says of one step.
Pinned(i) ==
  Used(i) /\ entries[i].hw
    => entries'[i] # Free /\ Tuple(entries'[i]) = Tuple(entries[i])

\* A step that writes only slot i, with the tuple it had, pins every session.
LEMMA RewritePins ==
  ASSUME NatInv, NEW i \in Slot, NEW s,
         entries' = [entries EXCEPT ![i] = s],
         (Used(i) /\ entries[i].hw) => s # Free /\ Tuple(s) = Tuple(entries[i])
  PROVE  \A j \in Slot : Pinned(j)
<1>1. NatTypeOK
  BY DEF NatInv
<1>2. entries \in [Slot -> Session \union {Free}]
  BY ONLY <1>1 DEF NatTypeOK
<1>3. entries'[i] = s /\ \A j \in Slot : j # i => entries'[j] = entries[j]
  BY ONLY <1>2, i \in Slot, entries' = [entries EXCEPT ![i] = s]
<1>4. QED BY <1>3 DEF Pinned, Used

\* A session is not the marker of a free slot.
LEMMA SessionNotFree == \A s \in Session : s # Free
  BY ConstantsAssumption

\* Every step pins the sessions that hardware uses.
LEMMA PinStep ==
  ASSUME NatInv, NatNext
  PROVE  \A j \in Slot : Pinned(j)
<1>1. ASSUME NEW vr \in Vr, NEW rif \in Rif, NEW p \in OutPkts, NEW loc \in Loc,
             OutboundHit(vr, rif, p, loc)
      PROVE  \A j \in Slot : Pinned(j)
  <2>1. PICK i \in Slot :
          /\ Used(i)
          /\ entries' = [entries EXCEPT ![i] = Refreshed(entries[i], loc)]
    BY <1>1 DEF OutboundHit, HitsOutbound
  <2>2. entries[i] \in Session
    BY <2>1, UsedIsSession
  <2>3. /\ Refreshed(entries[i], loc) # Free
        /\ Tuple(Refreshed(entries[i], loc)) = Tuple(entries[i])
    BY ONLY <2>2, loc \in Loc, RefreshedSession, SessionNotFree
  <2>4. QED BY <2>1, <2>3, RewritePins
<1>2. ASSUME NEW vr \in Vr, NEW rif \in Rif, NEW p \in OutPkts, NEW loc \in Loc,
             OutboundNew(vr, rif, p, loc)
      PROVE  \A j \in Slot : Pinned(j)
  <2>1. PICK i \in Slot, port \in Port :
          /\ FirstFree(i)
          /\ entries' = [entries EXCEPT
                           ![i] = SnatSession(vr, cfg.policy[vr], p, port, loc)]
    BY <1>2 DEF OutboundNew, InsertsOutbound
  <2>2. ~Used(i)
    BY ONLY <2>1 DEF FirstFree
  <2>3. QED BY <2>1, <2>2, RewritePins
<1>3. ASSUME NEW vr \in Vr, NEW rif \in Rif, NEW p \in InPkts,
             InboundHit(vr, rif, p)
      PROVE  \A j \in Slot : Pinned(j)
  <2>1. PICK i \in Slot :
          /\ Used(i)
          /\ entries' = [entries EXCEPT ![i] = Refreshed(entries[i], entries[i].loc)]
    BY <1>3 DEF InboundHit
  <2>2. entries[i] \in Session
    BY <2>1, UsedIsSession
  <2>3. entries[i].loc \in Loc \union {NoLoc}
    BY <2>2 DEF Session
  <2>4. /\ Refreshed(entries[i], entries[i].loc) # Free
        /\ Tuple(Refreshed(entries[i], entries[i].loc)) = Tuple(entries[i])
    BY ONLY <2>2, <2>3, RefreshedSession, SessionNotFree
  <2>5. QED BY <2>1, <2>4, RewritePins
<1>4. ASSUME NEW vr \in Vr, NEW rif \in Rif, NEW p \in InPkts,
             PortForwardNew(vr, rif, p)
      PROVE  \A j \in Slot : Pinned(j)
  <2>1. PICK i \in Slot, r \in cfg.forwards :
          /\ FirstFree(i)
          /\ entries' = [entries EXCEPT ![i] = DnatSession(vr, r, p)]
    BY <1>4 DEF PortForwardNew
  <2>2. ~Used(i)
    BY ONLY <2>1 DEF FirstFree
  <2>3. QED BY <2>1, <2>2, RewritePins
<1>5. ASSUME NEW vr \in Vr, NEW rif \in Rif, NEW p \in InPkts,
             PortForwardReject(vr, rif, p)
      PROVE  \A j \in Slot : Pinned(j)
  <2>1. PICK i \in Slot : /\ ~entries[i].hw
                          /\ entries' = [entries EXCEPT ![i] = Free]
    BY <1>5 DEF PortForwardReject
  <2>2. QED BY <2>1, RewritePins
<1>6. CASE Age
  BY <1>6 DEF Age, Aged, Expired, Pinned, Used
<1>7. ASSUME NEW i \in Slot, NEW hw \in BOOLEAN, SetHardwareActive(i, hw)
      PROVE  \A j \in Slot : Pinned(j)
  <2>1. /\ Used(i)
        /\ entries' = [entries EXCEPT ![i] = InHardware(entries[i], hw)]
    BY <1>7 DEF SetHardwareActive
  <2>2. entries[i] \in Session
    BY <2>1, UsedIsSession
  <2>3. /\ InHardware(entries[i], hw) # Free
        /\ Tuple(InHardware(entries[i], hw)) = Tuple(entries[i])
    BY ONLY <2>2, hw \in BOOLEAN, HardwareSession, SessionNotFree
  <2>4. QED BY <2>1, <2>3, RewritePins
<1>8. ASSUME NEW c \in Configs, ControlCommit(c)
      PROVE  \A j \in Slot : Pinned(j)
  BY <1>8 DEF ControlCommit, Pinned
<1>9. CASE Tick
  <2>1. \A i \in Slot : Used(i) =>
          Older(entries[i]) # Free /\ Tuple(Older(entries[i])) = Tuple(entries[i])
    BY UsedIsSession, OlderSession, SessionNotFree
  <2>2. \A i \in Slot : Used(i) => entries'[i] = Older(entries[i])
    BY <1>9 DEF Tick
  <2>3. QED BY <2>1, <2>2 DEF Pinned
<1>10. QED
  BY <1>1, <1>2, <1>3, <1>4, <1>5, <1>6, <1>7, <1>8, <1>9
     DEF NatNext, NatOutbound, NatInbound

\* While a session is in hardware no step of the Arm code frees it or gives
\* its slot another tuple (reject, age and flush all test hardware_active).
THEOREM HardwareSessionsPinned == NatSpec => HardwarePinsSession
<1>1. NatInv /\ [NatNext]_natVars
        => [\A i \in Slot : (Used(i) /\ entries[i].hw)
              => entries'[i] # Free /\ Tuple(entries'[i]) = Tuple(entries[i])]_natVars
  BY PinStep DEF Pinned
<1>2. QED BY <1>1, NatInvariant, PTL DEF NatSpec, HardwarePinsSession

-----------------------------------------------------------------------------
(***************************************************************************)
(* Proofs about NatCt: the session table of the Arm code and the           *)
(* connections in hardware agree, for every number of sessions,            *)
(* connections and adjacencies, and whichever DOCA Flow calls fail.        *)
(*                                                                         *)
(* A handler works on a table, a set of connections, the adjacencies and   *)
(* the counter, sometimes on intermediate values of them: Good is the      *)
(* relation between the four that every step of a handler keeps.  It is    *)
(* stated of values, so that it can be used in the middle of a handler;    *)
(* CtInv says it of the variables.                                         *)
(***************************************************************************)

Table == [Slot -> Session \union {Free}]
Conns == [Slot -> Conn \union {NoConn}]
Adjs  == [AdjId -> Adjacency \union {NoAdj}]

Live(cs) == {c \in Slot : cs[c] # NoConn}

\* Every connection has an owner with its tuple, owners are not shared, and a
\* session that is marked hardware_active is an owner.
Owned(tbl, cs) ==
  /\ \A c \in Slot : cs[c] # NoConn =>
       /\ tbl[cs[c].sw] # Free
       /\ tbl[cs[c].sw].hw = TRUE
       /\ Tuple(tbl[cs[c].sw]) = cs[c].tup
  /\ \A c, d \in Slot : cs[c] # NoConn /\ cs[d] # NoConn /\ cs[c].sw = cs[d].sw => c = d
  /\ \A i \in Slot : tbl[i] # Free /\ tbl[i].hw = TRUE =>
       \E c \in Slot : cs[c] # NoConn /\ cs[c].sw = i

\* Both adjacencies of every connection are there, with the key it was bound to.
Bound(cs, at) ==
  \A c \in Slot : cs[c] # NoConn =>
    /\ at[cs[c].origin] = [key |-> cs[c].hop, active |-> TRUE]
    /\ at[cs[c].reply] = [key |-> cs[c].loc, active |-> TRUE]

Good(tbl, cs, at, n) ==
  /\ tbl \in Table /\ cs \in Conns /\ at \in Adjs
  /\ Owned(tbl, cs)
  /\ Bound(cs, at)
  /\ n = Cardinality(Live(cs))

\* u frees no session of t, adds none, and leaves every tuple alone.
SameSessions(t, u) ==
  \A i \in Slot : /\ u[i] = Free <=> t[i] = Free
                  /\ u[i] # Free => Tuple(u[i]) = Tuple(t[i])

-----------------------------------------------------------------------------
\* A connection is not the marker of an empty slot, nor an adjacency.
LEMMA Markers == (\A h \in Conn : h # NoConn) /\ (\A a \in Adjacency : a # NoAdj)
  BY MarkersAssumption

\* The slots, and with them the connections, are finitely many.
LEMMA LiveFinite ==
  ASSUME NEW cs
  PROVE  /\ IsFiniteSet(Live(cs)) /\ Cardinality(Live(cs)) \in Nat
         /\ Cardinality(Live(cs)) <= MaxSessions
<1>1. MaxSessions \in Nat
  BY ConstantsAssumption
<1>2. IsFiniteSet(Slot) /\ Cardinality(Slot) = MaxSessions
  <2>1. IsFiniteSet(1..MaxSessions)
    BY ONLY <1>1, FS_Interval, 1 \in Int, MaxSessions \in Int
  <2>2. Cardinality(1..MaxSessions) = IF 1 > MaxSessions THEN 0 ELSE MaxSessions - 1 + 1
    BY ONLY <1>1, FS_Interval, 1 \in Int, MaxSessions \in Int
  <2>3. QED BY ONLY <1>1, <2>1, <2>2 DEF Slot
<1>3. Live(cs) \subseteq Slot
  BY DEF Live
<1>4. QED BY ONLY <1>2, <1>3, FS_Subset, FS_CardinalityType

\* eswitch_pipeline_ct_flush, one connection: until its CT entry is gone it
\* keeps its owner, its tuple and its adjacencies.
LEMMA RetiredConn ==
  ASSUME NEW h \in Conn, NEW fate \in Fate
  PROVE  /\ fate = "gone" => Retired(h, fate) = NoConn
         /\ fate # "gone" =>
              /\ Retired(h, fate) \in Conn
              /\ Retired(h, fate).sw = h.sw /\ Retired(h, fate).tup = h.tup
              /\ Retired(h, fate).origin = h.origin /\ Retired(h, fate).reply = h.reply
              /\ Retired(h, fate).hop = h.hop /\ Retired(h, fate).loc = h.loc
<1>1. fate \in {"gone", "origin_kept", "reply_kept", "entry_kept"}
  BY DEF Fate
<1>2. CASE fate = "gone"
  BY <1>2 DEF Retired
<1>3. CASE fate = "origin_kept"
  BY <1>3 DEF Retired
<1>4. CASE fate = "reply_kept"
  <2>1. Retired(h, fate) = [h EXCEPT !.admitted = @ \ {"origin"}]
    BY <1>4 DEF Retired
  <2>2. QED BY <1>4, <2>1 DEF Conn
<1>5. CASE fate = "entry_kept"
  <2>1. Retired(h, fate) = [h EXCEPT !.admitted = {}]
    BY <1>5 DEF Retired
  <2>2. QED BY <1>5, <2>1 DEF Conn
<1>6. QED BY <1>1, <1>2, <1>3, <1>4, <1>5

\* What a flush f does to the connections in scope and to their owners, with
\* `gone` the connections whose CT entry was removed.
FlushedTo(tbl, cs, at, n, vr, f, gone) ==
  /\ f.tbl = [i \in Slot |-> IF \E c \in gone : cs[c].sw = i
                             THEN Released(tbl[i]) ELSE tbl[i]]
  /\ f.conn \in Conns
  /\ \A c \in gone : f.conn[c] = NoConn
  /\ \A c \in Slot \ gone :
       /\ f.conn[c] = NoConn <=> cs[c] = NoConn
       /\ cs[c] # NoConn =>
            /\ f.conn[c].sw = cs[c].sw /\ f.conn[c].tup = cs[c].tup
            /\ f.conn[c].origin = cs[c].origin /\ f.conn[c].reply = cs[c].reply
            /\ f.conn[c].hop = cs[c].hop /\ f.conn[c].loc = cs[c].loc
  /\ f.adj \in Adjs
  /\ f.adj = at \/ gone = Live(cs)
  /\ f.active = IF n >= Cardinality(gone) THEN n - Cardinality(gone) ELSE 0
  /\ f.ok \in BOOLEAN
  /\ (f.ok = TRUE /\ vr = AllVrs) => gone = Live(cs)

\* Every result of eswitch_pipeline_ct_flush has that shape.
LEMMA FlushShape ==
  ASSUME NEW tbl, NEW cs \in Conns, NEW at \in Adjs, NEW n \in Nat, NEW vr,
         NEW f \in FlushResults(tbl, cs, at, n, vr)
  PROVE  \E gone \in SUBSET Live(cs) : FlushedTo(tbl, cs, at, n, vr, f, gone)
<1> DEFINE scope == {c \in Slot : InScope(cs, tbl, vr, c)}
           Gone(fate) == {c \in scope : fate[c] = "gone"}
           Freed(fate) == {cs[c].sw : c \in Gone(fate)}
           Reclaimed(fate) == IF MayReclaim(Gone(fate) = scope, vr)
                              THEN Reclaims(at) ELSE {[adj |-> at, ok |-> (Gone(fate) = scope)]}
<1> DEFINE Result(fate, r) ==
        [tbl    |-> [i \in Slot |-> IF i \in Freed(fate)
                                    THEN Released(tbl[i]) ELSE tbl[i]],
         conn   |-> [c \in Slot |-> IF c \in scope
                                    THEN Retired(cs[c], fate[c]) ELSE cs[c]],
         adj    |-> r.adj,
         active |-> IF n >= Cardinality(Gone(fate)) THEN n - Cardinality(Gone(fate)) ELSE 0,
         ok     |-> r.ok]
<1>0. PICK fate \in [scope -> Fate] : f \in {Result(fate, r) : r \in Reclaimed(fate)}
  BY DEF FlushResults
<1>1. PICK r \in Reclaimed(fate) : f = Result(fate, r)
  BY ONLY <1>0
<1> DEFINE gone == Gone(fate)
<1>2. scope \subseteq Live(cs) /\ gone \subseteq scope
  BY DEF InScope, Present, Live
<1>3. f.tbl = [i \in Slot |-> IF \E c \in gone : cs[c].sw = i
                              THEN Released(tbl[i]) ELSE tbl[i]]
  BY ONLY <1>1
<1>4. \A c \in scope : cs[c] \in Conn /\ fate[c] \in Fate
  <2>1. \A c \in Live(cs) : cs[c] \in Conn
    BY ONLY cs \in Conns DEF Conns, Live
  <2> HIDE DEF scope
  <2>2. QED BY ONLY <1>2, <2>1, fate \in [scope -> Fate]
<1>5. \A c \in Slot : f.conn[c] = IF c \in scope THEN Retired(cs[c], fate[c]) ELSE cs[c]
  BY ONLY <1>1
<1>6. \A c \in gone : f.conn[c] = NoConn
  BY ONLY <1>4, <1>5, RetiredConn
<1>7. \A c \in Slot \ gone :
        /\ f.conn[c] = NoConn <=> cs[c] = NoConn
        /\ f.conn[c] \in Conn \union {NoConn}
        /\ cs[c] # NoConn =>
             /\ f.conn[c].sw = cs[c].sw /\ f.conn[c].tup = cs[c].tup
             /\ f.conn[c].origin = cs[c].origin /\ f.conn[c].reply = cs[c].reply
             /\ f.conn[c].hop = cs[c].hop /\ f.conn[c].loc = cs[c].loc
  <2> TAKE c \in Slot \ gone
  <2>1. CASE c \in scope
    <3>1. f.conn[c] = Retired(cs[c], fate[c]) /\ fate[c] # "gone"
      BY ONLY <1>5, <2>1, c \in Slot \ gone
    <3>2. cs[c] # NoConn
      BY ONLY <1>4, <2>1, Markers
    <3>3. cs[c] \in Conn /\ fate[c] \in Fate
      BY ONLY <1>4, <2>1
    <3>4. /\ Retired(cs[c], fate[c]) \in Conn
          /\ Retired(cs[c], fate[c]).sw = cs[c].sw /\ Retired(cs[c], fate[c]).tup = cs[c].tup
          /\ Retired(cs[c], fate[c]).origin = cs[c].origin
          /\ Retired(cs[c], fate[c]).reply = cs[c].reply
          /\ Retired(cs[c], fate[c]).hop = cs[c].hop /\ Retired(cs[c], fate[c]).loc = cs[c].loc
      BY ONLY <3>1, <3>3, RetiredConn
    <3>5. QED BY ONLY <3>1, <3>2, <3>4, Markers
  <2>2. CASE c \notin scope
    <3>1. f.conn[c] = cs[c]
      BY ONLY <1>5, <2>2, c \in Slot \ gone
    <3>2. QED BY ONLY <3>1, c \in Slot, cs \in Conns DEF Conns
  <2>3. QED BY ONLY <2>1, <2>2
<1>8. f.conn \in Conns
  <2>1. f.conn = [c \in Slot |-> f.conn[c]]
    BY ONLY <1>1
  <2>2. \A c \in Slot : f.conn[c] \in Conn \union {NoConn}
    BY ONLY <1>6, <1>7
  <2> HIDE DEF gone
  <2>3. QED BY ONLY <2>1, <2>2 DEF Conns
<1>9. vr = AllVrs => scope = Live(cs)
  BY ONLY DEF InScope, Present, Live
<1>10. /\ r.adj \in Adjs
       /\ r.adj = at \/ gone = Live(cs)
       /\ r.ok \in BOOLEAN
       /\ (r.ok = TRUE /\ vr = AllVrs) => gone = Live(cs)
  <2>1. CASE gone = scope /\ vr = AllVrs
    <3>1. r \in Reclaims(at)
      BY ONLY <2>1, r \in Reclaimed(fate) DEF MayReclaim
    <3>2. r.adj \in Adjs
      BY ONLY <3>1, at \in Adjs DEF Reclaims, Adjs
    <3>3. r.ok \in BOOLEAN
      <4>1. r.ok = TRUE \/ r.ok = FALSE
        BY ONLY <3>1 DEF Reclaims
      <4>2. QED BY ONLY <4>1
    <3>4. QED BY ONLY <1>9, <2>1, <3>2, <3>3
  <2>2. CASE ~(gone = scope /\ vr = AllVrs)
    <3>1. r = [adj |-> at, ok |-> (gone = scope)]
      BY ONLY <2>2, r \in Reclaimed(fate) DEF MayReclaim
    <3>2. QED BY ONLY <1>9, <2>2, <3>1, at \in Adjs
  <2>3. QED BY ONLY <2>1, <2>2
<1>11. /\ f.adj = r.adj /\ f.ok = r.ok
       /\ f.active = IF n >= Cardinality(gone) THEN n - Cardinality(gone) ELSE 0
  BY ONLY <1>1
<1> HIDE DEF gone
<1>12. QED
  <2>1. gone \in SUBSET Live(cs)
    BY ONLY <1>2
  <2>2. FlushedTo(tbl, cs, at, n, vr, f, gone)
    BY ONLY <1>3, <1>6, <1>7, <1>8, <1>10, <1>11 DEF FlushedTo
  <2>3. QED BY ONLY <2>1, <2>2

\* A session in a table.
LEMMA TableSession ==
  ASSUME NEW tbl \in Table, NEW i \in Slot, tbl[i] # Free
  PROVE  tbl[i] \in Session
  BY DEF Table

\* Releasing an owner clears hardware_active and nothing else.
LEMMA ReleasedSession ==
  ASSUME NEW s \in Session
  PROVE  /\ Released(s) \in Session /\ Released(s) # Free
         /\ Released(s).hw = FALSE /\ Tuple(Released(s)) = Tuple(s)
<1>1. Released(s) \in Session /\ Tuple(Released(s)) = Tuple(s)
  BY HardwareSession DEF Released
<1>2. Released(s).hw = FALSE
  BY DEF Released, InHardware, Session
<1>3. QED BY <1>1, <1>2, SessionNotFree

\* eswitch_pipeline_ct_flush keeps hardware and software in agreement wherever
\* its calls fail, and counts what it removed.
LEMMA FlushGood ==
  ASSUME NEW tbl, NEW cs, NEW at, NEW n, Good(tbl, cs, at, n),
         NEW vr, NEW f \in FlushResults(tbl, cs, at, n, vr)
  PROVE  /\ Good(f.tbl, f.conn, f.adj, f.active)
         /\ f.active <= n
         /\ SameSessions(tbl, f.tbl)
         /\ f.ok \in BOOLEAN
         /\ (f.ok = TRUE /\ vr = AllVrs) =>
              \A i \in Slot : f.conn[i] = NoConn /\ (f.tbl[i] # Free => f.tbl[i].hw = FALSE)
<1>1. /\ tbl \in Table /\ cs \in Conns /\ at \in Adjs
      /\ Owned(tbl, cs) /\ Bound(cs, at) /\ n = Cardinality(Live(cs))
  BY DEF Good
<1>2. n \in Nat /\ IsFiniteSet(Live(cs))
  BY <1>1, LiveFinite
<1>3. PICK gone \in SUBSET Live(cs) : FlushedTo(tbl, cs, at, n, vr, f, gone)
  BY <1>1, <1>2, FlushShape
<1> DEFINE freed == {i \in Slot : \E c \in gone : cs[c].sw = i}
<1>4. \A c \in Live(cs) : c \in Slot /\ cs[c] # NoConn /\ cs[c].sw \in Slot
  BY ONLY <1>1 DEF Live, Conns, Conn
<1>5. \A i \in freed : tbl[i] \in Session
  BY ONLY <1>1, <1>4, gone \in SUBSET Live(cs), TableSession DEF Owned
<1>6. /\ \A i \in freed : f.tbl[i] = Released(tbl[i])
      /\ \A i \in Slot \ freed : f.tbl[i] = tbl[i]
  BY ONLY <1>3 DEF FlushedTo
<1>7. \A i \in freed : /\ f.tbl[i] \in Session /\ f.tbl[i] # Free
                       /\ f.tbl[i].hw = FALSE /\ Tuple(f.tbl[i]) = Tuple(tbl[i])
  BY ONLY <1>5, <1>6, ReleasedSession, ZenonT(40)
<1>8. SameSessions(tbl, f.tbl)
  BY ONLY <1>5, <1>6, <1>7, SessionNotFree DEF SameSessions
<1>9. f.tbl \in Table
  <2>1. f.tbl = [i \in Slot |-> f.tbl[i]]
    BY ONLY <1>3 DEF FlushedTo
  <2>2. \A i \in Slot : f.tbl[i] \in Session \union {Free}
    BY ONLY <1>1, <1>6, <1>7 DEF Table
  <2>3. QED BY ONLY <2>1, <2>2 DEF Table
<1>10. \A c \in Slot : f.conn[c] # NoConn =>
         /\ c \in Live(cs) \ gone /\ cs[c] # NoConn
         /\ cs[c].sw \in Slot \ freed
         /\ f.conn[c].sw = cs[c].sw /\ f.conn[c].tup = cs[c].tup
         /\ f.conn[c].origin = cs[c].origin /\ f.conn[c].reply = cs[c].reply
         /\ f.conn[c].hop = cs[c].hop /\ f.conn[c].loc = cs[c].loc
  <2> TAKE c \in Slot
  <2> HAVE f.conn[c] # NoConn
  <2>1. c \in Slot \ gone /\ cs[c] # NoConn /\ c \in Live(cs)
    BY ONLY <1>3, c \in Slot, f.conn[c] # NoConn DEF Live, FlushedTo
  <2>2. \A d \in gone : cs[d].sw # cs[c].sw
    BY ONLY <1>1, <1>4, <2>1, gone \in SUBSET Live(cs) DEF Owned
  <2>3. cs[c].sw \in Slot \ freed
    BY ONLY <1>4, <2>1, <2>2
  <2> HIDE DEF freed
  <2>4. QED BY ONLY <1>3, <2>1, <2>3 DEF FlushedTo
<1>11. Owned(f.tbl, f.conn)
  <2>1. \A c \in Slot : f.conn[c] # NoConn =>
          /\ f.tbl[f.conn[c].sw] # Free
          /\ f.tbl[f.conn[c].sw].hw = TRUE
          /\ Tuple(f.tbl[f.conn[c].sw]) = f.conn[c].tup
    BY ONLY <1>1, <1>6, <1>10 DEF Owned
  <2>2. \A c, d \in Slot : f.conn[c] # NoConn /\ f.conn[d] # NoConn
                             /\ f.conn[c].sw = f.conn[d].sw => c = d
    BY ONLY <1>1, <1>10 DEF Owned
  <2>3. \A i \in Slot : f.tbl[i] # Free /\ f.tbl[i].hw = TRUE =>
          \E c \in Slot : f.conn[c] # NoConn /\ f.conn[c].sw = i
    <3> SUFFICES ASSUME NEW i \in Slot, f.tbl[i] # Free, f.tbl[i].hw = TRUE
                 PROVE  \E c \in Slot : f.conn[c] # NoConn /\ f.conn[c].sw = i
      OBVIOUS
    <3>1. i \notin freed /\ f.tbl[i] = tbl[i]
      BY ONLY <1>6, <1>7, i \in Slot, f.tbl[i].hw = TRUE
    <3>2. PICK c \in Slot : cs[c] # NoConn /\ cs[c].sw = i
      BY <1>1, <3>1 DEF Owned
    <3>3. c \notin gone
      BY ONLY <3>1, <3>2, i \in Slot
    <3>4. f.conn[c] # NoConn /\ f.conn[c].sw = i
      BY ONLY <1>3, <3>2, <3>3 DEF FlushedTo
    <3>5. QED BY <3>4
  <2>4. QED BY ONLY <2>1, <2>2, <2>3 DEF Owned
<1>12. Bound(f.conn, f.adj)
  <2>1. CASE f.adj = at
    BY ONLY <1>1, <1>10, <2>1 DEF Bound
  <2>2. CASE gone = Live(cs)
    BY ONLY <1>10, <2>2 DEF Bound
  <2>3. QED BY ONLY <1>3, <2>1, <2>2 DEF FlushedTo
<1>13. Live(f.conn) = Live(cs) \ gone
  BY ONLY <1>3, <1>10 DEF Live, FlushedTo
<1>14. /\ f.active = Cardinality(Live(f.conn))
       /\ f.active <= n
  <2>1. Cardinality(Live(cs) \ gone) = Cardinality(Live(cs)) - Cardinality(Live(cs) \cap gone)
    BY ONLY <1>2, FS_Difference
  <2>2. Live(cs) \cap gone = gone
    OBVIOUS
  <2>3. Cardinality(gone) \in Nat /\ Cardinality(gone) <= n
    BY ONLY <1>1, <1>2, gone \in SUBSET Live(cs), FS_Subset, FS_CardinalityType
  <2>4. f.active = IF n >= Cardinality(gone) THEN n - Cardinality(gone) ELSE 0
    BY ONLY <1>3 DEF FlushedTo
  <2>5. Cardinality(Live(f.conn)) = n - Cardinality(gone)
    BY ONLY <1>1, <1>13, <2>1, <2>2
  <2>6. QED BY ONLY <1>2, <2>3, <2>4, <2>5
<1>15. ASSUME f.ok = TRUE, vr = AllVrs
       PROVE  \A i \in Slot : f.conn[i] = NoConn /\ (f.tbl[i] # Free => f.tbl[i].hw = FALSE)
  <2>1. \A i \in Slot : f.conn[i] = NoConn
    BY <1>3, <1>10, <1>15 DEF FlushedTo
  <2>2. \A i \in Slot : f.tbl[i] # Free => f.tbl[i].hw # TRUE
    BY ONLY <1>11, <2>1 DEF Owned
  <2>3. \A i \in Slot : f.tbl[i] # Free => f.tbl[i].hw \in BOOLEAN
    BY ONLY <1>9, TableSession DEF Session
  <2>4. QED BY <2>1, <2>2, <2>3
<1>16. f.conn \in Conns /\ f.adj \in Adjs /\ f.ok \in BOOLEAN
  BY ONLY <1>3 DEF FlushedTo
<1>17. QED BY <1>8, <1>9, <1>11, <1>12, <1>14, <1>15, <1>16 DEF Good

-----------------------------------------------------------------------------
\* ct_bind_adjacency leaves every entry of the table alone, and an id it
\* returns is that of an active adjacency with the key it was asked for.
LEMMA BindKeeps ==
  ASSUME NEW at \in Adjs, NEW key \in AdjKey, NEW b \in BindResults(at, key)
  PROVE  /\ b.adj \in Adjs
         /\ \A a \in AdjId : at[a] # NoAdj => b.adj[a] = at[a]
         /\ b.id # 0 => b.id \in AdjId /\ b.adj[b.id] = [key |-> key, active |-> TRUE]
<1> DEFINE put(a, on) == [at EXCEPT ![a] = [key |-> key, active |-> on]]
           shared == {a \in AdjId : at[a] # NoAdj /\ at[a].active /\ at[a].key = key}
           free == {a \in AdjId : FirstFreeIn(at, AdjId, NoAdj, a)}
<1>1. \/ \E a \in shared : b = [adj |-> at, id |-> a]
      \/ b = [adj |-> at, id |-> 0]
      \/ \E a \in free : b = [adj |-> put(a, TRUE), id |-> a]
      \/ \E a \in free : b = [adj |-> put(a, FALSE), id |-> 0]
  BY DEF BindResults
<1>2. ASSUME NEW a \in free, NEW on \in BOOLEAN
      PROVE  /\ put(a, on) \in Adjs /\ a \in AdjId
             /\ \A x \in AdjId : at[x] # NoAdj => put(a, on)[x] = at[x]
             /\ put(a, on)[a] = [key |-> key, active |-> on]
  <2>1. a \in AdjId /\ at[a] = NoAdj
    BY ONLY a \in free DEF FirstFreeIn
  <2>2. [key |-> key, active |-> on] \in Adjacency
    BY ONLY key \in AdjKey, on \in BOOLEAN DEF Adjacency
  <2>3. QED BY ONLY <2>1, <2>2, at \in Adjs DEF Adjs
<1>3. CASE \E a \in shared : b = [adj |-> at, id |-> a]
  <2>1. PICK a \in shared : b = [adj |-> at, id |-> a]
    BY ONLY <1>3
  <2>2. a \in AdjId /\ at[a] \in Adjacency /\ at[a].active /\ at[a].key = key
    BY ONLY a \in shared, at \in Adjs DEF Adjs
  <2>3. at[a] = [key |-> key, active |-> TRUE]
    BY ONLY <2>2 DEF Adjacency
  <2>4. b.adj = at /\ b.id = a
    BY ONLY <2>1
  <2>5. QED BY ONLY <2>2, <2>3, <2>4, at \in Adjs
<1>4. CASE b = [adj |-> at, id |-> 0]
  BY ONLY <1>4, at \in Adjs
<1>5. CASE \E a \in free : b = [adj |-> put(a, TRUE), id |-> a]
  <2>1. PICK a \in free : b = [adj |-> put(a, TRUE), id |-> a]
    BY ONLY <1>5
  <2>2. b.adj = put(a, TRUE) /\ b.id = a
    BY ONLY <2>1
  <2>3. /\ put(a, TRUE) \in Adjs /\ a \in AdjId
        /\ \A x \in AdjId : at[x] # NoAdj => put(a, TRUE)[x] = at[x]
        /\ put(a, TRUE)[a] = [key |-> key, active |-> TRUE]
    BY <1>2
  <2> HIDE DEF put
  <2>4. QED BY ONLY <2>2, <2>3
<1>6. CASE \E a \in free : b = [adj |-> put(a, FALSE), id |-> 0]
  <2>1. PICK a \in free : b = [adj |-> put(a, FALSE), id |-> 0]
    BY ONLY <1>6
  <2>2. b.adj = put(a, FALSE) /\ b.id = 0
    BY ONLY <2>1
  <2>3. /\ put(a, FALSE) \in Adjs
        /\ \A x \in AdjId : at[x] # NoAdj => put(a, FALSE)[x] = at[x]
    BY <1>2
  <2> HIDE DEF put
  <2>4. QED BY ONLY <2>2, <2>3
<1>7. QED BY ONLY <1>1, <1>3, <1>4, <1>5, <1>6

\* Adding adjacencies disturbs no connection.
LEMMA RebindGood ==
  ASSUME NEW tbl, NEW cs, NEW at, NEW n, Good(tbl, cs, at, n), NEW ad \in Adjs,
         \A a \in AdjId : at[a] # NoAdj => ad[a] = at[a]
  PROVE  Good(tbl, cs, ad, n)
<1>1. \A c \in Slot : cs[c] # NoConn =>
        /\ cs[c].origin \in AdjId /\ cs[c].reply \in AdjId
        /\ [key |-> cs[c].hop, active |-> TRUE] \in Adjacency
        /\ [key |-> cs[c].loc, active |-> TRUE] \in Adjacency
  BY DEF Good, Conns, Conn, Adjacency, AdjKey
<1>2. \A c \in Slot : cs[c] # NoConn =>
        /\ at[cs[c].origin] = [key |-> cs[c].hop, active |-> TRUE]
        /\ at[cs[c].reply] = [key |-> cs[c].loc, active |-> TRUE]
  BY DEF Good, Bound
<1>3. \A c \in Slot : cs[c] # NoConn =>
        at[cs[c].origin] # NoAdj /\ at[cs[c].reply] # NoAdj
  BY ONLY <1>1, <1>2, Markers
<1>4. Bound(cs, ad)
  BY <1>1, <1>2, <1>3 DEF Bound
<1>5. QED BY <1>4 DEF Good

\* A CT entry for a session that has none: the session becomes its owner, and
\* there is one connection more.  This holds of half-installed entries too.
LEMMA InstallGood ==
  ASSUME NEW tbl, NEW cs, NEW at, NEW n, Good(tbl, cs, at, n),
         NEW i \in Slot, tbl[i] # Free,
         \A d \in Slot : cs[d] # NoConn => cs[d].sw # i,
         NEW c \in Slot, cs[c] = NoConn,
         NEW admitted \in SUBSET Direction, NEW left \in 0..Lease,
         NEW origin \in AdjId, NEW reply \in AdjId, NEW hop \in Hop, NEW loc \in Loc,
         at[origin] = [key |-> hop, active |-> TRUE],
         at[reply] = [key |-> loc, active |-> TRUE],
         NEW new,
         new = [cs EXCEPT ![c] = Connection(tbl, i, admitted, left, origin, reply, hop, loc)]
  PROVE  /\ Good(Installed(tbl, i), new, at, n + 1)
         /\ SameSessions(tbl, Installed(tbl, i))
<1> DEFINE h == Connection(tbl, i, admitted, left, origin, reply, hop, loc)
           tb == Installed(tbl, i)
<1>1. /\ tbl \in Table /\ cs \in Conns /\ at \in Adjs
      /\ Owned(tbl, cs) /\ Bound(cs, at) /\ n = Cardinality(Live(cs))
  BY DEF Good
<1>2. tbl[i] \in Session
  BY <1>1, TableSession
<1>3. /\ InHardware(tbl[i], TRUE) \in Session
      /\ Tuple(InHardware(tbl[i], TRUE)) = Tuple(tbl[i])
      /\ InHardware(tbl[i], TRUE).hw = TRUE
      /\ InHardware(tbl[i], TRUE) # Free
  <2>1. InHardware(tbl[i], TRUE).hw = TRUE
    BY ONLY <1>2 DEF InHardware, Session
  <2>2. QED BY ONLY <1>2, <2>1, HardwareSession, SessionNotFree
<1>4. Tuple(tbl[i]) \in HwTuple
  BY ONLY <1>2 DEF Tuple, HwTuple, Session
<1>5. h \in Conn
  BY ONLY <1>4, i \in Slot, admitted \in SUBSET Direction, left \in 0..Lease,
          origin \in AdjId, reply \in AdjId, hop \in Hop, loc \in Loc DEF Connection, Conn
<1>6. /\ h.sw = i /\ h.tup = Tuple(tbl[i]) /\ h.origin = origin /\ h.reply = reply
      /\ h.hop = hop /\ h.loc = loc
  BY ONLY DEF Connection
<1>7. new = [cs EXCEPT ![c] = h]
  OBVIOUS
<1> HIDE DEF h
<1>8. new[c] = h /\ h # NoConn /\ \A d \in Slot : d # c => new[d] = cs[d]
  BY ONLY <1>1, <1>5, <1>7, c \in Slot, Markers DEF Conns
<1>9. new \in Conns
  BY ONLY <1>1, <1>5, <1>7, c \in Slot DEF Conns
<1>10. tb[i] = InHardware(tbl[i], TRUE) /\ \A j \in Slot : j # i => tb[j] = tbl[j]
  BY ONLY <1>1, i \in Slot DEF Installed, Table
<1>11. tb \in Table
  BY ONLY <1>1, <1>3, i \in Slot DEF Installed, Table
<1> HIDE DEF tb
<1>12. SameSessions(tbl, tb)
  BY ONLY <1>3, <1>10, tbl[i] # Free DEF SameSessions
<1>13. \A d \in Slot : cs[d] # NoConn => cs[d].sw \in Slot
  BY ONLY <1>1 DEF Conns, Conn
<1>14. Owned(tb, new)
  <2>1. \A d \in Slot : new[d] # NoConn =>
          tb[new[d].sw] # Free /\ tb[new[d].sw].hw = TRUE /\ Tuple(tb[new[d].sw]) = new[d].tup
    <3> TAKE d \in Slot
    <3> HAVE new[d] # NoConn
    <3>1. CASE d = c
      BY ONLY <1>3, <1>6, <1>8, <1>10, <3>1
    <3>2. CASE d # c
      <4>1. new[d] = cs[d] /\ cs[d] # NoConn
        BY ONLY <1>8, <3>2, d \in Slot, new[d] # NoConn
      <4>2. cs[d].sw \in Slot /\ cs[d].sw # i
        BY <1>13, <4>1
      <4>3. tb[cs[d].sw] = tbl[cs[d].sw]
        BY ONLY <1>10, <4>2
      <4>4. QED BY ONLY <1>1, <4>1, <4>3, d \in Slot DEF Owned
    <3>3. QED BY ONLY <3>1, <3>2
  <2>2. \A d, e \in Slot : new[d] # NoConn /\ new[e] # NoConn /\ new[d].sw = new[e].sw => d = e
    <3>1. \A d \in Slot : new[d] # NoConn /\ d # c => cs[d] # NoConn /\ new[d].sw = cs[d].sw
      BY ONLY <1>8
    <3>2. \A d \in Slot : new[d] # NoConn /\ d # c => new[d].sw # i
      BY <3>1
    <3>3. \A d, e \in Slot : cs[d] # NoConn /\ cs[e] # NoConn /\ cs[d].sw = cs[e].sw => d = e
      BY ONLY <1>1 DEF Owned
    <3>4. new[c].sw = i
      BY ONLY <1>6, <1>8
    <3>5. QED BY ONLY <3>1, <3>2, <3>3, <3>4
  <2>3. \A j \in Slot : tb[j] # Free /\ tb[j].hw = TRUE =>
          \E d \in Slot : new[d] # NoConn /\ new[d].sw = j
    <3> SUFFICES ASSUME NEW j \in Slot, tb[j] # Free, tb[j].hw = TRUE
                 PROVE  \E d \in Slot : new[d] # NoConn /\ new[d].sw = j
      OBVIOUS
    <3>1. CASE j = i
      BY ONLY <1>6, <1>8, <3>1, c \in Slot
    <3>2. CASE j # i
      <4>1. tb[j] = tbl[j]
        BY ONLY <1>10, <3>2, j \in Slot
      <4>2. PICK d \in Slot : cs[d] # NoConn /\ cs[d].sw = j
        BY <1>1, <4>1 DEF Owned
      <4>3. new[d] = cs[d]
        BY <1>8, <4>2
      <4>4. QED BY ONLY <4>2, <4>3
    <3>3. QED BY ONLY <3>1, <3>2
  <2>4. QED BY ONLY <2>1, <2>2, <2>3 DEF Owned
<1>15. Bound(new, at)
  <2>1. \A d \in Slot : cs[d] # NoConn =>
          /\ at[cs[d].origin] = [key |-> cs[d].hop, active |-> TRUE]
          /\ at[cs[d].reply] = [key |-> cs[d].loc, active |-> TRUE]
    BY ONLY <1>1 DEF Bound
  <2>2. /\ at[new[c].origin] = [key |-> new[c].hop, active |-> TRUE]
        /\ at[new[c].reply] = [key |-> new[c].loc, active |-> TRUE]
    BY <1>6, <1>8
  <2>3. QED BY ONLY <1>8, <2>1, <2>2 DEF Bound
<1>16. Cardinality(Live(new)) = n + 1
  <2>1. Live(new) = Live(cs) \union {c} /\ c \notin Live(cs)
    BY <1>8 DEF Live
  <2>2. QED BY ONLY <1>1, <2>1, LiveFinite, FS_AddElement
<1>17. QED BY ONLY <1>1, <1>9, <1>11, <1>12, <1>14, <1>15, <1>16 DEF Good, tb

-----------------------------------------------------------------------------
RetryOK(r) == r \in [delay : 0..RetryCap, wait : 0..RetryCap] /\ r.wait <= r.delay

\* The inductive invariant.
CtInv ==
  /\ NatInv
  /\ Good(entries, conn, adj, active)
  /\ active <= CtCapacity
  /\ RetryOK(retry)
  /\ due \in BOOLEAN /\ up \in BOOLEAN

\* offload_retry_failed: the delay doubles and never exceeds its cap.
LEMMA BackoffOK ==
  ASSUME NEW r, RetryOK(r)
  PROVE  RetryOK(Backoff(r))
<1>1. r.delay \in Nat /\ RetryFirst \in Nat /\ RetryCap \in Nat /\ RetryFirst <= RetryCap
  BY CtAssumption DEF RetryOK
<1> DEFINE d == IF r.delay = 0 THEN RetryFirst
                ELSE IF 2 * r.delay >= RetryCap THEN RetryCap ELSE 2 * r.delay
<1>2. d \in 0..RetryCap
  BY ONLY <1>1
<1>3. Backoff(r) = [delay |-> d, wait |-> d]
  BY ONLY DEF Backoff
<1> HIDE DEF d
<1>4. QED BY ONLY <1>2, <1>3 DEF RetryOK

\* What a promotion r of a session of tbl leaves behind.
Promoted(tbl, r) ==
  /\ Good(r.tbl, r.conn, r.adj, r.active)
  /\ r.active <= CtCapacity
  /\ SameSessions(tbl, r.tbl)
  /\ RetryOK(r.retry)

\* A promotion that failed before anything was installed.
LEMMA FailedPromoted ==
  ASSUME NEW tbl, NEW cs, NEW at, NEW n, NEW base, RetryOK(retry),
         Good(tbl, cs, at, n), n <= CtCapacity, SameSessions(base, tbl)
  PROVE  Promoted(base, FailedPromotion(tbl, cs, at, n))
<1>1. RetryOK(Backoff(retry))
  BY BackoffOK
<1> DEFINE r == FailedPromotion(tbl, cs, at, n)
<1>2. r.tbl = tbl /\ r.conn = cs /\ r.adj = at /\ r.active = n /\ r.retry = Backoff(retry)
  BY DEF FailedPromotion
<1> HIDE DEF r
<1>3. Promoted(base, r)
  BY <1>1, <1>2 DEF Promoted
<1>4. QED BY <1>3 DEF r

\* SameSessions is reflexive and transitive.
LEMMA SameSessionsOrder ==
  ASSUME NEW t, NEW u, NEW v
  PROVE  /\ SameSessions(t, t)
         /\ SameSessions(t, u) /\ SameSessions(u, v) => SameSessions(t, v)
  BY DEF SameSessions

\* eswitch_pipeline_ct_promote past its checks: the entry and both admission
\* rules, or what the flush after a failure leaves of them.
LEMMA ProgrammedGood ==
  ASSUME NEW tbl, NEW i \in Slot, tbl[i] # Free, NEW at, RetryOK(retry),
         Good(tbl, conn, at, active), active < CtCapacity,
         \A d \in Slot : conn[d] # NoConn => conn[d].sw # i,
         NEW c \in Slot, conn[c] = NoConn,
         NEW origin \in AdjId, NEW reply \in AdjId, NEW hop \in Hop, NEW loc \in Loc,
         at[origin] = [key |-> hop, active |-> TRUE],
         at[reply] = [key |-> loc, active |-> TRUE],
         NEW r \in Programmed(tbl, i, c, at, origin, reply, hop, loc)
  PROVE  Promoted(tbl, r)
<1> DEFINE put(admitted, left) ==
        [conn EXCEPT ![c] = Connection(tbl, i, admitted, left, origin, reply, hop, loc)]
<1>1. active \in Nat /\ active + 1 <= CtCapacity /\ active <= CtCapacity
  BY LiveFinite, CtAssumption DEF Good
<1>2. ASSUME NEW admitted \in SUBSET Direction, NEW left \in 0..Lease
      PROVE  /\ Good(Installed(tbl, i), put(admitted, left), at, active + 1)
             /\ SameSessions(tbl, Installed(tbl, i))
  BY InstallGood
<1>3. Direction \in SUBSET Direction /\ Lease \in 0..Lease /\ 0 \in 0..Lease
  BY CtAssumption
<1>4. RetryOK(NoRetry)
  BY CtAssumption DEF RetryOK, NoRetry
<1>5. CASE r = [tbl |-> Installed(tbl, i), conn |-> put(Direction, Lease), adj |-> at,
                active |-> active + 1, retry |-> NoRetry]
  <2>1. /\ r.tbl = Installed(tbl, i) /\ r.conn = put(Direction, Lease) /\ r.adj = at
        /\ r.active = active + 1 /\ r.retry = NoRetry
    BY ONLY <1>5
  <2>2. /\ Good(Installed(tbl, i), put(Direction, Lease), at, active + 1)
        /\ SameSessions(tbl, Installed(tbl, i))
    BY <1>2, <1>3
  <2> HIDE DEF put
  <2>3. QED BY ONLY <1>1, <1>4, <2>1, <2>2 DEF Promoted
<1>6. CASE r = FailedPromotion(tbl, conn, at, active)
  BY <1>1, <1>6, FailedPromoted, SameSessionsOrder
<1>7. ASSUME NEW h \in HalfInstalled,
             NEW f \in FlushResults(Installed(tbl, i), put(h.admitted, h.left), at,
                                    active + 1, tbl[i].vr),
             r = FailedPromotion(f.tbl, f.conn, f.adj, f.active)
      PROVE  Promoted(tbl, r)
  <2>1. h.admitted \in SUBSET Direction /\ h.left \in 0..Lease
    BY ONLY <1>3, h \in HalfInstalled DEF HalfInstalled, Direction
  <2>2. /\ Good(Installed(tbl, i), put(h.admitted, h.left), at, active + 1)
        /\ SameSessions(tbl, Installed(tbl, i))
    BY <1>2, <2>1
  <2>3. f \in FlushResults(Installed(tbl, i), put(h.admitted, h.left), at,
                           active + 1, tbl[i].vr)
    BY <1>7
  <2> HIDE DEF put
  <2>4. /\ Good(f.tbl, f.conn, f.adj, f.active)
        /\ f.active <= active + 1
        /\ SameSessions(Installed(tbl, i), f.tbl)
    BY ONLY <2>2, <2>3, FlushGood
  <2>5. f.active \in Nat
    BY ONLY <2>4, LiveFinite DEF Good
  <2>6. f.active <= CtCapacity
    BY ONLY <1>1, <2>4, <2>5, CtAssumption
  <2>7. SameSessions(tbl, f.tbl)
    BY ONLY <2>2, <2>4, SameSessionsOrder
  <2>8. QED BY <1>7, <2>4, <2>6, <2>7, FailedPromoted
<1>8. QED
  <2>1. \/ r = [tbl |-> Installed(tbl, i), conn |-> put(Direction, Lease), adj |-> at,
                active |-> active + 1, retry |-> NoRetry]
        \/ r = FailedPromotion(tbl, conn, at, active)
        \/ \E h \in HalfInstalled :
             \E f \in FlushResults(Installed(tbl, i), put(h.admitted, h.left), at,
                                   active + 1, tbl[i].vr) :
               r = FailedPromotion(f.tbl, f.conn, f.adj, f.active)
    BY DEF Programmed
  <2> HIDE DEF put
  <2>2. QED BY ONLY <1>5, <1>6, <1>7, <2>1

\* eswitch_pipeline_ct_promote as a whole.
LEMMA PromoteGood ==
  ASSUME NEW tbl, NEW i \in Slot, tbl[i] # Free, RetryOK(retry),
         Good(tbl, conn, adj, active), active <= CtCapacity,
         NEW hop \in Hop, NEW loc \in Loc, NEW r \in PromoteResults(tbl, i, hop, loc)
  PROVE  Promoted(tbl, r)
<1> DEFINE busy == \E c \in Slot : Present(conn, c) /\ conn[c].sw = i
           free == {c \in Slot : FirstFreeIn(conn, Slot, NoConn, c)}
<1>1. active \in Nat /\ CtCapacity \in Nat
  BY LiveFinite, CtAssumption DEF Good
<1>2. adj \in Adjs /\ hop \in AdjKey /\ loc \in AdjKey
  BY DEF Good, AdjKey
<1>3. CASE busy \/ retry.wait > 0
  <2>1. r = [tbl |-> tbl, conn |-> conn, adj |-> adj, active |-> active, retry |-> retry]
    BY <1>3 DEF PromoteResults
  <2>2. r.tbl = tbl /\ r.conn = conn /\ r.adj = adj /\ r.active = active /\ r.retry = retry
    BY ONLY <2>1
  <2>3. QED BY <2>2, SameSessionsOrder DEF Promoted
<1>4. CASE ~(busy \/ retry.wait > 0) /\ (free = {} \/ CtFull)
  <2>1. r = FailedPromotion(tbl, conn, adj, active)
    BY <1>4 DEF PromoteResults
  <2>2. QED BY <2>1, FailedPromoted, SameSessionsOrder
<1>5. CASE ~(busy \/ retry.wait > 0) /\ ~(free = {} \/ CtFull)
  <2>1. active < CtCapacity
    BY <1>1, <1>5 DEF CtFull
  <2>2. \A d \in Slot : conn[d] # NoConn => conn[d].sw # i
    BY <1>5 DEF Present
  <2>3. PICK o \in BindResults(adj, hop) :
          r \in IF o.id = 0 THEN {FailedPromotion(tbl, conn, o.adj, active)}
                ELSE UNION { IF b.id = 0
                             THEN {FailedPromotion(tbl, conn, b.adj, active)}
                             ELSE UNION { Programmed(tbl, i, c, b.adj, o.id, b.id, hop, loc)
                                          : c \in free }
                             : b \in BindResults(o.adj, loc) }
    BY <1>5 DEF PromoteResults
  <2>4. /\ o.adj \in Adjs
        /\ \A a \in AdjId : adj[a] # NoAdj => o.adj[a] = adj[a]
        /\ o.id # 0 => o.id \in AdjId /\ o.adj[o.id] = [key |-> hop, active |-> TRUE]
    BY ONLY <1>2, o \in BindResults(adj, hop), BindKeeps
  <2>5. Good(tbl, conn, o.adj, active)
    BY <2>4, RebindGood
  <2>6. CASE o.id = 0
    <3>1. r = FailedPromotion(tbl, conn, o.adj, active)
      BY ONLY <2>3, <2>6
    <3>2. QED BY <2>5, <3>1, FailedPromoted, SameSessionsOrder
  <2>7. CASE o.id # 0
    <3>1. PICK b \in BindResults(o.adj, loc) :
            r \in IF b.id = 0 THEN {FailedPromotion(tbl, conn, b.adj, active)}
                  ELSE UNION { Programmed(tbl, i, c, b.adj, o.id, b.id, hop, loc) : c \in free }
      BY ONLY <2>3, <2>7
    <3>2. /\ b.adj \in Adjs
          /\ \A a \in AdjId : o.adj[a] # NoAdj => b.adj[a] = o.adj[a]
          /\ b.id # 0 => b.id \in AdjId /\ b.adj[b.id] = [key |-> loc, active |-> TRUE]
      BY ONLY <1>2, <2>4, b \in BindResults(o.adj, loc), BindKeeps
    <3>3. Good(tbl, conn, b.adj, active)
      BY <2>5, <3>2, RebindGood
    <3>4. CASE b.id = 0
      <4>1. r = FailedPromotion(tbl, conn, b.adj, active)
        BY ONLY <3>1, <3>4
      <4>2. QED BY <3>3, <4>1, FailedPromoted, SameSessionsOrder
    <3>5. CASE b.id # 0
      <4>1. PICK c \in free : r \in Programmed(tbl, i, c, b.adj, o.id, b.id, hop, loc)
        BY ONLY <3>1, <3>5
      <4>2. c \in Slot /\ conn[c] = NoConn
        BY ONLY c \in free DEF FirstFreeIn
      <4>3. [key |-> hop, active |-> TRUE] \in Adjacency
        BY ONLY <1>2 DEF Adjacency
      <4>4. o.id \in AdjId /\ b.adj[o.id] = [key |-> hop, active |-> TRUE]
        BY ONLY <2>4, <2>7, <3>2, <4>3, Markers
      <4>5. QED BY <2>1, <2>2, <3>2, <3>3, <3>5, <4>1, <4>2, <4>4, ProgrammedGood
    <3>6. QED BY ONLY <3>4, <3>5
  <2>8. QED BY ONLY <2>6, <2>7
<1>6. QED BY ONLY <1>3, <1>4, <1>5

-----------------------------------------------------------------------------
\* A table that differs from entries outside tuples, hardware_active and the
\* set of used slots is in agreement too; so is one with a session more.
LEMMA RewrittenGood ==
  ASSUME CtInv, NEW i \in Slot, NEW s \in Session,
         IF entries[i] = Free THEN s.hw = FALSE
         ELSE s.hw = entries[i].hw /\ Tuple(s) = Tuple(entries[i])
  PROVE  Good([entries EXCEPT ![i] = s], conn, adj, active)
<1> DEFINE tbl == [entries EXCEPT ![i] = s]
<1>1. /\ entries \in Table /\ conn \in Conns /\ adj \in Adjs
      /\ Owned(entries, conn) /\ Bound(conn, adj) /\ active = Cardinality(Live(conn))
  BY DEF CtInv, Good
<1>2. tbl[i] = s /\ s # Free /\ \A j \in Slot : j # i => tbl[j] = entries[j]
  BY ONLY <1>1, i \in Slot, s \in Session, SessionNotFree DEF Table
<1>3. tbl \in Table
  BY ONLY <1>1, i \in Slot, s \in Session DEF Table
<1>4. \A c \in Slot : conn[c] # NoConn =>
        /\ conn[c].sw \in Slot /\ entries[conn[c].sw] # Free
        /\ entries[conn[c].sw].hw = TRUE
        /\ Tuple(entries[conn[c].sw]) = conn[c].tup
  BY ONLY <1>1 DEF Owned, Conns, Conn
<1> HIDE DEF tbl
<1>5. Owned(tbl, conn)
  <2>1. \A c \in Slot : conn[c] # NoConn =>
          tbl[conn[c].sw] # Free /\ tbl[conn[c].sw].hw = TRUE /\ Tuple(tbl[conn[c].sw]) = conn[c].tup
    BY <1>2, <1>4
  <2>2. \A j \in Slot : tbl[j] # Free /\ tbl[j].hw = TRUE =>
          entries[j] # Free /\ entries[j].hw = TRUE
    BY <1>2
  <2>3. QED BY ONLY <1>1, <2>1, <2>2 DEF Owned
<1>6. QED BY ONLY <1>1, <1>3, <1>5 DEF Good, tbl

\* route_arm_frame: a session that is refreshed.
LEMMA RefreshFlow ==
  ASSUME CtInv, NEW i \in Slot, Used(i), NEW rif \in Rif, NEW loc \in Loc, NEW hop \in Hop,
         Sent([entries EXCEPT ![i] = Refreshed(entries[i], loc)], i, rif, hop, loc),
         UNCHANGED <<nextPort, cfg, due, up>>
  PROVE  CtInv'
<1>1. NatInv /\ RetryOK(retry) /\ active <= CtCapacity /\ due \in BOOLEAN /\ up \in BOOLEAN
  BY DEF CtInv
<1>2. entries \in Table
  BY ONLY <1>1 DEF NatInv, NatTypeOK, Table
<1>3. entries[i] \in Session
  BY <1>1, UsedIsSession
<1> DEFINE s == Refreshed(entries[i], loc)
           tbl == [entries EXCEPT ![i] = s]
<1>4. s \in Session /\ Tuple(s) = Tuple(entries[i]) /\ s # Free
  BY ONLY <1>3, loc \in Loc, RefreshedSession, SessionNotFree
<1>5. s.hw = entries[i].hw
  BY ONLY <1>3 DEF Refreshed, Session
<1>6. Sent(tbl, i, rif, hop, loc)
  OBVIOUS
<1> HIDE DEF s
<1>7. Good(tbl, conn, adj, active)
  BY <1>4, <1>5, RewrittenGood DEF Used
<1>8. tbl[i] = s /\ SameSessions(entries, tbl)
  BY ONLY <1>2, <1>4, i \in Slot, Used(i) DEF SameSessions, Table, Used
<1> HIDE DEF tbl
<1>9. /\ Good(entries', conn', adj', active') /\ active' <= CtCapacity
      /\ SameSessions(tbl, entries') /\ RetryOK(retry')
  <2>1. CASE entries' = tbl /\ Keep
    BY <1>1, <1>7, <2>1, SameSessionsOrder DEF Keep
  <2>2. CASE Promote(tbl, i, hop, loc)
    <3>1. PICK r \in PromoteResults(tbl, i, hop, loc) :
            /\ entries' = r.tbl /\ conn' = r.conn /\ adj' = r.adj /\ active' = r.active
            /\ retry' = r.retry
      BY <2>2 DEF Promote
    <3>2. Promoted(tbl, r)
      BY <1>1, <1>4, <1>7, <1>8, PromoteGood
    <3>3. QED BY ONLY <3>1, <3>2 DEF Promoted
  <2>3. QED BY <1>6, <2>1, <2>2 DEF Sent
<1>10. SameSessions(entries, entries')
  BY ONLY <1>8, <1>9, SameSessionsOrder
<1>11. NatInv'
  <2>1. NatTypeOK'
    BY <1>1, <1>9 DEF NatInv, NatTypeOK, Good, Table
  <2>2. QED BY <1>1, <1>10, <2>1, ShrinkKeepsTuples DEF SameSessions
<1>12. QED BY <1>1, <1>9, <1>11 DEF CtInv

\* route_arm_frame: a session that allocate_session has just made.
LEMMA InsertFlow ==
  ASSUME CtInv, NEW vr \in Vr, NEW rif \in Rif, NEW p \in OutPkts, NEW loc \in Loc,
         NEW hop \in Hop, NEW i \in Slot, NEW port \in Port,
         InsertsOutbound(vr, rif, p, i, port),
         Sent([entries EXCEPT ![i] = SnatSession(vr, cfg.policy[vr], p, port, loc)],
              i, rif, hop, loc),
         nextPort' = PortAfter(cfg.policy[vr], port),
         UNCHANGED <<cfg, due, up>>
  PROVE  CtInv'
<1>1. NatInv /\ RetryOK(retry) /\ active <= CtCapacity /\ due \in BOOLEAN /\ up \in BOOLEAN
  BY DEF CtInv
<1>2. entries \in Table
  BY ONLY <1>1 DEF NatInv, NatTypeOK, Table
<1> DEFINE s == SnatSession(vr, cfg.policy[vr], p, port, loc)
           tbl == [entries EXCEPT ![i] = s]
<1>3. Sent(tbl, i, rif, hop, loc) /\ s.hw = FALSE
  BY DEF SnatSession
<1>4. /\ s \in Session /\ entries[i] = Free
      /\ PortAfter(cfg.policy[vr], port) \in UInt16
      /\ \A j \in Slot : Used(j) =>
           /\ ~SameReverse(s, entries[j])
           /\ ~SameForward(s, entries[j])
           /\ ~(SamePublicPort(s, entries[j]) /\ (~s.pf \/ ~entries[j].pf))
      /\ Matches(s)
  BY <1>1, NewSnatSession
<1> HIDE DEF s
<1>5. Good(tbl, conn, adj, active)
  BY <1>3, <1>4, RewrittenGood
<1>6. tbl[i] = s /\ s # Free /\ \A j \in Slot : j # i => tbl[j] = entries[j]
  BY ONLY <1>2, <1>4, i \in Slot, SessionNotFree DEF Table
<1> HIDE DEF tbl
<1>7. /\ Good(entries', conn', adj', active') /\ active' <= CtCapacity
      /\ SameSessions(tbl, entries') /\ RetryOK(retry')
  <2>1. CASE entries' = tbl /\ Keep
    BY <1>1, <1>5, <2>1, SameSessionsOrder DEF Keep
  <2>2. CASE Promote(tbl, i, hop, loc)
    <3>1. PICK r \in PromoteResults(tbl, i, hop, loc) :
            /\ entries' = r.tbl /\ conn' = r.conn /\ adj' = r.adj /\ active' = r.active
            /\ retry' = r.retry
      BY <2>2 DEF Promote
    <3>2. Promoted(tbl, r)
      BY <1>1, <1>5, <1>6, PromoteGood
    <3>3. QED BY ONLY <3>1, <3>2 DEF Promoted
  <2>3. QED BY <1>3, <2>1, <2>2 DEF Sent
<1>8. \A j \in Slot : entries'[j] # Free =>
        IF j = i THEN Tuple(entries'[j]) = Tuple(s)
        ELSE entries[j] # Free /\ Tuple(entries'[j]) = Tuple(entries[j])
  BY ONLY <1>6, <1>7 DEF SameSessions
<1>9. entries' \in [Slot -> Session \union {Free}]
  BY ONLY <1>7 DEF Good, Table
<1>10. NatInv'
  BY <1>1, <1>4, <1>8, <1>9, InsertSession
<1>11. QED BY <1>1, <1>7, <1>10 DEF CtInv

\* Changing sessions that hardware does not use, and fields outside the tuple
\* of those it does, keeps the agreement.
LEMMA RetabledGood ==
  ASSUME NEW tbl, NEW cs, NEW at, NEW n, Good(tbl, cs, at, n), NEW u \in Table,
         \A j \in Slot : tbl[j] # Free /\ tbl[j].hw = TRUE =>
           u[j] # Free /\ u[j].hw = TRUE /\ Tuple(u[j]) = Tuple(tbl[j]),
         \A j \in Slot : u[j] # Free /\ u[j].hw = TRUE => tbl[j] # Free /\ tbl[j].hw = TRUE
  PROVE  Good(u, cs, at, n)
<1>1. \A c \in Slot : cs[c] # NoConn =>
        /\ cs[c].sw \in Slot /\ tbl[cs[c].sw] # Free
        /\ tbl[cs[c].sw].hw = TRUE /\ Tuple(tbl[cs[c].sw]) = cs[c].tup
  BY DEF Good, Owned, Conns, Conn
<1>2. \A c \in Slot : cs[c] # NoConn =>
        u[cs[c].sw] # Free /\ u[cs[c].sw].hw = TRUE /\ Tuple(u[cs[c].sw]) = cs[c].tup
  BY <1>1
<1>3. Owned(u, cs)
  BY <1>2 DEF Good, Owned
<1>4. QED BY <1>3 DEF Good

\* The public side: route_nat_ingress_frame leaves hardware sessions alone.
LEMMA InboundFlowStep ==
  ASSUME CtInv, InboundFlow
  PROVE  CtInv'
<1>1. NatInv /\ entries \in Table
  BY DEF CtInv, Good
<1>2. NatInv'
  BY <1>1, InboundHitStep, PortForwardNewStep, RejectStep DEF InboundFlow, NatInbound
<1>3. entries' \in Table
  BY ONLY <1>2 DEF NatInv, NatTypeOK, Table
<1>4. /\ conn' = conn /\ adj' = adj /\ active' = active /\ retry' = retry
      /\ due' = due /\ up' = up
  BY DEF InboundFlow, ctVars
<1>5. PICK vr \in Vr, rif \in Rif, p \in InPkts :
        \/ InboundHit(vr, rif, p) \/ PortForwardNew(vr, rif, p) \/ PortForwardReject(vr, rif, p)
  BY DEF InboundFlow, NatInbound
<1>6. Good(entries', conn, adj, active)
  <2>1. CASE InboundHit(vr, rif, p)
    <3>1. PICK i \in Slot :
            Used(i) /\ entries' = [entries EXCEPT ![i] = Refreshed(entries[i], entries[i].loc)]
      BY <2>1 DEF InboundHit
    <3>2. entries[i] \in Session
      BY <1>1, <3>1, UsedIsSession
    <3>3. entries[i].loc \in Loc \union {NoLoc}
      BY ONLY <3>2 DEF Session
    <3>4. /\ Refreshed(entries[i], entries[i].loc) \in Session
          /\ Tuple(Refreshed(entries[i], entries[i].loc)) = Tuple(entries[i])
      BY ONLY <3>2, <3>3, RefreshedSession
    <3>5. Refreshed(entries[i], entries[i].loc).hw = entries[i].hw
      BY ONLY <3>2 DEF Refreshed, Session
    <3>6. QED BY <3>1, <3>4, <3>5, RewrittenGood DEF Used
  <2>2. CASE PortForwardNew(vr, rif, p)
    <3>1. PICK i \in Slot, r \in cfg.forwards :
            FirstFree(i) /\ entries' = [entries EXCEPT ![i] = DnatSession(vr, r, p)]
      BY <2>2 DEF PortForwardNew
    <3> DEFINE s == DnatSession(vr, r, p)
    <3>2. s.hw = FALSE /\ entries[i] = Free
      BY <3>1 DEF DnatSession, FirstFree, Used
    <3>3. entries'[i] = s
      BY ONLY <1>1, <3>1 DEF Table
    <3>4. s \in Session \union {Free}
      BY ONLY <1>3, <3>3 DEF Table
    <3>5. entries' = [entries EXCEPT ![i] = s]
      BY <3>1
    <3>6. CASE s \in Session
      <4> HIDE DEF s
      <4>1. QED BY <3>2, <3>5, <3>6, RewrittenGood
    <3>7. CASE s = Free
      <4> HIDE DEF s
      <4>1. entries' = entries
        BY ONLY <1>1, <3>2, <3>5, <3>7 DEF Table
      <4>2. QED BY <4>1 DEF CtInv
    <3>8. QED BY ONLY <3>4, <3>6, <3>7
  <2>3. CASE PortForwardReject(vr, rif, p)
    <3>1. PICK i \in Slot :
            Used(i) /\ ~entries[i].hw /\ entries' = [entries EXCEPT ![i] = Free]
      BY <2>3 DEF PortForwardReject
    <3>2. entries'[i] = Free /\ \A j \in Slot : j # i => entries'[j] = entries[j]
      BY ONLY <1>1, <3>1 DEF Table
    <3>3. Good(entries, conn, adj, active)
      BY DEF CtInv
    <3>4. entries[i].hw # TRUE
      BY <3>1
    <3>5. QED BY ONLY <1>3, <3>2, <3>3, <3>4, RetabledGood
  <2>4. QED BY ONLY <1>5, <2>1, <2>2, <2>3
<1>7. QED BY <1>2, <1>4, <1>6 DEF CtInv

\* A step that flushes connections and then only frees or ages sessions that
\* hardware does not use, under the same configuration.
LEMMA FlushedStep ==
  ASSUME CtInv, NEW tbl, SameSessions(entries, tbl), NEW cs, NEW at, NEW n,
         Good(tbl, cs, at, n), n <= active,
         conn' = cs, adj' = at, active' = n, RetryOK(retry'),
         due' \in BOOLEAN, up' \in BOOLEAN, cfg' = cfg, nextPort' = nextPort,
         entries' = [j \in Slot |-> entries'[j]],
         \A j \in Slot : entries'[j] = Free \/ entries'[j] = tbl[j],
         \A j \in Slot : tbl[j] # Free /\ tbl[j].hw = TRUE => entries'[j] = tbl[j]
  PROVE  CtInv'
<1>1. tbl \in Table
  BY DEF Good
<1>2. entries' \in Table
  BY <1>1 DEF Table
<1>3. Good(entries', conn', adj', active')
  BY <1>2, RetabledGood
<1>4. NatInv /\ active <= CtCapacity
  BY DEF CtInv
<1>5. NatTypeOK'
  BY <1>2, <1>4 DEF NatInv, NatTypeOK, Table
<1>6. \A j \in Slot : entries'[j] # Free =>
        entries[j] # Free /\ Tuple(entries'[j]) = Tuple(entries[j])
  BY DEF SameSessions
<1>7. NatInv'
  BY <1>4, <1>5, <1>6, ShrinkKeepsTuples
<1>8. active' <= CtCapacity
  <2>1. n \in Nat /\ active \in Nat
    BY LiveFinite DEF Good, CtInv
  <2>2. QED BY <1>4, <2>1, CtAssumption
<1>9. QED BY <1>3, <1>7, <1>8 DEF CtInv

\* process_packet: an ARP that changes a neighbor revokes every connection.
LEMMA NeighborChangeStep ==
  ASSUME CtInv, NeighborChange
  PROVE  CtInv'
<1>1. PICK f \in FlushResults(entries, conn, adj, active, AllVrs) :
        Revoke(f) /\ entries' = f.tbl /\ up' = f.ok
  BY DEF NeighborChange
<1>2. Good(entries, conn, adj, active) /\ RetryOK(retry) /\ due \in BOOLEAN
  BY DEF CtInv
<1>3. /\ Good(f.tbl, f.conn, f.adj, f.active) /\ f.active <= active
      /\ SameSessions(entries, f.tbl) /\ f.ok \in BOOLEAN
  BY ONLY <1>2, FlushGood
<1>4. f.tbl = [j \in Slot |-> f.tbl[j]]
  BY ONLY <1>3 DEF Good, Table
<1>5. cfg' = cfg /\ nextPort' = nextPort /\ retry' = retry /\ due' = due
  BY DEF NeighborChange
<1>6. QED BY <1>1, <1>2, <1>3, <1>4, <1>5, FlushedStep DEF Revoke

\* eswitch_manager_maintenance: expiry of the connections, then router_nat_age.
LEMMA MaintenanceStep ==
  ASSUME CtInv, Maintenance
  PROVE  CtInv'
<1>1. PICK f \in Expiry : Revoke(f) /\ entries' = Aged(f.tbl)
  BY DEF Maintenance
<1>2. Good(entries, conn, adj, active) /\ RetryOK(retry) /\ up \in BOOLEAN
  BY DEF CtInv
<1>3. active <= active
  BY ONLY <1>2, LiveFinite DEF Good
<1>4. /\ Good(f.tbl, f.conn, f.adj, f.active) /\ f.active <= active
      /\ SameSessions(entries, f.tbl)
  <2>1. CASE LeaseOver
    BY ONLY <1>2, <2>1, f \in Expiry, FlushGood DEF Expiry
  <2>2. CASE ~LeaseOver
    <3>1. f = [tbl |-> entries, conn |-> conn, adj |-> adj, active |-> active, ok |-> TRUE]
      BY ONLY <2>2, f \in Expiry DEF Expiry
    <3>2. f.tbl = entries /\ f.conn = conn /\ f.adj = adj /\ f.active = active
      BY ONLY <3>1
    <3>3. QED BY ONLY <1>2, <1>3, <3>2, SameSessionsOrder
  <2>3. QED BY ONLY <2>1, <2>2
<1>5. /\ Aged(f.tbl) = [j \in Slot |-> Aged(f.tbl)[j]]
      /\ \A j \in Slot : Aged(f.tbl)[j] = Free \/ Aged(f.tbl)[j] = f.tbl[j]
      /\ \A j \in Slot : f.tbl[j] # Free /\ f.tbl[j].hw = TRUE => Aged(f.tbl)[j] = f.tbl[j]
  BY ONLY DEF Aged, Expired
<1>6. cfg' = cfg /\ nextPort' = nextPort /\ retry' = retry /\ due' = FALSE /\ up' = up
  BY DEF Maintenance
<1>7. QED BY <1>1, <1>2, <1>4, <1>5, <1>6, FlushedStep DEF Revoke

\* router_control_command: the configuration changes only once every connection
\* and with it every session is gone.
LEMMA RouterControlStep ==
  ASSUME CtInv, NEW c \in Configs, RouterControl(c)
  PROVE  CtInv'
<1>1. PICK f \in FlushResults(entries, conn, adj, active, AllVrs) :
        /\ Revoke(f)
        /\ entries' = IF f.ok THEN Flushed(f.tbl) ELSE f.tbl
        /\ cfg' \in IF f.ok THEN {c, cfg} ELSE {cfg}
  BY DEF RouterControl
<1>2. Good(entries, conn, adj, active) /\ RetryOK(retry) /\ due \in BOOLEAN /\ up \in BOOLEAN
  BY DEF CtInv
<1>3. /\ Good(f.tbl, f.conn, f.adj, f.active) /\ f.active <= active
      /\ SameSessions(entries, f.tbl) /\ f.ok \in BOOLEAN
      /\ f.ok = TRUE => \A i \in Slot : f.conn[i] = NoConn
                                        /\ (f.tbl[i] # Free => f.tbl[i].hw = FALSE)
  BY ONLY <1>2, FlushGood
<1>4. f.tbl = [j \in Slot |-> f.tbl[j]]
  BY ONLY <1>3 DEF Good, Table
<1>5. nextPort' = nextPort /\ retry' = retry /\ due' = due /\ up' = up
  BY DEF RouterControl
<1>6. CASE f.ok = FALSE
  <2>1. entries' = f.tbl /\ cfg' = cfg
    BY ONLY <1>1, <1>6
  <2>2. QED BY <1>1, <1>2, <1>3, <1>4, <1>5, <2>1, FlushedStep DEF Revoke
<1>7. CASE f.ok = TRUE
  <2>1. entries' = Flushed(f.tbl) /\ cfg' \in {c, cfg}
    BY ONLY <1>1, <1>7
  <2>2. entries' = [i \in Slot |-> Free]
    BY ONLY <1>3, <1>7, <2>1 DEF Flushed
  <2>3. NatInv /\ active <= CtCapacity
    BY DEF CtInv
  <2>4. cfg' \in Configs
    BY <2>1, <2>3 DEF NatInv, NatTypeOK
  <2>5. NatInv'
    BY <1>5, <2>2, <2>3, <2>4, EmptyTable
  <2>6. entries' \in Table
    BY ONLY <2>2 DEF Table
  <2>7. Good(entries', f.conn, f.adj, f.active)
    BY ONLY <1>3, <1>7, <2>2, <2>6, RetabledGood
  <2>8. f.active <= CtCapacity
    <3>1. f.active \in Nat /\ active \in Nat
      BY ONLY <1>2, <1>3, LiveFinite DEF Good
    <3>2. QED BY ONLY <1>3, <2>3, <3>1, CtAssumption
  <2>9. QED BY <1>1, <1>2, <1>5, <2>5, <2>7, <2>8 DEF CtInv, Revoke
<1>8. QED BY ONLY <1>3, <1>6, <1>7

\* Time passes: ages grow, leases and the backoff count down.
LEMMA ClockStep ==
  ASSUME CtInv, Clock
  PROVE  CtInv'
<1>1. /\ NatInv /\ Good(entries, conn, adj, active) /\ active <= CtCapacity
      /\ RetryOK(retry) /\ up \in BOOLEAN
  BY DEF CtInv
<1>2. /\ entries \in Table /\ conn \in Conns /\ adj \in Adjs
      /\ Owned(entries, conn) /\ Bound(conn, adj) /\ active = Cardinality(Live(conn))
  BY ONLY <1>1 DEF Good
<1>3. /\ Tick /\ adj' = adj /\ active' = active /\ up' = up /\ due' = TRUE
      /\ retry' = [retry EXCEPT !.wait = Less(@)]
      /\ conn' = [c \in Slot |-> IF Present(conn, c)
                                 THEN [conn[c] EXCEPT !.left = Less(@)] ELSE NoConn]
  BY DEF Clock
<1>4. NatInv'
  BY <1>1, <1>3, TickStep
<1>5. \A j \in Slot : entries'[j] = IF entries[j] # Free THEN Older(entries[j]) ELSE Free
  BY ONLY <1>3 DEF Tick, Used
<1>6. \A s \in Session : Older(s) # Free /\ Older(s).hw = s.hw /\ Tuple(Older(s)) = Tuple(s)
  <2> TAKE s \in Session
  <2>1. Older(s).hw = s.hw
    BY DEF Older, Session
  <2>2. QED BY <2>1, OlderSession, SessionNotFree
<1>7. \A j \in Slot : entries[j] # Free => entries[j] \in Session
  BY ONLY <1>2, TableSession
<1>8. entries' \in Table
  BY ONLY <1>4 DEF NatInv, NatTypeOK, Table
<1>9. Good(entries', conn, adj, active)
  <2>1. \A j \in Slot : entries[j] # Free =>
          /\ entries'[j] # Free /\ entries'[j].hw = entries[j].hw
          /\ Tuple(entries'[j]) = Tuple(entries[j])
    BY ONLY <1>5, <1>6, <1>7
  <2>2. \A j \in Slot : entries'[j] # Free => entries[j] # Free
    BY ONLY <1>5
  <2>3. QED BY ONLY <1>1, <1>8, <2>1, <2>2, RetabledGood
<1>10. \A c \in Slot :
         /\ conn'[c] = NoConn <=> conn[c] = NoConn
         /\ conn'[c] \in Conn \union {NoConn}
         /\ conn[c] # NoConn =>
              /\ conn'[c].sw = conn[c].sw /\ conn'[c].tup = conn[c].tup
              /\ conn'[c].origin = conn[c].origin /\ conn'[c].reply = conn[c].reply
              /\ conn'[c].hop = conn[c].hop /\ conn'[c].loc = conn[c].loc
  <2> TAKE c \in Slot
  <2>1. CASE conn[c] = NoConn
    <3>1. conn'[c] = NoConn
      BY ONLY <1>3, <2>1, c \in Slot DEF Present
    <3>2. QED BY ONLY <2>1, <3>1
  <2>2. CASE conn[c] # NoConn
    <3>1. conn[c] \in Conn
      BY ONLY <1>2, <2>2, c \in Slot DEF Conns
    <3>2. conn'[c] = [conn[c] EXCEPT !.left = Less(conn[c].left)]
      BY ONLY <1>3, <2>2, <3>1, c \in Slot DEF Present
    <3>3. conn[c].left \in 0..Lease
      BY ONLY <3>1 DEF Conn
    <3>4. Less(conn[c].left) \in 0..Lease
      BY ONLY <3>3, CtAssumption DEF Less
    <3>5. conn'[c] \in Conn
      BY ONLY <3>1, <3>2, <3>4 DEF Conn
    <3>6. /\ conn'[c].sw = conn[c].sw /\ conn'[c].tup = conn[c].tup
          /\ conn'[c].origin = conn[c].origin /\ conn'[c].reply = conn[c].reply
          /\ conn'[c].hop = conn[c].hop /\ conn'[c].loc = conn[c].loc
      BY ONLY <3>1, <3>2 DEF Conn
    <3>7. QED BY ONLY <2>2, <3>5, <3>6, Markers
  <2>3. QED BY ONLY <2>1, <2>2
<1>11. conn' \in Conns
  <2>1. conn' = [c \in Slot |-> conn'[c]]
    BY ONLY <1>3
  <2>2. QED BY ONLY <1>10, <2>1 DEF Conns
<1>12. Owned(entries', conn')
  <2>1. Owned(entries', conn)
    BY ONLY <1>9 DEF Good
  <2>2. QED BY ONLY <1>10, <2>1 DEF Owned
<1>13. Bound(conn', adj)
  BY ONLY <1>2, <1>10 DEF Bound
<1>14. Live(conn') = Live(conn)
  BY ONLY <1>10 DEF Live
<1>15. Good(entries', conn', adj', active')
  BY ONLY <1>2, <1>3, <1>8, <1>11, <1>12, <1>13, <1>14 DEF Good
<1>16. RetryOK(retry')
  <2>1. /\ retry.wait \in 0..RetryCap /\ retry.delay \in 0..RetryCap
        /\ retry.wait <= retry.delay
    BY ONLY <1>1 DEF RetryOK
  <2>2. Less(retry.wait) \in 0..RetryCap /\ Less(retry.wait) <= retry.delay
    BY ONLY <2>1, CtAssumption DEF Less
  <2>3. QED BY ONLY <1>1, <1>3, <2>2 DEF RetryOK
<1>17. QED BY <1>1, <1>3, <1>4, <1>15, <1>16 DEF CtInv

-----------------------------------------------------------------------------
\* At start both tables are empty.
LEMMA CtInvInit ==
  ASSUME CtInit
  PROVE  CtInv
<1>1. NatInv
  BY NatInvInit DEF CtInit
<1>2. /\ entries = [i \in Slot |-> Free] /\ conn = [c \in Slot |-> NoConn]
      /\ adj = [a \in AdjId |-> NoAdj]
      /\ active = 0 /\ retry = NoRetry /\ due = FALSE /\ up = TRUE
  BY DEF CtInit, NatInit
<1>3. Live(conn) = {}
  BY ONLY <1>2 DEF Live
<1>4. active = Cardinality(Live(conn))
  BY ONLY <1>2, <1>3, FS_EmptySet
<1>5. Good(entries, conn, adj, active)
  BY ONLY <1>2, <1>4 DEF Good, Owned, Bound, Table, Conns, Adjs
<1>6. active <= CtCapacity /\ RetryOK(retry)
  BY ONLY <1>2, CtAssumption DEF RetryOK, NoRetry
<1>7. QED BY ONLY <1>1, <1>2, <1>5, <1>6 DEF CtInv

\* Every handler preserves CtInv, and so does a stuttering step.
LEMMA CtInvStep ==
  ASSUME CtInv, [CtNext]_<<natVars, ctVars>>
  PROVE  CtInv'
<1>1. ASSUME NEW vr \in Vr, NEW rif \in Rif, NEW p \in OutPkts, NEW loc \in Loc, NEW hop \in Hop,
             OutboundFlow(vr, rif, p, loc, hop)
      PROVE  CtInv'
  <2>1. UNCHANGED <<cfg, due, up>>
    BY <1>1 DEF OutboundFlow
  <2>2. PICK i \in Slot :
          \/ /\ HitsOutbound(vr, rif, p, i)
             /\ Sent([entries EXCEPT ![i] = Refreshed(entries[i], loc)], i, rif, hop, loc)
             /\ UNCHANGED nextPort
          \/ \E port \in Port :
               /\ InsertsOutbound(vr, rif, p, i, port)
               /\ Sent([entries EXCEPT ![i] = SnatSession(vr, cfg.policy[vr], p, port, loc)],
                       i, rif, hop, loc)
               /\ nextPort' = PortAfter(cfg.policy[vr], port)
    BY <1>1 DEF OutboundFlow
  <2>3. CASE /\ HitsOutbound(vr, rif, p, i)
             /\ Sent([entries EXCEPT ![i] = Refreshed(entries[i], loc)], i, rif, hop, loc)
             /\ UNCHANGED nextPort
    <3>1. Used(i)
      BY ONLY <2>3 DEF HitsOutbound
    <3>2. QED BY <2>1, <2>3, <3>1, RefreshFlow
  <2>4. CASE \E port \in Port :
               /\ InsertsOutbound(vr, rif, p, i, port)
               /\ Sent([entries EXCEPT ![i] = SnatSession(vr, cfg.policy[vr], p, port, loc)],
                       i, rif, hop, loc)
               /\ nextPort' = PortAfter(cfg.policy[vr], port)
    BY <2>1, <2>4, InsertFlow
  <2>5. QED BY ONLY <2>2, <2>3, <2>4
<1>2. CASE InboundFlow
  BY <1>2, InboundFlowStep
<1>3. CASE NeighborChange
  BY <1>3, NeighborChangeStep
<1>4. CASE Maintenance
  BY <1>4, MaintenanceStep
<1>5. CASE \E c \in Configs : RouterControl(c)
  BY <1>5, RouterControlStep
<1>6. CASE Clock
  BY <1>6, ClockStep
<1>7. CASE UNCHANGED <<natVars, ctVars>>
  <2>1. /\ entries' = entries /\ nextPort' = nextPort /\ cfg' = cfg /\ conn' = conn
        /\ adj' = adj /\ active' = active /\ retry' = retry /\ due' = due /\ up' = up
    BY <1>7 DEF natVars, ctVars
  <2>2. NatInv'
    <3>1. UNCHANGED natVars
      BY <2>1 DEF natVars
    <3>2. QED BY <3>1, NatInvStep DEF CtInv
  <2>3. QED BY <2>1, <2>2 DEF CtInv
<1>8. QED BY <1>1, <1>2, <1>3, <1>4, <1>5, <1>6, <1>7 DEF CtNext

\* The inductive invariant of the CT offload holds in every reachable state.
THEOREM CtInvariant == CtSpec => []CtInv
<1>1. CtInit => CtInv
  BY CtInvInit
<1>2. CtInv /\ [CtNext]_<<natVars, ctVars>> => CtInv'
  BY CtInvStep
<1>3. QED BY <1>1, <1>2, PTL DEF CtSpec

\* Connections, adjacencies, ct_active and the backoff keep their types; the
\* backoff delay never exceeds its cap.
THEOREM CtTypes == CtSpec => []CtTypeOK
<1>1. CtInv => CtTypeOK
  <2> SUFFICES ASSUME CtInv PROVE CtTypeOK
    OBVIOUS
  <2>1. NatTypeOK /\ due \in BOOLEAN /\ up \in BOOLEAN
    BY DEF CtInv, NatInv
  <2>2. conn \in Conns /\ adj \in Adjs /\ active = Cardinality(Live(conn))
    BY DEF CtInv, Good
  <2>3. active \in 0..MaxSessions
    BY ONLY <2>2, LiveFinite, ConstantsAssumption
  <2>4. retry.delay \in 0..RetryCap /\ retry.wait \in 0..retry.delay
    BY CtAssumption DEF CtInv, RetryOK
  <2>5. QED BY ONLY <2>1, <2>2, <2>3, <2>4 DEF CtTypeOK, Conns, Adjs
<1>2. QED BY <1>1, CtInvariant, PTL

\* Hardware and software agree on ownership whichever calls fail: every CT
\* entry has its own owner with its tuple, every hardware_active session an entry.
THEOREM ConnectionsOwned == CtSpec => []ConnectionOwned
<1>1. CtInv => ConnectionOwned
  <2> SUFFICES ASSUME CtInv PROVE ConnectionOwned
    OBVIOUS
  <2>1. Owned(entries, conn)
    BY DEF CtInv, Good
  <2>2. QED BY ONLY <2>1 DEF Owned, ConnectionOwned, Present, Used
<1>2. QED BY <1>1, CtInvariant, PTL

\* No session other than its owner has the public and remote endpoint of an
\* installed connection: hardware never translates for the wrong guest.
THEOREM TranslationsNeverStale == CtSpec => []NoStaleTranslation
<1>1. CtInv => NoStaleTranslation
  <2> SUFFICES ASSUME CtInv, NEW c \in Slot, NEW i \in Slot,
                      Present(conn, c), Used(i), i # conn[c].sw,
                      LET t == conn[c].tup
                          s == entries[i]
                      IN <<s.vr, s.proto, s.rip, s.rport, s.pip, s.pport>>
                           = <<t[1], t[2], t[6], t[7], t[8], t[9]>>
               PROVE  FALSE
    BY DEF NoStaleTranslation
  <2> DEFINE o == entries[conn[c].sw]
  <2>1. /\ conn[c].sw \in Slot /\ entries[conn[c].sw] # Free
        /\ Tuple(o) = conn[c].tup
    BY DEF CtInv, Good, Owned, Conns, Conn, Present
  <2>2. /\ conn[c].tup[1] = o.vr /\ conn[c].tup[2] = o.proto /\ conn[c].tup[6] = o.rip
        /\ conn[c].tup[7] = o.rport /\ conn[c].tup[8] = o.pip /\ conn[c].tup[9] = o.pport
    BY ONLY <2>1 DEF Tuple
  <2>3. ReverseTupleUnique
    BY DEF CtInv, NatInv
  <2>4. QED BY <2>1, <2>2, <2>3 DEF ReverseTupleUnique, Used
<1>2. QED BY <1>1, CtInvariant, PTL

\* ct_active is the number of CT entries, through every partial failure, and
\* never exceeds the capacity.
THEOREM ActiveCountExact == CtSpec => []ActiveCount
<1>1. CtInv => ActiveCount
  BY DEF CtInv, Good, ActiveCount, Live, Present
<1>2. QED BY <1>1, CtInvariant, PTL

\* Both adjacencies of a connection stay in place and bound to its next hops
\* for as long as it exists (eswitch_pipeline_ct_flush reclaims them last).
THEOREM AdjacenciesStayLive == CtSpec => []AdjacencyLive
<1>1. CtInv => AdjacencyLive
  BY DEF CtInv, Good, Bound, AdjacencyLive, Present
<1>2. QED BY <1>1, CtInvariant, PTL
=============================================================================
