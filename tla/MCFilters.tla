----------------------------- MODULE MCFilters ------------------------------
(***************************************************************************)
(* EgressAcl and IngressDeny on one set of plan parameters.  The two       *)
(* filters belong to different interfaces and share no state, so what one  *)
(* of them does is looked at while the other is in its initial state.      *)
(***************************************************************************)
EXTENDS EgressAcl, IngressDeny

MCRule(id, proto, peers, first, last, type, code, allow) ==
  [id |-> id, proto |-> proto, peers |-> peers, first |-> first, last |-> last,
   type |-> type, code |-> code, allow |-> allow]

MCTransport == [proto : {TCP, UDP}, peer : {1, 2}, port : Port, type : {0}, code : {0}]

\* Egress: the rules overlap in protocol, ports and peers, with ids that
\* disagree with the order of their actions.  Peer 1 may become an address of
\* the router.
MCInputRule ==
  {MCRule(1, ICMP, {1, 2}, 0, 0, 0, -1, FALSE), MCRule(2, TCP, {1, 2}, 1, 2, -1, -1, TRUE),
   MCRule(3, 0, {1}, 0, 0, -1, -1, FALSE),      MCRule(4, UDP, {1, 2}, 1, 3, -1, -1, TRUE)}

MCFlow(proto, peer, port) == [proto |-> proto, peer |-> peer, port |-> port, type |-> 0, code |-> 0]
MCPacket == MCTransport \union [proto : {ICMP}, peer : {2}, port : {0}, type : {0, 1}, code : {0}]
MCReply  == {MCFlow(TCP, 2, 1), MCFlow(UDP, 2, 3)}
MCSent   == MCReply \union {MCFlow(TCP, 1, 2), MCFlow(UDP, 1, 3)}

\* Ingress: rules narrowed by peer, port, type, code and action.
MCInRule ==
  {MCRule(1, TCP, {1}, 1, 2, -1, -1, TRUE),  MCRule(2, UDP, {1, 2}, 5, 7, -1, -1, TRUE),
   MCRule(3, ICMP, {1, 2}, 0, 0, 2, 0, TRUE), MCRule(4, 0, {2}, 0, 0, -1, -1, FALSE),
   MCRule(5, 0, {1}, 0, 0, -1, -1, TRUE)}

MCInPacket ==
  MCTransport \union [proto : {ICMP}, peer : {1, 2}, port : {4}, type : Byte, code : Byte]

MCNatRange == {{4}, 3 .. 6}

FiltersNext ==
  \/ /\ <<pub.addressed, pub.policy, pub.nat>> = <<FALSE, NoPolicy, {}>>
     /\ EgressNext
     /\ UNCHANGED inVars
  \/ /\ <<conf.policy, conf.local, conf.forwards>> = <<NoPolicy, {}, FALSE>>
     /\ sessions = NoSessions
     /\ IngressNext
     /\ UNCHANGED egVars

FiltersInit == EgressInit /\ IngressInit

FiltersSpec ==
  /\ FiltersInit /\ [][FiltersNext]_<<egVars, inVars>>
  /\ FairMaintenance
=============================================================================
