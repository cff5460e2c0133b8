------------------------------ MODULE MCNatCt -------------------------------
(***************************************************************************)
(* A small instance of NatCt: two VRs whose guests use the same tuples     *)
(* towards one remote endpoint, one or two public ports each, and two      *)
(* session slots.  The cfgs choose one guest or two, the capacity of the   *)
(* CT table and whether a guest may move (two members of Loc).             *)
(***************************************************************************)
EXTENDS NatCt

CONSTANT Guest   \* addresses of the guests

MCVr   == {1, 2}
MCRif  == {"wan"}
MCIp   == {"w", "x"} \union Guest
MCPort == {80, 1024, 1025}

MCPolicy(last) == [rif |-> "wan", addr |-> "w", first |-> 1024, last |-> last]

MCConfigs ==
  { [policy |-> [vr \in MCVr |-> MCPolicy(1024)], forwards |-> {}],
    [policy |-> [vr \in MCVr |-> IF vr = 1 THEN MCPolicy(1025) ELSE NoPolicy],
     forwards |-> {}] }

MCFlow(proto, sip, sport, dip, dport) ==
  [proto |-> proto, sip |-> sip, sport |-> sport, dip |-> dip, dport |-> dport]

MCOutPkts == {MCFlow("udp", g, 80, "x", 80) : g \in Guest}
MCInPkts  == {MCFlow("udp", "x", 80, "w", 1024)}
=============================================================================
