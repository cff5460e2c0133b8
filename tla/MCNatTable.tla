----------------------------- MODULE MCNatTable -----------------------------
(***************************************************************************)
(* A small instance of NatTable: one VR with an uplink, two guests and one *)
(* remote host.  The configurations cover a dynamic range next to a        *)
(* forwarded port, a range inside which a forwarded port lies, and two     *)
(* single-port rules that share a private endpoint.  Ranges end at the     *)
(* last port there is, where the cyclic scan must wrap.                    *)
(***************************************************************************)
EXTENDS NatTable, TLC

MCVr    == {1}
MCRif   == {"wan", "dmz"}
MCIp    == {"w", "g1", "g2", "x"}
MCPort  == {0, 80, 81, 65533, 65534, 65535}

MCForward(rif, first, last, priv, pfirst) ==
  [vr |-> 1, rif |-> rif, proto |-> "tcp", addr |-> "w",
   first |-> first, last |-> last, priv |-> priv, pfirst |-> pfirst]

MCPolicy(first, last) ==
  [rif |-> "wan", addr |-> "w", first |-> first, last |-> last]

MCConfigs ==
  { [policy   |-> [vr \in MCVr |-> MCPolicy(65533, 65535)],
     forwards |-> {MCForward("wan", 65534, 65534, "g1", 80)}],
    [policy   |-> [vr \in MCVr |-> MCPolicy(65534, 65535)],
     forwards |-> {}],
    [policy   |-> [vr \in MCVr |-> NoPolicy],
     forwards |-> {MCForward("dmz", 65533, 65534, "g1", 80)}],
    [policy   |-> [vr \in MCVr |-> MCPolicy(65533, 65533)],
     forwards |-> {MCForward("wan", 65534, 65534, "g1", 80),
                   MCForward("wan", 65535, 65535, "g1", 80)}] }

MCFlow(proto, sip, sport, dip, dport) ==
  [proto |-> proto, sip |-> sip, sport |-> sport, dip |-> dip, dport |-> dport]

MCOutPkts ==
  { MCFlow("tcp", "g1", 80, "x", 80), MCFlow("tcp", "g2", 80, "x", 80),
    MCFlow("icmp", "g1", 80, "x", 0) }

MCInPkts ==
  { MCFlow("tcp", "x", 80, "w", port) : port \in {65533, 65534, 65535} }
    \union { MCFlow("tcp", "x", 81, "w", 65534), MCFlow("icmp", "x", 0, "w", 65533) }
=============================================================================
