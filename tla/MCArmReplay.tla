----------------------------- MODULE MCArmReplay ----------------------------
(***************************************************************************)
(* RIFs 1 and 3 are a vSwitch's, one after the other; RIF 2 is an uplink   *)
(* port.  f1 goes out, f2 comes in.                                        *)
(***************************************************************************)
EXTENDS ArmReplay, TLC

CONSTANTS v1, p1, p2, p3, g, f1, f2

MCAttachment == (1 :> v1) @@ (2 :> p2) @@ (3 :> v1)
MCIngress == (f1 :> 1) @@ (f2 :> 2)

Cfg(live, r1, r2, hops) ==
  [live |-> live, route |-> (f1 :> r1) @@ (f2 :> r2), hops |-> hops]

Uplink == <<2, g>>

MCConfigs ==
  { Cfg({}, NoRoute, NoRoute, <<>>),
    Cfg({1, 2}, Uplink, <<1, g>>, <<Uplink>>),
    Cfg({2, 3}, NoRoute, <<3, g>>, <<Uplink>>) }

MCPrompt == {Uplink}
=============================================================================
