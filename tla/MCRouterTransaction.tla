------------------------ MODULE MCRouterTransaction ------------------------
(***************************************************************************)
(* RouterTransaction on three RIFs: 1 and 3 on vSwitches, 2 on the uplink. *)
(* The configurations are one command apart: attach and detach, address,   *)
(* MAC, policies, routes.  The next hop of the routes has two MACs.        *)
(***************************************************************************)
EXTENDS RouterTransaction

On(at, mac, addressed) == [at |-> at, mac |-> mac, addressed |-> addressed]
Make(a, b, c, acl, deny, keys) ==
  [rif |-> <<a, b, c>>, acl |-> <<acl, None, None>>, deny |-> <<deny, None, None>>,
   plan |-> keys \X Hop]

Guest == On("v1", "m1", TRUE)
GuestMoved == On("v1", "m2", TRUE)
GuestBare == On("v1", "m1", FALSE)
Uplink == On("p1", "m3", TRUE)
UplinkBare == On("p1", "m3", FALSE)
Second == On("v2", "m4", TRUE)
SecondBare == On("v2", "m4", FALSE)

OneOrNone == {{}} \union {{h} : h \in Hop}

\* The last one does not fit into two contexts.
MCConfigs ==
  {Make(Guest, None, None, "g1", None, {}),
   Make(Guest, UplinkBare, None, "g1", None, {}),
   Make(Guest, Uplink, None, "g1", None, {}),
   Make(GuestMoved, Uplink, None, "g1", None, {}),
   Make(GuestBare, Uplink, None, "g1", "d1", {}),
   Make(Guest, Uplink, None, "g1", "d1", {}),
   Make(Guest, Uplink, None, "g2", "d1", {}),
   Make(Guest, Uplink, None, "g1", None, {"k1"}),
   Make(Guest, Uplink, SecondBare, "g1", None, {"k1"}),
   Make(Guest, Uplink, Second, "g1", None, {"k1"})}

=============================================================================
