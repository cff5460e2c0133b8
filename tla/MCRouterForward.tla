-------------------------- MODULE MCRouterForward ---------------------------
(***************************************************************************)
(* RouterForward with 3-bit addresses: the lengths 2 and 3 play /31 and    *)
(* /32.  RIF 1 and the uplink 2 belong to one VR and 3 to another one that *)
(* uses the same addresses.  A static prefix may equal a connected one,    *)
(* lie within it or cover it.                                              *)
(***************************************************************************)
EXTENDS RouterForward

MCVrOf        == [r \in Rif |-> IF r = 3 THEN 2 ELSE 1]
MCIfAddress   == {<<5, 1>>, <<3, 2>>}
MCRoutePrefix == {<<0, 0>>, <<2, 2>>, <<6, 3>>}

\* A static prefix, not the default, that covers a connected subnet.
MCTwoSubnets     == {<<3, 2>>, <<5, 2>>}
MCCoveringPrefix == {<<4, 1>>}

=============================================================================
