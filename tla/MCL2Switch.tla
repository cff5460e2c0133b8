----------------------------- MODULE MCL2Switch -----------------------------
(***************************************************************************)
(* Two vSwitches, the card's own port and two VFs.  RIF 1 is on vSwitch 1, *)
(* RIF 2 has a VF as the uplink of the same VR.                            *)
(***************************************************************************)
EXTENDS L2Switch

CONSTANTS p0, vf, vf2

Access(v) == [mode |-> "access", first |-> v, last |-> v, xfirst |-> 0, xlast |-> 0]
Trunk(f, l, xf, xl) == [mode |-> "trunk", first |-> f, last |-> l, xfirst |-> xf, xlast |-> xl]

\* Untagged access, the exact trunk, two lists that meet only in their second
\* ranges, and a list that overlaps itself.
MCRequest == {Access(0), Trunk(2, 0, 0, 0), Trunk(1, 0, 3, 0), Trunk(2, 0, 3, 0), Trunk(1, 2, 2, 3)}

MCRifAt == 1 :> 1 @@ 2 :> vf
MCRifVr == 1 :> 7 @@ 2 :> 7

=============================================================================
