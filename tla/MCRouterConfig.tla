--------------------------- MODULE MCRouterConfig ---------------------------
(***************************************************************************)
(* Small instances of RouterConfig and RouterReload.                       *)
(***************************************************************************)
EXTENDS RouterReload

MCOneVr   == {1}
MCTwoVrs  == {1, 2}

\* A single port, and a range that overlaps it on the public side.
MCForward ==
  { [proto |-> "tcp", pub |-> {80}, ip |-> "g", priv |-> {80}],
    [proto |-> "tcp", pub |-> {80, 81}, ip |-> "g", priv |-> {90, 91}] }

\* The MAC interface 2 of VR 1 gets by default, and one outside the scheme.
MCMacs == {<<1, 2>>, <<0, 7>>}

\* Names, and networks none of which contains another, are interchangeable.
MCSymmetry == Permutations(Name) \union Permutations(Net)

MCNested == {<<"n1", "n2">>}
=============================================================================
