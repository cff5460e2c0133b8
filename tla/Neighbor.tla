------------------------------- MODULE Neighbor ------------------------------
(***************************************************************************)
(* The neighbor table of router/router_neighbor.c: which MAC address and   *)
(* port a next hop is reached through.                                     *)
(*                                                                         *)
(* A next hop is a RIF id and an address; the ids of all VRs come from one *)
(* counter, so the id implies the VR.  `age` is now - last_seen_ns and     *)
(* `probe` is now - last_probe_ns in seconds, capped one past the longest  *)
(* interval, where every comparison is decided; a last_probe_ns of zero is *)
(* the cap.  An entry that has not been resolved has port id Zero.         *)
(***************************************************************************)
EXTENDS Naturals, Sequences, FiniteSets

CONSTANTS
  Rif,          \* interface ids, 16 bits
  Ip,           \* next-hop addresses
  Mac, Port,    \* stations' addresses, DPDK port ids
  Zero, NoMac,  \* the zeroed fields of an unresolved entry
  NbrCapacity,  \* ROUTER_MAX_NEIGHBORS
  Reachable,    \* ROUTER_NEIGHBOR_REACHABLE_NS
  RefreshDue,   \* ROUTER_NEIGHBOR_REFRESH_DUE_NS
  ProbeEvery,   \* ROUTER_NEIGHBOR_PROBE_NS
  RefreshEvery, \* ROUTER_NEIGHBOR_REFRESH_NS
  Free          \* an unused slot

MaxInterfaceId == 65535

ASSUME NeighborAssumption ==
  /\ Rif \subseteq 1..MaxInterfaceId
  /\ NbrCapacity \in Nat \ {0}
  /\ ProbeEvery \in Nat \ {0} /\ RefreshEvery \in Nat \ {0}
  /\ RefreshDue \in Nat /\ Reachable \in Nat /\ RefreshDue <= Reachable
  /\ ProbeEvery <= Reachable

NextHop == Rif \X Ip
NbrTime == 0..(Reachable + 1)
NbrEntry == [res : BOOLEAN, port : Port \union {Zero}, mac : Mac \union {NoMac},
             age : NbrTime, probe : NbrTime]

Later(n) == IF n <= Reachable THEN n + 1 ELSE n

NbrUsed(t) == {k \in NextHop : t[k] # Free}

\* allocate_neighbor: the entry of k, a new one, or Free when the table is full.
Unresolved ==
  [res |-> FALSE, port |-> Zero, mac |-> NoMac, age |-> Reachable + 1,
   probe |-> Reachable + 1]

allocate_neighbor(t, k) ==
  IF t[k] # Free \/ Cardinality(NbrUsed(t)) >= NbrCapacity THEN t[k] ELSE Unresolved

(***************************************************************************)
(* learn_on_interface, once the ARP frame has passed its format checks and *)
(* the sender lies in the subnet of the RIF.                               *)
(***************************************************************************)
Changed(e, p, m) == ~ e.res \/ e.port # p \/ e.mac # m

LearnChanges(t, k, p, m) ==
  allocate_neighbor(t, k) # Free /\ Changed(allocate_neighbor(t, k), p, m)

learn_on_interface(t, k, p, m) ==
  LET e == allocate_neighbor(t, k)
  IN IF e = Free THEN t
     ELSE [t EXCEPT ![k] =
            [e EXCEPT !.res = TRUE, !.port = p, !.mac = m,
                      !.age = IF Changed(e, p, m) \/ e.age >= RefreshEvery THEN 0 ELSE @]]

router_neighbor_lookup(t, k) == t[k] # Free /\ t[k].res /\ t[k].age <= Reachable

(***************************************************************************)
(* router_neighbor_should_probe as the decision and the table it leaves.   *)
(***************************************************************************)
ProbeDue(t, k) ==
  LET e == allocate_neighbor(t, k) IN e # Free /\ e.probe >= ProbeEvery

Probed(t, k) ==
  IF ProbeDue(t, k) THEN [t EXCEPT ![k] = [allocate_neighbor(t, k) EXCEPT !.probe = 0]]
  ELSE [t EXCEPT ![k] = allocate_neighbor(t, k)]

\* Mutant: a resolved neighbor is not refreshed before it expires.
RefreshIfLost(t, k) == ~ router_neighbor_lookup(t, k)

router_neighbor_needs_refresh(t, k) ==
  t[k] = Free \/ ~ t[k].res \/ t[k].age >= RefreshDue

AgedOut(e) == (IF e.res THEN e.age ELSE e.probe) > Reachable

router_neighbor_age(t) ==
  [k \in NextHop |-> IF t[k] # Free /\ AgedOut(t[k]) THEN Free ELSE t[k]]

router_neighbor_invalidate_port(t, p) ==
  [k \in NextHop |-> IF t[k] # Free /\ t[k].port = p THEN Free ELSE t[k]]

NbrTick(t) ==
  [k \in NextHop |-> IF t[k] = Free THEN Free
                     ELSE [t[k] EXCEPT !.age = Later(@), !.probe = Later(@)]]

NoNeighbors == [k \in NextHop |-> Free]
=============================================================================
