--------------------------- MODULE ArmReplayProofs ---------------------------
(***************************************************************************)
(* Proofs about neighbor resolution and the pending queue, for every       *)
(* number of RIFs, addresses, ports, slots and configurations and every    *)
(* choice of the intervals.                                                *)
(*                                                                         *)
(* That a next hop stays on its RIF is not inductive: a RIF may go, its    *)
(* vSwitch be deleted, and a neighbor of it stay.  It is harmless because  *)
(* ids are not used twice, so the invariant says that live ids and ids     *)
(* with resolved neighbors are at most the last one given out.             *)
(***************************************************************************)
EXTENDS ArmReplay, LoopLemmas, FiniteSetTheorems

-----------------------------------------------------------------------------
(***************************************************************************)
(* The inductive invariant.                                                *)
(***************************************************************************)
NbrTable == [NextHop -> NbrEntry \union {Free}]

NbrOK(t) ==
  /\ t \in NbrTable
  /\ IsFiniteSet(NbrUsed(t)) /\ Cardinality(NbrUsed(t)) <= NbrCapacity

QueueOK(q) ==
  /\ q \in [Slot -> PendingPacket \union {Free}]
  /\ \A k \in NextHop : Cardinality(Waiting(q, k)) <= PerNeighbor

Current(q, c) ==
  \A s \in Slot : q[s] # Free => q[s].key = c.route[q[s].f] /\ Ingress[q[s].f] \in c.live

RestOK ==
  /\ member \in [Vs -> SUBSET Port]
  /\ mode \in {"loop", "replay", "down"} /\ due \in BOOLEAN
  /\ asked \subseteq NextHop /\ skipped \subseteq NextHop

IdsOK ==
  /\ cfg \in Configs /\ lastId \in 0..HighestId([live |-> Rif])
  /\ \A r \in cfg.live : r <= lastId

InPlace(p, k, mem) ==
  IF Attachment[k[1]] \in Vs THEN p \in mem[Attachment[k[1]]] ELSE p = Attachment[k[1]]

OnRif(t, live, last, mem) ==
  \A k \in NextHop :
    t[k] # Free /\ t[k].res = TRUE =>
      k[1] <= last /\ (k[1] \in live => InPlace(t[k].port, k, mem))

ArmInv ==
  /\ NbrOK(nbr) /\ QueueOK(pend) /\ Current(pend, cfg)
  /\ RestOK /\ IdsOK /\ OnRif(nbr, cfg.live, lastId, member)

\* Every resolved entry of u is one of t, on the same port.
FromTable(t, u) ==
  \A k \in NextHop :
    u[k] # Free /\ u[k].res = TRUE =>
      t[k] # Free /\ t[k].res = TRUE /\ t[k].port = u[k].port

-----------------------------------------------------------------------------
(***************************************************************************)
(* The neighbor table.                                                     *)
(***************************************************************************)
LEMMA NbrFacts ==
  /\ Reachable \in Nat /\ NbrCapacity \in Nat /\ Free \notin NbrEntry
  /\ Unresolved \in NbrEntry /\ Unresolved.res = FALSE
<1>1. Reachable \in Nat /\ NbrCapacity \in Nat /\ Free \notin NbrEntry
  BY NeighborAssumption, MarkersAssumption
<1>2. Reachable + 1 \in NbrTime
  BY <1>1 DEF NbrTime
<1>3. QED
  BY <1>1, <1>2 DEF Unresolved, NbrEntry

\* An entry is written where one was or where the table has room.
LEMMA WriteOK ==
  ASSUME NEW t, NbrOK(t), NEW k \in NextHop, NEW v \in NbrEntry,
         allocate_neighbor(t, k) # Free
  PROVE  NbrOK([t EXCEPT ![k] = v])
<1> DEFINE u == [t EXCEPT ![k] = v]
<1>1. u \in NbrTable /\ v # Free
  BY NbrFacts DEF NbrOK, NbrTable
<1>2. NbrUsed(u) = NbrUsed(t) \union {k}
  BY <1>1 DEF NbrUsed, NbrOK, NbrTable
<1>3. CASE t[k] # Free
  <2>1. NbrUsed(u) = NbrUsed(t)
    BY <1>2, <1>3 DEF NbrUsed
  <2>2. QED
    BY <1>1, <2>1 DEF NbrOK
<1>4. CASE t[k] = Free
  <2>1. ~ (Cardinality(NbrUsed(t)) >= NbrCapacity)
    BY <1>4 DEF allocate_neighbor
  <2>2. k \notin NbrUsed(t) /\ IsFiniteSet(NbrUsed(t))
    BY <1>4 DEF NbrUsed, NbrOK
  <2>3. /\ IsFiniteSet(NbrUsed(t) \union {k})
        /\ Cardinality(NbrUsed(t) \union {k}) = Cardinality(NbrUsed(t)) + 1
    BY <2>2, FS_AddElement
  <2>4. Cardinality(NbrUsed(t)) \in Nat
    BY <2>2, FS_CardinalityType
  <2>5. Cardinality(NbrUsed(t)) + 1 <= NbrCapacity
    BY <2>1, <2>4, NbrFacts
  <2> HIDE DEF u
  <2>6. NbrOK(u)
    BY <1>1, <1>2, <2>3, <2>5 DEF NbrOK
  <2>7. QED
    BY <2>6 DEF u
<1>5. QED
  BY <1>3, <1>4

\* Dropping entries, or changing them in place, never exceeds the limit.
LEMMA FewerOK ==
  ASSUME NEW t, NbrOK(t), NEW u \in NbrTable,
         \A k \in NextHop : u[k] # Free => t[k] # Free
  PROVE  NbrOK(u)
<1>1. NbrUsed(u) \subseteq NbrUsed(t)
  BY DEF NbrUsed
<1>2. IsFiniteSet(NbrUsed(u)) /\ Cardinality(NbrUsed(u)) <= Cardinality(NbrUsed(t))
  BY <1>1, FS_Subset DEF NbrOK
<1>3. Cardinality(NbrUsed(u)) \in Nat /\ Cardinality(NbrUsed(t)) \in Nat
  BY <1>2, FS_CardinalityType DEF NbrOK
<1>4. QED
  BY <1>2, <1>3, NbrFacts DEF NbrOK

\* The slot allocate_neighbor returns is a new one or the next hop's own.
LEMMA AllocateOK ==
  ASSUME NEW t, NbrOK(t), NEW k \in NextHop
  PROVE  /\ allocate_neighbor(t, k) \in NbrEntry \union {Free}
         /\ allocate_neighbor(t, k).res = TRUE /\ allocate_neighbor(t, k) # Free
              => t[k] = allocate_neighbor(t, k)
         /\ allocate_neighbor(t, k) = Free => t[k] = Free
<1>1. t[k] \in NbrEntry \union {Free}
  BY DEF NbrOK, NbrTable
<1>2. CASE allocate_neighbor(t, k) = t[k]
  BY <1>1, <1>2
<1>3. CASE allocate_neighbor(t, k) = Unresolved
  BY <1>1, <1>3, NbrFacts
<1>4. QED
  BY <1>2, <1>3 DEF allocate_neighbor

\* router_neighbor_should_probe never resolves anything.
LEMMA ProbedOK ==
  ASSUME NEW t, NbrOK(t), NEW k \in NextHop
  PROVE  NbrOK(Probed(t, k)) /\ FromTable(t, Probed(t, k))
<1> DEFINE e == allocate_neighbor(t, k)
<1>1. e \in NbrEntry \union {Free} /\ (e # Free /\ e.res = TRUE => t[k] = e)
      /\ (e = Free => t[k] = Free)
  BY AllocateOK
<1>2. CASE e = Free
  <2>1. Probed(t, k) = t
    BY <1>1, <1>2 DEF Probed, ProbeDue, NbrOK, NbrTable
  <2>2. QED
    BY <2>1 DEF FromTable
<1>3. CASE e # Free
  <2> DEFINE v == IF ProbeDue(t, k) THEN [e EXCEPT !.probe = 0] ELSE e
  <2> HIDE DEF e
  <2>1. 0 \in NbrTime
    BY NbrFacts DEF NbrTime
  <2>2. v \in NbrEntry /\ v.res = e.res /\ v.port = e.port
    BY <1>1, <1>3, <2>1 DEF NbrEntry
  <2>3. Probed(t, k) = [t EXCEPT ![k] = v]
    BY DEF Probed, e
  <2> HIDE DEF v
  <2>4. NbrOK(Probed(t, k))
    <3>1. allocate_neighbor(t, k) # Free
      BY <1>3 DEF e
    <3>2. NbrOK([t EXCEPT ![k] = v])
      BY <3>1, <2>2, WriteOK, Zenon
    <3>3. QED
      BY <2>3, <3>2, Zenon
  <2>5. FromTable(t, Probed(t, k))
    BY <1>1, <1>3, <2>2, <2>3 DEF FromTable, NbrOK, NbrTable
  <2>6. QED
    BY <2>4, <2>5
<1>4. QED
  BY <1>2, <1>3

\* learn_on_interface changes one entry, which is then on the given port.
LEMMA LearnOK ==
  ASSUME NEW t, NbrOK(t), NEW k \in NextHop, NEW p \in Port, NEW m \in Mac
  PROVE  /\ NbrOK(learn_on_interface(t, k, p, m))
         /\ \A j \in NextHop \ {k} : learn_on_interface(t, k, p, m)[j] = t[j]
         /\ learn_on_interface(t, k, p, m)[k] # Free
              => learn_on_interface(t, k, p, m)[k].port = p
<1> DEFINE e == allocate_neighbor(t, k)
           a == IF Changed(e, p, m) \/ e.age >= RefreshEvery THEN 0 ELSE e.age
           v == [e EXCEPT !.res = TRUE, !.port = p, !.mac = m, !.age = a]
<1>1. e \in NbrEntry \union {Free} /\ (e = Free => t[k] = Free)
  BY AllocateOK
<1>2. CASE e = Free
  <2>1. learn_on_interface(t, k, p, m) = t
    BY <1>2 DEF learn_on_interface
  <2>2. QED
    BY <1>1, <1>2, <2>1
<1>3. CASE e # Free
  <2>1. learn_on_interface(t, k, p, m) = [t EXCEPT ![k] = v]
    BY <1>3 DEF learn_on_interface
  <2>2. v \in NbrEntry /\ v.port = p
    <3> HIDE DEF e
    <3>1. e \in NbrEntry
      BY <1>1, <1>3
    <3>2. a \in NbrTime
      BY <3>1, NbrFacts DEF NbrEntry, NbrTime
    <3> HIDE DEF a
    <3>3. QED
      BY <3>1, <3>2 DEF NbrEntry
  <2>3. NbrOK([t EXCEPT ![k] = v])
    BY <1>3, <2>2, WriteOK
  <2> HIDE DEF v, e
  <2>4. QED
    BY <2>1, <2>2, <2>3 DEF NbrOK, NbrTable
<1>4. QED
  BY <1>2, <1>3

\* Ageing resolves nothing and keeps the limit.
LEMMA AgeOK ==
  ASSUME NEW t, NbrOK(t)
  PROVE  NbrOK(router_neighbor_age(t)) /\ FromTable(t, router_neighbor_age(t))
<1> DEFINE u == router_neighbor_age(t)
<1>1. \A k \in NextHop : u[k] = Free \/ u[k] = t[k]
  BY DEF router_neighbor_age
<1>2. u \in NbrTable
  BY <1>1 DEF router_neighbor_age, NbrOK, NbrTable
<1> HIDE DEF u
<1>3. NbrOK(u)
  BY <1>1, <1>2, FewerOK
<1>4. FromTable(t, u)
  BY <1>1 DEF FromTable
<1>5. QED
  BY <1>3, <1>4 DEF u

\* After router_neighbor_invalidate_port no entry is on that port.
LEMMA InvalidateOK ==
  ASSUME NEW t, NbrOK(t), NEW p
  PROVE  /\ NbrOK(router_neighbor_invalidate_port(t, p))
         /\ FromTable(t, router_neighbor_invalidate_port(t, p))
         /\ \A k \in NextHop : router_neighbor_invalidate_port(t, p)[k] # Free
              => router_neighbor_invalidate_port(t, p)[k].port # p
<1> DEFINE u == router_neighbor_invalidate_port(t, p)
<1>1. \A k \in NextHop : u[k] = Free \/ (u[k] = t[k] /\ t[k].port # p)
  BY DEF router_neighbor_invalidate_port
<1>2. u \in NbrTable
  BY <1>1 DEF router_neighbor_invalidate_port, NbrOK, NbrTable
<1> HIDE DEF u
<1>3. NbrOK(u)
  BY <1>1, <1>2, FewerOK
<1>4. FromTable(t, u)
  BY <1>1 DEF FromTable
<1>5. QED
  BY <1>1, <1>3, <1>4 DEF u

\* Time alone resolves nothing.
LEMMA NbrTickOK ==
  ASSUME NEW t, NbrOK(t)
  PROVE  NbrOK(NbrTick(t)) /\ FromTable(t, NbrTick(t))
<1> DEFINE u == NbrTick(t)
<1>1. ASSUME NEW n \in NbrTime PROVE Later(n) \in NbrTime
  BY NbrFacts DEF Later, NbrTime
<1>2. ASSUME NEW k \in NextHop
      PROVE  /\ u[k] \in NbrEntry \union {Free}
             /\ u[k] # Free => t[k] # Free /\ u[k].res = t[k].res /\ u[k].port = t[k].port
  <2>1. t[k] \in NbrEntry \union {Free}
    BY DEF NbrOK, NbrTable
  <2>2. CASE t[k] = Free
    BY <2>2 DEF NbrTick
  <2>3. CASE t[k] # Free
    <3>1. t[k] \in NbrEntry /\ t[k].age \in NbrTime /\ t[k].probe \in NbrTime
      BY <2>1, <2>3 DEF NbrEntry
    <3>2. u[k] = [t[k] EXCEPT !.age = Later(@), !.probe = Later(@)]
      BY <2>3 DEF NbrTick
    <3>3. QED
      BY <1>1, <2>3, <3>1, <3>2 DEF NbrEntry
  <2>4. QED
    BY <2>2, <2>3
<1>3. u \in NbrTable
  BY <1>2 DEF NbrTick, NbrTable
<1> HIDE DEF u
<1>4. NbrOK(u)
  BY <1>2, <1>3, FewerOK
<1>5. FromTable(t, u)
  BY <1>2 DEF FromTable
<1>6. QED
  BY <1>4, <1>5 DEF u

\* router_neighbor_init: an empty table.
LEMMA EmptyTableOK == NbrOK(NoNeighbors) /\ \A t : FromTable(t, NoNeighbors)
<1>1. NoNeighbors \in NbrTable /\ NbrUsed(NoNeighbors) = {}
  BY DEF NoNeighbors, NbrTable, NbrUsed
<1>2. \A t : FromTable(t, NoNeighbors)
  BY DEF FromTable, NoNeighbors
<1>3. QED
  BY <1>1, <1>2, FS_EmptySet, NbrFacts DEF NbrOK
-----------------------------------------------------------------------------
(***************************************************************************)
(* The loop of probe_configured_next_hops: the table keeps its limit and   *)
(* nothing in it becomes resolved.                                         *)
(***************************************************************************)
ProbeStates(t) ==
  {x \in [t : NbrTable, a : SUBSET NextHop] : NbrOK(x.t) /\ FromTable(t, x.t)}

\* One turn of the loop.
LEMMA ProbeHopOK ==
  ASSUME NEW t, NEW x \in ProbeStates(t), NEW k \in NextHop
  PROVE  ProbeHop(x, k) \in ProbeStates(t)
<1>1. x.t \in NbrTable /\ x.a \in SUBSET NextHop /\ NbrOK(x.t) /\ FromTable(t, x.t)
  BY DEF ProbeStates
<1>2. CASE ~ router_neighbor_needs_refresh(x.t, k)
  BY <1>2 DEF ProbeHop
<1>3. CASE router_neighbor_needs_refresh(x.t, k)
  <2> DEFINE u == Probed(x.t, k)
             b == AskIf(x.a, ProbeDue(x.t, k), k)
  <2>1. ProbeHop(x, k) = [t |-> u, a |-> b]
    BY <1>3 DEF ProbeHop
  <2>2. NbrOK(u) /\ FromTable(x.t, u)
    BY <1>1, ProbedOK, Zenon
  <2>3. b \in SUBSET NextHop
    BY <1>1 DEF AskIf
  <2> HIDE DEF u, b
  <2>4. u \in NbrTable /\ FromTable(t, u)
    BY <1>1, <2>2 DEF FromTable, NbrOK
  <2>5. QED
    BY <2>1, <2>2, <2>3, <2>4 DEF ProbeStates
<1>4. QED
  BY <1>2, <1>3

\* The whole loop, over the gateways in the order of the route array.
LEMMA ProbeLoopOK ==
  ASSUME NEW t, NbrOK(t), NEW c \in Configs, asked \subseteq NextHop
  PROVE  probe_configured_next_hops(t, c) \in ProbeStates(t)
<1> DEFINE L == Len(c.hops)
           A == ProbeStates(t)
           b == [t |-> t, a |-> asked]
           F == [z \in (1..L) \X A |-> ProbeHop(z[2], c.hops[z[1]])]
           R(x) == [n \in 0..L |-> IF n = 0 THEN b ELSE ProbeHop(x[n-1], c.hops[n])]
           x == CHOOSE y : y = R(y)
<1>1. L \in Nat /\ \A n \in 1..L : c.hops[n] \in NextHop
  <2>1. c.live \subseteq Rif /\ c.hops \in Seq(c.live \X Ip)
    BY ArmAssumption
  <2>2. c.hops \in Seq(NextHop)
    BY <2>1 DEF NextHop
  <2>3. QED
    BY <2>2
<1>2. b \in A
  BY DEF ProbeStates, NbrOK, FromTable
<1>3. \A n \in 1..L, y \in A : ProbeHop(y, c.hops[n]) \in A
  BY <1>1, ProbeHopOK, Zenon
<1>4. F \in LoopBody(A, L)
  BY <1>3 DEF LoopBody
<1>5. PICK g : LoopRun(A, b, L, F, g)
  <2> HIDE DEF L, A, b, F, R, x
  <2>1. L \in Nat
    BY <1>1
  <2>2. QED
    BY ONLY <2>1, <1>2, <1>4, LoopRuns, Zenon
<1>6. g = R(g)
  <2>1. ASSUME NEW n \in 0..L PROVE g[n] = R(g)[n]
    <3>1. CASE n = 0
      BY <1>5, <3>1 DEF LoopRun
    <3>2. CASE n # 0
      <4>1. n \in 1..L /\ n - 1 \in 0..L
        BY <1>1, <3>2
      <4>2. g[n-1] \in A /\ g[n] = F[<<n, g[n-1]>>]
        BY <1>5, <4>1 DEF LoopRun
      <4>3. g[n] = ProbeHop(g[n-1], c.hops[n])
        BY <4>1, <4>2
      <4>4. QED
        BY <4>3, <3>2
    <3>3. QED
      BY <3>1, <3>2
  <2> HIDE DEF b, F, L, A
  <2>2. QED
    BY <1>5, <2>1 DEF LoopRun
<1>7. x = R(x)
  <2> HIDE DEF R
  <2>1. QED
    BY <1>6
<1>8. probe_configured_next_hops(t, c) = x[L]
  BY DEF probe_configured_next_hops
<1> HIDE DEF x, A, b, F
<1> DEFINE T == {n \in Nat : n <= L => x[n] \in A}
<1>9. 0 \in T
  BY <1>1, <1>2, <1>7
<1>10. ASSUME NEW n \in Nat, n \in T PROVE n + 1 \in T
  <2>1. SUFFICES ASSUME n + 1 <= L PROVE x[n+1] \in A
    OBVIOUS
  <2>2. n + 1 \in 1..L /\ x[n] \in A /\ n + 1 \in 0..L /\ n + 1 # 0 /\ (n + 1) - 1 = n
    BY <1>1, <1>10, <2>1
  <2>3. x[n+1] = ProbeHop(x[n], c.hops[n+1])
    BY <1>7, <2>2
  <2>4. QED
    BY <1>3, <2>2, <2>3
<1>11. Nat \subseteq T
  <2> HIDE DEF T
  <2>1. QED
    BY <1>9, <1>10, NatSetInduction
<1>12. x[L] \in A
  BY <1>1, <1>11
<1>13. QED
  BY <1>8, <1>12 DEF A

-----------------------------------------------------------------------------
(***************************************************************************)
(* The queue.                                                              *)
(***************************************************************************)
LEMMA QueueFacts ==
  /\ Slot \subseteq Nat /\ IsFiniteSet(Slot)
  /\ PerNeighbor \in Nat \ {0} /\ PendingTimeout \in Nat /\ Free \notin PendingPacket
<1>1. PendingMax \in Nat /\ PerNeighbor \in Nat \ {0} /\ PendingTimeout \in Nat
  BY ArmAssumption
<1>2. IsFiniteSet(1..PendingMax)
  BY <1>1, FS_Interval
<1>3. QED
  BY <1>1, <1>2, MarkersAssumption DEF Slot

\* The frames of one next hop can be counted.
LEMMA WaitingFinite ==
  ASSUME NEW q, NEW k
  PROVE  IsFiniteSet(Waiting(q, k)) /\ Cardinality(Waiting(q, k)) \in Nat
<1>1. Waiting(q, k) \subseteq Slot
  BY DEF Waiting
<1>2. QED
  BY <1>1, QueueFacts, FS_Subset, FS_CardinalityType

\* The slot a scan of the queue ends at is one it looks for.
LEMMA FirstSlotIn ==
  ASSUME NEW S, S \subseteq Slot, S # {}
  PROVE  FirstSlot(S) \in S
<1>1. S \subseteq Nat
  BY QueueFacts
<1>2. \E s \in S : \A u \in S : s <= u
  BY <1>1, NatLeast, Zenon
<1>3. QED
  BY <1>2, Zenon DEF FirstSlot

\* Frames that go, or age, leave the limits and the routes of the others alone.
LEMMA FewerQueued ==
  ASSUME NEW c, NEW q, QueueOK(q), Current(q, c),
         NEW r \in [Slot -> PendingPacket \union {Free}],
         \A s \in Slot : r[s] # Free => q[s] # Free /\ r[s].key = q[s].key /\ r[s].f = q[s].f
  PROVE  QueueOK(r) /\ Current(r, c)
<1>1. Current(r, c)
  BY DEF Current
<1>2. ASSUME NEW k \in NextHop PROVE Cardinality(Waiting(r, k)) <= PerNeighbor
  <2>1. Waiting(r, k) \subseteq Waiting(q, k)
    BY DEF Waiting
  <2>2. Cardinality(Waiting(r, k)) <= Cardinality(Waiting(q, k))
    BY <2>1, WaitingFinite, FS_Subset
  <2>3. Cardinality(Waiting(r, k)) \in Nat /\ Cardinality(Waiting(q, k)) \in Nat
    BY WaitingFinite
  <2>4. Cardinality(Waiting(q, k)) <= PerNeighbor
    BY DEF QueueOK
  <2>5. QED
    BY <2>2, <2>3, <2>4, QueueFacts
<1>3. QED
  BY <1>1, <1>2 DEF QueueOK

\* router_pending_enqueue keeps both limits and queues no other next hop's frame.
LEMMA EnqueueOK ==
  ASSUME NEW c, NEW q, QueueOK(q), Current(q, c), NEW f \in Flow, NEW k \in NextHop,
         k = c.route[f], Ingress[f] \in c.live
  PROVE  QueueOK(router_pending_enqueue(q, k, f)) /\ Current(router_pending_enqueue(q, k, f), c)
<1> DEFINE free == {s \in Slot : q[s] = Free}
<1>1. CASE free = {} \/ Cardinality(Waiting(q, k)) >= PerNeighbor
  BY <1>1 DEF router_pending_enqueue
<1>2. CASE ~ (free = {} \/ Cardinality(Waiting(q, k)) >= PerNeighbor)
  <2> DEFINE s == FirstSlot(free)
             v == [f |-> f, key |-> k, age |-> 0]
             r == [q EXCEPT ![s] = v]
  <2>1. router_pending_enqueue(q, k, f) = r
    BY <1>2 DEF router_pending_enqueue
  <2>2. s \in free
    BY <1>2, FirstSlotIn
  <2>3. s \in Slot /\ q[s] = Free
    BY <2>2
  <2> HIDE DEF s
  <2>4. v \in PendingPacket /\ v # Free /\ v.key = k /\ v.f = f
    BY QueueFacts DEF PendingPacket
  <2> HIDE DEF v
  <2>5. /\ r \in [Slot -> PendingPacket \union {Free}] /\ r[s] = v
        /\ \A u \in Slot : u # s => r[u] = q[u]
    BY <2>3, <2>4 DEF QueueOK
  <2> HIDE DEF r
  <2>6. Current(r, c)
    BY <2>4, <2>5 DEF Current
  <2>7. ASSUME NEW j \in NextHop PROVE Cardinality(Waiting(r, j)) <= PerNeighbor
    <3>1. CASE j = k
      <4>1. Waiting(r, k) = Waiting(q, k) \union {s} /\ s \notin Waiting(q, k)
        BY <2>3, <2>4, <2>5 DEF Waiting
      <4>2. Cardinality(Waiting(r, k)) = Cardinality(Waiting(q, k)) + 1
        BY <4>1, WaitingFinite, FS_AddElement
      <4>3. Cardinality(Waiting(q, k)) \in Nat
        BY WaitingFinite
      <4>4. QED
        BY <1>2, <3>1, <4>2, <4>3, QueueFacts
    <3>2. CASE j # k
      <4>1. Waiting(r, j) = Waiting(q, j)
        BY <2>3, <2>4, <2>5, <3>2 DEF Waiting
      <4>2. QED
        BY <4>1 DEF QueueOK
    <3>3. QED
      BY <3>1, <3>2
  <2>8. QED
    BY <2>1, <2>5, <2>6, <2>7 DEF QueueOK
<1>3. QED
  BY <1>1, <1>2

\* A flushed queue.
LEMMA EmptiedOK == QueueOK(Emptied) /\ \A c : Current(Emptied, c)
<1>1. \A s \in Slot : Emptied[s] = Free
  BY DEF Emptied
<1>2. \A k \in NextHop : Waiting(Emptied, k) = {}
  BY <1>1 DEF Waiting
<1>3. Emptied \in [Slot -> PendingPacket \union {Free}]
  BY DEF Emptied
<1>4. QED
  BY <1>1, <1>2, <1>3, FS_EmptySet, QueueFacts DEF QueueOK, Current

\* HighestId is a maximum: ids are 16-bit numbers.
LEMMA HighestOK ==
  ASSUME NEW c, c.live \subseteq Rif
  PROVE  /\ HighestId(c) \in Nat /\ \A r \in c.live : r <= HighestId(c)
         /\ HighestId(c) = 0 \/ HighestId(c) \in c.live
<1>1. Rif \subseteq 1..MaxInterfaceId /\ MaxInterfaceId \in Nat
  <2>1. MaxInterfaceId \in Nat
    BY DEF MaxInterfaceId
  <2>2. QED
    BY <2>1, NeighborAssumption
<1>2. CASE c.live = {}
  BY <1>2 DEF HighestId
<1>3. CASE c.live # {}
  <2>1. c.live \subseteq 0..MaxInterfaceId
    <3>1. 1..MaxInterfaceId \subseteq 0..MaxInterfaceId
      BY <1>1
    <3>2. QED
      BY <1>1, <3>1, Zenon
  <2>2. \E r \in c.live : \A u \in c.live : u <= r
    BY <1>1, <1>3, <2>1, NatGreatest
  <2>3. HighestId(c) = CHOOSE r \in c.live : \A u \in c.live : u <= r
    BY <1>3 DEF HighestId
  <2>4. HighestId(c) \in c.live /\ \A u \in c.live : u <= HighestId(c)
    BY <2>2, <2>3, Zenon
  <2>5. QED
    BY <1>1, <2>1, <2>4
<1>4. QED
  BY <1>2, <1>3

-----------------------------------------------------------------------------
(***************************************************************************)
(* What a configuration provides, and where a resolved neighbor may be.    *)
(***************************************************************************)
LEMMA ConfigFacts ==
  ASSUME NEW c \in Configs
  PROVE  /\ c.live \subseteq Rif
         /\ \A f \in Flow : c.route[f] = NoRoute \/
              (c.route[f] \in NextHop /\ c.route[f][1] \in c.live)
         /\ Gateways(c) \subseteq NextHop
<1>1. c.live \subseteq Rif /\ c.route \in [Flow -> (c.live \X Ip) \union {NoRoute}]
      /\ c.hops \in Seq(c.live \X Ip)
  BY ArmAssumption
<1>2. c.hops \in Seq(NextHop)
  BY <1>1 DEF NextHop
<1>3. Gateways(c) \subseteq NextHop
  BY <1>2 DEF Gateways
<1>4. \A f \in Flow : c.route[f] = NoRoute \/
         (c.route[f] \in NextHop /\ c.route[f][1] \in c.live)
  BY <1>1 DEF NextHop
<1>5. QED
  BY <1>1, <1>3, <1>4

\* A table with no new resolution keeps its neighbors where they were.
LEMMA OnRifKept ==
  ASSUME NEW t, NEW u, FromTable(t, u), NEW live, NEW last, NEW mem, OnRif(t, live, last, mem)
  PROVE  OnRif(u, live, last, mem)
BY DEF FromTable, OnRif, InPlace

-----------------------------------------------------------------------------
(***************************************************************************)
(* The actions.                                                            *)
(***************************************************************************)
\* route_arm_frame, for the frame of a flow and whatever queue it starts with.
LEMMA RouteOK ==
  ASSUME ArmInv, NEW q, QueueOK(q), Current(q, cfg), NEW f \in Flow,
         route_arm_frame(q, f), UNCHANGED <<cfg, lastId, member, mode, due, skipped>>
  PROVE  ArmInv'
<1> DEFINE k == cfg.route[f]
<1>1. CASE k = NoRoute \/ Ingress[f] \notin cfg.live \/ Sendable(k)
  <2>1. pend' = q /\ nbr' = nbr /\ asked' = asked
    BY <1>1 DEF route_arm_frame
  <2>2. QED
    BY <2>1 DEF ArmInv, RestOK, IdsOK
<1>2. CASE ~ (k = NoRoute \/ Ingress[f] \notin cfg.live \/ Sendable(k))
  <2>1. /\ pend' = router_pending_enqueue(q, k, f)
        /\ nbr' = Probed(nbr, k)
        /\ asked' = AskIf(asked, ProbeDue(nbr, k), k)
    BY <1>2 DEF route_arm_frame
  <2>2. k \in NextHop /\ Ingress[f] \in cfg.live
    BY <1>2, ConfigFacts DEF ArmInv, IdsOK
  <2>3. NbrOK(nbr') /\ FromTable(nbr, nbr')
    BY <2>1, <2>2, ProbedOK DEF ArmInv
  <2>4. QueueOK(pend') /\ Current(pend', cfg)
    BY <2>1, <2>2, EnqueueOK DEF ArmInv
  <2>5. RestOK' /\ IdsOK'
    BY <2>1, <2>2 DEF ArmInv, RestOK, IdsOK, AskIf
  <2>6. OnRif(nbr', cfg.live, lastId, member)
    BY <2>3, OnRifKept DEF ArmInv
  <2>7. QED
    BY <2>3, <2>4, <2>5, <2>6 DEF ArmInv
<1>3. QED
  BY <1>1, <1>2

\* A frame that reaches the Arm.
LEMMA FrameOK == ASSUME ArmInv, NEW f \in Flow, Frame(f) PROVE ArmInv'
BY RouteOK DEF Frame, ArmInv

\* One turn of replay_pending_ready.
LEMMA ReplayOneOK == ASSUME ArmInv, ReplayOne PROVE ArmInv'
<1> DEFINE s == FirstSlot(Ready)
           q == [pend EXCEPT ![s] = Free]
<1>1. s \in Slot /\ pend[s] # Free
  <2>1. s \in Ready
    BY FirstSlotIn DEF ReplayOne, Ready
  <2>2. QED
    BY <2>1 DEF Ready
<1>2. route_arm_frame(q, pend[s].f) /\ UNCHANGED <<cfg, lastId, member, mode, due, skipped>>
  BY DEF ReplayOne
<1> HIDE DEF s
<1>3. pend \in [Slot -> PendingPacket \union {Free}]
  BY DEF ArmInv, QueueOK
<1>4. pend[s].f \in Flow
  BY <1>1, <1>3 DEF PendingPacket
<1>5. QueueOK(q) /\ Current(q, cfg)
  <2>1. q \in [Slot -> PendingPacket \union {Free}]
    BY <1>3
  <2>2. \A r \in Slot : q[r] # Free => q[r] = pend[r]
    BY <1>3
  <2> HIDE DEF q
  <2>3. QED
    BY <2>1, <2>2, FewerQueued DEF ArmInv
<1> HIDE DEF q
<1>6. QED
  BY <1>2, <1>4, <1>5, RouteOK

\* The ARP handler of process_packet.
LEMMA ArpOK ==
  ASSUME ArmInv, NEW k \in NextHop, NEW p \in Port, NEW m \in Mac, Arp(k, p, m)
  PROVE  ArmInv'
<1>1. /\ nbr' = learn_on_interface(nbr, k, p, m) /\ asked' = asked \ {k}
      /\ mode' \in {"replay", "down"}
      /\ UNCHANGED <<pend, cfg, lastId, member, due, skipped>>
  BY DEF Arp
<1>2. /\ NbrOK(nbr') /\ \A j \in NextHop \ {k} : nbr'[j] = nbr[j]
      /\ nbr'[k] # Free => nbr'[k].port = p
  BY <1>1, LearnOK DEF ArmInv
<1>3. k[1] \in cfg.live /\ InPlace(p, k, member)
  BY DEF Arp, Arrives, InPlace
<1>4. k[1] <= lastId
  BY <1>3 DEF ArmInv, IdsOK
<1>5. OnRif(nbr', cfg.live, lastId, member)
  BY <1>2, <1>3, <1>4 DEF ArmInv, OnRif
<1>6. RestOK' /\ IdsOK'
  BY <1>1 DEF ArmInv, RestOK, IdsOK
<1>7. QED
  BY <1>1, <1>2, <1>5, <1>6 DEF ArmInv

\* The replay is over.
LEMMA ReplayEndOK == ASSUME ArmInv, ReplayEnd PROVE ArmInv'
BY DEF ReplayEnd, ArmInv, RestOK, IdsOK

\* The scan: ageing, expiry of frames, probes.
LEMMA MaintenanceOK == ASSUME ArmInv, Maintenance PROVE ArmInv'
<1> DEFINE t == router_neighbor_age(nbr)
           x == probe_configured_next_hops(t, cfg)
<1>1. /\ due' = FALSE /\ pend' = router_pending_expire(pend) /\ skipped' = {}
      /\ nbr' = x.t /\ asked' = x.a /\ UNCHANGED <<cfg, lastId, member, mode>>
  BY DEF Maintenance
<1>2. NbrOK(t) /\ FromTable(nbr, t)
  BY AgeOK DEF ArmInv
<1>3. x \in ProbeStates(t)
  <2> HIDE DEF t
  <2>1. QED
    BY <1>2, ProbeLoopOK DEF ArmInv, RestOK, IdsOK
<1> HIDE DEF t, x
<1>4. NbrOK(nbr') /\ FromTable(t, nbr') /\ asked' \subseteq NextHop
  BY <1>1, <1>3 DEF ProbeStates
<1>5. OnRif(nbr', cfg.live, lastId, member)
  BY <1>2, <1>4, OnRifKept DEF ArmInv
<1>6. QueueOK(pend') /\ Current(pend', cfg)
  <2>1. \A s \in Slot : pend'[s] # Free => pend'[s] = pend[s]
    BY <1>1 DEF router_pending_expire
  <2>2. pend' \in [Slot -> PendingPacket \union {Free}]
    BY <1>1 DEF router_pending_expire, ArmInv, QueueOK
  <2>3. QED
    BY <2>1, <2>2, FewerQueued DEF ArmInv
<1>7. RestOK' /\ IdsOK'
  BY <1>1, <1>4 DEF ArmInv, RestOK, IdsOK
<1>8. QED
  BY <1>1, <1>4, <1>5, <1>6, <1>7 DEF ArmInv

\* Time passes.
LEMMA TickOK == ASSUME ArmInv, Tick PROVE ArmInv'
<1> DEFINE Older(e) == [e EXCEPT !.age = IF @ > PendingTimeout THEN @ ELSE @ + 1]
<1>1. /\ due' = TRUE /\ nbr' = NbrTick(nbr)
      /\ pend' = [s \in Slot |-> IF pend[s] = Free THEN Free ELSE Older(pend[s])]
      /\ UNCHANGED <<cfg, lastId, member, mode, asked, skipped>>
  BY DEF Tick
<1>2. NbrOK(nbr') /\ FromTable(nbr, nbr')
  BY <1>1, NbrTickOK DEF ArmInv
<1>3. OnRif(nbr', cfg.live, lastId, member)
  BY <1>2, OnRifKept DEF ArmInv
<1>4. ASSUME NEW e \in PendingPacket
      PROVE  Older(e) \in PendingPacket /\ Older(e).key = e.key /\ Older(e).f = e.f
  BY QueueFacts DEF PendingPacket
<1> HIDE DEF Older
<1>5. ASSUME NEW s \in Slot
      PROVE  /\ pend'[s] \in PendingPacket \union {Free}
             /\ pend'[s] # Free => /\ pend[s] # Free /\ pend'[s].key = pend[s].key
                                  /\ pend'[s].f = pend[s].f
  <2>1. pend[s] \in PendingPacket \union {Free}
    BY DEF ArmInv, QueueOK
  <2>2. QED
    BY <1>1, <1>4, <2>1
<1>6. pend' \in [Slot -> PendingPacket \union {Free}]
  BY <1>1, <1>5
<1>7. QueueOK(pend') /\ Current(pend', cfg)
  BY <1>5, <1>6, FewerQueued DEF ArmInv
<1>8. RestOK' /\ IdsOK'
  BY <1>1 DEF ArmInv, RestOK, IdsOK
<1>9. QED
  BY <1>1, <1>2, <1>3, <1>7, <1>8 DEF ArmInv

\* A committed configuration: its new RIFs have ids that no neighbor has.
LEMMA CommitOK ==
  ASSUME ArmInv, NEW c \in Configs, IdsNew(c), NEW u, FromTable(nbr, u),
         cfg' = c, lastId' = IF HighestId(c) > lastId THEN HighestId(c) ELSE lastId
  PROVE  IdsOK' /\ OnRif(u, c.live, lastId', member)
<1> DEFINE all == [live |-> Rif]
<1>1. c.live \subseteq Rif /\ cfg.live \subseteq Rif /\ Rif \subseteq Nat
  BY ConfigFacts, NeighborAssumption DEF ArmInv, IdsOK
<1>2. HighestId(c) \in Nat /\ (\A r \in c.live : r <= HighestId(c))
      /\ (HighestId(c) = 0 \/ HighestId(c) \in c.live)
  BY <1>1, HighestOK
<1>3. HighestId(all) \in Nat /\ \A r \in Rif : r <= HighestId(all)
  <2>1. all.live = Rif
    OBVIOUS
  <2> HIDE DEF all
  <2>2. QED
    BY <2>1, HighestOK
<1> HIDE DEF all
<1>4. lastId \in 0..HighestId(all)
  BY DEF ArmInv, IdsOK, all
<1>5. HighestId(c) <= HighestId(all)
  BY <1>1, <1>2, <1>3
<1>6. lastId' \in 0..HighestId(all) /\ lastId <= lastId' /\ HighestId(c) <= lastId'
  BY <1>2, <1>3, <1>4, <1>5
<1>7. ASSUME NEW r \in c.live PROVE r <= lastId'
  <2>1. r <= HighestId(c) /\ r \in Nat /\ HighestId(c) \in Nat
    BY <1>1, <1>2
  <2>2. lastId' \in Nat
    BY <1>3, <1>6
  <2>3. QED
    BY <1>6, <2>1, <2>2
<1>8. IdsOK'
  BY <1>6, <1>7 DEF IdsOK, all
<1>9. ASSUME NEW k \in NextHop, u[k] # Free, u[k].res = TRUE
      PROVE  k[1] <= lastId' /\ (k[1] \in c.live => InPlace(u[k].port, k, member))
  <2>1. nbr[k] # Free /\ nbr[k].res = TRUE /\ nbr[k].port = u[k].port
    BY <1>9 DEF FromTable
  <2>2. k[1] <= lastId /\ (k[1] \in cfg.live => InPlace(u[k].port, k, member))
    BY <2>1 DEF ArmInv, OnRif
  <2>3. k[1] \in Nat
    BY <1>1 DEF NextHop
  <2>4. k[1] <= lastId'
    BY <1>4, <1>6, <1>3, <2>2, <2>3
  <2>5. k[1] \in c.live => k[1] \in cfg.live
    BY <1>3, <1>4, <2>2, <2>3 DEF IdsNew
  <2>6. QED
    BY <2>2, <2>4, <2>5
<1>10. QED
  BY <1>8, <1>9 DEF OnRif

\* A router command: the queue is flushed, ids only grow.
LEMMA RouterCommandOK == ASSUME ArmInv, NEW c \in Configs, RouterCommand(c) PROVE ArmInv'
<1>1. pend' = Emptied /\ member' = member /\ mode' = mode /\ due' = due /\ IdsNew(c)
  BY DEF RouterCommand, FlushedByCommand
<1>2. QueueOK(pend') /\ Current(pend', cfg')
  BY <1>1, EmptiedOK
<1> DEFINE Committed == /\ cfg' = c
                        /\ lastId' = IF HighestId(c) > lastId THEN HighestId(c) ELSE lastId
<1>3. ASSUME Committed, NbrOK(nbr'), FromTable(nbr, nbr'), asked' \subseteq NextHop,
             skipped' \subseteq NextHop
      PROVE  ArmInv'
  <2>1. IdsOK' /\ OnRif(nbr', c.live, lastId', member)
    BY <1>1, <1>3, CommitOK
  <2>2. RestOK'
    BY <1>1, <1>3 DEF ArmInv, RestOK
  <2>3. QED
    BY <1>1, <1>2, <1>3, <2>1, <2>2 DEF ArmInv
<1>4. CASE Committed /\ nbr' = probe_configured_next_hops(nbr, c).t
           /\ asked' = probe_configured_next_hops(nbr, c).a /\ skipped' = {}
  <2> DEFINE x == probe_configured_next_hops(nbr, c)
  <2>1. x \in ProbeStates(nbr)
    BY ProbeLoopOK DEF ArmInv, RestOK
  <2>2. nbr' = x.t /\ asked' = x.a
    BY <1>4
  <2> HIDE DEF x
  <2>3. NbrOK(nbr') /\ FromTable(nbr, nbr') /\ asked' \subseteq NextHop
    BY <2>1, <2>2 DEF ProbeStates
  <2>4. QED
    BY <1>3, <1>4, <2>3
<1>5. CASE Committed /\ skipped' = skipped \union Gateways(c) /\ UNCHANGED <<nbr, asked>>
  <2>1. skipped' \subseteq NextHop /\ asked' \subseteq NextHop
    BY <1>5, ConfigFacts DEF ArmInv, RestOK
  <2>2. NbrOK(nbr') /\ FromTable(nbr, nbr')
    BY <1>5 DEF ArmInv, FromTable
  <2>3. QED
    BY <1>3, <1>5, <2>1, <2>2
<1>6. CASE UNCHANGED <<cfg, lastId, nbr, asked, skipped>>
  BY <1>1, <1>2, <1>6 DEF ArmInv, RestOK, IdsOK
<1>7. QED
  BY <1>4, <1>5, <1>6 DEF RouterCommand

\* A port joins a vSwitch.
LEMMA AttachPortOK ==
  ASSUME ArmInv, NEW vs \in Vs, NEW p \in Port, AttachPort(vs, p) PROVE ArmInv'
<1>1. /\ member' = [member EXCEPT ![vs] = member[vs] \union {p}]
      /\ UNCHANGED <<nbr, pend, cfg, lastId, mode, due, asked, skipped>>
  BY DEF AttachPort
<1>2. member \in [Vs -> SUBSET Port]
  BY DEF ArmInv, RestOK
<1>3. member' \in [Vs -> SUBSET Port] /\ \A v \in Vs : member[v] \subseteq member'[v]
  BY <1>1, <1>2
<1>4. OnRif(nbr, cfg.live, lastId, member')
  BY <1>3 DEF ArmInv, OnRif, InPlace
<1>5. RestOK' /\ IdsOK'
  BY <1>1, <1>3 DEF ArmInv, RestOK, IdsOK
<1>6. QED
  BY <1>1, <1>4, <1>5 DEF ArmInv

\* A port leaves a vSwitch and its neighbors go.
LEMMA DetachPortOK ==
  ASSUME ArmInv, NEW vs \in Vs, NEW p \in Port, DetachPort(vs, p) PROVE ArmInv'
<1>1. /\ nbr' = router_neighbor_invalidate_port(nbr, p)
      /\ member' = [member EXCEPT ![vs] = member[vs] \ {p}] \/ member' = member
      /\ UNCHANGED <<pend, cfg, lastId, mode, due, asked, skipped>>
  BY DEF DetachPort
<1>2. member \in [Vs -> SUBSET Port]
  BY DEF ArmInv, RestOK
<1>3. member' \in [Vs -> SUBSET Port] /\ \A v \in Vs : member[v] \subseteq member'[v] \union {p}
  BY <1>1, <1>2
<1>4. /\ NbrOK(nbr') /\ FromTable(nbr, nbr')
      /\ \A k \in NextHop : nbr'[k] # Free => nbr'[k].port # p
  BY <1>1, InvalidateOK DEF ArmInv
<1>5. OnRif(nbr', cfg.live, lastId, member)
  BY <1>4, OnRifKept DEF ArmInv
<1>6. OnRif(nbr', cfg.live, lastId, member')
  BY <1>3, <1>4, <1>5 DEF OnRif, InPlace
<1>7. RestOK' /\ IdsOK'
  BY <1>1, <1>3 DEF ArmInv, RestOK, IdsOK
<1>8. QED
  BY <1>1, <1>4, <1>6, <1>7 DEF ArmInv

\* A vSwitch goes with its ports.
LEMMA DeleteVswitchOK == ASSUME ArmInv, NEW vs \in Vs, DeleteVswitch(vs) PROVE ArmInv'
<1>1. /\ member' = [member EXCEPT ![vs] = {}] /\ \A r \in cfg.live : Attachment[r] # vs
      /\ UNCHANGED <<nbr, pend, cfg, lastId, mode, due, asked, skipped>>
  BY DEF DeleteVswitch
<1>2. member \in [Vs -> SUBSET Port]
  BY DEF ArmInv, RestOK
<1>3. member' \in [Vs -> SUBSET Port] /\ \A v \in Vs : v # vs => member[v] = member'[v]
  BY <1>1, <1>2
<1>4. OnRif(nbr, cfg.live, lastId, member')
  BY <1>1, <1>3 DEF ArmInv, OnRif, InPlace
<1>5. RestOK' /\ IdsOK'
  BY <1>1, <1>3 DEF ArmInv, RestOK, IdsOK
<1>6. QED
  BY <1>1, <1>4, <1>5 DEF ArmInv

\* A restart empties both tables.
LEMMA RestartOK == ASSUME ArmInv, Restart PROVE ArmInv'
<1>1. /\ mode' = "loop" /\ due' = FALSE /\ nbr' = NoNeighbors /\ pend' = Emptied
      /\ asked' = {} /\ skipped' = {} /\ UNCHANGED <<cfg, lastId, member>>
  BY DEF Restart
<1>2. NbrOK(nbr') /\ FromTable(nbr, nbr') /\ QueueOK(pend') /\ Current(pend', cfg)
  BY <1>1, EmptyTableOK, EmptiedOK
<1>3. OnRif(nbr', cfg.live, lastId, member)
  BY <1>2, OnRifKept DEF ArmInv
<1>4. RestOK' /\ IdsOK'
  BY <1>1 DEF ArmInv, RestOK, IdsOK
<1>5. QED
  BY <1>1, <1>2, <1>3, <1>4 DEF ArmInv

\* The daemon starts with empty tables.
LEMMA ArmInvInit == ArmInit => ArmInv
<1>1. SUFFICES ASSUME ArmInit PROVE ArmInv
  OBVIOUS
<1>2. NbrOK(nbr) /\ QueueOK(pend) /\ Current(pend, cfg)
  BY <1>1, EmptyTableOK, EmptiedOK DEF ArmInit
<1>3. RestOK
  BY <1>1 DEF ArmInit, RestOK
<1>4. IdsOK
  <2>1. [live |-> Rif].live \subseteq Rif
    OBVIOUS
  <2>2. HighestId([live |-> Rif]) \in Nat
    BY <2>1, HighestOK, Zenon
  <2>3. QED
    BY <1>1, <2>2 DEF ArmInit, IdsOK
<1>5. OnRif(nbr, cfg.live, lastId, member)
  BY <1>1 DEF ArmInit, OnRif, NoNeighbors
<1>6. QED
  BY <1>2, <1>3, <1>4, <1>5 DEF ArmInv

\* Every handler keeps the invariant.
LEMMA ArmInvNext == ArmInv /\ [ArmNext]_armVars => ArmInv'
<1>1. SUFFICES ASSUME ArmInv, [ArmNext]_armVars PROVE ArmInv'
  OBVIOUS
<1>2. CASE UNCHANGED armVars
  BY <1>1, <1>2 DEF armVars, ArmInv, RestOK, IdsOK
<1>3. CASE ArmNext
  BY <1>1, <1>3, FrameOK, ArpOK, ReplayOneOK, ReplayEndOK, MaintenanceOK, TickOK,
     RouterCommandOK, AttachPortOK, DetachPortOK, DeleteVswitchOK, RestartOK DEF ArmNext
<1>4. QED
  BY <1>1, <1>2, <1>3

-----------------------------------------------------------------------------
(***************************************************************************)
(* The theorems.                                                           *)
(***************************************************************************)
\* The inductive invariant holds in every reachable state, whatever call of
\* a handler fails.
THEOREM ArmInvariant == ArmSpec => []ArmInv
BY ArmInvInit, ArmInvNext, PTL DEF ArmSpec

\* router_neighbor.c, router_pending.c: both tables hold well-formed entries
\* and keep their limits, the queue in all and per next hop.
THEOREM ArmTypes == ArmSpec => []ArmTypeOK
<1>1. ArmInv => ArmTypeOK
  BY DEF ArmInv, ArmTypeOK, NbrOK, NbrTable, QueueOK, RestOK, IdsOK
<1>2. QED
  BY <1>1, ArmInvariant, PTL

\* router_control.c empties the queue before it publishes a configuration:
\* every waiting frame waits for the next hop its configuration gives it.
THEOREM PendingFramesCurrent == ArmSpec => []PendingIsCurrent
<1>1. ArmInv => PendingIsCurrent
  BY DEF ArmInv, PendingIsCurrent, Current
<1>2. QED
  BY <1>1, ArmInvariant, PTL

\* validate_route_neighbor never refuses a resolved next hop of a live RIF,
\* through membership changes, deleted vSwitches and removed RIFs.
LEMMA ValidNeighbor == ArmInv => NeighborOnItsRif
<1>1. ASSUME ArmInv, NEW k \in NextHop, k[1] \in cfg.live, router_neighbor_lookup(nbr, k)
      PROVE  validate_route_neighbor(k)
  <2>1. nbr[k] # Free /\ nbr[k].res = TRUE
    <3>1. nbr[k] # Free /\ nbr[k].res
      BY <1>1 DEF router_neighbor_lookup
    <3>2. nbr[k] \in NbrEntry \union {Free}
      BY <1>1 DEF ArmInv, NbrOK, NbrTable
    <3>3. nbr[k].res \in BOOLEAN
      BY <3>1, <3>2 DEF NbrEntry
    <3>4. QED
      BY <3>1, <3>3
  <2>2. InPlace(nbr[k].port, k, member)
    BY <1>1, <2>1 DEF ArmInv, OnRif
  <2>3. QED
    BY <2>2 DEF InPlace, validate_route_neighbor
<1>2. QED
  BY <1>1 DEF NeighborOnItsRif

\* validate_route_neighbor refuses no resolved next hop of a live RIF for its
\* port: detaches, deletions and removed RIFs take the entries with them or
\* leave an id that no RIF has again.
THEOREM NeighborsStayOnRif == ArmSpec => []NeighborOnItsRif
BY ValidNeighbor, ArmInvariant, PTL

\* replay_pending_ready: a turn of the loop takes one frame out of the queue
\* and puts none back, although route_arm_frame may queue what it is given.
\* So a replay has at most as many turns as the queue has slots.
ReplayShrinks ==
  ReplayOne => \E s \in Slot : pend[s] # Free /\ pend' = [pend EXCEPT ![s] = Free]

\* The loop of replay_pending_ready ends: each turn shortens the queue.
THEOREM ReplayTurnsEnd == ArmSpec => [][ReplayShrinks]_armVars
<1>1. ASSUME ArmInv, ReplayOne
      PROVE  \E s \in Slot : pend[s] # Free /\ pend' = [pend EXCEPT ![s] = Free]
  <2> DEFINE s == FirstSlot(Ready)
             k == cfg.route[pend[s].f]
  <2>1. s \in Slot /\ pend[s] # Free /\ router_neighbor_lookup(nbr, pend[s].key)
    <3>1. s \in Ready
      BY <1>1, FirstSlotIn DEF ReplayOne, Ready
    <3>2. QED
      BY <3>1 DEF Ready
  <2>2. route_arm_frame([pend EXCEPT ![s] = Free], pend[s].f)
    BY <1>1 DEF ReplayOne
  <2> HIDE DEF s
  <2>3. pend[s].key = k /\ Ingress[pend[s].f] \in cfg.live
    BY <1>1, <2>1 DEF ArmInv, Current
  <2>4. pend[s].f \in Flow /\ k \in NextHop
    BY <1>1, <2>1, <2>3 DEF ArmInv, QueueOK, PendingPacket
  <2>5. k # NoRoute
    BY <2>4, MarkersAssumption
  <2>6. k[1] \in cfg.live
    BY <1>1, <2>4, <2>5, ConfigFacts DEF ArmInv, IdsOK
  <2>7. Sendable(k)
    BY <1>1, <2>1, <2>3, <2>4, <2>6, ValidNeighbor DEF Sendable, NeighborOnItsRif
  <2>8. pend' = [pend EXCEPT ![s] = Free]
    BY <2>2, <2>7 DEF route_arm_frame
  <2>9. QED
    BY <2>1, <2>8
<1>2. ArmInv => [ReplayShrinks]_armVars
  BY <1>1 DEF ReplayShrinks
<1>3. QED
  BY <1>2, ArmInvariant, PTL
=============================================================================
