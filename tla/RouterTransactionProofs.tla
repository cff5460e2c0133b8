----------------------- MODULE RouterTransactionProofs -----------------------
(***************************************************************************)
(* A router command leaves no route of a configuration that was never      *)
(* committed, for any number of RIFs, configurations and failing calls;    *)
(* memory and state file implement ConfigTx, and so does the switch as     *)
(* long as no call of a rollback fails in turn.                            *)
(*                                                                         *)
(* That the routes follow the committed configuration is not inductive as  *)
(* it stands: a command whose plan equals the old one does not touch the   *)
(* routes, so they must be those of the plan the neighbor table gives now, *)
(* and what holds of them changes hands with the steps of the command      *)
(* (TxInv).  That the switch serves it is known between commands only from *)
(* what each step has reached and what the rollback still finds (ServeInv).*)
(***************************************************************************)
EXTENDS RouterTransaction, LoopLemmas, FiniteSetTheorems

-----------------------------------------------------------------------------
(***************************************************************************)
(* The switch: its shape, its capacity, and what a call that is not about  *)
(* routes leaves alone.                                                    *)
(***************************************************************************)
Ident == {c.rif[r] : c \in Configs, r \in Rif} \ {None}
AclGen == {c.acl[r] : c \in Configs, r \in Rif} \union {Arm, None}
DenyGen == {c.deny[r] : c \in Configs, r \in Rif} \union {None}
HwRoutes == UNION {c.plan : c \in Configs}

Context ==
  [id : Ident \union {None}, parts : SUBSET {"sel", "elig", "local", "ret"},
   acl : AclGen, deny : DenyGen]

Switch ==
  [up : [Port -> SUBSET {"rule", "meter"}], rif : [Rif -> Context], hw : SUBSET HwRoutes,
   degraded : BOOLEAN, backoff : BOOLEAN, late : BOOLEAN]

Outcome == [d : Switch, ok : BOOLEAN, left : Nat]

\* A context has no entries but those of its attachment.
Proper(x) == x.parts \subseteq IF x.id = None THEN {} ELSE Parts(x.id.at)

Fits(d) == (\A r \in Rif : Proper(d.rif[r])) /\ Cardinality(Bound(d)) <= MaxContexts

SameRoutes(d, e) ==
  e.hw = d.hw /\ e.late = d.late /\ (d.degraded = TRUE => e.degraded = TRUE)

\* What a call may turn outcome o into.
After(o) == {y \in Outcome : Fits(y.d) /\ SameRoutes(o.d, y.d) /\ y.left <= o.left}

-----------------------------------------------------------------------------
(***************************************************************************)
(* The invariant.                                                          *)
(***************************************************************************)
\* The routes are of c's plan, or known not to be.
InSync(d, c, n) ==
  d.degraded = TRUE \/ d.late = TRUE \/ d.hw \subseteq {x \in c.plan : x[2] \in n}

StateOK ==
  /\ file \in Configs /\ nb \in Resolvable /\ left \in 0..MaxFaults
  /\ pc \in Steps \union {"idle", "publish", "down"}
  /\ dp \in Switch /\ Fits(dp)

\* Memory and file: they differ only between the rename and the publication.
MemoryOK ==
  /\ pc # "down" => router \in Configs /\ cand \in Configs
  /\ pc \in Steps \union {"idle"} => router = file
  /\ pc = "publish" => cand = file
  /\ pc = "down" => router = NoConfig

DoneOK ==
  /\ "attached" \in done => Added # {}
  /\ "detached" \in done => Removed # {}
  /\ pc = "down" => done = {}

RoutesOK ==
  /\ pc \in {"idle", "flush", "detach", "attach", "invalidate", "prearm", "acl", "deny", "hw"}
       => InSync(dp, router, nb)
  /\ pc \in {"save", "publish"} => InSync(dp, cand, nb)
  /\ pc = "undo" => HwPlanChanged \/ InSync(dp, router, nb)

TxInv == StateOK /\ MemoryOK /\ DoneOK /\ RoutesOK

-----------------------------------------------------------------------------
(***************************************************************************)
(* Loops.                                                                  *)
(***************************************************************************)
\* A loop is a run of its turns: x[n] is what the first n leave.
Turns(S, o, call, c, x) ==
  /\ x[0] = {o} /\ ForEach(S, o, call, c) = x[RifCount]
  /\ \A n \in Rif :
       /\ n \notin S => x[n] = x[n-1]
       /\ n \in S => x[n] = UNION {IF y.ok THEN Turn(call, y, c, n) ELSE {y} : y \in x[n-1]}

LEMMA ForEachRuns ==
  ASSUME NEW K, NEW S, NEW o, o \in K, NEW call, NEW c,
         \A n \in Rif, y \in K : n \in S => Turn(call, y, c, n) \subseteq K
  PROVE  \E x : Turns(S, o, call, c, x)
<1> DEFINE L == RifCount
           A == SUBSET K
           Run(X, n) == UNION {IF y.ok THEN Turn(call, y, c, n) ELSE {y} : y \in X}
           Step(X, n) == IF n \in S THEN Run(X, n) ELSE X
           F == [z \in (1..L) \X A |-> Step(z[2], z[1])]
           R(x) == [n \in 0..L |-> IF n = 0 THEN {o} ELSE Step(x[n-1], n)]
           x == CHOOSE y : y = R(y)
<1>1. L \in Nat /\ 1..L = Rif
  BY TxAssumption DEF Rif
<1>2. \A n \in 1..L, X \in A : Step(X, n) \in A
  BY <1>1
<1>3. F \in LoopBody(A, L)
  <2> HIDE DEF Step, A
  <2>1. QED
    BY <1>2 DEF LoopBody
<1>4. PICK g : LoopRun(A, {o}, L, F, g)
  <2>1. L \in Nat /\ {o} \in A
    BY <1>1
  <2> HIDE DEF L, F, R, x, A
  <2>2. QED
    BY ONLY <2>1, <1>3, LoopRuns, Zenon
<1>5. g = R(g)
  <2> HIDE DEF A, Step
  <2>1. ASSUME NEW n \in 0..L PROVE g[n] = R(g)[n]
    <3>1. CASE n = 0
      BY <1>4, <3>1 DEF LoopRun
    <3>2. CASE n # 0
      <4>1. n \in 1..L /\ n - 1 \in 0..L
        BY <1>1, <3>2
      <4>2. g[n-1] \in A /\ g[n] = F[<<n, g[n-1]>>]
        BY <1>4, <4>1 DEF LoopRun
      <4>3. g[n] = Step(g[n-1], n)
        BY <4>1, <4>2
      <4>4. QED
        BY <4>3, <3>2
    <3>3. QED
      BY <3>1, <3>2
  <2> HIDE DEF F, L
  <2>2. QED
    BY <1>4, <2>1 DEF LoopRun
<1>6. x = R(x)
  <2> HIDE DEF R
  <2>1. QED
    BY <1>5
<1>7. ForEach(S, o, call, c) = x[L]
  BY DEF ForEach, AndThen
<1> HIDE DEF x, F, A, Step
<1>8. x[0] = {o} /\ \A n \in Rif : x[n] = Step(x[n-1], n)
  <2>1. x[0] = {o}
    BY <1>1, <1>6
  <2>2. ASSUME NEW n \in Rif PROVE x[n] = Step(x[n-1], n)
    <3>1. n \in 0..L /\ n # 0
      BY <1>1
    <3>2. R(x)[n] = Step(x[n-1], n)
      BY <3>1
    <3> HIDE DEF R
    <3>3. QED
      BY <1>6, <3>2
  <2>3. QED
    BY <2>1, <2>2
<1>9. Turns(S, o, call, c, x)
  BY <1>7, <1>8 DEF Turns, Step
<1>10. QED
  BY ONLY <1>9

\* A loop goes from K[n-1] to K[n] with the turn of RIF n.
LEMMA ForEachFollows ==
  ASSUME NEW Q, NEW S, NEW o, o \in Q, NEW call, NEW c,
         \A n \in Rif, y \in Q : n \in S => Turn(call, y, c, n) \subseteq Q,
         NEW K, o \in K[0],
         \A n \in Rif : \A y \in K[n-1] :
           IF n \in S /\ y.ok THEN Turn(call, y, c, n) \subseteq K[n] ELSE y \in K[n]
  PROVE  ForEach(S, o, call, c) \subseteq K[RifCount]
<1>0. o \in Q /\ \A n \in Rif, y \in Q : n \in S => Turn(call, y, c, n) \subseteq Q
  OBVIOUS
<1>1. PICK x : Turns(S, o, call, c, x)
  BY ONLY <1>0, ForEachRuns, Zenon
<1>2. RifCount \in Nat /\ 1..RifCount = Rif
  BY TxAssumption DEF Rif
<1> DEFINE T == {n \in Nat : n <= RifCount => x[n] \subseteq K[n]}
<1>3. 0 \in T
  BY <1>1 DEF Turns
<1>4. ASSUME NEW n \in Nat, n \in T PROVE n + 1 \in T
  <2>1. SUFFICES ASSUME n + 1 <= RifCount PROVE x[n+1] \subseteq K[n+1]
    OBVIOUS
  <2>2. n + 1 \in Rif /\ x[n] \subseteq K[n] /\ (n + 1) - 1 = n
    BY <1>2, <1>4, <2>1
  <2> DEFINE m == n + 1
  <2>3. m \in Rif /\ x[m-1] \subseteq K[m-1]
    BY <2>2
  <2> HIDE DEF m
  <2>4. \A y \in K[m-1] : IF m \in S /\ y.ok THEN Turn(call, y, c, m) \subseteq K[m] ELSE y \in K[m]
    BY <2>3
  <2>5. CASE m \in S
    <3>1. x[m] = UNION {IF y.ok THEN Turn(call, y, c, m) ELSE {y} : y \in x[m-1]}
      BY ONLY <1>1, <2>3, <2>5 DEF Turns
    <3>2. QED
      BY <2>3, <2>4, <2>5, <3>1 DEF m
  <2>6. CASE m \notin S
    <3>1. x[m] = x[m-1]
      BY ONLY <1>1, <2>3, <2>6 DEF Turns
    <3>2. QED
      BY <2>3, <2>4, <2>6, <3>1 DEF m
  <2>7. QED
    BY <2>5, <2>6
<1>5. Nat \subseteq T
  <2> HIDE DEF T
  <2>1. QED
    BY <1>3, <1>4, NatSetInduction
<1>6. x[RifCount] \subseteq K[RifCount]
  BY <1>2, <1>5
<1>7. QED
  BY <1>1, <1>6 DEF Turns

\* In particular, a loop stays where its turns do.
LEMMA ForEachOK ==
  ASSUME NEW K, NEW S, NEW o, o \in K, NEW call, NEW c,
         \A n \in Rif, y \in K : n \in S => Turn(call, y, c, n) \subseteq K
  PROVE  ForEach(S, o, call, c) \subseteq K
<1> DEFINE Q == [n \in 0..RifCount |-> K]
<1>1. RifCount \in Nat /\ 1..RifCount = Rif
  BY TxAssumption DEF Rif
<1>2. \A n \in 0..RifCount : Q[n] = K
  OBVIOUS
<1>3. Q[0] = K /\ Q[RifCount] = K /\ \A n \in Rif : Q[n] = K /\ Q[n-1] = K
  <2> HIDE DEF Q
  <2>1. QED
    BY <1>1, <1>2
<1> HIDE DEF Q
<1>4. \A n \in Rif : \A y \in Q[n-1] :
        IF n \in S /\ y.ok THEN Turn(call, y, c, n) \subseteq Q[n] ELSE y \in Q[n]
  BY <1>3
<1>5. o \in Q[0]
  BY <1>3
<1>6. ForEach(S, o, call, c) \subseteq Q[RifCount]
  BY <1>4, <1>5, ForEachFollows
<1>7. QED
  BY <1>3, <1>6

\* Calls one after the other.
LEMMA AfterTrans ==
  ASSUME NEW o \in Outcome, NEW y \in After(o)
  PROVE  After(y) \subseteq After(o)
BY DEF After, SameRoutes, Outcome

\* No call.
LEMMA AfterSelf ==
  ASSUME NEW o \in Outcome, Fits(o.d)
  PROVE  o \in After(o)
BY DEF After, SameRoutes, Outcome

\* The results of a call that puts the switch into state d.
LEMMA Results ==
  ASSUME NEW o \in Outcome, NEW d \in Switch, Fits(d), SameRoutes(o.d, d)
  PROVE  /\ Ok(o, d) \subseteq After(o)
         /\ \A kind : /\ Fault(o, kind, d, TRUE) \subseteq After(o)
                      /\ Fault(o, kind, d, FALSE) \subseteq After(o)
<1>1. Ok(o, d) \subseteq After(o)
  <2> DEFINE y == [o EXCEPT !.d = d]
  <2>1. y \in Outcome /\ y.d = d /\ y.left = o.left /\ o.left \in Nat
    BY DEF Outcome
  <2>2. Ok(o, d) = {y}
    BY DEF Ok
  <2> HIDE DEF y
  <2>3. y.left <= o.left
    BY <2>1
  <2>4. QED
    BY <2>1, <2>2, <2>3 DEF After
<1>2. ASSUME NEW kind, NEW b \in BOOLEAN PROVE Fault(o, kind, d, b) \subseteq After(o)
  <2> DEFINE y == [d |-> d, ok |-> b, left |-> o.left - 1]
  <2>1. CASE o.left > 0
    <3>1. o.left \in Nat
      BY DEF Outcome
    <3>2. o.left - 1 \in Nat /\ o.left - 1 <= o.left
      BY <3>1, <2>1
    <3>3. y \in Outcome /\ y.d = d /\ y.left = o.left - 1
      BY <3>2 DEF Outcome
    <3>4. y \in After(o)
      BY <3>2, <3>3 DEF After
    <3>5. QED
      BY <3>4 DEF Fault
  <2>2. CASE ~ (o.left > 0)
    BY <2>2 DEF Fault
  <2>3. QED
    BY <2>1, <2>2
<1>3. QED
  BY <1>1, <1>2

\* A call that is refused changes nothing.
LEMMA Errors ==
  ASSUME NEW o \in Outcome, Fits(o.d)
  PROVE  Error(o) \subseteq After(o) /\ Refused(o) \subseteq After(o)
<1>1. o.left \in Nat /\ SameRoutes(o.d, o.d)
  BY DEF Outcome, SameRoutes
<1> DEFINE e == [o EXCEPT !.ok = FALSE]
<1>2. e \in After(o)
  <2>1. e \in Outcome /\ e.d = o.d /\ e.left = o.left
    BY DEF Outcome
  <2> HIDE DEF e
  <2>2. e.left <= o.left
    BY <1>1, <2>1
  <2>3. QED
    BY <1>1, <2>1, <2>2 DEF After
<1>3. ASSUME NEW n \in Nat, n <= o.left
      PROVE  [[o EXCEPT !.ok = FALSE] EXCEPT !.left = n] \in After(o)
  BY <1>1, <1>3 DEF Outcome, After
<1>4. (IF o.left > 0 THEN o.left - 1 ELSE 0) \in Nat
      /\ (IF o.left > 0 THEN o.left - 1 ELSE 0) <= o.left
  BY <1>1
<1>5. Refused(o) = {[[o EXCEPT !.ok = FALSE] EXCEPT !.left = IF o.left > 0 THEN o.left - 1 ELSE 0]}
  BY DEF Refused, Outcome
<1>6. QED
  BY <1>2, <1>3, <1>4, <1>5 DEF Error

\* An error that is ignored.
LEMMA Recovered ==
  ASSUME NEW o \in Outcome, Fits(o.d)
  PROVE  [o EXCEPT !.ok = TRUE] \in After(o)
<1> DEFINE e == [o EXCEPT !.ok = TRUE]
<1>1. e \in Outcome /\ e.d = o.d /\ e.left = o.left /\ o.left \in Nat
  BY DEF Outcome
<1> HIDE DEF e
<1>2. e.left <= o.left /\ SameRoutes(o.d, o.d)
  BY <1>1 DEF SameRoutes
<1>3. e \in After(o)
  BY <1>1, <1>2 DEF After
<1>4. QED
  BY <1>3 DEF e

-----------------------------------------------------------------------------
(***************************************************************************)
(* Calls.  Each leaves the switch in shape and the routes alone.           *)
(***************************************************************************)
LEMMA BoundFinite ==
  ASSUME NEW d
  PROVE  IsFiniteSet(Rif) /\ IsFiniteSet(Bound(d)) /\ Cardinality(Bound(d)) \in Nat
<1>1. IsFiniteSet(Rif)
  <2>1. 1 \in Int /\ RifCount \in Int
    BY TxAssumption
  <2>2. IsFiniteSet(1..RifCount)
    BY ONLY <2>1, FS_Interval
  <2>3. QED
    BY <2>2 DEF Rif
<1>2. IsFiniteSet(Bound(d))
  BY <1>1, FS_Subset DEF Bound
<1>3. QED
  BY <1>1, <1>2, FS_CardinalityType

\* One context is replaced, within the capacity.
LEMMA ContextSet ==
  ASSUME NEW d \in Switch, Fits(d), NEW r \in Rif, NEW x \in Context, Proper(x),
         \/ x.id = None
         \/ d.rif[r].id # None
         \/ Cardinality(Bound(d)) < MaxContexts
  PROVE  /\ [d EXCEPT !.rif[r] = x] \in Switch
         /\ Fits([d EXCEPT !.rif[r] = x])
         /\ SameRoutes(d, [d EXCEPT !.rif[r] = x])
<1> DEFINE e == [d EXCEPT !.rif[r] = x]
<1>1. e \in Switch
  BY DEF Switch
<1>2. e.rif[r] = x /\ \A s \in Rif \ {r} : e.rif[s] = d.rif[s]
  BY DEF Switch
<1>3. e.hw = d.hw /\ e.late = d.late /\ e.degraded = d.degraded
  BY DEF Switch
<1> HIDE DEF e
<1>4. Cardinality(Bound(e)) <= MaxContexts
  <2>1. MaxContexts \in Nat /\ Cardinality(Bound(d)) <= MaxContexts
    BY TxAssumption DEF Fits
  <2>2. CASE x.id = None \/ d.rif[r].id # None
    <3>1. Bound(e) \subseteq Bound(d)
      BY <1>2, <2>2 DEF Bound
    <3>2. Cardinality(Bound(e)) <= Cardinality(Bound(d))
      BY <3>1, BoundFinite, FS_Subset
    <3>3. QED
      BY <2>1, <3>2, BoundFinite
  <2>3. CASE Cardinality(Bound(d)) < MaxContexts
    <3>1. Bound(e) \subseteq Bound(d) \union {r}
      BY <1>2 DEF Bound
    <3>2. IsFiniteSet(Bound(d) \union {r})
          /\ Cardinality(Bound(d) \union {r}) <= Cardinality(Bound(d)) + 1
      <4>1. IsFiniteSet(Bound(d)) /\ Cardinality(Bound(d)) \in Nat
        BY BoundFinite
      <4>2. /\ IsFiniteSet(Bound(d) \union {r})
            /\ \/ Cardinality(Bound(d) \union {r}) = Cardinality(Bound(d))
               \/ Cardinality(Bound(d) \union {r}) = Cardinality(Bound(d)) + 1
        BY <4>1, FS_AddElement
      <4>3. QED
        BY <4>1, <4>2
    <3>3. Cardinality(Bound(e)) <= Cardinality(Bound(d) \union {r})
          /\ Cardinality(Bound(d) \union {r}) \in Nat
      BY <3>1, <3>2, FS_Subset, FS_CardinalityType
    <3>4. QED
      BY <2>1, <2>3, <3>2, <3>3, BoundFinite
  <2>4. QED
    BY <2>2, <2>3
<1>5. \A s \in Rif : Proper(e.rif[s])
  BY <1>2 DEF Fits
<1>6. Fits(e) /\ SameRoutes(d, e)
  BY <1>3, <1>4, <1>5 DEF Fits, SameRoutes
<1>7. QED
  BY <1>1, <1>6 DEF e

\* The rules of one uplink port are replaced.
LEMMA UplinkSet ==
  ASSUME NEW d \in Switch, Fits(d), NEW p \in Port, NEW U \in SUBSET {"rule", "meter"}
  PROVE  /\ [d EXCEPT !.up[p] = U] \in Switch
         /\ Fits([d EXCEPT !.up[p] = U])
         /\ SameRoutes(d, [d EXCEPT !.up[p] = U])
<1> DEFINE e == [d EXCEPT !.up[p] = U]
<1>1. e \in Switch /\ e.rif = d.rif
  BY DEF Switch
<1>2. e.hw = d.hw /\ e.late = d.late /\ e.degraded = d.degraded
  BY DEF Switch
<1> HIDE DEF e
<1>3. Bound(e) = Bound(d)
  BY <1>1 DEF Bound
<1>4. Fits(e) /\ SameRoutes(d, e)
  BY <1>1, <1>2, <1>3 DEF Fits, SameRoutes
<1>5. QED
  BY <1>1, <1>4 DEF e

\* A call that fails before it did anything.
LEMMA Untouched ==
  ASSUME NEW o \in Outcome, Fits(o.d)
  PROVE  o.d \in Switch /\ SameRoutes(o.d, o.d) /\ o.left \in Nat
BY DEF Outcome, SameRoutes

\* eswitch_pipeline_attach_router_port.
LEMMA AttachOK ==
  ASSUME NEW o \in Outcome, Fits(o.d), NEW p \in Port
  PROVE  eswitch_pipeline_attach_router_port(o, p) \subseteq After(o)
<1> DEFINE a == [o.d EXCEPT !.up[p] = {"rule", "meter"}]
           b == [o.d EXCEPT !.up[p] = {"rule"}]
<1>1. o.d \in Switch /\ SameRoutes(o.d, o.d)
  BY Untouched
<1>2. {"rule", "meter"} \in SUBSET {"rule", "meter"} /\ {"rule"} \in SUBSET {"rule", "meter"}
  OBVIOUS
<1>3. a \in Switch /\ Fits(a) /\ SameRoutes(o.d, a)
  BY ONLY <1>1, <1>2, Fits(o.d), p \in Port, UplinkSet, Zenon
<1>4. b \in Switch /\ Fits(b) /\ SameRoutes(o.d, b)
  BY ONLY <1>1, <1>2, Fits(o.d), p \in Port, UplinkSet, Zenon
<1>5. eswitch_pipeline_attach_router_port(o, p)
        \subseteq Error(o) \union Ok(o, a) \union Fault(o, "meter", b, TRUE)
                   \union Fault(o, "attach", o.d, FALSE)
  BY DEF eswitch_pipeline_attach_router_port
<1> HIDE DEF a, b
<1>6. QED
  BY <1>1, <1>3, <1>4, <1>5, Results, Errors

\* eswitch_pipeline_detach_port.
LEMMA DetachOK ==
  ASSUME NEW o \in Outcome, Fits(o.d), NEW p \in Port
  PROVE  eswitch_pipeline_detach_port(o, p) \subseteq After(o)
<1> DEFINE a == [o.d EXCEPT !.up[p] = {}]
           b == [o.d EXCEPT !.up[p] = {"meter"}]
<1>1. o.d \in Switch /\ SameRoutes(o.d, o.d)
  BY Untouched
<1>2. {} \in SUBSET {"rule", "meter"} /\ {"meter"} \in SUBSET {"rule", "meter"}
  OBVIOUS
<1>3. a \in Switch /\ Fits(a) /\ SameRoutes(o.d, a)
  BY ONLY <1>1, <1>2, Fits(o.d), p \in Port, UplinkSet, Zenon
<1>4. b \in Switch /\ Fits(b) /\ SameRoutes(o.d, b)
  BY ONLY <1>1, <1>2, Fits(o.d), p \in Port, UplinkSet, Zenon
<1>5. eswitch_pipeline_detach_port(o, p)
        \subseteq Ok(o, a) \union Fault(o, "detach", o.d, FALSE) \union Fault(o, "unmeter", b, FALSE)
  BY DEF eswitch_pipeline_detach_port
<1> HIDE DEF a, b
<1>6. QED
  BY <1>1, <1>3, <1>4, <1>5, Results

\* The egress generation of one context is replaced.
LEMMA AclSet ==
  ASSUME NEW d \in Switch, Fits(d), NEW r \in Rif, NEW g \in AclGen
  PROVE  /\ [d EXCEPT !.rif[r].acl = g] \in Switch
         /\ Fits([d EXCEPT !.rif[r].acl = g])
         /\ SameRoutes(d, [d EXCEPT !.rif[r].acl = g])
<1> DEFINE x == [d.rif[r] EXCEPT !.acl = g]
<1>1. d.rif[r] \in Context /\ Proper(d.rif[r])
  BY DEF Switch, Fits
<1>2. x \in Context /\ x.id = d.rif[r].id /\ x.parts = d.rif[r].parts
  BY <1>1 DEF Context
<1>3. [d EXCEPT !.rif[r].acl = g] = [d EXCEPT !.rif[r] = x]
  BY DEF Switch
<1> HIDE DEF x
<1>4. Proper(x) /\ (x.id = None \/ d.rif[r].id # None \/ Cardinality(Bound(d)) < MaxContexts)
  BY <1>1, <1>2 DEF Proper
<1>5. QED
  BY <1>2, <1>3, <1>4, ContextSet

\* The deny set of one context is replaced.
LEMMA DenySet ==
  ASSUME NEW d \in Switch, Fits(d), NEW r \in Rif, NEW g \in DenyGen
  PROVE  /\ [d EXCEPT !.rif[r].deny = g] \in Switch
         /\ Fits([d EXCEPT !.rif[r].deny = g])
         /\ SameRoutes(d, [d EXCEPT !.rif[r].deny = g])
<1> DEFINE x == [d.rif[r] EXCEPT !.deny = g]
<1>1. d.rif[r] \in Context /\ Proper(d.rif[r])
  BY DEF Switch, Fits
<1>2. x \in Context /\ x.id = d.rif[r].id /\ x.parts = d.rif[r].parts
  BY <1>1 DEF Context
<1>3. [d EXCEPT !.rif[r].deny = g] = [d EXCEPT !.rif[r] = x]
  BY DEF Switch
<1> HIDE DEF x
<1>4. Proper(x) /\ (x.id = None \/ d.rif[r].id # None \/ Cardinality(Bound(d)) < MaxContexts)
  BY <1>1, <1>2 DEF Proper
<1>5. QED
  BY <1>2, <1>3, <1>4, ContextSet

\* eswitch_pipeline_sf_unbind_rif: layers go from the top, up to a failure.
LEMMA UnbindOK ==
  ASSUME NEW o \in Outcome, Fits(o.d), NEW r \in Rif
  PROVE  eswitch_pipeline_sf_unbind_rif(o, r) \subseteq After(o)
<1> DEFINE x == o.d.rif[r]
           here == {k \in DOMAIN Layer : Present(x, k)}
           Kind(k) == IF \E i \in here : i < k THEN "half" ELSE "unbind"
           a == [o.d EXCEPT !.rif[r] = Unbound]
           b(k) == [o.d EXCEPT !.rif[r] = Stripped(x, k - 1)]
<1>1. o.d \in Switch /\ SameRoutes(o.d, o.d) /\ x \in Context /\ Proper(x)
  BY Untouched DEF Switch, Fits
<1>2. Unbound \in Context /\ Proper(Unbound) /\ Unbound.id = None
  BY DEF Unbound, Context, AclGen, DenyGen, Proper
<1>3. a \in Switch /\ Fits(a) /\ SameRoutes(o.d, a)
  BY <1>1, <1>2, ContextSet
<1>4. ASSUME NEW k \in DOMAIN Layer PROVE b(k) \in Switch /\ Fits(b(k)) /\ SameRoutes(o.d, b(k))
  <2> DEFINE z == Stripped(x, k - 1)
  <2>1. k \in Nat /\ Len(Layer) = 6 /\ DOMAIN Layer = 1..6 /\ k - 1 # 6
    BY DEF Layer
  <2>2. z.id = x.id /\ z.parts \subseteq x.parts /\ z \in Context
    BY <1>1, <2>1 DEF Stripped, Context, AclGen, DenyGen
  <2> HIDE DEF z
  <2>3. Proper(z)
    BY <1>1, <2>2 DEF Proper
  <2>4. z.id = None \/ x.id # None
    BY <2>2
  <2>5. QED
    BY <1>1, <2>2, <2>3, <2>4, ContextSet DEF z
<1>5. eswitch_pipeline_sf_unbind_rif(o, r)
        = Ok(o, a) \union UNION {Fault(o, Kind(k), b(k), FALSE) : k \in here}
  BY DEF eswitch_pipeline_sf_unbind_rif
<1> HIDE DEF a, b, Kind
<1>6. Ok(o, a) \subseteq After(o)
  BY <1>3, Results
<1>7. ASSUME NEW k \in here PROVE Fault(o, Kind(k), b(k), FALSE) \subseteq After(o)
  <2>1. b(k) \in Switch /\ Fits(b(k)) /\ SameRoutes(o.d, b(k))
    BY <1>4
  <2>2. QED
    BY <2>1, Results
<1>8. QED
  BY <1>5, <1>6, <1>7

\* bind_sf_return_context: a context that is there or is built, or a failure
\* that takes it back.
LEMMA BindOK ==
  ASSUME NEW o \in Outcome, Fits(o.d), NEW c \in Configs, NEW r \in Adrs(c)
  PROVE  bind_sf_return_context(o, c, r) \subseteq After(o)
<1> DEFINE x == o.d.rif[r]
           full == [x EXCEPT !.id = c.rif[r], !.parts = Parts(c.rif[r].at)]
           part == [full EXCEPT !.parts = @ \ {"elig"}]
           a == [o.d EXCEPT !.rif[r] = full]
           b == [o.d EXCEPT !.rif[r] = part]
           e == [b EXCEPT !.degraded = TRUE]
<1>1. o.d \in Switch /\ SameRoutes(o.d, o.d) /\ r \in Rif /\ o \in After(o)
  BY Untouched, AfterSelf DEF Adrs
<1>2. x \in Context /\ Proper(x) /\ c.rif[r] \in Ident
  BY <1>1 DEF Switch, Fits, Adrs, Ident
<1>3. c.rif[r] # None
  BY DEF Adrs
<1>4. CASE x.id # None \/ Cardinality(Bound(o.d)) >= MaxContexts
  BY <1>1, <1>4, Errors DEF bind_sf_return_context
<1>5. CASE ~ (x.id # None \/ Cardinality(Bound(o.d)) >= MaxContexts)
  <2>1. Cardinality(Bound(o.d)) < MaxContexts
    BY <1>5, BoundFinite, TxAssumption
  <2>2. Parts(c.rif[r].at) \in SUBSET {"sel", "elig", "local", "ret"}
    BY DEF Parts
  <2>3. full \in Context /\ full.id = c.rif[r] /\ full.parts = Parts(c.rif[r].at)
    BY <1>2, <2>2 DEF Context
  <2>4. part \in Context /\ part.id = c.rif[r] /\ part.parts = Parts(c.rif[r].at) \ {"elig"}
    BY <1>2, <2>2 DEF Context
  <2>5. bind_sf_return_context(o, c, r)
          \subseteq Ok(o, a) \union Fault(o, "bind", o.d, FALSE) \union Fault(o, "elig", e, TRUE)
    BY <1>5 DEF bind_sf_return_context
  <2> HIDE DEF full, part
  <2>6. Proper(full) /\ Proper(part)
    BY <1>3, <2>3, <2>4 DEF Proper
  <2>7. a \in Switch /\ Fits(a) /\ SameRoutes(o.d, a)
    BY <1>1, <2>1, <2>3, <2>6, ContextSet
  <2>8. b \in Switch /\ Fits(b) /\ SameRoutes(o.d, b)
    BY <1>1, <2>1, <2>4, <2>6, ContextSet
  <2> HIDE DEF a, b
  <2>9. e \in Switch /\ e.rif = b.rif /\ e.hw = b.hw /\ e.late = b.late /\ e.degraded = TRUE
    BY <2>8 DEF Switch
  <2> HIDE DEF e
  <2>10. Bound(e) = Bound(b)
    BY <2>9 DEF Bound
  <2>11. Fits(e) /\ SameRoutes(o.d, e)
    BY <2>8, <2>9, <2>10 DEF Fits, SameRoutes
  <2>12. QED
    BY <1>1, <2>5, <2>7, <2>9, <2>11, Results
<1>6. QED
  BY <1>4, <1>5

\* A guest's egress policy is selected,
LEMMA SelectAclOK ==
  ASSUME NEW o \in Outcome, Fits(o.d), NEW c \in Configs, NEW r \in Rif
  PROVE  SelectAcl(o, c, r) \subseteq After(o)
<1> DEFINE a == [o.d EXCEPT !.rif[r].acl = c.acl[r]]
           b == [o.d EXCEPT !.rif[r].acl = Arm]
<1>1. o.d \in Switch /\ SameRoutes(o.d, o.d) /\ o \in After(o)
  BY Untouched, AfterSelf
<1>2. c.acl[r] \in AclGen /\ Arm \in AclGen
  BY DEF AclGen
<1>3. a \in Switch /\ Fits(a) /\ SameRoutes(o.d, a)
  BY <1>1, <1>2, AclSet
<1>4. b \in Switch /\ Fits(b) /\ SameRoutes(o.d, b)
  BY <1>1, <1>2, AclSet
<1>5. SelectAcl(o, c, r)
        \subseteq {o} \union Ok(o, a) \union Fault(o, "build", b, TRUE) \union Fault(o, "acl", o.d, FALSE)
  BY DEF SelectAcl, SetAcl
<1> HIDE DEF a, b
<1>6. QED
  BY <1>1, <1>3, <1>4, <1>5, Results

\* or dropped;
LEMMA DropAclOK ==
  ASSUME NEW o \in Outcome, Fits(o.d), NEW r \in Rif
  PROVE  DropAcl(o, r) \subseteq After(o)
<1> DEFINE a == [o.d EXCEPT !.rif[r].acl = None]
<1>1. o.d \in Switch /\ SameRoutes(o.d, o.d) /\ None \in AclGen
  BY Untouched DEF AclGen
<1>2. a \in Switch /\ Fits(a) /\ SameRoutes(o.d, a)
  BY <1>1, AclSet
<1>3. DropAcl(o, r) = Ok(o, a) \union Fault(o, "acl", o.d, FALSE)
  BY DEF DropAcl, SetAcl
<1> HIDE DEF a
<1>4. QED
  BY <1>1, <1>2, <1>3, Results

\* a public RIF's deny set is selected,
LEMMA SelectDenyOK ==
  ASSUME NEW o \in Outcome, Fits(o.d), NEW c \in Configs, NEW r \in Rif
  PROVE  SelectDeny(o, c, r) \subseteq After(o)
<1> DEFINE a == [o.d EXCEPT !.rif[r].deny = c.deny[r]]
           b == [o.d EXCEPT !.rif[r].deny = None]
<1>1. o.d \in Switch /\ SameRoutes(o.d, o.d) /\ o \in After(o)
  BY Untouched, AfterSelf
<1>2. c.deny[r] \in DenyGen /\ None \in DenyGen
  BY DEF DenyGen
<1>3. a \in Switch /\ Fits(a) /\ SameRoutes(o.d, a)
  BY <1>1, <1>2, DenySet
<1>4. b \in Switch /\ Fits(b) /\ SameRoutes(o.d, b)
  BY <1>1, <1>2, DenySet
<1>5. SelectDeny(o, c, r)
        \subseteq {o} \union Ok(o, a) \union Fault(o, "build", b, TRUE) \union Fault(o, "deny", o.d, FALSE)
  BY DEF SelectDeny, SetDeny
<1> HIDE DEF a, b
<1>6. QED
  BY <1>1, <1>3, <1>4, <1>5, Results

\* or dropped.
LEMMA DropDenyOK ==
  ASSUME NEW o \in Outcome, Fits(o.d), NEW r \in Rif
  PROVE  DropDeny(o, r) \subseteq After(o)
<1> DEFINE a == [o.d EXCEPT !.rif[r].deny = None]
<1>1. o.d \in Switch /\ SameRoutes(o.d, o.d) /\ None \in DenyGen
  BY Untouched DEF DenyGen
<1>2. a \in Switch /\ Fits(a) /\ SameRoutes(o.d, a)
  BY <1>1, DenySet
<1>3. DropDeny(o, r) = Ok(o, a) \union Fault(o, "deny", o.d, FALSE)
  BY DEF DropDeny, SetDeny
<1> HIDE DEF a
<1>4. QED
  BY <1>1, <1>2, <1>3, Results

-----------------------------------------------------------------------------
(***************************************************************************)
(* The loops over the interface list, and the calls made of them.          *)
(***************************************************************************)
Allowed(call, S, c) ==
  \/ call \in {"unbind", "forget", "acl", "noacl", "deny", "nodeny"}
  \/ call = "bind" /\ S \subseteq Adrs(c)
  \/ call = "attach" /\ \A r \in S : c.rif[r].at \in Port

\* One turn of a loop.
LEMMA TurnOK ==
  ASSUME NEW o \in Outcome, Fits(o.d), NEW c \in Configs, NEW S, NEW r \in Rif, r \in S,
         NEW call, Allowed(call, S, c)
  PROVE  Turn(call, o, c, r) \subseteq After(o)
<1>1. CASE call = "attach"
  <2>1. c.rif[r].at \in Port
    BY <1>1 DEF Allowed
  <2>2. Turn(call, o, c, r) = eswitch_pipeline_attach_router_port(o, c.rif[r].at)
    BY <1>1 DEF Turn
  <2>3. QED
    BY <2>1, <2>2, AttachOK
<1>2. CASE call = "unbind"
  <2>1. Turn(call, o, c, r) = eswitch_pipeline_sf_unbind_rif(o, r)
    BY <1>2 DEF Turn
  <2>2. QED
    BY <2>1, UnbindOK
<1>3. CASE call = "forget"
  <2> DEFINE U == eswitch_pipeline_sf_unbind_rif(o, r)
  <2>1. Turn(call, o, c, r) = UNION {{[y EXCEPT !.ok = TRUE]} : y \in U}
    BY <1>3 DEF Turn, Whatever
  <2>2. U \subseteq After(o)
    BY UnbindOK
  <2> HIDE DEF U
  <2>3. ASSUME NEW y \in U PROVE [y EXCEPT !.ok = TRUE] \in After(o)
    <3>1. y \in After(o) /\ y \in Outcome /\ Fits(y.d)
      BY <2>2 DEF After
    <3>2. [y EXCEPT !.ok = TRUE] \in After(y)
      BY <3>1, Recovered
    <3>3. QED
      BY <3>1, <3>2, AfterTrans
  <2>4. QED
    BY <2>1, <2>3
<1>4. CASE call = "bind"
  <2>1. r \in Adrs(c)
    BY <1>4 DEF Allowed
  <2>2. Turn(call, o, c, r) = bind_sf_return_context(o, c, r)
    BY <1>4 DEF Turn
  <2>3. QED
    BY <2>1, <2>2, BindOK
<1>5. CASE call = "acl"
  <2>1. Turn(call, o, c, r) = SelectAcl(o, c, r)
    BY <1>5 DEF Turn
  <2>2. QED
    BY <2>1, SelectAclOK
<1>6. CASE call = "noacl"
  <2>1. Turn(call, o, c, r) = DropAcl(o, r)
    BY <1>6 DEF Turn
  <2>2. QED
    BY <2>1, DropAclOK
<1>7. CASE call = "deny"
  <2>1. Turn(call, o, c, r) = SelectDeny(o, c, r)
    BY <1>7 DEF Turn
  <2>2. QED
    BY <2>1, SelectDenyOK
<1>8. CASE call = "nodeny"
  <2>1. Turn(call, o, c, r) = DropDeny(o, r)
    BY <1>8 DEF Turn
  <2>2. QED
    BY <2>1, DropDenyOK
<1>9. QED
  BY <1>1, <1>2, <1>3, <1>4, <1>5, <1>6, <1>7, <1>8 DEF Allowed

\* A loop over the interfaces is as harmless as its turns.
LEMMA LoopOK ==
  ASSUME NEW o \in Outcome, Fits(o.d), NEW c \in Configs, NEW S, NEW call, Allowed(call, S, c)
  PROVE  ForEach(S, o, call, c) \subseteq After(o)
<1>1. o \in After(o)
  BY AfterSelf
<1>2. ASSUME NEW n \in Rif, NEW y \in After(o), n \in S PROVE Turn(call, y, c, n) \subseteq After(o)
  <2>1. y \in Outcome /\ Fits(y.d)
    BY DEF After
  <2>2. Turn(call, y, c, n) \subseteq After(y)
    BY <1>2, <2>1, TurnOK
  <2>3. QED
    BY <2>2, AfterTrans
<1>3. \A n \in Rif, y \in After(o) : n \in S => Turn(call, y, c, n) \subseteq After(o)
  BY <1>2
<1>4. QED
  BY ONLY <1>1, <1>3, ForEachOK, Zenon

\* eswitch_manager_router_prearm.
LEMMA PrearmOK ==
  ASSUME NEW o \in Outcome, Fits(o.d), NEW c \in Configs
  PROVE  eswitch_manager_router_prearm(o, c) \subseteq After(o)
<1>1. Allowed("bind", Adrs(c), c)
  BY DEF Allowed
<1>2. ForEach(Adrs(c), o, "bind", c) \subseteq After(o)
  BY <1>1, LoopOK
<1>3. QED
  BY <1>2, Errors DEF eswitch_manager_router_prearm

\* eswitch_pipeline_egress_acl_sync.
LEMMA AclSyncOK ==
  ASSUME NEW o \in Outcome, Fits(o.d), NEW c \in Configs
  PROVE  eswitch_pipeline_egress_acl_sync(o, c) \subseteq After(o)
<1> DEFINE X == ForEach({r \in Adrs(c) : c.acl[r] # None}, o, "acl", c)
           Y(z) == ForEach({r \in Rif : z.d.rif[r].acl # None /\ c.acl[r] = None}, z, "noacl", c)
<1>1. \A S : Allowed("acl", S, c) /\ Allowed("noacl", S, c)
  BY DEF Allowed
<1>2. X \subseteq After(o)
  BY <1>1, LoopOK
<1>3. ASSUME NEW z \in X PROVE z \in After(o) /\ Y(z) \subseteq After(o)
  <2>1. z \in After(o)
    BY <1>2
  <2>2. z \in Outcome /\ Fits(z.d)
    BY <2>1 DEF After
  <2>3. Y(z) \subseteq After(z)
    BY <1>1, <2>2, LoopOK
  <2>4. QED
    BY <2>1, <2>3, AfterTrans
<1>4. eswitch_pipeline_egress_acl_sync(o, c) = UNION {IF z.ok THEN Y(z) ELSE {z} : z \in X}
  BY DEF eswitch_pipeline_egress_acl_sync, AndThen
<1> HIDE DEF X, Y
<1>5. QED
  BY <1>3, <1>4

\* eswitch_pipeline_ingress_deny_sync.
LEMMA DenySyncOK ==
  ASSUME NEW o \in Outcome, Fits(o.d), NEW c \in Configs
  PROVE  eswitch_pipeline_ingress_deny_sync(o, c) \subseteq After(o)
<1> DEFINE X == ForEach({r \in Rif : o.d.rif[r].deny # None /\ c.deny[r] = None}, o, "nodeny", c)
           Y(z) == ForEach({r \in Adrs(c) : c.deny[r] # None}, z, "deny", c)
<1>1. \A S : Allowed("deny", S, c) /\ Allowed("nodeny", S, c)
  BY DEF Allowed
<1>2. X \subseteq After(o)
  BY <1>1, LoopOK
<1>3. ASSUME NEW z \in X PROVE z \in After(o) /\ Y(z) \subseteq After(o)
  <2>1. z \in After(o)
    BY <1>2
  <2>2. z \in Outcome /\ Fits(z.d)
    BY <2>1 DEF After
  <2>3. Y(z) \subseteq After(z)
    BY <1>1, <2>2, LoopOK
  <2>4. QED
    BY <2>1, <2>3, AfterTrans
<1>4. eswitch_pipeline_ingress_deny_sync(o, c) = UNION {IF z.ok THEN Y(z) ELSE {z} : z \in X}
  BY DEF eswitch_pipeline_ingress_deny_sync, AndThen
<1> HIDE DEF X, Y
<1>5. QED
  BY <1>3, <1>4

\* Prearm and the two policies, as the rollback and the restart run them.
Rearm(S, c) ==
  LET armed == AndThen(S, LAMBDA y : eswitch_manager_router_prearm(y, c))
      acls == AndThen(armed, LAMBDA y : eswitch_pipeline_egress_acl_sync(y, c))
  IN  AndThen(acls, LAMBDA y : eswitch_pipeline_ingress_deny_sync(y, c))

\* The contexts, then the policies, as the rollback builds them.
LEMMA RearmOK ==
  ASSUME NEW o \in Outcome, NEW c \in Configs, NEW S, S \subseteq After(o)
  PROVE  Rearm(S, c) \subseteq After(o)
<1> DEFINE armed == UNION {IF y.ok THEN eswitch_manager_router_prearm(y, c) ELSE {y} : y \in S}
           acls == UNION {IF y.ok THEN eswitch_pipeline_egress_acl_sync(y, c) ELSE {y} : y \in armed}
           denies == UNION {IF y.ok THEN eswitch_pipeline_ingress_deny_sync(y, c) ELSE {y} : y \in acls}
<1>1. \A y \in After(o) : y \in Outcome /\ Fits(y.d) /\ After(y) \subseteq After(o)
  BY AfterTrans DEF After
<1>2. armed \subseteq After(o)
  <2>1. ASSUME NEW y \in S PROVE y \in After(o) /\ eswitch_manager_router_prearm(y, c) \subseteq After(o)
    BY <1>1, PrearmOK
  <2>2. QED
    BY <2>1
<1>3. acls \subseteq After(o)
  <2> HIDE DEF armed
  <2>1. ASSUME NEW y \in armed
        PROVE  y \in After(o) /\ eswitch_pipeline_egress_acl_sync(y, c) \subseteq After(o)
    BY <1>1, <1>2, AclSyncOK
  <2>2. QED
    BY <2>1
<1>4. denies \subseteq After(o)
  <2> HIDE DEF acls
  <2>1. ASSUME NEW y \in acls
        PROVE  y \in After(o) /\ eswitch_pipeline_ingress_deny_sync(y, c) \subseteq After(o)
    BY <1>1, <1>3, DenySyncOK
  <2>2. QED
    BY <2>1
<1>5. Rearm(S, c) = denies
  BY DEF Rearm, AndThen
<1>6. QED
  BY <1>4, <1>5

\* rollback_prearmed_candidate, whichever of its calls fail.
LEMMA RollbackOK ==
  ASSUME NEW o \in Outcome, Fits(o.d), router \in Configs, cand \in Configs
  PROVE  rollback_prearmed_candidate(o) \subseteq After(o)
<1> DEFINE S == ForEach({r \in Rif : cand.rif[r] # None}, o, "forget", cand)
<1>1. \A T : Allowed("forget", T, cand)
  BY DEF Allowed
<1>2. S \subseteq After(o)
  BY <1>1, LoopOK
<1>3. rollback_prearmed_candidate(o) = Rearm(S, router)
  BY DEF rollback_prearmed_candidate, Rearm
<1> HIDE DEF S
<1>4. QED
  BY <1>2, <1>3, RearmOK

-----------------------------------------------------------------------------
(***************************************************************************)
(* The route synchronisation: whatever fails, the entries are the plan or  *)
(* the switch is marked degraded.                                          *)
(***************************************************************************)
Synced(o, R) ==
  {y \in Outcome : Fits(y.d) /\ y.left <= o.left /\ (y.d.degraded = TRUE \/ y.d.hw = R)}

\* The entries and marks of a switch whose contexts are c.
WithRoutes(d, c, H, g) ==
  [[[[d EXCEPT !.rif = c] EXCEPT !.hw = H] EXCEPT !.degraded = g] EXCEPT !.late = FALSE]

\* Routes and eligibility change together.
LEMMA RoutesSet ==
  ASSUME NEW d \in Switch, Fits(d), NEW c \in [Rif -> Context], \A r \in Rif : Proper(c[r]),
         \A r \in Rif : c[r].id = d.rif[r].id, NEW H \in SUBSET HwRoutes, NEW g \in BOOLEAN
  PROVE  /\ WithRoutes(d, c, H, g) \in Switch /\ Fits(WithRoutes(d, c, H, g))
         /\ WithRoutes(d, c, H, g).hw = H /\ WithRoutes(d, c, H, g).degraded = g
<1> DEFINE e == WithRoutes(d, c, H, g)
<1>1. e \in Switch /\ e.rif = c /\ e.hw = H /\ e.degraded = g
  BY DEF Switch, WithRoutes
<1> HIDE DEF e
<1>2. Bound(e) = Bound(d)
  BY <1>1 DEF Bound
<1>3. Fits(e)
  BY <1>1, <1>2 DEF Fits
<1>4. QED
  BY <1>1, <1>3 DEF e

\* Contexts that become eligible keep what else they have,
LEMMA EligOK ==
  ASSUME NEW d \in Switch, Fits(d), NEW S, S \subseteq Active(d)
  PROVE  LET c == [r \in Rif |-> IF r \in S THEN [d.rif[r] EXCEPT !.parts = @ \union {"elig"}]
                                 ELSE d.rif[r]]
         IN  /\ c \in [Rif -> Context] /\ \A r \in Rif : Proper(c[r]) /\ c[r].id = d.rif[r].id
<1> DEFINE x(r) == [d.rif[r] EXCEPT !.parts = @ \union {"elig"}]
<1>1. ASSUME NEW r \in Rif
      PROVE  /\ d.rif[r] \in Context /\ Proper(d.rif[r])
             /\ x(r) \in Context /\ x(r).id = d.rif[r].id
             /\ r \in S => Proper(x(r))
  <2>1. d.rif[r] \in Context /\ Proper(d.rif[r])
    BY DEF Switch, Fits
  <2>2. x(r) \in Context /\ x(r).id = d.rif[r].id /\ x(r).parts = d.rif[r].parts \union {"elig"}
    BY <2>1 DEF Context
  <2> HIDE DEF x
  <2>3. r \in S => "elig" \in Parts(d.rif[r].id.at) /\ d.rif[r].id # None
    BY DEF Active, Parts
  <2>4. QED
    BY <2>1, <2>2, <2>3 DEF Proper
<1> HIDE DEF x
<1>2. QED
  BY <1>1 DEF x

\* and so do those that lose it.
LEMMA IneligibleOK ==
  ASSUME NEW d \in Switch, Fits(d)
  PROVE  LET c == [r \in Rif |-> [d.rif[r] EXCEPT !.parts = @ \ {"elig"}]]
         IN  /\ c \in [Rif -> Context] /\ \A r \in Rif : Proper(c[r]) /\ c[r].id = d.rif[r].id
<1> DEFINE x(r) == [d.rif[r] EXCEPT !.parts = @ \ {"elig"}]
<1>1. ASSUME NEW r \in Rif
      PROVE  x(r) \in Context /\ x(r).id = d.rif[r].id /\ Proper(x(r))
  <2>1. d.rif[r] \in Context /\ Proper(d.rif[r])
    BY DEF Switch, Fits
  <2>2. x(r) \in Context /\ x(r).id = d.rif[r].id /\ x(r).parts \subseteq d.rif[r].parts
    BY <2>1 DEF Context
  <2> HIDE DEF x
  <2>3. QED
    BY <2>1, <2>2 DEF Proper
<1> HIDE DEF x
<1>2. QED
  BY <1>1 DEF x

\* A synchronisation ends with the wanted routes or marked degraded.
LEMMA SyncedResults ==
  ASSUME NEW o \in Outcome, NEW d \in Switch, Fits(d), NEW R, d.degraded = TRUE \/ d.hw = R
  PROVE  Ok(o, d) \subseteq Synced(o, R) /\ \A kind : Fault(o, kind, d, FALSE) \subseteq Synced(o, R)
<1>1. Ok(o, d) \subseteq Synced(o, R)
  <2> DEFINE y == [o EXCEPT !.d = d]
  <2>1. y \in Outcome /\ y.d = d /\ y.left = o.left /\ o.left \in Nat
    BY DEF Outcome
  <2>2. Ok(o, d) = {y}
    BY DEF Ok
  <2> HIDE DEF y
  <2>3. y.left <= o.left
    BY <2>1
  <2>4. QED
    BY <2>1, <2>2, <2>3 DEF Synced
<1>2. ASSUME NEW kind PROVE Fault(o, kind, d, FALSE) \subseteq Synced(o, R)
  <2> DEFINE y == [d |-> d, ok |-> FALSE, left |-> o.left - 1]
  <2>1. CASE o.left > 0
    <3>1. o.left \in Nat
      BY DEF Outcome
    <3>2. o.left - 1 \in Nat /\ o.left - 1 <= o.left
      BY <3>1, <2>1
    <3>3. y \in Outcome /\ y.d = d /\ y.left = o.left - 1
      BY <3>2 DEF Outcome
    <3>4. Fault(o, kind, d, FALSE) \subseteq {y}
      BY DEF Fault
    <3> HIDE DEF y
    <3>5. y \in Synced(o, R)
      BY <3>2, <3>3 DEF Synced
    <3>6. QED
      BY <3>4, <3>5
  <2>2. CASE ~ (o.left > 0)
    BY <2>2 DEF Fault
  <2>3. QED
    BY <2>1, <2>2
<1>3. QED
  BY <1>1, <1>2

\* eswitch_pipeline_hw_routes_sync: the routes are the wanted ones, or it is
\* marked degraded.
LEMMA HwSyncOK ==
  ASSUME NEW o \in Outcome, Fits(o.d), NEW R \in SUBSET HwRoutes
  PROVE  eswitch_pipeline_hw_routes_sync(o, R) \subseteq Synced(o, R)
<1> DEFINE d == o.d
           missing == {r \in Active(d) : "elig" \notin d.rif[r].parts}
           Some(S) == [r \in Rif |-> IF r \in S THEN [d.rif[r] EXCEPT !.parts = @ \union {"elig"}]
                                     ELSE d.rif[r]]
           none == [r \in Rif |-> [d.rif[r] EXCEPT !.parts = @ \ {"elig"}]]
           Below(s) == {r \in missing : r < s}
           a == WithRoutes(d, Some(Active(d)), R, FALSE)
           b(H) == WithRoutes(d, none, H, TRUE)
           e(s) == WithRoutes(d, Some(Below(s)), R, TRUE)
           X == UNION {Fault(o, "route", b(H), FALSE) : H \in BrokenPlans(d, R)}
           Y == UNION {Fault(o, "elig", e(s), FALSE) : s \in missing}
<1>1. d \in Switch
  BY DEF Outcome
<1>2. eswitch_pipeline_hw_routes_sync(o, R) = Ok(o, a) \union X \union Y
  BY <1>1 DEF eswitch_pipeline_hw_routes_sync, WithElig, Ineligible, WithRoutes, Switch
<1>3. Ok(o, a) \subseteq Synced(o, R)
  <2> DEFINE c == Some(Active(d))
  <2>1. c \in [Rif -> Context] /\ \A r \in Rif : Proper(c[r]) /\ c[r].id = d.rif[r].id
    BY <1>1, EligOK
  <2> HIDE DEF Some, c, d
  <2>2. a \in Switch /\ Fits(a) /\ a.hw = R
    BY <1>1, <2>1, RoutesSet DEF c, d
  <2> HIDE DEF a
  <2>3. QED
    BY <2>2, SyncedResults
<1>4. ASSUME NEW H \in BrokenPlans(d, R) PROVE Fault(o, "route", b(H), FALSE) \subseteq Synced(o, R)
  <2>1. H \in SUBSET HwRoutes
    BY <1>1 DEF BrokenPlans, Switch
  <2>2. none \in [Rif -> Context] /\ \A r \in Rif : Proper(none[r]) /\ none[r].id = d.rif[r].id
    BY <1>1, IneligibleOK
  <2> HIDE DEF none, d
  <2>3. b(H) \in Switch /\ Fits(b(H)) /\ b(H).degraded = TRUE
    BY <1>1, <2>1, <2>2, RoutesSet DEF d
  <2> HIDE DEF b
  <2>4. QED
    BY <2>3, SyncedResults
<1>5. ASSUME NEW s \in missing PROVE Fault(o, "elig", e(s), FALSE) \subseteq Synced(o, R)
  <2> DEFINE c == Some(Below(s))
  <2>1. Below(s) \subseteq Active(d)
    OBVIOUS
  <2>2. c \in [Rif -> Context] /\ \A r \in Rif : Proper(c[r]) /\ c[r].id = d.rif[r].id
    <3> HIDE DEF Below
    <3>1. QED
      BY <1>1, <2>1, EligOK
  <2> HIDE DEF Some, c, d, Below
  <2>3. e(s) \in Switch /\ Fits(e(s)) /\ e(s).hw = R
    BY <1>1, <2>2, RoutesSet DEF c, d
  <2> HIDE DEF e
  <2>4. QED
    BY <2>3, SyncedResults
<1> HIDE DEF a, b, e, missing, d
<1>6. X \subseteq Synced(o, R)
  BY <1>4
<1>7. Y \subseteq Synced(o, R)
  BY <1>5
<1> HIDE DEF X, Y
<1>8. QED
  BY <1>2, <1>3, <1>6, <1>7

\* The retry delay is not about routes.
LEMMA BackoffSet ==
  ASSUME NEW o \in Outcome, NEW R, NEW y \in Synced(o, R), NEW b \in BOOLEAN
  PROVE  [y EXCEPT !.d.backoff = b] \in Synced(o, R)
<1> DEFINE z == [y EXCEPT !.d.backoff = b]
<1>1. y \in Outcome /\ y.d \in Switch /\ Fits(y.d) /\ y.left <= o.left
      /\ (y.d.degraded = TRUE \/ y.d.hw = R)
  BY DEF Synced, Outcome
<1>2. z.d = [y.d EXCEPT !.backoff = b] /\ z.left = y.left
  BY <1>1 DEF Outcome
<1>3. z.d \in Switch /\ z.d.rif = y.d.rif /\ z.d.hw = y.d.hw /\ z.d.degraded = y.d.degraded
  BY <1>1, <1>2 DEF Switch
<1>4. z \in Outcome
  BY <1>1, <1>2, <1>3 DEF Outcome
<1> HIDE DEF z
<1>5. Bound(z.d) = Bound(y.d)
  BY <1>3 DEF Bound
<1>6. Fits(z.d)
  BY <1>1, <1>3, <1>5 DEF Fits
<1>7. z \in Synced(o, R)
  BY <1>1, <1>2, <1>3, <1>4, <1>6 DEF Synced
<1>8. QED
  BY <1>7 DEF z

\* eswitch_manager_hw_routes_sync with a candidate,
LEMMA SyncCandidateOK ==
  ASSUME NEW o \in Outcome, Fits(o.d), NEW R \in SUBSET HwRoutes
  PROVE  SyncCandidate(o, R) \subseteq Synced(o, R)
<1> DEFINE X == eswitch_pipeline_hw_routes_sync(o, R)
<1>1. X \subseteq Synced(o, R) /\ FALSE \in BOOLEAN
  BY HwSyncOK
<1>2. SyncCandidate(o, R) = {IF y.ok THEN [y EXCEPT !.d.backoff = FALSE] ELSE y : y \in X}
  BY DEF SyncCandidate
<1> HIDE DEF X
<1>3. ASSUME NEW y \in X PROVE [y EXCEPT !.d.backoff = FALSE] \in Synced(o, R) /\ y \in Synced(o, R)
  BY <1>1, BackoffSet
<1>4. QED
  BY <1>2, <1>3

\* and with the active configuration.
LEMMA SyncActiveOK ==
  ASSUME NEW o \in Outcome, Fits(o.d), NEW R \in SUBSET HwRoutes
  PROVE  SyncActive(o, R) \subseteq Synced(o, R)
<1> DEFINE X == eswitch_pipeline_hw_routes_sync(o, R)
<1>1. X \subseteq Synced(o, R)
  BY HwSyncOK
<1>2. ASSUME NEW y \in X PROVE [y EXCEPT !.d.backoff = ~ y.ok] \in Synced(o, R)
  <2>1. y \in Synced(o, R) /\ (~ y.ok) \in BOOLEAN
    BY <1>1 DEF Synced, Outcome
  <2>2. CASE y.ok
    <3>1. [y EXCEPT !.d.backoff = FALSE] \in Synced(o, R)
      BY <2>1, BackoffSet
    <3>2. QED
      BY <2>2, <3>1
  <2>3. CASE ~ y.ok
    <3>1. [y EXCEPT !.d.backoff = TRUE] \in Synced(o, R)
      BY <2>1, BackoffSet
    <3>2. QED
      BY <2>3, <3>1
  <2>4. QED
    BY <2>2, <2>3
<1>3. CASE o.d.degraded /\ o.d.backoff
  <2>1. SyncActive(o, R) = {o}
    BY <1>3 DEF SyncActive
  <2>2. o.d.degraded = TRUE /\ o.left <= o.left
    BY <1>3 DEF Outcome, Switch
  <2>3. QED
    BY <2>1, <2>2 DEF Synced
<1>4. CASE ~ (o.d.degraded /\ o.d.backoff)
  <2>1. SyncActive(o, R) = {[y EXCEPT !.d.backoff = ~ y.ok] : y \in X}
    BY <1>4 DEF SyncActive
  <2> HIDE DEF X
  <2>2. QED
    BY <1>2, <2>1
<1>5. QED
  BY <1>3, <1>4

-----------------------------------------------------------------------------
(***************************************************************************)
(* The steps of a command.                                                 *)
(***************************************************************************)
LEMMA InSyncKept ==
  ASSUME NEW d, NEW e, NEW c, NEW n, InSync(d, c, n), SameRoutes(d, e)
  PROVE  InSync(e, c, n)
BY DEF InSync, SameRoutes

\* What a synchronisation establishes.
LEMMA SyncedInSync ==
  ASSUME NEW o, NEW c, NEW n, NEW y, y \in Synced(o, {x \in c.plan : x[2] \in n})
  PROVE  y \in Outcome /\ Fits(y.d) /\ InSync(y.d, c, n) /\ y.left <= o.left
BY DEF Synced, InSync

\* A plan of resolved next hops is made of known routes.
LEMMA PlanRoutes ==
  ASSUME NEW c \in Configs, NEW n
  PROVE  {x \in c.plan : x[2] \in n} \in SUBSET HwRoutes
BY DEF HwRoutes

\* The switch a handler starts from.
LEMMA NowOK ==
  ASSUME StateOK
  PROVE  /\ Now \in Outcome /\ Now.d = dp /\ Now.left = left /\ Fits(Now.d)
         /\ Fresh \in Outcome /\ Fresh.d = dp /\ Fits(Fresh.d)
         /\ left \in Nat /\ MaxFaults \in Nat /\ UndoFaults \in Nat
<1>1. left \in Nat /\ MaxFaults \in Nat /\ UndoFaults \in Nat
  BY TxAssumption DEF StateOK
<1>2. Now \in Outcome /\ Now.d = dp /\ Now.left = left
  BY <1>1 DEF Now, StateOK, Outcome
<1>3. Fresh \in Outcome /\ Fresh.d = dp
  BY <1>1 DEF Fresh, StateOK, Outcome
<1>4. QED
  BY <1>1, <1>2, <1>3 DEF StateOK

Before == {"flush", "detach", "attach", "invalidate", "prearm", "acl", "deny"}
Behind == {"detach", "attach", "invalidate", "prearm", "acl", "deny", "hw"}

\* A step that is not about routes hands everything on.
LEMMA RunStepOK ==
  ASSUME TxInv, NEW from \in Before, NEW to \in Behind, NEW S, RunStep(from, to, S),
         S \subseteq After(Now)
  PROVE  StateOK' /\ MemoryOK' /\ RoutesOK'
<1>1. PICK o \in S : dp' = o.d /\ left' = o.left /\ pc' = IF o.ok THEN to ELSE "undo"
  BY DEF RunStep
<1>2. pc = from /\ UNCHANGED <<file, router, cand, nb, twice>>
  BY DEF RunStep
<1>3. StateOK /\ MemoryOK /\ RoutesOK
  BY DEF TxInv
<1>4. Now.d = dp /\ Now.left = left /\ left \in Nat /\ MaxFaults \in Nat
  BY <1>3, NowOK
<1>5. o \in Outcome /\ Fits(o.d) /\ SameRoutes(dp, o.d) /\ o.left <= left
  BY <1>4 DEF After
<1>6. pc' \in {"undo"} \union Behind
  BY <1>1
<1>7. pc \in Steps /\ pc' \in Steps /\ pc \notin {"down", "publish"}
      /\ pc' \notin {"down", "publish", "save"}
  BY <1>2, <1>6 DEF Before, Behind, Steps
<1>8. StateOK'
  <2>1. left' \in 0..MaxFaults
    <3>1. left <= MaxFaults /\ o.left \in Nat
      BY <1>3, <1>5 DEF StateOK, Outcome
    <3>2. QED
      BY <1>1, <1>4, <1>5, <3>1
  <2>2. dp' \in Switch
    BY <1>1, <1>5 DEF Outcome
  <2>3. QED
    BY <1>1, <1>2, <1>3, <1>5, <1>7, <2>1, <2>2 DEF StateOK
<1>9. MemoryOK'
  BY <1>2, <1>3, <1>7 DEF MemoryOK
<1>10. RoutesOK'
  <2>1. InSync(dp, router, nb)
    BY <1>2, <1>3 DEF RoutesOK, Before
  <2>2. InSync(dp', router, nb)
    BY <1>1, <1>5, <2>1, InSyncKept
  <2>3. QED
    BY <1>2, <1>7, <2>2 DEF RoutesOK
<1>11. QED
  BY <1>8, <1>9, <1>10

\* The ports a command moves are ports.
LEMMA MovedPorts == /\ Added # {} => The(Added) \in Port
                    /\ Removed # {} => The(Removed) \in Port
<1>1. Added \subseteq Port /\ Removed \subseteq Port
  BY DEF Added, Removed, PortsOf
<1>2. \A S : S # {} => (CHOOSE p \in S : TRUE) \in S
  OBVIOUS
<1>3. QED
  BY <1>1, <1>2 DEF The

\* A step that moves no port.
LEMMA DoneKept ==
  ASSUME DoneOK, UNCHANGED <<router, cand, done>>, pc' # "down"
  PROVE  DoneOK'
BY DEF DoneOK, Added, Removed, PortsOf

\* The steps before the routes.
LEMMA EarlyStepOK ==
  ASSUME TxInv, Flush \/ Detach \/ Attach \/ invalidate_changed_rifs \/ Prearm \/ AclSync \/ DenySync
  PROVE  TxInv'
<1>1. StateOK /\ MemoryOK /\ DoneOK /\ RoutesOK
  BY DEF TxInv
<1>2. Now \in Outcome /\ Fits(Now.d) /\ Now.d = dp /\ Now \in After(Now)
  BY <1>1, NowOK, AfterSelf
<1>3. pc # "down" => cand \in Configs
  BY <1>1 DEF MemoryOK
<1>4. ASSUME NEW from \in Before, NEW to \in Behind, NEW S, RunStep(from, to, S)
      PROVE  UNCHANGED <<router, cand>> /\ pc' # "down" /\ cand \in Configs /\ pc = from
  BY <1>3, <1>4 DEF RunStep, Before, Behind
<1>5. CASE Flush
  <2> DEFINE S == {Now} \union Fault(Now, "flush", dp, FALSE)
  <2>1. RunStep("flush", "detach", S) /\ UNCHANGED done
    BY <1>5 DEF Flush
  <2>2. Fault(Now, "flush", dp, FALSE) \subseteq After(Now)
    BY <1>2, Untouched, Results
  <2>3. S \subseteq After(Now)
    BY <1>2, <2>2
  <2> HIDE DEF S
  <2>4. "flush" \in Before /\ "detach" \in Behind
    BY DEF Before, Behind
  <2>5. StateOK' /\ MemoryOK' /\ RoutesOK'
    BY <2>1, <2>3, <2>4, RunStepOK
  <2>6. DoneOK'
    BY <1>1, <1>4, <2>1, <2>4, DoneKept
  <2>7. QED
    BY <2>5, <2>6 DEF TxInv
<1>6. CASE Detach
  <2> DEFINE S == IF Removed = {} THEN {Now} ELSE eswitch_pipeline_detach_port(Now, The(Removed))
  <2>1. /\ RunStep("detach", "attach", S)
        /\ done' = IF Removed # {} /\ pc' = "attach" THEN {"detached"} ELSE {}
    BY <1>6 DEF Detach
  <2>2. S \subseteq After(Now)
    BY <1>2, MovedPorts, DetachOK
  <2> HIDE DEF S
  <2>3. "detach" \in Before /\ "attach" \in Behind
    BY DEF Before, Behind
  <2>4. StateOK' /\ MemoryOK' /\ RoutesOK'
    BY <2>1, <2>2, <2>3, RunStepOK
  <2>5. UNCHANGED <<router, cand>> /\ pc' # "down"
    BY <1>4, <2>1, <2>3
  <2>6. Removed' = Removed
    BY <2>5 DEF Removed, PortsOf
  <2>7. DoneOK'
    BY <2>1, <2>5, <2>6 DEF DoneOK
  <2>8. QED
    BY <2>4, <2>7 DEF TxInv
<1>7. CASE Attach
  <2> DEFINE S == IF Added = {} THEN {Now} ELSE eswitch_pipeline_attach_router_port(Now, The(Added))
  <2>1. /\ RunStep("attach", "invalidate", S)
        /\ done' = done \union IF Added # {} /\ pc' = "invalidate" THEN {"attached"} ELSE {}
    BY <1>7 DEF Attach
  <2>2. S \subseteq After(Now)
    BY <1>2, MovedPorts, AttachOK
  <2> HIDE DEF S
  <2>3. "attach" \in Before /\ "invalidate" \in Behind
    BY DEF Before, Behind
  <2>4. StateOK' /\ MemoryOK' /\ RoutesOK'
    BY <2>1, <2>2, <2>3, RunStepOK
  <2>5. UNCHANGED <<router, cand>> /\ pc' # "down"
    BY <1>4, <2>1, <2>3
  <2>6. Removed' = Removed /\ Added' = Added
    BY <2>5 DEF Removed, Added, PortsOf
  <2>7. DoneOK'
    BY <1>1, <2>1, <2>5, <2>6 DEF DoneOK
  <2>8. QED
    BY <2>4, <2>7 DEF TxInv
<1>8. CASE invalidate_changed_rifs
  <2> DEFINE T == {r \in Rif : router.rif[r] # None /\ cand.rif[r] # router.rif[r]}
             S == ForEach(T, Now, "unbind", cand)
  <2>1. RunStep("invalidate", "prearm", S) /\ UNCHANGED done
    BY <1>8 DEF invalidate_changed_rifs
  <2>2. "invalidate" \in Before /\ "prearm" \in Behind
    BY DEF Before, Behind
  <2>3. cand \in Configs /\ Allowed("unbind", T, cand)
    <3> HIDE DEF S, T
    <3>1. QED
      BY <1>4, <2>1, <2>2 DEF Allowed
  <2>4. S \subseteq After(Now)
    <3> HIDE DEF T
    <3>1. QED
      BY <1>2, <2>3, LoopOK
  <2> HIDE DEF S
  <2>5. StateOK' /\ MemoryOK' /\ RoutesOK'
    BY <2>1, <2>2, <2>4, RunStepOK
  <2>6. DoneOK'
    BY <1>1, <1>4, <2>1, <2>2, DoneKept
  <2>7. QED
    BY <2>5, <2>6 DEF TxInv
<1>9. CASE Prearm
  <2> DEFINE S == eswitch_manager_router_prearm(Now, cand)
  <2>1. RunStep("prearm", "acl", S) /\ UNCHANGED done
    BY <1>9 DEF Prearm
  <2>2. "prearm" \in Before /\ "acl" \in Behind
    BY DEF Before, Behind
  <2>3. S \subseteq After(Now)
    BY <1>2, <1>4, <2>1, <2>2, PrearmOK
  <2> HIDE DEF S
  <2>4. StateOK' /\ MemoryOK' /\ RoutesOK'
    BY <2>1, <2>2, <2>3, RunStepOK
  <2>5. DoneOK'
    BY <1>1, <1>4, <2>1, <2>2, DoneKept
  <2>6. QED
    BY <2>4, <2>5 DEF TxInv
<1>10. CASE AclSync
  <2> DEFINE S == eswitch_pipeline_egress_acl_sync(Now, cand)
  <2>1. RunStep("acl", "deny", S) /\ UNCHANGED done
    BY <1>10 DEF AclSync
  <2>2. "acl" \in Before /\ "deny" \in Behind
    BY DEF Before, Behind
  <2>3. S \subseteq After(Now)
    BY <1>2, <1>4, <2>1, <2>2, AclSyncOK
  <2> HIDE DEF S
  <2>4. StateOK' /\ MemoryOK' /\ RoutesOK'
    BY <2>1, <2>2, <2>3, RunStepOK
  <2>5. DoneOK'
    BY <1>1, <1>4, <2>1, <2>2, DoneKept
  <2>6. QED
    BY <2>4, <2>5 DEF TxInv
<1>11. CASE DenySync
  <2> DEFINE S == eswitch_pipeline_ingress_deny_sync(Now, cand)
  <2>1. RunStep("deny", "hw", S) /\ UNCHANGED done
    BY <1>11 DEF DenySync
  <2>2. "deny" \in Before /\ "hw" \in Behind
    BY DEF Before, Behind
  <2>3. S \subseteq After(Now)
    BY <1>2, <1>4, <2>1, <2>2, DenySyncOK
  <2> HIDE DEF S
  <2>4. StateOK' /\ MemoryOK' /\ RoutesOK'
    BY <2>1, <2>2, <2>3, RunStepOK
  <2>5. DoneOK'
    BY <1>1, <1>4, <2>1, <2>2, DoneKept
  <2>6. QED
    BY <2>4, <2>5 DEF TxInv
<1>12. QED
  BY <1>5, <1>6, <1>7, <1>8, <1>9, <1>10, <1>11

\* The switch a handler leaves, with the typing that goes with it.
LEMMA SwitchLeft ==
  ASSUME StateOK, UNCHANGED <<file, nb>>, NEW o \in Outcome, Fits(o.d), dp' = o.d,
         left' \in 0..MaxFaults, pc' \in Steps \union {"idle", "publish", "down"}
  PROVE  StateOK'
BY DEF StateOK, Outcome

\* The routes of the candidate, if its plan is another one.
LEMMA HwSyncStepOK == ASSUME TxInv, HwSync PROVE TxInv'
<1> DEFINE S == IF HwPlanChanged THEN SyncCandidate(Now, Plan(cand)) ELSE {Now}
<1>1. StateOK /\ MemoryOK /\ DoneOK /\ RoutesOK
  BY DEF TxInv
<1>2. Now \in Outcome /\ Fits(Now.d) /\ Now.d = dp /\ Now.left = left
      /\ left \in Nat /\ MaxFaults \in Nat
  BY <1>1, NowOK
<1>3. pc = "hw" /\ UNCHANGED <<file, router, cand, nb, twice, done>>
  BY DEF HwSync, RunStep
<1>4. PICK o \in S : dp' = o.d /\ left' = o.left /\ pc' = IF o.ok THEN "save" ELSE "undo"
  BY DEF HwSync, RunStep
<1>5. cand \in Configs /\ router \in Configs /\ InSync(dp, router, nb)
  BY <1>1, <1>3 DEF MemoryOK, RoutesOK
<1>6. /\ o \in Outcome /\ Fits(o.d) /\ o.left <= left /\ InSync(o.d, cand, nb)
      /\ HwPlanChanged \/ InSync(o.d, router, nb)
  <2>1. CASE HwPlanChanged
    <3>1. Plan(cand) = {x \in cand.plan : x[2] \in nb}
      BY DEF Plan
    <3>2. o \in Synced(Now, {x \in cand.plan : x[2] \in nb})
      BY <1>2, <1>5, <2>1, <3>1, PlanRoutes, SyncCandidateOK
    <3>3. o \in Outcome /\ Fits(o.d) /\ InSync(o.d, cand, nb) /\ o.left <= Now.left
      BY ONLY <3>2, SyncedInSync, Zenon
    <3>4. QED
      BY <1>2, <2>1, <3>3
  <2>2. CASE ~ HwPlanChanged
    <3>1. o = Now
      BY <2>2
    <3>2. InSync(dp, cand, nb)
      BY <1>5, <2>2 DEF HwPlanChanged, Plan, InSync
    <3>3. QED
      BY <1>2, <1>5, <3>1, <3>2
  <2>3. QED
    BY <2>1, <2>2
<1> HIDE DEF S
<1>7. pc' \in {"save", "undo"} /\ pc' \in Steps
  BY <1>4 DEF Steps
<1>8. StateOK'
  <2>1. left' \in 0..MaxFaults
    <3>1. left <= MaxFaults /\ o.left \in Nat
      BY <1>1, <1>6 DEF StateOK, Outcome
    <3>2. QED
      BY <1>2, <1>4, <1>6, <3>1
  <2>2. QED
    BY <1>1, <1>3, <1>4, <1>6, <1>7, <2>1, SwitchLeft
<1>9. MemoryOK'
  BY <1>1, <1>3, <1>5, <1>7 DEF MemoryOK, Steps
<1>10. DoneOK'
  BY <1>1, <1>3, <1>7, DoneKept
<1>11. RoutesOK'
  <2>1. HwPlanChanged' <=> HwPlanChanged
    BY <1>3 DEF HwPlanChanged, Plan
  <2>2. QED
    BY <1>3, <1>4, <1>6, <1>7, <2>1 DEF RoutesOK
<1>12. QED
  BY <1>8, <1>9, <1>10, <1>11 DEF TxInv

\* The rename.
LEMMA SaveOK == ASSUME TxInv, Save PROVE TxInv'
<1>1. StateOK /\ MemoryOK /\ DoneOK /\ RoutesOK
  BY DEF TxInv
<1>2. pc = "save" /\ UNCHANGED <<dp, router, cand, done, nb, twice>>
  BY DEF Save
<1>3. cand \in Configs /\ router \in Configs /\ router = file /\ InSync(dp, cand, nb)
  BY <1>1, <1>2 DEF MemoryOK, RoutesOK, Steps
<1>4. HwPlanChanged \/ InSync(dp, router, nb)
  <2>1. CASE ~ HwPlanChanged
    BY <1>3, <2>1 DEF HwPlanChanged, Plan, InSync
  <2>2. QED
    BY <2>1
<1>5. HwPlanChanged' <=> HwPlanChanged
  BY <1>2 DEF HwPlanChanged, Plan
<1>6. CASE file' = cand /\ pc' = "publish" /\ UNCHANGED left
  <2>1. StateOK'
    BY <1>1, <1>2, <1>3, <1>6 DEF StateOK
  <2>2. MemoryOK' /\ RoutesOK'
    BY <1>2, <1>3, <1>6 DEF MemoryOK, RoutesOK, Steps
  <2>3. DoneOK'
    BY <1>1, <1>2, <1>6, DoneKept
  <2>4. QED
    BY <2>1, <2>2, <2>3 DEF TxInv
<1>7. CASE left > 0 /\ left' = left - 1 /\ pc' = "undo" /\ UNCHANGED file
  <2>1. StateOK'
    <3>1. left' \in 0..MaxFaults
      BY <1>1, <1>7, TxAssumption DEF StateOK
    <3>2. QED
      BY <1>1, <1>2, <1>7, <3>1 DEF StateOK, Steps
  <2>2. MemoryOK' /\ RoutesOK'
    BY <1>2, <1>3, <1>4, <1>5, <1>7 DEF MemoryOK, RoutesOK, Steps
  <2>3. DoneOK'
    BY <1>1, <1>2, <1>7, DoneKept
  <2>4. QED
    BY <2>1, <2>2, <2>3 DEF TxInv
<1>8. QED
  BY <1>6, <1>7 DEF Save

\* The candidate becomes the active configuration.
LEMMA PublishOK == ASSUME TxInv, Publish PROVE TxInv'
<1>1. StateOK /\ MemoryOK /\ RoutesOK
  BY DEF TxInv
<1>2. /\ pc = "publish" /\ pc' = "idle" /\ router' = cand /\ done' = {} /\ left' = MaxFaults
      /\ UNCHANGED <<file, cand, nb, twice>>
  BY DEF Publish
<1>3. cand \in Configs /\ cand = file /\ InSync(dp, cand, nb)
  BY <1>1, <1>2 DEF MemoryOK, RoutesOK
<1>4. PICK o \in eswitch_manager_router_prearm(Now, cand) : dp' = o.d
  BY DEF Publish
<1>5. Now \in Outcome /\ Fits(Now.d) /\ Now.d = dp /\ MaxFaults \in Nat
  BY <1>1, NowOK
<1>6. o \in After(Now)
  BY <1>3, <1>5, PrearmOK
<1>7. o \in Outcome /\ Fits(o.d) /\ SameRoutes(dp, o.d)
  BY <1>5, <1>6 DEF After
<1>8. InSync(dp', cand, nb)
  BY <1>3, <1>4, <1>7, InSyncKept
<1>9. StateOK'
  <2>1. left' \in 0..MaxFaults
    BY <1>2, <1>5
  <2>2. QED
    BY <1>1, <1>2, <1>4, <1>7, <2>1, SwitchLeft
<1>10. MemoryOK' /\ RoutesOK'
  BY <1>2, <1>3, <1>8 DEF MemoryOK, RoutesOK
<1>11. DoneOK'
  BY <1>2 DEF DoneOK
<1>12. QED
  BY <1>9, <1>10, <1>11 DEF TxInv

\* The outcomes of a rollback: the routes are those of the old configuration.
Restores == {y \in Outcome : Fits(y.d) /\ InSync(y.d, router, nb)}

\* What the rollback does after the routes leaves them alone.
LEMMA RestoresKept ==
  ASSUME NEW y \in Restores
  PROVE  /\ y \in Outcome /\ Fits(y.d) /\ After(y) \subseteq Restores
         /\ [y EXCEPT !.ok = TRUE] \in Restores
<1>1. y \in Outcome /\ Fits(y.d) /\ InSync(y.d, router, nb)
  BY DEF Restores
<1>2. After(y) \subseteq Restores
  <2>1. ASSUME NEW z \in After(y) PROVE z \in Restores
    <3>1. z \in Outcome /\ Fits(z.d) /\ SameRoutes(y.d, z.d)
      BY DEF After
    <3>2. InSync(z.d, router, nb)
      BY <1>1, <3>1, InSyncKept
    <3>3. QED
      BY <3>1, <3>2 DEF Restores
  <2>2. QED
    BY <2>1
<1>3. QED
  BY <1>1, <1>2, Recovered

\* The error path: the routes are the old ones again, or marked degraded.
LEMMA UndoOK == ASSUME TxInv, Undo PROVE TxInv'
<1> DEFINE o == [Now EXCEPT !.left = @ + UndoFaults]
           r0 == UndoRoutes(o)
           Good(y) == [y EXCEPT !.ok = TRUE]
           r1 == UNION {UndoAttach(Good(y)) : y \in r0}
           r2 == UNION {UndoDetach(Good(y)) : y \in r1}
           r3 == UNION {rollback_prearmed_candidate(Good(y)) : y \in r2}
<1>1. StateOK /\ MemoryOK /\ DoneOK /\ RoutesOK
  BY DEF TxInv
<1>2. /\ pc = "undo" /\ pc' = "idle" /\ cand' = router /\ done' = {} /\ left' = MaxFaults
      /\ UNCHANGED <<file, router, nb>>
  BY DEF Undo
<1>3. PICK z \in r3 : dp' = z.d
  BY DEF Undo, Whatever
<1>4. router \in Configs /\ cand \in Configs /\ router = file
      /\ (HwPlanChanged \/ InSync(dp, router, nb))
  BY <1>1, <1>2 DEF MemoryOK, RoutesOK, Steps
<1>5. o \in Outcome /\ Fits(o.d) /\ o.d = dp /\ MaxFaults \in Nat
  <2>1. /\ Now \in Outcome /\ Now.d = dp /\ Now.left = left /\ Fits(Now.d)
        /\ left \in Nat /\ UndoFaults \in Nat /\ MaxFaults \in Nat
    BY <1>1, NowOK
  <2>2. left + UndoFaults \in Nat
    BY <2>1
  <2>3. o \in Outcome /\ o.d = dp
    BY <2>1, <2>2 DEF Outcome
  <2>4. QED
    BY <2>1, <2>3
<1> HIDE DEF o
<1>6. r0 \subseteq Restores
  <2>1. CASE HwPlanChanged
    <3>1. Plan(router) = {x \in router.plan : x[2] \in nb}
      BY DEF Plan
    <3>2. r0 \subseteq Synced(o, {x \in router.plan : x[2] \in nb})
      BY <1>4, <1>5, <2>1, <3>1, PlanRoutes, SyncActiveOK DEF UndoRoutes
    <3>3. ASSUME NEW y \in r0 PROVE y \in Restores
      <4>1. y \in Synced(o, {x \in router.plan : x[2] \in nb})
        BY <3>2
      <4>2. y \in Outcome /\ Fits(y.d) /\ InSync(y.d, router, nb) /\ y.left <= o.left
        BY ONLY <4>1, SyncedInSync, Zenon
      <4>3. QED
        BY <4>2 DEF Restores
    <3>4. QED
      BY <3>3
  <2>2. CASE ~ HwPlanChanged
    <3>1. r0 = {o}
      BY <2>2 DEF UndoRoutes
    <3>2. QED
      BY <1>4, <1>5, <2>2, <3>1 DEF Restores
  <2>3. QED
    BY <2>1, <2>2
<1>7. r1 \subseteq Restores
  <2> HIDE DEF r0, Good
  <2>1. ASSUME NEW y \in r0 PROVE UndoAttach(Good(y)) \subseteq Restores
    <3>1. Good(y) \in Restores
      BY <1>6, <2>1, RestoresKept DEF Good
    <3>2. Good(y) \in Outcome /\ Fits(Good(y).d) /\ After(Good(y)) \subseteq Restores
      BY <3>1, RestoresKept
    <3>3. "attached" \in done => The(Added) \in Port
      BY <1>1, MovedPorts DEF DoneOK
    <3>4. QED
      BY <3>1, <3>2, <3>3, DetachOK DEF UndoAttach
  <2>2. QED
    BY <2>1
<1>8. r2 \subseteq Restores
  <2> HIDE DEF r1, Good
  <2>1. ASSUME NEW y \in r1 PROVE UndoDetach(Good(y)) \subseteq Restores
    <3>1. Good(y) \in Restores
      BY <1>7, <2>1, RestoresKept DEF Good
    <3>2. Good(y) \in Outcome /\ Fits(Good(y).d) /\ After(Good(y)) \subseteq Restores
      BY <3>1, RestoresKept
    <3>3. "detached" \in done => The(Removed) \in Port
      BY <1>1, MovedPorts DEF DoneOK
    <3>4. QED
      BY <3>1, <3>2, <3>3, AttachOK DEF UndoDetach
  <2>2. QED
    BY <2>1
<1>9. r3 \subseteq Restores
  <2> HIDE DEF r2, Good
  <2>1. ASSUME NEW y \in r2 PROVE rollback_prearmed_candidate(Good(y)) \subseteq Restores
    <3>1. Good(y) \in Restores
      BY <1>8, <2>1, RestoresKept DEF Good
    <3>2. Good(y) \in Outcome /\ Fits(Good(y).d) /\ After(Good(y)) \subseteq Restores
      BY <3>1, RestoresKept
    <3>3. QED
      BY <1>4, <3>2, RollbackOK
  <2>2. QED
    BY <2>1
<1>10. z \in Outcome /\ Fits(z.d) /\ InSync(z.d, router, nb)
  <2> HIDE DEF r3
  <2>1. QED
    BY <1>3, <1>9 DEF Restores
<1> HIDE DEF r0, r1, r2, r3
<1>11. StateOK'
  <2>1. left' \in 0..MaxFaults
    BY <1>2, <1>5
  <2>2. QED
    BY <1>1, <1>2, <1>3, <1>10, <2>1, SwitchLeft
<1>12. MemoryOK' /\ RoutesOK'
  BY <1>2, <1>3, <1>4, <1>10 DEF MemoryOK, RoutesOK
<1>13. DoneOK'
  BY <1>2 DEF DoneOK
<1>14. QED
  BY <1>11, <1>12, <1>13 DEF TxInv

-----------------------------------------------------------------------------
(***************************************************************************)
(* The rest of the loop, crash and restart.                                *)
(***************************************************************************)
LEMMA CommandOK == ASSUME TxInv, Command PROVE TxInv'
<1>1. StateOK /\ MemoryOK /\ RoutesOK
  BY DEF TxInv
<1>2. /\ pc = "idle" /\ pc' = "flush" /\ cand' \in Configs /\ left' = MaxFaults /\ done' = {}
      /\ UNCHANGED <<dp, file, router, nb, twice>>
  BY DEF Command
<1>3. left' \in 0..MaxFaults
  BY <1>1, <1>2, NowOK
<1>4. StateOK'
  BY <1>1, <1>2, <1>3 DEF StateOK, Steps
<1>5. MemoryOK' /\ RoutesOK' /\ DoneOK'
  BY <1>1, <1>2 DEF MemoryOK, RoutesOK, DoneOK, Steps
<1>6. QED
  BY <1>4, <1>5 DEF TxInv

\* Between commands only the switch and the neighbor table change.
LEMMA IdleOK ==
  ASSUME TxInv, pc = "idle", UNCHANGED <<file, router, cand, pc, done, left, twice>>,
         dp' \in Switch, Fits(dp'), nb' \in Resolvable, InSync(dp', router, nb')
  PROVE  TxInv'
<1>1. StateOK /\ MemoryOK /\ DoneOK
  BY DEF TxInv
<1>2. StateOK'
  BY <1>1 DEF StateOK
<1>3. MemoryOK' /\ RoutesOK'
  BY <1>1 DEF MemoryOK, RoutesOK
<1>4. DoneOK'
  BY <1>1, DoneKept
<1>5. QED
  BY <1>2, <1>3, <1>4 DEF TxInv

\* A mark changes, the contexts and the entries do not.
LEMMA MarkSet ==
  ASSUME NEW d \in Switch, Fits(d)
  PROVE  /\ LET e == [d EXCEPT !.late = TRUE] IN e \in Switch /\ Fits(e) /\ e.late = TRUE
         /\ LET e == [d EXCEPT !.backoff = FALSE] IN e \in Switch /\ Fits(e) /\ SameRoutes(d, e)
<1> DEFINE e == [d EXCEPT !.late = TRUE]
           f == [d EXCEPT !.backoff = FALSE]
<1>1. e \in Switch /\ e.rif = d.rif /\ e.late = TRUE
  BY DEF Switch
<1>2. f \in Switch /\ f.rif = d.rif /\ SameRoutes(d, f)
  BY DEF Switch, SameRoutes
<1> HIDE DEF e, f
<1>3. Bound(e) = Bound(d) /\ Bound(f) = Bound(d)
  BY <1>1, <1>2 DEF Bound
<1>4. Fits(e) /\ Fits(f)
  BY <1>1, <1>2, <1>3 DEF Fits
<1>5. QED
  BY <1>1, <1>2, <1>4 DEF e, f

\* A scan for the neighbor table n.
LEMMA ScanOK ==
  ASSUME StateOK, NEW c \in Configs, NEW n,
         NEW o \in SyncActive(Fresh, {x \in c.plan : x[2] \in n})
  PROVE  o.d \in Switch /\ Fits(o.d) /\ InSync(o.d, c, n)
<1>1. Fresh \in Outcome /\ Fits(Fresh.d)
  BY NowOK
<1>2. o \in Synced(Fresh, {x \in c.plan : x[2] \in n})
  BY <1>1, PlanRoutes, SyncActiveOK
<1>3. o \in Outcome /\ Fits(o.d) /\ InSync(o.d, c, n) /\ o.left <= Fresh.left
  BY ONLY <1>2, SyncedInSync, Zenon
<1>4. QED
  BY <1>3 DEF Outcome

\* The scan, the retry timer and a neighbor that changes.
LEMMA BetweenOK == ASSUME TxInv, Maintenance \/ RetryDue \/ NeighborChange PROVE TxInv'
<1>1. StateOK /\ MemoryOK /\ RoutesOK
  BY DEF TxInv
<1>2. pc = "idle" /\ UNCHANGED <<file, router, cand, pc, done, left, twice>>
  BY DEF Maintenance, RetryDue, NeighborChange
<1>3. router \in Configs /\ nb \in Resolvable /\ InSync(dp, router, nb) /\ dp \in Switch /\ Fits(dp)
  BY <1>1, <1>2 DEF MemoryOK, StateOK, RoutesOK
<1>4. CASE Maintenance
  <2>1. PICK o \in SyncActive(Fresh, {x \in router.plan : x[2] \in nb}) : dp' = o.d
    BY <1>4 DEF Maintenance, Plan
  <2>2. nb' = nb
    BY <1>4 DEF Maintenance
  <2>3. QED
    BY <1>1, <1>2, <1>3, <2>1, <2>2, ScanOK, IdleOK
<1>5. CASE RetryDue
  <2>1. dp' = [dp EXCEPT !.backoff = FALSE] /\ nb' = nb
    BY <1>5 DEF RetryDue
  <2>2. dp' \in Switch /\ Fits(dp') /\ SameRoutes(dp, dp')
    BY <1>3, <2>1, MarkSet
  <2>3. InSync(dp', router, nb)
    BY <1>3, <2>2, InSyncKept
  <2>4. QED
    BY <1>2, <1>3, <2>1, <2>2, <2>3, IdleOK
<1>6. CASE NeighborChange
  <2>1. nb' \in Resolvable
    BY <1>6 DEF NeighborChange
  <2>2. CASE dp' = [dp EXCEPT !.late = TRUE]
    <3>1. dp' \in Switch /\ Fits(dp') /\ dp'.late = TRUE
      BY <1>3, <2>2, MarkSet
    <3>2. InSync(dp', router, nb')
      BY <3>1 DEF InSync
    <3>3. QED
      BY <1>2, <2>1, <3>1, <3>2, IdleOK
  <2>3. CASE \E o \in SyncActive(Fresh, {x \in router.plan : x[2] \in nb'}) : dp' = o.d
    <3>1. PICK o \in SyncActive(Fresh, {x \in router.plan : x[2] \in nb'}) : dp' = o.d
      BY <2>3
    <3>2. o.d \in Switch /\ Fits(o.d) /\ InSync(o.d, router, nb')
      BY <1>1, <1>3, <3>1, ScanOK
    <3>3. QED
      BY <1>2, <2>1, <3>1, <3>2, IdleOK
  <2>4. QED
    BY <1>6, <2>2, <2>3 DEF NeighborChange
<1>7. QED
  BY <1>4, <1>5, <1>6

\* eswitch_pipeline_create.
LEMMA EmptyOK == EmptySwitch \in Switch /\ Fits(EmptySwitch) /\ EmptySwitch.hw = {}
<1>1. Unbound \in Context /\ Proper(Unbound) /\ Unbound.id = None
  BY DEF Unbound, Context, AclGen, DenyGen, Proper
<1>2. EmptySwitch \in Switch /\ EmptySwitch.rif = [r \in Rif |-> Unbound] /\ EmptySwitch.hw = {}
  BY <1>1 DEF EmptySwitch, Switch
<1>3. Bound(EmptySwitch) = {}
  BY <1>1, <1>2 DEF Bound
<1>4. Cardinality(Bound(EmptySwitch)) <= MaxContexts
  BY <1>3, FS_EmptySet, TxAssumption
<1>5. QED
  BY <1>1, <1>2, <1>4 DEF Fits

\* A start that succeeds ends with a route synchronisation for an empty plan.
LEMMA RestoredOK ==
  ASSUME NEW c \in Configs, NEW o \in Restored(c), o.ok
  PROVE  /\ o \in Outcome /\ Fits(o.d) /\ o.left <= MaxFaults
         /\ \A e, n : InSync(o.d, e, n)
<1> DEFINE b == [d |-> EmptySwitch, ok |-> TRUE, left |-> MaxFaults]
           uplinks == {r \in Rif : c.rif[r] # None /\ c.rif[r].at \in Port}
           ports == ForEach(uplinks, b, "attach", c)
           pre == Rearm(ports, c)
           Synchronised(y) == {[z EXCEPT !.ok = z.ok \/ z.d.degraded] : z \in SyncActive(y, {})}
<1>1. Restored(c) = UNION {IF y.ok THEN Synchronised(y) ELSE {y} : y \in pre}
  BY DEF Restored, Rearm, AndThen
<1>2. b \in Outcome /\ b.d = EmptySwitch /\ b.left = MaxFaults /\ Fits(b.d)
  BY EmptyOK, TxAssumption DEF Outcome
<1>3. Allowed("attach", uplinks, c)
  BY DEF Allowed
<1> HIDE DEF uplinks, b
<1>4. ports \subseteq After(b)
  BY <1>2, <1>3, LoopOK
<1> HIDE DEF ports
<1>5. pre \subseteq After(b)
  BY <1>2, <1>4, RearmOK
<1> HIDE DEF pre, Synchronised
<1>6. PICK y \in pre : y.ok /\ o \in Synchronised(y)
  BY <1>1
<1>7. y \in Outcome /\ Fits(y.d) /\ y.left <= b.left
  BY <1>5, <1>6 DEF After
<1>8. PICK z \in SyncActive(y, {}) : o = [z EXCEPT !.ok = z.ok \/ z.d.degraded]
  BY <1>6 DEF Synchronised
<1>9. z \in Synced(y, {})
  <2>1. {} \in SUBSET HwRoutes
    OBVIOUS
  <2>2. QED
    BY <1>7, <1>8, <2>1, SyncActiveOK
<1>10. z \in Outcome /\ Fits(z.d) /\ z.left <= y.left /\ (z.d.degraded = TRUE \/ z.d.hw = {})
  BY <1>9 DEF Synced
<1>11. o \in Outcome /\ o.d = z.d /\ o.left = z.left
  BY <1>8, <1>10 DEF Outcome
<1>12. o.left <= MaxFaults
  <2>1. o.left \in Nat /\ y.left \in Nat /\ MaxFaults \in Nat
    BY <1>7, <1>11, TxAssumption DEF Outcome
  <2>2. QED
    BY <1>2, <1>7, <1>10, <1>11, <2>1
<1>13. QED
  BY <1>10, <1>11, <1>12 DEF InSync

\* A stop between two steps.
LEMMA CrashOK == ASSUME TxInv, Crash PROVE TxInv'
<1>1. /\ pc' = "down" /\ dp' = EmptySwitch /\ router' = NoConfig
      /\ done' = {} /\ nb' = {} /\ left' = MaxFaults /\ file' = file
  BY DEF Crash
<1>2. left' \in 0..MaxFaults /\ nb' \in Resolvable
  BY <1>1, TxAssumption
<1>3. StateOK'
  BY <1>1, <1>2, EmptyOK DEF TxInv, StateOK
<1>4. MemoryOK' /\ RoutesOK' /\ DoneOK'
  BY <1>1 DEF MemoryOK, RoutesOK, DoneOK, Steps
<1>5. QED
  BY <1>3, <1>4 DEF TxInv

\* router_control_restore from the file.
LEMMA RestartOK == ASSUME TxInv, Restart PROVE TxInv'
<1>1. StateOK /\ DoneOK
  BY DEF TxInv
<1>2. /\ pc = "down" /\ pc' = "idle" /\ router' = file /\ cand' = file
      /\ UNCHANGED <<file, done, nb, left, twice>>
  BY DEF Restart
<1>3. PICK o \in Restored(file) : o.ok /\ dp' = o.d
  BY DEF Restart
<1>4. file \in Configs /\ left \in 0..MaxFaults
  BY <1>1 DEF StateOK
<1>5. o \in Outcome /\ Fits(o.d) /\ \A e, n : InSync(o.d, e, n)
  BY <1>3, <1>4, RestoredOK
<1>6. StateOK'
  BY <1>1, <1>2, <1>3, <1>4, <1>5, SwitchLeft
<1>7. MemoryOK' /\ RoutesOK'
  BY <1>2, <1>3, <1>4, <1>5 DEF MemoryOK, RoutesOK
<1>8. DoneOK'
  BY <1>1, <1>2 DEF DoneOK
<1>9. QED
  BY <1>6, <1>7, <1>8 DEF TxInv

\* The first start.
LEMMA TxInvInit == Init => TxInv
<1>1. SUFFICES ASSUME Init PROVE TxInv
  OBVIOUS
<1>2. /\ file \in Configs /\ router = file /\ cand = file /\ nb = {} /\ pc = "idle"
      /\ done = {} /\ left = MaxFaults
  BY <1>1 DEF Init
<1>3. PICK o \in Restored(file) : o.ok /\ dp = o.d
  BY <1>1 DEF Init
<1>4. o \in Outcome /\ Fits(o.d) /\ \A e, n : InSync(o.d, e, n)
  BY <1>2, <1>3, RestoredOK
<1>5. left \in 0..MaxFaults /\ nb \in Resolvable
  BY <1>2, TxAssumption
<1>6. StateOK
  BY <1>2, <1>3, <1>4, <1>5 DEF StateOK, Outcome
<1>7. MemoryOK /\ RoutesOK /\ DoneOK
  BY <1>2, <1>3, <1>4 DEF MemoryOK, RoutesOK, DoneOK
<1>8. QED
  BY <1>6, <1>7 DEF TxInv

\* Every step keeps the invariant.
LEMMA TxInvNext == TxInv /\ [Next]_vars => TxInv'
<1>1. SUFFICES ASSUME TxInv, [Next]_vars PROVE TxInv'
  OBVIOUS
<1>2. CASE UNCHANGED vars
  <2>1. StateOK' /\ MemoryOK'
    BY <1>1, <1>2 DEF vars, TxInv, StateOK, MemoryOK
  <2>2. DoneOK'
    BY <1>1, <1>2 DEF vars, TxInv, DoneOK, Added, Removed, PortsOf
  <2>3. HwPlanChanged' <=> HwPlanChanged
    BY <1>2 DEF vars, HwPlanChanged, Plan
  <2>4. RoutesOK'
    BY <1>1, <1>2, <2>3 DEF vars, TxInv, RoutesOK
  <2>5. QED
    BY <2>1, <2>2, <2>4 DEF TxInv
<1>3. CASE CommandStep
  BY <1>1, <1>3, EarlyStepOK, HwSyncStepOK, SaveOK, PublishOK, UndoOK DEF CommandStep
<1>4. QED
  BY <1>1, <1>2, <1>3, CommandOK, BetweenOK, CrashOK, RestartOK DEF Next

\* The invariant of the transaction holds whichever calls fail and wherever
\* the daemon crashes.
THEOREM TxInvariant == TransactionSpec => []TxInv
BY TxInvInit, TxInvNext, PTL DEF TransactionSpec

\* Every step of a command, of its rollback and of a restart keeps the types,
\* the entries a context may have and the number of contexts.
THEOREM TxTypes == TransactionSpec => []TxTypeOK
<1>1. TxInv => TxTypeOK
  <2>1. SUFFICES ASSUME TxInv PROVE TxTypeOK
    OBVIOUS
  <2>2. StateOK /\ MemoryOK
    BY <2>1 DEF TxInv
  <2>3. router \in Configs \union {NoConfig}
    BY <2>2 DEF MemoryOK
  <2>4. dp.up \in [Port -> SUBSET {"rule", "meter"}] /\ {dp.degraded, dp.backoff, dp.late} \subseteq BOOLEAN
    BY <2>2 DEF StateOK, Switch
  <2>5. /\ \A r \in Rif : dp.rif[r].parts \subseteq
             IF dp.rif[r].id = None THEN {} ELSE Parts(dp.rif[r].id.at)
        /\ Cardinality(Bound(dp)) <= MaxContexts
    BY <2>2 DEF StateOK, Fits, Proper
  <2>6. QED
    BY <2>2, <2>3, <2>4, <2>5 DEF TxTypeOK, StateOK
<1>2. QED
  BY <1>1, TxInvariant, PTL

\* Between commands, a switch that is not marked degraded and has seen the
\* last neighbor holds no route of a configuration that was never committed,
\* although every call of a command and of its rollback may fail.
THEOREM RoutesStayCommitted == TransactionSpec => []RoutesCommitted
<1>1. TxInv => RoutesCommitted
  BY DEF TxInv, RoutesOK, InSync, RoutesCommitted, RoutesOf
<1>2. QED
  BY <1>1, TxInvariant, PTL

-----------------------------------------------------------------------------
(***************************************************************************)
(* The promise of ConfigTx, for memory and state file: whatever the switch *)
(* is left with, the daemon serves and stores one and the same             *)
(* configuration, and a command replaces it in both or in neither.         *)
(***************************************************************************)
Memory == INSTANCE ConfigTx WITH
  Config <- Configs, store <- file, serving <- router, wanted <- Wanted, phase <- Phase

\* The refinement mapping, by step of the command,
LEMMA PhaseOf ==
  /\ pc \in Steps => Phase = "busy" /\ Wanted = cand
  /\ pc = "publish" => Phase = "committed" /\ Wanted = cand
  /\ pc = "idle" => Phase = "idle" /\ Wanted = file
  /\ pc = "down" => Phase = "down" /\ Wanted = file
BY DEF Phase, Wanted, Steps

\* and after a step.
LEMMA PhaseOfNext ==
  /\ pc' \in Steps => Phase' = "busy" /\ Wanted' = cand'
  /\ pc' = "publish" => Phase' = "committed" /\ Wanted' = cand'
  /\ pc' = "idle" => Phase' = "idle" /\ Wanted' = file'
  /\ pc' = "down" => Phase' = "down" /\ Wanted' = file'
BY DEF Phase, Wanted, Steps

\* The daemon starts as ConfigTx does.
LEMMA MemoryInit == Init => Memory!TxInit
BY PhaseOf DEF Init, Memory!TxInit

\* Every step of the daemon is one of ConfigTx on memory and file, or none.
LEMMA MemoryNext == TxInv /\ [Next]_vars => [Memory!TxNext]_(Memory!txVars)
<1>1. SUFFICES ASSUME TxInv, [Next]_vars PROVE [Memory!TxNext]_(Memory!txVars)
  OBVIOUS
<1>2. MemoryOK /\ StateOK
  BY <1>1 DEF TxInv
<1> USE PhaseOf, PhaseOfNext
<1>3. ASSUME NEW from, NEW to, NEW S, RunStep(from, to, S), from \in Steps, to \in Steps
      PROVE  UNCHANGED Memory!txVars
  <2>1. pc \in Steps /\ pc' \in Steps /\ UNCHANGED <<file, router, cand>>
    BY <1>3 DEF RunStep, Steps
  <2>2. QED
    BY <2>1 DEF Memory!txVars
<1>4. CASE Flush \/ Detach \/ Attach \/ invalidate_changed_rifs \/ Prearm \/ AclSync \/ DenySync
           \/ HwSync
  BY <1>3, <1>4 DEF Flush, Detach, Attach, invalidate_changed_rifs, Prearm, AclSync, DenySync,
                    HwSync, Steps
<1>5. CASE UNCHANGED vars
  BY <1>5 DEF vars, Memory!txVars, Phase, Wanted
<1>6. CASE Maintenance \/ RetryDue \/ NeighborChange
  BY <1>6 DEF Maintenance, RetryDue, NeighborChange, Memory!txVars
<1>7. CASE Command
  <2>1. cand' \in Configs /\ cand' # router
    BY <1>7 DEF Command, OneCommand
  <2>2. pc = "idle" /\ pc' \in Steps /\ UNCHANGED <<file, router>> /\ router = file
    BY <1>2, <1>7 DEF Command, Steps, MemoryOK
  <2>3. Memory!Begin
    BY <2>1, <2>2 DEF Memory!Begin
  <2>4. QED
    BY <2>3 DEF Memory!TxNext
<1>8. CASE Save
  <2>1. pc \in Steps /\ UNCHANGED <<router, cand>>
    BY <1>8 DEF Save, Steps
  <2>2. CASE file' = cand /\ pc' = "publish"
    <3>1. Memory!Commit
      BY <2>1, <2>2 DEF Memory!Commit
    <3>2. QED
      BY <3>1 DEF Memory!TxNext
  <2>3. CASE pc' = "undo" /\ UNCHANGED file
    BY <2>1, <2>3 DEF Memory!txVars, Steps
  <2>4. QED
    BY <1>8, <2>2, <2>3 DEF Save
<1>9. CASE Publish
  <2>1. pc = "publish" /\ pc' = "idle" /\ router' = cand /\ UNCHANGED <<file, cand>> /\ cand = file
    BY <1>2, <1>9 DEF Publish, MemoryOK
  <2>2. Memory!Publish
    BY <2>1 DEF Memory!Publish
  <2>3. QED
    BY <2>2 DEF Memory!TxNext
<1>10. CASE Undo
  <2>1. pc \in Steps /\ pc' = "idle" /\ UNCHANGED <<file, router>>
    BY <1>10 DEF Undo, Steps
  <2>2. Memory!Abort
    BY <2>1 DEF Memory!Abort
  <2>3. QED
    BY <2>2 DEF Memory!TxNext
<1>11. CASE Crash
  <2>1. pc # "down" /\ pc' = "down" /\ router' = NoConfig /\ UNCHANGED file
    BY <1>11 DEF Crash
  <2>2. Phase # "down"
    BY <1>2, <2>1 DEF StateOK
  <2>3. Memory!Crash
    BY <2>1, <2>2 DEF Memory!Crash
  <2>4. QED
    BY <2>3 DEF Memory!TxNext
<1>12. CASE Restart
  <2>1. pc = "down" /\ pc' = "idle" /\ router' = file /\ UNCHANGED file
    BY <1>12 DEF Restart
  <2>2. Memory!Recover
    BY <2>1 DEF Memory!Recover
  <2>3. QED
    BY <2>2 DEF Memory!TxNext
<1>13. QED
  BY <1>1, <1>4, <1>5, <1>6, <1>7, <1>8, <1>9, <1>10, <1>11, <1>12 DEF Next, CommandStep

\* router_control_command implements the safety part of ConfigTx for memory
\* and state file, even where a rollback fails in turn: they change together
\* or not at all, and a restart serves what the file holds.
THEOREM MemoryRefines ==
  TransactionSpec => Memory!TxInit /\ [][Memory!TxNext]_(Memory!txVars)
BY MemoryInit, MemoryNext, TxInvariant, PTL DEF TransactionSpec

-----------------------------------------------------------------------------
(***************************************************************************)
(* What the switch serves.  A context is bound first, then it gets its     *)
(* policies; each loop of a command, a rollback or a restart takes the     *)
(* contexts one stage further, or it fails.                                *)
(***************************************************************************)
\* The context x of RIF r is bound as c wants it,
Held(x, c, r) ==
  IF r \in Adrs(c)
  THEN /\ x.id = c.rif[r]
       /\ Parts(c.rif[r].at) \ {"elig"} \subseteq x.parts
       /\ x.deny # None => "local" \in x.parts
  ELSE x = Unbound

\* is bound so or still to be bound,
Ready(x, c, r) == x = Unbound \/ Held(x, c, r)

\* and has its policies.
AclServed(x, c, r) == r \in Adrs(c) => x.acl \in IF c.acl[r] = None THEN {None} ELSE {c.acl[r], Arm}
DenyServed(x, c, r) == r \in Adrs(c) => x.deny \in {c.deny[r], None}

Served(x, c, r) == Held(x, c, r) /\ AclServed(x, c, r) /\ DenyServed(x, c, r)

\* The results of a call that succeeds or fails.
LEMMA ResultsAre ==
  ASSUME NEW o \in Outcome, NEW d, NEW z
  PROVE  /\ z \in Ok(o, d) => z.d = d /\ z.ok = o.ok /\ z.left = o.left
         /\ z \in Error(o) => z.d = o.d /\ ~ z.ok /\ z.left = o.left
         /\ \A kind : z \in Fault(o, kind, d, FALSE) => z.d = d /\ ~ z.ok /\ z.left < o.left
         /\ \A kind : z \in Fault(o, kind, d, TRUE) => z.d = d /\ z.ok /\ z.left < o.left
<1>1. o.left \in Nat
  BY DEF Outcome
<1>2. ASSUME z \in Ok(o, d) PROVE z.d = d /\ z.ok = o.ok /\ z.left = o.left
  BY <1>2 DEF Ok, Outcome
<1>3. ASSUME z \in Error(o) PROVE z.d = o.d /\ ~ z.ok /\ z.left = o.left
  BY <1>3 DEF Error, Outcome
<1>4. ASSUME NEW kind, NEW b, z \in Fault(o, kind, d, b) PROVE z.d = d /\ z.ok = b /\ z.left < o.left
  <2>1. z = [d |-> d, ok |-> b, left |-> o.left - 1]
    BY <1>4 DEF Fault
  <2>2. z.d = d /\ z.ok = b /\ z.left = o.left - 1
    BY <2>1
  <2>3. QED
    BY <1>1, <2>2
<1>5. ASSUME NEW kind, z \in Fault(o, kind, d, FALSE) PROVE z.d = d /\ ~ z.ok /\ z.left < o.left
  <2>1. z.ok = FALSE
    BY <1>4, <1>5
  <2>2. QED
    BY <1>4, <1>5, <2>1
<1>6. ASSUME NEW kind, z \in Fault(o, kind, d, TRUE) PROVE z.d = d /\ z.ok /\ z.left < o.left
  <2>1. z.ok = TRUE
    BY <1>4, <1>6
  <2>2. QED
    BY <1>4, <1>6, <2>1
<1>7. QED
  BY <1>2, <1>3, <1>5, <1>6

\* In particular, a failure.
LEMMA FaultIs ==
  ASSUME NEW o \in Outcome, NEW kind, NEW d, NEW z, z \in Fault(o, kind, d, FALSE)
  PROVE  z.d = d /\ ~ z.ok /\ z.left < o.left
BY ResultsAre

\* The context of one RIF is replaced.
OneContext(d, e, r, x) ==
  e.up = d.up /\ e.rif[r] = x /\ \A s \in Rif \ {r} : e.rif[s] = d.rif[s]

LEMMA ContextIs ==
  ASSUME NEW d \in Switch, NEW r \in Rif, NEW x
  PROVE  OneContext(d, [d EXCEPT !.rif[r] = x], r, x)
BY DEF Switch, OneContext

LEMMA AclIs ==
  ASSUME NEW d \in Switch, NEW r \in Rif, NEW g
  PROVE  /\ OneContext(d, [d EXCEPT !.rif[r].acl = g], r, [d.rif[r] EXCEPT !.acl = g])
         /\ [d.rif[r] EXCEPT !.acl = g].acl = g
         /\ [d.rif[r] EXCEPT !.acl = g].id = d.rif[r].id
         /\ [d.rif[r] EXCEPT !.acl = g].parts = d.rif[r].parts
         /\ [d.rif[r] EXCEPT !.acl = g].deny = d.rif[r].deny
<1>1. d.rif[r] \in Context
  BY DEF Switch
<1>2. QED
  BY <1>1 DEF Switch, OneContext, Context

LEMMA DenyIs ==
  ASSUME NEW d \in Switch, NEW r \in Rif, NEW g
  PROVE  /\ OneContext(d, [d EXCEPT !.rif[r].deny = g], r, [d.rif[r] EXCEPT !.deny = g])
         /\ [d.rif[r] EXCEPT !.deny = g].deny = g
         /\ [d.rif[r] EXCEPT !.deny = g].id = d.rif[r].id
         /\ [d.rif[r] EXCEPT !.deny = g].parts = d.rif[r].parts
         /\ [d.rif[r] EXCEPT !.deny = g].acl = d.rif[r].acl
<1>1. d.rif[r] \in Context
  BY DEF Switch
<1>2. QED
  BY <1>1 DEF Switch, OneContext, Context

\* A turn takes RIF r to B, or fails at it and leaves it in C.
Turned(y, z, r, B, C) ==
  /\ z.d.up = y.d.up
  /\ \A s \in Rif \ {r} : z.d.rif[s] = y.d.rif[s]
  /\ z.d.rif[r] \in C /\ (z.ok => z.d.rif[r] \in B)
  /\ z.ok \/ z.left < y.left

AllTurn(S, o, call, c, B, C) ==
  \A r \in Rif : \A y \in After(o) : \A z \in Turn(call, y, c, r) :
    r \in S /\ y.ok /\ y.d.rif[r] = o.d.rif[r] /\ (\A s \in Rif : y.d.rif[s] \in C[s])
      => Turned(y, z, r, B[r], C[r])

\* A loop takes every RIF to B, or fails at one and leaves them in C.
Ends(o, z, B, C) ==
  /\ z.d.up = o.d.up
  /\ \A r \in Rif : z.d.rif[r] \in C[r] /\ (z.ok => z.d.rif[r] \in B[r])
  /\ z.ok \/ z.left < o.left

LEMMA LoopServes ==
  ASSUME NEW o \in Outcome, Fits(o.d), o.ok, NEW c \in Configs, NEW S, NEW call, Allowed(call, S, c),
         NEW B, NEW C, \A r \in Rif : o.d.rif[r] \in C[r] /\ (r \notin S => o.d.rif[r] \in B[r]),
         AllTurn(S, o, call, c, B, C)
  PROVE  \A z \in ForEach(S, o, call, c) : z \in After(o) /\ Ends(o, z, B, C)
<1> DEFINE P(n, z) == /\ z \in After(o) /\ z.d.up = o.d.up
                      /\ \A r \in Rif : /\ z.d.rif[r] \in C[r]
                                        /\ r > n => z.d.rif[r] = o.d.rif[r]
                                        /\ r <= n /\ z.ok => z.d.rif[r] \in B[r]
                      /\ z.ok \/ z.left < o.left
           K == [n \in 0..RifCount |-> {z \in After(o) : P(n, z)}]
<1>1. RifCount \in Nat /\ 1..RifCount = Rif
  BY TxAssumption DEF Rif
<1>2. \A n \in 0..RifCount : \A z : z \in K[n] <=> P(n, z)
  OBVIOUS
<1>3. o \in After(o)
  BY AfterSelf
<1>4. \A n \in Rif, y \in After(o) : n \in S => Turn(call, y, c, n) \subseteq After(o)
  <2>1. ASSUME NEW n \in Rif, NEW y \in After(o), n \in S PROVE Turn(call, y, c, n) \subseteq After(o)
    <3>1. y \in Outcome /\ Fits(y.d)
      BY DEF After
    <3>2. Turn(call, y, c, n) \subseteq After(y)
      BY <2>1, <3>1, TurnOK
    <3>3. QED
      BY <3>2, AfterTrans
  <2>2. QED
    BY <2>1
<1>5. P(0, o)
  BY <1>1, <1>3
<1>6. ASSUME NEW n \in Rif, NEW y, P(n-1, y)
      PROVE  IF n \in S /\ y.ok THEN \A z \in Turn(call, y, c, n) : P(n, z) ELSE P(n, y)
  <2>1. /\ n \in Nat /\ Rif \subseteq Nat
        /\ \A r \in Rif : (r > n-1 <=> r > n \/ r = n) /\ (r <= n <=> r <= n-1 \/ r = n)
    BY <1>1
  <2>2. y.d.rif[n] = o.d.rif[n]
    BY <1>6, <2>1
  <2>3. CASE ~ y.ok
    BY <1>6, <2>1, <2>3
  <2>4. CASE n \notin S
    BY <1>6, <2>1, <2>2, <2>4
  <2>5. ASSUME n \in S, y.ok, NEW z \in Turn(call, y, c, n) PROVE P(n, z)
    <3>1. Turned(y, z, n, B[n], C[n])
      BY <1>6, <2>2, <2>5 DEF AllTurn
    <3>2. z \in After(o) /\ y \in After(o)
      BY <1>4, <1>6, <2>5
    <3>3. z.left \in Nat /\ y.left \in Nat /\ o.left \in Nat /\ y.left <= o.left
      BY <3>2 DEF After, Outcome
    <3>4. z.ok \/ z.left < o.left
      BY <3>1, <3>3 DEF Turned
    <3>5. ASSUME NEW r \in Rif
          PROVE  /\ z.d.rif[r] \in C[r]
                 /\ r > n => z.d.rif[r] = o.d.rif[r]
                 /\ r <= n /\ z.ok => z.d.rif[r] \in B[r]
      <4>1. CASE r = n
        BY <3>1, <4>1, <2>1 DEF Turned
      <4>2. CASE r # n
        <5>1. z.d.rif[r] = y.d.rif[r]
          BY <3>1, <4>2 DEF Turned
        <5>2. QED
          BY <1>6, <2>1, <2>5, <4>2, <5>1
      <4>3. QED
        BY <4>1, <4>2
    <3>6. QED
      BY <1>6, <3>1, <3>2, <3>4, <3>5 DEF Turned
  <2>6. QED
    BY <2>3, <2>4, <2>5
<1> HIDE DEF P, K
<1>7. o \in K[0]
  BY <1>1, <1>2, <1>5
<1>8. \A n \in Rif : \A y \in K[n-1] :
        IF n \in S /\ y.ok THEN Turn(call, y, c, n) \subseteq K[n] ELSE y \in K[n]
  <2>1. ASSUME NEW n \in Rif, NEW y \in K[n-1]
        PROVE  IF n \in S /\ y.ok THEN Turn(call, y, c, n) \subseteq K[n] ELSE y \in K[n]
    <3>1. n \in 0..RifCount /\ n - 1 \in 0..RifCount
      BY <1>1
    <3>2. P(n-1, y)
      BY <1>2, <2>1, <3>1
    <3>3. \A z : z \in K[n] <=> P(n, z)
      BY <1>2, <3>1
    <3>4. QED
      BY <1>6, <3>2, <3>3
  <2>2. QED
    BY <2>1
<1>9. ForEach(S, o, call, c) \subseteq K[RifCount]
  BY ONLY <1>3, <1>4, <1>7, <1>8, ForEachFollows, Zenon
<1>10. ASSUME NEW z \in ForEach(S, o, call, c) PROVE z \in After(o) /\ Ends(o, z, B, C)
  <2>1. P(RifCount, z)
    BY <1>1, <1>2, <1>9, <1>10
  <2>2. \A r \in Rif : r <= RifCount
    BY <1>1
  <2>3. QED
    BY <2>1, <2>2 DEF P, Ends
<1>11. QED
  BY <1>10

-----------------------------------------------------------------------------
(***************************************************************************)
(* What the turns do to the context they are about.                        *)
(***************************************************************************)
\* The layers of an unbound context.
LEMMA NothingPresent == \A k \in DOMAIN Layer : ~ Present(Unbound, k)
BY DEF Present, Unbound, Layer

\* eswitch_pipeline_sf_unbind_rif: all or a failure.
LEMMA UnbindTurn ==
  ASSUME NEW y \in Outcome, y.ok, NEW r \in Rif, NEW z \in eswitch_pipeline_sf_unbind_rif(y, r)
  PROVE  /\ z.d.up = y.d.up /\ \A s \in Rif \ {r} : z.d.rif[s] = y.d.rif[s]
         /\ z.ok => z.d.rif[r] = Unbound
         /\ z.ok \/ z.left < y.left
         /\ y.d.rif[r] = Unbound => z.d.rif[r] = Unbound
<1> DEFINE x == y.d.rif[r]
           here == {k \in DOMAIN Layer : Present(x, k)}
           Kind(k) == IF \E i \in here : i < k THEN "half" ELSE "unbind"
           a == [y.d EXCEPT !.rif[r] = Unbound]
           b(k) == [y.d EXCEPT !.rif[r] = Stripped(x, k - 1)]
<1>1. y.d \in Switch
  BY DEF Outcome
<1>2. OneContext(y.d, a, r, Unbound) /\ \A k : OneContext(y.d, b(k), r, Stripped(x, k - 1))
  BY <1>1, ContextIs
<1>3. z \in Ok(y, a) \/ \E k \in here : z \in Fault(y, Kind(k), b(k), FALSE)
  BY DEF eswitch_pipeline_sf_unbind_rif
<1>4. x = Unbound => here = {}
  BY NothingPresent
<1> HIDE DEF a, b, here, Kind, x
<1>5. CASE z \in Ok(y, a)
  <2>1. z.d = a /\ z.ok = y.ok
    BY <1>5, ResultsAre
  <2>2. QED
    BY <1>2, <2>1 DEF OneContext
<1>6. CASE \E k \in here : z \in Fault(y, Kind(k), b(k), FALSE)
  <2>1. PICK k \in here : z \in Fault(y, Kind(k), b(k), FALSE)
    BY <1>6
  <2>2. z.d = b(k) /\ ~ z.ok /\ z.left < y.left
    BY <2>1, ResultsAre
  <2>3. QED
    BY <1>2, <1>4, <2>2 DEF OneContext, x
<1>7. QED
  BY <1>3, <1>5, <1>6

\* bind_sf_return_context: with room for one more, a context is built or a
\* failure counted; one that is there stays as it is.
LEMMA BindTurn ==
  ASSUME NEW y \in Outcome, y.ok, NEW c \in Configs, NEW r \in Adrs(c),
         Ready(y.d.rif[r], c, r),
         y.d.rif[r].id = None => Cardinality(Bound(y.d)) < MaxContexts,
         NEW z \in bind_sf_return_context(y, c, r)
  PROVE  /\ z.d.up = y.d.up /\ \A s \in Rif \ {r} : z.d.rif[s] = y.d.rif[s]
         /\ z.d.rif[r] \in {x \in Context : Ready(x, c, r)}
         /\ z.ok => Held(z.d.rif[r], c, r)
         /\ z.ok \/ z.left < y.left
         /\ Held(y.d.rif[r], c, r) => z.d.rif[r] = y.d.rif[r]
<1> DEFINE x == y.d.rif[r]
           full == [x EXCEPT !.id = c.rif[r], !.parts = Parts(c.rif[r].at)]
           part == [full EXCEPT !.parts = @ \ {"elig"}]
           a == [y.d EXCEPT !.rif[r] = full]
           b == [y.d EXCEPT !.rif[r] = part]
           e == [b EXCEPT !.degraded = TRUE]
<1>1. y.d \in Switch /\ r \in Rif /\ c.rif[r] # None /\ c.rif[r] \in Ident
  BY DEF Outcome, Adrs, Ident
<1>2. x \in Context
  BY <1>1 DEF Switch
<1>3. Unbound.id = None /\ Unbound.deny = None
  BY DEF Unbound
<1>4. CASE x.id # None
  <2>1. Held(x, c, r)
    BY <1>3, <1>4 DEF Ready
  <2>2. x.id = c.rif[r]
    BY <2>1 DEF Held
  <2>3. z = y
    BY <1>4, <2>2 DEF bind_sf_return_context
  <2>4. QED
    BY <1>2, <2>1, <2>3 DEF Ready
<1>5. CASE x.id = None
  <2>1. x = Unbound
    BY <1>1, <1>5 DEF Ready, Held
  <2>2. Cardinality(Bound(y.d)) < MaxContexts
    BY <1>5
  <2>3. ~ (Cardinality(Bound(y.d)) >= MaxContexts)
    BY <2>2, BoundFinite, TxAssumption
  <2>4. z \in Ok(y, a) \/ z \in Fault(y, "bind", y.d, FALSE) \/ z \in Fault(y, "elig", e, TRUE)
    BY <1>5, <2>3 DEF bind_sf_return_context
  <2>5. Parts(c.rif[r].at) \in SUBSET {"sel", "elig", "local", "ret"}
    BY DEF Parts
  <2>6. full \in Context /\ full.id = c.rif[r] /\ full.parts = Parts(c.rif[r].at) /\ full.deny = x.deny
    BY <1>1, <1>2, <2>5 DEF Context
  <2>7. /\ part \in Context /\ part.id = c.rif[r] /\ part.parts = Parts(c.rif[r].at) \ {"elig"}
        /\ part.deny = x.deny
    BY <1>1, <1>2, <2>5 DEF Context
  <2> HIDE DEF full, part
  <2>8. Held(full, c, r) /\ Held(part, c, r)
    BY <1>3, <2>1, <2>6, <2>7 DEF Held
  <2>9. OneContext(y.d, a, r, full) /\ OneContext(y.d, b, r, part)
    BY <1>1, ContextIs DEF Switch
  <2>10. e.up = b.up /\ e.rif = b.rif
    BY <1>1 DEF Switch
  <2> HIDE DEF a, b, e
  <2>11. CASE z \in Ok(y, a)
    <3>1. z.d = a /\ z.ok = y.ok
      BY <2>11, ResultsAre
    <3>2. QED
      BY <1>1, <2>1, <2>6, <2>8, <2>9, <3>1 DEF OneContext, Ready, Held, Unbound
  <2>12. CASE z \in Fault(y, "bind", y.d, FALSE)
    <3>1. z.d = y.d /\ ~ z.ok /\ z.left < y.left
      BY <2>12, ResultsAre
    <3>2. QED
      BY <1>2, <2>1, <3>1 DEF Ready
  <2>13. CASE z \in Fault(y, "elig", e, TRUE)
    <3>1. z.d = e /\ z.ok
      BY <2>13, ResultsAre
    <3>2. QED
      BY <1>1, <2>1, <2>7, <2>8, <2>9, <2>10, <3>1 DEF OneContext, Ready, Held, Unbound
  <2>14. QED
    BY <2>4, <2>11, <2>12, <2>13
<1>6. QED
  BY <1>4, <1>5

\* A policy changes nothing but its own layer.
LEMMA PolicyKeeps ==
  ASSUME NEW c, NEW r, NEW x, NEW w, Held(x, c, r), r \in Adrs(c),
         w.id = x.id, w.parts = x.parts
  PROVE  /\ w.deny = x.deny => Held(w, c, r) /\ (DenyServed(x, c, r) => DenyServed(w, c, r))
         /\ w.deny = None => Held(w, c, r)
         /\ "local" \in x.parts => Held(w, c, r)
         /\ w.acl = x.acl => (AclServed(x, c, r) => AclServed(w, c, r))
BY DEF Held, AclServed, DenyServed

\* SelectAcl,
LEMMA SelectAclTurn ==
  ASSUME NEW y \in Outcome, y.ok, NEW c \in Configs, NEW r \in Adrs(c), Held(y.d.rif[r], c, r),
         NEW z \in SelectAcl(y, c, r)
  PROVE  /\ z.d.up = y.d.up /\ \A s \in Rif \ {r} : z.d.rif[s] = y.d.rif[s]
         /\ Held(z.d.rif[r], c, r)
         /\ z.ok => z.d.rif[r].acl \in {c.acl[r], Arm}
         /\ z.ok \/ z.left < y.left
<1> DEFINE x == y.d.rif[r]
           g == c.acl[r]
           u == [x EXCEPT !.acl = g]
           v == [x EXCEPT !.acl = Arm]
           a == [y.d EXCEPT !.rif[r].acl = g]
           b == [y.d EXCEPT !.rif[r].acl = Arm]
<1>1. y.d \in Switch /\ r \in Rif
  BY DEF Outcome, Adrs
<1>2. x \in Context
  BY <1>1 DEF Switch
<1>3. OneContext(y.d, a, r, u) /\ u.acl = g /\ Held(u, c, r)
  <2>1. /\ OneContext(y.d, a, r, u) /\ u.acl = g
        /\ u.id = x.id /\ u.parts = x.parts /\ u.deny = x.deny
    BY <1>1, <1>2 DEF Switch, OneContext, Context
  <2> HIDE DEF a, u
  <2>2. QED
    BY <2>1, PolicyKeeps
<1>4. OneContext(y.d, b, r, v) /\ v.acl = Arm /\ Held(v, c, r)
  <2>1. /\ OneContext(y.d, b, r, v) /\ v.acl = Arm
        /\ v.id = x.id /\ v.parts = x.parts /\ v.deny = x.deny
    BY <1>1, <1>2 DEF Switch, OneContext, Context
  <2> HIDE DEF b, v
  <2>2. QED
    BY <2>1, PolicyKeeps
<1>5. \/ z = y /\ x.acl = g
      \/ z \in Ok(y, a) \/ z \in Fault(y, "build", b, TRUE) \/ z \in Fault(y, "acl", y.d, FALSE)
  BY DEF SelectAcl, SetAcl
<1> HIDE DEF a, b, u, v
<1>6. CASE z = y /\ x.acl = g
  BY <1>6
<1>7. CASE z \in Ok(y, a)
  <2>1. z.d = a /\ z.ok = y.ok
    BY <1>7, ResultsAre
  <2>2. QED
    BY <1>3, <1>7, <2>1 DEF OneContext
<1>8. CASE z \in Fault(y, "build", b, TRUE)
  <2>1. z.d = b /\ z.ok
    BY <1>8, ResultsAre
  <2>2. QED
    BY <1>4, <1>8, <2>1 DEF OneContext
<1>9. CASE z \in Fault(y, "acl", y.d, FALSE)
  <2>1. z.d = y.d /\ ~ z.ok /\ z.left < y.left
    BY <1>9, ResultsAre
  <2>2. QED
    BY <2>1
<1>10. QED
  BY <1>5, <1>6, <1>7, <1>8, <1>9

\* DropAcl,
LEMMA DropAclTurn ==
  ASSUME NEW y \in Outcome, y.ok, NEW c \in Configs, NEW r \in Adrs(c), Held(y.d.rif[r], c, r),
         NEW z \in DropAcl(y, r)
  PROVE  /\ z.d.up = y.d.up /\ \A s \in Rif \ {r} : z.d.rif[s] = y.d.rif[s]
         /\ Held(z.d.rif[r], c, r)
         /\ z.ok => z.d.rif[r].acl = None
         /\ z.ok \/ z.left < y.left
<1> DEFINE x == y.d.rif[r]
           u == [x EXCEPT !.acl = None]
           a == [y.d EXCEPT !.rif[r].acl = None]
<1>1. y.d \in Switch /\ r \in Rif
  BY DEF Outcome, Adrs
<1>2. OneContext(y.d, a, r, u) /\ u.acl = None /\ Held(u, c, r)
  <2>1. /\ OneContext(y.d, a, r, u) /\ u.acl = None
        /\ u.id = x.id /\ u.parts = x.parts /\ u.deny = x.deny
    BY <1>1, AclIs
  <2> HIDE DEF a, u
  <2>2. QED
    BY <2>1, PolicyKeeps
<1>3. z \in Ok(y, a) \/ z \in Fault(y, "acl", y.d, FALSE)
  BY DEF DropAcl, SetAcl
<1> HIDE DEF a, u
<1>4. CASE z \in Ok(y, a)
  <2>1. z.d = a /\ z.ok = y.ok
    BY <1>4, ResultsAre
  <2>2. QED
    BY <1>2, <2>1 DEF OneContext
<1>5. CASE z \in Fault(y, "acl", y.d, FALSE)
  <2>1. z.d = y.d /\ ~ z.ok /\ z.left < y.left
    BY <1>5, ResultsAre
  <2>2. QED
    BY <2>1
<1>6. QED
  BY <1>3, <1>4, <1>5

\* SelectDeny,
LEMMA SelectDenyTurn ==
  ASSUME NEW y \in Outcome, y.ok, NEW c \in Configs, NEW r \in Adrs(c), Held(y.d.rif[r], c, r),
         AclServed(y.d.rif[r], c, r),
         y.d.rif[r].deny \notin {c.deny[r], None} => "local" \in y.d.rif[r].parts,
         NEW z \in SelectDeny(y, c, r)
  PROVE  /\ z.d.up = y.d.up /\ \A s \in Rif \ {r} : z.d.rif[s] = y.d.rif[s]
         /\ Held(z.d.rif[r], c, r) /\ AclServed(z.d.rif[r], c, r)
         /\ z.ok => z.d.rif[r].deny \in {c.deny[r], None}
         /\ z.ok \/ z.left < y.left
<1> DEFINE x == y.d.rif[r]
           g == c.deny[r]
           u == [x EXCEPT !.deny = g]
           v == [x EXCEPT !.deny = None]
           a == [y.d EXCEPT !.rif[r].deny = g]
           b == [y.d EXCEPT !.rif[r].deny = None]
<1>1. y.d \in Switch /\ r \in Rif
  BY DEF Outcome, Adrs
<1>2. "local" \in x.parts =>
        OneContext(y.d, a, r, u) /\ u.deny = g /\ Held(u, c, r) /\ AclServed(u, c, r)
  <2>1. /\ OneContext(y.d, a, r, u) /\ u.deny = g
        /\ u.id = x.id /\ u.parts = x.parts /\ u.acl = x.acl
    BY <1>1, DenyIs, SMTT(30)
  <2> HIDE DEF a, u
  <2>2. QED
    BY <2>1, PolicyKeeps
<1>3. "local" \in x.parts =>
        OneContext(y.d, b, r, v) /\ v.deny = None /\ Held(v, c, r) /\ AclServed(v, c, r)
  <2>1. /\ OneContext(y.d, b, r, v) /\ v.deny = None
        /\ v.id = x.id /\ v.parts = x.parts /\ v.acl = x.acl
    BY <1>1, DenyIs, SMTT(30)
  <2> HIDE DEF b, v
  <2>2. QED
    BY <2>1, PolicyKeeps
<1>4. \/ z = y /\ (x.deny = g \/ "local" \notin x.parts)
      \/ /\ "local" \in x.parts
         /\ z \in Ok(y, a) \/ z \in Fault(y, "build", b, TRUE) \/ z \in Fault(y, "deny", y.d, FALSE)
  BY DEF SelectDeny, SetDeny
<1> HIDE DEF a, b, u, v
<1>5. CASE z = y /\ (x.deny = g \/ "local" \notin x.parts)
  BY <1>5
<1>6. CASE "local" \in x.parts /\ z \in Ok(y, a)
  <2>1. z.d = a /\ z.ok = y.ok
    BY <1>6, ResultsAre
  <2>2. QED
    BY <1>2, <1>6, <2>1 DEF OneContext
<1>7. CASE "local" \in x.parts /\ z \in Fault(y, "build", b, TRUE)
  <2>1. z.d = b /\ z.ok
    BY <1>7, ResultsAre
  <2>2. QED
    BY <1>3, <1>7, <2>1 DEF OneContext
<1>8. CASE z \in Fault(y, "deny", y.d, FALSE)
  <2>1. z.d = y.d /\ ~ z.ok /\ z.left < y.left
    BY <1>8, ResultsAre
  <2>2. QED
    BY <2>1
<1>9. QED
  BY <1>4, <1>5, <1>6, <1>7, <1>8

\* and DropDeny.
LEMMA DropDenyTurn ==
  ASSUME NEW y \in Outcome, y.ok, NEW c \in Configs, NEW r \in Adrs(c), Held(y.d.rif[r], c, r),
         AclServed(y.d.rif[r], c, r), NEW z \in DropDeny(y, r)
  PROVE  /\ z.d.up = y.d.up /\ \A s \in Rif \ {r} : z.d.rif[s] = y.d.rif[s]
         /\ Held(z.d.rif[r], c, r) /\ AclServed(z.d.rif[r], c, r)
         /\ z.ok => z.d.rif[r].deny = None
         /\ z.ok \/ z.left < y.left
<1> DEFINE x == y.d.rif[r]
           u == [x EXCEPT !.deny = None]
           a == [y.d EXCEPT !.rif[r].deny = None]
<1>1. y.d \in Switch /\ r \in Rif
  BY DEF Outcome, Adrs
<1>2. OneContext(y.d, a, r, u) /\ u.deny = None /\ Held(u, c, r) /\ AclServed(u, c, r)
  <2>1. /\ OneContext(y.d, a, r, u) /\ u.deny = None
        /\ u.id = x.id /\ u.parts = x.parts /\ u.acl = x.acl
    BY <1>1, DenyIs, SMTT(30)
  <2> HIDE DEF a, u
  <2>2. QED
    BY <2>1, PolicyKeeps
<1>3. z \in Ok(y, a) \/ z \in Fault(y, "deny", y.d, FALSE)
  BY DEF DropDeny, SetDeny
<1> HIDE DEF a, u
<1>4. CASE z \in Ok(y, a)
  <2>1. z.d = a /\ z.ok = y.ok
    BY <1>4, ResultsAre
  <2>2. QED
    BY <1>2, <2>1 DEF OneContext
<1>5. CASE z \in Fault(y, "deny", y.d, FALSE)
  <2>1. z.d = y.d /\ ~ z.ok /\ z.left < y.left
    BY <1>5, ResultsAre
  <2>2. QED
    BY <2>1
<1>6. QED
  BY <1>3, <1>4, <1>5

-----------------------------------------------------------------------------
(***************************************************************************)
(* The calls made of the loops.                                            *)
(***************************************************************************)
AllReady(d, c) == \A r \in Rif : Ready(d.rif[r], c, r)
AllHeld(d, c) == \A r \in Rif : Held(d.rif[r], c, r)
AllAcl(d, c) == \A r \in Rif : Held(d.rif[r], c, r) /\ AclServed(d.rif[r], c, r)
AllServed(d, c) == \A r \in Rif : Served(d.rif[r], c, r)

\* A switch that has contexts of c only has room for the rest of c.
LEMMA RoomFor ==
  ASSUME NEW d, NEW c, AllReady(d, c)
  PROVE  /\ Bound(d) \subseteq Adrs(c) /\ IsFiniteSet(Adrs(c)) /\ Cardinality(Adrs(c)) \in Nat
         /\ \A r \in Adrs(c) : d.rif[r].id = None /\ Cardinality(Adrs(c)) <= MaxContexts
                              => Cardinality(Bound(d)) < MaxContexts
<1>1. Bound(d) \subseteq Adrs(c)
  BY DEF AllReady, Ready, Held, Bound, Unbound
<1>2. IsFiniteSet(Adrs(c)) /\ Cardinality(Adrs(c)) \in Nat
  <2>1. Adrs(c) \subseteq Rif /\ IsFiniteSet(Rif)
    BY BoundFinite DEF Adrs
  <2>2. QED
    BY <2>1, FS_Subset, FS_CardinalityType
<1>3. ASSUME NEW r \in Adrs(c), d.rif[r].id = None, Cardinality(Adrs(c)) <= MaxContexts
      PROVE  Cardinality(Bound(d)) < MaxContexts
  <2>1. Bound(d) \subseteq Adrs(c) \ {r}
    BY <1>1, <1>3 DEF Bound
  <2>2. /\ IsFiniteSet(Adrs(c) \ {r})
        /\ Cardinality(Adrs(c) \ {r}) = Cardinality(Adrs(c)) - 1
    BY <1>2, FS_RemoveElement
  <2>3. Cardinality(Bound(d)) <= Cardinality(Adrs(c) \ {r})
    BY <2>1, <2>2, FS_Subset
  <2>4. QED
    BY <1>2, <1>3, <2>2, <2>3, BoundFinite, TxAssumption
<1>4. QED
  BY <1>1, <1>2, <1>3

\* eswitch_manager_router_prearm binds what is missing and leaves the rest.
LEMMA PrearmServes ==
  ASSUME NEW o \in Outcome, Fits(o.d), o.ok, NEW c \in Configs, AllReady(o.d, c),
         NEW z \in eswitch_manager_router_prearm(o, c)
  PROVE  /\ z \in After(o) /\ z.d.up = o.d.up /\ AllReady(z.d, c)
         /\ z.ok => AllHeld(z.d, c)
         /\ \A r \in Rif : Held(o.d.rif[r], c, r) => z.d.rif[r] = o.d.rif[r]
         /\ Cardinality(Adrs(c)) <= MaxContexts => z.ok \/ z.left < o.left
<1> DEFINE B == [r \in Rif |-> {x \in Context : Held(x, c, r)}]
           C == [r \in Rif |-> {x \in Context :
                                  Ready(x, c, r) /\ (Held(o.d.rif[r], c, r) => x = o.d.rif[r])}]
<1>1. z \in After(o)
  BY PrearmOK
<1>2. preflight_router_contexts(o, c) <=> Cardinality(Adrs(c)) <= MaxContexts
  <2>1. Bound(o.d) \union Adrs(c) = Adrs(c)
    BY RoomFor
  <2>2. QED
    BY <2>1 DEF preflight_router_contexts
<1>3. CASE ~ preflight_router_contexts(o, c)
  <2>1. z \in Refused(o)
    BY <1>3 DEF eswitch_manager_router_prearm
  <2>2. z.d = o.d /\ ~ z.ok
    BY <2>1 DEF Refused, Outcome
  <2>3. QED
    BY <1>1, <1>2, <1>3, <2>2
<1>4. CASE preflight_router_contexts(o, c)
  <2>1. z \in ForEach(Adrs(c), o, "bind", c) /\ Allowed("bind", Adrs(c), c)
    BY <1>4 DEF eswitch_manager_router_prearm, Allowed
  <2>2. \A r \in Rif : \A x :
          /\ x \in B[r] <=> (x \in Context /\ Held(x, c, r))
          /\ x \in C[r] <=> (x \in Context /\ Ready(x, c, r) /\ (Held(o.d.rif[r], c, r) => x = o.d.rif[r]))
    OBVIOUS
  <2> HIDE DEF B, C
  <2>3. \A r \in Rif : o.d.rif[r] \in Context
    BY DEF Outcome, Switch
  <2>4. \A r \in Rif : o.d.rif[r] \in C[r] /\ (r \notin Adrs(c) => o.d.rif[r] \in B[r])
    BY <2>2, <2>3 DEF AllReady, Ready, Held
  <2>5. ASSUME NEW r \in Rif, NEW y \in After(o), NEW w \in Turn("bind", y, c, r),
               r \in Adrs(c), y.ok, y.d.rif[r] = o.d.rif[r], \A s \in Rif : y.d.rif[s] \in C[s]
        PROVE  Turned(y, w, r, B[r], C[r])
    <3>1. y \in Outcome /\ AllReady(y.d, c)
      BY <2>2, <2>5 DEF After, AllReady
    <3>2. w \in bind_sf_return_context(y, c, r)
      BY <2>5 DEF Turn
    <3>3. Ready(y.d.rif[r], c, r) /\ (y.d.rif[r].id = None => Cardinality(Bound(y.d)) < MaxContexts)
      BY <1>2, <1>4, <2>5, <3>1, RoomFor DEF AllReady
    <3>4. /\ w.d.up = y.d.up /\ \A s \in Rif \ {r} : w.d.rif[s] = y.d.rif[s]
          /\ w.d.rif[r] \in {x \in Context : Ready(x, c, r)}
          /\ w.ok => Held(w.d.rif[r], c, r)
          /\ w.ok \/ w.left < y.left
          /\ Held(y.d.rif[r], c, r) => w.d.rif[r] = y.d.rif[r]
      BY <2>5, <3>1, <3>2, <3>3, BindTurn
    <3>5. QED
      BY <2>2, <2>5, <3>4 DEF Turned
  <2>6. AllTurn(Adrs(c), o, "bind", c, B, C)
    BY <2>5 DEF AllTurn
  <2>7. Ends(o, z, B, C)
    BY <2>1, <2>4, <2>6, LoopServes
  <2>8. QED
    BY <1>1, <2>2, <2>7 DEF Ends, AllReady, AllHeld
<1>5. QED
  BY <1>3, <1>4

\* eswitch_pipeline_egress_acl_sync on bound contexts.
LEMMA AclServes ==
  ASSUME NEW o \in Outcome, Fits(o.d), o.ok, NEW c \in Configs, AllHeld(o.d, c),
         NEW z \in eswitch_pipeline_egress_acl_sync(o, c)
  PROVE  /\ z \in After(o) /\ z.d.up = o.d.up /\ AllHeld(z.d, c)
         /\ z.ok => AllAcl(z.d, c)
         /\ z.ok \/ z.left < o.left
<1> DEFINE S == {r \in Adrs(c) : c.acl[r] # None}
           T(y) == {r \in Rif : y.d.rif[r].acl # None /\ c.acl[r] = None}
           Chosen(x, r) == r \in S => x.acl \in {c.acl[r], Arm}
           C == [r \in Rif |-> {x \in Context : Held(x, c, r)}]
           B == [r \in Rif |-> {x \in Context : Held(x, c, r) /\ Chosen(x, r)}]
           D == [r \in Rif |-> {x \in Context : Held(x, c, r) /\ AclServed(x, c, r)}]
<1>1. z \in After(o)
  BY AclSyncOK
<1>2. PICK y \in ForEach(S, o, "acl", c) : IF y.ok THEN z \in ForEach(T(y), y, "noacl", c) ELSE z = y
  BY DEF eswitch_pipeline_egress_acl_sync, AndThen
<1>3. \A r \in Rif : \A x :
        /\ x \in C[r] <=> (x \in Context /\ Held(x, c, r))
        /\ x \in B[r] <=> (x \in Context /\ Held(x, c, r) /\ Chosen(x, r))
        /\ x \in D[r] <=> (x \in Context /\ Held(x, c, r) /\ AclServed(x, c, r))
  OBVIOUS
<1> HIDE DEF B, C, D
<1>4. \A y1 \in Outcome, r \in Rif : y1.d.rif[r] \in Context
  BY DEF Outcome, Switch
<1>5. y \in After(o) /\ Ends(o, y, B, C)
  <2>1. Allowed("acl", S, c)
    BY DEF Allowed
  <2>2. \A r \in Rif : o.d.rif[r] \in C[r] /\ (r \notin S => o.d.rif[r] \in B[r])
    BY <1>3, <1>4 DEF AllHeld
  <2>3. ASSUME NEW r \in Rif, NEW y1 \in After(o), NEW w \in Turn("acl", y1, c, r),
               r \in S, y1.ok, \A s \in Rif : y1.d.rif[s] \in C[s]
        PROVE  Turned(y1, w, r, B[r], C[r])
    <3>1. y1 \in Outcome /\ Fits(y1.d) /\ Held(y1.d.rif[r], c, r) /\ r \in Adrs(c)
      BY <1>3, <2>3 DEF After
    <3>2. w \in SelectAcl(y1, c, r)
      BY <2>3 DEF Turn
    <3>3. /\ w.d.up = y1.d.up /\ \A s \in Rif \ {r} : w.d.rif[s] = y1.d.rif[s]
          /\ Held(w.d.rif[r], c, r)
          /\ w.ok => w.d.rif[r].acl \in {c.acl[r], Arm}
          /\ w.ok \/ w.left < y1.left
      BY <2>3, <3>1, <3>2, SelectAclTurn
    <3>4. w.d.rif[r] \in Context
      BY <1>4, <3>1, <3>2, SelectAclOK DEF After
    <3>5. QED
      BY <1>3, <3>3, <3>4 DEF Turned
  <2>4. AllTurn(S, o, "acl", c, B, C)
    BY <2>3 DEF AllTurn
  <2> HIDE DEF S
  <2>5. QED
    BY <1>2, <2>1, <2>2, <2>4, LoopServes
<1>6. CASE ~ y.ok
  BY <1>1, <1>2, <1>3, <1>5, <1>6 DEF Ends, AllHeld
<1>7. CASE y.ok
  <2>1. y \in Outcome /\ Fits(y.d) /\ z \in ForEach(T(y), y, "noacl", c)
    BY <1>2, <1>5, <1>7 DEF After
  <2>2. Allowed("noacl", T(y), c)
    BY DEF Allowed
  <2>3. \A r \in Rif : y.d.rif[r] \in B[r] /\ (r \notin T(y) => y.d.rif[r] \in D[r])
    BY <1>3, <1>5, <1>7 DEF Ends, AclServed
  <2>4. ASSUME NEW r \in Rif, NEW y1 \in After(y), NEW w \in Turn("noacl", y1, c, r),
               r \in T(y), y1.ok, y1.d.rif[r] = y.d.rif[r], \A s \in Rif : y1.d.rif[s] \in B[s]
        PROVE  Turned(y1, w, r, D[r], B[r])
    <3>1. y1 \in Outcome /\ Fits(y1.d) /\ Held(y1.d.rif[r], c, r)
      BY <1>3, <2>4 DEF After
    <3>2. r \in Adrs(c)
      BY <2>4, <3>1 DEF Held, Unbound
    <3>3. w \in DropAcl(y1, r)
      BY <2>4 DEF Turn
    <3>4. /\ w.d.up = y1.d.up /\ \A s \in Rif \ {r} : w.d.rif[s] = y1.d.rif[s]
          /\ Held(w.d.rif[r], c, r)
          /\ w.ok => w.d.rif[r].acl = None
          /\ w.ok \/ w.left < y1.left
      BY <2>4, <3>1, <3>2, <3>3, DropAclTurn
    <3>5. w.d.rif[r] \in Context
      BY <1>4, <3>1, <3>3, DropAclOK DEF After
    <3>6. Chosen(w.d.rif[r], r)
      BY <2>4
    <3> HIDE DEF Chosen
    <3>7. QED
      BY <1>3, <2>4, <3>4, <3>5, <3>6 DEF Turned, AclServed
  <2>5. AllTurn(T(y), y, "noacl", c, D, B)
    BY <2>4 DEF AllTurn
  <2> HIDE DEF T
  <2>6. Ends(y, z, D, B)
    BY <1>7, <2>1, <2>2, <2>3, <2>5, LoopServes
  <2>7. z.left \in Nat /\ y.left \in Nat /\ o.left \in Nat /\ y.left <= o.left
    BY <1>1, <1>5 DEF After, Outcome
  <2>8. QED
    BY <1>1, <1>3, <1>5, <2>6, <2>7 DEF Ends, AllHeld, AllAcl
<1>8. QED
  BY <1>6, <1>7

\* eswitch_pipeline_ingress_deny_sync on contexts with their egress policy.
LEMMA DenyServes ==
  ASSUME NEW o \in Outcome, Fits(o.d), o.ok, NEW c \in Configs, AllAcl(o.d, c),
         NEW z \in eswitch_pipeline_ingress_deny_sync(o, c)
  PROVE  /\ z \in After(o) /\ z.d.up = o.d.up /\ AllAcl(z.d, c)
         /\ z.ok => AllServed(z.d, c)
         /\ z.ok \/ z.left < o.left
<1> DEFINE S == {r \in Rif : o.d.rif[r].deny # None /\ c.deny[r] = None}
           T == {r \in Adrs(c) : c.deny[r] # None}
           Cleared(x, r) == c.deny[r] = None => x.deny = None
           C == [r \in Rif |-> {x \in Context : Held(x, c, r) /\ AclServed(x, c, r)}]
           B == [r \in Rif |-> {x \in Context : Held(x, c, r) /\ AclServed(x, c, r) /\ Cleared(x, r)}]
           D == [r \in Rif |-> {x \in Context : Served(x, c, r)}]
<1>1. z \in After(o)
  BY DenySyncOK
<1>2. PICK y \in ForEach(S, o, "nodeny", c) : IF y.ok THEN z \in ForEach(T, y, "deny", c) ELSE z = y
  BY DEF eswitch_pipeline_ingress_deny_sync, AndThen
<1>3. \A r \in Rif : \A x :
        /\ x \in C[r] <=> (x \in Context /\ Held(x, c, r) /\ AclServed(x, c, r))
        /\ x \in B[r] <=> (x \in Context /\ Held(x, c, r) /\ AclServed(x, c, r) /\ Cleared(x, r))
        /\ x \in D[r] <=> (x \in Context /\ Served(x, c, r))
  OBVIOUS
<1> HIDE DEF B, C, D
<1>4. \A y1 \in Outcome, r \in Rif : y1.d.rif[r] \in Context
  BY DEF Outcome, Switch
<1>5. y \in After(o) /\ Ends(o, y, B, C)
  <2>1. Allowed("nodeny", S, c)
    BY DEF Allowed
  <2>2. \A r \in Rif : o.d.rif[r] \in C[r] /\ (r \notin S => o.d.rif[r] \in B[r])
    BY <1>3, <1>4 DEF AllAcl
  <2>3. ASSUME NEW r \in Rif, NEW y1 \in After(o), NEW w \in Turn("nodeny", y1, c, r),
               r \in S, y1.ok, y1.d.rif[r] = o.d.rif[r], \A s \in Rif : y1.d.rif[s] \in C[s]
        PROVE  Turned(y1, w, r, B[r], C[r])
    <3>1. /\ y1 \in Outcome /\ Fits(y1.d)
          /\ Held(y1.d.rif[r], c, r) /\ AclServed(y1.d.rif[r], c, r)
      BY <1>3, <2>3 DEF After
    <3>2. r \in Adrs(c)
      BY <2>3, <3>1 DEF Held, Unbound
    <3>3. w \in DropDeny(y1, r)
      BY <2>3 DEF Turn
    <3>4. /\ w.d.up = y1.d.up /\ \A s \in Rif \ {r} : w.d.rif[s] = y1.d.rif[s]
          /\ Held(w.d.rif[r], c, r) /\ AclServed(w.d.rif[r], c, r)
          /\ w.ok => w.d.rif[r].deny = None
          /\ w.ok \/ w.left < y1.left
      BY <2>3, <3>1, <3>2, <3>3, DropDenyTurn
    <3>5. w.d.rif[r] \in Context
      BY <1>4, <3>1, <3>3, DropDenyOK DEF After
    <3>6. QED
      BY <1>3, <3>4, <3>5 DEF Turned
  <2>4. AllTurn(S, o, "nodeny", c, B, C)
    BY <2>3 DEF AllTurn
  <2> HIDE DEF S
  <2>5. QED
    BY <1>2, <2>1, <2>2, <2>4, LoopServes
<1>6. CASE ~ y.ok
  BY <1>1, <1>2, <1>3, <1>5, <1>6 DEF Ends, AllAcl
<1>7. CASE y.ok
  <2>1. y \in Outcome /\ Fits(y.d) /\ z \in ForEach(T, y, "deny", c)
    BY <1>2, <1>5, <1>7 DEF After
  <2>2. Allowed("deny", T, c)
    BY DEF Allowed
  <2>3. \A r \in Rif : y.d.rif[r] \in B[r] /\ (r \notin T => y.d.rif[r] \in D[r])
    BY <1>3, <1>5, <1>7 DEF Ends, Served, DenyServed
  <2>4. ASSUME NEW r \in Rif, NEW y1 \in After(y), NEW w \in Turn("deny", y1, c, r),
               r \in T, y1.ok, \A s \in Rif : y1.d.rif[s] \in B[s]
        PROVE  Turned(y1, w, r, D[r], B[r])
    <3>1. /\ y1 \in Outcome /\ Fits(y1.d) /\ r \in Adrs(c)
          /\ Held(y1.d.rif[r], c, r) /\ AclServed(y1.d.rif[r], c, r)
      BY <1>3, <2>4 DEF After
    <3>2. y1.d.rif[r].deny \notin {c.deny[r], None} => "local" \in y1.d.rif[r].parts
      BY <3>1 DEF Held
    <3>3. w \in SelectDeny(y1, c, r)
      BY <2>4 DEF Turn
    <3>4. /\ w.d.up = y1.d.up /\ \A s \in Rif \ {r} : w.d.rif[s] = y1.d.rif[s]
          /\ Held(w.d.rif[r], c, r) /\ AclServed(w.d.rif[r], c, r)
          /\ w.ok => w.d.rif[r].deny \in {c.deny[r], None}
          /\ w.ok \/ w.left < y1.left
      BY <2>4, <3>1, <3>2, <3>3, SelectDenyTurn
    <3>5. w.d.rif[r] \in Context
      BY <1>4, <3>1, <3>3, SelectDenyOK DEF After
    <3>6. Cleared(w.d.rif[r], r)
      BY <2>4
    <3> HIDE DEF Cleared
    <3>7. QED
      BY <1>3, <3>4, <3>5, <3>6 DEF Turned, Served, DenyServed
  <2>5. AllTurn(T, y, "deny", c, D, B)
    BY <2>4 DEF AllTurn
  <2> HIDE DEF T
  <2>6. Ends(y, z, D, B)
    BY <1>7, <2>1, <2>2, <2>3, <2>5, LoopServes
  <2>7. z.left \in Nat /\ y.left \in Nat /\ o.left \in Nat /\ y.left <= o.left
    BY <1>1, <1>5 DEF After, Outcome
  <2>8. QED
    BY <1>1, <1>3, <1>5, <2>6, <2>7 DEF Ends, AllAcl, AllServed
<1>8. QED
  BY <1>6, <1>7

\* Contexts and policies one after the other: served, or a failure counted.
LEMMA RearmServes ==
  ASSUME NEW c \in Configs, NEW S, \A y \in S : y \in Outcome /\ Fits(y.d), NEW z \in Rearm(S, c)
  PROVE  \E y \in S :
           /\ z.left <= y.left
           /\ ~ y.ok => z = y
           /\ y.ok /\ AllReady(y.d, c) =>
                /\ z.d.up = y.d.up
                /\ z.ok => AllServed(z.d, c)
                /\ Cardinality(Adrs(c)) <= MaxContexts => z.ok \/ z.left < y.left
<1> DEFINE armed == UNION {IF y.ok THEN eswitch_manager_router_prearm(y, c) ELSE {y} : y \in S}
           acls == UNION {IF y.ok THEN eswitch_pipeline_egress_acl_sync(y, c) ELSE {y} : y \in armed}
           denies == UNION {IF y.ok THEN eswitch_pipeline_ingress_deny_sync(y, c) ELSE {y} : y \in acls}
<1>1. z \in denies
  BY DEF Rearm, AndThen
<1>2. PICK w \in acls : IF w.ok THEN z \in eswitch_pipeline_ingress_deny_sync(w, c) ELSE z = w
  BY <1>1
<1>3. PICK v \in armed : IF v.ok THEN w \in eswitch_pipeline_egress_acl_sync(v, c) ELSE w = v
  BY <1>2
<1>4. PICK y \in S : IF y.ok THEN v \in eswitch_manager_router_prearm(y, c) ELSE v = y
  BY <1>3
<1> HIDE DEF armed, acls, denies
<1>5. y \in Outcome /\ Fits(y.d)
  BY <1>4
<1>6. /\ v \in Outcome /\ Fits(v.d) /\ v.left <= y.left
      /\ y.ok /\ AllReady(y.d, c) => /\ v.d.up = y.d.up
                                     /\ v.ok => AllHeld(v.d, c)
                                     /\ Cardinality(Adrs(c)) <= MaxContexts => v.ok \/ v.left < y.left
  <2>1. CASE y.ok
    <3>1. v \in After(y)
      BY <1>4, <1>5, <2>1, PrearmOK
    <3>2. QED
      BY <1>4, <1>5, <2>1, <3>1, PrearmServes DEF After
  <2>2. CASE ~ y.ok
    <3>1. y.left \in Nat
      BY <1>5 DEF Outcome
    <3>2. QED
      BY <1>4, <1>5, <2>2, <3>1
  <2>3. QED
    BY <2>1, <2>2
<1>7. /\ w \in Outcome /\ Fits(w.d) /\ w.left <= v.left
      /\ v.ok /\ AllHeld(v.d, c) => /\ w.d.up = v.d.up
                                    /\ w.ok => AllAcl(w.d, c)
                                    /\ w.ok \/ w.left < v.left
      /\ ~ v.ok => w = v
  <2>1. CASE v.ok
    <3>1. w \in After(v)
      BY <1>3, <1>6, <2>1, AclSyncOK
    <3>2. QED
      BY <1>3, <1>6, <2>1, <3>1, AclServes DEF After
  <2>2. CASE ~ v.ok
    <3>1. v.left \in Nat
      BY <1>6 DEF Outcome
    <3>2. QED
      BY <1>3, <1>6, <2>2, <3>1
  <2>3. QED
    BY <2>1, <2>2
<1>8. /\ z \in Outcome /\ z.left <= w.left
      /\ w.ok /\ AllAcl(w.d, c) => /\ z.d.up = w.d.up
                                   /\ z.ok => AllServed(z.d, c)
                                   /\ z.ok \/ z.left < w.left
      /\ ~ w.ok => z = w
  <2>1. CASE w.ok
    <3>1. z \in After(w)
      BY <1>2, <1>7, <2>1, DenySyncOK
    <3>2. QED
      BY <1>2, <1>7, <2>1, <3>1, DenyServes DEF After
  <2>2. CASE ~ w.ok
    <3>1. w.left \in Nat
      BY <1>7 DEF Outcome
    <3>2. QED
      BY <1>2, <1>7, <2>2, <3>1
  <2>3. QED
    BY <2>1, <2>2
<1>9. z.left \in Nat /\ w.left \in Nat /\ v.left \in Nat /\ y.left \in Nat
  BY <1>5, <1>6, <1>7, <1>8 DEF Outcome
<1>10. z.left <= y.left
  BY <1>6, <1>7, <1>8, <1>9
<1>11. ~ y.ok => z = y
  BY <1>2, <1>3, <1>4
<1>12. ASSUME y.ok, AllReady(y.d, c)
       PROVE  /\ z.d.up = y.d.up
              /\ z.ok => AllServed(z.d, c)
              /\ Cardinality(Adrs(c)) <= MaxContexts => z.ok \/ z.left < y.left
  BY <1>6, <1>7, <1>8, <1>9, <1>12
<1>13. QED
  BY <1>10, <1>11, <1>12

-----------------------------------------------------------------------------
(***************************************************************************)
(* Uplinks, routes, and what is forgotten.                                 *)
(***************************************************************************)
UplinksAre(d, P) == \A p \in Port : "rule" \in d.up[p] <=> p \in P

Undoable == "unmeter" \notin TxFaults

\* eswitch_pipeline_attach_router_port.
LEMMA AttachServes ==
  ASSUME NEW y \in Outcome, y.ok, NEW p \in Port, NEW P, UplinksAre(y.d, P),
         NEW z \in eswitch_pipeline_attach_router_port(y, p)
  PROVE  /\ z.d.rif = y.d.rif
         /\ z.ok => UplinksAre(z.d, P \union {p})
         /\ ~ z.ok => UplinksAre(z.d, P)
         /\ p \notin P => z.ok \/ z.left < y.left
<1> DEFINE a == [y.d EXCEPT !.up[p] = {"rule", "meter"}]
           b == [y.d EXCEPT !.up[p] = {"rule"}]
<1>1. y.d \in Switch
  BY DEF Outcome
<1>2. /\ a.rif = y.d.rif /\ a.up[p] = {"rule", "meter"} /\ \A q \in Port \ {p} : a.up[q] = y.d.up[q]
      /\ b.rif = y.d.rif /\ b.up[p] = {"rule"} /\ \A q \in Port \ {p} : b.up[q] = y.d.up[q]
  BY <1>1 DEF Switch
<1>3. UplinksAre(a, P \union {p}) /\ UplinksAre(b, P \union {p})
  <2> HIDE DEF a, b
  <2>1. QED
    BY <1>2 DEF UplinksAre
<1>4. \/ "rule" \in y.d.up[p] /\ z \in Error(y)
      \/ z \in Ok(y, a) \/ z \in Fault(y, "meter", b, TRUE) \/ z \in Fault(y, "attach", y.d, FALSE)
  BY DEF eswitch_pipeline_attach_router_port
<1> HIDE DEF a, b
<1>5. CASE "rule" \in y.d.up[p] /\ z \in Error(y)
  <2>1. z.d = y.d /\ ~ z.ok
    BY <1>5, ResultsAre
  <2>2. p \in P
    BY <1>5 DEF UplinksAre
  <2>3. QED
    BY <2>1, <2>2
<1>6. CASE z \in Ok(y, a)
  <2>1. z.d = a /\ z.ok = y.ok
    BY <1>6, ResultsAre
  <2>2. QED
    BY <1>2, <1>3, <2>1
<1>7. CASE z \in Fault(y, "meter", b, TRUE)
  <2>1. z.d = b /\ z.ok
    BY <1>7, ResultsAre
  <2>2. QED
    BY <1>2, <1>3, <2>1
<1>8. CASE z \in Fault(y, "attach", y.d, FALSE)
  <2>1. z.d = y.d /\ ~ z.ok /\ z.left < y.left
    BY <1>8, ResultsAre
  <2>2. QED
    BY <2>1
<1>9. QED
  BY <1>4, <1>5, <1>6, <1>7, <1>8

\* eswitch_pipeline_detach_port, if the meter goes with the rule.
LEMMA DetachServes ==
  ASSUME Undoable, NEW y \in Outcome, y.ok, NEW p \in Port, NEW P, UplinksAre(y.d, P),
         NEW z \in eswitch_pipeline_detach_port(y, p)
  PROVE  /\ z.d.rif = y.d.rif
         /\ z.ok => UplinksAre(z.d, P \ {p})
         /\ ~ z.ok => UplinksAre(z.d, P)
         /\ z.ok \/ z.left < y.left
<1> DEFINE a == [y.d EXCEPT !.up[p] = {}]
<1>1. y.d \in Switch
  BY DEF Outcome
<1>2. a.rif = y.d.rif /\ a.up[p] = {} /\ \A q \in Port \ {p} : a.up[q] = y.d.up[q]
  BY <1>1 DEF Switch
<1>3. UplinksAre(a, P \ {p})
  <2> HIDE DEF a
  <2>1. QED
    BY <1>2 DEF UplinksAre
<1>4. \A d : Fault(y, "unmeter", d, FALSE) = {}
  BY DEF Fault, Undoable
<1>5. z \in Ok(y, a) \/ z \in Fault(y, "detach", y.d, FALSE)
  BY <1>4 DEF eswitch_pipeline_detach_port
<1> HIDE DEF a
<1>6. CASE z \in Ok(y, a)
  <2>1. z.d = a /\ z.ok = y.ok
    BY <1>6, ResultsAre
  <2>2. QED
    BY <1>2, <1>3, <2>1
<1>7. CASE z \in Fault(y, "detach", y.d, FALSE)
  <2>1. z.d = y.d /\ ~ z.ok /\ z.left < y.left
    BY <1>7, ResultsAre
  <2>2. QED
    BY <2>1
<1>8. QED
  BY <1>5, <1>6, <1>7

\* Two contexts that differ in their eligibility at most.
Alike(x, y) ==
  /\ y.id = x.id /\ y.acl = x.acl /\ y.deny = x.deny
  /\ y.parts \ {"elig"} = x.parts \ {"elig"}

AllAlike(d, e) == e.up = d.up /\ \A r \in Rif : Alike(d.rif[r], e.rif[r])

\* Such contexts serve the same.
LEMMA AlikeServed ==
  ASSUME NEW x, NEW y \in Context, Proper(y), Alike(x, y), NEW c, NEW r
  PROVE  /\ x = Unbound => y = Unbound
         /\ Held(x, c, r) => Held(y, c, r)
         /\ AclServed(x, c, r) => AclServed(y, c, r)
         /\ DenyServed(x, c, r) => DenyServed(y, c, r)
<1>1. x = Unbound => y = Unbound
  <2>1. SUFFICES ASSUME x = Unbound PROVE y = Unbound
    OBVIOUS
  <2>2. y.id = None /\ y.acl = None /\ y.deny = None
    BY <2>1 DEF Alike, Unbound
  <2>3. y.parts = {}
    BY <2>2 DEF Proper
  <2>4. y = [id |-> y.id, parts |-> y.parts, acl |-> y.acl, deny |-> y.deny]
    BY DEF Context
  <2>5. QED
    BY ONLY <2>2, <2>3, <2>4 DEF Unbound
<1>2. QED
  BY <1>1 DEF Alike, Held, AclServed, DenyServed

\* eswitch_pipeline_hw_routes_sync changes no context but its eligibility.
LEMMA HwSyncAlike ==
  ASSUME NEW o \in Outcome, NEW R, NEW z \in eswitch_pipeline_hw_routes_sync(o, R)
  PROVE  AllAlike(o.d, z.d) /\ (o.ok => z.ok \/ z.left < o.left)
<1> DEFINE d == o.d
           missing == {r \in Active(d) : "elig" \notin d.rif[r].parts}
           Some(S) == [r \in Rif |-> IF r \in S THEN [d.rif[r] EXCEPT !.parts = @ \union {"elig"}]
                                     ELSE d.rif[r]]
           none == [r \in Rif |-> [d.rif[r] EXCEPT !.parts = @ \ {"elig"}]]
           Below(s) == {r \in missing : r < s}
           a == WithRoutes(d, Some(Active(d)), R, FALSE)
           b(H) == WithRoutes(d, none, H, TRUE)
           e(s) == WithRoutes(d, Some(Below(s)), R, TRUE)
           X == UNION {Fault(o, "route", b(H), FALSE) : H \in BrokenPlans(d, R)}
           Y == UNION {Fault(o, "elig", e(s), FALSE) : s \in missing}
<1>1. d \in Switch
  BY DEF Outcome
<1>2. \/ z \in Ok(o, a) \/ \E H \in BrokenPlans(d, R) : z \in Fault(o, "route", b(H), FALSE)
      \/ \E s \in missing : z \in Fault(o, "elig", e(s), FALSE)
  <2>1. eswitch_pipeline_hw_routes_sync(o, R) = Ok(o, a) \union X \union Y
    BY <1>1 DEF eswitch_pipeline_hw_routes_sync, WithElig, Ineligible, WithRoutes, Switch
  <2> HIDE DEF a, b, e, missing, d
  <2>2. QED
    BY <2>1
<1>3. ASSUME NEW S PROVE \A r \in Rif : Alike(d.rif[r], Some(S)[r])
  <2>1. \A r \in Rif : d.rif[r] \in Context
    BY <1>1 DEF Switch
  <2>2. ASSUME NEW r \in Rif PROVE Alike(d.rif[r], Some(S)[r])
    BY <2>1 DEF Alike, Context
  <2>3. QED
    BY <2>2
<1>4. \A r \in Rif : Alike(d.rif[r], none[r])
  <2>1. \A r \in Rif : d.rif[r] \in Context
    BY <1>1 DEF Switch
  <2>2. ASSUME NEW r \in Rif PROVE Alike(d.rif[r], none[r])
    BY <2>1 DEF Alike, Context
  <2>3. QED
    BY <2>2
<1>5. ASSUME NEW f, NEW H, NEW g, \A r \in Rif : Alike(d.rif[r], f[r])
      PROVE  AllAlike(d, WithRoutes(d, f, H, g))
  <2>1. WithRoutes(d, f, H, g).rif = f /\ WithRoutes(d, f, H, g).up = d.up
    BY <1>1 DEF WithRoutes, Switch
  <2>2. QED
    BY <1>5, <2>1 DEF AllAlike
<1> HIDE DEF Some, none, missing, Below, d
<1>6. CASE z \in Ok(o, a)
  <2>1. AllAlike(d, a)
    BY <1>3, <1>5
  <2> HIDE DEF a
  <2>2. z.d = a /\ z.ok = o.ok
    BY <1>6 DEF Ok, Outcome
  <2>3. QED
    BY <2>1, <2>2 DEF d
<1>7. CASE \E H \in BrokenPlans(d, R) : z \in Fault(o, "route", b(H), FALSE)
  <2>1. PICK H : z \in Fault(o, "route", b(H), FALSE)
    BY <1>7
  <2>2. AllAlike(d, b(H))
    BY <1>4, <1>5
  <2> HIDE DEF b
  <2>3. PICK h : AllAlike(d, h) /\ z \in Fault(o, "route", h, FALSE)
    BY <2>1, <2>2
  <2>4. o \in Outcome /\ z \in Fault(o, "route", h, FALSE)
    BY <2>3
  <2>5. z.d = h /\ ~ z.ok /\ z.left < o.left
    BY ONLY <2>4, FaultIs, Zenon
  <2>6. QED
    BY <2>3, <2>5 DEF d
<1>8. CASE \E s \in missing : z \in Fault(o, "elig", e(s), FALSE)
  <2>1. PICK s : z \in Fault(o, "elig", e(s), FALSE)
    BY <1>8
  <2>2. AllAlike(d, e(s))
    BY <1>3, <1>5
  <2> HIDE DEF e
  <2>3. PICK h : AllAlike(d, h) /\ z \in Fault(o, "elig", h, FALSE)
    BY <2>1, <2>2
  <2>4. o \in Outcome /\ z \in Fault(o, "elig", h, FALSE)
    BY <2>3
  <2>5. z.d = h /\ ~ z.ok /\ z.left < o.left
    BY ONLY <2>4, FaultIs, Zenon
  <2>6. QED
    BY <2>3, <2>5 DEF d
<1>9. QED
  BY <1>2, <1>6, <1>7, <1>8

-----------------------------------------------------------------------------
(***************************************************************************)
(* The invariant: how far each step has taken the switch from what the old *)
(* configuration asks for to what the new one does, and that the rollback  *)
(* finds whatever it must forget.                                          *)
(***************************************************************************)
\* A RIF that the candidate lacks is not bound.
Forgettable(d, new) == \A r \in Rif : new.rif[r] = None => d.rif[r] = Unbound

\* The uplinks with a rule when the ports in D have been moved.
PortsNow(D, old, new) ==
  (PortsOf(old) \ IF "detached" \in D THEN PortsOf(old) \ PortsOf(new) ELSE {})
     \union IF "attached" \in D THEN PortsOf(new) \ PortsOf(old) ELSE {}

StageAt(p, d, old, new) ==
  /\ p \in {"flush", "detach", "attach", "invalidate"} => AllServed(d, old)
  /\ p = "prearm" => AllReady(d, new)
  /\ p = "acl" => AllHeld(d, new)
  /\ p = "deny" => AllAcl(d, new)
  /\ p \in {"hw", "save", "publish"} => AllServed(d, new)

BeforeAttach == {"attach", "invalidate", "prearm", "acl", "deny", "hw", "save", "publish"}

Between(p, D, d, old, new) ==
  /\ UplinksAre(d, PortsNow(D, old, new))
  /\ p \in {"flush", "detach"} => D = {}
  /\ p \in BeforeAttach => "detached" \in D \/ PortsOf(old) \subseteq PortsOf(new)
  /\ p \in BeforeAttach \ {"attach"} => "attached" \in D \/ PortsOf(new) \subseteq PortsOf(old)
  /\ Forgettable(d, new)
  /\ StageAt(p, d, old, new)

ServeInv ==
  /\ pc = "idle" /\ ~ twice => UplinksAre(dp, PortsOf(router)) /\ AllServed(dp, router)
  /\ pc \in Steps \union {"publish"} => ~ twice /\ Between(pc, done, dp, router, cand)
  /\ pc \in Steps => OneCommand(router, cand) /\ Cardinality(Adrs(router)) <= MaxContexts

\* A command changes one RIF, never its attachment, and detaches only one
\* that has no address.
LEMMA OneChange ==
  ASSUME NEW c \in Configs, NEW d \in Configs, OneCommand(c, d)
  PROVE  /\ \E r : \A s \in Rif : s # r => d.rif[s] = c.rif[s]
         /\ \A s \in Rif : /\ c.rif[s] # None /\ d.rif[s] # None => d.rif[s].at = c.rif[s].at
                           /\ d.rif[s] = None => s \notin Adrs(c)
<1>1. CASE RifCommand(c, d)
  <2>1. PICK r \in Rif :
          /\ \A s \in Rif \ {r} : c.rif[s] = d.rif[s]
          /\ \/ c.rif[r] = None /\ d.rif[r] # None
             \/ d.rif[r] = None /\ ~ c.rif[r].addressed
             \/ /\ c.rif[r] # None /\ d.rif[r] # None
                /\ \/ d.rif[r] = [c.rif[r] EXCEPT !.mac = d.rif[r].mac]
                   \/ d.rif[r] = [c.rif[r] EXCEPT !.addressed = ~ c.rif[r].addressed]
    BY <1>1 DEF RifCommand, Bare
  <2>2. c.rif[r] # None /\ d.rif[r] # None => d.rif[r].at = c.rif[r].at
    <3>1. SUFFICES ASSUME c.rif[r] # None, d.rif[r] # None PROVE d.rif[r].at = c.rif[r].at
      OBVIOUS
    <3>2. "at" \in DOMAIN c.rif[r]
      BY <3>1, TxAssumption
    <3>3. \/ d.rif[r] = [c.rif[r] EXCEPT !.mac = d.rif[r].mac]
          \/ d.rif[r] = [c.rif[r] EXCEPT !.addressed = ~ c.rif[r].addressed]
      BY <2>1, <3>1
    <3>4. QED
      BY <3>2, <3>3
  <2>3. d.rif[r] = None => r \notin Adrs(c)
    BY <2>1 DEF Adrs
  <2>4. ASSUME NEW s \in Rif, s # r PROVE d.rif[s] = c.rif[s]
    BY <2>1, <2>4
  <2>5. QED
    BY <2>2, <2>3, <2>4 DEF Adrs
<1>2. CASE PolicyCommand(c, d) \/ RouteCommand(c, d)
  <2>1. "rif" \in DOMAIN c
    BY TxAssumption
  <2>2. d.rif = c.rif
    BY <1>2, <2>1 DEF PolicyCommand, RouteCommand
  <2>3. QED
    BY <2>2 DEF Adrs
<1>3. QED
  BY <1>1, <1>2 DEF OneCommand

\* A command moves at most one port.
LEMMA OnePort ==
  ASSUME NEW c \in Configs, NEW d \in Configs, OneCommand(c, d)
  PROVE  /\ \A p, q \in PortsOf(c) \ PortsOf(d) : p = q
         /\ \A p, q \in PortsOf(d) \ PortsOf(c) : p = q
<1>1. PICK r : \A s \in Rif : s # r => d.rif[s] = c.rif[s]
  BY OneChange
<1>2. \A s \in Rif : c.rif[s] # None /\ d.rif[s] # None => d.rif[s].at = c.rif[s].at
  BY OneChange
<1>3. ASSUME NEW p \in PortsOf(c) \ PortsOf(d) PROVE p = c.rif[r].at
  <2>1. PICK s \in Rif : c.rif[s] # None /\ p = c.rif[s].at
    BY DEF PortsOf
  <2>2. d.rif[s] = None
    BY <1>2, <2>1 DEF PortsOf
  <2>3. QED
    BY <1>1, <2>1, <2>2
<1>4. ASSUME NEW p \in PortsOf(d) \ PortsOf(c) PROVE p = d.rif[r].at
  <2>1. PICK s \in Rif : d.rif[s] # None /\ p = d.rif[s].at
    BY DEF PortsOf
  <2>2. c.rif[s] = None
    BY <1>2, <2>1 DEF PortsOf
  <2>3. QED
    BY <1>1, <2>1, <2>2
<1>5. QED
  BY <1>3, <1>4

\* The port that a command moves.
LEMMA TheMoved ==
  ASSUME router \in Configs, cand \in Configs, OneCommand(router, cand)
  PROVE  /\ Removed # {} => Removed = {The(Removed)} /\ The(Removed) \in Port
         /\ Added # {} => Added = {The(Added)} /\ The(Added) \in Port
<1>1. /\ \A p, q \in Removed : p = q
      /\ \A p, q \in Added : p = q
  BY OnePort DEF Removed, Added
<1>2. \A S : S # {} => (CHOOSE p \in S : TRUE) \in S
  OBVIOUS
<1>3. /\ Removed # {} => The(Removed) \in Removed
      /\ Added # {} => The(Added) \in Added
  BY <1>2 DEF The
<1>4. QED
  BY <1>1, <1>3, MovedPorts

\* Later stages include earlier ones, and each can be undone.
LEMMA Stages ==
  ASSUME NEW d, NEW c
  PROVE  /\ AllServed(d, c) => AllAcl(d, c)
         /\ AllAcl(d, c) => AllHeld(d, c)
         /\ AllHeld(d, c) => AllReady(d, c)
         /\ AllReady(d, c) => Forgettable(d, c)
<1>1. AllReady(d, c) => Forgettable(d, c)
  BY DEF AllReady, Forgettable, Ready, Held, Adrs
<1>2. QED
  BY <1>1 DEF AllServed, AllAcl, AllHeld, AllReady, Served, Ready

LEMMA OldServed ==
  ASSUME NEW old \in Configs, NEW new \in Configs, OneCommand(old, new), NEW d, AllServed(d, old)
  PROVE  Forgettable(d, new)
<1>1. \A r \in Rif : new.rif[r] = None => r \notin Adrs(old)
  BY OneChange
<1>2. QED
  BY <1>1 DEF AllServed, Served, Held, Forgettable

\* A step of a command.
LEMMA StepServes ==
  ASSUME TxInv, ServeInv, NEW from \in Before \union {"hw"}, NEW to \in Behind \union {"save"}, NEW S,
         RunStep(from, to, S), NEW D, done' = D,
         \A o \in S : Between(IF o.ok THEN to ELSE "undo", D, o.d, router, cand)
  PROVE  ServeInv'
<1>1. PICK o \in S : dp' = o.d /\ pc' = IF o.ok THEN to ELSE "undo"
  BY DEF RunStep
<1>2. pc = from /\ UNCHANGED <<file, router, cand, nb, twice>>
  BY DEF RunStep
<1>3. pc \in Steps /\ pc' \in Steps /\ pc' # "idle"
  BY <1>1, <1>2 DEF Before, Behind, Steps
<1>4. ~ twice /\ OneCommand(router, cand) /\ Cardinality(Adrs(router)) <= MaxContexts
  BY <1>3 DEF ServeInv
<1>5. Between(pc', done', dp', router, cand)
  BY <1>1
<1>6. QED
  BY <1>2, <1>3, <1>4, <1>5 DEF ServeInv

\* What a step starts from.
LEMMA StepStarts ==
  ASSUME TxInv, ServeInv, pc \in Before \union {"hw", "save", "undo"}
  PROVE  /\ router \in Configs /\ cand \in Configs /\ OneCommand(router, cand)
         /\ Between(pc, done, dp, router, cand) /\ ~ twice /\ Cardinality(Adrs(router)) <= MaxContexts
         /\ Now \in Outcome /\ Now.ok /\ Now.d = dp /\ Now.left = left /\ Fits(dp) /\ Fits(Now.d)
<1>1. pc \in Steps /\ pc # "down"
  BY DEF Before, Steps
<1>2. Now.ok
  BY DEF Now
<1>3. QED
  BY <1>1, <1>2, NowOK DEF TxInv, MemoryOK, StateOK, ServeInv

\* Steps that leave the uplinks alone.
LEMMA SamePorts ==
  ASSUME NEW p, NEW q, NEW D, NEW d, NEW e, NEW old, NEW new, Between(p, D, d, old, new), e.up = d.up,
         p \in BeforeAttach \ {"attach"},
         q = "undo" \/ (q \in BeforeAttach /\ StageAt(q, e, old, new)), Forgettable(e, new)
  PROVE  Between(q, D, e, old, new)
<1>1. UplinksAre(e, PortsNow(D, old, new))
  BY DEF Between, UplinksAre
<1>2. StageAt("undo", e, old, new)
  BY DEF StageAt
<1>3. q \notin {"flush", "detach"} /\ "undo" \notin BeforeAttach
  BY DEF BeforeAttach
<1>4. QED
  BY <1>1, <1>2, <1>3 DEF Between

\* Flush.
LEMMA FlushServes == ASSUME TxInv, ServeInv, Flush PROVE ServeInv'
<1> DEFINE S == {Now} \union Fault(Now, "flush", dp, FALSE)
<1>1. RunStep("flush", "detach", S) /\ done' = done
  BY DEF Flush
<1>2. pc = "flush"
  BY <1>1 DEF RunStep
<1>3. Between("flush", done, dp, router, cand) /\ Now \in Outcome /\ Now.d = dp /\ Now.ok
  BY <1>2, StepStarts DEF Before
<1>4. ASSUME NEW o \in S PROVE Between(IF o.ok THEN "detach" ELSE "undo", done, o.d, router, cand)
  <2>1. o.d = dp
    BY <1>3, ResultsAre
  <2>2. QED
    BY <1>3, <2>1 DEF Between, StageAt, BeforeAttach
<1> HIDE DEF S
<1>5. "flush" \in Before \union {"hw"} /\ "detach" \in Behind \union {"save"}
  BY DEF Before, Behind
<1>6. QED
  BY <1>1, <1>4, <1>5, StepServes

\* Detach.
LEMMA DetachStepServes == ASSUME Undoable, TxInv, ServeInv, Detach PROVE ServeInv'
<1> DEFINE S == IF Removed = {} THEN {Now} ELSE eswitch_pipeline_detach_port(Now, The(Removed))
           D(o) == IF Removed # {} /\ o.ok THEN {"detached"} ELSE {}
<1>1. RunStep("detach", "attach", S) /\ done' = IF Removed # {} /\ pc' = "attach" THEN {"detached"} ELSE {}
  BY DEF Detach
<1>2. pc = "detach"
  BY <1>1 DEF RunStep
<1>3. /\ Between("detach", done, dp, router, cand) /\ Now \in Outcome /\ Now.d = dp /\ Now.ok
      /\ router \in Configs /\ cand \in Configs /\ OneCommand(router, cand)
  BY <1>2, StepStarts DEF Before
<1>4. UplinksAre(dp, PortsOf(router)) /\ AllServed(dp, router)
  BY <1>3 DEF Between, StageAt, PortsNow
<1>5. ASSUME NEW o \in S PROVE Between(IF o.ok THEN "attach" ELSE "undo", D(o), o.d, router, cand)
  <2>1. /\ o.d.rif = dp.rif
        /\ UplinksAre(o.d, PortsNow(D(o), router, cand))
    <3>1. CASE Removed = {}
      BY <1>3, <1>4, <3>1 DEF PortsNow
    <3>2. CASE Removed # {}
      <4>1. Removed = {The(Removed)} /\ The(Removed) \in Port
        BY <1>3, <3>2, TheMoved
      <4>2. o \in eswitch_pipeline_detach_port(Now, The(Removed))
        BY <3>2
      <4>3. /\ o.d.rif = dp.rif
            /\ o.ok => UplinksAre(o.d, PortsOf(router) \ {The(Removed)})
            /\ ~ o.ok => UplinksAre(o.d, PortsOf(router))
        BY <1>3, <1>4, <4>1, <4>2, DetachServes
      <4>4. /\ PortsNow({"detached"}, router, cand) = PortsOf(router) \ {The(Removed)}
            /\ PortsNow({}, router, cand) = PortsOf(router)
        BY <4>1 DEF PortsNow, Removed
      <4>5. QED
        BY <3>2, <4>3, <4>4
    <3>3. QED
      BY <3>1, <3>2
  <2>2. AllServed(o.d, router)
    BY <1>4, <2>1 DEF AllServed
  <2>3. Forgettable(o.d, cand)
    BY <1>3, <2>2, OldServed
  <2>4. o.ok => "detached" \in D(o) \/ PortsOf(router) \subseteq PortsOf(cand)
    BY DEF Removed
  <2> HIDE DEF D
  <2>5. QED
    BY <2>1, <2>2, <2>3, <2>4 DEF Between, StageAt, BeforeAttach
<1>6. PICK o \in S : dp' = o.d /\ left' = o.left /\ pc' = IF o.ok THEN "attach" ELSE "undo"
  BY <1>1 DEF RunStep
<1>7. done' = D(o)
  BY <1>1, <1>6
<1>8. RunStep("detach", "attach", {o})
  BY <1>1, <1>6 DEF RunStep
<1> HIDE DEF S, D
<1>9. "detach" \in Before \union {"hw"} /\ "attach" \in Behind \union {"save"}
  BY DEF Before, Behind
<1>10. QED
  BY <1>5, <1>7, <1>8, <1>9, StepServes

\* Attach.
LEMMA AttachStepServes == ASSUME TxInv, ServeInv, Attach PROVE ServeInv'
<1> DEFINE S == IF Added = {} THEN {Now} ELSE eswitch_pipeline_attach_router_port(Now, The(Added))
           D(o) == done \union IF Added # {} /\ o.ok THEN {"attached"} ELSE {}
           P == PortsNow(done, router, cand)
<1>1. /\ RunStep("attach", "invalidate", S)
      /\ done' = done \union IF Added # {} /\ pc' = "invalidate" THEN {"attached"} ELSE {}
  BY DEF Attach
<1>2. pc = "attach"
  BY <1>1 DEF RunStep
<1>3. /\ Between("attach", done, dp, router, cand) /\ Now \in Outcome /\ Now.d = dp /\ Now.ok
      /\ router \in Configs /\ cand \in Configs /\ OneCommand(router, cand)
  BY <1>2, StepStarts DEF Before
<1>4. /\ UplinksAre(dp, P) /\ AllServed(dp, router)
      /\ "detached" \in done \/ PortsOf(router) \subseteq PortsOf(cand)
  BY <1>3 DEF Between, StageAt, BeforeAttach
<1>5. ASSUME NEW o \in S PROVE Between(IF o.ok THEN "invalidate" ELSE "undo", D(o), o.d, router, cand)
  <2>1. /\ o.d.rif = dp.rif
        /\ UplinksAre(o.d, PortsNow(D(o), router, cand))
    <3>1. CASE Added = {}
      BY <1>3, <1>4, <3>1
    <3>2. CASE Added # {}
      <4>1. Added = {The(Added)} /\ The(Added) \in Port
        BY <1>3, <3>2, TheMoved
      <4>2. o \in eswitch_pipeline_attach_router_port(Now, The(Added))
        BY <3>2
      <4> HIDE DEF P
      <4>3. /\ o.d.rif = dp.rif
            /\ o.ok => UplinksAre(o.d, P \union {The(Added)})
            /\ ~ o.ok => UplinksAre(o.d, P)
        BY <1>3, <1>4, <4>1, <4>2, AttachServes
      <4>4. PortsNow(done \union {"attached"}, router, cand) = P \union {The(Added)}
        BY <4>1 DEF P, PortsNow, Added
      <4>5. CASE o.ok
        <5>1. D(o) = done \union {"attached"}
          BY <3>2, <4>5
        <5>2. QED
          BY <4>3, <4>4, <4>5, <5>1
      <4>6. CASE ~ o.ok
        <5>1. D(o) = done
          BY <4>6
        <5>2. QED
          BY <4>3, <4>6, <5>1 DEF P
      <4>7. QED
        BY <4>5, <4>6
    <3>3. QED
      BY <3>1, <3>2
  <2>2. AllServed(o.d, router)
    BY <1>4, <2>1 DEF AllServed
  <2>3. Forgettable(o.d, cand)
    BY <1>3, <2>2, OldServed
  <2>4. /\ "detached" \in D(o) \/ PortsOf(router) \subseteq PortsOf(cand)
        /\ o.ok => "attached" \in D(o) \/ PortsOf(cand) \subseteq PortsOf(router)
    BY <1>4 DEF Added
  <2> HIDE DEF D
  <2>5. QED
    BY <2>1, <2>2, <2>3, <2>4 DEF Between, StageAt, BeforeAttach
<1>6. PICK o \in S : dp' = o.d /\ left' = o.left /\ pc' = IF o.ok THEN "invalidate" ELSE "undo"
  BY <1>1 DEF RunStep
<1>7. done' = D(o)
  BY <1>1, <1>6
<1>8. RunStep("attach", "invalidate", {o})
  BY <1>1, <1>6 DEF RunStep
<1> HIDE DEF S, D
<1>9. "attach" \in Before \union {"hw"} /\ "invalidate" \in Behind \union {"save"}
  BY DEF Before, Behind
<1>10. QED
  BY <1>5, <1>7, <1>8, <1>9, StepServes

\* A step that moves no port takes the switch to its next stage.
LEMMA LaterServes ==
  ASSUME TxInv, ServeInv, NEW from \in (Before \union {"hw"}) \ {"flush", "detach", "attach"},
         NEW to \in (Behind \union {"save"}) \ {"detach", "attach"}, NEW S,
         RunStep(from, to, S), done' = done,
         \A o \in S : /\ o.d.up = dp.up /\ Forgettable(o.d, cand)
                      /\ o.ok => StageAt(to, o.d, router, cand)
  PROVE  ServeInv'
<1>1. pc = from
  BY DEF RunStep
<1>2. Between(from, done, dp, router, cand)
  BY <1>1, StepStarts
<1>3. from \in BeforeAttach \ {"attach"} /\ to \in BeforeAttach
  BY DEF Before, Behind, BeforeAttach
<1>4. ASSUME NEW o \in S PROVE Between(IF o.ok THEN to ELSE "undo", done, o.d, router, cand)
  <2>1. o.d.up = dp.up /\ Forgettable(o.d, cand) /\ (o.ok => StageAt(to, o.d, router, cand))
    OBVIOUS
  <2>2. CASE o.ok
    <3>1. Between(to, done, o.d, router, cand)
      BY <1>2, <1>3, <2>1, <2>2, SamePorts
    <3>2. QED
      BY <2>2, <3>1
  <2>3. CASE ~ o.ok
    <3>1. Between("undo", done, o.d, router, cand)
      BY <1>2, <1>3, <2>1, SamePorts
    <3>2. QED
      BY <2>3, <3>1
  <2>4. QED
    BY <2>2, <2>3
<1>5. from \in Before \union {"hw"} /\ to \in Behind \union {"save"}
  OBVIOUS
<1>6. QED
  BY <1>4, <1>5, StepServes

\* invalidate_changed_rifs.
LEMMA InvalidateServes == ASSUME TxInv, ServeInv, invalidate_changed_rifs PROVE ServeInv'
<1> DEFINE T == {r \in Rif : router.rif[r] # None /\ cand.rif[r] # router.rif[r]}
           S == ForEach(T, Now, "unbind", cand)
           B == [r \in Rif |-> {x \in Context : Ready(x, cand, r)}]
           C == [r \in Rif |-> {x \in Context : cand.rif[r] = None => x = Unbound}]
<1>1. RunStep("invalidate", "prearm", S) /\ done' = done
  BY DEF invalidate_changed_rifs
<1>2. pc = "invalidate"
  BY <1>1 DEF RunStep
<1>3. /\ Between("invalidate", done, dp, router, cand) /\ Now \in Outcome /\ Now.d = dp /\ Now.ok
      /\ router \in Configs /\ cand \in Configs /\ OneCommand(router, cand) /\ Fits(Now.d)
  BY <1>2, StepStarts DEF Before
<1>4. AllServed(dp, router) /\ Forgettable(dp, cand)
  BY <1>3 DEF Between, StageAt
<1>5. \A r \in Rif : \A x : /\ x \in B[r] <=> (x \in Context /\ Ready(x, cand, r))
                            /\ x \in C[r] <=> (x \in Context /\ (cand.rif[r] = None => x = Unbound))
  OBVIOUS
<1> HIDE DEF B, C
<1>6. \A y \in Outcome, r \in Rif : y.d.rif[r] \in Context
  BY DEF Outcome, Switch
<1>7. Allowed("unbind", T, cand)
  BY DEF Allowed
<1>8. \A r \in Rif : Now.d.rif[r] \in C[r] /\ (r \notin T => Now.d.rif[r] \in B[r])
  <2>1. ASSUME NEW r \in Rif, r \notin T PROVE Ready(dp.rif[r], cand, r)
    <3>1. Held(dp.rif[r], router, r)
      BY <1>4 DEF AllServed, Served
    <3>2. CASE router.rif[r] = None
      BY <3>1, <3>2 DEF Held, Adrs, Ready
    <3>3. CASE cand.rif[r] = router.rif[r]
      BY <3>1, <3>3 DEF Held, Adrs, Ready
    <3>4. QED
      BY <2>1, <3>2, <3>3
  <2>2. QED
    BY <1>3, <1>4, <1>5, <1>6, <2>1 DEF Forgettable
<1>9. ASSUME NEW r \in Rif, NEW y \in After(Now), NEW w \in Turn("unbind", y, cand, r),
             y.ok, \A s \in Rif : y.d.rif[s] \in C[s]
      PROVE  Turned(y, w, r, B[r], C[r])
  <2>1. y \in Outcome /\ Fits(y.d)
    BY DEF After
  <2>2. w \in eswitch_pipeline_sf_unbind_rif(y, r)
    BY DEF Turn
  <2>3. /\ w.d.up = y.d.up /\ \A s \in Rif \ {r} : w.d.rif[s] = y.d.rif[s]
        /\ w.ok => w.d.rif[r] = Unbound
        /\ w.ok \/ w.left < y.left
        /\ y.d.rif[r] = Unbound => w.d.rif[r] = Unbound
    BY <1>9, <2>1, <2>2, UnbindTurn
  <2>4. w.d.rif[r] \in Context
    BY <1>6, <2>1, <2>2, UnbindOK DEF After
  <2>5. QED
    BY <1>5, <1>9, <2>3, <2>4 DEF Turned, Ready
<1>10. AllTurn(T, Now, "unbind", cand, B, C)
  BY <1>9 DEF AllTurn
<1> HIDE DEF T
<1>11. ASSUME NEW o \in S
       PROVE  /\ o.d.up = dp.up /\ Forgettable(o.d, cand)
              /\ o.ok => StageAt("prearm", o.d, router, cand)
  <2>1. Ends(Now, o, B, C)
    BY <1>3, <1>7, <1>8, <1>10, LoopServes
  <2>2. o.d.up = dp.up /\ Forgettable(o.d, cand)
    BY <1>3, <1>5, <2>1 DEF Ends, Forgettable
  <2>3. o.ok => AllReady(o.d, cand)
    BY <1>5, <2>1 DEF Ends, AllReady
  <2>4. QED
    BY <2>2, <2>3 DEF StageAt
<1> HIDE DEF S
<1>12. /\ "invalidate" \in (Before \union {"hw"}) \ {"flush", "detach", "attach"}
       /\ "prearm" \in (Behind \union {"save"}) \ {"detach", "attach"}
  BY DEF Before, Behind
<1>13. QED
  BY <1>1, <1>11, <1>12, LaterServes

\* Prearm.
LEMMA PrearmStepServes == ASSUME TxInv, ServeInv, Prearm PROVE ServeInv'
<1> DEFINE S == eswitch_manager_router_prearm(Now, cand)
<1>1. RunStep("prearm", "acl", S) /\ done' = done
  BY DEF Prearm
<1>2. pc = "prearm"
  BY <1>1 DEF RunStep
<1>3. /\ Between("prearm", done, dp, router, cand) /\ Now \in Outcome /\ Now.d = dp /\ Now.ok
      /\ cand \in Configs /\ Fits(Now.d)
  BY <1>2, StepStarts DEF Before
<1>4. AllReady(Now.d, cand)
  BY <1>3 DEF Between, StageAt
<1>5. ASSUME NEW o \in S
      PROVE  /\ o.d.up = dp.up /\ Forgettable(o.d, cand)
             /\ o.ok => StageAt("acl", o.d, router, cand)
  <2>1. o.d.up = Now.d.up /\ AllReady(o.d, cand) /\ (o.ok => AllHeld(o.d, cand))
    BY <1>3, <1>4, PrearmServes
  <2>2. QED
    BY <1>3, <2>1, Stages DEF StageAt
<1> HIDE DEF S
<1>6. /\ "prearm" \in (Before \union {"hw"}) \ {"flush", "detach", "attach"}
      /\ "acl" \in (Behind \union {"save"}) \ {"detach", "attach"}
  BY DEF Before, Behind
<1>7. QED
  BY <1>1, <1>5, <1>6, LaterServes

\* AclSync.
LEMMA AclSyncStepServes == ASSUME TxInv, ServeInv, AclSync PROVE ServeInv'
<1> DEFINE S == eswitch_pipeline_egress_acl_sync(Now, cand)
<1>1. RunStep("acl", "deny", S) /\ done' = done
  BY DEF AclSync
<1>2. pc = "acl"
  BY <1>1 DEF RunStep
<1>3. /\ Between("acl", done, dp, router, cand) /\ Now \in Outcome /\ Now.d = dp /\ Now.ok
      /\ cand \in Configs /\ Fits(Now.d)
  BY <1>2, StepStarts DEF Before
<1>4. AllHeld(Now.d, cand)
  BY <1>3 DEF Between, StageAt
<1>5. ASSUME NEW o \in S
      PROVE  /\ o.d.up = dp.up /\ Forgettable(o.d, cand)
             /\ o.ok => StageAt("deny", o.d, router, cand)
  <2>1. o.d.up = Now.d.up /\ AllHeld(o.d, cand) /\ (o.ok => AllAcl(o.d, cand))
    BY <1>3, <1>4, AclServes
  <2>2. QED
    BY <1>3, <2>1, Stages DEF StageAt
<1> HIDE DEF S
<1>6. /\ "acl" \in (Before \union {"hw"}) \ {"flush", "detach", "attach"}
      /\ "deny" \in (Behind \union {"save"}) \ {"detach", "attach"}
  BY DEF Before, Behind
<1>7. QED
  BY <1>1, <1>5, <1>6, LaterServes

\* DenySync.
LEMMA DenySyncStepServes == ASSUME TxInv, ServeInv, DenySync PROVE ServeInv'
<1> DEFINE S == eswitch_pipeline_ingress_deny_sync(Now, cand)
<1>1. RunStep("deny", "hw", S) /\ done' = done
  BY DEF DenySync
<1>2. pc = "deny"
  BY <1>1 DEF RunStep
<1>3. /\ Between("deny", done, dp, router, cand) /\ Now \in Outcome /\ Now.d = dp /\ Now.ok
      /\ cand \in Configs /\ Fits(Now.d)
  BY <1>2, StepStarts DEF Before
<1>4. AllAcl(Now.d, cand)
  BY <1>3 DEF Between, StageAt
<1>5. ASSUME NEW o \in S
      PROVE  /\ o.d.up = dp.up /\ Forgettable(o.d, cand)
             /\ o.ok => StageAt("hw", o.d, router, cand)
  <2>1. o.d.up = Now.d.up /\ AllAcl(o.d, cand) /\ (o.ok => AllServed(o.d, cand))
    BY <1>3, <1>4, DenyServes
  <2>2. QED
    BY <1>3, <2>1, Stages DEF StageAt
<1> HIDE DEF S
<1>6. /\ "deny" \in (Before \union {"hw"}) \ {"flush", "detach", "attach"}
      /\ "hw" \in (Behind \union {"save"}) \ {"detach", "attach"}
  BY DEF Before, Behind
<1>7. QED
  BY <1>1, <1>5, <1>6, LaterServes

\* The routes change no context but its eligibility, whoever synchronises.
LEMMA SyncAlike ==
  ASSUME NEW o \in Outcome, Fits(o.d), o.ok, NEW R \in SUBSET HwRoutes,
         NEW z \in SyncCandidate(o, R) \union SyncActive(o, R)
  PROVE  AllAlike(o.d, z.d)
<1> DEFINE X == eswitch_pipeline_hw_routes_sync(o, R)
<1>1. AllAlike(o.d, o.d)
  BY DEF AllAlike, Alike
<1>2. ASSUME NEW y \in X, NEW b PROVE AllAlike(o.d, y.d) /\ AllAlike(o.d, [y EXCEPT !.d.backoff = b].d)
  <2>1. y \in Outcome /\ AllAlike(o.d, y.d)
    BY HwSyncOK, HwSyncAlike DEF Synced
  <2>2. [y EXCEPT !.d.backoff = b].d = [y.d EXCEPT !.backoff = b]
    BY <2>1 DEF Outcome
  <2>3. [y.d EXCEPT !.backoff = b].up = y.d.up /\ [y.d EXCEPT !.backoff = b].rif = y.d.rif
    BY <2>1 DEF Outcome, Switch
  <2>4. QED
    BY <2>1, <2>2, <2>3 DEF AllAlike
<1>3. SyncCandidate(o, R) = {IF y.ok THEN [y EXCEPT !.d.backoff = FALSE] ELSE y : y \in X}
  BY DEF SyncCandidate
<1>4. SyncActive(o, R) \subseteq {o} \union {[y EXCEPT !.d.backoff = ~ y.ok] : y \in X}
  BY DEF SyncActive
<1> HIDE DEF X
<1>5. QED
  BY <1>1, <1>2, <1>3, <1>4

\* Contexts that serve do so with other routes.
LEMMA AllAlikeServed ==
  ASSUME NEW d, NEW e \in Switch, Fits(e), AllAlike(d, e), NEW c
  PROVE  /\ AllServed(d, c) => AllServed(e, c)
         /\ Forgettable(d, c) => Forgettable(e, c)
         /\ \A P : UplinksAre(d, P) => UplinksAre(e, P)
<1>1. ASSUME NEW r \in Rif
      PROVE  /\ d.rif[r] = Unbound => e.rif[r] = Unbound
             /\ Served(d.rif[r], c, r) => Served(e.rif[r], c, r)
  <2>1. e.rif[r] \in Context /\ Proper(e.rif[r]) /\ Alike(d.rif[r], e.rif[r])
    BY DEF Switch, Fits, AllAlike
  <2>2. QED
    BY <2>1, AlikeServed DEF Served
<1>2. QED
  BY <1>1 DEF AllServed, Forgettable, UplinksAre, AllAlike

\* HwSync.
LEMMA HwSyncStepServes == ASSUME TxInv, ServeInv, HwSync PROVE ServeInv'
<1> DEFINE S == IF HwPlanChanged THEN SyncCandidate(Now, Plan(cand)) ELSE {Now}
<1>1. RunStep("hw", "save", S) /\ done' = done
  BY DEF HwSync
<1>2. pc = "hw"
  BY <1>1 DEF RunStep
<1>3. /\ Between("hw", done, dp, router, cand) /\ Now \in Outcome /\ Now.d = dp /\ Now.ok
      /\ cand \in Configs /\ Fits(Now.d)
  BY <1>2, StepStarts DEF Before
<1>4. AllServed(dp, cand) /\ Forgettable(dp, cand)
  BY <1>3 DEF Between, StageAt
<1>5. ASSUME NEW o \in S
      PROVE  /\ o.d.up = dp.up /\ Forgettable(o.d, cand)
             /\ o.ok => StageAt("save", o.d, router, cand)
  <2>1. o.d.up = dp.up /\ Forgettable(o.d, cand) /\ AllServed(o.d, cand)
    <3>1. CASE HwPlanChanged
      <4>1. o \in SyncCandidate(Now, Plan(cand)) /\ Plan(cand) \in SUBSET HwRoutes
        BY <1>3, <3>1, PlanRoutes DEF Plan
      <4>2. o.d \in Switch /\ Fits(o.d)
        BY <1>3, <4>1, SyncCandidateOK DEF Synced, Outcome
      <4>3. AllAlike(dp, o.d)
        BY <1>3, <4>1, SyncAlike
      <4>4. QED
        BY <1>4, <4>2, <4>3, AllAlikeServed DEF AllAlike
    <3>2. CASE ~ HwPlanChanged
      BY <1>3, <1>4, <3>2
    <3>3. QED
      BY <3>1, <3>2
  <2>2. QED
    BY <2>1 DEF StageAt
<1> HIDE DEF S
<1>6. /\ "hw" \in (Before \union {"hw"}) \ {"flush", "detach", "attach"}
      /\ "save" \in (Behind \union {"save"}) \ {"detach", "attach"}
  BY DEF Before, Behind
<1>7. QED
  BY <1>1, <1>5, <1>6, LaterServes

\* Save.
LEMMA SaveServes == ASSUME TxInv, ServeInv, Save PROVE ServeInv'
<1>1. /\ pc = "save" /\ pc' \in {"publish", "undo"}
      /\ UNCHANGED <<dp, router, cand, done, nb, twice>>
  BY DEF Save
<1>2. /\ Between("save", done, dp, router, cand) /\ ~ twice /\ OneCommand(router, cand)
      /\ Cardinality(Adrs(router)) <= MaxContexts
  BY <1>1, StepStarts
<1>3. AllServed(dp, cand) /\ Forgettable(dp, cand)
  BY <1>2 DEF Between, StageAt
<1>4. Between("publish", done, dp, router, cand) /\ Between("undo", done, dp, router, cand)
  BY <1>2, <1>3 DEF Between, StageAt, BeforeAttach
<1>5. QED
  BY <1>1, <1>2, <1>4 DEF ServeInv, Steps

\* Publish: the switch is there already.
LEMMA PublishServes == ASSUME TxInv, ServeInv, Publish PROVE ServeInv'
<1>1. pc = "publish" /\ pc' = "idle" /\ router' = cand /\ twice' = twice
  BY DEF Publish
<1>2. Between("publish", done, dp, router, cand)
  BY <1>1 DEF ServeInv
<1>3. cand \in Configs /\ Now \in Outcome /\ Now.d = dp /\ Fits(Now.d) /\ Now.ok
  BY <1>1, NowOK DEF TxInv, MemoryOK, StateOK, Now
<1>4. PICK o \in eswitch_manager_router_prearm(Now, cand) : dp' = o.d
  BY DEF Publish
<1>5. AllServed(dp, cand)
  BY <1>2 DEF Between, StageAt
<1>6. AllHeld(dp, cand) /\ AllReady(dp, cand)
  BY <1>5, Stages
<1>7. o.d.up = dp.up /\ \A r \in Rif : Held(dp.rif[r], cand, r) => o.d.rif[r] = dp.rif[r]
  BY <1>3, <1>4, <1>6, PrearmServes
<1>8. AllServed(dp', cand)
  BY <1>4, <1>5, <1>6, <1>7 DEF AllServed, AllHeld
<1>9. UplinksAre(dp', PortsOf(cand))
  <2>1. PortsNow(done, router, cand) = PortsOf(cand)
    BY <1>2 DEF Between, BeforeAttach, PortsNow
  <2>2. UplinksAre(dp, PortsOf(cand))
    BY <1>2, <2>1 DEF Between
  <2>3. QED
    BY <1>4, <1>7, <2>2 DEF UplinksAre
<1>10. QED
  BY <1>1, <1>8, <1>9 DEF ServeInv, Steps

\* The loop of the rollback, which ignores failures: without one, every
\* context of the candidate is gone.
LEMMA ForgetServes ==
  ASSUME NEW o \in Outcome, Fits(o.d), o.ok, NEW c \in Configs, Forgettable(o.d, c),
         NEW z \in ForEach({r \in Rif : c.rif[r] # None}, o, "forget", c)
  PROVE  /\ z \in After(o) /\ z.ok /\ z.d.up = o.d.up
         /\ z.left = o.left => \A r \in Rif : z.d.rif[r] = Unbound
<1> DEFINE S == {r \in Rif : c.rif[r] # None}
           P(n, y) == /\ y \in After(o) /\ y.ok /\ y.d.up = o.d.up
                      /\ y.left = o.left => \A r \in Rif : r <= n \/ r \notin S => y.d.rif[r] = Unbound
           K == [n \in 0..RifCount |-> {y \in After(o) : P(n, y)}]
<1>1. RifCount \in Nat /\ 1..RifCount = Rif
  BY TxAssumption DEF Rif
<1>2. \A n \in 0..RifCount : \A y : y \in K[n] <=> P(n, y)
  OBVIOUS
<1>3. o \in After(o)
  BY AfterSelf
<1>4. \A n \in Rif, y \in After(o) : n \in S => Turn("forget", y, c, n) \subseteq After(o)
  <2>1. Allowed("forget", S, c)
    BY DEF Allowed
  <2> HIDE DEF S
  <2>2. ASSUME NEW n \in Rif, NEW y \in After(o), n \in S PROVE Turn("forget", y, c, n) \subseteq After(o)
    <3>1. y \in Outcome /\ Fits(y.d)
      BY DEF After
    <3>2. Turn("forget", y, c, n) \subseteq After(y)
      BY <2>1, <2>2, <3>1, TurnOK
    <3>3. QED
      BY <3>2, AfterTrans
  <2>3. QED
    BY <2>2
<1>5. P(0, o)
  BY <1>1, <1>3 DEF Forgettable
<1>6. ASSUME NEW n \in Rif, NEW y, P(n-1, y)
      PROVE  IF n \in S /\ y.ok THEN \A z1 \in Turn("forget", y, c, n) : P(n, z1) ELSE P(n, y)
  <2>1. n \in Nat /\ Rif \subseteq Nat /\ \A r \in Rif : r <= n <=> r <= n-1 \/ r = n
    BY <1>1
  <2>2. CASE n \notin S
    BY <1>6, <2>1, <2>2
  <2>3. ASSUME n \in S, NEW z1 \in Turn("forget", y, c, n) PROVE P(n, z1)
    <3>1. PICK w \in eswitch_pipeline_sf_unbind_rif(y, n) : z1 = [w EXCEPT !.ok = TRUE]
      BY <2>3 DEF Turn, Whatever
    <3>2. y \in Outcome /\ Fits(y.d) /\ y.ok /\ y \in After(o)
      BY <1>6 DEF After
    <3>3. w \in Outcome /\ w.left <= y.left
      BY <3>1, <3>2, UnbindOK DEF After
    <3>4. z1.d = w.d /\ z1.ok /\ z1.left = w.left
      BY <3>1, <3>3 DEF Outcome
    <3>5. /\ w.d.up = y.d.up /\ \A s \in Rif \ {n} : w.d.rif[s] = y.d.rif[s]
          /\ w.ok => w.d.rif[n] = Unbound
          /\ w.ok \/ w.left < y.left
      BY <3>1, <3>2, UnbindTurn
    <3>6. z1 \in After(o)
      BY <1>4, <2>3, <3>2
    <3>7. w.left \in Nat /\ y.left \in Nat /\ o.left \in Nat /\ y.left <= o.left
      BY <3>2, <3>3 DEF After, Outcome
    <3>8. ASSUME z1.left = o.left, NEW r \in Rif, r <= n \/ r \notin S PROVE z1.d.rif[r] = Unbound
      <4>1. y.left = o.left /\ w.ok
        BY <3>3, <3>4, <3>5, <3>7, <3>8
      <4>2. CASE r = n
        BY <3>4, <3>5, <4>1, <4>2
      <4>3. CASE r # n
        BY <1>6, <2>1, <3>4, <3>5, <3>8, <4>1, <4>3
      <4>4. QED
        BY <4>2, <4>3
    <3>9. z1.d.up = o.d.up
      BY <1>6, <3>4, <3>5
    <3>10. QED
      BY <3>4, <3>6, <3>8, <3>9
  <2>4. QED
    BY <1>6, <2>2, <2>3
<1>7. z \in ForEach(S, o, "forget", c)
  OBVIOUS
<1> HIDE DEF P, K, S
<1>8. o \in K[0]
  BY <1>1, <1>2, <1>5
<1>9. \A n \in Rif : \A y \in K[n-1] :
        IF n \in S /\ y.ok THEN Turn("forget", y, c, n) \subseteq K[n] ELSE y \in K[n]
  <2>1. ASSUME NEW n \in Rif, NEW y \in K[n-1]
        PROVE  IF n \in S /\ y.ok THEN Turn("forget", y, c, n) \subseteq K[n] ELSE y \in K[n]
    <3>1. n \in 0..RifCount /\ n - 1 \in 0..RifCount
      BY <1>1
    <3>2. P(n-1, y)
      BY <1>2, <2>1, <3>1
    <3>3. \A z1 : z1 \in K[n] <=> P(n, z1)
      BY <1>2, <3>1
    <3>4. QED
      BY <1>6, <3>2, <3>3
  <2>2. QED
    BY <2>1
<1>10. ForEach(S, o, "forget", c) \subseteq K[RifCount]
  BY ONLY <1>3, <1>4, <1>8, <1>9, ForEachFollows, Zenon
<1>11. P(RifCount, z) /\ \A r \in Rif : r <= RifCount
  BY <1>1, <1>2, <1>7, <1>10
<1>12. QED
  BY <1>11 DEF P

\* The outcomes of a rollback on its way: unless one of its calls has failed,
\* the uplinks in P have their rule, and what it must forget is bound.
Restoring(L, P) ==
  {y \in Outcome : /\ Fits(y.d) /\ y.left <= L
                   /\ y.left = L => Forgettable(y.d, cand) /\ UplinksAre(y.d, P)}

\* A call of the rollback that ends well or costs a fault.
LEMMA RestoringKept ==
  ASSUME NEW L \in Nat, NEW P, NEW Q, NEW y \in Restoring(L, P), NEW z \in After(y),
         z.d.rif = y.d.rif, UplinksAre(y.d, P) => UplinksAre(z.d, Q) \/ z.left < y.left
  PROVE  z \in Restoring(L, Q)
<1>1. y \in Outcome /\ y.left <= L /\ (y.left = L => Forgettable(y.d, cand) /\ UplinksAre(y.d, P))
  BY DEF Restoring
<1>2. z \in Outcome /\ Fits(z.d) /\ z.left <= y.left
  BY DEF After
<1>3. y.left \in Nat /\ z.left \in Nat
  BY <1>1, <1>2 DEF Outcome
<1>4. z.left <= L
  BY <1>1, <1>2, <1>3
<1>5. ASSUME z.left = L PROVE Forgettable(z.d, cand) /\ UplinksAre(z.d, Q)
  <2>1. y.left = L /\ ~ (z.left < y.left)
    BY <1>1, <1>2, <1>3, <1>5
  <2>2. QED
    BY <1>1, <2>1 DEF Forgettable
<1>6. QED
  BY <1>2, <1>4, <1>5 DEF Restoring

\* An error of the rollback is ignored.
LEMMA RestoringGoesOn ==
  ASSUME NEW L \in Nat, NEW P, NEW y \in Restoring(L, P)
  PROVE  /\ [y EXCEPT !.ok = TRUE] \in Restoring(L, P)
         /\ [y EXCEPT !.ok = TRUE].ok
<1> DEFINE g == [y EXCEPT !.ok = TRUE]
<1>1. y \in Outcome
  BY DEF Restoring
<1>2. g \in Outcome /\ g.ok /\ g.d = y.d /\ g.left = y.left
  BY <1>1 DEF Outcome
<1> HIDE DEF g
<1>3. g \in Restoring(L, P)
  BY <1>2 DEF Restoring
<1>4. QED
  BY <1>2, <1>3 DEF g

\* The port the command attached is detached,
LEMMA UndoAttachServes ==
  ASSUME Undoable, router \in Configs, cand \in Configs, OneCommand(router, cand), DoneOK,
         NEW L \in Nat, NEW y \in Restoring(L, PortsNow(done, router, cand)), y.ok,
         NEW z \in UndoAttach(y)
  PROVE  z \in Restoring(L, PortsNow(done \ {"attached"}, router, cand))
<1> DEFINE P == PortsNow(done, router, cand)
           Q == PortsNow(done \ {"attached"}, router, cand)
<1>1. y \in Outcome /\ Fits(y.d)
  BY DEF Restoring
<1>2. CASE "attached" \in done
  <2>1. Added = {The(Added)} /\ The(Added) \in Port
    BY <1>2, TheMoved DEF DoneOK
  <2>2. z \in eswitch_pipeline_detach_port(y, The(Added))
    BY <1>2 DEF UndoAttach
  <2>3. P \ {The(Added)} = Q
    BY <1>2, <2>1 DEF PortsNow, Added
  <2>4. z \in After(y)
    BY <1>1, <2>1, <2>2, DetachOK
  <2> HIDE DEF P, Q
  <2>5. /\ UplinksAre(y.d, P) => UplinksAre(z.d, Q) \/ z.left < y.left
        /\ z.d.rif = y.d.rif
    <3>1. CASE UplinksAre(y.d, P)
      BY <1>1, <2>1, <2>2, <2>3, <3>1, DetachServes
    <3>2. z.d.rif = y.d.rif
      <4>1. \E T : UplinksAre(y.d, T)
        <5>1. UplinksAre(y.d, {p \in Port : "rule" \in y.d.up[p]})
          BY DEF UplinksAre
        <5>2. QED
          BY <5>1
      <4>2. QED
        BY <1>1, <2>1, <2>2, <4>1, DetachServes
    <3>3. QED
      BY <3>1, <3>2
  <2>6. y \in Restoring(L, P)
    BY DEF P
  <2>7. QED
    BY <2>4, <2>5, <2>6, RestoringKept DEF Q
<1>3. CASE "attached" \notin done
  <2>1. z = y /\ done \ {"attached"} = done
    BY <1>3 DEF UndoAttach
  <2>2. QED
    BY <2>1
<1>4. QED
  BY <1>2, <1>3

\* and the port it detached is attached again.
LEMMA UndoDetachServes ==
  ASSUME router \in Configs, cand \in Configs, OneCommand(router, cand), DoneOK,
         NEW L \in Nat, NEW y \in Restoring(L, PortsNow(done \ {"attached"}, router, cand)), y.ok,
         NEW z \in UndoDetach(y)
  PROVE  z \in Restoring(L, PortsOf(router))
<1> DEFINE P == PortsNow(done \ {"attached"}, router, cand)
           Q == PortsOf(router)
<1>1. y \in Outcome /\ Fits(y.d)
  BY DEF Restoring
<1>2. CASE "detached" \in done
  <2>1. Removed = {The(Removed)} /\ The(Removed) \in Port
    BY <1>2, TheMoved DEF DoneOK
  <2>2. z \in eswitch_pipeline_attach_router_port(y, The(Removed))
    BY <1>2 DEF UndoDetach
  <2>3. P \union {The(Removed)} = Q /\ The(Removed) \notin P
    BY <1>2, <2>1 DEF PortsNow, Removed
  <2>4. z \in After(y)
    BY <1>1, <2>1, <2>2, AttachOK
  <2> HIDE DEF P, Q
  <2>5. /\ UplinksAre(y.d, P) => UplinksAre(z.d, Q) \/ z.left < y.left
        /\ z.d.rif = y.d.rif
    <3>1. CASE UplinksAre(y.d, P)
      BY <1>1, <2>1, <2>2, <2>3, <3>1, AttachServes
    <3>2. z.d.rif = y.d.rif
      <4>1. \E T : UplinksAre(y.d, T)
        <5>1. UplinksAre(y.d, {p \in Port : "rule" \in y.d.up[p]})
          BY DEF UplinksAre
        <5>2. QED
          BY <5>1
      <4>2. QED
        BY <1>1, <2>1, <2>2, <4>1, AttachServes
    <3>3. QED
      BY <3>1, <3>2
  <2>6. y \in Restoring(L, P)
    BY DEF P
  <2>7. QED
    BY <2>4, <2>5, <2>6, RestoringKept DEF Q
<1>3. CASE "detached" \notin done
  <2>1. z = y /\ P = Q
    BY <1>3 DEF UndoDetach, PortsNow
  <2>2. QED
    BY <2>1
<1>4. QED
  BY <1>2, <1>3

\* rollback_prearmed_candidate: all is as the old configuration asks for, or
\* one of its calls failed.
LEMMA RollbackServes ==
  ASSUME router \in Configs, cand \in Configs, Cardinality(Adrs(router)) <= MaxContexts,
         NEW L \in Nat, NEW y \in Restoring(L, PortsOf(router)), y.ok,
         NEW z \in rollback_prearmed_candidate(y)
  PROVE  z.left < L \/ (UplinksAre(z.d, PortsOf(router)) /\ AllServed(z.d, router))
<1> DEFINE S == ForEach({r \in Rif : cand.rif[r] # None}, y, "forget", cand)
<1>1. y \in Outcome /\ Fits(y.d) /\ y.left <= L
      /\ (y.left = L => Forgettable(y.d, cand) /\ UplinksAre(y.d, PortsOf(router)))
  BY DEF Restoring
<1>2. rollback_prearmed_candidate(y) = Rearm(S, router)
  BY DEF rollback_prearmed_candidate, Rearm
<1>3. \A T : Allowed("forget", T, cand)
  BY DEF Allowed
<1>4. S \subseteq After(y)
  BY <1>1, <1>3, LoopOK
<1>5. y.left = L => \A w \in S : /\ w.ok /\ w.d.up = y.d.up
                                 /\ w.left = y.left => \A r \in Rif : w.d.rif[r] = Unbound
  BY <1>1, ForgetServes
<1> HIDE DEF S
<1>6. \A w \in S : w \in Outcome /\ Fits(w.d) /\ w.left <= y.left
  BY <1>4 DEF After
<1>7. PICK w \in S :
        /\ z.left <= w.left
        /\ w.ok /\ AllReady(w.d, router) =>
             /\ z.d.up = w.d.up
             /\ z.ok => AllServed(z.d, router)
             /\ z.ok \/ z.left < w.left
  <2>1. z \in Rearm(S, router)
    BY <1>2
  <2>2. QED
    BY <1>6, <2>1, RearmServes
<1>8. z \in After(y)
  BY <1>1, RollbackOK
<1>9. z.left \in Nat /\ w.left \in Nat /\ y.left \in Nat /\ w.left <= y.left
  BY <1>1, <1>6, <1>7, <1>8 DEF After, Outcome
<1>10. SUFFICES ASSUME ~ (z.left < L)
       PROVE  UplinksAre(z.d, PortsOf(router)) /\ AllServed(z.d, router)
  OBVIOUS
<1>11. y.left = L /\ w.left = y.left /\ ~ (z.left < w.left)
  BY <1>1, <1>7, <1>9, <1>10
<1>12. w.ok /\ w.d.up = y.d.up /\ \A r \in Rif : w.d.rif[r] = Unbound
  BY <1>5, <1>11
<1>13. AllReady(w.d, router)
  BY <1>12 DEF AllReady, Ready
<1>14. z.d.up = y.d.up /\ AllServed(z.d, router)
  BY <1>7, <1>11, <1>12, <1>13
<1>15. QED
  BY <1>1, <1>11, <1>14 DEF UplinksAre

\* Undo.
LEMMA UndoServes == ASSUME Undoable, TxInv, ServeInv, Undo PROVE ServeInv'
<1> DEFINE o == [Now EXCEPT !.left = @ + UndoFaults]
           L == left + UndoFaults
           Good(y) == [y EXCEPT !.ok = TRUE]
           r0 == UndoRoutes(o)
           r1 == UNION {UndoAttach(Good(y)) : y \in r0}
           r2 == UNION {UndoDetach(Good(y)) : y \in r1}
           r3 == UNION {rollback_prearmed_candidate(Good(y)) : y \in r2}
           P0 == PortsNow(done, router, cand)
           P1 == PortsNow(done \ {"attached"}, router, cand)
           P2 == PortsOf(router)
<1>1. pc = "undo" /\ pc' = "idle" /\ router' = router /\ DoneOK
  BY DEF Undo, TxInv
<1>2. /\ router \in Configs /\ cand \in Configs /\ OneCommand(router, cand)
      /\ Between("undo", done, dp, router, cand) /\ Cardinality(Adrs(router)) <= MaxContexts
  BY <1>1, StepStarts
<1>3. PICK z \in r3 : dp' = z.d /\ twice' = (z.left < L)
  BY DEF Undo, Whatever
<1>4. o \in Outcome /\ Fits(o.d) /\ o.d = dp /\ o.ok /\ o.left = L /\ L \in Nat
  <2>1. /\ Now \in Outcome /\ Now.d = dp /\ Now.left = left /\ Fits(Now.d) /\ Now.ok
        /\ left \in Nat /\ UndoFaults \in Nat
    BY NowOK DEF TxInv, Now
  <2>2. L \in Nat
    BY <2>1
  <2>3. o \in Outcome /\ o.d = dp /\ o.ok /\ o.left = L
    BY <2>1, <2>2 DEF Outcome
  <2>4. QED
    BY <2>1, <2>2, <2>3
<1> HIDE DEF o, L, P0, P1, P2
<1>5. r0 \subseteq Restoring(L, P0)
  <2>1. Forgettable(dp, cand) /\ UplinksAre(dp, P0)
    BY <1>2 DEF Between, P0
  <2>2. CASE HwPlanChanged
    <3>1. Plan(router) \in SUBSET HwRoutes
      BY <1>2, PlanRoutes DEF Plan
    <3>2. r0 = SyncActive(o, Plan(router))
      BY <2>2 DEF UndoRoutes
    <3>3. ASSUME NEW y \in SyncActive(o, Plan(router)) PROVE y \in Restoring(L, P0)
      <4>1. y \in Outcome /\ Fits(y.d) /\ y.left <= L
        BY <1>4, <3>1, <3>3, SyncActiveOK DEF Synced
      <4>2. AllAlike(dp, y.d)
        BY <1>4, <3>1, <3>3, SyncAlike
      <4>3. Forgettable(y.d, cand) /\ UplinksAre(y.d, P0)
        BY <2>1, <4>1, <4>2, AllAlikeServed DEF Outcome
      <4>4. QED
        BY <4>1, <4>3 DEF Restoring
    <3>4. QED
      BY <3>2, <3>3
  <2>3. CASE ~ HwPlanChanged
    <3>1. r0 = {o} /\ o.left <= L
      BY <1>4, <2>3 DEF UndoRoutes
    <3>2. QED
      BY <1>4, <2>1, <3>1 DEF Restoring
  <2>4. QED
    BY <2>2, <2>3
<1>6. r1 \subseteq Restoring(L, P1)
  <2> HIDE DEF r0, Good
  <2>1. ASSUME NEW y \in r0, NEW w \in UndoAttach(Good(y)) PROVE w \in Restoring(L, P1)
    <3>1. Good(y) \in Restoring(L, P0) /\ Good(y).ok
      BY <1>4, <1>5, <2>1, RestoringGoesOn DEF Good
    <3>2. QED
      BY <1>1, <1>2, <1>4, <2>1, <3>1, UndoAttachServes DEF P0, P1
  <2>2. QED
    BY <2>1
<1>7. r2 \subseteq Restoring(L, P2)
  <2> HIDE DEF r1, Good
  <2>1. ASSUME NEW y \in r1, NEW w \in UndoDetach(Good(y)) PROVE w \in Restoring(L, P2)
    <3>1. Good(y) \in Restoring(L, P1) /\ Good(y).ok
      BY <1>4, <1>6, <2>1, RestoringGoesOn DEF Good
    <3>2. QED
      BY <1>1, <1>2, <1>4, <2>1, <3>1, UndoDetachServes DEF P1, P2
  <2>2. QED
    BY <2>1
<1>8. z.left < L \/ (UplinksAre(z.d, P2) /\ AllServed(z.d, router))
  <2> HIDE DEF r2, Good
  <2>1. PICK y \in r2 : z \in rollback_prearmed_candidate(Good(y))
    BY <1>3
  <2>2. Good(y) \in Restoring(L, P2) /\ Good(y).ok
    BY <1>4, <1>7, RestoringGoesOn DEF Good
  <2>3. QED
    BY <1>2, <1>4, <2>1, <2>2, RollbackServes DEF P2
<1> HIDE DEF r3
<1>9. ~ twice' => UplinksAre(dp', PortsOf(router')) /\ AllServed(dp', router')
  BY <1>1, <1>3, <1>8 DEF P2
<1>10. QED
  BY <1>1, <1>9 DEF ServeInv, Steps

-----------------------------------------------------------------------------
(***************************************************************************)
(* The rest of the loop, crash and restart.                                *)
(***************************************************************************)
\* Command.
LEMMA CommandServes == ASSUME TxInv, ServeInv, Command PROVE ServeInv'
<1>1. /\ pc = "idle" /\ ~ twice /\ pc' = "flush" /\ done' = {} /\ cand' \in Configs
      /\ OneCommand(router, cand') /\ UNCHANGED <<dp, file, router, nb, twice>>
  BY DEF Command
<1>2. UplinksAre(dp, PortsOf(router)) /\ AllServed(dp, router) /\ router \in Configs /\ Fits(dp)
  BY <1>1 DEF ServeInv, TxInv, MemoryOK, StateOK
<1>3. Forgettable(dp, cand')
  BY <1>1, <1>2, OldServed
<1>4. PortsNow({}, router, cand') = PortsOf(router)
  BY DEF PortsNow
<1>5. Between("flush", {}, dp, router, cand')
  BY <1>2, <1>3, <1>4 DEF Between, StageAt, BeforeAttach
<1>6. Cardinality(Adrs(router)) <= MaxContexts
  <2>1. Adrs(router) \subseteq Bound(dp)
    BY <1>2 DEF AllServed, Served, Held, Adrs, Bound
  <2>2. Cardinality(Adrs(router)) <= Cardinality(Bound(dp)) /\ Cardinality(Adrs(router)) \in Nat
    BY <2>1, BoundFinite, FS_Subset, FS_CardinalityType
  <2>3. QED
    BY <1>2, <2>2, BoundFinite, TxAssumption DEF Fits
<1>7. QED
  BY <1>1, <1>5, <1>6 DEF ServeInv

\* Between commands only the routes and their marks change.
LEMMA IdleServes ==
  ASSUME ServeInv, pc = "idle", UNCHANGED <<router, pc, twice>>, dp' \in Switch, Fits(dp'),
         AllAlike(dp, dp')
  PROVE  ServeInv'
<1>1. ~ twice => UplinksAre(dp', PortsOf(router)) /\ AllServed(dp', router)
  BY AllAlikeServed DEF ServeInv
<1>2. QED
  BY <1>1 DEF ServeInv, Steps

\* The scan, the retry timer and a neighbor that changes.
LEMMA BetweenServes ==
  ASSUME TxInv, ServeInv, Maintenance \/ RetryDue \/ NeighborChange PROVE ServeInv'
<1>1. StateOK /\ MemoryOK
  BY DEF TxInv
<1>2. pc = "idle" /\ UNCHANGED <<router, pc, twice>>
  BY DEF Maintenance, RetryDue, NeighborChange
<1>3. router \in Configs /\ dp \in Switch /\ Fits(dp)
  BY <1>1, <1>2 DEF MemoryOK, StateOK
<1>4. ASSUME NEW n, NEW o \in SyncActive(Fresh, {x \in router.plan : x[2] \in n}), dp' = o.d
      PROVE  ServeInv'
  <2>1. Fresh \in Outcome /\ Fits(Fresh.d) /\ Fresh.d = dp /\ Fresh.ok
    BY <1>1, NowOK DEF Fresh
  <2>2. dp' \in Switch /\ Fits(dp')
    BY <1>1, <1>3, <1>4, ScanOK
  <2>3. {x \in router.plan : x[2] \in n} \in SUBSET HwRoutes
    BY <1>3, PlanRoutes
  <2>4. AllAlike(dp, dp')
    BY <1>4, <2>1, <2>3, SyncAlike
  <2>5. QED
    BY <1>2, <2>2, <2>4, IdleServes
<1>5. ASSUME dp' = [dp EXCEPT !.late = TRUE] \/ dp' = [dp EXCEPT !.backoff = FALSE]
      PROVE  ServeInv'
  <2>1. dp' \in Switch /\ Fits(dp')
    BY <1>3, <1>5, MarkSet
  <2>2. dp'.up = dp.up /\ dp'.rif = dp.rif
    BY <1>3, <1>5 DEF Switch
  <2>3. AllAlike(dp, dp')
    BY <2>2 DEF AllAlike, Alike
  <2>4. QED
    BY <1>2, <2>1, <2>3, IdleServes
<1>6. QED
  BY <1>4, <1>5 DEF Maintenance, RetryDue, NeighborChange, Plan

\* The uplinks of a configuration are attached one after the other.
LEMMA UplinksServe ==
  ASSUME NEW c \in Configs, NEW b \in Outcome, Fits(b.d), b.ok, UplinksAre(b.d, {}),
         NEW z \in ForEach({r \in Rif : c.rif[r] # None /\ c.rif[r].at \in Port}, b, "attach", c)
  PROVE  z \in After(b) /\ z.d.rif = b.d.rif /\ (z.ok => UplinksAre(z.d, PortsOf(c)))
<1> DEFINE S == {r \in Rif : c.rif[r] # None /\ c.rif[r].at \in Port}
           At(n) == {c.rif[r].at : r \in {s \in S : s <= n}}
           P(n, y) == y \in After(b) /\ y.d.rif = b.d.rif /\ (y.ok => UplinksAre(y.d, At(n)))
           K == [n \in 0..RifCount |-> {y \in After(b) : P(n, y)}]
<1>1. RifCount \in Nat /\ 1..RifCount = Rif
  BY TxAssumption DEF Rif
<1>2. \A n \in 0..RifCount : \A y : y \in K[n] <=> P(n, y)
  OBVIOUS
<1>3. b \in After(b)
  BY AfterSelf
<1>4. At(0) = {} /\ At(RifCount) = PortsOf(c)
  BY <1>1 DEF PortsOf
<1>5. \A n \in Rif : /\ n \in S => At(n) = At(n-1) \union {c.rif[n].at} /\ c.rif[n].at \in Port
                     /\ n \notin S => At(n) = At(n-1)
  <2>1. ASSUME NEW n \in Rif
        PROVE  /\ n \in S => At(n) = At(n-1) \union {c.rif[n].at} /\ c.rif[n].at \in Port
               /\ n \notin S => At(n) = At(n-1)
    <3>1. \A s \in S : s <= n <=> s <= n-1 \/ s = n
      BY <1>1
    <3>2. n <= n
      BY <1>1
    <3>3. QED
      BY <3>1, <3>2
  <2>2. QED
    BY <2>1
<1>6. z \in ForEach(S, b, "attach", c)
  OBVIOUS
<1> HIDE DEF At, S
<1>7. \A n \in Rif, y \in After(b) : n \in S => Turn("attach", y, c, n) \subseteq After(b)
  <2>1. ASSUME NEW n \in Rif, NEW y \in After(b), n \in S PROVE Turn("attach", y, c, n) \subseteq After(b)
    <3>1. y \in Outcome /\ Fits(y.d)
      BY DEF After
    <3>2. Turn("attach", y, c, n) \subseteq After(y)
      BY <1>5, <2>1, <3>1, AttachOK DEF Turn
    <3>3. QED
      BY <3>2, AfterTrans
  <2>2. QED
    BY <2>1
<1>8. P(0, b)
  BY <1>3, <1>4
<1>9. ASSUME NEW n \in Rif, NEW y, P(n-1, y)
      PROVE  IF n \in S /\ y.ok THEN \A w \in Turn("attach", y, c, n) : P(n, w) ELSE P(n, y)
  <2>1. CASE ~ y.ok \/ n \notin S
    BY <1>5, <1>9, <2>1
  <2>2. ASSUME n \in S, y.ok, NEW w \in Turn("attach", y, c, n) PROVE P(n, w)
    <3>1. y \in Outcome /\ UplinksAre(y.d, At(n-1)) /\ c.rif[n].at \in Port /\ y \in After(b)
      BY <1>5, <1>9, <2>2 DEF After
    <3>2. w \in eswitch_pipeline_attach_router_port(y, c.rif[n].at)
      BY <2>2 DEF Turn
    <3> DEFINE p == c.rif[n].at
               U == At(n-1)
    <3>3. w.d.rif = y.d.rif /\ (w.ok => UplinksAre(w.d, U \union {p}))
      <4>1. /\ y \in Outcome /\ y.ok /\ UplinksAre(y.d, U) /\ p \in Port
            /\ w \in eswitch_pipeline_attach_router_port(y, p)
        BY <2>2, <3>1, <3>2
      <4> HIDE DEF p, U
      <4>2. QED
        BY ONLY <4>1, AttachServes
    <3>4. w \in After(b)
      BY <1>7, <2>2, <3>1
    <3>5. QED
      BY <1>5, <1>9, <2>2, <3>3, <3>4
  <2>3. QED
    BY <2>1, <2>2
<1> HIDE DEF P, K
<1>10. b \in K[0]
  BY <1>1, <1>2, <1>8
<1>11. \A n \in Rif : \A y \in K[n-1] :
         IF n \in S /\ y.ok THEN Turn("attach", y, c, n) \subseteq K[n] ELSE y \in K[n]
  <2>1. ASSUME NEW n \in Rif, NEW y \in K[n-1]
        PROVE  IF n \in S /\ y.ok THEN Turn("attach", y, c, n) \subseteq K[n] ELSE y \in K[n]
    <3>1. n \in 0..RifCount /\ n - 1 \in 0..RifCount
      BY <1>1
    <3>2. P(n-1, y)
      BY <1>2, <2>1, <3>1
    <3>3. \A w : w \in K[n] <=> P(n, w)
      BY <1>2, <3>1
    <3>4. QED
      BY <1>9, <3>2, <3>3
  <2>2. QED
    BY <2>1
<1>12. ForEach(S, b, "attach", c) \subseteq K[RifCount]
  BY ONLY <1>3, <1>7, <1>10, <1>11, ForEachFollows, Zenon
<1>13. P(RifCount, z)
  BY <1>1, <1>2, <1>6, <1>12
<1>14. QED
  BY <1>4, <1>13 DEF P

\* A start that succeeds serves the file.
LEMMA RestoredServes ==
  ASSUME NEW c \in Configs, NEW o \in Restored(c), o.ok
  PROVE  UplinksAre(o.d, PortsOf(c)) /\ AllServed(o.d, c)
<1> DEFINE b == [d |-> EmptySwitch, ok |-> TRUE, left |-> MaxFaults]
           uplinks == {r \in Rif : c.rif[r] # None /\ c.rif[r].at \in Port}
           ports == ForEach(uplinks, b, "attach", c)
           pre == Rearm(ports, c)
           Synchronised(y) == {[z EXCEPT !.ok = z.ok \/ z.d.degraded] : z \in SyncActive(y, {})}
<1>1. Restored(c) = UNION {IF y.ok THEN Synchronised(y) ELSE {y} : y \in pre}
  BY DEF Restored, Rearm, AndThen
<1>2. b \in Outcome /\ b.d = EmptySwitch /\ Fits(b.d) /\ b.ok
  BY EmptyOK, TxAssumption DEF Outcome
<1>3. UplinksAre(EmptySwitch, {}) /\ \A r \in Rif : EmptySwitch.rif[r] = Unbound
  BY DEF EmptySwitch, UplinksAre
<1> HIDE DEF b
<1>4. ASSUME NEW y \in ports
      PROVE  y \in After(b) /\ y.d.rif = EmptySwitch.rif /\ (y.ok => UplinksAre(y.d, PortsOf(c)))
  BY <1>2, <1>3, UplinksServe
<1> HIDE DEF uplinks, ports
<1>5. \A y \in ports : y \in Outcome /\ Fits(y.d)
  BY <1>4 DEF After
<1>6. pre \subseteq After(b)
  BY <1>2, <1>4, RearmOK
<1>7. ASSUME NEW z \in pre, z.ok PROVE UplinksAre(z.d, PortsOf(c)) /\ AllServed(z.d, c)
  <2>1. PICK y \in ports :
           /\ ~ y.ok => z = y
           /\ y.ok /\ AllReady(y.d, c) => z.d.up = y.d.up /\ (z.ok => AllServed(z.d, c))
    BY <1>5, RearmServes
  <2>2. y.ok
    BY <1>7, <2>1
  <2>3. AllReady(y.d, c) /\ UplinksAre(y.d, PortsOf(c))
    BY <1>3, <1>4, <2>2 DEF AllReady, Ready
  <2>4. QED
    BY <1>7, <2>1, <2>2, <2>3 DEF UplinksAre
<1> HIDE DEF pre, Synchronised
<1>8. PICK y \in pre : y.ok /\ o \in Synchronised(y)
  BY <1>1
<1>9. y \in Outcome /\ Fits(y.d)
  BY <1>6, <1>8 DEF After
<1>10. PICK z \in SyncActive(y, {}) : o = [z EXCEPT !.ok = z.ok \/ z.d.degraded]
  BY <1>8 DEF Synchronised
<1>11. {} \in SUBSET HwRoutes
  OBVIOUS
<1>12. z \in Outcome /\ Fits(z.d)
  BY <1>9, <1>10, <1>11, SyncActiveOK DEF Synced
<1>13. AllAlike(y.d, z.d)
  BY <1>8, <1>9, <1>10, <1>11, SyncAlike
<1>14. UplinksAre(z.d, PortsOf(c)) /\ AllServed(z.d, c)
  BY <1>7, <1>8, <1>12, <1>13, AllAlikeServed DEF Outcome
<1>15. o.d = z.d
  BY <1>10, <1>12 DEF Outcome
<1>16. QED
  BY <1>14, <1>15

\* Restart, and a stop before it.
LEMMA RestartServes == ASSUME TxInv, Restart PROVE ServeInv'
<1>1. pc' = "idle" /\ router' = file /\ file \in Configs
  BY DEF Restart, TxInv, StateOK
<1>2. PICK o \in Restored(file) : o.ok /\ dp' = o.d
  BY DEF Restart
<1>3. UplinksAre(dp', PortsOf(router')) /\ AllServed(dp', router')
  BY <1>1, <1>2, RestoredServes
<1>4. QED
  BY <1>1, <1>3 DEF ServeInv, Steps

LEMMA CrashServes == Crash => ServeInv'
BY DEF Crash, ServeInv, Steps

\* The first start.
LEMMA ServeInit == Init => ServeInv
<1>1. SUFFICES ASSUME Init PROVE ServeInv
  OBVIOUS
<1>2. pc = "idle" /\ router = file /\ file \in Configs
  BY <1>1 DEF Init
<1>3. PICK o \in Restored(file) : o.ok /\ dp = o.d
  BY <1>1 DEF Init
<1>4. UplinksAre(dp, PortsOf(router)) /\ AllServed(dp, router)
  BY <1>2, <1>3, RestoredServes
<1>5. QED
  BY <1>2, <1>4 DEF ServeInv, Steps

\* Every step keeps the invariant.
LEMMA ServeNext == ASSUME Undoable PROVE TxInv /\ ServeInv /\ [Next]_vars => ServeInv'
<1>1. SUFFICES ASSUME TxInv, ServeInv, [Next]_vars PROVE ServeInv'
  OBVIOUS
<1>2. CASE UNCHANGED vars
  BY <1>1, <1>2 DEF vars, ServeInv
<1>3. CASE CommandStep
  BY <1>1, <1>3, FlushServes, DetachStepServes, AttachStepServes, InvalidateServes,
     PrearmStepServes, AclSyncStepServes, DenySyncStepServes, HwSyncStepServes, SaveServes,
     PublishServes, UndoServes DEF CommandStep
<1>4. QED
  BY <1>1, <1>2, <1>3, CommandServes, BetweenServes, CrashServes, RestartServes DEF Next

\* The switch, the memory and the file at rest.
Serves == pc = "idle" /\ ~ twice => Implements(dp, router)

LEMMA ServesAtRest == TxInv /\ ServeInv => Serves /\ (Serving = router)
<1>1. SUFFICES ASSUME TxInv, ServeInv PROVE Serves /\ Serving = router
  OBVIOUS
<1>2. Serves
  <2>1. SUFFICES ASSUME pc = "idle", ~ twice PROVE Implements(dp, router)
    BY DEF Serves
  <2>2. UplinksAre(dp, PortsOf(router)) /\ AllServed(dp, router)
    BY <1>1, <2>1 DEF ServeInv
  <2>3. RoutesOf(dp, router)
    BY <1>1, <2>1 DEF TxInv, RoutesOK, InSync, RoutesOf
  <2>4. \A r \in Rif :
          IF r \in Adrs(router)
          THEN /\ dp.rif[r].id = router.rif[r]
               /\ Parts(dp.rif[r].id.at) \ {"elig"} \subseteq dp.rif[r].parts
               /\ dp.rif[r].acl \in IF router.acl[r] = None THEN {None} ELSE {router.acl[r], Arm}
               /\ dp.rif[r].deny \in {router.deny[r], None}
          ELSE dp.rif[r] = Unbound
    BY <2>2 DEF AllServed, Served, Held, AclServed, DenyServed
  <2>5. QED
    BY <2>2, <2>3, <2>4 DEF Implements, UplinksAre
<1>3. QED
  BY <1>2 DEF Serves, Serving

\* Whichever calls of a command fail and wherever the daemon crashes: between
\* commands the switch does what the configuration in memory asks for, as long
\* as no call of a rollback failed too and the meter goes with its uplink.
THEOREM SwitchServes == ASSUME Undoable PROVE TransactionSpec => []Serves
<1>1. Init => TxInv /\ ServeInv
  BY TxInvInit, ServeInit
<1>2. TxInv /\ ServeInv /\ [Next]_vars => (TxInv /\ ServeInv)'
  BY TxInvNext, ServeNext
<1>3. TxInv /\ ServeInv => Serves
  BY ServesAtRest
<1>4. QED
  BY <1>1, <1>2, <1>3, PTL DEF TransactionSpec

\* What the switch serves starts as in ConfigTx,
LEMMA PromiseInit == ASSUME Memory!TxInit, Serving = router PROVE Promise!TxInit
BY DEF Memory!TxInit, Promise!TxInit

\* and changes as in ConfigTx.
LEMMA PromiseNext ==
  ASSUME [Memory!TxNext]_(Memory!txVars), Serving = router, Serving' = router'
  PROVE  [Promise!TxNext]_(Promise!txVars)
<1>1. CASE Memory!TxNext
  BY <1>1 DEF Memory!TxNext, Promise!TxNext,
     Memory!Begin, Memory!Commit, Memory!Publish, Memory!Abort, Memory!Crash, Memory!Recover,
     Promise!Begin, Promise!Commit, Promise!Publish, Promise!Abort, Promise!Crash, Promise!Recover
<1>2. CASE UNCHANGED Memory!txVars
  BY <1>2 DEF Memory!txVars, Promise!txVars
<1>3. QED
  BY <1>1, <1>2

\* router_control_command implements the safety part of ConfigTx with the
\* switch: file, memory and switch change together or not at all, as long as
\* no call of a rollback failed too and the meter goes with its uplink.
THEOREM SwitchRefines ==
  ASSUME Undoable
  PROVE  TransactionSpec => Promise!TxInit /\ [][Promise!TxNext]_(Promise!txVars)
<1>1. Init => TxInv /\ ServeInv
  BY TxInvInit, ServeInit
<1>2. TxInv /\ ServeInv /\ [Next]_vars => (TxInv /\ ServeInv)'
  BY TxInvNext, ServeNext
<1>3. TxInv /\ ServeInv => Serving = router
  BY ServesAtRest
<1>4. (TxInv /\ ServeInv => Serving = router)'
  BY <1>3, PTL
<1>5. Init => Promise!TxInit
  BY <1>1, <1>3, MemoryInit, PromiseInit
<1>6. TxInv /\ ServeInv /\ [Next]_vars => [Promise!TxNext]_(Promise!txVars)
  <2>1. SUFFICES ASSUME TxInv, ServeInv, [Next]_vars PROVE [Promise!TxNext]_(Promise!txVars)
    OBVIOUS
  <2>2. [Memory!TxNext]_(Memory!txVars)
    BY <2>1, MemoryNext
  <2>3. Serving = router /\ Serving' = router'
    BY <1>2, <1>3, <1>4, <2>1
  <2>4. QED
    BY <2>2, <2>3, PromiseNext
<1>7. QED
  BY <1>1, <1>2, <1>5, <1>6, PTL DEF TransactionSpec

=============================================================================
