-------------------------- MODULE ForwardingProofs --------------------------
(***************************************************************************)
(* Proofs about the two tables that forward.                               *)
(*                                                                         *)
(* The first part is the learned table of Fdb, for any number of stations, *)
(* ports and list entries and for every combination of failing calls.      *)
(* None of its properties is inductive: that a rule belongs to an entry    *)
(* holds across a move only if the two guards of an entry are told apart,  *)
(* and that a scan keeps a live station needs the age to be bounded by the *)
(* station's silence whenever its counter has not grown.  KeyInv says this *)
(* of one key; the operations on the table change one key or all of them   *)
(* independently.                                                          *)
(*                                                                         *)
(* The second part is the decision of router_forward.c: longest-prefix     *)
(* routing, for every width of addresses, number of interfaces and routes  *)
(* and any history of commands.  The two loops alone do not compute it:    *)
(* the second one replaces `egress` before it looks at the RIF, and keeps  *)
(* the first of two routes of equal length.  ForwardInv says what the      *)
(* validator keeps true of the arrays: a route leaves through an addressed *)
(* RIF, and no two routes of a VR have the same prefix and length.  It     *)
(* ends with the plan of router_hw.c, two loops over the neighbor table    *)
(* and the routes, whose entries answer as the Arm does.                   *)
(***************************************************************************)
EXTENDS Fdb, RouterForward, LoopLemmas, FiniteSetTheorems

-----------------------------------------------------------------------------
(***************************************************************************)
(* The learned table.                                                      *)
(***************************************************************************)
Rules == {"dst", "src"} \X Port

Result == [ok : BOOLEAN, e : Entry, hw : SUBSET Rules]

Handles(e) == {Rule("dst", e.dst), Rule("src", e.src[0]), Rule("src", e.src[1])}

\* Every rule of the result is one the entry can remove.
Backed(x) == x \in Result /\ x.hw \subseteq Handles(x.e)

\* y is x after some of its rules, and then of their handles, are gone.
Shrunk(x, y) ==
  /\ Backed(y)
  /\ y.hw \subseteq x.hw
  /\ y.e.dst \in {x.e.dst, NoRule}
  /\ y.e.src[0] \in {x.e.src[0], NoRule}
  /\ y.e.src[1] \in {x.e.src[1], NoRule}
  /\ y.e.port = x.e.port /\ y.e.act = x.e.act
  /\ y.e.age = x.e.age /\ y.e.fresh = x.e.fresh

Emptied(e) == e.dst = NoRule /\ e.src[0] = NoRule /\ e.src[1] = NoRule

\* The handles of an entry while the daemon runs.
Settled(e) ==
  /\ e.dst \in {e.port, NoRule}
  /\ e.src[e.act] \in {e.port, NoRule}
  /\ e.src[1 - e.act] = NoRule

-----------------------------------------------------------------------------
\* A rule whose handle is NULL is not in the hardware.
LEMMA EmptiedHoldsNothing ==
  ASSUME NEW x, Backed(x), Emptied(x.e) PROVE x.hw = {}
  BY FdbAssumption DEF Backed, Result, Rules, Handles, Emptied, Rule

\* A record of outcome, entry and rules.
LEMMA MadeBacked ==
  ASSUME NEW b \in BOOLEAN, NEW e \in Entry, NEW h \in SUBSET Rules, h \subseteq Handles(e)
  PROVE  Backed([ok |-> b, e |-> e, hw |-> h])
  BY Zenon DEF Backed, Result

\* Backed results of Install.
Installed(x, r, e, y) ==
  /\ Backed(y)
  /\ y.ok = TRUE => y.e = e /\ y.hw = x.hw \union {r}
  /\ y.e \in {x.e, e}

\* An insertion, successful or not.
LEMMA InstallBacked ==
  ASSUME NEW x, Backed(x), NEW e \in Entry, NEW r \in Rules, r \in Handles(e),
         x.hw \subseteq Handles(e), NEW y \in Install(x, r, e)
  PROVE  Installed(x, r, e, y)
  <1>1. y \in {Done(e, x.hw \union {r}), [ok |-> FALSE, e |-> x.e, hw |-> x.hw],
         [ok |-> FALSE, e |-> e,   hw |-> x.hw],
         [ok |-> FALSE, e |-> e,   hw |-> x.hw \union {r}]}
    BY DEF Install
  <1>2. x.e \in Entry /\ x.hw \in SUBSET Rules /\ x.hw \subseteq Handles(x.e)
    BY DEF Backed, Result
  <1>3. x.hw \union {r} \in SUBSET Rules
    BY <1>2
  <1>4. Backed(y)
    <2>1. TRUE \in BOOLEAN /\ FALSE \in BOOLEAN
      OBVIOUS
    <2>2. x.hw \union {r} \subseteq Handles(e)
      OBVIOUS
    <2> QED BY <2>1, <2>2, <1>1, <1>2, <1>3, MadeBacked, Zenon DEF Done
  <1>5. (y.ok = TRUE => y.e = e /\ y.hw = x.hw \union {r}) /\ y.e \in {x.e, e}
    BY <1>1 DEF Done
  <1> QED BY <1>4, <1>5 DEF Installed

\* The outcome alone changes: a rollback starts, an error is reported.
LEMMA OutcomeSet ==
  ASSUME NEW x, Backed(x), NEW b \in BOOLEAN
  PROVE  LET y == [x EXCEPT !.ok = b]
         IN Backed(y) /\ y.ok = b /\ y.e = x.e /\ y.hw = x.hw
  <1> DEFINE y == [x EXCEPT !.ok = b]
  <1>1. x \in Result /\ x.e \in Entry /\ x.hw \in SUBSET Rules /\ x.hw \subseteq Handles(x.e)
    BY DEF Backed, Result
  <1>2. y = [ok |-> b, e |-> x.e, hw |-> x.hw]
    BY <1>1 DEF Result
  <1>3. Backed([ok |-> b, e |-> x.e, hw |-> x.hw])
    BY <1>1, MadeBacked, Zenon
  <1> QED BY <1>2, <1>3, Zenon

\* Removals one after the other.
LEMMA ShrunkTwice ==
  ASSUME NEW x, NEW y, NEW z, Shrunk(x, y), Shrunk(y, z) PROVE Shrunk(x, z)
  BY DEF Shrunk

\* No removal.
LEMMA ShrunkSelf ==
  ASSUME NEW x, Backed(x) PROVE Shrunk(x, x)
  BY DEF Shrunk

\* remove_rule, for the entry e without the handle of r.
Removal(x, e, r) ==
  {Done(e, x.hw \ {r}), [ok |-> FALSE, e |-> x.e, hw |-> x.hw],
   [ok |-> FALSE, e |-> x.e, hw |-> x.hw \ {r}]}

RemovalDone(x, e, y) ==
  /\ Backed(y)
  /\ y.hw \subseteq x.hw
  /\ y.e \in {x.e, e}
  /\ y.ok = TRUE => y.e = e

\* A removal forgets the handle only if it succeeds.
LEMMA RemoveOutcomes ==
  ASSUME NEW x, Backed(x), NEW e \in Entry, NEW r, x.hw \ {r} \subseteq Handles(e),
         NEW y \in Removal(x, e, r)
  PROVE  RemovalDone(x, e, y)
  <1>1. x.e \in Entry /\ x.hw \in SUBSET Rules /\ x.hw \subseteq Handles(x.e)
    BY DEF Backed, Result
  <1>2. x.hw \ {r} \in SUBSET Rules /\ x.hw \ {r} \subseteq Handles(x.e)
    BY <1>1
  <1>3. TRUE \in BOOLEAN /\ FALSE \in BOOLEAN
    OBVIOUS
  <1>4. Backed(y)
    BY <1>1, <1>2, <1>3, MadeBacked, Zenon DEF Done, Removal
  <1>5. y.hw \subseteq x.hw /\ y.e \in {x.e, e} /\ (y.ok = TRUE => y.e = e)
    BY DEF Done, Removal
  <1> QED BY <1>4, <1>5 DEF RemovalDone

\* remove_rule on the destination.
LEMMA RemoveDstShrinks ==
  ASSUME NEW d, NEW x, Backed(x), x.ok = TRUE, NEW y \in RemoveDst(d, x)
  PROVE  Shrunk(x, y) /\ (y.ok = TRUE => y.e.dst = NoRule)
  <1> DEFINE r == Rule("dst", x.e.dst)
             e == [x.e EXCEPT !.dst = NoRule]
  <1>1. x.e \in Entry /\ x.hw \in SUBSET Rules /\ x.hw \subseteq Handles(x.e)
    BY DEF Backed, Result
  <1>2. CASE x.e.dst = NoRule
    <2>1. y = x BY <1>2 DEF RemoveDst, RemoveRule
    <2> QED BY <2>1, <1>2, ShrunkSelf
  <1>3. CASE x.e.dst # NoRule
    <2>1. y \in Removal(x, e, r)
      BY <1>3 DEF RemoveDst, RemoveRule, Removal
    <2>2. /\ e \in Entry /\ e.dst = NoRule /\ e.src = x.e.src /\ e.port = x.e.port
          /\ e.act = x.e.act /\ e.age = x.e.age /\ e.fresh = x.e.fresh
      BY <1>1 DEF Entry
    <2>3. x.hw \ {r} \subseteq Handles(e) /\ x.hw \ {r} \in SUBSET Rules
      BY <1>1, <2>2 DEF Handles
    <2> HIDE DEF r, e
    <2>5. e \in Entry
      BY <2>2
    <2>6. x.hw \ {r} \subseteq Handles(e)
      BY <2>3
    <2>4. RemovalDone(x, e, y)
      BY ONLY Backed(x), <2>1, <2>5, <2>6, RemoveOutcomes, Zenon
    <2> QED BY <2>4, <2>2 DEF Shrunk, RemovalDone
  <1> QED BY <1>2, <1>3

\* remove_rule on a source guard.
SrcRemoved(x, i, y) ==
  /\ Shrunk(x, y)
  /\ y.ok = TRUE => y.e.src[i] = NoRule
  /\ y.e.dst = x.e.dst
  /\ \A j \in {0, 1} : j # i => y.e.src[j] = x.e.src[j]

\* The removal of one source guard.
LEMMA RemoveSrcShrinks ==
  ASSUME NEW d, NEW x, Backed(x), x.ok = TRUE, NEW i \in {0, 1}, NEW y \in RemoveSrc(d, x, i)
  PROVE  SrcRemoved(x, i, y)
  <1> DEFINE r == Rule("src", x.e.src[i])
             e == [x.e EXCEPT !.src[i] = NoRule]
  <1>1. x.e \in Entry /\ x.hw \in SUBSET Rules /\ x.hw \subseteq Handles(x.e)
    BY DEF Backed, Result
  <1>2. CASE x.e.src[i] = NoRule
    <2>1. y = x BY <1>2 DEF RemoveSrc, RemoveRule
    <2> QED BY <2>1, <1>2, ShrunkSelf DEF SrcRemoved
  <1>3. CASE x.e.src[i] # NoRule
    <2>1. y \in Removal(x, e, r)
      BY <1>3 DEF RemoveSrc, RemoveRule, Removal
    <2>2. /\ e \in Entry /\ e.dst = x.e.dst /\ e.port = x.e.port
          /\ e.act = x.e.act /\ e.age = x.e.age /\ e.fresh = x.e.fresh
          /\ e.src[i] = NoRule /\ \A j \in {0, 1} : j # i => e.src[j] = x.e.src[j]
      BY <1>1 DEF Entry
    <2>3. x.hw \ {r} \subseteq Handles(e) /\ x.hw \ {r} \in SUBSET Rules
      BY <1>1, <2>2 DEF Handles
    <2> HIDE DEF r, e
    <2>5. e \in Entry
      BY <2>2
    <2>6. x.hw \ {r} \subseteq Handles(e)
      BY <2>3
    <2>4. RemovalDone(x, e, y)
      BY ONLY Backed(x), <2>1, <2>5, <2>6, RemoveOutcomes, Zenon
    <2> QED BY <2>4, <2>2 DEF Shrunk, RemovalDone, SrcRemoved
  <1> QED BY <1>2, <1>3

\* eswitch_pipeline_fdb_remove: success means that nothing is left.
LEMMA RemoveShrinks ==
  ASSUME NEW d, NEW x, Backed(x), x.ok = TRUE, NEW z \in fdb_remove(d, x)
  PROVE  Shrunk(x, z) /\ (z.ok = TRUE => Emptied(z.e) /\ z.hw = {})
  <1> DEFINE guard0(y) == RemoveSrc(d, y, 0)
             guard1(y) == RemoveSrc(d, y, 1)
             A == RemoveDst(d, x)
             B == Then(A, guard0)
  <1>0. 0 \in {0, 1} /\ 1 \in {0, 1} /\ 0 # 1
    OBVIOUS
  <1>1. \A y \in A : Shrunk(x, y) /\ (y.ok = TRUE => y.e.dst = NoRule)
    BY RemoveDstShrinks
  <1>2. \A y \in B : Shrunk(x, y) /\ (y.ok = TRUE => y.e.dst = NoRule /\ y.e.src[0] = NoRule)
    <2> SUFFICES ASSUME NEW y \in B
                 PROVE  Shrunk(x, y) /\ (y.ok = TRUE => y.e.dst = NoRule /\ y.e.src[0] = NoRule)
      OBVIOUS
    <2>1. (y \in A /\ y.ok # TRUE) \/ \E w \in A : w.ok = TRUE /\ y \in guard0(w)
      BY DEF Then
    <2>2. CASE y \in A /\ y.ok # TRUE
      BY <2>2, <1>1
    <2>3. ASSUME NEW w \in A, w.ok = TRUE, y \in guard0(w)
          PROVE  Shrunk(x, y) /\ (y.ok = TRUE => y.e.dst = NoRule /\ y.e.src[0] = NoRule)
      <3>0. y \in RemoveSrc(d, w, 0)
        BY <2>3
      <3> HIDE DEF A, B
      <3>1. Shrunk(x, w) /\ w.e.dst = NoRule /\ Backed(w)
        BY <2>3, <1>1 DEF Shrunk
      <3>2. SrcRemoved(w, 0, y)
        BY ONLY <2>3, <3>0, <3>1, <1>0, RemoveSrcShrinks, Zenon
      <3> QED BY <3>1, <3>2, ShrunkTwice DEF SrcRemoved
    <2> QED BY <2>1, <2>2, <2>3
  <1>3. z \in Then(B, guard1)
    BY DEF fdb_remove
  <1>4. (z \in B /\ z.ok # TRUE) \/ \E w \in B : w.ok = TRUE /\ z \in guard1(w)
    BY <1>3 DEF Then
  <1>5. CASE z \in B /\ z.ok # TRUE
    BY <1>5, <1>2
  <1>6. ASSUME NEW w \in B, w.ok = TRUE, z \in guard1(w)
        PROVE  Shrunk(x, z) /\ (z.ok = TRUE => Emptied(z.e) /\ z.hw = {})
    <2>1. Shrunk(x, w) /\ w.e.dst = NoRule /\ w.e.src[0] = NoRule /\ Backed(w)
      BY <1>6, <1>2 DEF Shrunk
    <2>2. SrcRemoved(w, 1, z)
      BY ONLY <1>6, <2>1, <1>0, RemoveSrcShrinks, Zenon
    <2>3. Shrunk(x, z) /\ (z.ok = TRUE => Emptied(z.e))
      BY <2>1, <2>2, <1>0, ShrunkTwice DEF Emptied, SrcRemoved
    <2> QED BY <2>3, EmptiedHoldsNothing DEF Shrunk
  <1> QED BY <1>4, <1>5, <1>6

\* A rollback of a failed result that leaves rules with handles.
LEMMA Rollback ==
  ASSUME NEW x, Backed(x), NEW d, NEW z \in fdb_remove(d, [x EXCEPT !.ok = TRUE])
  PROVE  Backed([z EXCEPT !.ok = FALSE]) /\ [z EXCEPT !.ok = FALSE].ok = FALSE
  <1>0. TRUE \in BOOLEAN /\ FALSE \in BOOLEAN
    OBVIOUS
  <1>1. Backed([x EXCEPT !.ok = TRUE]) /\ [x EXCEPT !.ok = TRUE].ok = TRUE
    BY <1>0, OutcomeSet, Zenon
  <1>2. Shrunk([x EXCEPT !.ok = TRUE], z)
    BY <1>1, RemoveShrinks, Zenon
  <1>3. Backed(z)
    BY <1>2 DEF Shrunk
  <1> QED BY <1>0, <1>3, OutcomeSet, Zenon

\* eswitch_pipeline_fdb_add.
Added(p, y) ==
  /\ Backed(y)
  /\ y.ok = TRUE => /\ y.e.dst = p /\ y.e.src[0] = p /\ y.e.src[1] = NoRule
                    /\ y.e.act = 0 /\ y.e.age = 0 /\ y.e.port = p

\* eswitch_pipeline_fdb_add, with the rollback of its second call.
LEMMA AddBacked ==
  ASSUME NEW p \in Port, NEW z \in fdb_add(NewEntry(p), p) PROVE Added(p, z)
  <1> DEFINE e0 == NewEntry(p)
             e1 == [e0 EXCEPT !.dst = p]
             x0 == Done(e0, {})
             guard(y) == Install(y, Rule("src", p), [y.e EXCEPT !.src[0] = p, !.act = 0])
             undo(y)  == fdb_remove("learn", y)
             A == Install(x0, Rule("dst", p), e1)
             B == Then(A, guard)
  <1>0. TRUE \in BOOLEAN /\ FALSE \in BOOLEAN
    OBVIOUS
  <1>1. e0 \in Entry
    BY FdbAssumption DEF NewEntry, Entry, State
  <1>2. /\ e1 \in Entry /\ e1.dst = p /\ e1.src[0] = NoRule /\ e1.src[1] = NoRule
        /\ e1.act = 0 /\ e1.age = 0 /\ e1.port = p
    <2>1. /\ e0.dst = NoRule /\ e0.src[0] = NoRule /\ e0.src[1] = NoRule
          /\ e0.act = 0 /\ e0.age = 0 /\ e0.port = p
      BY DEF NewEntry
    <2> HIDE DEF e0
    <2> QED BY <1>1, <2>1 DEF Entry
  <1>3. Backed(x0) /\ x0.hw = {}
    <2>1. {} \in SUBSET Rules /\ {} \subseteq Handles(e0)
      OBVIOUS
    <2> QED BY <1>0, <1>1, <2>1, MadeBacked, Zenon DEF Done
  <1>4. Rule("dst", p) \in Rules /\ Rule("dst", p) \in Handles(e1) /\ x0.hw \subseteq Handles(e1)
    BY <1>2, <1>3 DEF Rules, Rule, Handles
  <1>5. ASSUME NEW y \in A PROVE Backed(y) /\ (y.ok = TRUE => y.e = e1)
    <2>1. Installed(x0, Rule("dst", p), e1, y)
      BY ONLY <1>5, <1>2, <1>3, <1>4, InstallBacked, Zenon
    <2> QED BY <2>1 DEF Installed
  <1>6. ASSUME NEW y \in B PROVE Added(p, y)
    <2>1. (y \in A /\ y.ok # TRUE) \/ \E w \in A : w.ok = TRUE /\ y \in guard(w)
      BY DEF Then
    <2>2. CASE y \in A /\ y.ok # TRUE
      BY <2>2, <1>5 DEF Added
    <2>3. ASSUME NEW w \in A, w.ok = TRUE, y \in guard(w) PROVE Added(p, y)
      <3> DEFINE e2 == [w.e EXCEPT !.src[0] = p, !.act = 0]
      <3>1. Backed(w) /\ w.e = e1 /\ w.hw \subseteq Handles(e1) /\ w.hw \subseteq Rules
        BY <2>3, <1>5 DEF Backed, Result
      <3> HIDE DEF e1
      <3>2. /\ e2 \in Entry /\ e2.dst = p /\ e2.src[0] = p /\ e2.src[1] = NoRule
            /\ e2.act = 0 /\ e2.age = 0 /\ e2.port = p
        <4> DEFINE f == [w.e EXCEPT !.src[0] = p]
        <4>1. /\ f \in Entry /\ f.dst = p /\ f.src[0] = p /\ f.src[1] = NoRule
              /\ f.act = 0 /\ f.age = 0 /\ f.port = p
          BY <1>2, <3>1 DEF Entry
        <4>2. e2 = [f EXCEPT !.act = 0]
          BY <1>2, <3>1 DEF Entry
        <4> HIDE DEF f, e2
        <4> QED BY <4>1, <4>2 DEF Entry
      <3>3. y \in Install(w, Rule("src", p), e2)
        BY <2>3
      <3> HIDE DEF e2
      <3>4. Rule("src", p) \in Rules /\ Rule("src", p) \in Handles(e2)
        BY <3>2 DEF Rules, Rule, Handles
      <3>5. w.hw \subseteq Handles(e2)
        BY <3>1, <3>2, <1>2, FdbAssumption DEF Rules, Rule, Handles
      <3>6. Installed(w, Rule("src", p), e2, y)
        BY ONLY <3>1, <3>2, <3>3, <3>4, <3>5, InstallBacked, Zenon
      <3> QED BY <3>6, <3>2 DEF Installed, Added
    <2> QED BY <2>1, <2>2, <2>3
  <1>7. z \in OrElse(B, undo)
    BY DEF fdb_add
  <1>8. \/ z \in B
        \/ \E x \in B : \E w \in undo([x EXCEPT !.ok = TRUE]) : z = [w EXCEPT !.ok = FALSE]
    BY <1>7 DEF OrElse
  <1>9. ASSUME NEW x \in B, NEW w \in undo([x EXCEPT !.ok = TRUE]), z = [w EXCEPT !.ok = FALSE]
        PROVE  Added(p, z)
    <2>1. Backed(x)
      BY <1>6 DEF Added
    <2>2. Backed(z) /\ z.ok = FALSE
      BY ONLY <2>1, <1>9, Rollback, Zenon
    <2> QED BY <2>2 DEF Added
  <1> QED BY <1>6, <1>8, <1>9

\* The update of the destination leaves it on one of the two ports.
Redirected(x, from, to, y) ==
  /\ Backed(y)
  /\ y.e.dst \in {from, to}
  /\ y.ok = TRUE => y.e.dst = to
  /\ y.e.src = x.e.src /\ y.e.port = x.e.port /\ y.e.act = x.e.act

\* The destination rule is updated in place, and back after an error.
LEMMA RedirectBacked ==
  ASSUME NEW x, Backed(x), NEW from \in Port, NEW to \in Port, x.e.dst \in {from, to},
         NEW y \in Redirect(x, from, to)
  PROVE  Redirected(x, from, to, y)
  <1> DEFINE old == Rule("dst", from)
             new == Rule("dst", to)
             at(d) == [x.e EXCEPT !.dst = d]
             done == (x.hw \ {old}) \union {new}
             half(d) == (x.hw \ {old, new}) \union {Rule("dst", d)}
  <1>0. TRUE \in BOOLEAN /\ FALSE \in BOOLEAN
    OBVIOUS
  <1>1. x.e \in Entry /\ x.hw \in SUBSET Rules /\ x.hw \subseteq Handles(x.e)
    BY DEF Backed, Result
  <1>2. \A d \in Port : /\ at(d) \in Entry /\ at(d).dst = d /\ at(d).src = x.e.src
                        /\ at(d).port = x.e.port /\ at(d).act = x.e.act
    BY <1>1 DEF Entry
  <1>3. \/ y = [ok |-> TRUE, e |-> at(to), hw |-> done]
        \/ \E d \in {from, to} : y = [ok |-> FALSE, e |-> at(d), hw |-> half(d)]
    BY DEF Redirect, Done
  <1>4. done \in SUBSET Rules /\ \A d \in {from, to} : half(d) \in SUBSET Rules
    BY <1>1 DEF Rules, Rule
  <1> HIDE DEF at
  <1>5. done \subseteq Handles(at(to))
    BY <1>1, <1>2 DEF Handles, Rule
  <1>6. \A d \in {from, to} : half(d) \subseteq Handles(at(d))
    BY <1>1, <1>2 DEF Handles, Rule
  <1> HIDE DEF done, half
  <1>7. CASE y = [ok |-> TRUE, e |-> at(to), hw |-> done]
    <2>1. Backed(y)
      BY ONLY <1>7, <1>0, <1>2, <1>4, <1>5, to \in Port, MadeBacked, Zenon
    <2> QED BY <2>1, <1>7, <1>2 DEF Redirected
  <1>8. ASSUME NEW d \in {from, to}, y = [ok |-> FALSE, e |-> at(d), hw |-> half(d)]
        PROVE  Redirected(x, from, to, y)
    <2>0. d \in Port
      OBVIOUS
    <2>1. Backed(y)
      BY ONLY <2>0, d \in {from, to}, <1>8, <1>0, <1>2, <1>4, <1>6, MadeBacked, Zenon
    <2> QED BY <2>0, <2>1, <1>8, <1>2 DEF Redirected
  <1> QED BY <1>3, <1>7, <1>8

\* Which of the two guards is active does not matter for the handles.
LEMMA ActiveSet ==
  ASSUME NEW x, Backed(x), NEW a \in {0, 1}
  PROVE  LET y == [x EXCEPT !.e.act = a]
         IN /\ Backed(y) /\ y.ok = x.ok /\ y.hw = x.hw
            /\ y.e.act = a /\ y.e.dst = x.e.dst /\ y.e.src = x.e.src
            /\ y.e.port = x.e.port
  <1> DEFINE f == [x.e EXCEPT !.act = a]
             y == [x EXCEPT !.e.act = a]
  <1>1. x \in Result /\ x.ok \in BOOLEAN /\ x.e \in Entry /\ x.hw \in SUBSET Rules
        /\ x.hw \subseteq Handles(x.e)
    BY DEF Backed, Result
  <1>2. y = [ok |-> x.ok, e |-> f, hw |-> x.hw]
    BY <1>1 DEF Result
  <1>3. f \in Entry /\ f.act = a /\ f.dst = x.e.dst /\ f.src = x.e.src /\ f.port = x.e.port
    BY <1>1 DEF Entry
  <1> HIDE DEF f, y
  <1>4. x.hw \subseteq Handles(f)
    BY <1>1, <1>3 DEF Handles
  <1>5. Backed(y)
    BY ONLY <1>1, <1>2, <1>3, <1>4, MadeBacked, Zenon
  <1>6. y.ok = x.ok /\ y.hw = x.hw /\ y.e = f
    BY <1>2, Zenon
  <1> QED BY <1>3, <1>5, <1>6, Zenon DEF y

\* eswitch_pipeline_fdb_move of an entry whose handles are settled.
MovedTo(e, p, y) ==
  /\ Backed(y)
  /\ y.ok = TRUE => /\ y.e.dst = p /\ y.e.act = 1 - e.act
                    /\ y.e.src[1 - e.act] = p /\ y.e.src[e.act] = NoRule

\* eswitch_pipeline_fdb_move: four calls and their rollback.
LEMMA MoveBacked ==
  ASSUME NEW e \in Entry, NEW hw \in SUBSET Rules, hw \subseteq Handles(e), Settled(e),
         NEW p \in Port, NEW z \in fdb_move(e, hw, p)
  PROVE  MovedTo(e, p, z)
  <1> DEFINE old  == e.act
             new  == 1 - e.act
             dropNew(x) == RemoveSrc("learn", x, new)
             e1 == [e EXCEPT !.src[new] = p]
             x0 == Done(e, hw)
             A  == Install(x0, Rule("src", p), e1)
             guarded  == OrElse(A, dropNew)
             redirect(x) == Redirect(x, e.port, p)
             dropOld(x)  == RemoveSrc("learn", x, old)
             restore(x)  == Then(Redirect(x, p, e.port), dropNew)
             B(x) == Then(redirect(x), dropOld)
             switch(x)   == {[y EXCEPT !.e.act = IF y.ok THEN new ELSE old] :
                               y \in OrElse(B(x), restore)}
  <1>0. /\ TRUE \in BOOLEAN /\ FALSE \in BOOLEAN
        /\ old \in {0, 1} /\ new \in {0, 1} /\ old # new /\ 1 - new = old
        /\ e.port \in Port
    BY DEF Entry
  <1>1. Backed(x0) /\ x0.e = e /\ x0.hw = hw /\ x0.ok = TRUE
    <2>1. Backed(x0)
      BY ONLY <1>0, e \in Entry, hw \in SUBSET Rules, hw \subseteq Handles(e), MadeBacked, Zenon
         DEF Done
    <2> QED BY <2>1, Zenon DEF Done
  <1>2. CASE e.dst = NoRule \/ e.src[old] = NoRule \/ e.src[new] # NoRule
    <2>1. z = [ok |-> FALSE, e |-> e, hw |-> hw]
      BY <1>2 DEF fdb_move
    <2>2. Backed(z)
      BY ONLY <2>1, <1>0, e \in Entry, hw \in SUBSET Rules, hw \subseteq Handles(e), MadeBacked, Zenon
    <2>3. z.ok = FALSE
      BY <2>1, Zenon
    <2> QED BY <2>2, <2>3 DEF MovedTo
  <1>3. CASE ~ (e.dst = NoRule \/ e.src[old] = NoRule \/ e.src[new] # NoRule)
    <2>1. z \in Then(guarded, switch)
      BY <1>3 DEF fdb_move
    <2>2. (z \in guarded /\ z.ok # TRUE) \/ \E w \in guarded : w.ok = TRUE /\ z \in switch(w)
      BY <2>1 DEF Then
    <2>3. /\ e.dst = e.port /\ e.src[old] = e.port /\ e.src[new] = NoRule
      BY <1>3, <1>0 DEF Settled
    <2>4. /\ e1 \in Entry /\ e1.dst = e.port /\ e1.port = e.port /\ e1.act = e.act
          /\ e1.src[new] = p /\ e1.src[old] = e.port
      BY <2>3, <1>0 DEF Entry
    <2>5. /\ Rule("src", p) \in Rules /\ Rule("src", p) \in Handles(e1)
          /\ x0.hw \subseteq Handles(e1)
      <3> HIDE DEF e1, x0
      <3>1. Rule("src", p) \in Rules /\ Rule("src", p) \in Handles(e1)
        BY <2>4, <1>0 DEF Rules, Rule, Handles
      <3>2. hw \subseteq Handles(e1)
        BY <2>3, <2>4, <1>0, FdbAssumption DEF Rules, Rule, Handles
      <3> QED BY <3>1, <3>2, <1>1
    <2> HIDE DEF e1, x0
    <2>6. ASSUME NEW y \in A PROVE Backed(y) /\ (y.ok = TRUE => y.e = e1)
      <3>1. Installed(x0, Rule("src", p), e1, y)
        BY ONLY y \in A, <1>1, <2>4, <2>5, InstallBacked, Zenon
      <3> QED BY <3>1 DEF Installed
    <2>7. ASSUME NEW y \in guarded PROVE Backed(y) /\ (y.ok = TRUE => y.e = e1)
      <3>1. \/ y \in A
            \/ \E x \in A : \E w \in dropNew([x EXCEPT !.ok = TRUE]) : y = [w EXCEPT !.ok = FALSE]
        BY DEF OrElse
      <3>2. ASSUME NEW x \in A, NEW w \in dropNew([x EXCEPT !.ok = TRUE]),
                   y = [w EXCEPT !.ok = FALSE]
            PROVE  Backed(y) /\ (y.ok = TRUE => y.e = e1)
        <4>1. Backed([x EXCEPT !.ok = TRUE]) /\ [x EXCEPT !.ok = TRUE].ok = TRUE
          BY <2>6, <1>0, OutcomeSet, Zenon
        <4>2. SrcRemoved([x EXCEPT !.ok = TRUE], new, w)
          BY ONLY <4>1, <1>0, w \in dropNew([x EXCEPT !.ok = TRUE]), RemoveSrcShrinks, Zenon
        <4>3. Backed(w)
          BY <4>2 DEF SrcRemoved, Shrunk
        <4>4. Backed(y) /\ y.ok = FALSE
          BY ONLY <3>2, <4>3, <1>0, OutcomeSet, Zenon
        <4> QED BY <4>4
      <3> QED BY <3>1, <3>2, <2>6
    <2>8. CASE z \in guarded /\ z.ok # TRUE
      BY <2>7, <2>8 DEF MovedTo
    <2>9. ASSUME NEW w \in guarded, w.ok = TRUE, z \in switch(w) PROVE MovedTo(e, p, z)
      <3> DEFINE Over(y) == /\ y.e.dst = p /\ y.e.src[new] = p /\ y.e.src[old] = NoRule
                 R == redirect(w)
      <3>1. Backed(w) /\ w.e = e1 /\ w.e.dst \in {e.port, p}
        BY <2>7, <2>9, <2>4
      <3>2. ASSUME NEW y \in R
            PROVE  /\ Backed(y) /\ y.e.dst \in {e.port, p} /\ (y.ok = TRUE => y.e.dst = p)
                   /\ y.e.src[new] = p
        <4>1. Redirected(w, e.port, p, y)
          BY ONLY y \in R, <3>1, <1>0, p \in Port, RedirectBacked, Zenon
        <4> QED BY <4>1, <3>1, <2>4 DEF Redirected
      <3>3. ASSUME NEW y \in B(w)
            PROVE  Backed(y) /\ y.e.dst \in {e.port, p} /\ (y.ok = TRUE => Over(y))
        <4>1. (y \in R /\ y.ok # TRUE) \/ \E v \in R : v.ok = TRUE /\ y \in dropOld(v)
          BY DEF Then
        <4>2. ASSUME NEW v \in R, v.ok = TRUE, y \in dropOld(v)
              PROVE  Backed(y) /\ y.e.dst \in {e.port, p} /\ (y.ok = TRUE => Over(y))
          <5>1. Backed(v) /\ v.e.dst = p /\ v.e.src[new] = p
            BY <3>2, <4>2
          <5>2. SrcRemoved(v, old, y)
            BY ONLY <5>1, <4>2, <1>0, RemoveSrcShrinks, Zenon
          <5> QED BY <5>1, <5>2, <1>0 DEF SrcRemoved, Shrunk
        <4> QED BY <4>1, <4>2, <3>2
      <3>4. ASSUME NEW x, Backed(x), x.e.dst \in {e.port, p}, x.ok = TRUE, NEW y \in restore(x)
            PROVE  Backed(y)
        <4> DEFINE Q == Redirect(x, p, e.port)
        <4>1. y \in Q \/ \E v \in Q : v.ok = TRUE /\ y \in dropNew(v)
          BY DEF Then
        <4>2. ASSUME NEW v \in Q PROVE Backed(v)
          <5>1. x.e.dst \in {p, e.port}
            BY <3>4
          <5>2. Redirected(x, p, e.port, v)
            BY ONLY v \in Q, <5>1, <3>4, <1>0, p \in Port, RedirectBacked, Zenon
          <5> QED BY <5>2 DEF Redirected
        <4>3. ASSUME NEW v \in Q, v.ok = TRUE, y \in dropNew(v) PROVE Backed(y)
          <5>1. SrcRemoved(v, new, y)
            BY ONLY <4>2, <4>3, <1>0, RemoveSrcShrinks, Zenon
          <5> QED BY <5>1 DEF SrcRemoved, Shrunk
        <4> QED BY <4>1, <4>2, <4>3
      <3>5. ASSUME NEW u \in OrElse(B(w), restore)
            PROVE  Backed(u) /\ (u.ok = TRUE => Over(u))
        <4> HIDE DEF B, restore
        <4>1. \/ u \in B(w)
              \/ \E x \in B(w) : \E t \in restore([x EXCEPT !.ok = TRUE]) : u = [t EXCEPT !.ok = FALSE]
          BY DEF OrElse
        <4>2. ASSUME NEW x \in B(w), NEW t \in restore([x EXCEPT !.ok = TRUE]),
                     u = [t EXCEPT !.ok = FALSE]
              PROVE  Backed(u) /\ u.ok = FALSE
          <5> DEFINE v == [x EXCEPT !.ok = TRUE]
          <5>1. Backed(v) /\ v.ok = TRUE /\ v.e = x.e
            BY <3>3, <1>0, OutcomeSet, Zenon
          <5>2. v.e.dst \in {e.port, p}
            BY <5>1, <3>3
          <5>3. t \in restore(v)
            OBVIOUS
          <5> HIDE DEF v
          <5>4. Backed(t)
            BY <5>1, <5>2, <5>3, <3>4
          <5> QED BY ONLY <4>2, <5>4, <1>0, OutcomeSet, Zenon
        <4> QED BY <4>1, <4>2, <3>3
      <3>6. PICK u \in OrElse(B(w), restore) :
              z = [u EXCEPT !.e.act = IF u.ok THEN new ELSE old]
        BY <2>9
      <3> DEFINE a == IF u.ok THEN new ELSE old
      <3>7. a \in {0, 1} /\ (u.ok = TRUE => a = new)
        BY <1>0
      <3>8. Backed(u) /\ (u.ok = TRUE => Over(u))
        BY <3>5
      <3>9. z = [u EXCEPT !.e.act = a]
        BY <3>6
      <3> HIDE DEF a
      <3>10. /\ Backed(z) /\ z.ok = u.ok /\ z.e.act = a /\ z.e.dst = u.e.dst
             /\ z.e.src = u.e.src
        BY ONLY <3>7, <3>8, <3>9, ActiveSet, Zenon
      <3> QED BY ONLY <3>7, <3>8, <3>10 DEF MovedTo
    <2> QED BY <2>2, <2>8, <2>9
  <1> QED BY <1>2, <1>3

-----------------------------------------------------------------------------
(***************************************************************************)
(* The invariant of one key: e is its entry, hw its rules, s the silence   *)
(* of the station, u whether the daemon runs.                              *)
(***************************************************************************)
\* A counter that has not grown bounds the age by the silence.
Quiet(e, s) == s < Aging /\ e.fresh # TRUE => e.age <= s

KeyInv(e, hw, s, u) ==
  /\ e = Free => hw = {}
  /\ e # Free => /\ e \in Entry /\ hw \in SUBSET Rules /\ hw \subseteq Handles(e)
                 /\ u = TRUE => Settled(e) /\ Quiet(e, s)

\* A shrunken entry stays settled.
LEMMA ShrunkSettled ==
  ASSUME NEW x, Backed(x), NEW y, Shrunk(x, y), NEW s, Settled(x.e), Quiet(x.e, s)
  PROVE  Settled(y.e) /\ Quiet(y.e, s)
  <1>1. x.e \in Entry /\ x.e.act \in {0, 1}
    BY DEF Backed, Result, Entry
  <1>2. Settled(y.e)
    <2>1. CASE x.e.act = 0
      BY <2>1 DEF Shrunk, Settled
    <2>2. CASE x.e.act = 1
      BY <2>2 DEF Shrunk, Settled
    <2> QED BY <1>1, <2>1, <2>2
  <1>3. Quiet(y.e, s)
    BY Zenon DEF Shrunk, Quiet
  <1> QED BY <1>2, <1>3

\* remove_at.
RemovedAt(s, x) ==
  /\ KeyInv(x.e, x.hw, s, TRUE)
  /\ x.ok = TRUE => x.e = Free
  /\ x.ok # TRUE => Backed(x)

\* remove_at: an entry whose rules could not be removed stays listed.
LEMMA RemoveAtKey ==
  ASSUME NEW e \in Entry, NEW hw, NEW s, KeyInv(e, hw, s, TRUE), NEW x \in remove_at(e, hw)
  PROVE  RemovedAt(s, x)
  <1> DEFINE x0 == Done(e, hw)
  <1>0. /\ e # Free /\ hw \in SUBSET Rules /\ hw \subseteq Handles(e) /\ Settled(e) /\ Quiet(e, s)
        /\ TRUE \in BOOLEAN
    BY FreeAssumption DEF KeyInv
  <1>1. Backed(x0) /\ x0.e = e /\ x0.ok = TRUE
    <2>1. Backed(x0)
      BY ONLY <1>0, e \in Entry, MadeBacked, Zenon DEF Done
    <2> QED BY <2>1, Zenon DEF Done
  <1>2. PICK y \in fdb_remove("remove", x0) : x = IF y.ok THEN [y EXCEPT !.e = Free] ELSE y
    BY DEF remove_at
  <1> HIDE DEF x0
  <1>3. Shrunk(x0, y) /\ (y.ok = TRUE => Emptied(y.e) /\ y.hw = {})
    BY ONLY <1>1, y \in fdb_remove("remove", x0), RemoveShrinks, Zenon
  <1>4. Backed(y)
    BY <1>3 DEF Shrunk
  <1>5. CASE y.ok = TRUE
    <2>1. x.e = Free /\ x.hw = {} /\ x.ok = TRUE
      BY <1>2, <1>3, <1>4, <1>5 DEF Backed, Result
    <2> QED BY <2>1 DEF RemovedAt, KeyInv
  <1>6. CASE y.ok # TRUE
    <2>1. x = y
      BY <1>2, <1>6
    <2>2. Settled(y.e) /\ Quiet(y.e, s)
      BY ONLY <1>0, <1>1, <1>3, <1>4, ShrunkSettled, Zenon
    <2>3. y.e \in Entry /\ y.hw \in SUBSET Rules /\ y.hw \subseteq Handles(y.e)
      BY <1>4 DEF Backed, Result
    <2> QED BY <2>1, <2>2, <2>3, <1>4, <1>6, FreeAssumption DEF RemovedAt, KeyInv
  <1> QED BY <1>5, <1>6

\* eswitch_fdb_learn.
Learned(x) ==
  /\ x.ok \in BOOLEAN
  /\ x.e \in Entry \union {Free} /\ x.hw \in SUBSET Rules
  /\ KeyInv(x.e, x.hw, 0, x.ok)

\* eswitch_fdb_learn on one key, within the capacity of the list.
LEMMA LearnKey ==
  ASSUME NEW t, NEW hw, NEW k \in Key, NEW p \in Port, NEW s,
         t[k] \in Entry \union {Free}, KeyInv(t[k], hw[k], s, TRUE),
         IsFiniteSet(Listed(t)),
         NEW x \in eswitch_fdb_learn(t, hw, k, p)
  PROVE  /\ Learned(x)
         /\ x.e # Free => t[k] # Free \/ Cardinality(Listed(t)) < FdbCapacity
  <1>0. TRUE \in BOOLEAN /\ FALSE \in BOOLEAN /\ {} \in SUBSET Rules /\ Aging \in Nat /\ 0 < Aging
    BY FdbAssumption
  <1>c. Cardinality(Listed(t)) \in Nat /\ FdbCapacity \in Nat
    BY FS_CardinalityType, FdbAssumption
  <1>1. CASE t[k] = Free /\ Cardinality(Listed(t)) >= FdbCapacity
    <2>1. x = [ok |-> FALSE, e |-> Free, hw |-> hw[k]]
      BY <1>1, <1>c DEF eswitch_fdb_learn
    <2>2. x.ok = FALSE /\ x.e = Free /\ x.hw = {}
      BY <2>1, <1>1 DEF KeyInv
    <2> QED BY <2>2, <1>0 DEF Learned, KeyInv
  <1>2. CASE t[k] = Free /\ Cardinality(Listed(t)) < FdbCapacity
    <2>1. PICK y \in fdb_add(NewEntry(p), p) : x = ListedIfHeld(y)
      BY <1>2, <1>c DEF eswitch_fdb_learn
    <2>2. Added(p, y)
      BY AddBacked
    <2>3. /\ y \in Result /\ y.e \in Entry /\ y.hw \in SUBSET Rules /\ y.ok \in BOOLEAN
          /\ y.hw \subseteq Handles(y.e)
      BY <2>2 DEF Added, Backed, Result
    <2>4. CASE y.ok = TRUE \/ Holds(y.e)
      <3>1. x = y
        BY <2>1, <2>4 DEF ListedIfHeld
      <3>2. y.ok = TRUE => Settled(y.e) /\ Quiet(y.e, 0)
        <4>1. 1 - 0 = 1 /\ 0 <= 0
          OBVIOUS
        <4> QED BY <4>1, <2>2, Zenon DEF Added, Settled, Quiet
      <3> QED BY <3>1, <3>2, <2>3, <1>2, FreeAssumption DEF Learned, KeyInv
    <2>5. CASE ~ (y.ok = TRUE \/ Holds(y.e))
      <3>1. x = [y EXCEPT !.e = Free]
        BY <2>1, <2>5 DEF ListedIfHeld
      <3>2. Emptied(y.e)
        BY <2>5 DEF Holds, Emptied
      <3>3. y.hw = {}
        BY <3>2, <2>2, EmptiedHoldsNothing DEF Added
      <3>4. x.e = Free /\ x.hw = {} /\ x.ok = y.ok
        BY <3>1, <3>3, <2>3 DEF Result
      <3> QED BY <3>4, <2>3, <1>0 DEF Learned, KeyInv
    <2> QED BY <2>4, <2>5
  <1>3. CASE t[k] # Free /\ t[k].port = p
    <2> DEFINE f == [t[k] EXCEPT !.age = 0]
    <2>1. x = Done(f, hw[k])
      BY <1>3 DEF eswitch_fdb_learn
    <2>2. /\ t[k] \in Entry /\ hw[k] \in SUBSET Rules /\ hw[k] \subseteq Handles(t[k])
          /\ Settled(t[k])
      BY <1>3 DEF KeyInv
    <2>3. /\ f \in Entry /\ f.age = 0 /\ f.dst = t[k].dst /\ f.src = t[k].src
          /\ f.port = t[k].port /\ f.act = t[k].act
      BY <2>2, FdbAssumption DEF Entry
    <2> HIDE DEF f
    <2>4. hw[k] \subseteq Handles(f) /\ Settled(f) /\ Quiet(f, 0)
      BY <2>2, <2>3, <1>0 DEF Handles, Settled, Quiet
    <2>5. x.ok = TRUE /\ x.e = f /\ x.hw = hw[k]
      BY <2>1 DEF Done
    <2> QED BY <2>2, <2>3, <2>4, <2>5, <1>3, FreeAssumption DEF Learned, KeyInv
  <1>4. CASE t[k] # Free /\ t[k].port # p
    <2>1. PICK y \in fdb_move(t[k], hw[k], p) : x = Moved(y, p)
      BY <1>4 DEF eswitch_fdb_learn
    <2>2. /\ t[k] \in Entry /\ hw[k] \in SUBSET Rules /\ hw[k] \subseteq Handles(t[k])
          /\ Settled(t[k]) /\ t[k].act \in {0, 1}
      BY <1>4 DEF KeyInv, Entry
    <2>3. MovedTo(t[k], p, y)
      BY ONLY <2>2, p \in Port, y \in fdb_move(t[k], hw[k], p), MoveBacked, Zenon
    <2>4. /\ y \in Result /\ y.e \in Entry /\ y.hw \in SUBSET Rules /\ y.ok \in BOOLEAN
          /\ y.hw \subseteq Handles(y.e)
      BY <2>3 DEF MovedTo, Backed, Result
    <2>5. CASE y.ok = TRUE
      <3> DEFINE f == [y.e EXCEPT !.port = p, !.age = 0, !.fresh = FALSE]
      <3>1. x.e = f /\ x.hw = y.hw /\ x.ok = TRUE
        BY <2>1, <2>4, <2>5 DEF Moved, Result
      <3>2. /\ f \in Entry /\ f.age = 0 /\ f.dst = y.e.dst /\ f.src = y.e.src
            /\ f.port = p /\ f.act = y.e.act
        <4> DEFINE g == [y.e EXCEPT !.port = p, !.age = 0]
        <4> DEFINE h == [y.e EXCEPT !.port = p]
        <4>0. /\ h \in Entry /\ h.dst = y.e.dst /\ h.src = y.e.src
              /\ h.port = p /\ h.act = y.e.act
          BY <2>4 DEF Entry
        <4>a. g = [h EXCEPT !.age = 0]
          BY <2>4 DEF Entry
        <4>1. /\ g \in Entry /\ g.age = 0 /\ g.dst = y.e.dst /\ g.src = y.e.src
              /\ g.port = p /\ g.act = y.e.act
          <5> HIDE DEF g, h
          <5> QED BY <4>0, <4>a, FdbAssumption DEF Entry
        <4>2. f = [g EXCEPT !.fresh = FALSE]
          BY <2>4 DEF Entry
        <4> HIDE DEF f, g
        <4> QED BY <4>1, <4>2 DEF Entry
      <3> HIDE DEF f
      <3>3. f.dst = p /\ f.act = 1 - t[k].act /\ f.src[f.act] = p /\ f.src[t[k].act] = NoRule
            /\ 1 - f.act = t[k].act
        BY <2>2, <2>3, <2>5, <3>2 DEF MovedTo
      <3>4. y.hw \subseteq Handles(f) /\ Settled(f) /\ Quiet(f, 0)
        BY <2>4, <3>2, <3>3, <1>0 DEF Handles, Settled, Quiet
      <3> QED BY <3>1, <3>2, <3>4, <2>4, <1>4, FreeAssumption DEF Learned, KeyInv
    <2>6. CASE y.ok # TRUE
      <3>1. x = y
        BY <2>1, <2>6 DEF Moved
      <3> QED BY <3>1, <2>4, <2>6, <1>4, FreeAssumption DEF Learned, KeyInv
    <2> QED BY <2>5, <2>6
  <1> QED
    BY <1>1, <1>2, <1>3, <1>4, <1>c

-----------------------------------------------------------------------------
(***************************************************************************)
(* eswitch_fdb_age changes the bookkeeping of an entry, not its handles.   *)
(***************************************************************************)
Kin(e, f) ==
  f \in Entry /\ f.port = e.port /\ f.dst = e.dst /\ f.src = e.src /\ f.act = e.act

Twin(e, f) == Kin(e, f) /\ f.age = e.age /\ f.fresh = e.fresh

\* The retry counters stay within their cap.
LEMMA CountType ==
  ASSUME NEW n \in 0..MaxRetries PROVE Count(n) \in 0..MaxRetries
  BY FdbAssumption DEF Count, Lower

\* retry_delay_ns never exceeds its maximum.
LEMMA DelayType ==
  ASSUME NEW n \in 0..MaxRetries PROVE Delay(n) \in 0..RetryMax
  <1>1. n \in Nat /\ RetryMax \in Nat
    BY FdbAssumption
  <1>2. CASE n = 0
    BY <1>1, <1>2 DEF Delay
  <1>3. CASE n >= 6
    BY <1>1, <1>3 DEF Delay
  <1>4. CASE n \in 1..5
    <2>1. Shifted[n] \in Nat
      BY <1>4 DEF Shifted
    <2> QED BY <1>1, <1>4, <2>1 DEF Delay, Lower
  <1> QED BY <1>1, <1>2, <1>3, <1>4

\* One field of an entry at a time: the state,
LEMMA SetSt ==
  ASSUME NEW e \in Entry, NEW v \in State PROVE Twin(e, [e EXCEPT !.st = v])
  BY DEF Entry, Twin, Kin

\* the failed queries,
LEMMA SetQr ==
  ASSUME NEW e \in Entry, NEW v \in 0..MaxRetries PROVE Twin(e, [e EXCEPT !.qr = v])
  BY DEF Entry, Twin, Kin

\* the failed removals,
LEMMA SetDr ==
  ASSUME NEW e \in Entry, NEW v \in 0..MaxRetries PROVE Twin(e, [e EXCEPT !.dr = v])
  BY DEF Entry, Twin, Kin

\* the retry delay,
LEMMA SetWait ==
  ASSUME NEW e \in Entry, NEW v \in 0..RetryMax PROVE Twin(e, [e EXCEPT !.wait = v])
  BY DEF Entry, Twin, Kin

\* the age,
LEMMA SetAge ==
  ASSUME NEW e \in Entry, NEW v \in 0..(Aging + Grace)
  PROVE  LET f == [e EXCEPT !.age = v] IN Kin(e, f) /\ f.age = v /\ f.fresh = e.fresh
  BY DEF Entry, Kin

\* and whether the counter has grown.
LEMMA SetFresh ==
  ASSUME NEW e \in Entry, NEW v \in BOOLEAN
  PROVE  LET f == [e EXCEPT !.fresh = v] IN Kin(e, f) /\ f.age = e.age /\ f.fresh = v
  BY DEF Entry, Kin

\* Counting a failure: the state, one counter and the delay.
LEMMA QueryFailedTwin ==
  ASSUME NEW e \in Entry PROVE Twin(e, QueryFailed(e))
  <1> DEFINE d == IF e.age >= Aging + Grace THEN "DELETE_PENDING" ELSE "QUERY_RETRY"
             w == IF e.age >= Aging + Grace THEN 0 ELSE Delay(Count(e.qr))
             f == [e EXCEPT !.st = d]
             g == [f EXCEPT !.qr = Count(@)]
             h == [g EXCEPT !.wait = w]
  <1>1. QueryFailed(e) = h
    BY DEF QueryFailed, Entry
  <1>2. e.qr \in 0..MaxRetries /\ f.qr = e.qr
    BY DEF Entry
  <1>3. d \in State /\ Count(f.qr) \in 0..MaxRetries /\ w \in 0..RetryMax
    BY <1>2, CountType, DelayType, FdbAssumption DEF State
  <1>4. g = [f EXCEPT !.qr = Count(f.qr)]
    OBVIOUS
  <1> HIDE DEF d, w
  <1>5. Twin(e, f)
    BY <1>3, SetSt
  <1> HIDE DEF f
  <1>6. Twin(f, g)
    BY <1>3, <1>4, <1>5, SetQr DEF Twin, Kin
  <1> HIDE DEF g
  <1>7. Twin(g, h)
    BY <1>3, <1>6, SetWait DEF Twin, Kin
  <1> HIDE DEF h
  <1> QED BY <1>1, <1>5, <1>6, <1>7 DEF Twin, Kin

\* Counting a failed removal.
LEMMA RemoveFailedTwin ==
  ASSUME NEW x, Backed(x), x.ok # TRUE
  PROVE  LET y == RemoveFailed(x)
         IN y.ok = x.ok /\ y.hw = x.hw /\ Twin(x.e, y.e)
  <1> DEFINE y == RemoveFailed(x)
             w == Delay(Count(x.e.dr))
             f == [x.e EXCEPT !.st = "DELETE_PENDING"]
             g == [f EXCEPT !.dr = Count(@)]
             h == [g EXCEPT !.wait = w]
  <1>0. x \in Result /\ x.e \in Entry
    BY DEF Backed, Result
  <1>1. y = [x EXCEPT !.e = h]
    BY <1>0 DEF RemoveFailed, Entry, Result
  <1>2. x.e.dr \in 0..MaxRetries /\ f.dr = x.e.dr
    BY <1>0 DEF Entry
  <1>3. "DELETE_PENDING" \in State /\ Count(f.dr) \in 0..MaxRetries /\ w \in 0..RetryMax
    BY <1>2, CountType, DelayType DEF State
  <1>4. g = [f EXCEPT !.dr = Count(f.dr)]
    OBVIOUS
  <1> HIDE DEF w
  <1>5. Twin(x.e, f)
    BY <1>0, <1>3, SetSt
  <1> HIDE DEF f
  <1>6. Twin(f, g)
    BY <1>3, <1>4, <1>5, SetDr DEF Twin, Kin
  <1> HIDE DEF g
  <1>7. Twin(g, h)
    BY <1>3, <1>6, SetWait DEF Twin, Kin
  <1> HIDE DEF h
  <1>8. Twin(x.e, h)
    BY <1>5, <1>6, <1>7 DEF Twin, Kin
  <1>9. y.ok = x.ok /\ y.hw = x.hw /\ y.e = h
    BY <1>0, <1>1 DEF Result
  <1> QED BY <1>8, <1>9

\* A query that answers: a counter that has grown makes the entry young.
LEMMA QueriedKin ==
  ASSUME NEW e \in Entry
  PROVE  LET f == Queried(e)
         IN /\ Kin(e, f) /\ f.fresh = FALSE
            /\ f.age = IF e.fresh = TRUE THEN 0 ELSE e.age
  <1> DEFINE a == IF e.fresh = TRUE THEN 0 ELSE e.age
             f == [e EXCEPT !.st = "ACTIVE"]
             g == [f EXCEPT !.qr = 0]
             h == [g EXCEPT !.wait = 0]
             i == [h EXCEPT !.fresh = FALSE]
             j == [i EXCEPT !.age = a]
  <1>0. Queried(e) = j
    BY DEF Queried, Entry
  <1>1. "ACTIVE" \in State /\ 0 \in 0..MaxRetries /\ 0 \in 0..RetryMax
        /\ a \in 0..(Aging + Grace) /\ FALSE \in BOOLEAN
    BY FdbAssumption DEF State, Entry
  <1> HIDE DEF a
  <1>2. Twin(e, f)
    BY <1>1, SetSt
  <1> HIDE DEF f
  <1>3. Twin(f, g)
    BY <1>1, <1>2, SetQr DEF Twin, Kin
  <1> HIDE DEF g
  <1>4. Twin(g, h)
    BY <1>1, <1>3, SetWait DEF Twin, Kin
  <1> HIDE DEF h
  <1>5. Kin(h, i) /\ i.fresh = FALSE
    BY <1>1, <1>4, SetFresh DEF Twin, Kin
  <1> HIDE DEF i
  <1>6. Kin(i, j) /\ j.age = a /\ j.fresh = i.fresh
    BY <1>1, <1>5, SetAge DEF Kin
  <1> HIDE DEF j
  <1>7. Kin(e, j)
    BY <1>2, <1>3, <1>4, <1>5, <1>6 DEF Twin, Kin
  <1> QED BY <1>0, <1>5, <1>6, <1>7, Zenon DEF a

\* Bookkeeping keeps the invariant of a key.
LEMMA KinKey ==
  ASSUME NEW e \in Entry, NEW hw, NEW s, NEW u, KeyInv(e, hw, s, u), NEW f, Kin(e, f),
         u = TRUE => Quiet(f, s)
  PROVE  KeyInv(f, hw, s, u) /\ f # Free
  <1>1. /\ e # Free /\ f # Free /\ f \in Entry /\ hw \in SUBSET Rules /\ hw \subseteq Handles(e)
        /\ u = TRUE => Settled(e)
    BY FreeAssumption DEF KeyInv, Kin
  <1>2. hw \subseteq Handles(f) /\ (u = TRUE => Settled(f))
    BY <1>1 DEF Kin, Handles, Settled
  <1> QED BY <1>1, <1>2 DEF KeyInv

\* The removal of an aged entry.
LEMMA AgeOutKey ==
  ASSUME NEW e \in Entry, NEW hw, NEW s, KeyInv(e, hw, s, TRUE), NEW z \in AgeOut(e, hw)
  PROVE  KeyInv(z.e, z.hw, s, TRUE)
  <1>1. PICK x \in remove_at(e, hw) : z = RemoveFailed(x)
    BY DEF AgeOut
  <1>2. RemovedAt(s, x)
    BY ONLY e \in Entry, KeyInv(e, hw, s, TRUE), x \in remove_at(e, hw), RemoveAtKey, Zenon
  <1>3. CASE x.ok = TRUE
    <2>1. z = x
      BY <1>1, <1>3 DEF RemoveFailed
    <2> QED BY <2>1, <1>2 DEF RemovedAt
  <1>4. CASE x.ok # TRUE
    <2>1. Backed(x) /\ KeyInv(x.e, x.hw, s, TRUE) /\ x.e \in Entry
      BY <1>2, <1>4 DEF RemovedAt, Backed, Result
    <2>2. z.hw = x.hw /\ Twin(x.e, z.e)
      BY ONLY <1>1, <1>4, <2>1, RemoveFailedTwin, Zenon
    <2>3. Kin(x.e, z.e)
      BY <2>2 DEF Twin
    <2>4. Quiet(z.e, s)
      BY <2>1, <2>2, FreeAssumption DEF Twin, Quiet, KeyInv
    <2>5. KeyInv(z.e, x.hw, s, TRUE)
      BY ONLY <2>1, <2>3, <2>4, KinKey, Zenon
    <2> QED BY <2>2, <2>5
  <1> QED BY <1>3, <1>4

\* eswitch_fdb_age on one entry.
AgedKey(e, s, z) ==
  /\ KeyInv(z.e, z.hw, s, TRUE)
  /\ z.e = Free => s >= Aging \/ e.st = "DELETE_PENDING"

\* One entry in a scan of eswitch_fdb_age.
LEMMA AgeKey ==
  ASSUME NEW e \in Entry, NEW hw, NEW s \in 0..Aging, KeyInv(e, hw, s, TRUE),
         NEW z \in AgeResults(e, hw)
  PROVE  AgedKey(e, s, z)
  <1>0. e # Free /\ Quiet(e, s) /\ s \in Nat /\ Aging \in Nat /\ e.age \in Nat /\ 0 < Aging
    BY FreeAssumption, FdbAssumption DEF KeyInv, Entry
  <1>1. CASE z = Done(e, hw)
    <2>1. z.e = e /\ z.hw = hw
      BY <1>1 DEF Done
    <2> QED BY <2>1, <1>0 DEF AgedKey
  <1>2. CASE e.st = "DELETE_PENDING" /\ z \in AgeOut(e, hw)
    <2>1. KeyInv(z.e, z.hw, s, TRUE)
      BY ONLY <1>2, e \in Entry, KeyInv(e, hw, s, TRUE), AgeOutKey, Zenon
    <2> QED BY <2>1, <1>2 DEF AgedKey
  <1>3. CASE z = Done(QueryFailed(e), hw)
    <2>1. Twin(e, QueryFailed(e))
      BY QueryFailedTwin
    <2>2. Kin(e, QueryFailed(e)) /\ Quiet(QueryFailed(e), s)
      BY <2>1, <1>0 DEF Twin, Quiet
    <2>3. KeyInv(QueryFailed(e), hw, s, TRUE) /\ QueryFailed(e) # Free
      BY ONLY <2>2, e \in Entry, KeyInv(e, hw, s, TRUE), KinKey, Zenon
    <2>4. z.e = QueryFailed(e) /\ z.hw = hw
      BY <1>3, Zenon DEF Done
    <2> QED BY <2>3, <2>4 DEF AgedKey
  <1>4. ASSUME z \in (IF Queried(e).age < Aging THEN {Done(Queried(e), hw)}
                      ELSE AgeOut(Queried(e), hw))
        PROVE  AgedKey(e, s, z)
    <2> DEFINE f == Queried(e)
    <2>1. Kin(e, f) /\ f.fresh = FALSE /\ f.age = IF e.fresh = TRUE THEN 0 ELSE e.age
      BY QueriedKin
    <2> HIDE DEF f
    <2>a. f.fresh # TRUE
      BY <2>1, Zenon
    <2>b. f.age = 0 \/ (e.fresh # TRUE /\ f.age = e.age)
      BY <2>1, Zenon
    <2>c. s < Aging => f.age <= s
      <3>1. CASE f.age = 0
        BY <3>1, <1>0
      <3>2. CASE e.fresh # TRUE /\ f.age = e.age
        BY <3>2, <1>0 DEF Quiet
      <3> QED BY <2>b, <3>1, <3>2
    <2>2. Quiet(f, s)
      BY <2>a, <2>c, Zenon DEF Quiet
    <2>3. KeyInv(f, hw, s, TRUE) /\ f # Free /\ f \in Entry
      <3>1. KeyInv(f, hw, s, TRUE) /\ f # Free
        BY ONLY <2>1, <2>2, e \in Entry, KeyInv(e, hw, s, TRUE), KinKey, Zenon
      <3> QED BY <3>1, <2>1 DEF Kin
    <2>4. CASE f.age < Aging
      <3>1. z.e = f /\ z.hw = hw
        BY <1>4, <2>4 DEF Done, f
      <3> QED BY <3>1, <2>3 DEF AgedKey
    <2>5. CASE ~ (f.age < Aging)
      <3>1. z \in AgeOut(f, hw)
        BY <1>4, <2>5 DEF f
      <3>2. KeyInv(z.e, z.hw, s, TRUE)
        BY ONLY <3>1, <2>3, AgeOutKey, Zenon
      <3>3. s >= Aging
        <4>1. f.age \in Nat
          BY <2>3, FdbAssumption DEF Entry
        <4> QED BY <4>1, <2>c, <2>5, <1>0
      <3> QED BY <3>2, <3>3 DEF AgedKey
    <2> QED BY <2>4, <2>5
  <1> QED
    BY <1>1, <1>2, <1>3, <1>4 DEF AgeResults

-----------------------------------------------------------------------------
(***************************************************************************)
(* The inductive invariant: the shapes of the variables, the length of the *)
(* list, and KeyInv of every key.                                          *)
(***************************************************************************)
Shapes ==
  /\ fdb \in [Key -> Entry \union {Free}]
  /\ rules \in [Key -> SUBSET Rules]
  /\ due \in BOOLEAN /\ up \in BOOLEAN
  /\ silent \in [Key -> 0..Aging]

Bounded(t) == IsFiniteSet(Listed(t)) /\ Cardinality(Listed(t)) <= FdbCapacity

KeysOK == \A k \in Key : KeyInv(fdb[k], rules[k], silent[k], up)

FdbInv == Shapes /\ Bounded(fdb) /\ KeysOK

\* A stopped daemon asks less.
LEMMA Stopped ==
  ASSUME NEW e, NEW hw, NEW s, KeyInv(e, hw, s, TRUE), NEW u PROVE KeyInv(e, hw, s, u)
  BY Zenon DEF KeyInv

\* A key with its invariant has values of the right shape.
LEMMA KeyShape ==
  ASSUME NEW e, NEW hw, NEW s, NEW u, KeyInv(e, hw, s, u)
  PROVE  e \in Entry \union {Free} /\ hw \in SUBSET Rules
  BY DEF KeyInv

\* Entries are only removed: the list stays within its capacity.
LEMMA FewerListed ==
  ASSUME NEW t, NEW v, Bounded(t), Listed(v) \subseteq Listed(t) PROVE Bounded(v)
  <1>1. IsFiniteSet(Listed(v)) /\ Cardinality(Listed(v)) <= Cardinality(Listed(t))
    BY FS_Subset DEF Bounded
  <1>2. Cardinality(Listed(v)) \in Nat /\ Cardinality(Listed(t)) \in Nat
    BY <1>1, FS_CardinalityType DEF Bounded
  <1> QED BY <1>1, <1>2, FdbAssumption DEF Bounded

\* One entry is added to a list that is not full.
LEMMA OneMoreListed ==
  ASSUME NEW t, NEW v, NEW k, Bounded(t), Listed(v) \subseteq Listed(t) \union {k},
         Cardinality(Listed(t)) < FdbCapacity
  PROVE  Bounded(v)
  <1> DEFINE S == Listed(t) \union {k}
  <1>0. IsFiniteSet(Listed(t)) /\ Cardinality(Listed(t)) \in Nat
    BY FS_CardinalityType DEF Bounded
  <1>1. IsFiniteSet(S) /\ (Cardinality(S) = Cardinality(Listed(t))
                          \/ Cardinality(S) = Cardinality(Listed(t)) + 1)
    BY <1>0, FS_AddElement
  <1>2. IsFiniteSet(Listed(v)) /\ Cardinality(Listed(v)) <= Cardinality(S)
    BY <1>1, FS_Subset
  <1>3. Cardinality(Listed(v)) \in Nat
    BY <1>2, FS_CardinalityType
  <1> QED BY <1>0, <1>1, <1>2, <1>3, FdbAssumption DEF Bounded

\* The empty table.
LEMMA EmptyOK ==
  ASSUME NEW t, t = [k \in Key |-> Free] PROVE Bounded(t)
  <1>1. Listed(t) = {}
    BY DEF Listed
  <1> QED BY <1>1, FS_EmptySet, FdbAssumption DEF Bounded

\* The list is empty at the start.
LEMMA FdbInvInit == FdbInit => FdbInv
  <1> SUFFICES ASSUME FdbInit PROVE FdbInv
    OBVIOUS
  <1>1. Shapes
    <2>1. due \in BOOLEAN /\ up \in BOOLEAN
      BY Zenon DEF FdbInit
    <2>2. /\ fdb \in [Key -> Entry \union {Free}] /\ rules \in [Key -> SUBSET Rules]
          /\ silent \in [Key -> 0..Aging]
      BY FdbAssumption DEF FdbInit
    <2> QED BY <2>1, <2>2 DEF Shapes
  <1>2. KeysOK
    BY DEF FdbInit, KeysOK, KeyInv
  <1> QED BY <1>1, <1>2, EmptyOK DEF FdbInit, FdbInv

\* A frame: the guard of its port counts it, or the station is learned.
LEMMA FrameStep ==
  ASSUME FdbInv, NEW k \in Key, NEW p \in Port, Frame(k, p) PROVE FdbInv'
  <1>0. /\ Shapes /\ Bounded(fdb) /\ KeysOK /\ up = TRUE
        /\ silent' = [silent EXCEPT ![k] = 0] /\ due' = due /\ 0 \in 0..Aging
        /\ Aging \in Nat /\ 0 < Aging
    BY FdbAssumption DEF FdbInv, Frame
  <1>1. /\ silent' \in [Key -> 0..Aging] /\ silent'[k] = 0
        /\ \A j \in Key : j # k => silent'[j] = silent[j]
    BY <1>0 DEF Shapes
  <1>2. CASE Guarded(k, p) /\ fdb' = [fdb EXCEPT ![k] = IF @ = Free THEN @ ELSE Counted(@, p)]
             /\ UNCHANGED <<rules, up>>
    <2>1. KeyInv(fdb[k], rules[k], silent[k], TRUE) /\ Rule("src", p) \in rules[k]
      BY <1>0, <1>2 DEF KeysOK, Guarded
    <2>2. /\ fdb[k] # Free /\ fdb[k] \in Entry /\ rules[k] \subseteq Handles(fdb[k])
          /\ Settled(fdb[k]) /\ fdb[k].act \in {0, 1}
      BY <2>1 DEF KeyInv, Entry
    <2>3. fdb[k].src[fdb[k].act] = p
      BY <2>1, <2>2, FdbAssumption DEF Handles, Settled, Rule
    <2> DEFINE f == [fdb[k] EXCEPT !.fresh = TRUE]
    <2>4. fdb' = [fdb EXCEPT ![k] = f]
      BY <1>2, <2>2, <2>3 DEF Counted
    <2>5. Kin(fdb[k], f) /\ f.fresh = TRUE
      BY <2>2, SetFresh
    <2> HIDE DEF f
    <2>6. Quiet(f, 0)
      BY <2>5, Zenon DEF Quiet
    <2>7. KeyInv(fdb[k], rules[k], 0, FALSE)
      BY <2>1 DEF KeyInv
    <2>8. f # Free /\ f \in Entry /\ KeyInv(f, rules[k], 0, TRUE)
      <3>1. f # Free /\ f \in Entry /\ rules[k] \subseteq Handles(f) /\ Settled(f)
        BY <2>2, <2>5, FreeAssumption DEF Kin, Handles, Settled
      <3>2. rules[k] \in SUBSET Rules
        BY <1>0 DEF Shapes
      <3> QED BY <3>1, <3>2, <2>6 DEF KeyInv
    <2>9. /\ fdb' \in [Key -> Entry \union {Free}] /\ fdb'[k] = f
          /\ \A j \in Key : j # k => fdb'[j] = fdb[j]
      BY <2>4, <2>8, <1>0 DEF Shapes
    <2>10. Shapes'
      BY <1>0, <1>1, <1>2, <2>9 DEF Shapes
    <2>11. KeysOK'
      <3> SUFFICES ASSUME NEW j \in Key PROVE KeyInv(fdb'[j], rules'[j], silent'[j], up')
        BY DEF KeysOK
      <3>1. CASE j = k
        BY <3>1, <2>8, <2>9, <1>0, <1>1, <1>2
      <3>2. CASE j # k
        BY <3>2, <2>9, <1>0, <1>1, <1>2 DEF KeysOK
      <3> QED BY <3>1, <3>2
    <2>12. Listed(fdb') \subseteq Listed(fdb)
      BY <2>9, <2>2 DEF Listed
    <2>13. Bounded(fdb')
      BY <2>12, <1>0, FewerListed
    <2> QED BY <2>10, <2>11, <2>13 DEF FdbInv
  <1>3. ASSUME NEW x \in eswitch_fdb_learn(fdb, rules, k, p),
               fdb' = [fdb EXCEPT ![k] = x.e], rules' = [rules EXCEPT ![k] = x.hw], up' = x.ok
        PROVE  FdbInv'
    <2>1. KeyInv(fdb[k], rules[k], silent[k], TRUE) /\ fdb[k] \in Entry \union {Free}
          /\ IsFiniteSet(Listed(fdb))
      BY <1>0 DEF KeysOK, Shapes, Bounded
    <2>2. Learned(x) /\ (x.e # Free => fdb[k] # Free \/ Cardinality(Listed(fdb)) < FdbCapacity)
      BY ONLY <2>1, k \in Key, p \in Port, x \in eswitch_fdb_learn(fdb, rules, k, p), LearnKey, Zenon
    <2>3. /\ x.ok \in BOOLEAN /\ x.e \in Entry \union {Free} /\ x.hw \in SUBSET Rules
          /\ KeyInv(x.e, x.hw, 0, x.ok)
      BY <2>2 DEF Learned
    <2>4. /\ fdb' \in [Key -> Entry \union {Free}] /\ fdb'[k] = x.e
          /\ \A j \in Key : j # k => fdb'[j] = fdb[j]
      BY <1>3, <2>3, <1>0 DEF Shapes
    <2>5. /\ rules' \in [Key -> SUBSET Rules] /\ rules'[k] = x.hw
          /\ \A j \in Key : j # k => rules'[j] = rules[j]
      BY <1>3, <2>3, <1>0 DEF Shapes
    <2>6. Shapes'
      BY <1>0, <1>1, <1>3, <2>3, <2>4, <2>5 DEF Shapes
    <2>7. KeysOK'
      <3> SUFFICES ASSUME NEW j \in Key PROVE KeyInv(fdb'[j], rules'[j], silent'[j], up')
        BY DEF KeysOK
      <3>1. CASE j = k
        BY <3>1, <2>3, <2>4, <2>5, <1>1, <1>3
      <3>2. CASE j # k
        <4>1. KeyInv(fdb[j], rules[j], silent[j], TRUE)
          BY <1>0 DEF KeysOK
        <4>2. KeyInv(fdb[j], rules[j], silent[j], x.ok)
          BY ONLY <4>1, Stopped, Zenon
        <4> QED BY <3>2, <4>2, <2>4, <2>5, <1>1, <1>3
      <3> QED BY <3>1, <3>2
    <2>8. Bounded(fdb')
      <3>1. CASE x.e # Free /\ fdb[k] = Free
        <4>1. Listed(fdb') \subseteq Listed(fdb) \union {k}
          BY <2>4 DEF Listed
        <4> QED BY <4>1, <3>1, <2>2, <1>0, OneMoreListed
      <3>2. CASE ~ (x.e # Free /\ fdb[k] = Free)
        <4>1. Listed(fdb') \subseteq Listed(fdb)
          BY <3>2, <2>4 DEF Listed
        <4> QED BY <4>1, <1>0, FewerListed
      <3> QED BY <3>1, <3>2
    <2> QED BY <2>6, <2>7, <2>8 DEF FdbInv
  <1> QED BY <1>2, <1>3 DEF Frame

(***************************************************************************)
(* A scan or a flush: f gives the keys of K their results, each of which   *)
(* satisfies the invariant of its key.                                     *)
(***************************************************************************)
LEMMA SweepStep ==
  ASSUME FdbInv, up = TRUE, NEW K, K \subseteq Listed(fdb), NEW f, DOMAIN f = K,
         \A k \in K : KeyInv(f[k].e, f[k].hw, silent[k], TRUE),
         fdb' = AfterFlush(fdb, f), rules' = RulesAfter(rules, f),
         up' = up, silent' = silent, due' \in BOOLEAN
  PROVE  FdbInv'
  <1>0. Shapes /\ Bounded(fdb) /\ KeysOK
    BY DEF FdbInv
  <1>1. ASSUME NEW k \in Key
        PROVE  /\ fdb'[k] = IF k \in K THEN f[k].e ELSE fdb[k]
               /\ rules'[k] = IF k \in K THEN f[k].hw ELSE rules[k]
    BY DEF AfterFlush, RulesAfter
  <1>2. ASSUME NEW k \in Key PROVE KeyInv(fdb'[k], rules'[k], silent[k], TRUE)
    <2>1. CASE k \in K
      BY <2>1, <1>1
    <2>2. CASE k \notin K
      BY <2>2, <1>0, <1>1 DEF KeysOK
    <2> QED BY <2>1, <2>2
  <1>3. \A k \in Key : fdb'[k] \in Entry \union {Free} /\ rules'[k] \in SUBSET Rules
    BY ONLY <1>2, KeyShape, Zenon
  <1>4. fdb' \in [Key -> Entry \union {Free}]
    <2>1. fdb' = [k \in Key |-> fdb'[k]]
      BY DEF AfterFlush
    <2> QED BY ONLY <2>1, <1>3, Zenon
  <1>5. rules' \in [Key -> SUBSET Rules]
    <2>1. rules' = [k \in Key |-> rules'[k]]
      BY DEF RulesAfter
    <2> QED BY ONLY <2>1, <1>3, Zenon
  <1>6. Shapes'
    BY <1>0, <1>4, <1>5 DEF Shapes
  <1>7. KeysOK'
    BY <1>2 DEF KeysOK
  <1>8. Listed(fdb') \subseteq Listed(fdb)
    BY <1>1 DEF Listed
  <1>9. Bounded(fdb')
    BY <1>0, <1>8, FewerListed
  <1> QED BY <1>6, <1>7, <1>9 DEF FdbInv

\* eswitch_fdb_flush_port and eswitch_fdb_flush_vswitch.
LEMMA FlushStep ==
  ASSUME FdbInv, NEW K, K \subseteq Listed(fdb), Flush(K) PROVE FdbInv'
  <1>0. Shapes /\ KeysOK /\ up = TRUE /\ up' = up /\ silent' = silent /\ due' \in BOOLEAN
    BY DEF FdbInv, Flush, Shapes
  <1>1. PICK f \in FlushResults(fdb, rules, K) :
          fdb' = AfterFlush(fdb, f) /\ rules' = RulesAfter(rules, f)
    BY DEF Flush
  <1>2. DOMAIN f = K /\ \A k \in K : f[k] \in remove_at(fdb[k], rules[k])
    BY DEF FlushResults
  <1>3. ASSUME NEW k \in K PROVE KeyInv(f[k].e, f[k].hw, silent[k], TRUE)
    <2>1. KeyInv(fdb[k], rules[k], silent[k], TRUE) /\ fdb[k] \in Entry
      BY <1>0 DEF KeysOK, KeyInv, Listed
    <2>2. RemovedAt(silent[k], f[k])
      BY ONLY <2>1, <1>2, k \in K, RemoveAtKey, Zenon
    <2> QED BY <2>2 DEF RemovedAt
  <1> QED BY <1>0, <1>1, <1>2, <1>3, SweepStep

\* eswitch_fdb_age: the results of one scan.
LEMMA ScanResults ==
  ASSUME FdbInv, eswitch_fdb_age
  PROVE  \E f : /\ DOMAIN f = Listed(fdb)
                /\ \A k \in Listed(fdb) : AgedKey(fdb[k], silent[k], f[k])
                /\ fdb' = AfterFlush(fdb, f) /\ rules' = RulesAfter(rules, f)
  <1>0. Shapes /\ KeysOK /\ up = TRUE
    BY DEF FdbInv, eswitch_fdb_age
  <1>1. PICK f \in [Listed(fdb) -> UNION {AgeResults(fdb[k], rules[k]) : k \in Listed(fdb)}] :
          /\ \A k \in Listed(fdb) : f[k] \in AgeResults(fdb[k], rules[k])
          /\ fdb' = AfterFlush(fdb, f)
          /\ rules' = RulesAfter(rules, f)
    BY DEF eswitch_fdb_age
  <1>2. ASSUME NEW k \in Listed(fdb) PROVE AgedKey(fdb[k], silent[k], f[k])
    <2>1. /\ KeyInv(fdb[k], rules[k], silent[k], TRUE) /\ fdb[k] \in Entry
          /\ silent[k] \in 0..Aging
      BY <1>0 DEF KeysOK, KeyInv, Listed, Shapes
    <2>2. f[k] \in AgeResults(fdb[k], rules[k])
      BY <1>1
    <2> QED BY ONLY <2>1, <2>2, AgeKey, Zenon
  <1>3. DOMAIN f = Listed(fdb)
    OBVIOUS
  <1> QED BY ONLY <1>1, <1>2, <1>3, Zenon

\* A scan over the whole list.
LEMMA AgeStep ==
  ASSUME FdbInv, eswitch_fdb_age PROVE FdbInv'
  <1>0. Shapes /\ KeysOK /\ up = TRUE /\ up' = up /\ silent' = silent
    BY DEF FdbInv, eswitch_fdb_age
  <1>a. due' \in BOOLEAN
    BY Zenon DEF eswitch_fdb_age
  <1>1. PICK f : /\ DOMAIN f = Listed(fdb)
                 /\ \A k \in Listed(fdb) : AgedKey(fdb[k], silent[k], f[k])
                 /\ fdb' = AfterFlush(fdb, f) /\ rules' = RulesAfter(rules, f)
    BY ScanResults
  <1>2. \A k \in Listed(fdb) : KeyInv(f[k].e, f[k].hw, silent[k], TRUE)
    BY <1>1 DEF AgedKey
  <1> QED BY <1>0, <1>a, <1>1, <1>2, SweepStep

\* A second passes: an age grows no faster than the silence.
LEMMA TickStep ==
  ASSUME FdbInv, Tick PROVE FdbInv'
  <1>0. /\ Shapes /\ Bounded(fdb) /\ KeysOK /\ up = TRUE /\ up' = up /\ rules' = rules
    BY DEF FdbInv, Tick
  <1>b. Aging \in Nat /\ Grace \in Nat /\ RetryMax \in Nat /\ 0 < Aging
    BY FdbAssumption
  <1>a. due' \in BOOLEAN
    BY Zenon DEF Tick
  <1> DEFINE older(e) == [e EXCEPT !.age = Lower(@ + 1, Aging + Grace),
                                   !.wait = IF @ = 0 THEN 0 ELSE @ - 1]
  <1>1. ASSUME NEW k \in Key
        PROVE  /\ fdb'[k] = IF fdb[k] = Free THEN Free ELSE older(fdb[k])
               /\ silent'[k] = Lower(silent[k] + 1, Aging)
    BY DEF Tick
  <1>2. ASSUME NEW k \in Key
        PROVE  /\ KeyInv(fdb'[k], rules[k], silent'[k], TRUE)
               /\ fdb'[k] \in Entry \union {Free} /\ silent'[k] \in 0..Aging
               /\ fdb[k] = Free => fdb'[k] = Free
    <2>0. KeyInv(fdb[k], rules[k], silent[k], TRUE)
      BY <1>0 DEF KeysOK
    <2>a. silent[k] \in 0..Aging /\ silent[k] \in Nat
      BY <1>0, <1>b DEF Shapes
    <2>b. silent'[k] = Lower(silent[k] + 1, Aging)
      BY <1>1
    <2>1. silent'[k] \in 0..Aging
          /\ (silent'[k] < Aging => silent'[k] = silent[k] + 1 /\ silent[k] < Aging)
      BY ONLY <2>a, <2>b, <1>b DEF Lower
    <2>2. CASE fdb[k] = Free
      <3>1. fdb'[k] = Free
        BY <2>2, <1>1
      <3> QED BY <3>1, <2>0, <2>1, <2>2 DEF KeyInv
    <2>3. CASE fdb[k] # Free
      <3> DEFINE e == fdb[k]
                 a == Lower(e.age + 1, Aging + Grace)
                 f == [e EXCEPT !.age = a]
                 w == IF f.wait = 0 THEN 0 ELSE f.wait - 1
                 g == [f EXCEPT !.wait = w]
      <3>1. e \in Entry /\ e.age \in 0..(Aging + Grace) /\ e.wait \in 0..RetryMax /\ Quiet(e, silent[k])
        BY <2>0, <2>3 DEF KeyInv, Entry
      <3>2. a \in 0..(Aging + Grace) /\ a <= e.age + 1 /\ f.wait = e.wait /\ w \in 0..RetryMax
        BY <3>1, <1>b DEF Lower, Entry
      <3>3. fdb'[k] = g
        BY <2>3, <3>1, <1>1 DEF Entry
      <3>4. Kin(e, f) /\ f.age = a /\ f.fresh = e.fresh
        BY <3>1, <3>2, SetAge, Zenon
      <3> HIDE DEF f, w
      <3>5. Twin(f, g)
        BY <3>2, <3>4, SetWait DEF Kin
      <3> HIDE DEF g
      <3>6. Kin(e, g) /\ g.age = a /\ g.fresh = e.fresh
        BY <3>4, <3>5 DEF Twin, Kin
      <3>7. Quiet(g, silent'[k])
        <4>1. ASSUME silent'[k] < Aging, g.fresh # TRUE PROVE g.age <= silent'[k]
          <5>1. silent[k] < Aging /\ silent'[k] = silent[k] + 1
            BY <4>1, <2>1
          <5>2. e.age <= silent[k]
            BY <5>1, <4>1, <3>1, <3>6, Zenon DEF Quiet
          <5>3. e.age \in Nat /\ a \in Nat
            BY <3>1, <3>2, <1>b
          <5> HIDE DEF a
          <5> QED BY <5>1, <5>2, <5>3, <3>2, <3>6, <2>a
        <4> QED BY <4>1, Zenon DEF Quiet
      <3>8. KeyInv(e, rules[k], silent'[k], FALSE)
        BY <2>0 DEF KeyInv
      <3>9. g # Free /\ g \in Entry /\ KeyInv(g, rules[k], silent'[k], TRUE)
        <4>1. g # Free /\ g \in Entry /\ rules[k] \subseteq Handles(g) /\ Settled(g)
          BY <2>0, <2>3, <3>6, FreeAssumption DEF KeyInv, Kin, Handles, Settled
        <4>2. rules[k] \in SUBSET Rules
          BY <1>0 DEF Shapes
        <4> QED BY <4>1, <4>2, <3>7 DEF KeyInv
      <3> QED BY <3>3, <3>9, <2>1, <2>3
    <2> QED BY <2>2, <2>3
  <1>3. Shapes'
    <2>1. fdb' = [k \in Key |-> fdb'[k]] /\ silent' = [k \in Key |-> silent'[k]]
      BY DEF Tick
    <2>2. fdb' \in [Key -> Entry \union {Free}]
      BY ONLY <2>1, <1>2, Zenon
    <2>3. silent' \in [Key -> 0..Aging]
      BY ONLY <2>1, <1>2, Zenon
    <2> QED BY <2>2, <2>3, <1>0, <1>a DEF Shapes
  <1>4. KeysOK'
    BY <1>0, <1>2 DEF KeysOK
  <1>5. Listed(fdb') \subseteq Listed(fdb)
    BY <1>2 DEF Listed
  <1>6. Bounded(fdb')
    BY <1>0, <1>5, FewerListed
  <1> QED BY <1>3, <1>4, <1>6 DEF FdbInv

\* The daemon starts again.
LEMMA RestartStep ==
  ASSUME FdbInv, Restart PROVE FdbInv'
  <1>1. due' \in BOOLEAN /\ up' \in BOOLEAN
    BY Zenon DEF Restart
  <1>2. Shapes'
    BY <1>1 DEF FdbInv, Shapes, Restart
  <1>3. KeysOK'
    BY DEF Restart, KeysOK, KeyInv
  <1>4. Bounded(fdb')
    BY EmptyOK DEF Restart
  <1> QED BY <1>2, <1>3, <1>4 DEF FdbInv

\* Every step keeps the invariant.
LEMMA FdbInvStep == FdbInv /\ [FdbNext]_fdbVars => FdbInv'
  <1> SUFFICES ASSUME FdbInv, [FdbNext]_fdbVars PROVE FdbInv'
    OBVIOUS
  <1>1. ASSUME NEW k \in Key, NEW p \in Port, Frame(k, p) PROVE FdbInv'
    BY <1>1, FrameStep
  <1>2. CASE eswitch_fdb_flush_port
    <2>1. PICK vs \in Vs, p \in Port : Flush(LearnedOn(fdb, vs, p))
      BY <1>2 DEF eswitch_fdb_flush_port
    <2>2. LearnedOn(fdb, vs, p) \subseteq Listed(fdb)
      BY DEF LearnedOn
    <2> QED BY <2>1, <2>2, FlushStep
  <1>3. CASE eswitch_fdb_flush_vswitch
    <2>1. PICK vs \in Vs : Flush(LearnedIn(fdb, vs))
      BY <1>3 DEF eswitch_fdb_flush_vswitch
    <2>2. LearnedIn(fdb, vs) \subseteq Listed(fdb)
      BY DEF LearnedIn
    <2> QED BY <2>1, <2>2, FlushStep
  <1>4. CASE eswitch_fdb_age
    BY <1>4, AgeStep
  <1>5. CASE Tick
    BY <1>5, TickStep
  <1>6. CASE Restart
    BY <1>6, RestartStep
  <1>7. CASE UNCHANGED fdbVars
    BY <1>7 DEF fdbVars, FdbInv, Shapes, KeysOK
  <1> QED BY <1>1, <1>2, <1>3, <1>4, <1>5, <1>6, <1>7 DEF FdbNext

-----------------------------------------------------------------------------
(***************************************************************************)
(* The invariant holds of every run of the daemon (eswitch_fdb.c with the  *)
(* pipeline calls it makes).                                               *)
(***************************************************************************)
THEOREM FdbInvariant == FdbSpec => []FdbInv
  <1>1. FdbInit => FdbInv
    BY FdbInvInit
  <1>2. FdbInv /\ [FdbNext]_fdbVars => FdbInv'
    BY FdbInvStep
  <1> QED BY <1>1, <1>2, PTL DEF FdbSpec

(***************************************************************************)
(* The values of the table and of the hardware; the list never outgrows    *)
(* fdb->capacity, whichever learning steps and removals fail.              *)
(***************************************************************************)
THEOREM FdbTypes == FdbSpec => []FdbTypeOK
  <1>1. FdbInv => FdbTypeOK
    BY DEF FdbInv, FdbTypeOK, Shapes, Bounded, Rules
  <1> QED BY <1>1, FdbInvariant, PTL

(***************************************************************************)
(* remove_at and eswitch_fdb_learn never lose a rule: whatever the         *)
(* hardware holds, a listed entry has the handle to remove it.             *)
(***************************************************************************)
THEOREM RulesOwned == FdbSpec => []EveryRuleListed
  <1>1. FdbInv => EveryRuleListed
    <2> SUFFICES ASSUME FdbInv, NEW k \in Key, NEW r \in rules[k]
                 PROVE  /\ fdb[k] # Free
                        /\ r \in {Rule("dst", fdb[k].dst)}
                                 \union {Rule("src", fdb[k].src[i]) : i \in {0, 1}}
      BY DEF EveryRuleListed
    <2>1. KeyInv(fdb[k], rules[k], silent[k], up)
      BY DEF FdbInv, KeysOK
    <2>2. fdb[k] # Free /\ r \in Handles(fdb[k])
      BY <2>1 DEF KeyInv
    <2> QED BY <2>2 DEF Handles
  <1> QED BY <1>1, FdbInvariant, PTL

(***************************************************************************)
(* eswitch_pipeline_fdb_move with its rollbacks: while the daemon runs,    *)
(* the rules of a station point at the port it is learned on.              *)
(***************************************************************************)
THEOREM FramesFollowTable == FdbSpec => []ForwardsToLearned
  <1>1. FdbInv => ForwardsToLearned
    <2> SUFFICES ASSUME FdbInv, up = TRUE, NEW k \in Listed(fdb), NEW r \in rules[k]
                 PROVE  r[2] = fdb[k].port
      BY DEF ForwardsToLearned
    <2>1. KeyInv(fdb[k], rules[k], silent[k], TRUE) /\ k \in Key /\ fdb[k] # Free
      BY DEF FdbInv, KeysOK, Listed
    <2>2. /\ r \in Handles(fdb[k]) /\ r \in Rules /\ Settled(fdb[k]) /\ fdb[k].act \in {0, 1}
      BY <2>1 DEF KeyInv, Entry
    <2> QED BY <2>2, FdbAssumption DEF Handles, Settled, Rules, Rule
  <1> QED BY <1>1, FdbInvariant, PTL

(***************************************************************************)
(* eswitch_fdb_age: a scan unlists a station only after a full ageing      *)
(* interval of silence or to finish a removal, although it sees counters   *)
(* that may fail to answer, and never the frames.                          *)
(***************************************************************************)
THEOREM LiveStationsKept == FdbSpec => LiveStationKept
  <1> DEFINE Keeps == \A k \in Key :
               eswitch_fdb_age /\ fdb[k] # Free /\ fdb'[k] = Free
                 => silent[k] >= Aging \/ fdb[k].st = "DELETE_PENDING"
  <1>1. FdbInv /\ [FdbNext]_fdbVars => [Keeps]_fdbVars
    <2> SUFFICES ASSUME FdbInv, NEW k \in Key, eswitch_fdb_age, fdb[k] # Free, fdb'[k] = Free
                 PROVE  silent[k] >= Aging \/ fdb[k].st = "DELETE_PENDING"
      OBVIOUS
    <2>1. PICK f : /\ DOMAIN f = Listed(fdb)
                   /\ \A j \in Listed(fdb) : AgedKey(fdb[j], silent[j], f[j])
                   /\ fdb' = AfterFlush(fdb, f) /\ rules' = RulesAfter(rules, f)
      BY ScanResults
    <2>2. k \in Listed(fdb)
      BY DEF Listed
    <2>3. f[k].e = Free
      BY <2>1, <2>2 DEF AfterFlush
    <2> QED BY <2>1, <2>2, <2>3 DEF AgedKey
  <1> QED BY <1>1, FdbInvariant, PTL DEF FdbSpec, LiveStationKept

-----------------------------------------------------------------------------
(***************************************************************************)
(* The invariant of the configuration.                                     *)
(***************************************************************************)
IfAddr == [ip : Addr \ Reserved, len : PrefixLen \ {0}]

RoutesDistinct(q) ==
  \A i, j \in DOMAIN q :
    (VrOf[q[i].rif] = VrOf[q[j].rif] /\ q[i].prefix = q[j].prefix /\ q[i].len = q[j].len) => i = j

ForwardInv == ForwardTypeOK /\ RoutesDistinct(routes)

\* An entry of two joined lists is an entry of the second once the first is used up.
LEMMA JoinedAt ==
  ASSUME NEW E, NEW s \in Seq(E), NEW t \in Seq(E), NEW k \in 1..(Len(s) + Len(t)), ~ (k <= Len(s))
  PROVE  (s \o t)[k] = t[k - Len(s)]
BY ONLY s \in Seq(E), t \in Seq(E), k \in 1..(Len(s) + Len(t)), ~ (k <= Len(s))

\* Removing a route moves the later ones up by one.
LEMMA RemoveAtShape ==
  ASSUME NEW S, NEW q \in Seq(S), NEW i \in DOMAIN q
  PROVE  /\ RemoveAt(q, i) \in Seq(S) /\ Len(RemoveAt(q, i)) = Len(q) - 1
         /\ \A j \in 1..(Len(q) - 1) : RemoveAt(q, i)[j] = q[IF j < i THEN j ELSE j + 1]
<1> DEFINE a == SubSeq(q, 1, i - 1)
           b == SubSeq(q, i + 1, Len(q))
<1>1. i \in 1..Len(q) /\ Len(q) \in Nat
  OBVIOUS
<1>2. a \in Seq(S) /\ Len(a) = i - 1 /\ \A j \in 1..(i - 1) : a[j] = q[j]
  BY <1>1
<1>3. b \in Seq(S) /\ Len(b) = Len(q) - i /\ \A j \in 1..(Len(q) - i) : b[j] = q[j + i]
  BY <1>1
<1>4. RemoveAt(q, i) = a \o b
  BY DEF RemoveAt
<1> HIDE DEF a, b
<1>5. a \o b \in Seq(S) /\ Len(a \o b) = Len(q) - 1
  BY <1>1, <1>2, <1>3
<1>6. ASSUME NEW j \in 1..(Len(q) - 1)
      PROVE  (a \o b)[j] = q[IF j < i THEN j ELSE j + 1]
  <2>1. CASE j < i
    BY <1>1, <1>2, <1>3, <2>1
  <2>2. CASE ~ (j < i)
    <3>0. j \in 1..(Len(a) + Len(b)) /\ ~ (j <= Len(a)) /\ Len(a) = i - 1
      BY <1>1, <1>2, <1>3, <2>2
    <3>1. (a \o b)[j] = b[j - (i - 1)]
      BY ONLY <1>2, <1>3, <3>0, JoinedAt, SMTT(30)
    <3>2. j - (i - 1) \in 1..(Len(q) - i) /\ (j - (i - 1)) + i = j + 1
      BY <1>1, <2>2
    <3>3. QED
      BY <1>3, <2>2, <3>1, <3>2
  <2>3. QED
    BY <2>1, <2>2
<1>7. QED
  BY <1>4, <1>5, <1>6

\* router_config_init: no address, no route.
LEMMA ForwardInvInit == Init => ForwardInv
<1>1. SUFFICES ASSUME Init PROVE ForwardInv
  OBVIOUS
<1>2. addr \in [Rif -> IfAddr \union {None}] /\ nat \subseteq Rif /\ ingress \subseteq Rif
      /\ nbrs \in [Slot -> Nbr \union {None}]
  BY <1>1 DEF Init
<1>3. routes \in Seq(Route) /\ Len(routes) <= MaxRoutes /\ DOMAIN routes = {}
  BY <1>1, ForwardAssumption DEF Init
<1>4. QED
  BY <1>2, <1>3 DEF ForwardInv, ForwardTypeOK, RoutesDistinct, IfAddr

\* The parts of the invariant, by the variables they speak of.
LEMMA InvParts ==
  ForwardInv <=>
    /\ addr \in [Rif -> IfAddr \union {None}] /\ nat \subseteq Rif /\ ingress \subseteq Rif
    /\ nbrs \in [Slot -> Nbr \union {None}]
    /\ routes \in Seq(Route) /\ Len(routes) <= MaxRoutes
    /\ \A i \in DOMAIN routes : InSubnet(routes[i].rif, routes[i].gw)
    /\ RoutesDistinct(routes)
BY DEF ForwardInv, ForwardTypeOK, IfAddr

\* The address of a RIF that no route uses may change.
LEMMA AddressKept ==
  ASSUME ForwardInv, NEW r \in Rif, NEW v \in IfAddr \union {None}, ~ RoutesReference(r),
         addr' = [addr EXCEPT ![r] = v], UNCHANGED <<routes, nat, ingress, nbrs>>
  PROVE  ForwardInv'
<1>1. addr \in [Rif -> IfAddr \union {None}]
  BY InvParts
<1>2. addr' \in [Rif -> IfAddr \union {None}] /\ \A s \in Rif : s # r => addr'[s] = addr[s]
  BY <1>1
<1>3. ASSUME NEW i \in DOMAIN routes PROVE InSubnet(routes[i].rif, routes[i].gw)'
  <2>1. routes[i].rif \in Rif /\ routes[i].rif # r /\ InSubnet(routes[i].rif, routes[i].gw)
    <3>1. routes[i] \in Route /\ InSubnet(routes[i].rif, routes[i].gw)
      BY InvParts
    <3>2. routes[i].rif # r
      BY DEF RoutesReference
    <3>3. routes[i].rif \in Rif
      BY <3>1 DEF Route
    <3>4. QED
      BY <3>1, <3>2, <3>3
  <2>2. addr'[routes[i].rif] = addr[routes[i].rif]
    BY <1>2, <2>1
  <2>3. QED
    BY <2>1, <2>2 DEF InSubnet
<1>4. QED
  BY <1>2, <1>3, InvParts DEF ForwardInv, ForwardTypeOK, IfAddr

\* IP_ADD.
LEMMA IpAddKept == ASSUME ForwardInv, NEW r \in Rif, NEW a \in IfAddress, IpAdd(r, a) PROVE ForwardInv'
<1>1. [ip |-> a[1], len |-> a[2]] \in IfAddr
  BY ForwardAssumption DEF IpAdd, usable_address, IfAddr
<1>2. ~ RoutesReference(r)
  BY InvParts DEF IpAdd, RoutesReference, InSubnet
<1>3. QED
  BY <1>1, <1>2, AddressKept DEF IpAdd

\* IP_DEL.
LEMMA IpDelKept == ASSUME ForwardInv, NEW r \in Rif, IpDel(r) PROVE ForwardInv'
BY AddressKept DEF IpDel

\* ROUTE_ADD: its gateway is in the RIF's subnet, its prefix is new in the VR.
LEMMA RouteAddKept ==
  ASSUME ForwardInv, NEW r \in Rif, NEW p \in RoutePrefix, NEW gw \in Stations, RouteAdd(r, p, gw)
  PROVE  ForwardInv'
<1> DEFINE v == [rif |-> r, prefix |-> p[1], len |-> p[2], gw |-> gw]
<1>1. v \in Route
  BY ForwardAssumption DEF Route
<1>2. routes \in Seq(Route) /\ Len(routes) < MaxRoutes /\ MaxRoutes \in Nat
      /\ routes' = Append(routes, v) /\ UNCHANGED <<addr, nat, ingress, nbrs>>
  BY InvParts, ForwardAssumption DEF RouteAdd
<1>3. /\ v.rif = r /\ v.prefix = p[1] /\ v.len = p[2] /\ v.gw = gw
      /\ InSubnet(v.rif, v.gw)
      /\ \A i \in DOMAIN routes :
           ~ (VrOf[routes[i].rif] = VrOf[v.rif] /\ routes[i].prefix = v.prefix
                /\ routes[i].len = v.len)
  BY DEF RouteAdd
<1> HIDE DEF v
<1>4. /\ routes' \in Seq(Route) /\ Len(routes') <= MaxRoutes
      /\ DOMAIN routes' = DOMAIN routes \union {Len(routes) + 1}
      /\ routes'[Len(routes) + 1] = v /\ \A i \in DOMAIN routes : routes'[i] = routes[i]
  BY <1>1, <1>2
<1>5. \A i \in DOMAIN routes' : InSubnet(routes'[i].rif, routes'[i].gw)
  BY <1>3, <1>4, InvParts
<1>6. RoutesDistinct(routes')
  BY <1>3, <1>4, InvParts, SMTT(30) DEF RoutesDistinct
<1>7. (\A i \in DOMAIN routes : InSubnet(routes[i].rif, routes[i].gw))'
  BY <1>2, <1>5 DEF InSubnet
<1>8. QED
  BY <1>2, <1>4, <1>6, <1>7, InvParts DEF ForwardInv, ForwardTypeOK, IfAddr

\* ROUTE_DEL moves the later routes up.
LEMMA RouteDelKept == ASSUME ForwardInv, NEW i \in DOMAIN routes, RouteDel(i) PROVE ForwardInv'
<1>1. routes \in Seq(Route) /\ Len(routes) \in Nat /\ Len(routes) <= MaxRoutes
      /\ MaxRoutes \in Nat /\ DOMAIN routes = 1..Len(routes) /\ i \in 1..Len(routes)
  BY InvParts, ForwardAssumption
<1> DEFINE At(j) == IF j < i THEN j ELSE j + 1
<1>2. /\ routes' \in Seq(Route) /\ Len(routes') = Len(routes) - 1
      /\ \A j \in 1..(Len(routes) - 1) : routes'[j] = routes[At(j)]
      /\ UNCHANGED <<addr, nat, ingress, nbrs>>
  BY <1>1, RemoveAtShape DEF RouteDel
<1>3. DOMAIN routes' = 1..(Len(routes) - 1)
  BY <1>1, <1>2
<1>4. \A j \in DOMAIN routes' : At(j) \in DOMAIN routes
  BY <1>1, <1>3
<1>5. \A j, k \in DOMAIN routes' : At(j) = At(k) => j = k
  BY <1>1, <1>3
<1> HIDE DEF At
<1>6. RoutesDistinct(routes')
  <2>1. RoutesDistinct(routes)
    BY InvParts
  <2>2. ASSUME NEW j \in DOMAIN routes', NEW k \in DOMAIN routes',
               VrOf[routes'[j].rif] = VrOf[routes'[k].rif],
               routes'[j].prefix = routes'[k].prefix, routes'[j].len = routes'[k].len
        PROVE  j = k
    <3>1. At(j) \in DOMAIN routes /\ At(k) \in DOMAIN routes
      BY <1>4
    <3>2. routes'[j] = routes[At(j)] /\ routes'[k] = routes[At(k)]
      BY <1>2, <1>3
    <3>3. At(j) = At(k)
      BY <2>1, <2>2, <3>1, <3>2 DEF RoutesDistinct
    <3>4. QED
      BY <1>5, <3>3
  <2>3. QED
    BY <2>2 DEF RoutesDistinct
<1>7. (\A j \in DOMAIN routes : InSubnet(routes[j].rif, routes[j].gw))'
  BY <1>2, <1>3, <1>4, InvParts DEF InSubnet
<1>8. Len(routes') <= MaxRoutes
  BY <1>1, <1>2
<1>9. QED
  BY <1>2, <1>6, <1>7, <1>8, InvParts DEF ForwardInv, ForwardTypeOK, IfAddr

\* The policies and the neighbor table leave addresses and routes alone.
LEMMA OthersKept ==
  ASSUME ForwardInv, UNCHANGED <<addr, routes>>, nat' \subseteq Rif, ingress' \subseteq Rif,
         nbrs' \in [Slot -> Nbr \union {None}]
  PROVE  ForwardInv'
BY InvParts DEF ForwardInv, ForwardTypeOK, IfAddr, InSubnet

\* What happens to neighbors leaves the configuration alone.
LEMMA NeighborsKept ==
  ASSUME ForwardInv,
         \/ \E r \in Rif, ip \in Stations : Learn(r, ip)
         \/ \E s \in Slot : Expire(s)
         \/ router_neighbor_age
  PROVE  nbrs' \in [Slot -> Nbr \union {None}] /\ UNCHANGED <<addr, routes, nat, ingress>>
<1>1. nbrs \in [Slot -> Nbr \union {None}]
  BY InvParts
<1>2. ASSUME NEW r \in Rif, NEW ip \in Stations, Learn(r, ip)
      PROVE  nbrs' \in [Slot -> Nbr \union {None}] /\ UNCHANGED <<addr, routes, nat, ingress>>
  <2> DEFINE v == [rif |-> r, ip |-> ip, live |-> TRUE]
  <2>1. v \in Nbr
    BY ForwardAssumption DEF Nbr
  <2> HIDE DEF v
  <2>2. (\E s : nbrs' = [nbrs EXCEPT ![s] = v]) /\ UNCHANGED <<addr, routes, nat, ingress>>
    BY <1>2 DEF Learn, v
  <2>3. QED
    BY <1>1, <2>1, <2>2
<1>3. ASSUME NEW s \in Slot, Expire(s)
      PROVE  nbrs' \in [Slot -> Nbr \union {None}] /\ UNCHANGED <<addr, routes, nat, ingress>>
  <2>1. nbrs[s] \in Nbr
    BY <1>1, <1>3 DEF Expire
  <2>2. [nbrs[s] EXCEPT !.live = FALSE] \in Nbr
    BY <2>1 DEF Nbr
  <2>3. nbrs' = [nbrs EXCEPT ![s] = [nbrs[s] EXCEPT !.live = FALSE]]
    BY <1>1, <1>3 DEF Expire
  <2>4. QED
    BY <1>1, <1>3, <2>2, <2>3 DEF Expire
<1>4. CASE router_neighbor_age
  BY <1>1, <1>4 DEF router_neighbor_age
<1>5. QED
  BY <1>2, <1>3, <1>4

\* Every command keeps the invariant.
LEMMA ForwardInvNext == ForwardInv /\ [Next]_forwardVars => ForwardInv'
<1>1. SUFFICES ASSUME ForwardInv, [Next]_forwardVars PROVE ForwardInv'
  OBVIOUS
<1>2. CASE UNCHANGED forwardVars
  BY <1>1, <1>2, OthersKept, InvParts DEF forwardVars
<1>3. ASSUME NEW r \in Rif,
             NatEnable(r) \/ NatDisable(r) \/ IngressPolicySet(r) \/ IngressPolicyDelete(r)
      PROVE  ForwardInv'
  <2>1. nat' \subseteq Rif /\ ingress' \subseteq Rif /\ nbrs' = nbrs /\ UNCHANGED <<addr, routes>>
    BY <1>1, <1>3, InvParts DEF NatEnable, NatDisable, IngressPolicySet, IngressPolicyDelete
  <2>2. QED
    BY <1>1, <2>1, OthersKept, InvParts
<1>4. ASSUME \/ \E r \in Rif, ip \in Stations : Learn(r, ip)
             \/ \E s \in Slot : Expire(s)
             \/ router_neighbor_age
      PROVE  ForwardInv'
  <2>1. nbrs' \in [Slot -> Nbr \union {None}] /\ UNCHANGED <<addr, routes, nat, ingress>>
    BY <1>1, <1>4, NeighborsKept
  <2>2. QED
    BY <1>1, <2>1, OthersKept, InvParts
<1>5. nat \subseteq Rif /\ ingress \subseteq Rif /\ PolicyRifs \subseteq Rif
  BY <1>1, InvParts, ForwardAssumption
<1>6. QED
  BY <1>1, <1>2, <1>3, <1>4, <1>5, IpAddKept, IpDelKept, RouteAddKept, RouteDelKept DEF Next

\* Every command keeps the arrays in order: types and limits, routes through
\* addressed RIFs, and one route per VR and prefix.
THEOREM ForwardInvariant == ForwardSpec => []ForwardInv
BY ForwardInvInit, ForwardInvNext, PTL DEF ForwardSpec

-----------------------------------------------------------------------------
(***************************************************************************)
(* The loops.  Longest says what a loop has to have found among the routes *)
(* it has seen; ConnectedIn and StaticIn are these routes after n turns.   *)
(***************************************************************************)
Best == [egress : Rif \union {None}, hop : Addr \union {None}, len : PrefixLen, conn : BOOLEAN]

Longest(b, S) ==
  IF S = {} THEN b = Nothing
  ELSE b \in S /\ \A c \in S \ {b} : c.len < b.len \/ (c.len = b.len /\ b.conn = TRUE)

ConnectedIn(vr, d, n) ==
  {Found(r, d, addr[r].len, TRUE) : r \in {s \in 1..n : VrOf[s] = vr /\ InSubnet(s, d)}}

StaticIn(vr, d, n) ==
  {Found(routes[i].rif, routes[i].gw, routes[i].len, FALSE) :
     i \in {j \in 1..n : VrOf[routes[j].rif] = vr /\ Covers(routes[j].prefix, routes[j].len, d)}}

\* The candidates of the loops are well formed,
LEMMA FoundIsBest ==
  ASSUME NEW r \in Rif, NEW h \in Addr, NEW l \in PrefixLen
  PROVE  /\ Found(r, h, l, TRUE) \in Best /\ Found(r, h, l, TRUE).hop # None
         /\ Found(r, h, l, TRUE).len = l /\ Found(r, h, l, TRUE).conn = TRUE
         /\ Found(r, h, l, FALSE) \in Best /\ Found(r, h, l, FALSE).hop # None
         /\ Found(r, h, l, FALSE).len = l /\ Found(r, h, l, FALSE).conn = FALSE
BY ForwardAssumption DEF Found, Best

\* and so is the start value.
LEMMA NothingIsBest == Nothing \in Best /\ Nothing.hop = None
<1>1. 0 \in PrefixLen
  BY ForwardAssumption DEF PrefixLen
<1>2. QED
  BY <1>1 DEF Nothing, Best

\* A RIF with a matching subnet has a length.
LEMMA ConnectedFound ==
  ASSUME ForwardInv, NEW r \in Rif, NEW d, InSubnet(r, d)
  PROVE  addr[r].len \in PrefixLen
<1>1. addr[r] \in IfAddr
  BY InvParts DEF InSubnet
<1>2. QED
  BY <1>1 DEF IfAddr

\* Lengths can be compared.
LEMMA LenIsNat == \A c \in Best : c.len \in Nat
<1>1. PrefixLen \subseteq Nat
  BY ForwardAssumption DEF PrefixLen
<1>2. QED
  BY <1>1 DEF Best

\* What a turn of either loop does with a route v it did not know: v replaces
\* the best one when there is none or v is longer.
LEMMA LongestGrows ==
  ASSUME NEW S, \A c \in S : c \in Best /\ c.hop # None,
         NEW b \in Best, NEW v \in Best, Longest(b, S),
         S # {} /\ v.len = b.len => b.conn = TRUE
  PROVE  Longest(IF b.hop = None \/ v.len > b.len THEN v ELSE b, S \union {v})
<1>1. b.len \in Nat /\ v.len \in Nat /\ \A c \in S : c.len \in Nat
  BY LenIsNat
<1>2. CASE S = {}
  <2>1. b.hop = None
    BY <1>2, NothingIsBest DEF Longest
  <2>2. S \union {v} = {v}
    BY <1>2
  <2>3. QED
    BY <2>1, <2>2 DEF Longest
<1>3. CASE S # {}
  <2>1. b \in S /\ b.hop # None
    BY <1>3 DEF Longest
  <2>2. ASSUME NEW c \in S PROVE c.len <= b.len
    <3>1. c = b \/ c.len < b.len \/ c.len = b.len
      BY <1>3 DEF Longest
    <3>2. QED
      BY <1>1, <3>1
  <2>3. CASE v.len > b.len
    <3>1. ASSUME NEW c \in S PROVE c.len < v.len
      <4>1. c.len <= b.len /\ c.len \in Nat
        BY <1>1, <2>2
      <4>2. QED
        BY <1>1, <2>3, <4>1
    <3>2. Longest(v, S \union {v})
      BY <3>1 DEF Longest
    <3>3. QED
      BY <2>3, <3>2
  <2>4. CASE ~ (v.len > b.len)
    <3>1. v.len < b.len \/ v.len = b.len
      BY <1>1, <2>4
    <3>2. v.len < b.len \/ (v.len = b.len /\ b.conn = TRUE)
      BY <1>3, <3>1
    <3>3. Longest(b, S \union {v})
      BY <1>3, <2>1, <3>2 DEF Longest
    <3>4. QED
      BY <2>1, <2>4, <3>3
  <2>5. QED
    BY <2>3, <2>4
<1>4. QED
  BY <1>2, <1>3

\* The connected candidates.
LEMMA ConnectedAreBest ==
  ASSUME ForwardInv, NEW vr, NEW d \in Addr, NEW n, 1..n \subseteq Rif
  PROVE  \A c \in ConnectedIn(vr, d, n) : c \in Best /\ c.hop # None /\ c.conn = TRUE
<1>1. ASSUME NEW r \in 1..n, InSubnet(r, d)
      PROVE  LET c == Found(r, d, addr[r].len, TRUE)
             IN c \in Best /\ c.hop # None /\ c.conn = TRUE
  <2>1. r \in Rif /\ addr[r].len \in PrefixLen
    BY <1>1, ConnectedFound
  <2>2. QED
    BY <2>1, FoundIsBest
<1>2. QED
  BY <1>1 DEF ConnectedIn

\* A turn of the loop over the interfaces.
LEMMA ConnectedStepOK ==
  ASSUME ForwardInv, NEW vr, NEW d \in Addr, NEW b \in Best, NEW n \in Rif
  PROVE  /\ ConnectedStep(vr, d, b, n) \in Best
         /\ Longest(b, ConnectedIn(vr, d, n - 1))
              => Longest(ConnectedStep(vr, d, b, n), ConnectedIn(vr, d, n))
<1> DEFINE old == ConnectedIn(vr, d, n - 1)
           new == ConnectedIn(vr, d, n)
           v == Found(n, d, addr[n].len, TRUE)
           u == ConnectedStep(vr, d, b, n)
<1>1. n \in Nat /\ 1..n = 1..(n - 1) \union {n} /\ 1..(n - 1) \subseteq Rif
  BY ForwardAssumption DEF Rif
<1>2. \A c \in old : c \in Best /\ c.hop # None /\ c.conn = TRUE
  BY <1>1, ConnectedAreBest
<1>3. CASE ~ (VrOf[n] = vr /\ InSubnet(n, d))
  <2>1. new = old
    BY <1>1, <1>3 DEF ConnectedIn
  <2>2. u = b
    BY <1>3 DEF ConnectedStep
  <2>3. QED
    BY <2>1, <2>2
<1>4. CASE VrOf[n] = vr /\ InSubnet(n, d)
  <2>1. new = old \union {v}
    BY <1>1, <1>4 DEF ConnectedIn
  <2>2. addr[n].len \in PrefixLen 
    BY <1>4, ConnectedFound
  <2>3. v \in Best /\ v.len = addr[n].len
    BY <2>2, FoundIsBest
  <2>4. u = IF b.hop = None \/ v.len > b.len \/ (v.len = b.len /\ ~ b.conn)
            THEN v ELSE b
    BY <1>4, <2>3 DEF ConnectedStep
  <2>5. u \in Best
    BY <2>3, <2>4
  <2> HIDE DEF old, new, v, u
  <2>6. SUFFICES ASSUME Longest(b, old) PROVE Longest(u, new)
    BY <2>5 DEF old, new, u
  <2>7. old # {} => b.conn = TRUE
    BY <1>2, <2>6 DEF Longest
  <2>8. old = {} => b.hop = None
    BY <2>6, NothingIsBest DEF Longest
  <2>9. u = IF b.hop = None \/ v.len > b.len THEN v ELSE b
    BY <2>4, <2>7, <2>8
  <2>10. Longest(IF b.hop = None \/ v.len > b.len THEN v ELSE b, old \union {v})
    BY <1>2, <2>3, <2>6, <2>7, LongestGrows
  <2>11. QED
    BY <2>1, <2>9, <2>10
<1>5. QED
  BY <1>3, <1>4

\* A static route is new to the loop: no earlier one of the VR has its prefix.
LEMMA StaticStepOK ==
  ASSUME ForwardInv, NEW vr, NEW d \in Addr, NEW b \in Best, NEW n \in DOMAIN routes
  PROVE  LET known == ConnectedIn(vr, d, RifCount)
         IN  /\ StaticStep(vr, d, b, routes[n]) \in Best
             /\ Longest(b, known \union StaticIn(vr, d, n - 1))
                  => Longest(StaticStep(vr, d, b, routes[n]), known \union StaticIn(vr, d, n))
<1> DEFINE known == ConnectedIn(vr, d, RifCount)
           old == known \union StaticIn(vr, d, n - 1)
           new == known \union StaticIn(vr, d, n)
           route == routes[n]
           v == Found(route.rif, route.gw, route.len, FALSE)
           u == StaticStep(vr, d, b, route)
<1>1. n \in Nat /\ 1..n = 1..(n - 1) \union {n} /\ 1..(n - 1) \subseteq DOMAIN routes
  BY InvParts
<1>2. ASSUME NEW i \in DOMAIN routes
      PROVE  LET c == Found(routes[i].rif, routes[i].gw, routes[i].len, FALSE)
             IN  c \in Best /\ c.hop # None /\ c.conn = FALSE /\ c.len = routes[i].len
  <2>1. routes[i] \in Route
    BY InvParts
  <2>2. routes[i].rif \in Rif /\ routes[i].gw \in Addr /\ routes[i].len \in PrefixLen
    BY <2>1 DEF Route
  <2>3. QED
    BY <2>2, FoundIsBest
<1>3. \A c \in known : c \in Best /\ c.hop # None /\ c.conn = TRUE
  BY ConnectedAreBest DEF Rif
<1>4. \A c \in old : c \in Best /\ c.hop # None
  <2>1. \A c \in StaticIn(vr, d, n - 1) : c \in Best /\ c.hop # None
    BY <1>1, <1>2 DEF StaticIn
  <2>2. QED
    BY <1>3, <2>1
<1>5. CASE ~ (VrOf[route.rif] = vr /\ Covers(route.prefix, route.len, d))
  <2>1. StaticIn(vr, d, n) = StaticIn(vr, d, n - 1)
    BY <1>1, <1>5 DEF StaticIn
  <2>2. u = b
    BY <1>5 DEF StaticStep
  <2>3. QED
    BY <2>1, <2>2
<1>6. CASE VrOf[route.rif] = vr /\ Covers(route.prefix, route.len, d)
  <2>1. new = old \union {v}
    BY <1>1, <1>6 DEF StaticIn
  <2>2. v \in Best /\ v.len = route.len
    BY <1>2
  <2>3. addr[route.rif] # None
    BY InvParts DEF InSubnet
  <2>4. u = IF b.hop # None /\ v.len <= b.len THEN b ELSE v
    BY <1>6, <2>2, <2>3 DEF StaticStep
  <2>5. b.len \in Nat /\ v.len \in Nat
    BY <2>2, LenIsNat
  <2>6. u = IF b.hop = None \/ v.len > b.len THEN v ELSE b
    <3> HIDE DEF u, v
    <3>1. QED
      BY <2>4, <2>5
  <2>7. ASSUME Longest(b, old), old # {}, v.len = b.len PROVE b.conn = TRUE
    <3>1. b \in old
      BY <2>7 DEF Longest
    <3>2. ASSUME b \in StaticIn(vr, d, n - 1) PROVE FALSE
      <4>1. PICK i \in 1..(n - 1) : /\ VrOf[routes[i].rif] = vr
                                    /\ Covers(routes[i].prefix, routes[i].len, d)
                                    /\ b = Found(routes[i].rif, routes[i].gw, routes[i].len, FALSE)
        BY <3>2 DEF StaticIn
      <4>2. i \in DOMAIN routes /\ i # n
        BY <1>1
      <4>3. b.len = routes[i].len
        BY <1>2, <4>1, <4>2
      <4>4. routes[i].len = route.len /\ routes[i].prefix = route.prefix
        BY <1>6, <2>2, <2>7, <4>1, <4>3 DEF Covers
      <4>5. QED
        BY <1>6, <4>1, <4>2, <4>4, InvParts DEF RoutesDistinct
    <3>3. QED
      BY <1>3, <3>1, <3>2
  <2> HIDE DEF old, new, v, u
  <2>8. Longest(b, old) => Longest(IF b.hop = None \/ v.len > b.len THEN v ELSE b, old \union {v})
    BY <1>4, <2>2, <2>7, LongestGrows
  <2>9. u \in Best /\ (Longest(b, old) => Longest(u, new))
    BY <2>1, <2>2, <2>6, <2>8
  <2>10. QED
    BY <2>9 DEF old, new, u
<1>7. QED
  BY <1>5, <1>6

-----------------------------------------------------------------------------
(***************************************************************************)
(* The recursive functions of the two loops are the runs of their turns.   *)
(***************************************************************************)
LEMMA ConnectedLoopOK ==
  ASSUME ForwardInv, NEW vr, NEW d \in Addr
  PROVE  /\ BestConnected(vr, d) \in Best
         /\ Longest(BestConnected(vr, d), ConnectedIn(vr, d, RifCount))
<1> DEFINE L == RifCount
           F == [z \in (1..L) \X Best |-> ConnectedStep(vr, d, z[2], z[1])]
           R(x) == [n \in 0..L |-> IF n = 0 THEN Nothing ELSE ConnectedStep(vr, d, x[n-1], n)]
           x == CHOOSE y : y = R(y)
<1>1. L \in Nat /\ 1..L = Rif
  BY ForwardAssumption DEF Rif
<1>2. \A n \in 1..L, y \in Best : ConnectedStep(vr, d, y, n) \in Best
  BY <1>1, ConnectedStepOK
<1>3. F \in LoopBody(Best, L)
  BY <1>2 DEF LoopBody
<1>4. PICK g : LoopRun(Best, Nothing, L, F, g)
  <2> HIDE DEF L, F, R, x
  <2>1. L \in Nat /\ Nothing \in Best
    BY <1>1, NothingIsBest
  <2>2. QED
    BY ONLY <2>1, <1>3, LoopRuns, Zenon
<1>5. g = R(g)
  <2>1. ASSUME NEW n \in 0..L PROVE g[n] = R(g)[n]
    <3>1. CASE n = 0
      BY <1>4, <3>1 DEF LoopRun
    <3>2. CASE n # 0
      <4>1. n \in 1..L /\ n - 1 \in 0..L
        BY <1>1, <3>2
      <4>2. g[n-1] \in Best /\ g[n] = F[<<n, g[n-1]>>]
        BY <1>4, <4>1 DEF LoopRun
      <4>3. g[n] = ConnectedStep(vr, d, g[n-1], n)
        BY <4>1, <4>2
      <4>4. QED
        BY <4>3, <3>2
    <3>3. QED
      BY <3>1, <3>2
  <2> HIDE DEF F, L
  <2>2. QED
    BY <1>4, <2>1 DEF LoopRun
<1>6. x = R(x)
  <2> HIDE DEF R
  <2>1. QED
    BY <1>5
<1>7. BestConnected(vr, d) = x[L]
  BY DEF BestConnected
<1> HIDE DEF x, F
<1> DEFINE Good(n) == x[n] \in Best /\ Longest(x[n], ConnectedIn(vr, d, n))
           T == {n \in Nat : n <= L => Good(n)}
<1>8. 0 \in T
  <2>1. x[0] = Nothing
    BY <1>1, <1>6
  <2>2. ConnectedIn(vr, d, 0) = {}
    BY DEF ConnectedIn
  <2>3. QED
    BY <2>1, <2>2, NothingIsBest DEF Longest
<1>9. ASSUME NEW n \in Nat, n \in T PROVE n + 1 \in T
  <2>1. SUFFICES ASSUME n + 1 <= L PROVE Good(n + 1)
    OBVIOUS
  <2>2. n + 1 \in Rif /\ Good(n) /\ n + 1 \in 0..L /\ n + 1 # 0 /\ (n + 1) - 1 = n
    BY <1>1, <1>9, <2>1
  <2>3. x[n+1] = ConnectedStep(vr, d, x[n], n + 1)
    BY <1>6, <2>2
  <2>4. /\ ConnectedStep(vr, d, x[n], n + 1) \in Best
        /\ Longest(x[n], ConnectedIn(vr, d, (n + 1) - 1))
             => Longest(ConnectedStep(vr, d, x[n], n + 1), ConnectedIn(vr, d, n + 1))
    BY <2>2, ConnectedStepOK
  <2>5. QED
    BY <2>2, <2>3, <2>4
<1>10. Nat \subseteq T
  <2> HIDE DEF T
  <2>1. QED
    BY <1>8, <1>9, NatSetInduction
<1>11. Good(L)
  BY <1>1, <1>10
<1>12. QED
  BY <1>7, <1>11

\* The loop over the routes, started with the result of the first.
LEMMA StaticLoopOK ==
  ASSUME ForwardInv, NEW vr, NEW d \in Addr
  PROVE  Longest(BestRoute(vr, d),
                 ConnectedIn(vr, d, RifCount) \union StaticIn(vr, d, Len(routes)))
<1> DEFINE L == Len(routes)
           b == BestConnected(vr, d)
           known == ConnectedIn(vr, d, RifCount)
           F == [z \in (1..L) \X Best |-> StaticStep(vr, d, z[2], routes[z[1]])]
           R(x) == [n \in 0..L |-> IF n = 0 THEN b ELSE StaticStep(vr, d, x[n-1], routes[n])]
           x == CHOOSE y : y = R(y)
<1>1. L \in Nat /\ 1..L = DOMAIN routes
  BY InvParts
<1>2. b \in Best /\ Longest(b, known)
  BY ConnectedLoopOK
<1> HIDE DEF b
<1>3. \A n \in 1..L, y \in Best : StaticStep(vr, d, y, routes[n]) \in Best
  BY <1>1, StaticStepOK
<1>4. F \in LoopBody(Best, L)
  BY <1>3 DEF LoopBody
<1>5. PICK g : LoopRun(Best, b, L, F, g)
  <2> HIDE DEF L, F, R, x
  <2>1. L \in Nat /\ b \in Best
    BY <1>1, <1>2
  <2>2. QED
    BY ONLY <2>1, <1>4, LoopRuns, Zenon
<1>6. g = R(g)
  <2>1. ASSUME NEW n \in 0..L PROVE g[n] = R(g)[n]
    <3>1. CASE n = 0
      BY <1>5, <3>1 DEF LoopRun
    <3>2. CASE n # 0
      <4>1. n \in 1..L /\ n - 1 \in 0..L
        BY <1>1, <3>2
      <4>2. g[n-1] \in Best /\ g[n] = F[<<n, g[n-1]>>]
        BY <1>5, <4>1 DEF LoopRun
      <4>3. g[n] = StaticStep(vr, d, g[n-1], routes[n])
        BY <4>1, <4>2
      <4>4. QED
        BY <4>3, <3>2
    <3>3. QED
      BY <3>1, <3>2
  <2> HIDE DEF F, L
  <2>2. QED
    BY <1>5, <2>1 DEF LoopRun
<1>7. x = R(x)
  <2> HIDE DEF R
  <2>1. QED
    BY <1>6
<1>8. BestRoute(vr, d) = x[L]
  BY DEF BestRoute, b
<1> HIDE DEF x, F
<1> DEFINE Good(n) == x[n] \in Best /\ Longest(x[n], known \union StaticIn(vr, d, n))
           T == {n \in Nat : n <= L => Good(n)}
<1>9. 0 \in T
  <2>1. x[0] = b
    BY <1>1, <1>7
  <2>2. StaticIn(vr, d, 0) = {}
    BY DEF StaticIn
  <2>3. known \union StaticIn(vr, d, 0) = known
    BY <2>2
  <2>4. QED
    BY <1>2, <2>1, <2>3
<1>10. ASSUME NEW n \in Nat, n \in T PROVE n + 1 \in T
  <2>1. SUFFICES ASSUME n + 1 <= L PROVE Good(n + 1)
    OBVIOUS
  <2>2. n + 1 \in DOMAIN routes /\ Good(n) /\ n + 1 \in 0..L /\ n + 1 # 0 /\ (n + 1) - 1 = n
    BY <1>1, <1>10, <2>1
  <2>3. x[n+1] = StaticStep(vr, d, x[n], routes[n + 1])
    BY <1>7, <2>2
  <2>4. /\ StaticStep(vr, d, x[n], routes[n + 1]) \in Best
        /\ Longest(x[n], known \union StaticIn(vr, d, (n + 1) - 1))
             => Longest(StaticStep(vr, d, x[n], routes[n + 1]), known \union StaticIn(vr, d, n + 1))
    BY <2>2, StaticStepOK
  <2>5. QED
    BY <2>2, <2>3, <2>4
<1>11. Nat \subseteq T
  <2> HIDE DEF T
  <2>1. QED
    BY <1>9, <1>10, NatSetInduction
<1>12. Good(L)
  <2> HIDE DEF L, Good
  <2>1. L \in T /\ L <= L
    BY <1>1, <1>11
  <2>2. QED
    BY <2>1
<1>13. QED
  BY <1>8, <1>12

\* What the two loops find is what LookupIsLongest asks for.
LEMMA LongestIsLookup == ForwardInv => LookupIsLongest
<1>1. SUFFICES ASSUME ForwardInv, NEW r \in Rif, NEW d \in Addr \ NoRoute,
                      d \notin LocalAddr(VrOf[r])
               PROVE  LET all == Candidates(VrOf[r], d)
                          dec == lookup_with_ingress(r, d)
                      IN  IF all = {} THEN dec.kind = "no_route"
                          ELSE /\ dec.kind = "forward"
                               /\ dec.route \in all
                               /\ \A c \in all \ {dec.route} :
                                    \/ c.len < dec.route.len
                                    \/ (c.len = dec.route.len /\ dec.route.conn)
  BY DEF LookupIsLongest
<1> DEFINE vr == VrOf[r]
           all == Candidates(vr, d)
           best == BestRoute(vr, d)
           dec == lookup_with_ingress(r, d)
<1>2. all = ConnectedIn(vr, d, RifCount) \union StaticIn(vr, d, Len(routes))
  <2>1. DOMAIN routes = 1..Len(routes)
    BY <1>1, InvParts
  <2>2. QED
    BY <2>1 DEF Candidates, ConnectedIn, StaticIn, Rif
<1>3. Longest(best, all)
  BY <1>1, <1>2, StaticLoopOK
<1>4. dec = IF best.hop = None THEN Decision("no_route", Nothing) ELSE Decision("forward", best)
  BY <1>1 DEF lookup_with_ingress
<1>5. all # {} => best.hop # None
  <2>1. \A c \in ConnectedIn(vr, d, RifCount) : c.hop # None
    <3>1. 1..RifCount \subseteq Rif /\ d \in Addr
      BY <1>1 DEF Rif
    <3> HIDE DEF vr
    <3>2. \A c \in ConnectedIn(vr, d, RifCount) : c \in Best /\ c.hop # None /\ c.conn = TRUE
      BY ONLY <1>1, <3>1, ConnectedAreBest
    <3>3. QED
      BY <3>2
  <2>2. ASSUME NEW i \in 1..Len(routes)
        PROVE  Found(routes[i].rif, routes[i].gw, routes[i].len, FALSE).hop # None
    <3>1. routes[i] \in Route
      BY <1>1, InvParts
    <3>2. QED
      BY <3>1, FoundIsBest DEF Route
  <2>3. \A c \in StaticIn(vr, d, Len(routes)) : c.hop # None
    BY <2>2 DEF StaticIn
  <2>4. QED
    BY <1>2, <1>3, <2>1, <2>3 DEF Longest
<1> HIDE DEF all, best, dec
<1>6. CASE all = {}
  <2>1. best.hop = None
    BY <1>3, <1>6, NothingIsBest DEF Longest
  <2>2. dec.kind = "no_route"
    BY <1>4, <2>1 DEF Decision
  <2>3. QED
    BY <1>6, <2>2 DEF all, dec
<1>7. CASE all # {}
  <2>1. dec.kind = "forward" /\ dec.route = best
    BY <1>4, <1>5, <1>7 DEF Decision
  <2>2. best \in all /\ \A c \in all \ {best} : c.len < best.len \/ (c.len = best.len /\ best.conn)
    BY <1>3, <1>7 DEF Longest
  <2>3. QED
    BY <1>7, <2>1, <2>2 DEF all, dec
<1>8. QED
  BY <1>6, <1>7

\* No command leaves the forwarding arrays ill-typed, over their limits, or
\* with a route whose RIF has no address or whose gateway is off its subnet.
THEOREM ForwardTypes == ForwardSpec => []ForwardTypeOK
BY ForwardInvariant, PTL DEF ForwardInv

\* lookup_with_ingress decides by longest prefix whatever commands came
\* before: no route of the VR is longer than the one taken, a connected route
\* wins a tie, and a packet is dropped only when the VR has no route.
THEOREM LookupLongest == ForwardSpec => []LookupIsLongest
BY ForwardInvariant, LongestIsLookup, PTL

-----------------------------------------------------------------------------
(***************************************************************************)
(* Masks.  The host part of a shorter prefix is a multiple of that of a    *)
(* longer one, so that two addresses of one subnet share every wider one.  *)
(***************************************************************************)

\* The recursive function PowerOf2 exists.
LEMMA PowerOf2Runs ==
  /\ PowerOf2 \in [0..Width -> Nat \ {0}] /\ PowerOf2[0] = 1
  /\ \A k \in 1..Width : PowerOf2[k] = 2 * PowerOf2[k-1]
<1> DEFINE A == Nat \ {0}
           F == [z \in (1..Width) \X A |-> 2 * z[2]]
           R(x) == [k \in 0..Width |-> IF k = 0 THEN 1 ELSE 2 * x[k-1]]
<1>1. Width \in Nat /\ 1 \in A
  BY ForwardAssumption
<1>2. F \in LoopBody(A, Width)
  BY DEF LoopBody
<1> HIDE DEF A, F
<1>3. PICK g : LoopRun(A, 1, Width, F, g)
  BY ONLY <1>1, <1>2, LoopRuns, Zenon
<1>4. g \in [0..Width -> A] /\ g[0] = 1 /\ \A n \in 1..Width : g[n] = F[<<n, g[n-1]>>]
  BY <1>3 DEF LoopRun
<1>5. ASSUME NEW n \in 1..Width PROVE n - 1 \in 0..Width /\ n # 0 /\ g[n] = 2 * g[n-1]
  <2>1. n - 1 \in 0..Width /\ n # 0
    BY <1>1
  <2>2. g[n-1] \in A
    BY <1>4, <2>1
  <2>3. F[<<n, g[n-1]>>] = 2 * g[n-1]
    BY <2>2 DEF F
  <2>4. QED
    BY <1>4, <2>1, <2>3
<1>6. g = R(g)
  BY <1>1, <1>4, <1>5
<1>7. PowerOf2 = R(PowerOf2)
  <2>1. PowerOf2 = CHOOSE x : x = R(x)
    BY DEF PowerOf2
  <2> HIDE DEF R
  <2>2. QED
    BY <1>6, <2>1
<1>8. /\ DOMAIN PowerOf2 = 0..Width /\ PowerOf2[0] = 1
      /\ \A k \in 1..Width : PowerOf2[k] = 2 * PowerOf2[k-1]
  BY <1>1, <1>7
<1> DEFINE T == {k \in Nat : k <= Width => PowerOf2[k] \in A}
<1>9. Nat \subseteq T
  <2>1. 0 \in T
    BY <1>1, <1>8
  <2>2. ASSUME NEW n \in Nat, n \in T PROVE n + 1 \in T
    <3>1. SUFFICES ASSUME n + 1 <= Width PROVE PowerOf2[n+1] \in A
      OBVIOUS
    <3>2. n + 1 \in 1..Width /\ (n + 1) - 1 = n /\ PowerOf2[n] \in A
      BY <1>1, <2>2, <3>1
    <3>3. PowerOf2[n+1] = 2 * PowerOf2[n]
      BY <1>8, <3>2
    <3>4. QED
      BY <3>2, <3>3 DEF A
  <2> HIDE DEF T
  <2>3. QED
    BY <2>1, <2>2, NatSetInduction
<1>10. \A k \in 0..Width : PowerOf2[k] \in A
  BY <1>1, <1>9
<1>11. PowerOf2 \in [0..Width -> A]
  BY <1>7, <1>8, <1>10
<1>12. QED
  BY <1>8, <1>11 DEF A

\* Each power divides the later ones.
LEMMA PowersDivide ==
  ASSUME NEW j \in 0..Width
  PROVE  \A k \in j..Width : \E q \in Nat \ {0} : PowerOf2[k] = PowerOf2[j] * q
<1> DEFINE P == PowerOf2
           T == {i \in Nat : j + i <= Width => \E q \in Nat \ {0} : P[j+i] = P[j] * q}
<1>1. Width \in Nat /\ j \in Nat /\ P[j] \in Nat
  <2>1. Width \in Nat /\ j \in Nat
    BY ForwardAssumption
  <2>2. PowerOf2[j] \in Nat \ {0}
    BY PowerOf2Runs
  <2>3. QED
    BY <2>1, <2>2
<1>2. 0 \in T
  <2>1. P[j+0] = P[j] * 1
    BY <1>1
  <2>2. QED
    BY <2>1
<1>3. ASSUME NEW n \in Nat, n \in T PROVE n + 1 \in T
  <2>1. SUFFICES ASSUME j + (n + 1) <= Width
                 PROVE  \E q \in Nat \ {0} : P[j+(n+1)] = P[j] * q
    OBVIOUS
  <2>2. j + n <= Width /\ j + (n + 1) \in 1..Width /\ (j + (n + 1)) - 1 = j + n
    BY <1>1, <2>1
  <2>3. PICK q \in Nat \ {0} : P[j+n] = P[j] * q
    BY <1>3, <2>2
  <2>4. P[j+(n+1)] = 2 * P[j+n]
    BY <2>2, PowerOf2Runs
  <2>5. P[j+(n+1)] = P[j] * (2 * q) /\ 2 * q \in Nat \ {0}
    BY <1>1, <2>3, <2>4
  <2>6. QED
    BY <2>5
<1>4. Nat \subseteq T
  <2> HIDE DEF T
  <2>1. QED
    BY <1>2, <1>3, NatSetInduction
<1>5. ASSUME NEW k \in j..Width PROVE \E q \in Nat \ {0} : P[k] = P[j] * q
  <2>1. k - j \in Nat /\ j + (k - j) = k /\ k <= Width
    BY <1>1
  <2>2. k - j \in T
    BY <1>4, <2>1
  <2>3. j + (k - j) <= Width => \E q \in Nat \ {0} : P[j + (k - j)] = P[j] * q
    BY <2>2
  <2>4. QED
    BY <2>1, <2>3
<1>6. QED
  BY <1>5

\* A mask clears the host part: what is left is the multiple of its size.
LEMMA MaskedIsMultiple ==
  ASSUME NEW x \in Addr, NEW l \in PrefixLen
  PROVE  /\ HostSize(l) \in Nat \ {0} /\ Masked(x, l) \in Int
         /\ x \div HostSize(l) \in Int /\ x % HostSize(l) \in 0..(HostSize(l) - 1)
         /\ x = HostSize(l) * (x \div HostSize(l)) + (x % HostSize(l))
         /\ Masked(x, l) = HostSize(l) * (x \div HostSize(l))
<1>1. x \in Nat /\ Width - l \in 0..Width
  BY ForwardAssumption DEF Addr, PrefixLen
<1>2. HostSize(l) \in Nat \ {0}
  BY <1>1, PowerOf2Runs DEF HostSize
<1> DEFINE h == HostSize(l)
<1>3. Masked(x, l) = x - (x % h)
  BY DEF Masked
<1> HIDE DEF h
<1>4. h \in Nat \ {0}
  BY <1>2 DEF h
<1>5. /\ x \div h \in Int /\ x % h \in 0..(h-1)
      /\ x = h * (x \div h) + (x % h)
  BY <1>1, <1>4
<1>6. Masked(x, l) = h * (x \div h) /\ Masked(x, l) \in Int
  BY <1>1, <1>3, <1>4, <1>5
<1>7. QED
  BY <1>4, <1>5, <1>6 DEF h

\* The full mask keeps the address.
LEMMA FullMask == ASSUME NEW x \in Addr PROVE Masked(x, Width) = x
<1>1. HostSize(Width) = 1 /\ x \in Int
  BY ForwardAssumption, PowerOf2Runs DEF HostSize, Addr
<1>2. QED
  BY <1>1 DEF Masked

\* A quotient by a product is determined by the quotient by a factor.
LEMMA QuotientOfQuotient ==
  ASSUME NEW h \in Nat \ {0}, NEW q \in Nat \ {0}, NEW x \in Nat
  PROVE  x \div (h * q) = (x \div h) \div q
<1> DEFINE k == x \div h
           a == k \div q
<1>1. k \in Nat /\ x % h \in 0..(h-1) /\ x = h * k + (x % h)
  OBVIOUS
<1> HIDE DEF k
<1>2. a \in Int /\ k % q \in 0..(q-1) /\ k = q * a + (k % q)
  BY <1>1
<1> HIDE DEF a
<1> DEFINE s == h * q
           r == h * (k % q) + (x % h)
<1>3. s \in Nat /\ s # 0
  OBVIOUS
<1>4. x = s * a + r
  BY <1>1, <1>2
<1>5. r \in 0..(s-1)
  <2>1. q - 1 - (k % q) \in Nat
    BY <1>2
  <2>2. h * (q - 1 - (k % q)) >= 0 /\ h * (k % q) >= 0
    BY <1>2, <2>1
  <2>3. QED
    BY <1>1, <1>2, <2>2
<1> HIDE DEF r
<1>6. x \div s \in Int /\ x % s \in 0..(s-1) /\ x = s * (x \div s) + (x % s)
  <2> HIDE DEF s
  <2>1. QED
    BY <1>3
<1>7. x \div s = a
  <2> HIDE DEF s
  <2>1. s * (x \div s) + (x % s) = s * a + r
    BY <1>4, <1>6
  <2> HIDE <1>4
  <2>2. QED
    BY ONLY <1>2, <1>3, <1>5, <1>6, <2>1, DivisionUnique
<1>8. QED
  BY <1>7 DEF s, a, k

\* Addresses that share a subnet share every wider one.
LEMMA SubnetsNest ==
  ASSUME NEW x \in Addr, NEW y \in Addr, NEW l \in PrefixLen, NEW m \in PrefixLen,
         m <= l, SameSubnet(x, y, l)
  PROVE  SameSubnet(x, y, m)
<1> DEFINE h == HostSize(l)
<1>1. Width - l \in 0..Width /\ Width - m \in (Width - l)..Width /\ x \in Nat /\ y \in Nat
  BY ForwardAssumption DEF PrefixLen, Addr
<1>2. PICK q \in Nat \ {0} : HostSize(m) = h * q
  BY <1>1, PowersDivide DEF HostSize
<1>3. h \in Nat \ {0} /\ HostSize(m) \in Nat \ {0}
  BY MaskedIsMultiple
<1>4. /\ Masked(x, l) = h * (x \div h) /\ x \div h \in Int
      /\ Masked(y, l) = h * (y \div h) /\ y \div h \in Int
      /\ Masked(x, m) = HostSize(m) * (x \div HostSize(m))
      /\ Masked(y, m) = HostSize(m) * (y \div HostSize(m))
  BY MaskedIsMultiple
<1> HIDE DEF h
<1>5. x \div h = y \div h
  <2> DEFINE i == x \div h
             j == y \div h
  <2>1. i \in Int /\ j \in Int /\ h * i = h * j
    BY <1>4 DEF SameSubnet
  <2> HIDE DEF i, j
  <2>2. h \in Nat /\ h # 0 /\ h * i + 0 = h * j + 0 /\ 0 \in 0..(h-1) /\ i \in Int /\ j \in Int
    BY <1>3, <2>1
  <2>3. i = j
    BY ONLY <2>2, DivisionUnique
  <2>4. QED
    BY <2>3 DEF i, j
<1>6. x \div HostSize(m) = y \div HostSize(m)
  <2>1. x \div (h * q) = (x \div h) \div q /\ y \div (h * q) = (y \div h) \div q
    BY <1>1, <1>3, QuotientOfQuotient
  <2>2. QED
    BY <1>2, <1>5, <2>1
<1>7. QED
  BY <1>4, <1>6 DEF SameSubnet

-----------------------------------------------------------------------------
(***************************************************************************)
(* router_config_add_address refuses an overlapping subnet, so a station   *)
(* is on the link of one RIF of a VR at most.                              *)
(***************************************************************************)
Shorter(l, m) == IF l < m THEN l ELSE m

Overlap(a, b) == SameSubnet(a.ip, b.ip, Shorter(a.len, b.len))

SubnetsDisjoint ==
  \A r, s \in Rif :
    (r # s /\ VrOf[r] = VrOf[s] /\ addr[r] # None /\ addr[s] # None) => ~ Overlap(addr[r], addr[s])

\* Overlapping is symmetric.
LEMMA OverlapSymmetric == ASSUME NEW a \in IfAddr, NEW b \in IfAddr PROVE Overlap(a, b) <=> Overlap(b, a)
<1>1. a.len \in Nat /\ b.len \in Nat
  BY ForwardAssumption DEF IfAddr, PrefixLen
<1>2. Shorter(a.len, b.len) = Shorter(b.len, a.len)
  BY <1>1 DEF Shorter
<1>3. QED
  BY <1>2 DEF Overlap, SameSubnet

\* An address that overlaps no other may be set,
LEMMA DisjointAdd ==
  ASSUME ForwardInv, SubnetsDisjoint, NEW r \in Rif, NEW v \in IfAddr,
         addr' = [addr EXCEPT ![r] = v],
         \A s \in Rif : (VrOf[s] = VrOf[r] /\ addr[s] # None /\ s # r) => ~ Overlap(addr[s], v)
  PROVE  SubnetsDisjoint'
<1>1. addr \in [Rif -> IfAddr \union {None}]
  BY InvParts
<1>2. addr'[r] = v /\ \A s \in Rif : s # r => addr'[s] = addr[s]
  BY <1>1
<1>3. ASSUME NEW t \in Rif, NEW s \in Rif, t # s, VrOf[t] = VrOf[s],
             addr'[t] # None, addr'[s] # None
      PROVE  ~ Overlap(addr'[t], addr'[s])
  <2>1. CASE t # r /\ s # r
    BY <1>2, <1>3, <2>1 DEF SubnetsDisjoint
  <2>2. CASE s = r
    BY <1>2, <1>3, <2>2
  <2>3. CASE t = r
    <3>1. addr'[t] = v /\ addr'[s] = addr[s] /\ addr[s] \in IfAddr
      BY <1>1, <1>2, <1>3, <2>3
    <3>2. ~ Overlap(addr[s], v)
      BY <1>3, <2>3, <3>1
    <3>3. QED
      BY <3>1, <3>2, OverlapSymmetric
  <2>4. QED
    BY <2>1, <2>2, <2>3
<1>4. QED
  BY <1>3 DEF SubnetsDisjoint, Overlap, SameSubnet, Masked, HostSize

\* and one may be removed.
LEMMA DisjointRemove ==
  ASSUME ForwardInv, SubnetsDisjoint, NEW r \in Rif, addr' = [addr EXCEPT ![r] = None]
  PROVE  SubnetsDisjoint'
<1>1. addr \in [Rif -> IfAddr \union {None}]
  BY InvParts
<1>2. \A s \in Rif : addr'[s] # None => addr'[s] = addr[s]
  BY <1>1
<1>3. QED
  BY <1>2 DEF SubnetsDisjoint, Overlap, SameSubnet, Masked, HostSize

\* No command makes two subnets of a VR overlap.
LEMMA DisjointNext == ForwardInv /\ SubnetsDisjoint /\ [Next]_forwardVars => SubnetsDisjoint'
<1>1. SUFFICES ASSUME ForwardInv, SubnetsDisjoint, [Next]_forwardVars PROVE SubnetsDisjoint'
  OBVIOUS
<1>2. CASE UNCHANGED addr
  BY <1>1, <1>2 DEF SubnetsDisjoint, Overlap, SameSubnet, Masked, HostSize
<1>3. ASSUME NEW r \in Rif, NEW a \in IfAddress, IpAdd(r, a) PROVE SubnetsDisjoint'
  <2> DEFINE v == [ip |-> a[1], len |-> a[2]]
  <2>1. v \in IfAddr
    BY <1>3, ForwardAssumption DEF IpAdd, usable_address, IfAddr
  <2>2. v.ip = a[1] /\ v.len = a[2] /\ addr' = [addr EXCEPT ![r] = v]
    BY <1>3 DEF IpAdd
  <2>3. \A s \in Rif : (VrOf[s] = VrOf[r] /\ addr[s] # None) => ~ Overlap(addr[s], v)
    BY <1>3, <2>2 DEF IpAdd, Overlap, Shorter
  <2> HIDE DEF v
  <2>4. QED
    BY <1>1, <2>1, <2>2, <2>3, DisjointAdd
<1>4. ASSUME NEW r \in Rif, IpDel(r) PROVE SubnetsDisjoint'
  BY <1>1, <1>4, DisjointRemove DEF IpDel
<1>5. QED
  <2>1. CASE UNCHANGED forwardVars
    BY <1>2, <2>1 DEF forwardVars
  <2>2. CASE Next
    BY <1>2, <1>3, <1>4, <2>2 
    DEF Next, RouteAdd, RouteDel, NatEnable, NatDisable, IngressPolicySet, IngressPolicyDelete,
        Learn, Expire, router_neighbor_age
  <2>3. QED
    BY <1>1, <2>1, <2>2

\* The two parts together are the invariant of the hardware plan.
THEOREM DisjointSubnets == ForwardSpec => [](ForwardInv /\ SubnetsDisjoint)
<1>1. Init => SubnetsDisjoint
  BY DEF Init, SubnetsDisjoint
<1>2. QED
  BY <1>1, ForwardInvInit, ForwardInvNext, DisjointNext, PTL DEF ForwardSpec

\* A station on the links of two RIFs would make their subnets overlap.
LEMMA OneLink ==
  ASSUME ForwardInv, SubnetsDisjoint, NEW r \in Rif, NEW s \in Rif, NEW d \in Addr,
         VrOf[r] = VrOf[s], InSubnet(r, d), InSubnet(s, d)
  PROVE  r = s
<1> DEFINE a == addr[r]
           b == addr[s]
           m == Shorter(a.len, b.len)
<1>1. a \in IfAddr /\ b \in IfAddr /\ SameSubnet(d, a.ip, a.len) /\ SameSubnet(d, b.ip, b.len)
  BY InvParts DEF InSubnet
<1>2. a.ip \in Addr /\ b.ip \in Addr /\ a.len \in PrefixLen /\ b.len \in PrefixLen
  BY <1>1 DEF IfAddr
<1>3. m \in PrefixLen /\ m <= a.len /\ m <= b.len
  BY <1>2, ForwardAssumption DEF Shorter, PrefixLen
<1> HIDE DEF a, b, m
<1>4. SameSubnet(d, a.ip, m) /\ SameSubnet(d, b.ip, m)
  BY <1>1, <1>2, <1>3, SubnetsNest
<1>5. SameSubnet(a.ip, b.ip, m)
  BY <1>4 DEF SameSubnet
<1>6. Overlap(addr[r], addr[s])
  BY <1>5 DEF Overlap, a, b, m
<1>7. QED
  BY <1>6 DEF SubnetsDisjoint, InSubnet

-----------------------------------------------------------------------------
(***************************************************************************)
(* The hardware plan.  HostOK and PrefixOK are the conditions under which  *)
(* a turn of the two loops of router_hw_routes_build appends an entry.     *)
(***************************************************************************)
HwEntry == [vr : Nat, egress : Rif, prefix : Addr, len : PrefixLen, hop : Addr]
PlanType == [seq : Seq(HwEntry), full : BOOLEAN]

SameKey(f, e) == f.vr = e.vr /\ f.prefix = e.prefix /\ f.len = e.len
HasKey(S, e) == \E f \in S : SameKey(f, e)

\* A turn adds its entry or finds another of the same key, and never drops one.
Appended(p, e, q) ==
  /\ q \in PlanType
  /\ ~ q.full => ~ p.full /\ HasKey(Range(q.seq), e)
  /\ Range(p.seq) \subseteq Range(q.seq)
  /\ \A f \in Range(q.seq) : f \in Range(p.seq) \/ f = e

\* What append_route does.
LEMMA AppendRoute ==
  ASSUME NEW p \in PlanType, NEW e \in HwEntry
  PROVE  Appended(p, e, append_route(p, e))
<1>1. p.seq \in Seq(HwEntry) /\ p.full \in BOOLEAN
  BY DEF PlanType
<1>2. CASE p.full
  <2>1. append_route(p, e) = p
    BY <1>2 DEF append_route
  <2>2. QED
    BY <1>2, <2>1 DEF Appended
<1>3. CASE ~ p.full /\ Len(p.seq) >= HwCapacity
  <2>1. append_route(p, e) = [p EXCEPT !.full = TRUE]
    BY <1>3 DEF append_route
  <2>2. /\ append_route(p, e) \in PlanType /\ append_route(p, e).full = TRUE
        /\ append_route(p, e).seq = p.seq
    BY <2>1 DEF PlanType
  <2>3. QED
    BY <2>2 DEF Appended
<1>4. CASE ~ p.full /\ ~ (Len(p.seq) >= HwCapacity)
  <2> DEFINE Known == \E i \in DOMAIN p.seq : SameKey(p.seq[i], e)
  <2>1. append_route(p, e) = IF Known THEN p ELSE [p EXCEPT !.seq = Append(p.seq, e)]
    BY <1>4 DEF append_route, SameKey
  <2>2. CASE Known
    <3>1. append_route(p, e) = p
      BY <2>1, <2>2
    <3>2. HasKey(Range(p.seq), e)
      BY <2>2 DEF HasKey, Range
    <3>3. QED
      BY <1>4, <3>1, <3>2 DEF Appended
  <2>3. CASE ~ Known
    <3> DEFINE q == append_route(p, e)
               t == Append(p.seq, e)
    <3>1. t \in Seq(HwEntry)
      BY <1>1
    <3>2. DOMAIN t = DOMAIN p.seq \union {Len(p.seq) + 1} /\ t[Len(p.seq) + 1] = e
          /\ \A i \in DOMAIN p.seq : t[i] = p.seq[i]
      BY <1>1
    <3>3. Range(t) = Range(p.seq) \union {e}
      BY <3>2 DEF Range
    <3>4. q = [p EXCEPT !.seq = t]
      BY <2>1, <2>3
    <3> HIDE DEF q, t
    <3>5. q \in PlanType /\ q.seq = t /\ q.full = p.full
      BY <3>1, <3>4 DEF PlanType
    <3>6. HasKey(Range(t), e)
      BY <3>3 DEF HasKey, SameKey
    <3>7. Appended(p, e, q)
      BY <1>4, <3>3, <3>5, <3>6 DEF Appended
    <3>8. QED
      BY <3>7 DEF q
  <2>4. QED
    BY <2>2, <2>3
<1>5. QED
  BY <1>2, <1>3, <1>4

\* What a whole loop does whose turns of W append the entries E.
Extended(b, W, E, q) ==
  /\ q \in PlanType
  /\ ~ q.full => ~ b.full /\ \A n \in W : HasKey(Range(q.seq), E[n])
  /\ Range(b.seq) \subseteq Range(q.seq)
  /\ \A f \in Range(q.seq) : f \in Range(b.seq) \/ \E n \in W : f = E[n]

\* One more turn.
LEMMA ExtendedStep ==
  ASSUME NEW b, NEW W, NEW E, NEW p, Extended(b, W, E, p), NEW n, E[n] \in HwEntry
  PROVE  Extended(b, W \union {n}, E, append_route(p, E[n]))
<1> DEFINE q == append_route(p, E[n])
<1>1. p \in PlanType
  BY DEF Extended
<1>2. Appended(p, E[n], q)
  BY <1>1, AppendRoute
<1> HIDE DEF q
<1>3. ASSUME ~ q.full, NEW m \in W \union {n} PROVE HasKey(Range(q.seq), E[m])
  <2>1. CASE m = n
    BY <1>2, <1>3, <2>1 DEF Appended
  <2>2. CASE m \in W
    <3>1. HasKey(Range(p.seq), E[m]) /\ Range(p.seq) \subseteq Range(q.seq)
      BY <1>2, <1>3, <2>2 DEF Appended, Extended
    <3>2. QED
      BY <3>1 DEF HasKey
  <2>3. QED
    BY <2>1, <2>2
<1>4. ~ q.full => ~ b.full
  BY <1>2 DEF Appended, Extended
<1>5. q \in PlanType /\ Range(b.seq) \subseteq Range(q.seq)
  BY <1>2 DEF Appended, Extended
<1>6. \A f \in Range(q.seq) : f \in Range(b.seq) \/ \E m \in W \union {n} : f = E[m]
  BY <1>2 DEF Appended, Extended
<1>7. Extended(b, W \union {n}, E, q)
  BY <1>3, <1>4, <1>5, <1>6 DEF Extended
<1>8. QED
  BY <1>7 DEF q

\* The loop as a recursive function.
PlanLoop(b, L, W, E, x) ==
  x = [n \in 0..L |-> IF n = 0 THEN b
                      ELSE IF n \in W THEN append_route(x[n-1], E[n]) ELSE x[n-1]]

\* It has a run,
LEMMA PlanLoopRuns ==
  ASSUME NEW b \in PlanType, NEW L \in Nat, NEW W, NEW E,
         \A n \in 1..L : n \in W => E[n] \in HwEntry
  PROVE  \E x : PlanLoop(b, L, W, E, x)
<1> DEFINE Turn(n, p) == IF n \in W THEN append_route(p, E[n]) ELSE p
           F == [z \in (1..L) \X PlanType |-> Turn(z[1], z[2])]
<1>1. ASSUME NEW n \in 1..L, NEW p \in PlanType PROVE Turn(n, p) \in PlanType
  BY AppendRoute DEF Appended
<1> HIDE DEF Turn
<1>2. F \in LoopBody(PlanType, L)
  BY <1>1 DEF LoopBody
<1> HIDE DEF F
<1>3. PICK g : LoopRun(PlanType, b, L, F, g)
  BY ONLY <1>2, b \in PlanType, L \in Nat, LoopRuns, Zenon
<1>4. g \in [0..L -> PlanType] /\ g[0] = b /\ \A n \in 1..L : g[n] = F[<<n, g[n-1]>>]
  BY <1>3 DEF LoopRun
<1>5. ASSUME NEW n \in 0..L, n # 0 PROVE g[n] = Turn(n, g[n-1])
  <2>1. n \in 1..L /\ n - 1 \in 0..L
    BY <1>5
  <2>2. g[n-1] \in PlanType /\ g[n] = F[<<n, g[n-1]>>]
    BY <1>4, <2>1
  <2>3. QED
    BY <2>1, <2>2 DEF F
<1>6. PlanLoop(b, L, W, E, g)
  <2>1. g = [n \in 0..L |-> IF n = 0 THEN b ELSE Turn(n, g[n-1])]
    BY <1>4, <1>5
  <2>2. QED
    BY <2>1 DEF PlanLoop, Turn
<1>7. QED
  BY <1>6

\* and the run ends with the plan extended by the turns of W.
LEMMA PlanLoopOK ==
  ASSUME NEW b \in PlanType, NEW L \in Nat, NEW W, W \subseteq 1..L, NEW E,
         \A n \in W : E[n] \in HwEntry, NEW x, PlanLoop(b, L, W, E, x)
  PROVE  Extended(b, W, E, x[L])
<1> DEFINE In(n) == {m \in W : m <= n}
           Good(n) == Extended(b, In(n), E, x[n])
           T == {n \in Nat : n <= L => Good(n)}
<1>0. \A k \in W : k \in Nat /\ 1 <= k /\ k <= L
  OBVIOUS
<1>1. 0 \in T
  <2>1. x[0] = b
    BY DEF PlanLoop
  <2>2. In(0) = {}
    <3>1. \A k \in W : ~ (k <= 0)
      BY <1>0
    <3>2. QED
      BY <3>1
  <2>3. QED
    BY <2>1, <2>2 DEF Extended
<1>2. ASSUME NEW n \in Nat, n \in T PROVE n + 1 \in T
  <2>1. SUFFICES ASSUME n + 1 <= L PROVE Good(n + 1)
    OBVIOUS
  <2>2. Good(n) /\ n + 1 \in 0..L /\ n + 1 # 0 /\ (n + 1) - 1 = n
    BY <1>2, <2>1
  <2>3. x[n+1] = IF n + 1 \in W THEN append_route(x[n], E[n+1]) ELSE x[n]
    BY <2>2 DEF PlanLoop
  <2>4. CASE n + 1 \in W
    <3>1. In(n + 1) = In(n) \union {n + 1}
      <4>1. \A k \in W : k <= n + 1 <=> (k <= n \/ k = n + 1)
        BY <1>0
      <4>2. QED
        BY <2>4, <4>1
    <3>2. E[n+1] \in HwEntry /\ x[n+1] = append_route(x[n], E[n+1])
      BY <2>3, <2>4
    <3> DEFINE S == In(n)
               m == n + 1
               p == x[n]
    <3>3. Extended(b, S, E, p) /\ E[m] \in HwEntry
      BY <2>2, <3>2
    <3> HIDE DEF S, m, p, In
    <3>4. Extended(b, S \union {m}, E, append_route(p, E[m]))
      BY ONLY <3>3, ExtendedStep
    <3>5. QED
      BY <3>1, <3>2, <3>4 DEF S, m, p
  <2>5. CASE n + 1 \notin W
    <3>1. In(n + 1) = In(n)
      <4>1. \A k \in W : k <= n + 1 => k <= n
        BY <2>5
      <4>2. \A k \in W : k <= n => k <= n + 1
        BY <2>5
      <4>3. QED
        BY <4>1, <4>2
    <3>2. QED
      BY <2>2, <2>3, <2>5, <3>1
  <2>6. QED
    BY <2>4, <2>5
<1>3. Nat \subseteq T
  <2> HIDE DEF T
  <2>1. QED
    BY <1>1, <1>2, NatSetInduction
<1>4. Good(L)
  <2> HIDE DEF Good
  <2>1. L \in T /\ L <= L
    BY <1>3
  <2>2. QED
    BY <2>1
<1>5. In(L) = W
  BY <1>0
<1>6. QED
  BY <1>4, <1>5

\* The neighbors the first loop appends, and the routes the second appends.
HostOK(n) == n # None /\ n.live /\ Promotable(n.rif) /\ ~ static_route_wins(n.rif, n.ip)
PrefixOK(route) == Promotable(route.rif) /\ Resolved(route.rif, route.gw)

HostSlots == {s \in Slot : HostOK(nbrs[s])}
PrefixRoutes == {i \in DOMAIN routes : PrefixOK(routes[i])}

HostEntry(s) == HwRoute(nbrs[s].rif, nbrs[s].ip, Width, nbrs[s].ip)
PrefixEntry(i) == HwRoute(routes[i].rif, routes[i].prefix, routes[i].len, routes[i].gw)

HostEntries == [s \in HostSlots |-> HostEntry(s)]
PrefixEntries == [i \in PrefixRoutes |-> PrefixEntry(i)]

\* A plan entry has the fields it is built from.
LEMMA HwRouteShape ==
  ASSUME NEW r \in Rif, NEW p \in Addr, NEW l \in PrefixLen, NEW h \in Addr
  PROVE  /\ HwRoute(r, p, l, h) \in HwEntry
         /\ HwRoute(r, p, l, h).vr = VrOf[r] /\ HwRoute(r, p, l, h).egress = r
         /\ HwRoute(r, p, l, h).prefix = p /\ HwRoute(r, p, l, h).len = l
         /\ HwRoute(r, p, l, h).hop = h
<1>1. VrOf[r] \in Nat
  BY ForwardAssumption
<1>2. QED
  BY <1>1 DEF HwRoute, HwEntry

\* An entry for a neighbor,
LEMMA HostEntryShape ==
  ASSUME ForwardInv, NEW s \in HostSlots
  PROVE  /\ HostEntries[s] \in HwEntry /\ nbrs[s] \in Nbr /\ nbrs[s].live
         /\ nbrs[s].rif \in Rif /\ nbrs[s].ip \in Addr
         /\ HostEntries[s].vr = VrOf[nbrs[s].rif] /\ HostEntries[s].egress = nbrs[s].rif
         /\ HostEntries[s].prefix = nbrs[s].ip /\ HostEntries[s].len = Width
         /\ HostEntries[s].hop = nbrs[s].ip
<1>1. nbrs[s] \in Nbr /\ nbrs[s].live
  BY InvParts DEF HostSlots, HostOK
<1>2. nbrs[s].rif \in Rif /\ nbrs[s].ip \in Addr
  BY <1>1 DEF Nbr
<1>3. Width \in PrefixLen
  BY ForwardAssumption DEF PrefixLen
<1>4. HostEntries[s] = HwRoute(nbrs[s].rif, nbrs[s].ip, Width, nbrs[s].ip)
  BY DEF HostEntries, HostEntry
<1>5. QED
  BY <1>1, <1>2, <1>3, <1>4, HwRouteShape

\* and one for a route.
LEMMA PrefixEntryShape ==
  ASSUME ForwardInv, NEW i \in PrefixRoutes
  PROVE  /\ PrefixEntries[i] \in HwEntry /\ routes[i] \in Route /\ i \in DOMAIN routes
         /\ PrefixEntries[i].vr = VrOf[routes[i].rif] /\ PrefixEntries[i].egress = routes[i].rif
         /\ PrefixEntries[i].prefix = routes[i].prefix /\ PrefixEntries[i].len = routes[i].len
         /\ PrefixEntries[i].hop = routes[i].gw
<1>1. i \in DOMAIN routes /\ routes[i] \in Route
  BY InvParts DEF PrefixRoutes
<1>2. routes[i].rif \in Rif /\ routes[i].prefix \in Addr /\ routes[i].len \in PrefixLen
      /\ routes[i].gw \in Addr
  BY <1>1 DEF Route
<1>3. PrefixEntries[i] = HwRoute(routes[i].rif, routes[i].prefix, routes[i].len, routes[i].gw)
  BY DEF PrefixEntries, PrefixEntry
<1>4. QED
  BY <1>1, <1>2, <1>3, HwRouteShape

NoPlan == [seq |-> <<>>, full |-> FALSE]

\* The first loop of router_hw_routes_build.
LEMMA HostPlanOK ==
  ASSUME ForwardInv PROVE Extended(NoPlan, HostSlots, HostEntries, HostPlan)
<1> DEFINE R(y) == [n \in 0..NbrSlots |-> IF n = 0 THEN NoPlan ELSE HostStep(y[n-1], nbrs[n])]
           x == CHOOSE y : y = R(y)
           W == HostSlots
           E == HostEntries
<1>1. NbrSlots \in Nat /\ W \subseteq 1..NbrSlots
  BY ForwardAssumption DEF HostSlots, Slot
<1>2. NoPlan \in PlanType
  <2>1. <<>> \in Seq(HwEntry)
    OBVIOUS
  <2>2. QED
    BY <2>1 DEF NoPlan, PlanType
<1>3. \A n \in W : E[n] \in HwEntry
  BY HostEntryShape
<1>4. ASSUME NEW y, NEW n \in 1..NbrSlots
      PROVE  HostStep(y[n-1], nbrs[n]) = IF n \in W THEN append_route(y[n-1], E[n]) ELSE y[n-1]
  <2>1. n \in W <=> HostOK(nbrs[n])
    BY DEF HostSlots, Slot
  <2>2. CASE n \in W
    <3>1. E[n] = HwRoute(nbrs[n].rif, nbrs[n].ip, Width, nbrs[n].ip)
      BY <2>2 DEF HostEntries, HostEntry
    <3>2. QED
      BY <2>1, <2>2, <3>1 DEF HostStep, HostOK
  <2>3. CASE n \notin W
    BY <2>1, <2>3 DEF HostStep, HostOK
  <2>4. QED
    BY <2>2, <2>3
<1> HIDE DEF W, E
<1>5. ASSUME NEW y PROVE y = R(y) <=> PlanLoop(NoPlan, NbrSlots, W, E, y)
  <2>1. \A n \in 0..NbrSlots : n # 0 => n \in 1..NbrSlots
    BY <1>1
  <2>2. R(y) = [n \in 0..NbrSlots |->
                  IF n = 0 THEN NoPlan
                  ELSE IF n \in W THEN append_route(y[n-1], E[n]) ELSE y[n-1]]
    BY <1>4, <2>1
  <2>3. QED
    BY <2>2 DEF PlanLoop
<1>6. \E y : PlanLoop(NoPlan, NbrSlots, W, E, y)
  BY <1>1, <1>2, <1>3, PlanLoopRuns
<1>7. x = R(x)
  <2> HIDE DEF R
  <2>1. QED
    BY <1>5, <1>6
<1>8. HostPlan = x[NbrSlots]
  BY DEF HostPlan, NoPlan
<1> HIDE DEF x, R
<1>9. PlanLoop(NoPlan, NbrSlots, W, E, x)
  BY <1>5, <1>7
<1>10. Extended(NoPlan, W, E, x[NbrSlots])
  BY <1>1, <1>2, <1>3, <1>9, PlanLoopOK
<1>11. QED
  BY <1>8, <1>10 DEF W, E

\* The second loop, started with the result of the first.
LEMMA PrefixPlanOK ==
  ASSUME ForwardInv
  PROVE  Extended(HostPlan, PrefixRoutes, PrefixEntries, router_hw_routes_build)
<1> DEFINE L == Len(routes)
           b == HostPlan
           R(y) == [n \in 0..L |-> IF n = 0 THEN b ELSE PrefixStep(y[n-1], routes[n])]
           x == CHOOSE y : y = R(y)
           W == PrefixRoutes
           E == PrefixEntries
<1>1. L \in Nat /\ DOMAIN routes = 1..L /\ W \subseteq 1..L
  BY InvParts DEF PrefixRoutes
<1>2. b \in PlanType
  BY HostPlanOK DEF Extended
<1>3. \A n \in W : E[n] \in HwEntry
  BY PrefixEntryShape
<1>4. ASSUME NEW y, NEW n \in 1..L
      PROVE  PrefixStep(y[n-1], routes[n])
               = IF n \in W THEN append_route(y[n-1], E[n]) ELSE y[n-1]
  <2>1. n \in W <=> PrefixOK(routes[n])
    BY <1>1 DEF PrefixRoutes
  <2>2. CASE n \in W
    <3>1. E[n] = HwRoute(routes[n].rif, routes[n].prefix, routes[n].len, routes[n].gw)
      BY <2>2 DEF PrefixEntries, PrefixEntry
    <3>2. QED
      BY <2>1, <2>2, <3>1 DEF PrefixStep, PrefixOK
  <2>3. CASE n \notin W
    BY <2>1, <2>3 DEF PrefixStep, PrefixOK
  <2>4. QED
    BY <2>2, <2>3
<1> HIDE DEF W, E, b
<1>5. ASSUME NEW y PROVE y = R(y) <=> PlanLoop(b, L, W, E, y)
  <2>1. \A n \in 0..L : n # 0 => n \in 1..L
    BY <1>1
  <2> HIDE DEF L
  <2>2. R(y) = [n \in 0..L |-> IF n = 0 THEN b
                               ELSE IF n \in W THEN append_route(y[n-1], E[n]) ELSE y[n-1]]
    BY <1>4, <2>1
  <2>3. QED
    BY <2>2 DEF PlanLoop
<1>6. \E y : PlanLoop(b, L, W, E, y)
  <2> HIDE DEF L
  <2>1. QED
    BY <1>1, <1>2, <1>3, PlanLoopRuns
<1>7. x = R(x)
  <2> HIDE DEF R
  <2>1. QED
    BY <1>5, <1>6
<1>8. router_hw_routes_build = x[L]
  BY DEF router_hw_routes_build, b
<1> HIDE DEF x, R, L
<1>9. PlanLoop(b, L, W, E, x)
  BY <1>5, <1>7
<1>10. Extended(b, W, E, x[L])
  BY <1>1, <1>2, <1>3, <1>9, PlanLoopOK
<1>11. QED
  BY <1>8, <1>10 DEF W, E, b

\* Every entry of the plan is that of a neighbor or a route, and a plan that
\* is not full has an entry for the key of each.
LEMMA PlanExact ==
  ASSUME ForwardInv
  PROVE  /\ \A f \in Plan : \/ \E s \in HostSlots : f = HostEntries[s]
                            \/ \E i \in PrefixRoutes : f = PrefixEntries[i]
         /\ ~ router_hw_routes_build.full =>
              /\ \A s \in HostSlots : HasKey(Plan, HostEntries[s])
              /\ \A i \in PrefixRoutes : HasKey(Plan, PrefixEntries[i])
<1> DEFINE h == HostPlan
           p == router_hw_routes_build
<1>1. Extended(NoPlan, HostSlots, HostEntries, h) /\ Extended(h, PrefixRoutes, PrefixEntries, p)
  BY HostPlanOK, PrefixPlanOK
<1>2. Plan = Range(p.seq)
  BY DEF Plan
<1> HIDE DEF h, p
<1>3. Range(NoPlan.seq) = {}
  BY DEF NoPlan, Range
<1>4. \A f \in Plan : \/ \E s \in HostSlots : f = HostEntries[s]
                      \/ \E i \in PrefixRoutes : f = PrefixEntries[i]
  BY <1>1, <1>2, <1>3 DEF Extended
<1>5. ASSUME ~ p.full
      PROVE  /\ \A s \in HostSlots : HasKey(Plan, HostEntries[s])
             /\ \A i \in PrefixRoutes : HasKey(Plan, PrefixEntries[i])
  <2>1. ~ h.full /\ Range(h.seq) \subseteq Plan
        /\ \A i \in PrefixRoutes : HasKey(Plan, PrefixEntries[i])
    BY <1>1, <1>2, <1>5 DEF Extended
  <2>2. \A s \in HostSlots : HasKey(Range(h.seq), HostEntries[s])
    BY <1>1, <2>1 DEF Extended
  <2>3. QED
    BY <2>1, <2>2 DEF HasKey
<1>6. QED
  BY <1>4, <1>5 DEF p

-----------------------------------------------------------------------------
(***************************************************************************)
(* The hardware lookup against the Arm decision.                           *)
(***************************************************************************)

\* The LPM picks a hit of greatest length.
LEMMA PickIsLongest ==
  ASSUME NEW H, H # {}, \A e \in H : e.len \in PrefixLen
  PROVE  HwPick(H) \in H /\ \A f \in H : f.len <= HwPick(H).len
<1> DEFINE T == {e.len : e \in H}
<1>1. Width \in Nat /\ T \subseteq 0..Width /\ T # {}
  BY ForwardAssumption DEF PrefixLen
<1>2. PICK t \in T : \A y \in T : y <= t
  BY <1>1, NatGreatest
<1>3. PICK e \in H : \A f \in H : f.len <= e.len
  BY <1>2
<1>4. QED
  BY <1>3 DEF HwPick

\* A forwarding decision is the longest of the candidates.
LEMMA ForwardIsLongest ==
  ASSUME ForwardInv, NEW r \in Rif, NEW d \in Addr, lookup_with_ingress(r, d).kind = "forward"
  PROVE  /\ d \notin LocalAddr(VrOf[r])
         /\ lookup_with_ingress(r, d).route \in Candidates(VrOf[r], d)
         /\ \A c \in Candidates(VrOf[r], d) \ {lookup_with_ingress(r, d).route} :
              \/ c.len < lookup_with_ingress(r, d).route.len
              \/ /\ c.len = lookup_with_ingress(r, d).route.len
                 /\ lookup_with_ingress(r, d).route.conn
<1> DEFINE all == Candidates(VrOf[r], d)
           best == BestRoute(VrOf[r], d)
           dec == lookup_with_ingress(r, d)
<1>1. /\ d \notin LocalAddr(VrOf[r]) /\ best.hop # None
      /\ dec.route = best
  BY DEF lookup_with_ingress, Decision
<1>2. all = ConnectedIn(VrOf[r], d, RifCount) \union StaticIn(VrOf[r], d, Len(routes))
  <2>1. DOMAIN routes = 1..Len(routes)
    BY InvParts
  <2>2. QED
    BY <2>1 DEF Candidates, ConnectedIn, StaticIn, Rif
<1>3. Longest(best, all)
  BY <1>2, StaticLoopOK
<1> HIDE DEF all, best, dec
<1>4. all # {}
  BY <1>1, <1>3, NothingIsBest DEF Longest
<1>5. best \in all /\ \A c \in all \ {best} : c.len < best.len \/ (c.len = best.len /\ best.conn)
  BY <1>3, <1>4 DEF Longest
<1>6. QED
  BY <1>1, <1>5 DEF all, dec

\* Every candidate is well formed.
LEMMA CandidatesAreBest ==
  ASSUME ForwardInv, NEW vr, NEW d \in Addr PROVE Candidates(vr, d) \subseteq Best
<1>1. ASSUME NEW s \in Rif, InSubnet(s, d) PROVE Found(s, d, addr[s].len, TRUE) \in Best
  BY <1>1, ConnectedFound, FoundIsBest
<1>2. ASSUME NEW i \in DOMAIN routes
      PROVE  Found(routes[i].rif, routes[i].gw, routes[i].len, FALSE) \in Best
  <2>1. routes[i] \in Route
    BY InvParts
  <2>2. QED
    BY <2>1, FoundIsBest DEF Route
<1>3. QED
  BY <1>1, <1>2 DEF Candidates

\* The candidates a connected subnet and a static route give.
LEMMA CandidateShape ==
  ASSUME ForwardInv, NEW vr, NEW d \in Addr
  PROVE  /\ \A s \in Rif : (VrOf[s] = vr /\ InSubnet(s, d)) =>
              /\ Found(s, d, addr[s].len, TRUE) \in Candidates(vr, d)
              /\ Found(s, d, addr[s].len, TRUE).len = addr[s].len
              /\ Found(s, d, addr[s].len, TRUE).conn = TRUE
         /\ \A i \in DOMAIN routes :
              (VrOf[routes[i].rif] = vr /\ Covers(routes[i].prefix, routes[i].len, d)) =>
                /\ Found(routes[i].rif, routes[i].gw, routes[i].len, FALSE) \in Candidates(vr, d)
                /\ Found(routes[i].rif, routes[i].gw, routes[i].len, FALSE).len = routes[i].len
                /\ Found(routes[i].rif, routes[i].gw, routes[i].len, FALSE).conn = FALSE
<1>1. ASSUME NEW s \in Rif, VrOf[s] = vr, InSubnet(s, d)
      PROVE  Found(s, d, addr[s].len, TRUE) \in Candidates(vr, d)
  BY <1>1 DEF Candidates
<1>2. ASSUME NEW i \in DOMAIN routes, VrOf[routes[i].rif] = vr,
             Covers(routes[i].prefix, routes[i].len, d)
      PROVE  Found(routes[i].rif, routes[i].gw, routes[i].len, FALSE) \in Candidates(vr, d)
  BY <1>2 DEF Candidates
<1>3. QED
  BY <1>1, <1>2 DEF Found

\* A host entry that matches d is a neighbor with the address d, and no static
\* route of its VR that covers d is longer than its subnet.
LEMMA HostHit ==
  ASSUME ForwardInv, NeighborsOnLink, NEW d \in Addr, NEW s \in HostSlots,
         Covers(HostEntries[s].prefix, HostEntries[s].len, d)
  PROVE  /\ nbrs[s].ip = d /\ InSubnet(nbrs[s].rif, d)
         /\ \A i \in DOMAIN routes :
              ~ (/\ VrOf[routes[i].rif] = VrOf[nbrs[s].rif]
                 /\ routes[i].len > addr[nbrs[s].rif].len
                 /\ Covers(routes[i].prefix, routes[i].len, d))
<1>1. nbrs[s].ip = d
  BY HostEntryShape, FullMask DEF Covers
<1>2. s \in Slot /\ nbrs[s] # None /\ nbrs[s].live /\ ~ static_route_wins(nbrs[s].rif, nbrs[s].ip)
  BY DEF HostSlots, HostOK
<1>3. InSubnet(nbrs[s].rif, d)
  BY <1>1, <1>2 DEF NeighborsOnLink
<1>4. QED
  BY <1>1, <1>2, <1>3 DEF static_route_wins

\* Routes have lengths.
LEMMA RouteLen == ASSUME ForwardInv, NEW i \in DOMAIN routes PROVE routes[i].len \in PrefixLen
<1>1. routes[i] \in Route
  BY InvParts
<1>2. QED
  BY <1>1 DEF Route

\* A connected decision for a resolved station: its /32 entry is the hit, and
\* a host of another RIF or a static /32 could only tie with it.
LEMMA ConnectedLikeArm ==
  ASSUME ForwardInv, SubnetsDisjoint, NeighborsOnLink, ~ router_hw_routes_build.full,
         NEW r \in Rif, NEW d \in Addr, addr[r] # None, d \notin LocalAddr(VrOf[r]),
         NEW e \in Rif, VrOf[e] = VrOf[r], InSubnet(e, d),
         \A c \in Candidates(VrOf[r], d) : c.len <= addr[e].len,
         Promotable(e), Resolved(e, d)
  PROVE  /\ HwHits(Plan, r, d) # {}
         /\ HwPick(HwHits(Plan, r, d)).egress = e /\ HwPick(HwHits(Plan, r, d)).hop = d
<1> DEFINE H == HwHits(Plan, r, d)
           g == HwPick(H)
           vr == VrOf[r]
<1>1. H = {f \in Plan : f.vr = vr /\ Covers(f.prefix, f.len, d)}
  BY DEF HwHits, LocalAddr
<1>2. \A f \in Plan : f.len \in PrefixLen
  BY PlanExact, HostEntryShape, PrefixEntryShape DEF HwEntry
<1>3. addr[e] \in IfAddr /\ addr[e].len \in PrefixLen /\ addr[e].ip \in Addr
  <2>1. addr[e] \in IfAddr
    BY InvParts DEF InSubnet
  <2>2. QED
    BY <2>1 DEF IfAddr
<1>4. Width \in Nat /\ \A l \in PrefixLen : l \in Nat /\ l <= Width
  BY ForwardAssumption DEF PrefixLen
<1>5. PICK s \in Slot : nbrs[s] = [rif |-> e, ip |-> d, live |-> TRUE]
  BY DEF Resolved
<1>6. ~ static_route_wins(e, d)
  <2>1. SUFFICES ASSUME NEW i \in DOMAIN routes, VrOf[routes[i].rif] = VrOf[e],
                        routes[i].len > addr[e].len, Covers(routes[i].prefix, routes[i].len, d)
                 PROVE  FALSE
    BY DEF static_route_wins
  <2>2. routes[i].len <= addr[e].len
    BY <2>1, CandidateShape, ZenonT(40)
  <2>3. routes[i].len \in PrefixLen
    BY RouteLen
  <2>4. QED
    BY <1>3, <1>4, <2>1, <2>2, <2>3
<1>7. s \in HostSlots
  <2>1. nbrs[s] # None
    <3>1. [rif |-> e, ip |-> d, live |-> TRUE] \in Nbr
      BY DEF Nbr
    <3>2. QED
      BY <1>5, <3>1, ForwardAssumption
  <2>2. nbrs[s].live /\ nbrs[s].rif = e /\ nbrs[s].ip = d
    BY <1>5
  <2>3. QED
    BY <1>6, <2>1, <2>2 DEF HostSlots, HostOK
<1>8. PICK f \in Plan : f.vr = vr /\ f.prefix = d /\ f.len = Width
  <2>1. HostEntries[s].vr = vr /\ HostEntries[s].prefix = d /\ HostEntries[s].len = Width
    BY <1>5, <1>7, HostEntryShape
  <2>2. HasKey(Plan, HostEntries[s])
    BY <1>7, PlanExact
  <2>3. QED
    BY <2>1, <2>2 DEF HasKey, SameKey
<1>9. f \in H
  BY <1>1, <1>8, FullMask DEF Covers
<1> HIDE DEF H, g
<1>10. H # {} /\ g \in H /\ f.len <= g.len
  BY <1>1, <1>2, <1>9, PickIsLongest DEF g
<1>11. g \in Plan /\ g.vr = vr /\ Covers(g.prefix, g.len, d) /\ g.len = Width
  BY <1>1, <1>2, <1>4, <1>8, <1>10
<1>12. ASSUME NEW t \in HostSlots, g = HostEntries[t] PROVE g.egress = e /\ g.hop = d
  <2>1. nbrs[t].ip = d /\ InSubnet(nbrs[t].rif, d)
    BY <1>11, <1>12, HostHit
  <2>2. nbrs[t].rif \in Rif /\ VrOf[nbrs[t].rif] = VrOf[e] /\ g.egress = nbrs[t].rif
        /\ g.hop = nbrs[t].ip
    BY <1>11, <1>12, HostEntryShape
  <2>3. nbrs[t].rif = e
    BY <2>1, <2>2, OneLink
  <2>4. QED
    BY <2>1, <2>2, <2>3
<1>13. ASSUME NEW i \in PrefixRoutes, g = PrefixEntries[i] PROVE FALSE
  <2>1. /\ i \in DOMAIN routes /\ VrOf[routes[i].rif] = vr /\ routes[i].len = Width
        /\ Covers(routes[i].prefix, routes[i].len, d)
    BY <1>11, <1>13, PrefixEntryShape
  <2>2. Width <= addr[e].len
    BY <2>1, CandidateShape, ZenonT(40)
  <2>3. addr[e].len = Width
    BY <1>3, <1>4, <2>2
  <2>4. addr[e].ip = d
    BY <1>3, <2>3, FullMask DEF InSubnet, SameSubnet
  <2>5. QED
    BY <2>4 DEF LocalAddr, InSubnet
<1>14. QED
  BY <1>10, <1>11, <1>12, <1>13, PlanExact DEF H, g

\* A static decision with a resolved gateway: no other static route is as
\* long, and a host entry would belong to a wider subnet, which the route wins.
LEMMA StaticLikeArm ==
  ASSUME ForwardInv, SubnetsDisjoint, NeighborsOnLink, ~ router_hw_routes_build.full,
         NEW r \in Rif, NEW d \in Addr, addr[r] # None, d \notin LocalAddr(VrOf[r]),
         NEW i \in DOMAIN routes, VrOf[routes[i].rif] = VrOf[r],
         Covers(routes[i].prefix, routes[i].len, d),
         \A c \in Candidates(VrOf[r], d) :
           \/ c = Found(routes[i].rif, routes[i].gw, routes[i].len, FALSE)
           \/ c.len < routes[i].len,
         Promotable(routes[i].rif), Resolved(routes[i].rif, routes[i].gw)
  PROVE  /\ HwHits(Plan, r, d) # {}
         /\ HwPick(HwHits(Plan, r, d)).egress = routes[i].rif
         /\ HwPick(HwHits(Plan, r, d)).hop = routes[i].gw
<1> DEFINE H == HwHits(Plan, r, d)
           g == HwPick(H)
           vr == VrOf[r]
           Of(j) == Found(routes[j].rif, routes[j].gw, routes[j].len, FALSE)
<1>1. H = {f \in Plan : f.vr = vr /\ Covers(f.prefix, f.len, d)}
  BY DEF HwHits, LocalAddr
<1>2. \A f \in Plan : f.len \in PrefixLen
  BY PlanExact, HostEntryShape, PrefixEntryShape DEF HwEntry
<1>3. Width \in Nat /\ \A l \in PrefixLen : l \in Nat /\ l <= Width
  BY ForwardAssumption DEF PrefixLen
<1>4. \A j \in DOMAIN routes : routes[j].len \in PrefixLen
  BY RouteLen
<1>5. i \in PrefixRoutes
  BY DEF PrefixRoutes, PrefixOK
<1>6. PICK f \in Plan : f.vr = vr /\ f.prefix = routes[i].prefix /\ f.len = routes[i].len
  <2>1. HasKey(Plan, PrefixEntries[i])
    BY <1>5, PlanExact
  <2>2. QED
    BY <1>5, <2>1, PrefixEntryShape DEF HasKey, SameKey
<1>7. f \in H
  BY <1>1, <1>6
<1> HIDE DEF H, g
<1>8. H # {} /\ g \in H /\ f.len <= g.len
  BY <1>1, <1>2, <1>7, PickIsLongest DEF g
<1>9. g \in Plan /\ g.vr = vr /\ Covers(g.prefix, g.len, d) /\ routes[i].len <= g.len
  BY <1>1, <1>6, <1>8
<1>10. ASSUME NEW j \in PrefixRoutes, g = PrefixEntries[j]
       PROVE  g.egress = routes[i].rif /\ g.hop = routes[i].gw
  <2>1. /\ j \in DOMAIN routes /\ VrOf[routes[j].rif] = vr /\ g.len = routes[j].len
        /\ Covers(routes[j].prefix, routes[j].len, d)
        /\ g.egress = routes[j].rif /\ g.hop = routes[j].gw
    BY <1>9, <1>10, PrefixEntryShape
  <2>2. Of(j) \in Candidates(vr, d) /\ Of(j).len = routes[j].len
    BY <2>1, CandidateShape
  <2>3. ~ (routes[j].len < routes[i].len)
    BY <1>3, <1>4, <1>9, <2>1
  <2>4. Of(j) = Of(i)
    BY <2>2, <2>3
  <2>5. routes[j].rif = routes[i].rif /\ routes[j].gw = routes[i].gw
    BY <2>4 DEF Found
  <2>6. QED
    BY <2>1, <2>5
<1>11. ASSUME NEW t \in HostSlots, g = HostEntries[t] PROVE FALSE
  <2> DEFINE n == nbrs[t].rif
             c == Found(n, d, addr[n].len, TRUE)
  <2>1. InSubnet(n, d)
        /\ ~ (/\ VrOf[routes[i].rif] = VrOf[n] /\ routes[i].len > addr[n].len
              /\ Covers(routes[i].prefix, routes[i].len, d))
    BY <1>9, <1>11, HostHit
  <2>2. n \in Rif /\ VrOf[n] = vr
    BY <1>9, <1>11, HostEntryShape
  <2>3. c \in Candidates(vr, d) /\ c.len = addr[n].len /\ c.conn = TRUE
    BY <2>1, <2>2, CandidateShape, ZenonT(40)
  <2>4. Of(i).conn = FALSE
    BY CandidateShape
  <2>5. addr[n].len < routes[i].len
    <3> HIDE DEF c, Of
    <3>1. c # Of(i)
      BY <2>3, <2>4
    <3>2. c = Of(i) \/ c.len < routes[i].len
      BY <2>3 DEF Of
    <3>3. QED
      BY <2>3, <3>1, <3>2
  <2>6. addr[n].len \in PrefixLen
    BY <2>1, <2>2, ConnectedFound
  <2>7. routes[i].len > addr[n].len
    BY <1>3, <1>4, <2>5, <2>6
  <2>8. QED
    BY <2>1, <2>2, <2>7
<1>12. QED
  BY <1>8, <1>9, <1>10, <1>11, PlanExact DEF H, g

\* The two cases of a forwarding decision.
LEMMA PlanLikeArm == ForwardInv /\ SubnetsDisjoint => ResolvedLikeArm
<1>1. SUFFICES ASSUME ForwardInv, SubnetsDisjoint, NeighborsOnLink, ~ router_hw_routes_build.full,
                      NEW r \in Rif, NEW d \in Addr, addr[r] # None,
                      lookup_with_ingress(r, d).kind = "forward",
                      Promotable(lookup_with_ingress(r, d).route.egress),
                      Resolved(lookup_with_ingress(r, d).route.egress,
                               lookup_with_ingress(r, d).route.hop)
               PROVE  /\ HwHits(Plan, r, d) # {}
                      /\ SameHop(HwPick(HwHits(Plan, r, d)), lookup_with_ingress(r, d).route)
  BY DEF ResolvedLikeArm, Plan
<1> DEFINE best == lookup_with_ingress(r, d).route
           vr == VrOf[r]
           all == Candidates(vr, d)
<1>2. /\ d \notin LocalAddr(vr) /\ best \in all
      /\ \A c \in all \ {best} : c.len < best.len \/ (c.len = best.len /\ best.conn)
  BY <1>1, ForwardIsLongest
<1>3. Promotable(best.egress) /\ Resolved(best.egress, best.hop)
  BY <1>1
<1> HIDE DEF best
<1>4. ASSUME NEW e \in Rif, VrOf[e] = vr, InSubnet(e, d), best = Found(e, d, addr[e].len, TRUE)
      PROVE  HwHits(Plan, r, d) # {} /\ SameHop(HwPick(HwHits(Plan, r, d)), best)
  <2>1. best.egress = e /\ best.hop = d /\ best.len = addr[e].len
    BY <1>4 DEF Found
  <2>2. \A c \in all : c.len \in Nat
    BY <1>1, LenIsNat, CandidatesAreBest
  <2>3. best.len \in Nat
    BY <1>2, <2>2
  <2>4. \A c \in all : c.len <= addr[e].len
    BY <1>2, <2>1, <2>2, <2>3
  <2>5. Promotable(e) /\ Resolved(e, d)
    BY <1>3, <2>1
  <2> HIDE DEF all
  <2>6. QED
    BY <1>1, <1>2, <1>4, <2>1, <2>4, <2>5, ConnectedLikeArm, ZenonT(40) DEF SameHop, all
<1>5. ASSUME NEW i \in DOMAIN routes, VrOf[routes[i].rif] = vr,
             Covers(routes[i].prefix, routes[i].len, d),
             best = Found(routes[i].rif, routes[i].gw, routes[i].len, FALSE)
      PROVE  HwHits(Plan, r, d) # {} /\ SameHop(HwPick(HwHits(Plan, r, d)), best)
  <2>1. best.egress = routes[i].rif /\ best.hop = routes[i].gw /\ best.len = routes[i].len
        /\ best.conn = FALSE
    BY <1>5 DEF Found
  <2>2. \A c \in all : c = best \/ c.len < routes[i].len
    BY <1>2, <2>1
  <2>3. \A c \in all : c = Found(routes[i].rif, routes[i].gw, routes[i].len, FALSE)
                         \/ c.len < routes[i].len
    BY <1>5, <2>2
  <2>4. Promotable(routes[i].rif) /\ Resolved(routes[i].rif, routes[i].gw)
    BY <1>3, <2>1
  <2>5. QED
    BY <1>1, <1>2, <1>5, <2>1, <2>3, <2>4, StaticLikeArm DEF SameHop
<1>6. \/ \E e \in Rif : VrOf[e] = vr /\ InSubnet(e, d) /\ best = Found(e, d, addr[e].len, TRUE)
      \/ \E i \in DOMAIN routes :
           /\ VrOf[routes[i].rif] = vr /\ Covers(routes[i].prefix, routes[i].len, d)
           /\ best = Found(routes[i].rif, routes[i].gw, routes[i].len, FALSE)
  BY <1>2 DEF Candidates
<1>7. QED
  BY <1>4, <1>5, <1>6 DEF best

\* The hardware route plan forwards every resolved destination as
\* router_forward.c would, for every address width, number of RIFs, routes and
\* neighbors, and after any history of commands and ARP traffic.
THEOREM HardwareLikeArm == ForwardSpec => []ResolvedLikeArm
BY DisjointSubnets, PlanLikeArm, PTL

=============================================================================
