--------------------------- MODULE L2SwitchProofs ---------------------------
(***************************************************************************)
(* Proofs about the vSwitches of L2Switch and the allow-lists of Vlan.     *)
(*                                                                         *)
(* The theorems need one relation between the two files and the switch,    *)
(* L2Inv: the topology file is one that attach_port accepts member by      *)
(* member in any order (TopoOK), the interfaces of the router's file find  *)
(* their ports and vSwitches in it (RouterOK), and a running daemon has    *)
(* programmed exactly the members of the file (Runs).  A handler is a      *)
(* chain of calls; lemmas about one call, about one member attached or     *)
(* detached with its rollback, and about a loop over members lead to one   *)
(* lemma for each handler.  They all say that, with one failing call, the  *)
(* handler does everything or undoes everything.                           *)
(***************************************************************************)
EXTENDS L2Switch, LoopLemmas, FiniteSetTheorems

-----------------------------------------------------------------------------
(***************************************************************************)
(* The allow-list functions are exact for every number of VLANs, the 4094  *)
(* of IEEE 802.1Q included.                                                *)
(***************************************************************************)

\* Two valid ranges overlap, as the code compares their ends, exactly when
\* they share a VLAN id: the larger of the two first ids is one.
LEMMA RangesOverlapExact ==
  ASSUME NEW f1 \in VlanWord, NEW l1 \in VlanWord, NEW f2 \in VlanWord, NEW l2 \in VlanWord,
         eswitch_vlan_range_valid(f1, l1), eswitch_vlan_range_valid(f2, l2)
  PROVE  eswitch_vlan_ranges_overlap(f1, l1, f2, l2)
           <=> VlanRange(f1, l1) \intersect VlanRange(f2, l2) # {}
<1> USE VlanAssumption DEF VlanWord, VlanId
<1> DEFINE e1 == eswitch_vlan_range_last(f1, l1)
           e2 == eswitch_vlan_range_last(f2, l2)
           top == IF f1 <= f2 THEN f2 ELSE f1
<1>1. /\ e1 \in VlanId /\ e2 \in VlanId /\ f1 \in VlanId /\ f2 \in VlanId
      /\ f1 <= e1 /\ f2 <= e2
  BY DEF eswitch_vlan_range_valid, eswitch_vlan_valid
<1>2. ASSUME eswitch_vlan_ranges_overlap(f1, l1, f2, l2)
      PROVE  VlanRange(f1, l1) \intersect VlanRange(f2, l2) # {}
  <2>1. f1 <= e2 /\ f2 <= e1
    BY <1>2 DEF eswitch_vlan_ranges_overlap
  <2>2. top \in VlanId /\ f1 <= top /\ top <= e1 /\ f2 <= top /\ top <= e2
    BY <1>1, <2>1
  <2>3. top \in VlanRange(f1, l1) /\ top \in VlanRange(f2, l2)
    BY <2>2 DEF VlanRange
  <2> QED BY <2>3
<1>3. ASSUME NEW v \in VlanRange(f1, l1) \intersect VlanRange(f2, l2)
      PROVE  eswitch_vlan_ranges_overlap(f1, l1, f2, l2)
  <2>1. v \in VlanId /\ f1 <= v /\ v <= e1 /\ f2 <= v /\ v <= e2
    BY DEF VlanRange
  <2>2. f1 <= e2 /\ f2 <= e1
    BY <1>1, <2>1
  <2> QED BY <2>2 DEF eswitch_vlan_ranges_overlap
<1> QED BY <1>2, <1>3

\* The words of a list are those a request may say.
ListWords(l) ==
  l.first \in VlanWord /\ l.last \in VlanWord /\ l.xfirst \in VlanWord /\ l.xlast \in VlanWord

\* What a valid list consists of.
LEMMA ValidListParts ==
  ASSUME NEW l, ListWords(l), eswitch_vlan_allowlist_valid(l)
  PROVE  /\ l.first \in VlanWord /\ l.last \in VlanWord
         /\ l.xfirst \in VlanWord /\ l.xlast \in VlanWord
         /\ eswitch_vlan_range_valid(l.first, l.last)
         /\ eswitch_vlan_extra_present(l) => eswitch_vlan_range_valid(l.xfirst, l.xlast)
         /\ eswitch_vlan_extra_present(l) =>
              ~ eswitch_vlan_ranges_overlap(l.first, l.last, l.xfirst, l.xlast)
BY DEF ListWords, eswitch_vlan_allowlist_valid

\* Two memberships of a port are refused as overlapping exactly when some VLAN
\* id is in both allow-lists (eswitch_vlan_allowlists_overlap): two vSwitches
\* never both own a VLAN of a port, and no disjoint pair is turned down.
THEOREM OverlapTheorem ==
  ASSUME NEW l, NEW r, ListWords(l), ListWords(r),
         eswitch_vlan_allowlist_valid(l), eswitch_vlan_allowlist_valid(r)
  PROVE  eswitch_vlan_allowlists_overlap(l, r) <=> VlanSet(l) \intersect VlanSet(r) # {}
<1> DEFINE A == VlanRange(l.first, l.last)
           B == VlanRange(l.xfirst, l.xlast)
           C == VlanRange(r.first, r.last)
           D == VlanRange(r.xfirst, r.xlast)
           lx == eswitch_vlan_extra_present(l)
           rx == eswitch_vlan_extra_present(r)
<1>1. eswitch_vlan_ranges_overlap(l.first, l.last, r.first, r.last) <=> A \intersect C # {}
  BY ValidListParts, RangesOverlapExact
<1>2. lx => (eswitch_vlan_ranges_overlap(l.xfirst, l.xlast, r.first, r.last)
               <=> B \intersect C # {})
  BY ValidListParts, RangesOverlapExact
<1>3. rx => (eswitch_vlan_ranges_overlap(l.first, l.last, r.xfirst, r.xlast)
               <=> A \intersect D # {})
  BY ValidListParts, RangesOverlapExact
<1>4. lx /\ rx => (eswitch_vlan_ranges_overlap(l.xfirst, l.xlast, r.xfirst, r.xlast)
                     <=> B \intersect D # {})
  BY ValidListParts, RangesOverlapExact
<1>5. /\ VlanSet(l) = A \union (IF lx THEN B ELSE {})
      /\ VlanSet(r) = C \union (IF rx THEN D ELSE {})
  BY DEF VlanSet
<1> HIDE DEF A, B, C, D, lx, rx
<1>6. VlanSet(l) \intersect VlanSet(r) # {}
        <=> \/ A \intersect C # {}
            \/ lx /\ B \intersect C # {}
            \/ rx /\ A \intersect D # {}
            \/ lx /\ rx /\ B \intersect D # {}
  BY <1>5
<1>7. eswitch_vlan_allowlists_overlap(l, r)
        <=> \/ eswitch_vlan_ranges_overlap(l.first, l.last, r.first, r.last)
            \/ lx /\ eswitch_vlan_ranges_overlap(l.xfirst, l.xlast, r.first, r.last)
            \/ rx /\ eswitch_vlan_ranges_overlap(l.first, l.last, r.xfirst, r.xlast)
            \/ lx /\ rx /\ eswitch_vlan_ranges_overlap(l.xfirst, l.xlast, r.xfirst, r.xlast)
  BY DEF eswitch_vlan_allowlists_overlap, lx, rx
<1> QED BY <1>1, <1>2, <1>3, <1>4, <1>6, <1>7

\* The rules eswitch_pipeline_attach_port installs by index are those of the
\* VLANs of the list: the walk of eswitch_vlan_allowlist_at leaves none out and
\* adds none, at the end of the first range and of the second.
THEOREM RulesTheorem ==
  ASSUME NEW l, ListWords(l), eswitch_vlan_allowlist_valid(l)
  PROVE  VlanRules(l) = VlanSet(l)
<1> USE VlanAssumption DEF VlanWord, VlanId
<1> DEFINE e == eswitch_vlan_range_last(l.first, l.last)
           xe == eswitch_vlan_range_last(l.xfirst, l.xlast)
           m == e - l.first + 1
           n == IF eswitch_vlan_extra_present(l) THEN xe - l.xfirst + 1 ELSE 0
<1>1. /\ l.first \in VlanId /\ e \in VlanId /\ l.first <= e
      /\ eswitch_vlan_extra_present(l) =>
           l.xfirst \in VlanId /\ xe \in VlanId /\ l.xfirst <= xe
  BY ValidListParts DEF eswitch_vlan_range_valid, eswitch_vlan_valid
<1>2. /\ eswitch_vlan_range_size(l.first, l.last) = m
      /\ eswitch_vlan_extra_present(l) => eswitch_vlan_range_size(l.xfirst, l.xlast) = n
  BY ValidListParts DEF eswitch_vlan_range_size
<1>3. eswitch_vlan_allowlist_size(l) = m + n
  BY <1>1, <1>2 DEF eswitch_vlan_allowlist_size
<1>4. m \in Nat \ {0} /\ n \in Nat
  BY <1>1
<1>5. VlanRules(l) = {eswitch_vlan_allowlist_at(l, i) : i \in 0..((m + n) - 1)}
  <2> DEFINE Upto(k) == {eswitch_vlan_allowlist_at(l, i) : i \in 0..k}
  <2>1. VlanRules(l) = Upto(eswitch_vlan_allowlist_size(l) - 1)
    BY DEF VlanRules
  <2> HIDE DEF Upto, m, n
  <2>2. VlanRules(l) = Upto((m + n) - 1)
    BY <1>3, <2>1
  <2> QED BY <2>2 DEF Upto
<1>6. ASSUME NEW i \in 0..((m + n) - 1)
      PROVE  /\ i < m => eswitch_vlan_allowlist_at(l, i) = l.first + i
             /\ i >= m => /\ eswitch_vlan_extra_present(l)
                          /\ eswitch_vlan_allowlist_at(l, i) = l.xfirst + (i - m)
  <2> HIDE DEF m
  <2> QED BY <1>2, <1>4 DEF eswitch_vlan_allowlist_at
<1>7. ASSUME NEW v \in VlanRules(l) PROVE v \in VlanSet(l)
  <2>1. PICK i \in 0..((m + n) - 1) : v = eswitch_vlan_allowlist_at(l, i)
    BY <1>5, Zenon
  <2>2. CASE i < m
    <3>1. v = l.first + i
      BY <1>6, <2>1, <2>2
    <3> QED BY <1>1, <2>2, <3>1 DEF VlanSet, VlanRange
  <2>3. CASE i >= m
    <3>1. eswitch_vlan_extra_present(l) /\ v = l.xfirst + (i - m)
      BY <1>6, <2>1, <2>3
    <3> QED BY <1>1, <2>3, <3>1 DEF VlanSet, VlanRange
  <2> QED BY <1>4, <2>2, <2>3
<1>8. ASSUME NEW v \in VlanSet(l) PROVE v \in VlanRules(l)
  <2>1. CASE v \in VlanRange(l.first, l.last)
    <3>1. v - l.first \in 0..((m + n) - 1) /\ v - l.first < m
      BY <1>1, <1>4, <2>1 DEF VlanRange
    <3>2. eswitch_vlan_allowlist_at(l, v - l.first) = v
      BY <1>1, <1>6, <2>1, <3>1 DEF VlanRange
    <3> QED BY <1>5, <3>1, <3>2, Zenon
  <2>2. CASE eswitch_vlan_extra_present(l) /\ v \in VlanRange(l.xfirst, l.xlast)
    <3> DEFINE j == m + (v - l.xfirst)
    <3>1. j \in 0..((m + n) - 1) /\ j >= m
      BY <1>1, <1>4, <2>2 DEF VlanRange
    <3>2. eswitch_vlan_allowlist_at(l, j) = v
      BY <1>1, <1>4, <1>6, <2>2, <3>1 DEF VlanRange
    <3> QED BY <1>5, <3>1, <3>2, Zenon
  <2> QED BY <2>1, <2>2 DEF VlanSet
<1> QED BY <1>7, <1>8

\* The words of a port's request.
LEMMA SpecWords == ASSUME NEW s \in PortSpec PROVE ListWords(s)
BY DEF PortSpec, ListWords

\* The ends of both ranges replaced.
LEMMA EndsReplaced ==
  ASSUME NEW s \in PortSpec, NEW a, NEW b
  PROVE  [s EXCEPT !.last = a, !.xlast = b]
           = [mode |-> s.mode, first |-> s.first, last |-> a, xfirst |-> s.xfirst, xlast |-> b]
<1> DEFINE t == [s EXCEPT !.last = a]
<1>1. t = [mode |-> s.mode, first |-> s.first, last |-> a, xfirst |-> s.xfirst, xlast |-> s.xlast]
  BY DEF PortSpec
<1>2. [s EXCEPT !.last = a, !.xlast = b] = [t EXCEPT !.xlast = b]
  OBVIOUS
<1> HIDE DEF t
<1>3. [t EXCEPT !.xlast = b]
        = [mode |-> s.mode, first |-> s.first, last |-> a, xfirst |-> s.xfirst, xlast |-> b]
  BY <1>1
<1>4. QED
  BY <1>2, <1>3

\* attach_port stores a request with its ranges written out.  That changes
\* neither what it asks for nor how it compares with another.
LEMMA NormalForm ==
  ASSUME NEW s \in PortSpec, ValidRequest(s)
  PROVE  /\ Normal(s) \in PortSpec /\ ValidRequest(Normal(s)) /\ Normal(Normal(s)) = Normal(s)
         /\ Normal(s).mode = s.mode /\ Tagged(Normal(s)) = Tagged(s)
         /\ RuleCount(Normal(s)) = RuleCount(s)
         /\ \A u : eswitch_vlan_allowlists_overlap(u, Normal(s))
                    <=> eswitch_vlan_allowlists_overlap(u, s)
<1> DEFINE n == Normal(s)
           e == eswitch_vlan_range_last(s.first, s.last)
           xe == eswitch_vlan_range_last(s.xfirst, s.xlast)
           present == eswitch_vlan_extra_present(s)
<1>1. /\ s.mode \in {"access", "trunk"} /\ s.first \in VlanWord /\ s.last \in VlanWord
      /\ s.xfirst \in VlanWord /\ s.xlast \in VlanWord
      /\ s = [mode |-> s.mode, first |-> s.first, last |-> s.last,
             xfirst |-> s.xfirst, xlast |-> s.xlast]
  BY DEF PortSpec
<1>2. /\ n = [mode |-> s.mode, first |-> s.first, last |-> e,
             xfirst |-> s.xfirst, xlast |-> IF present THEN xe ELSE 0]
      /\ n.mode = s.mode /\ n.first = s.first /\ n.last = e /\ n.xfirst = s.xfirst
      /\ n.xlast = IF present THEN xe ELSE 0
  <2>1. n = [s EXCEPT !.last = e, !.xlast = IF present THEN xe ELSE 0]
    BY DEF Normal
  <2> HIDE DEF n, e, xe, present
  <2>2. n = [mode |-> s.mode, first |-> s.first, last |-> e,
             xfirst |-> s.xfirst, xlast |-> IF present THEN xe ELSE 0]
    BY <2>1, EndsReplaced
  <2>3. QED
    BY <2>2
<1>3. 0 \in VlanWord /\ 0 \notin VlanId /\ VlanId \subseteq VlanWord
  BY VlanAssumption DEF VlanWord, VlanId
<1>4. CASE s.mode = "access"
  <2>1. s.first = s.last /\ s.xfirst = 0 /\ s.xlast = 0
    BY <1>4 DEF ValidRequest
  <2>2. e = s.last /\ ~ present
    BY <2>1 DEF eswitch_vlan_range_last, eswitch_vlan_extra_present
  <2>3. n = s
    <3> HIDE DEF n, e, xe, present
    <3>1. n = [mode |-> s.mode, first |-> s.first, last |-> s.last,
               xfirst |-> s.xfirst, xlast |-> s.xlast]
      BY <1>2, <2>1, <2>2
    <3>2. QED
      BY <1>1, <3>1
  <2>4. QED
    BY <2>3
<1>5. CASE s.mode = "trunk"
  <2>1. eswitch_vlan_allowlist_valid(s)
    BY <1>5 DEF ValidRequest
  <2>2. /\ s.first \in VlanId /\ e \in VlanId /\ s.first <= e
        /\ present => s.xfirst \in VlanId /\ xe \in VlanId /\ s.xfirst <= xe
    BY <2>1, SpecWords, ValidListParts DEF eswitch_vlan_range_valid, eswitch_vlan_valid
  <2>3. /\ eswitch_vlan_range_last(n.first, n.last) = e
        /\ present => eswitch_vlan_range_last(n.xfirst, n.xlast) = xe
        /\ eswitch_vlan_extra_present(n) <=> present
    <3>1. eswitch_vlan_range_last(n.first, n.last) = e
      BY <1>2, <1>3, <2>2 DEF eswitch_vlan_range_last
    <3>2. present => eswitch_vlan_range_last(n.xfirst, n.xlast) = xe
      BY <1>2, <1>3, <2>2 DEF eswitch_vlan_range_last
    <3>3. eswitch_vlan_extra_present(n) <=> present
      BY <1>2, <1>3, <2>2 DEF eswitch_vlan_extra_present
    <3>4. QED
      BY <3>1, <3>2, <3>3
  <2>4. n \in PortSpec
    <3> HIDE DEF n, e, xe, present
    <3>1. e \in VlanWord /\ (IF present THEN xe ELSE 0) \in VlanWord
      BY <1>3, <2>2
    <3>2. QED
      BY <1>1, <1>2, <3>1 DEF PortSpec
  <2>5. eswitch_vlan_allowlist_valid(n)
    <3> HIDE DEF n
    <3>1. eswitch_vlan_range_valid(n.first, n.last)
      BY <1>2, <2>2, <2>3 DEF eswitch_vlan_range_valid, eswitch_vlan_valid
    <3>2. present => eswitch_vlan_range_valid(n.xfirst, n.xlast)
      BY <1>2, <2>2, <2>3 DEF eswitch_vlan_range_valid, eswitch_vlan_valid
    <3>3. present => ~ eswitch_vlan_ranges_overlap(n.first, n.last, n.xfirst, n.xlast)
      BY <1>2, <2>1, <2>3 DEF eswitch_vlan_ranges_overlap, eswitch_vlan_allowlist_valid
    <3>4. QED
      BY <2>3, <3>1, <3>2, <3>3 DEF eswitch_vlan_allowlist_valid
  <2>6. Normal(n) = n
    <3> HIDE DEF n, e, xe, present
    <3>1. n = [mode |-> n.mode, first |-> n.first, last |-> n.last,
               xfirst |-> n.xfirst, xlast |-> n.xlast]
      BY <2>4 DEF PortSpec
    <3>2. Normal(n) = [mode |-> n.mode, first |-> n.first,
                       last |-> eswitch_vlan_range_last(n.first, n.last),
                       xfirst |-> n.xfirst,
                       xlast |-> IF eswitch_vlan_extra_present(n)
                                 THEN eswitch_vlan_range_last(n.xfirst, n.xlast) ELSE 0]
      BY <2>4, EndsReplaced DEF Normal
    <3>3. eswitch_vlan_range_last(n.first, n.last) = n.last
      BY <1>2, <2>3
    <3>4. (IF eswitch_vlan_extra_present(n) THEN eswitch_vlan_range_last(n.xfirst, n.xlast) ELSE 0)
            = n.xlast
      BY <1>2, <2>3
    <3>5. QED
      BY <3>1, <3>2, <3>3, <3>4
  <2>7. ASSUME NEW u PROVE eswitch_vlan_allowlists_overlap(u, n) <=> eswitch_vlan_allowlists_overlap(u, s)
    <3> HIDE DEF n
    <3>1. QED
      BY <1>2, <2>3 DEF eswitch_vlan_allowlists_overlap, eswitch_vlan_ranges_overlap
  <2>8. Tagged(n) = Tagged(s)
    <3> HIDE DEF n
    <3>1. QED
      BY <1>2, <2>3 DEF Tagged, eswitch_vlan_uses_tagged_domain, eswitch_vlan_is_transparent_trunk,
                        eswitch_vlan_is_range
  <2>9. RuleCount(n) = RuleCount(s)
    <3> HIDE DEF n
    <3>1. /\ eswitch_vlan_range_size(n.first, n.last) = eswitch_vlan_range_size(s.first, s.last)
          /\ present => eswitch_vlan_range_size(n.xfirst, n.xlast)
                           = eswitch_vlan_range_size(s.xfirst, s.xlast)
      BY <1>2, <2>3 DEF eswitch_vlan_range_size, eswitch_vlan_range_valid
    <3>2. QED
      BY <1>2, <1>5, <2>1, <2>3, <2>5, <3>1 DEF RuleCount, eswitch_vlan_allowlist_size
  <2>10. ValidRequest(n) /\ n.mode = s.mode
    BY <1>2, <1>5, <2>5 DEF ValidRequest
  <2> HIDE DEF n
  <2>11. QED
    BY <2>4, <2>6, <2>7, <2>8, <2>9, <2>10 DEF n
<1>6. QED
  BY <1>1, <1>4, <1>5

\* A valid request has at least one rule.
LEMMA RuleCountPositive ==
  ASSUME NEW s \in PortSpec, ValidRequest(s)
  PROVE  RuleCount(s) \in Nat \ {0}
<1>1. CASE s.mode # "trunk"
  BY <1>1 DEF RuleCount
<1>2. CASE s.mode = "trunk"
  <2>1. eswitch_vlan_allowlist_valid(s)
    BY <1>2 DEF ValidRequest
  <2>2. /\ eswitch_vlan_range_size(s.first, s.last) \in Nat \ {0}
        /\ eswitch_vlan_extra_present(s) => eswitch_vlan_range_size(s.xfirst, s.xlast) \in Nat
    BY <2>1, SpecWords, ValidListParts, VlanAssumption
    DEF eswitch_vlan_range_size, eswitch_vlan_range_valid, eswitch_vlan_valid, VlanId
  <2>3. QED
    BY <1>2, <2>1, <2>2 DEF RuleCount, eswitch_vlan_allowlist_size
<1>3. QED
  BY <1>1, <1>2

Fine(s) == s \in PortSpec /\ ValidRequest(s) /\ Normal(s) = s

\* The rules of a stored request are those of the tags its frames may carry.
LEMMA TagsExact ==
  ASSUME NEW s, Fine(s)
  PROVE  Tags(s) = MemberTags(s) /\ MemberTags(s) # {} /\ MemberTags(s) \subseteq Nat
<1>1. s \in PortSpec /\ ValidRequest(s) /\ s.mode \in {"access", "trunk"} /\ ListWords(s)
  BY SpecWords DEF Fine, PortSpec
<1>2. CASE s.mode = "access"
  BY <1>1, <1>2 DEF Tags, MemberTags, eswitch_vlan_is_transparent_trunk
<1>3. CASE s.mode = "trunk"
  <2>1. eswitch_vlan_allowlist_valid(s)
    BY <1>1, <1>3 DEF ValidRequest
  <2>2. s.first \in VlanId /\ s.first <= eswitch_vlan_range_last(s.first, s.last)
        /\ eswitch_vlan_range_last(s.first, s.last) \in VlanId
    BY <1>1, <2>1, ValidListParts DEF eswitch_vlan_range_valid, eswitch_vlan_valid
  <2>3. s.first \in VlanSet(s) /\ VlanSet(s) \subseteq Nat
    BY <2>2, VlanAssumption DEF VlanSet, VlanRange, VlanId
  <2>4. Tags(s) = VlanSet(s)
    <3>1. CASE eswitch_vlan_is_transparent_trunk(s.mode, s)
      BY <1>1, <2>1, <3>1, RulesTheorem DEF Tags
    <3>2. CASE ~ eswitch_vlan_is_transparent_trunk(s.mode, s)
      <4>1. ~ eswitch_vlan_extra_present(s) /\ ~ (eswitch_vlan_range_last(s.first, s.last) > s.first)
        BY <1>3, <3>2 DEF eswitch_vlan_is_transparent_trunk, eswitch_vlan_is_range
      <4>2. eswitch_vlan_range_last(s.first, s.last) = s.first
        BY <2>2, <4>1, VlanAssumption DEF VlanId
      <4>3. VlanSet(s) = {s.first}
        BY <2>2, <4>1, <4>2, VlanAssumption DEF VlanSet, VlanRange, VlanId
      <4>4. QED
        BY <1>3, <3>2, <4>3 DEF Tags
    <3>3. QED
      BY <3>1, <3>2
  <2>5. QED
    BY <1>3, <2>3, <2>4 DEF MemberTags
<1>4. QED
  BY <1>1, <1>2, <1>3

-----------------------------------------------------------------------------
(***************************************************************************)
(* Topologies.  TopoOK is what the checks of attach_port keep true of the  *)
(* topology file, whatever order its members came in.                      *)
(***************************************************************************)
Compatible(k, s, m, u) ==
  /\ k[1] = m[1] => Tagged(s) = Tagged(u)
  /\ k[2] = m[2] => s.mode = "trunk" /\ u.mode = "trunk" /\ ~ eswitch_vlan_allowlists_overlap(s, u)

AllFine(M) == \A k \in Members(M) : Fine(M[k])

TopoOK(t) ==
  /\ t \in TopoType /\ AllFine(t.mem)
  /\ \A k \in Members(t.mem) : k[1] \in t.sw
  /\ \A k, m \in Members(t.mem) : k # m => Compatible(k, t.mem[k], m, t.mem[m])
  /\ Cardinality(RuleSlots(t.mem)) <= MaxRules

\* A part of the members of a topology.
Part(M, t) == M \in MemType /\ \A k \in Pair : M[k] # None => M[k] = t.mem[k]

\* The order of two lists does not matter.
LEMMA OverlapIsSymmetric ==
  ASSUME NEW l, NEW r
  PROVE  eswitch_vlan_allowlists_overlap(l, r) <=> eswitch_vlan_allowlists_overlap(r, l)
BY DEF eswitch_vlan_allowlists_overlap, eswitch_vlan_ranges_overlap

\* The rules are finitely many.
LEMMA SlotsFinite ==
  ASSUME NEW M \in MemType, AllFine(M)
  PROVE  IsFiniteSet(RuleSlots(M)) /\ Cardinality(RuleSlots(M)) \in Nat
<1> DEFINE B == 2 * (MaxVlan + 2)
<1>1. B \in Nat
  BY VlanAssumption
<1>2. ASSUME NEW k \in Members(M) PROVE 1..RuleCount(M[k]) \subseteq 1..B
  <2> DEFINE s == M[k]
  <2>1. s \in PortSpec /\ ValidRequest(s)
    BY DEF AllFine, Fine
  <2>2. RuleCount(s) \in Nat
    BY <2>1, RuleCountPositive
  <2>3. RuleCount(s) <= B
    <3> HIDE DEF s
    <3>1. CASE s.mode # "trunk"
      BY <3>1, VlanAssumption DEF RuleCount
    <3>2. CASE s.mode = "trunk"
      <4>1. eswitch_vlan_allowlist_valid(s)
        BY <2>1, <3>2 DEF ValidRequest
      <4>2. /\ eswitch_vlan_range_size(s.first, s.last) \in 0..(MaxVlan + 2)
            /\ eswitch_vlan_extra_present(s) =>
                 eswitch_vlan_range_size(s.xfirst, s.xlast) \in 0..(MaxVlan + 2)
        BY <2>1, <4>1, SpecWords, ValidListParts, VlanAssumption
        DEF eswitch_vlan_range_size, eswitch_vlan_range_valid, eswitch_vlan_valid, VlanId
      <4>3. QED
        BY <3>2, <4>1, <4>2, VlanAssumption DEF RuleCount, eswitch_vlan_allowlist_size
    <3>3. QED
      BY <3>1, <3>2
  <2> HIDE DEF s, B
  <2>4. 1..RuleCount(s) \subseteq 1..B
    BY <1>1, <2>2, <2>3
  <2>5. QED
    BY <2>4 DEF s
<1>3. RuleSlots(M) \in SUBSET (Pair \X (1..B))
  <2> HIDE DEF B
  <2>1. QED
    BY <1>2 DEF RuleSlots, Members
<1>4. IsFiniteSet(Pair \X (1..B))
  <2> DEFINE I == 1..B
  <2>1. IsFiniteSet(I)
    BY <1>1, FS_Interval
  <2>2. IsFiniteSet(Pair)
    BY L2Assumption, FS_Product DEF Pair
  <2> HIDE DEF I
  <2>3. IsFiniteSet(Pair \X I)
    BY <2>1, <2>2, FS_Product
  <2>4. QED
    BY <2>3 DEF I
<1> HIDE DEF B
<1>5. IsFiniteSet(RuleSlots(M))
  BY <1>3, <1>4, FS_Subset
<1>6. QED
  BY <1>5, FS_CardinalityType

\* A member brings the rules it was counted with.
LEMMA SlotsPlus ==
  ASSUME NEW M \in MemType, AllFine(M), NEW k \in Pair, M[k] = None, NEW s, Fine(s)
  PROVE  /\ [M EXCEPT ![k] = s] \in MemType /\ AllFine([M EXCEPT ![k] = s])
         /\ Cardinality(RuleSlots([M EXCEPT ![k] = s]))
              = Cardinality(RuleSlots(M)) + RuleCount(s)
<1> DEFINE N == [M EXCEPT ![k] = s]
           n == RuleCount(s)
           S == RuleSlots(M)
           T == {k} \X (1..n)
<1>1. s \in PortSpec /\ s # None /\ n \in Nat
  BY RuleCountPositive, L2Assumption DEF Fine
<1>2. N \in MemType /\ N[k] = s /\ \A m \in Pair : m # k => N[m] = M[m]
  BY <1>1 DEF MemType
<1>3. Members(N) = Members(M) \union {k} /\ k \notin Members(M)
  <2> HIDE DEF N
  <2>1. QED
    BY <1>1, <1>2 DEF Members
<1>4. AllFine(N)
  <2> HIDE DEF N
  <2>1. QED
    BY <1>2, <1>3 DEF AllFine, Members
<1>5. RuleSlots(N) = S \union T
  <2> HIDE DEF N
  <2>1. \A m \in Members(M) : N[m] = M[m]
    BY <1>2, <1>3 DEF Members
  <2>2. ASSUME NEW x PROVE x \in RuleSlots(N) <=> x \in S \union T
    <3>1. x \in RuleSlots(N) <=> \E m \in Members(N) : x \in {m} \X (1..RuleCount(N[m]))
      BY Zenon DEF RuleSlots
    <3>2. x \in S <=> \E m \in Members(M) : x \in {m} \X (1..RuleCount(M[m]))
      BY Zenon DEF RuleSlots
    <3>3. x \in T <=> x \in {k} \X (1..RuleCount(N[k]))
      BY <1>2
    <3> HIDE DEF S, T
    <3>4. QED
      BY <1>3, <2>1, <3>1, <3>2, <3>3, Zenon
  <2> HIDE DEF S, T
  <2>3. QED
    BY <2>2
<1>6. S \intersect T = {}
  BY <1>3 DEF RuleSlots
<1>7. IsFiniteSet(S) /\ Cardinality(S) \in Nat
  BY SlotsFinite
<1>8. IsFiniteSet(T) /\ Cardinality(T) = n
  <2> DEFINE I == 1..n
             K == {k}
  <2>1. IsFiniteSet(I) /\ Cardinality(I) = n
    BY <1>1, FS_Interval
  <2>2. IsFiniteSet(K) /\ Cardinality(K) = 1
    BY FS_Singleton
  <2> HIDE DEF I, K, n
  <2>3. IsFiniteSet(K \X I) /\ Cardinality(K \X I) = Cardinality(K) * Cardinality(I)
    BY <2>1, <2>2, FS_Product
  <2>4. Cardinality(K \X I) = n
    BY <1>1, <2>1, <2>2, <2>3
  <2>5. QED
    BY <2>3, <2>4 DEF I, K
<1> HIDE DEF N, n, S, T
<1>9. Cardinality(S \union T) = Cardinality(S) + Cardinality(T) - Cardinality(S \intersect T)
  BY <1>7, <1>8, FS_Union
<1>10. Cardinality(S \intersect T) = 0
  BY <1>6, FS_EmptySet
<1>11. Cardinality(RuleSlots(N)) = Cardinality(S) + n
  BY <1>1, <1>5, <1>7, <1>8, <1>9, <1>10
<1>12. QED
  BY <1>2, <1>4, <1>11 DEF N, n, S

\* A part of a topology that is fine is fine.
LEMMA PartFine == ASSUME NEW t, TopoOK(t), NEW M, Part(M, t) PROVE M \in MemType /\ AllFine(M)
BY DEF TopoOK, Part, AllFine, Members

\* Part of the rules.
LEMMA PartSlots ==
  ASSUME NEW t, TopoOK(t), NEW M, Part(M, t)
  PROVE  Cardinality(RuleSlots(M)) <= MaxRules /\ Cardinality(RuleSlots(M)) \in Nat
<1>1. t.mem \in MemType /\ AllFine(t.mem) /\ Cardinality(RuleSlots(t.mem)) <= MaxRules
  BY DEF TopoOK, TopoType
<1>2. RuleSlots(M) \in SUBSET RuleSlots(t.mem)
  <2>1. \A k \in Members(M) : k \in Members(t.mem) /\ M[k] = t.mem[k]
    BY DEF Members, Part
  <2>2. QED
    BY <2>1 DEF RuleSlots
<1>3. IsFiniteSet(RuleSlots(t.mem)) /\ Cardinality(RuleSlots(t.mem)) \in Nat
  BY <1>1, SlotsFinite
<1>4. Cardinality(RuleSlots(M)) <= Cardinality(RuleSlots(t.mem)) /\ Cardinality(RuleSlots(M)) \in Nat
  BY <1>2, <1>3, FS_Subset, FS_CardinalityType
<1>5. QED
  BY <1>1, <1>3, <1>4, L2Assumption

\* A member of a topology can be added to any part of the others: a rollback or
\* a restart that attaches it is not refused.
LEMMA PartAdmits ==
  ASSUME NEW t, TopoOK(t), NEW M, Part(M, t), NEW k \in Members(t.mem), M[k] = None
  PROVE  Admits(M, k[1], k[2], t.mem[k])
<1> DEFINE s == t.mem[k]
           N == [M EXCEPT ![k] = s]
<1>1. k \in Pair /\ Fine(s) /\ s # None
  BY DEF TopoOK, AllFine, Members
<1>2. M \in MemType /\ AllFine(M)
  BY PartFine
<1>3. N \in MemType /\ Cardinality(RuleSlots(N)) = Cardinality(RuleSlots(M)) + RuleCount(s)
  BY <1>1, <1>2, SlotsPlus
<1>4. Part(N, t)
  BY <1>2, <1>3 DEF Part, MemType
<1>5. Cardinality(RuleSlots(N)) <= MaxRules
  BY <1>4, PartSlots
<1>6. ASSUME NEW m \in Members(M)
      PROVE  /\ m[1] = k[1] => Tagged(M[m]) = Tagged(s)
             /\ m[2] = k[2] => /\ m[1] # k[1] /\ M[m].mode = "trunk" /\ s.mode = "trunk"
                               /\ ~ eswitch_vlan_allowlists_overlap(M[m], s)
  <2>1. m \in Pair /\ m \in Members(t.mem) /\ M[m] = t.mem[m] /\ m # k
    BY DEF Part, Members
  <2>2. Compatible(m, M[m], k, s)
    BY <2>1 DEF TopoOK
  <2>3. m[1] = k[1] /\ m[2] = k[2] => m = k
    BY <1>1, <2>1 DEF Pair
  <2>4. QED
    BY <2>1, <2>2, <2>3 DEF Compatible
<1>7. QED
  BY <1>3, <1>5, <1>6 DEF Admits

-----------------------------------------------------------------------------
(***************************************************************************)
(* The manager's memory and the switch.  A pair is absent or present; a    *)
(* topology runs when every pair is what the topology says.                *)
(***************************************************************************)
Outcome  == [d : LiveType, t : TopoType, ok : BOOLEAN, left : {0, 1}]

InGroup(d, k) == d.flood[k[1]] # None /\ k[2] \in d.flood[k[1]]
Installed(s) == [spec |-> s, tags |-> MemberTags(s)]
Quiet(s) == [spec |-> s, tags |-> {}]

Absent(d, k) == d.mem[k] = None /\ d.rec[k] = None /\ ~ InGroup(d, k)
Present(d, k, s) == d.mem[k] = s /\ d.rec[k] = Installed(s) /\ InGroup(d, k)

Runs(d, t) ==
  /\ d.sw = t.sw
  /\ \A k \in Pair : IF t.mem[k] = None THEN Absent(d, k) ELSE Present(d, k, t.mem[k])

\* What a call about one pair leaves alone.
SameAt(d, e, m) == e.mem[m] = d.mem[m] /\ e.rec[m] = d.rec[m] /\ (InGroup(e, m) <=> InGroup(d, m))
Elsewhere(d, e, k) ==
  /\ e \in LiveType /\ e.sw = d.sw /\ e.ctx = d.ctx /\ e.uplink = d.uplink
  /\ \A m \in Pair \ {k} : SameAt(d, e, m)

\* Nothing of the pairs changes.
SamePairs(d, e) == e \in LiveType /\ e.sw = d.sw /\ e.uplink = d.uplink /\ \A m \in Pair : SameAt(d, e, m)

\* What the fields of the memory are.
LEMMA LiveFields ==
  ASSUME NEW d \in LiveType
  PROVE  /\ d.sw \in SUBSET Vs /\ d.mem \in MemType /\ d.rec \in [Pair -> Record \union {None}]
         /\ d.flood \in [Vs -> (SUBSET Port) \union {None}] /\ d.ctx \in SUBSET Context
         /\ d.uplink \in SUBSET Port /\ d.nb \in SUBSET (Rif \X Port)
         /\ d.lpm \in SUBSET (Rif \X Port) /\ d.degraded \in BOOLEAN /\ d.backoff \in BOOLEAN
BY DEF LiveType

\* One field of the memory replaced.
LEMMA ReplaceMem ==
  ASSUME NEW d \in LiveType, NEW v \in MemType
  PROVE  /\ [d EXCEPT !.mem = v] \in LiveType /\ [d EXCEPT !.mem = v].mem = v
         /\ [d EXCEPT !.mem = v].sw = d.sw /\ [d EXCEPT !.mem = v].rec = d.rec
         /\ [d EXCEPT !.mem = v].flood = d.flood /\ [d EXCEPT !.mem = v].ctx = d.ctx
         /\ [d EXCEPT !.mem = v].uplink = d.uplink /\ [d EXCEPT !.mem = v].nb = d.nb
<1> HIDE DEF MemType
<1>1. QED
  BY DEF LiveType

\* As ReplaceMem.
LEMMA ReplaceRec ==
  ASSUME NEW d \in LiveType, NEW v \in [Pair -> Record \union {None}]
  PROVE  /\ [d EXCEPT !.rec = v] \in LiveType /\ [d EXCEPT !.rec = v].rec = v
         /\ [d EXCEPT !.rec = v].sw = d.sw /\ [d EXCEPT !.rec = v].mem = d.mem
         /\ [d EXCEPT !.rec = v].flood = d.flood /\ [d EXCEPT !.rec = v].ctx = d.ctx
         /\ [d EXCEPT !.rec = v].uplink = d.uplink /\ [d EXCEPT !.rec = v].nb = d.nb
<1> DEFINE X == [Pair -> Record \union {None}]
<1> HIDE DEF X, MemType
<1>1. v \in X
  BY DEF X
<1>2. QED
  BY <1>1 DEF LiveType, X

\* As ReplaceMem.
LEMMA ReplaceFlood ==
  ASSUME NEW d \in LiveType, NEW v \in [Vs -> (SUBSET Port) \union {None}]
  PROVE  /\ [d EXCEPT !.flood = v] \in LiveType /\ [d EXCEPT !.flood = v].flood = v
         /\ [d EXCEPT !.flood = v].sw = d.sw /\ [d EXCEPT !.flood = v].mem = d.mem
         /\ [d EXCEPT !.flood = v].rec = d.rec /\ [d EXCEPT !.flood = v].ctx = d.ctx
         /\ [d EXCEPT !.flood = v].uplink = d.uplink /\ [d EXCEPT !.flood = v].nb = d.nb
<1> DEFINE X == [Vs -> (SUBSET Port) \union {None}]
<1> HIDE DEF X, MemType
<1>1. v \in X
  BY DEF X
<1>2. QED
  BY <1>1 DEF LiveType, X

\* As ReplaceMem.
LEMMA ReplaceSw ==
  ASSUME NEW d \in LiveType, NEW v \in SUBSET Vs
  PROVE  /\ [d EXCEPT !.sw = v] \in LiveType /\ [d EXCEPT !.sw = v].sw = v
         /\ [d EXCEPT !.sw = v].mem = d.mem /\ [d EXCEPT !.sw = v].rec = d.rec
         /\ [d EXCEPT !.sw = v].flood = d.flood /\ [d EXCEPT !.sw = v].ctx = d.ctx
         /\ [d EXCEPT !.sw = v].uplink = d.uplink
BY DEF LiveType

\* As ReplaceMem.
LEMMA ReplaceCtx ==
  ASSUME NEW d \in LiveType, NEW v \in SUBSET Context
  PROVE  /\ [d EXCEPT !.ctx = v] \in LiveType /\ [d EXCEPT !.ctx = v].ctx = v
         /\ [d EXCEPT !.ctx = v].sw = d.sw /\ [d EXCEPT !.ctx = v].mem = d.mem
         /\ [d EXCEPT !.ctx = v].rec = d.rec /\ [d EXCEPT !.ctx = v].flood = d.flood
         /\ [d EXCEPT !.ctx = v].uplink = d.uplink
BY DEF LiveType

\* As ReplaceMem.
LEMMA ReplaceUplink ==
  ASSUME NEW d \in LiveType, NEW v \in SUBSET Port
  PROVE  /\ [d EXCEPT !.uplink = v] \in LiveType /\ [d EXCEPT !.uplink = v].uplink = v
         /\ [d EXCEPT !.uplink = v].sw = d.sw /\ [d EXCEPT !.uplink = v].mem = d.mem
         /\ [d EXCEPT !.uplink = v].rec = d.rec /\ [d EXCEPT !.uplink = v].flood = d.flood
         /\ [d EXCEPT !.uplink = v].ctx = d.ctx
BY DEF LiveType

\* As ReplaceMem.
LEMMA ReplaceNb ==
  ASSUME NEW d \in LiveType, NEW v \in SUBSET (Rif \X Port)
  PROVE  /\ [d EXCEPT !.nb = v] \in LiveType
         /\ [d EXCEPT !.nb = v].sw = d.sw /\ [d EXCEPT !.nb = v].mem = d.mem
         /\ [d EXCEPT !.nb = v].rec = d.rec /\ [d EXCEPT !.nb = v].flood = d.flood
         /\ [d EXCEPT !.nb = v].ctx = d.ctx /\ [d EXCEPT !.nb = v].uplink = d.uplink
BY DEF LiveType

\* As ReplaceMem.
LEMMA ReplaceLpm ==
  ASSUME NEW d \in LiveType, NEW v \in SUBSET (Rif \X Port)
  PROVE  /\ [d EXCEPT !.lpm = v] \in LiveType
         /\ [d EXCEPT !.lpm = v].sw = d.sw /\ [d EXCEPT !.lpm = v].mem = d.mem
         /\ [d EXCEPT !.lpm = v].rec = d.rec /\ [d EXCEPT !.lpm = v].flood = d.flood
         /\ [d EXCEPT !.lpm = v].ctx = d.ctx /\ [d EXCEPT !.lpm = v].uplink = d.uplink
BY DEF LiveType

\* As ReplaceMem.
LEMMA ReplaceDegraded ==
  ASSUME NEW d \in LiveType, NEW v \in BOOLEAN
  PROVE  /\ [d EXCEPT !.degraded = v] \in LiveType
         /\ [d EXCEPT !.degraded = v].sw = d.sw /\ [d EXCEPT !.degraded = v].mem = d.mem
         /\ [d EXCEPT !.degraded = v].rec = d.rec /\ [d EXCEPT !.degraded = v].flood = d.flood
         /\ [d EXCEPT !.degraded = v].ctx = d.ctx /\ [d EXCEPT !.degraded = v].uplink = d.uplink
<1> DEFINE B == BOOLEAN
<1>1. v \in B /\ d \in [sw : SUBSET Vs, mem : MemType, rec : [Pair -> Record \union {None}],
             flood : [Vs -> (SUBSET Port) \union {None}], ctx : SUBSET Context,
             uplink : SUBSET Port, nb : SUBSET (Rif \X Port), lpm : SUBSET (Rif \X Port),
             degraded : B, backoff : B]
  BY DEF LiveType
<1> HIDE DEF B
<1>2. QED
  BY <1>1 DEF LiveType, B

\* As ReplaceMem.
LEMMA ReplaceBackoff ==
  ASSUME NEW d \in LiveType, NEW v \in BOOLEAN
  PROVE  /\ [d EXCEPT !.backoff = v] \in LiveType
         /\ [d EXCEPT !.backoff = v].sw = d.sw /\ [d EXCEPT !.backoff = v].mem = d.mem
         /\ [d EXCEPT !.backoff = v].rec = d.rec /\ [d EXCEPT !.backoff = v].flood = d.flood
         /\ [d EXCEPT !.backoff = v].ctx = d.ctx /\ [d EXCEPT !.backoff = v].uplink = d.uplink
BY DEF LiveType

\* What the fields of an outcome are.
LEMMA OutcomeFields ==
  ASSUME NEW o \in Outcome
  PROVE  o.d \in LiveType /\ o.t \in TopoType /\ o.ok \in BOOLEAN /\ o.left \in {0, 1}
BY DEF Outcome

\* A call that succeeds.
LEMMA OkCall ==
  ASSUME NEW o \in Outcome, NEW d \in LiveType, NEW z \in Ok(o, d)
  PROVE  z \in Outcome /\ z.d = d /\ z.t = o.t /\ z.ok = o.ok /\ z.left = o.left
BY DEF Ok, Outcome

\* A call that is refused.
LEMMA ErrorCall ==
  ASSUME NEW o \in Outcome, NEW z \in Error(o)
  PROVE  z \in Outcome /\ z.d = o.d /\ z.t = o.t /\ ~ z.ok /\ z.left = 0
<1> DEFINE y == [o EXCEPT !.ok = FALSE]
<1>1. y \in Outcome /\ y.d = o.d /\ y.t = o.t /\ ~ y.ok
  BY DEF Outcome
<1>2. z = [y EXCEPT !.left = 0]
  BY DEF Error
<1> HIDE DEF y
<1>3. QED
  BY <1>1, <1>2 DEF Outcome

\* A call that fails.
LEMMA FaultCall ==
  ASSUME NEW o \in Outcome, NEW kind, NEW d \in LiveType, NEW z \in Fault(o, kind, d)
  PROVE  /\ z \in Outcome /\ z.d = d /\ z.t = o.t /\ ~ z.ok /\ z.left = 0
         /\ o.left = 1 /\ kind \in L2Faults
<1> DEFINE y == [o EXCEPT !.d = d]
           w == [y EXCEPT !.ok = FALSE]
<1>1. y \in Outcome /\ y.d = d /\ y.t = o.t /\ y.left = o.left
  BY DEF Outcome
<1>2. kind \in L2Faults /\ o.left > 0 /\ z = [o EXCEPT !.d = d, !.ok = FALSE, !.left = @ - 1]
  BY DEF Fault
<1>3. o.left = 1
  BY <1>2, OutcomeFields
<1>4. z = [w EXCEPT !.left = w.left - 1]
  BY <1>2
<1> HIDE DEF y
<1>5. w \in Outcome /\ w.d = d /\ w.t = o.t /\ ~ w.ok /\ w.left = 1
  BY <1>1, <1>3 DEF Outcome
<1> HIDE DEF w
<1>6. z = [w EXCEPT !.left = 0]
  BY <1>4, <1>5
<1>7. QED
  BY <1>2, <1>3, <1>5, <1>6 DEF Outcome

\* A handler goes on after an error, and reports it in the end.
LEMMA Resumed ==
  ASSUME NEW o \in Outcome
  PROVE  /\ [o EXCEPT !.ok = TRUE] \in Outcome /\ [o EXCEPT !.ok = TRUE].ok
         /\ [o EXCEPT !.ok = TRUE].d = o.d /\ [o EXCEPT !.ok = TRUE].t = o.t
         /\ [o EXCEPT !.ok = TRUE].left = o.left
         /\ [o EXCEPT !.ok = FALSE] \in Outcome /\ ~ [o EXCEPT !.ok = FALSE].ok
         /\ [o EXCEPT !.ok = FALSE].d = o.d /\ [o EXCEPT !.ok = FALSE].t = o.t
         /\ [o EXCEPT !.ok = FALSE].left = o.left
BY DEF Outcome

\* The memory of an outcome replaced.
LEMMA WithLive ==
  ASSUME NEW o \in Outcome, NEW d \in LiveType
  PROVE  /\ [o EXCEPT !.d = d] \in Outcome /\ [o EXCEPT !.d = d].d = d /\ [o EXCEPT !.d = d].t = o.t
         /\ [o EXCEPT !.d = d].ok = o.ok /\ [o EXCEPT !.d = d].left = o.left
BY DEF Outcome

\* The membership of a pair is written.
LEMMA SetMem ==
  ASSUME NEW d \in LiveType, NEW k \in Pair, NEW s \in PortSpec \union {None}
  PROVE  /\ Elsewhere(d, [d EXCEPT !.mem[k] = s], k)
         /\ [d EXCEPT !.mem[k] = s].mem = [d.mem EXCEPT ![k] = s]
         /\ [d EXCEPT !.mem[k] = s].mem[k] = s /\ [d EXCEPT !.mem[k] = s].rec[k] = d.rec[k]
         /\ InGroup([d EXCEPT !.mem[k] = s], k) <=> InGroup(d, k)
         /\ [d EXCEPT !.mem[k] = s].rec = d.rec /\ [d EXCEPT !.mem[k] = s].flood = d.flood
         /\ [d EXCEPT !.mem[k] = s].nb = d.nb
<1> DEFINE v == [d.mem EXCEPT ![k] = s]
           e == [d EXCEPT !.mem = v]
<1>1. [d EXCEPT !.mem[k] = s] = e
  BY DEF LiveType
<1>2. v \in MemType /\ v[k] = s /\ \A m \in Pair \ {k} : v[m] = d.mem[m]
  BY LiveFields DEF MemType
<1> HIDE DEF v
<1>3. /\ e \in LiveType /\ e.mem = v /\ e.sw = d.sw /\ e.rec = d.rec /\ e.flood = d.flood
      /\ e.ctx = d.ctx /\ e.uplink = d.uplink /\ e.nb = d.nb
  BY <1>2, ReplaceMem
<1> HIDE DEF e
<1>4. \A m : InGroup(e, m) <=> InGroup(d, m)
  BY <1>3 DEF InGroup
<1>5. Elsewhere(d, e, k)
  BY <1>2, <1>3, <1>4 DEF Elsewhere, SameAt
<1>6. QED
  BY <1>1, <1>2, <1>3, <1>4, <1>5 DEF v

\* The record of a pair is written.
LEMMA SetRec ==
  ASSUME NEW d \in LiveType, NEW k \in Pair, NEW s \in Record \union {None}
  PROVE  /\ Elsewhere(d, [d EXCEPT !.rec[k] = s], k)
         /\ [d EXCEPT !.rec[k] = s].rec = [d.rec EXCEPT ![k] = s]
         /\ [d EXCEPT !.rec[k] = s].rec[k] = s /\ [d EXCEPT !.rec[k] = s].mem[k] = d.mem[k]
         /\ InGroup([d EXCEPT !.rec[k] = s], k) <=> InGroup(d, k)
         /\ [d EXCEPT !.rec[k] = s].mem = d.mem /\ [d EXCEPT !.rec[k] = s].flood = d.flood
<1> DEFINE v == [d.rec EXCEPT ![k] = s]
           e == [d EXCEPT !.rec = v]
<1>1. [d EXCEPT !.rec[k] = s] = e
  BY DEF LiveType
<1>2. v \in [Pair -> Record \union {None}] /\ v[k] = s /\ \A m \in Pair \ {k} : v[m] = d.rec[m]
  BY LiveFields
<1> HIDE DEF v
<1>3. /\ e \in LiveType /\ e.rec = v /\ e.sw = d.sw /\ e.mem = d.mem /\ e.flood = d.flood
      /\ e.ctx = d.ctx /\ e.uplink = d.uplink
  BY <1>2, ReplaceRec
<1> HIDE DEF e
<1>4. \A m : InGroup(e, m) <=> InGroup(d, m)
  BY <1>3 DEF InGroup
<1>5. Elsewhere(d, e, k)
  BY <1>2, <1>3, <1>4 DEF Elsewhere, SameAt
<1>6. QED
  BY <1>1, <1>2, <1>3, <1>4, <1>5 DEF v

\* The flood group of a vSwitch gains or loses the port of a pair.
LEMMA SetFlood ==
  ASSUME NEW d \in LiveType, NEW k \in Pair, NEW g \in SUBSET Port,
         \A p \in Port \ {k[2]} : p \in g <=> InGroup(d, <<k[1], p>>)
  PROVE  /\ Elsewhere(d, [d EXCEPT !.flood[k[1]] = g], k)
         /\ [d EXCEPT !.flood[k[1]] = g].mem = d.mem /\ [d EXCEPT !.flood[k[1]] = g].rec = d.rec
         /\ InGroup([d EXCEPT !.flood[k[1]] = g], k) <=> k[2] \in g
<1> DEFINE v == [d.flood EXCEPT ![k[1]] = g]
           e == [d EXCEPT !.flood = v]
<1>1. [d EXCEPT !.flood[k[1]] = g] = e
  BY DEF LiveType
<1>2. k[1] \in Vs /\ k[2] \in Port /\ k = <<k[1], k[2]>>
  BY DEF Pair
<1>3. /\ v \in [Vs -> (SUBSET Port) \union {None}] /\ v[k[1]] = g
      /\ \A w \in Vs \ {k[1]} : v[w] = d.flood[w]
  BY <1>2, LiveFields
<1> HIDE DEF v
<1>4. /\ e \in LiveType /\ e.flood = v /\ e.sw = d.sw /\ e.mem = d.mem /\ e.rec = d.rec
      /\ e.ctx = d.ctx /\ e.uplink = d.uplink
  BY <1>3, ReplaceFlood
<1> HIDE DEF e
<1>5. g # None
  BY L2Assumption
<1>6. InGroup(e, k) <=> k[2] \in g
  BY <1>3, <1>4, <1>5 DEF InGroup
<1>7. ASSUME NEW m \in Pair \ {k} PROVE InGroup(e, m) <=> InGroup(d, m)
  <2>1. m[1] \in Vs /\ m[2] \in Port /\ m = <<m[1], m[2]>>
    BY DEF Pair
  <2>2. CASE m[1] # k[1]
    BY <1>3, <1>4, <2>1, <2>2 DEF InGroup
  <2>3. CASE m[1] = k[1]
    <3>1. m[2] # k[2]
      BY <1>2, <2>1, <2>3
    <3>2. m[2] \in g <=> InGroup(d, m)
      BY <2>1, <2>3, <3>1
    <3>3. InGroup(e, m) <=> m[2] \in g
      BY <1>3, <1>4, <1>5, <2>3 DEF InGroup
    <3>4. QED
      BY <3>2, <3>3
  <2>4. QED
    BY <2>2, <2>3
<1>8. Elsewhere(d, e, k)
  BY <1>4, <1>7 DEF Elsewhere, SameAt
<1>9. QED
  BY <1>1, <1>4, <1>6, <1>8

\* Calls about the same pair follow one another.
LEMMA ElsewhereTrans ==
  ASSUME NEW d, NEW e, NEW f, NEW k, Elsewhere(d, e, k), Elsewhere(e, f, k)
  PROVE  Elsewhere(d, f, k)
BY DEF Elsewhere, SameAt

\* A call may leave everything alone.
LEMMA ElsewhereSame ==
  ASSUME NEW d \in LiveType, NEW k PROVE Elsewhere(d, d, k)
BY DEF Elsewhere, SameAt

\* A topology in which one pair was changed runs when the pair is what it says.
LEMMA RunsAt ==
  ASSUME NEW d, NEW e, NEW t \in TopoType, NEW u \in TopoType, NEW k \in Pair,
         Runs(d, t), Elsewhere(d, e, k),
         u.sw = t.sw, \A m \in Pair \ {k} : u.mem[m] = t.mem[m],
         IF u.mem[k] = None THEN Absent(e, k) ELSE Present(e, k, u.mem[k])
  PROVE  Runs(e, u)
<1>1. e.sw = u.sw
  BY DEF Runs, Elsewhere
<1>2. ASSUME NEW m \in Pair \ {k} PROVE IF u.mem[m] = None THEN Absent(e, m) ELSE Present(e, m, u.mem[m])
  BY DEF Runs, Elsewhere, SameAt, Absent, Present
<1>3. QED
  BY <1>1, <1>2 DEF Runs

-----------------------------------------------------------------------------
(***************************************************************************)
(* The calls.  Each leaves what it found and fails, or does what it says.  *)
(* Once a call has failed, the calls that undo do not.                     *)
(***************************************************************************)
About(o, z, k) == z \in Outcome /\ z.t = o.t /\ Elsewhere(o.d, z.d, k)
Lost(o, z) == z \in Outcome /\ z.d = o.d /\ z.t = o.t /\ ~ z.ok /\ z.left = 0
Done(o, z) == z.ok /\ z.left = o.left
SameMem(d, e, k) == e.mem[k] = d.mem[k]
SameRec(d, e, k) == e.rec[k] = d.rec[k]
SameGroup(d, e, k) == InGroup(e, k) <=> InGroup(d, k)

\* A fault that leaves everything alone.
LEMMA FaultLost ==
  ASSUME NEW o \in Outcome, NEW kind, NEW z \in Fault(o, kind, o.d)
  PROVE  Lost(o, z) /\ o.left = 1 /\ kind \in L2Faults
<1>1. o.d \in LiveType
  BY OutcomeFields
<1>2. /\ z \in Outcome /\ z.d = o.d /\ z.t = o.t /\ ~ z.ok /\ z.left = 0
      /\ o.left = 1 /\ kind \in L2Faults
  BY ONLY <1>1, o \in Outcome, z \in Fault(o, kind, o.d), FaultCall
<1>3. QED
  BY <1>2 DEF Lost

\* A record with its rules and one without.
LEMMA Records ==
  ASSUME NEW s, Fine(s)
  PROVE  /\ Installed(s) \in Record /\ Installed(s) # None /\ Installed(s).spec = s
         /\ Installed(s).tags # {} /\ Installed(s) = [spec |-> s, tags |-> Tags(s)]
         /\ Quiet(s) \in Record /\ Quiet(s) # None /\ Quiet(s).spec = s /\ Quiet(s).tags = {}
         /\ s \in PortSpec /\ s # None /\ ValidRequest(s) /\ Normal(s) = s
BY TagsExact, L2Assumption DEF Fine, Installed, Quiet, Record

\* A valid request is stored in its normal form.
LEMMA NormalFine ==
  ASSUME NEW s \in PortSpec, ValidRequest(s) PROVE Fine(Normal(s))
BY NormalForm DEF Fine

\* eswitch_pipeline_attach_port.
LEMMA PipelineAttaches ==
  ASSUME NEW o \in Outcome, o.ok, NEW k \in Pair, NEW s \in PortSpec, ValidRequest(s),
         NEW z \in eswitch_pipeline_attach_port(o, k, s)
  PROVE  \/ /\ Lost(o, z)
            /\ \/ o.left = 1
               \/ o.d.rec[k] = None /\ ~ Admits(Spec(o.d.rec), k[1], k[2], Normal(s))
               \/ o.d.rec[k] # None /\ o.d.rec[k] # Quiet(Normal(s))
         \/ /\ About(o, z, k) /\ Done(o, z)
            /\ z.d.rec[k] = Installed(Normal(s)) /\ SameMem(o.d, z.d, k) /\ SameGroup(o.d, z.d, k)
<1> DEFINE n == Normal(s)
           old == o.d.rec[k]
           new == [spec |-> n, tags |-> Tags(n)]
           bad == \/ old # None /\ (old.spec # new.spec \/ old.tags # {})
                  \/ old = None /\ ~ Admits(Spec(o.d.rec), k[1], k[2], n)
           e == [o.d EXCEPT !.rec[k] = new]
<1>1. Fine(n)
  BY NormalFine
<1>2. new = Installed(n) /\ new \in Record
  BY <1>1, Records
<1>3. o.d \in LiveType /\ old \in Record \union {None}
  BY OutcomeFields, LiveFields
<1>4. eswitch_pipeline_attach_port(o, k, s)
        = IF bad THEN Error(o) ELSE Ok(o, e) \union Fault(o, "ingress", o.d)
  BY DEF eswitch_pipeline_attach_port
<1>5. CASE bad
  <2>1. Lost(o, z)
    BY <1>4, <1>5, ErrorCall DEF Lost
  <2>2. old # None /\ (old.spec # new.spec \/ old.tags # {}) => old # Quiet(n)
    BY <1>1, Records
  <2>3. QED
    BY <1>5, <2>1, <2>2
<1>6. CASE ~ bad
  <2>1. z \in Ok(o, e) \/ z \in Fault(o, "ingress", o.d)
    BY <1>4, <1>6
  <2>2. CASE z \in Fault(o, "ingress", o.d)
    BY ONLY <2>2, o \in Outcome, FaultLost, Zenon
  <2>3. CASE z \in Ok(o, e)
    <3>1. /\ Elsewhere(o.d, e, k) /\ e.rec[k] = new /\ e.mem[k] = o.d.mem[k]
          /\ InGroup(e, k) <=> InGroup(o.d, k)
      <4> HIDE DEF new
      <4>1. new \in Record \union {None}
        BY <1>2
      <4>2. QED
        BY <1>3, <4>1, SetRec
    <3> HIDE DEF e, n, new
    <3>2. e \in LiveType
      BY <3>1 DEF Elsewhere
    <3>3. z \in Outcome /\ z.d = e /\ z.t = o.t /\ z.ok = o.ok /\ z.left = o.left
      BY <2>3, <3>2, OkCall
    <3>4. QED
      BY <1>2, <3>1, <3>3 DEF About, Done, SameMem, SameGroup, n
  <2>4. QED
    BY <2>1, <2>2, <2>3
<1>7. QED
  BY <1>5, <1>6

\* The rules of a record are taken away.
LEMMA IngressClosed ==
  ASSUME NEW d \in LiveType, NEW k \in Pair, d.rec[k] # None
  PROVE  /\ Elsewhere(d, Ingress(d, k, {}), k) /\ Ingress(d, k, {}).rec[k] = Quiet(d.rec[k].spec)
         /\ SameMem(d, Ingress(d, k, {}), k) /\ SameGroup(d, Ingress(d, k, {}), k)
         /\ Ingress(d, k, {}).mem = d.mem /\ Ingress(d, k, {}).flood = d.flood
<1> DEFINE x == d.rec[k]
           y == Quiet(x.spec)
<1>1. x \in Record
  BY LiveFields
<1>2. y \in Record /\ [x EXCEPT !.tags = {}] = y
  <2> HIDE DEF x
  <2>1. QED
    BY <1>1 DEF Record, Quiet
<1>3. Ingress(d, k, {}) = [d EXCEPT !.rec[k] = y]
  <2>1. Ingress(d, k, {}) = [d EXCEPT !.rec[k] = [d.rec[k] EXCEPT !.tags = {}]]
    BY DEF Ingress, LiveType
  <2>2. QED
    BY <1>2, <2>1
<1> HIDE DEF y
<1>4. /\ Elsewhere(d, [d EXCEPT !.rec[k] = y], k)
      /\ [d EXCEPT !.rec[k] = y].rec[k] = y /\ [d EXCEPT !.rec[k] = y].mem[k] = d.mem[k]
      /\ InGroup([d EXCEPT !.rec[k] = y], k) <=> InGroup(d, k)
      /\ [d EXCEPT !.rec[k] = y].mem = d.mem /\ [d EXCEPT !.rec[k] = y].flood = d.flood
  BY <1>2, SetRec
<1>5. QED
  BY <1>3, <1>4 DEF y, SameMem, SameGroup

\* eswitch_pipeline_detach_vswitch_port, whose only failure is that of the
\* first rule.
LEMMA PipelineDetaches ==
  ASSUME "range" \notin L2Faults, NEW o \in Outcome, o.ok, NEW k \in Pair, o.d.rec[k] # None,
         NEW z \in eswitch_pipeline_detach_vswitch_port(o, k)
  PROVE  \/ Lost(o, z) /\ o.left = 1
         \/ /\ About(o, z, k) /\ Done(o, z) /\ z.d.rec[k] = Quiet(o.d.rec[k].spec)
            /\ SameMem(o.d, z.d, k) /\ SameGroup(o.d, z.d, k)
            /\ z.d.mem = o.d.mem /\ z.d.flood = o.d.flood
<1> DEFINE e == Ingress(o.d, k, {})
           here == o.d.rec[k].tags
<1>1. o.d \in LiveType
  BY OutcomeFields
<1>2. \A T : Fault(o, "range", Ingress(o.d, k, T)) = {}
  BY DEF Fault
<1>3. z \in Ok(o, e) \/ z \in Fault(o, "detach", o.d)
  <2>1. z \in Ok(o, e) \/ z \in (IF here = {} THEN {} ELSE Fault(o, "detach", o.d))
        \/ z \in UNION {Fault(o, "range", Ingress(o.d, k, T)) : T \in (SUBSET here) \ {{}, here}}
    BY DEF eswitch_pipeline_detach_vswitch_port
  <2>2. QED
    BY <1>2, <2>1
<1>4. CASE z \in Fault(o, "detach", o.d)
  BY ONLY <1>4, o \in Outcome, FaultLost, Zenon
<1>5. CASE z \in Ok(o, e)
  <2>1. /\ Elsewhere(o.d, e, k) /\ e.rec[k] = Quiet(o.d.rec[k].spec) /\ SameMem(o.d, e, k)
        /\ SameGroup(o.d, e, k) /\ e.mem = o.d.mem /\ e.flood = o.d.flood
    BY <1>1, IngressClosed
  <2> HIDE DEF e
  <2>2. e \in LiveType
    BY <2>1 DEF Elsewhere
  <2>3. z \in Outcome /\ z.d = e /\ z.t = o.t /\ z.ok = o.ok /\ z.left = o.left
    BY <1>5, <2>2, OkCall
  <2>4. QED
    BY <2>1, <2>3 DEF About, Done
<1>6. QED
  BY <1>3, <1>4, <1>5

\* eswitch_pipeline_release_vswitch_port of a record without rules.
LEMMA PipelineReleases ==
  ASSUME NEW o \in Outcome, o.ok, NEW k \in Pair, NEW s, o.d.rec[k] = Quiet(s), Quiet(s) # None,
         NEW z \in eswitch_pipeline_release_vswitch_port(o, k)
  PROVE  /\ About(o, z, k) /\ Done(o, z) /\ z.d.rec[k] = None /\ SameMem(o.d, z.d, k)
         /\ SameGroup(o.d, z.d, k) /\ z.d.mem = o.d.mem /\ z.d.flood = o.d.flood
<1> DEFINE e == [o.d EXCEPT !.rec[k] = None]
<1>1. o.d \in LiveType
  BY OutcomeFields
<1>2. o.d.rec[k].tags = {}
  BY DEF Quiet
<1>3. z \in Ok(o, e)
  BY <1>2 DEF eswitch_pipeline_release_vswitch_port
<1>4. /\ Elsewhere(o.d, e, k) /\ e.rec[k] = None /\ e.mem = o.d.mem /\ e.flood = o.d.flood
      /\ SameMem(o.d, e, k) /\ SameGroup(o.d, e, k)
  BY <1>1, SetRec DEF SameMem, SameGroup
<1> HIDE DEF e
<1>5. e \in LiveType
  BY <1>4 DEF Elsewhere
<1>6. z \in Outcome /\ z.d = e /\ z.t = o.t /\ z.ok = o.ok /\ z.left = o.left
  BY <1>3, <1>5, OkCall
<1>7. QED
  BY <1>4, <1>6 DEF About, Done

\* The group of a vSwitch as a set of ports.
LEMMA GroupPorts ==
  ASSUME NEW d \in LiveType, NEW k \in Pair, NEW ports,
         ports = IF d.flood[k[1]] = None THEN {} ELSE d.flood[k[1]]
  PROVE  /\ k[1] \in Vs /\ k[2] \in Port
         /\ ports \in SUBSET Port /\ \A p \in Port : p \in ports <=> InGroup(d, <<k[1], p>>)
         /\ k[2] \in ports <=> InGroup(d, k)
<1>1. k[1] \in Vs /\ k[2] \in Port /\ d.flood[k[1]] \in (SUBSET Port) \union {None}
  BY LiveFields DEF Pair
<1>2. QED
  BY <1>1 DEF InGroup

\* eswitch_pipeline_flood_add_port of a port that is not in the group.
LEMMA FloodAdds ==
  ASSUME NEW o \in Outcome, o.ok, NEW k \in Pair, ~ InGroup(o.d, k),
         NEW z \in eswitch_pipeline_flood_add_port(o, k)
  PROVE  \/ Lost(o, z) /\ o.left = 1
         \/ /\ About(o, z, k) /\ Done(o, z) /\ InGroup(z.d, k)
            /\ SameMem(o.d, z.d, k) /\ SameRec(o.d, z.d, k)
<1> DEFINE ports == IF o.d.flood[k[1]] = None THEN {} ELSE o.d.flood[k[1]]
           g == ports \union {k[2]}
           e == [o.d EXCEPT !.flood[k[1]] = g]
<1>1. o.d \in LiveType
  BY OutcomeFields
<1>2. /\ k[1] \in Vs /\ k[2] \in Port /\ ports \in SUBSET Port
      /\ \A p \in Port : p \in ports <=> InGroup(o.d, <<k[1], p>>)
      /\ k[2] \notin ports
  <2>1. \E P : P = ports
    OBVIOUS
  <2>2. PICK P : P = ports
    BY <2>1
  <2>3. QED
    BY <1>1, <2>2, GroupPorts
<1>3. z \in Ok(o, e) \/ z \in Fault(o, "flood", o.d)
  BY <1>2 DEF eswitch_pipeline_flood_add_port
<1> HIDE DEF ports
<1>4. CASE z \in Fault(o, "flood", o.d)
  BY ONLY <1>4, o \in Outcome, FaultLost, Zenon
<1>5. CASE z \in Ok(o, e)
  <2>1. g \in SUBSET Port /\ k[2] \in g /\ \A p \in Port \ {k[2]} : p \in g <=> InGroup(o.d, <<k[1], p>>)
    BY <1>2
  <2> HIDE DEF g
  <2>2. Elsewhere(o.d, e, k) /\ e.mem = o.d.mem /\ e.rec = o.d.rec /\ (InGroup(e, k) <=> k[2] \in g)
    BY <1>1, <2>1, SetFlood
  <2> HIDE DEF e
  <2>3. e \in LiveType
    BY <2>2 DEF Elsewhere
  <2>4. z \in Outcome /\ z.d = e /\ z.t = o.t /\ z.ok = o.ok /\ z.left = o.left
    BY <1>5, <2>3, OkCall
  <2>5. QED
    BY <2>1, <2>2, <2>4 DEF About, Done, SameMem, SameRec
<1>6. QED
  BY <1>3, <1>4, <1>5

\* eswitch_pipeline_flood_remove_port of a port in the group.
LEMMA FloodRemoves ==
  ASSUME NEW o \in Outcome, o.ok, NEW k \in Pair, InGroup(o.d, k),
         NEW z \in eswitch_pipeline_flood_remove_port(o, k)
  PROVE  \/ Lost(o, z) /\ o.left = 1
         \/ /\ About(o, z, k) /\ Done(o, z) /\ ~ InGroup(z.d, k)
            /\ SameMem(o.d, z.d, k) /\ SameRec(o.d, z.d, k)
<1> DEFINE ports == IF o.d.flood[k[1]] = None THEN {} ELSE o.d.flood[k[1]]
           g == ports \ {k[2]}
           e == [o.d EXCEPT !.flood[k[1]] = g]
<1>1. o.d \in LiveType
  BY OutcomeFields
<1>2. /\ k[1] \in Vs /\ k[2] \in Port /\ ports \in SUBSET Port
      /\ \A p \in Port : p \in ports <=> InGroup(o.d, <<k[1], p>>)
      /\ k[2] \in ports
  <2>1. \E P : P = ports
    OBVIOUS
  <2>2. PICK P : P = ports
    BY <2>1
  <2>3. QED
    BY <1>1, <2>2, GroupPorts
<1>3. z \in Ok(o, e) \/ z \in Fault(o, "unflood", o.d)
  BY <1>2 DEF eswitch_pipeline_flood_remove_port
<1> HIDE DEF ports
<1>4. CASE z \in Fault(o, "unflood", o.d)
  BY ONLY <1>4, o \in Outcome, FaultLost, Zenon
<1>5. CASE z \in Ok(o, e)
  <2>1. /\ g \in SUBSET Port /\ k[2] \notin g
        /\ \A p \in Port \ {k[2]} : p \in g <=> InGroup(o.d, <<k[1], p>>)
    BY <1>2
  <2> HIDE DEF g
  <2>2. Elsewhere(o.d, e, k) /\ e.mem = o.d.mem /\ e.rec = o.d.rec /\ (InGroup(e, k) <=> k[2] \in g)
    BY <1>1, <2>1, SetFlood
  <2> HIDE DEF e
  <2>3. e \in LiveType
    BY <2>2 DEF Elsewhere
  <2>4. z \in Outcome /\ z.d = e /\ z.t = o.t /\ z.ok = o.ok /\ z.left = o.left
    BY <1>5, <2>3, OkCall
  <2>5. QED
    BY <2>1, <2>2, <2>4 DEF About, Done, SameMem, SameRec
<1>6. QED
  BY <1>3, <1>4, <1>5

\* A call that fails touches nothing; calls about a pair follow one another.
LEMMA LostAbout ==
  ASSUME NEW o \in Outcome, NEW z, Lost(o, z), NEW k
  PROVE  About(o, z, k) /\ SameMem(o.d, z.d, k) /\ SameRec(o.d, z.d, k) /\ SameGroup(o.d, z.d, k)
BY OutcomeFields, ElsewhereSame DEF Lost, About, SameMem, SameRec, SameGroup

\* As ElsewhereTrans, of outcomes.
LEMMA AboutTrans ==
  ASSUME NEW o, NEW y, NEW z, NEW k, About(o, y, k), About(y, z, k)
  PROVE  About(o, z, k)
<1>1. Elsewhere(o.d, y.d, k) /\ Elsewhere(y.d, z.d, k) /\ z \in Outcome /\ z.t = o.t
  BY DEF About
<1>2. Elsewhere(o.d, z.d, k)
  BY ONLY <1>1, ElsewhereTrans, Zenon
<1>3. QED
  BY <1>1, <1>2 DEF About

\* The error is forgotten while the handler undoes, and reported afterwards.
LEMMA AboutResumed ==
  ASSUME NEW o \in Outcome, NEW k
  PROVE  /\ About(o, [o EXCEPT !.ok = TRUE], k) /\ About(o, [o EXCEPT !.ok = FALSE], k)
         /\ [o EXCEPT !.ok = TRUE].d = o.d /\ [o EXCEPT !.ok = FALSE].d = o.d
BY Resumed, OutcomeFields, ElsewhereSame DEF About

\* A port that is put into its flood group, or taken back if that fails.
LEMMA FloodedOrUndone ==
  ASSUME "range" \notin L2Faults, NEW o \in Outcome, o.ok, NEW k \in Pair,
         NEW s, Fine(s), o.d.rec[k] = Installed(s), ~ InGroup(o.d, k),
         NEW z \in OnError(eswitch_pipeline_flood_add_port(o, k), LAMBDA x :
                     AndThen(eswitch_pipeline_detach_vswitch_port(x, k), LAMBDA w :
                       eswitch_pipeline_release_vswitch_port(w, k)))
  PROVE  /\ About(o, z, k) /\ SameMem(o.d, z.d, k)
         /\ \/ Done(o, z) /\ z.d.rec[k] = Installed(s) /\ InGroup(z.d, k)
            \/ ~ z.ok /\ z.left = 0 /\ o.left = 1 /\ z.d.rec[k] = None /\ ~ InGroup(z.d, k)
<1> DEFINE S == eswitch_pipeline_flood_add_port(o, k)
           D(x) == eswitch_pipeline_detach_vswitch_port(x, k)
           Undo(x) == AndThen(D(x), LAMBDA w : eswitch_pipeline_release_vswitch_port(w, k))
<1> HIDE DEF S
<1>1. PICK y \in S : IF y.ok THEN z = y
                     ELSE \E w \in Undo([y EXCEPT !.ok = TRUE]) : z = [w EXCEPT !.ok = FALSE]
  BY DEF OnError, S
<1>2. \/ Lost(o, y) /\ o.left = 1
      \/ /\ About(o, y, k) /\ Done(o, y) /\ InGroup(y.d, k)
         /\ SameMem(o.d, y.d, k) /\ SameRec(o.d, y.d, k)
  BY FloodAdds DEF S
<1>3. CASE /\ About(o, y, k) /\ Done(o, y) /\ InGroup(y.d, k)
           /\ SameMem(o.d, y.d, k) /\ SameRec(o.d, y.d, k)
  <2>1. z = y
    BY <1>1, <1>3 DEF Done
  <2>2. QED
    BY <1>3, <2>1 DEF SameRec
<1>4. CASE Lost(o, y) /\ o.left = 1
  <2> DEFINE x == [y EXCEPT !.ok = TRUE]
             X == D(x)
  <2>1. y \in Outcome /\ y.d = o.d /\ y.t = o.t /\ ~ y.ok /\ y.left = 0
    BY <1>4 DEF Lost
  <2>2. x \in Outcome /\ x.ok /\ x.d = o.d /\ x.t = o.t /\ x.left = 0
    BY <2>1, Resumed
  <2>3. PICK w \in Undo(x) : z = [w EXCEPT !.ok = FALSE]
    BY <1>1, <2>1
  <2> HIDE DEF x, X
  <2>4. PICK v \in X : IF v.ok THEN w \in eswitch_pipeline_release_vswitch_port(v, k) ELSE w = v
    BY DEF AndThen, X
  <2>5. x.d.rec[k] # None /\ x.d.rec[k].spec = s
    BY <2>2, Records
  <2>6. /\ About(x, v, k) /\ Done(x, v) /\ v.d.rec[k] = Quiet(s)
        /\ SameMem(x.d, v.d, k) /\ SameGroup(x.d, v.d, k)
    <3>1. v \in eswitch_pipeline_detach_vswitch_port(x, k)
      BY <2>4 DEF X
    <3>2. \/ Lost(x, v) /\ x.left = 1
          \/ /\ About(x, v, k) /\ Done(x, v) /\ v.d.rec[k] = Quiet(x.d.rec[k].spec)
             /\ SameMem(x.d, v.d, k) /\ SameGroup(x.d, v.d, k)
      BY ONLY "range" \notin L2Faults, k \in Pair, <2>2, <2>5, <3>1, PipelineDetaches
    <3>3. QED
      BY <2>2, <2>5, <3>2
  <2>7. v \in Outcome /\ v.ok /\ v.left = 0
    BY <2>2, <2>6 DEF About, Done
  <2>8. w \in eswitch_pipeline_release_vswitch_port(v, k) /\ Quiet(s) # None
    BY <2>4, <2>7, Records
  <2>9. /\ About(v, w, k) /\ Done(v, w) /\ w.d.rec[k] = None
        /\ SameMem(v.d, w.d, k) /\ SameGroup(v.d, w.d, k)
    BY <2>6, <2>7, <2>8, PipelineReleases
  <2>10. w \in Outcome
    BY <2>9 DEF About
  <2>11. z \in Outcome /\ z.d = w.d /\ z.t = w.t /\ ~ z.ok /\ z.left = w.left
    BY <2>3, <2>10, Resumed
  <2>12. About(x, w, k)
    BY ONLY <2>6, <2>9, AboutTrans, Zenon
  <2>13. About(o, z, k)
    BY <2>2, <2>11, <2>12 DEF About
  <2>14. z.left = 0
    BY <2>7, <2>9, <2>11 DEF Done
  <2>15. z.d.rec[k] = None /\ SameMem(o.d, z.d, k) /\ ~ InGroup(z.d, k)
    BY <2>2, <2>6, <2>9, <2>11 DEF SameMem, SameGroup
  <2>16. QED
    BY <1>4, <2>11, <2>13, <2>14, <2>15
<1>5. QED
  BY <1>2, <1>3, <1>4

\* eswitch_pipeline_attach_port, the flood group and the membership of
\* attach_port: all three, or none of them.
LEMMA AttachedOrUndone ==
  ASSUME "range" \notin L2Faults, NEW o \in Outcome, o.ok, NEW k \in Pair,
         NEW s \in PortSpec, ValidRequest(s), Absent(o.d, k), NEW z \in AttachedIn(o, k, s)
  PROVE  /\ About(o, z, k)
         /\ \/ Done(o, z) /\ Present(z.d, k, Normal(s))
            \/ /\ ~ z.ok /\ z.left = 0 /\ Absent(z.d, k)
               /\ o.left = 1 \/ ~ Admits(Spec(o.d.rec), k[1], k[2], Normal(s))
<1> DEFINE n == Normal(s)
           A == eswitch_pipeline_attach_port(o, k, s)
           F(y) == OnError(eswitch_pipeline_flood_add_port(y, k), LAMBDA x :
                     AndThen(eswitch_pipeline_detach_vswitch_port(x, k), LAMBDA w :
                       eswitch_pipeline_release_vswitch_port(w, k)))
           S == AndThen(A, F)
           E(y) == [y.d EXCEPT !.mem[k] = n]
<1>1. Fine(n) /\ n \in PortSpec /\ n # None
  BY NormalFine, Records
<1>2. o.d.mem[k] = None /\ o.d.rec[k] = None /\ ~ InGroup(o.d, k)
  BY DEF Absent
<1>3. z \in UNION {IF y.ok THEN Ok(y, E(y)) ELSE {y} : y \in S}
  BY DEF AttachedIn, AndThen
<1> HIDE DEF S
<1>4. PICK y \in S : IF y.ok THEN z \in Ok(y, E(y)) ELSE z = y
  BY <1>3
<1> HIDE DEF A, F, n
<1>5. PICK x \in A : IF x.ok THEN y \in F(x) ELSE y = x
  BY DEF S, AndThen
<1>6. \/ Lost(o, x) /\ (o.left = 1 \/ ~ Admits(Spec(o.d.rec), k[1], k[2], n))
      \/ /\ About(o, x, k) /\ Done(o, x)
         /\ x.d.rec[k] = Installed(n) /\ SameMem(o.d, x.d, k) /\ SameGroup(o.d, x.d, k)
  BY <1>2, PipelineAttaches DEF A, n
<1>7. CASE Lost(o, x) /\ (o.left = 1 \/ ~ Admits(Spec(o.d.rec), k[1], k[2], n))
  <2>1. ~ x.ok
    BY <1>7 DEF Lost
  <2>2. z = x
    BY <1>4, <1>5, <2>1
  <2>3. /\ About(o, x, k) /\ SameMem(o.d, x.d, k) /\ SameRec(o.d, x.d, k)
        /\ SameGroup(o.d, x.d, k)
    BY <1>7, LostAbout
  <2>4. QED
    BY <1>2, <1>7, <2>2, <2>3 DEF Lost, Absent, SameMem, SameRec, SameGroup, n
<1>8. CASE /\ About(o, x, k) /\ Done(o, x)
           /\ x.d.rec[k] = Installed(n) /\ SameMem(o.d, x.d, k) /\ SameGroup(o.d, x.d, k)
  <2>1. x \in Outcome /\ x.ok /\ ~ InGroup(x.d, k) /\ x.left = o.left /\ x.d.mem[k] = None
    BY <1>2, <1>8 DEF About, Done, SameGroup, SameMem
  <2>2. y \in F(x)
    BY <1>5, <2>1
  <2>3. /\ About(x, y, k) /\ SameMem(x.d, y.d, k)
        /\ \/ Done(x, y) /\ y.d.rec[k] = Installed(n) /\ InGroup(y.d, k)
           \/ ~ y.ok /\ y.left = 0 /\ x.left = 1 /\ y.d.rec[k] = None /\ ~ InGroup(y.d, k)
    BY <1>1, <1>8, <2>1, <2>2, FloodedOrUndone DEF F
  <2>4. About(o, y, k) /\ y.d.mem[k] = None
    <3>1. About(o, y, k)
      BY ONLY <1>8, <2>3, AboutTrans, Zenon
    <3>2. QED
      BY <2>1, <2>3, <3>1 DEF SameMem
  <2>5. CASE ~ y.ok /\ y.left = 0 /\ x.left = 1 /\ y.d.rec[k] = None /\ ~ InGroup(y.d, k)
    <3>1. z = y
      BY <1>4, <2>5
    <3>2. QED
      BY <2>1, <2>4, <2>5, <3>1 DEF Absent
  <2>6. CASE Done(x, y) /\ y.d.rec[k] = Installed(n) /\ InGroup(y.d, k)
    <3>1. y \in Outcome /\ y.d \in LiveType /\ y.ok /\ y.left = o.left
      BY <2>1, <2>4, <2>6, OutcomeFields DEF About, Done
    <3>2. z \in Ok(y, E(y))
      BY <1>4, <3>1
    <3>3. /\ Elsewhere(y.d, E(y), k) /\ E(y).mem[k] = n /\ E(y).rec[k] = y.d.rec[k]
          /\ InGroup(E(y), k) <=> InGroup(y.d, k)
      BY <1>1, <3>1, SetMem
    <3> HIDE DEF E
    <3>4. E(y) \in LiveType
      BY <3>3 DEF Elsewhere
    <3>5. z \in Outcome /\ z.d = E(y) /\ z.t = y.t /\ z.ok = y.ok /\ z.left = y.left
      BY <3>1, <3>2, <3>4, OkCall
    <3>6. About(y, z, k)
      BY <3>3, <3>5 DEF About
    <3>7. About(o, z, k)
      BY ONLY <2>4, <3>6, AboutTrans, Zenon
    <3>8. Done(o, z) /\ Present(z.d, k, n)
      BY <2>6, <3>1, <3>3, <3>5 DEF Done, Present
    <3>9. QED
      BY <3>7, <3>8 DEF n
  <2>7. QED
    BY <2>3, <2>5, <2>6
<1>9. QED
  BY <1>6, <1>7, <1>8

\* The pairs are the same.
LEMMA SamePairsTrans ==
  ASSUME NEW d, NEW e, NEW f, SamePairs(d, e), SamePairs(e, f) PROVE SamePairs(d, f)
BY DEF SamePairs, SameAt

\* Fields that say nothing about pairs.
LEMMA SamePairsFields ==
  ASSUME NEW d, NEW e \in LiveType, e.sw = d.sw, e.uplink = d.uplink, e.mem = d.mem, e.rec = d.rec,
         e.flood = d.flood
  PROVE  SamePairs(d, e)
BY DEF SamePairs, SameAt, InGroup

\* The hardware routes written.
RoutesSet(d, H, b) == [d EXCEPT !.lpm = H, !.degraded = b, !.backoff = b]

\* Writing the hardware routes changes nothing else.
LEMMA RoutesWritten ==
  ASSUME NEW d \in LiveType, NEW H \in SUBSET (Rif \X Port), NEW b \in BOOLEAN
  PROVE  /\ SamePairs(d, RoutesSet(d, H, b)) /\ RoutesSet(d, H, b).ctx = d.ctx
         /\ RoutesSet(d, H, b).mem = d.mem
<1> DEFINE x == [d EXCEPT !.lpm = H]
           y == [x EXCEPT !.degraded = b]
           z == [y EXCEPT !.backoff = b]
<1>1. RoutesSet(d, H, b) = z
  BY DEF RoutesSet
<1>2. /\ x \in LiveType /\ x.sw = d.sw /\ x.mem = d.mem /\ x.rec = d.rec /\ x.flood = d.flood
      /\ x.ctx = d.ctx /\ x.uplink = d.uplink
  BY ReplaceLpm
<1> HIDE DEF x
<1>3. /\ y \in LiveType /\ y.sw = d.sw /\ y.mem = d.mem /\ y.rec = d.rec /\ y.flood = d.flood
      /\ y.ctx = d.ctx /\ y.uplink = d.uplink
  BY <1>2, ReplaceDegraded
<1> HIDE DEF y
<1>4. /\ z \in LiveType /\ z.sw = d.sw /\ z.mem = d.mem /\ z.rec = d.rec /\ z.flood = d.flood
      /\ z.ctx = d.ctx /\ z.uplink = d.uplink
  BY <1>3, ReplaceBackoff
<1> HIDE DEF z
<1>5. SamePairs(d, z)
  BY <1>4, SamePairsFields
<1>6. QED
  BY <1>1, <1>4, <1>5

\* The plan is a set of resolved neighbors.
LEMMA PlanType == ASSUME NEW d \in LiveType, NEW R PROVE Plan(d, R) \in SUBSET (Rif \X Port)
BY LiveFields DEF Plan

\* eswitch_manager_hw_routes_sync changes routes only.
LEMMA SyncKeepsPairs ==
  ASSUME NEW o \in Outcome, o.ok, NEW z \in eswitch_manager_hw_routes_sync(o)
  PROVE  /\ z \in Outcome /\ z.t = o.t /\ SamePairs(o.d, z.d) /\ z.d.ctx = o.d.ctx
         /\ \/ Done(o, z)
            \/ ~ z.ok /\ z.left = 0 /\ o.left = 1
<1> DEFINE plan == Plan(o.d, rif)
           broken == {plan \ {x} : x \in plan \ o.d.lpm} \union {plan \union {x} : x \in o.d.lpm \ plan}
           e == Synced(o.d, rif)
           m(H) == [o.d EXCEPT !.lpm = H, !.degraded = TRUE, !.backoff = TRUE]
<1>1. o.d \in LiveType /\ o.d.lpm \in SUBSET (Rif \X Port) /\ plan \in SUBSET (Rif \X Port)
  BY OutcomeFields, LiveFields, PlanType
<1>2. \A H \in broken : H \in SUBSET (Rif \X Port)
  <2> HIDE DEF plan
  <2>1. QED
    BY <1>1
<1>3. z = o \/ z \in Ok(o, e) \/ \E H \in broken : z \in Fault(o, "route", m(H))
  BY DEF eswitch_manager_hw_routes_sync
<1> HIDE DEF broken
<1>4. CASE z = o
  BY <1>1, <1>4, SamePairsFields DEF Done
<1>5. CASE z \in Ok(o, e)
  <2>1. SamePairs(o.d, e) /\ e.ctx = o.d.ctx
    <3> HIDE DEF plan
    <3>1. e = RoutesSet(o.d, plan, FALSE)
      BY DEF Synced, plan, RoutesSet
    <3>2. QED
      BY <1>1, <3>1, RoutesWritten, ZenonT(40)
  <2> HIDE DEF e
  <2>2. e \in LiveType
    BY <2>1 DEF SamePairs
  <2>3. z \in Outcome /\ z.d = e /\ z.t = o.t /\ z.ok = o.ok /\ z.left = o.left
    BY <1>5, <2>2, OkCall
  <2>4. QED
    BY <2>1, <2>3 DEF Done
<1>6. CASE \E H \in broken : z \in Fault(o, "route", m(H))
  <2>1. PICK H \in broken : z \in Fault(o, "route", m(H))
    BY <1>6
  <2> DEFINE f == m(H)
  <2>2. SamePairs(o.d, f) /\ f.ctx = o.d.ctx
    <3>1. H \in SUBSET (Rif \X Port)
      BY <1>2
    <3>2. f = RoutesSet(o.d, H, TRUE)
      BY DEF RoutesSet
    <3> HIDE DEF f
    <3>3. QED
      BY ONLY <1>1, <3>1, <3>2, RoutesWritten
  <2>3. z \in Fault(o, "route", f)
    BY <2>1
  <2> HIDE DEF f
  <2>4. f \in LiveType
    BY <2>2 DEF SamePairs
  <2>5. z \in Outcome /\ z.d = f /\ z.t = o.t /\ ~ z.ok /\ z.left = 0 /\ o.left = 1
    BY ONLY <2>3, <2>4, o \in Outcome, FaultCall
  <2>6. QED
    BY <2>2, <2>5
<1>7. QED
  BY <1>3, <1>4, <1>5, <1>6

\* What a handler does after a failed call is reported as a failure.
Reported(w, z) == z \in Outcome /\ z.d = w.d /\ z.t = w.t /\ ~ z.ok /\ z.left = w.left
Resuming(y, x) == x \in Outcome /\ x.d = y.d /\ x.t = y.t /\ x.ok /\ x.left = y.left

\* The outcome a handler resumes with and the one it reports.
LEMMA ResumedReported ==
  ASSUME NEW o \in Outcome
  PROVE  Resuming(o, [o EXCEPT !.ok = TRUE]) /\ Reported(o, [o EXCEPT !.ok = FALSE])
BY Resumed DEF Resuming, Reported

\* Calls that undo, between the two.
LEMMA BackReported ==
  ASSUME NEW o, NEW k, NEW y, About(o, y, k), y.left = 0, NEW x, Resuming(y, x),
         NEW w, About(x, w, k), Done(x, w), NEW z, Reported(w, z)
  PROVE  About(o, z, k) /\ ~ z.ok /\ z.left = 0 /\ z.d = w.d
<1>1. About(y, z, k)
  BY DEF About, Resuming, Reported
<1>2. About(o, z, k)
  BY ONLY About(o, y, k), <1>1, AboutTrans, Zenon
<1>3. QED
  BY <1>2 DEF Reported, Done, Resuming

\* The ingress rules of a record are put back.
LEMMA IngressBack ==
  ASSUME NEW o \in Outcome, o.ok, o.left = 0, NEW k \in Pair, NEW s, Fine(s),
         o.d.rec[k] = Quiet(s), NEW z \in BackIngress(o, k, s)
  PROVE  /\ About(o, z, k) /\ Done(o, z) /\ z.d.rec[k] = Installed(s)
         /\ SameMem(o.d, z.d, k) /\ SameGroup(o.d, z.d, k)
<1>1. s \in PortSpec /\ ValidRequest(s) /\ Normal(s) = s /\ Quiet(s) # None
  BY Records
<1>2. z \in eswitch_pipeline_attach_port(o, k, s)
  BY DEF BackIngress
<1>3. \/ /\ Lost(o, z)
         /\ \/ o.left = 1
            \/ o.d.rec[k] = None /\ ~ Admits(Spec(o.d.rec), k[1], k[2], Normal(s))
            \/ o.d.rec[k] # None /\ o.d.rec[k] # Quiet(Normal(s))
      \/ /\ About(o, z, k) /\ Done(o, z)
         /\ z.d.rec[k] = Installed(Normal(s)) /\ SameMem(o.d, z.d, k) /\ SameGroup(o.d, z.d, k)
  BY <1>1, <1>2, PipelineAttaches
<1>4. QED
  BY <1>1, <1>3

\* The port is put back into its flood group as well.
LEMMA FloodBack ==
  ASSUME NEW o \in Outcome, o.ok, o.left = 0, NEW k \in Pair, NEW s, Fine(s),
         o.d.rec[k] = Quiet(s), ~ InGroup(o.d, k), NEW z \in BackFlood(o, k, s)
  PROVE  /\ About(o, z, k) /\ Done(o, z) /\ z.d.rec[k] = Installed(s)
         /\ SameMem(o.d, z.d, k) /\ InGroup(z.d, k)
<1> DEFINE S == BackIngress(o, k, s)
<1> HIDE DEF S
<1>1. PICK y \in S : IF y.ok THEN z \in eswitch_pipeline_flood_add_port(y, k) ELSE z = y
  BY DEF BackFlood, AndThen, S
<1>2. /\ About(o, y, k) /\ Done(o, y) /\ y.d.rec[k] = Installed(s)
      /\ SameMem(o.d, y.d, k) /\ SameGroup(o.d, y.d, k)
  BY IngressBack DEF S
<1>3. y \in Outcome /\ y.ok /\ y.left = 0 /\ ~ InGroup(y.d, k)
  BY <1>2 DEF About, Done, SameGroup
<1>4. z \in eswitch_pipeline_flood_add_port(y, k)
  BY <1>1, <1>3
<1>5. About(y, z, k) /\ Done(y, z) /\ InGroup(z.d, k) /\ SameMem(y.d, z.d, k) /\ SameRec(y.d, z.d, k)
  <2>1. \/ Lost(y, z) /\ y.left = 1
        \/ /\ About(y, z, k) /\ Done(y, z) /\ InGroup(z.d, k)
           /\ SameMem(y.d, z.d, k) /\ SameRec(y.d, z.d, k)
    BY ONLY k \in Pair, <1>3, <1>4, FloodAdds
  <2>2. QED
    BY <1>3, <2>1
<1>6. About(o, z, k)
  BY ONLY <1>2, <1>5, AboutTrans, Zenon
<1>7. QED
  BY <1>2, <1>5, <1>6 DEF Done, SameMem, SameRec

\* The member is kept because one call failed.
Kept(o, z, k, s) == ~ z.ok /\ z.left = 0 /\ o.left = 1 /\ Present(z.d, k, s)

\* detach_port up to the flood group.
LEMMA QuietOrKept ==
  ASSUME "range" \notin L2Faults, NEW o \in Outcome, o.ok, NEW k \in Pair, NEW s, Fine(s),
         Present(o.d, k, s), NEW z \in QuietPort(o, k)
  PROVE  /\ About(o, z, k)
         /\ \/ Done(o, z) /\ z.d.mem[k] = s /\ z.d.rec[k] = Quiet(s) /\ ~ InGroup(z.d, k)
            \/ Kept(o, z, k, s)
<1> DEFINE A == eswitch_pipeline_detach_vswitch_port(o, k)
           R(y) == eswitch_pipeline_flood_remove_port(y, k)
           F(y) == OnError(R(y), LAMBDA x : BackIngress(x, k, o.d.mem[k]))
<1>1. o.d.mem[k] = s /\ o.d.rec[k] = Installed(s) /\ InGroup(o.d, k)
  BY DEF Present
<1>2. z \in UNION {IF y.ok THEN F(y) ELSE {y} : y \in A}
  BY DEF QuietPort, AndThen
<1> HIDE DEF A, F
<1>3. PICK y \in A : IF y.ok THEN z \in F(y) ELSE z = y
  BY <1>2
<1>4. o.d.rec[k] # None /\ o.d.rec[k].spec = s
  BY <1>1, Records
<1>5. \/ Lost(o, y) /\ o.left = 1
      \/ /\ About(o, y, k) /\ Done(o, y) /\ y.d.rec[k] = Quiet(s)
         /\ SameMem(o.d, y.d, k) /\ SameGroup(o.d, y.d, k)
  BY <1>4, PipelineDetaches DEF A
<1>6. CASE Lost(o, y) /\ o.left = 1
  <2>1. z = y
    BY <1>3, <1>6 DEF Lost
  <2>2. About(o, z, k)
    BY <1>6, <2>1, LostAbout
  <2>3. QED
    BY <1>1, <1>6, <2>1, <2>2 DEF Lost, Kept, Present
<1>7. CASE /\ About(o, y, k) /\ Done(o, y) /\ y.d.rec[k] = Quiet(s)
           /\ SameMem(o.d, y.d, k) /\ SameGroup(o.d, y.d, k)
  <2> DEFINE B == R(y)
  <2>1. y \in Outcome /\ y.ok /\ y.left = o.left /\ InGroup(y.d, k) /\ y.d.mem[k] = s
    BY <1>1, <1>7 DEF About, Done, SameGroup, SameMem
  <2>2. z \in F(y)
    BY <1>3, <2>1
  <2>3. z \in UNION {IF x.ok THEN {x}
                     ELSE {[w EXCEPT !.ok = FALSE] : w \in BackIngress([x EXCEPT !.ok = TRUE], k, o.d.mem[k])}
                     : x \in B}
    BY <2>2 DEF F, OnError
  <2> HIDE DEF B
  <2>4. PICK x \in B : IF x.ok THEN z = x
                       ELSE \E w \in BackIngress([x EXCEPT !.ok = TRUE], k, o.d.mem[k]) :
                              z = [w EXCEPT !.ok = FALSE]
    BY <2>3
  <2>5. \/ Lost(y, x) /\ y.left = 1
        \/ /\ About(y, x, k) /\ Done(y, x) /\ ~ InGroup(x.d, k)
           /\ SameMem(y.d, x.d, k) /\ SameRec(y.d, x.d, k)
    BY <2>1, FloodRemoves DEF B
  <2>6. CASE /\ About(y, x, k) /\ Done(y, x) /\ ~ InGroup(x.d, k)
             /\ SameMem(y.d, x.d, k) /\ SameRec(y.d, x.d, k)
    <3>1. z = x
      BY <2>4, <2>6 DEF Done
    <3>2. About(o, x, k)
      BY ONLY <1>7, <2>6, AboutTrans, Zenon
    <3>3. QED
      BY <1>7, <2>1, <2>6, <3>1, <3>2 DEF Done, SameMem, SameRec
  <2>7. CASE Lost(y, x) /\ y.left = 1
    <3> DEFINE v == [x EXCEPT !.ok = TRUE]
    <3>1. x \in Outcome /\ ~ x.ok /\ x.left = 0 /\ x.d = y.d
      BY <2>7 DEF Lost
    <3>2. v \in Outcome /\ v.ok /\ v.left = 0 /\ v.d = y.d /\ Resuming(x, v)
      BY <3>1, Resumed DEF Resuming
    <3>3. PICK w \in BackIngress(v, k, s) : z = [w EXCEPT !.ok = FALSE]
      BY <1>1, <2>4, <3>1
    <3> HIDE DEF v
    <3>4. /\ About(v, w, k) /\ Done(v, w) /\ w.d.rec[k] = Installed(s)
          /\ SameMem(v.d, w.d, k) /\ SameGroup(v.d, w.d, k)
      BY <1>7, <3>2, <3>3, IngressBack
    <3>5. About(y, x, k)
      BY <2>1, <2>7, LostAbout
    <3>6. About(o, x, k)
      BY ONLY <1>7, <3>5, AboutTrans, Zenon
    <3>7. About(o, z, k) /\ ~ z.ok /\ z.left = 0 /\ z.d = w.d
      <4>1. Reported(w, z)
        BY <3>3, <3>4, ResumedReported DEF About
      <4>2. QED
        BY ONLY <3>1, <3>2, <3>4, <3>6, <4>1, BackReported
    <3>8. Present(z.d, k, s)
      BY <2>1, <3>2, <3>4, <3>7 DEF Present, SameMem, SameGroup
    <3>9. QED
      BY <2>1, <2>7, <3>7, <3>8 DEF Kept
  <2>8. QED
    BY <2>5, <2>6, <2>7
<1>8. QED
  BY <1>5, <1>6, <1>7

\* detach_port up to the FDB.
LEMMA FlushedOrKept ==
  ASSUME "range" \notin L2Faults, NEW o \in Outcome, o.ok, NEW k \in Pair, NEW s, Fine(s),
         Present(o.d, k, s), NEW z \in FlushedPort(o, k)
  PROVE  /\ About(o, z, k)
         /\ \/ Done(o, z) /\ z.d.mem[k] = s /\ z.d.rec[k] = Quiet(s) /\ ~ InGroup(z.d, k)
            \/ Kept(o, z, k, s)
<1> DEFINE A == QuietPort(o, k)
           F(y) == OnError(Flushed(y), LAMBDA x : BackFlood(x, k, o.d.mem[k]))
<1>1. o.d.mem[k] = s
  BY DEF Present
<1>2. z \in UNION {IF y.ok THEN F(y) ELSE {y} : y \in A}
  BY DEF FlushedPort, AndThen
<1> HIDE DEF A, F
<1>3. PICK y \in A : IF y.ok THEN z \in F(y) ELSE z = y
  BY <1>2
<1>4. /\ About(o, y, k)
      /\ \/ Done(o, y) /\ y.d.mem[k] = s /\ y.d.rec[k] = Quiet(s) /\ ~ InGroup(y.d, k)
         \/ Kept(o, y, k, s)
  BY QuietOrKept DEF A
<1>5. CASE Kept(o, y, k, s)
  <2>1. z = y
    BY <1>3, <1>5 DEF Kept
  <2>2. QED
    BY <1>4, <1>5, <2>1
<1>6. CASE Done(o, y) /\ y.d.mem[k] = s /\ y.d.rec[k] = Quiet(s) /\ ~ InGroup(y.d, k)
  <2> DEFINE B == Flushed(y)
  <2>1. y \in Outcome /\ y.ok /\ y.left = o.left
    BY <1>4, <1>6 DEF About, Done
  <2>2. z \in F(y)
    BY <1>3, <2>1
  <2>3. z \in UNION {IF x.ok THEN {x}
                     ELSE {[w EXCEPT !.ok = FALSE] : w \in BackFlood([x EXCEPT !.ok = TRUE], k, o.d.mem[k])}
                     : x \in B}
    BY <2>2 DEF F, OnError
  <2> HIDE DEF B
  <2>4. PICK x \in B : IF x.ok THEN z = x
                       ELSE \E w \in BackFlood([x EXCEPT !.ok = TRUE], k, o.d.mem[k]) :
                              z = [w EXCEPT !.ok = FALSE]
    BY <2>3
  <2>5. x = y \/ (Lost(y, x) /\ y.left = 1)
    <3>1. x = y \/ x \in Fault(y, "fdb", y.d)
      BY DEF B, Flushed
    <3>2. CASE x \in Fault(y, "fdb", y.d)
      BY ONLY <2>1, <3>2, FaultLost
    <3>3. QED
      BY <3>1, <3>2
  <2>6. CASE x = y
    BY <1>4, <1>6, <2>1, <2>4, <2>6
  <2>7. CASE Lost(y, x) /\ y.left = 1
    <3> DEFINE v == [x EXCEPT !.ok = TRUE]
    <3>1. x \in Outcome /\ ~ x.ok /\ x.left = 0 /\ x.d = y.d
      BY <2>7 DEF Lost
    <3>2. v \in Outcome /\ v.ok /\ v.left = 0 /\ v.d = y.d /\ Resuming(x, v)
      BY <3>1, Resumed DEF Resuming
    <3>3. PICK w \in BackFlood(v, k, s) : z = [w EXCEPT !.ok = FALSE]
      BY <1>1, <2>4, <3>1
    <3> HIDE DEF v
    <3>4. /\ About(v, w, k) /\ Done(v, w) /\ w.d.rec[k] = Installed(s)
          /\ SameMem(v.d, w.d, k) /\ InGroup(w.d, k)
      BY <1>6, <3>2, <3>3, FloodBack
    <3>5. About(y, x, k)
      BY <2>1, <2>7, LostAbout
    <3>6. About(o, x, k)
      BY ONLY <1>4, <3>5, AboutTrans, Zenon
    <3>7. About(o, z, k) /\ ~ z.ok /\ z.left = 0 /\ z.d = w.d
      <4>1. Reported(w, z)
        BY <3>3, <3>4, ResumedReported DEF About
      <4>2. QED
        BY ONLY <3>1, <3>2, <3>4, <3>6, <4>1, BackReported
    <3>8. Present(z.d, k, s)
      BY <1>6, <3>2, <3>4, <3>7 DEF Present, SameMem
    <3>9. QED
      BY <2>1, <2>7, <3>7, <3>8 DEF Kept
  <2>8. QED
    BY <2>5, <2>6, <2>7
<1>7. QED
  BY <1>4, <1>5, <1>6

\* The membership and the neighbors behind it are forgotten.
LEMMA MemberForgotten ==
  ASSUME NEW d \in LiveType, NEW k \in Pair
  PROVE  /\ Elsewhere(d, Forgotten(d, k), k) /\ Forgotten(d, k).mem[k] = None
         /\ SameRec(d, Forgotten(d, k), k) /\ SameGroup(d, Forgotten(d, k), k)
<1> DEFINE e == [d EXCEPT !.mem[k] = None]
           n == {x \in e.nb : x[2] # k[2]}
           f == [e EXCEPT !.nb = n]
<1>1. Elsewhere(d, e, k) /\ e.mem[k] = None /\ e.rec[k] = d.rec[k] /\ (InGroup(e, k) <=> InGroup(d, k))
  BY SetMem
<1>2. Forgotten(d, k) = f
  BY DEF Forgotten, router_neighbor_invalidate_port
<1> HIDE DEF e
<1>3. e \in LiveType /\ n \in SUBSET (Rif \X Port)
  BY <1>1, LiveFields DEF Elsewhere
<1> HIDE DEF n
<1>4. /\ f \in LiveType /\ f.sw = e.sw /\ f.mem = e.mem /\ f.rec = e.rec /\ f.flood = e.flood
      /\ f.ctx = e.ctx /\ f.uplink = e.uplink
  BY <1>3, ReplaceNb
<1> HIDE DEF f
<1>5. QED
  BY <1>1, <1>2, <1>4 DEF Elsewhere, SameAt, SameRec, SameGroup, InGroup

\* And remembered.
LEMMA MemberRemembered ==
  ASSUME NEW d \in LiveType, NEW k \in Pair, NEW old \in LiveType
  PROVE  /\ Elsewhere(d, Remembered(d, old, k), k) /\ Remembered(d, old, k).mem[k] = old.mem[k]
         /\ SameRec(d, Remembered(d, old, k), k) /\ SameGroup(d, Remembered(d, old, k), k)
<1> DEFINE s == old.mem[k]
           e == [d EXCEPT !.mem[k] = s]
           n == old.nb
           f == [e EXCEPT !.nb = n]
<1>1. s \in PortSpec \union {None} /\ n \in SUBSET (Rif \X Port)
  BY LiveFields DEF MemType
<1>2. Remembered(d, old, k) = f
  BY DEF Remembered
<1> HIDE DEF s, n
<1>3. Elsewhere(d, e, k) /\ e.mem[k] = s /\ e.rec[k] = d.rec[k] /\ (InGroup(e, k) <=> InGroup(d, k))
  BY <1>1, SetMem
<1> HIDE DEF e
<1>4. e \in LiveType
  BY <1>3 DEF Elsewhere
<1>5. /\ f \in LiveType /\ f.sw = e.sw /\ f.mem = e.mem /\ f.rec = e.rec /\ f.flood = e.flood
      /\ f.ctx = e.ctx /\ f.uplink = e.uplink
  BY <1>1, <1>4, ReplaceNb
<1> HIDE DEF f
<1>6. QED
  BY <1>2, <1>3, <1>5 DEF Elsewhere, SameAt, SameRec, SameGroup, InGroup, s

\* A call that leaves the pairs alone is about any of them.
LEMMA SameElsewhere ==
  ASSUME NEW d, NEW e, SamePairs(d, e), e.ctx = d.ctx, NEW k \in Pair
  PROVE  Elsewhere(d, e, k) /\ SameMem(d, e, k) /\ SameRec(d, e, k) /\ SameGroup(d, e, k)
BY DEF SamePairs, SameAt, Elsewhere, SameMem, SameRec, SameGroup

\* The membership, the ingress rules and the flood group are put back.
LEMMA MemberBack ==
  ASSUME NEW o \in Outcome, o.ok, o.left = 0, NEW k \in Pair, NEW s, Fine(s),
         o.d.rec[k] = Quiet(s), ~ InGroup(o.d, k), NEW old \in LiveType, old.mem[k] = s,
         NEW z \in BackMember(o, old, k)
  PROVE  About(o, z, k) /\ Done(o, z) /\ Present(z.d, k, s)
<1> DEFINE e == Remembered(o.d, old, k)
           x == [o EXCEPT !.d = e]
<1>1. o.d \in LiveType
  BY OutcomeFields
<1>2. Elsewhere(o.d, e, k) /\ e.mem[k] = s /\ SameRec(o.d, e, k) /\ SameGroup(o.d, e, k)
  BY <1>1, MemberRemembered
<1>3. z \in BackFlood(x, k, s)
  BY DEF BackMember
<1> HIDE DEF e
<1>4. e \in LiveType
  BY <1>2 DEF Elsewhere
<1>5. x \in Outcome /\ x.d = e /\ x.t = o.t /\ x.ok = o.ok /\ x.left = o.left
  BY <1>4, WithLive
<1> HIDE DEF x
<1>6. x.ok /\ x.left = 0 /\ x.d.rec[k] = Quiet(s) /\ ~ InGroup(x.d, k)
  BY <1>2, <1>5 DEF SameRec, SameGroup
<1>7. /\ About(x, z, k) /\ Done(x, z) /\ z.d.rec[k] = Installed(s)
      /\ SameMem(x.d, z.d, k) /\ InGroup(z.d, k)
  BY <1>3, <1>5, <1>6, FloodBack
<1>8. About(o, x, k)
  BY <1>2, <1>5 DEF About
<1>9. About(o, z, k)
  BY ONLY <1>7, <1>8, AboutTrans, Zenon
<1>10. QED
  BY <1>2, <1>5, <1>7, <1>9 DEF Done, Present, SameMem

\* detach_port up to the hardware routes.
LEMMA UnroutedOrKept ==
  ASSUME "range" \notin L2Faults, NEW o \in Outcome, o.ok, NEW k \in Pair, NEW s, Fine(s),
         Present(o.d, k, s), NEW z \in UnroutedPort(o, k)
  PROVE  /\ About(o, z, k)
         /\ \/ Done(o, z) /\ z.d.mem[k] = None /\ z.d.rec[k] = Quiet(s) /\ ~ InGroup(z.d, k)
            \/ Kept(o, z, k, s)
<1> DEFINE A == FlushedPort(o, k)
           X(y) == [y EXCEPT !.d = Forgotten(y.d, k)]
           F(y) == OnError(eswitch_manager_hw_routes_sync(X(y)), LAMBDA x : BackMember(x, o.d, k))
<1>1. o.d.mem[k] = s /\ o.d \in LiveType
  BY OutcomeFields DEF Present
<1>2. z \in UNION {IF y.ok THEN F(y) ELSE {y} : y \in A}
  BY DEF UnroutedPort, AndThen
<1> HIDE DEF A, F
<1>3. PICK y \in A : IF y.ok THEN z \in F(y) ELSE z = y
  BY <1>2
<1>4. /\ About(o, y, k)
      /\ \/ Done(o, y) /\ y.d.mem[k] = s /\ y.d.rec[k] = Quiet(s) /\ ~ InGroup(y.d, k)
         \/ Kept(o, y, k, s)
  BY FlushedOrKept DEF A
<1>5. CASE Kept(o, y, k, s)
  <2>1. z = y
    BY <1>3, <1>5 DEF Kept
  <2>2. QED
    BY <1>4, <1>5, <2>1
<1>6. CASE Done(o, y) /\ y.d.mem[k] = s /\ y.d.rec[k] = Quiet(s) /\ ~ InGroup(y.d, k)
  <2> DEFINE q == X(y)
             B == eswitch_manager_hw_routes_sync(q)
  <2>1. y \in Outcome /\ y.ok /\ y.left = o.left /\ y.d \in LiveType
    BY <1>4, <1>6, OutcomeFields DEF About, Done
  <2>2. z \in F(y)
    BY <1>3, <2>1
  <2>3. z \in UNION {IF x.ok THEN {x}
                     ELSE {[w EXCEPT !.ok = FALSE] : w \in BackMember([x EXCEPT !.ok = TRUE], o.d, k)}
                     : x \in B}
    BY <2>2 DEF F, OnError
  <2> HIDE DEF B
  <2>4. PICK x \in B : IF x.ok THEN z = x
                       ELSE \E w \in BackMember([x EXCEPT !.ok = TRUE], o.d, k) :
                              z = [w EXCEPT !.ok = FALSE]
    BY <2>3
  <2>5. /\ Elsewhere(y.d, Forgotten(y.d, k), k) /\ Forgotten(y.d, k).mem[k] = None
        /\ SameRec(y.d, Forgotten(y.d, k), k) /\ SameGroup(y.d, Forgotten(y.d, k), k)
    BY <2>1, MemberForgotten
  <2>6. /\ q \in Outcome /\ q.ok /\ q.left = o.left /\ About(y, q, k) /\ q.d.mem[k] = None
        /\ q.d.rec[k] = Quiet(s) /\ ~ InGroup(q.d, k)
    <3> DEFINE e == Forgotten(y.d, k)
    <3> HIDE DEF e
    <3>1. e \in LiveType /\ q = [y EXCEPT !.d = e]
      BY <2>5 DEF Elsewhere, e
    <3> HIDE DEF q
    <3>2. q \in Outcome /\ q.d = e /\ q.t = y.t /\ q.ok = y.ok /\ q.left = y.left
      BY <2>1, <3>1, WithLive
    <3>3. QED
      BY <1>6, <2>1, <2>5, <3>2 DEF About, SameRec, SameGroup, e
  <2> HIDE DEF q
  <2>7. /\ x \in Outcome /\ x.t = q.t /\ SamePairs(q.d, x.d) /\ x.d.ctx = q.d.ctx
        /\ \/ Done(q, x)
           \/ ~ x.ok /\ x.left = 0 /\ q.left = 1
    BY <2>6, SyncKeepsPairs DEF B
  <2>8. /\ Elsewhere(q.d, x.d, k) /\ SameMem(q.d, x.d, k) /\ SameRec(q.d, x.d, k)
        /\ SameGroup(q.d, x.d, k)
    BY <2>7, SameElsewhere
  <2>9. About(q, x, k) /\ x.d.mem[k] = None /\ x.d.rec[k] = Quiet(s) /\ ~ InGroup(x.d, k)
    BY <2>6, <2>7, <2>8 DEF About, SameMem, SameRec, SameGroup
  <2>10. About(o, x, k)
    <3>1. About(o, q, k)
      BY ONLY <1>4, <2>6, AboutTrans, Zenon
    <3>2. QED
      BY ONLY <2>9, <3>1, AboutTrans, Zenon
  <2>11. CASE Done(q, x)
    <3>1. z = x
      BY <2>4, <2>11 DEF Done
    <3>2. QED
      BY <2>6, <2>9, <2>10, <2>11, <3>1 DEF Done
  <2>12. CASE ~ x.ok /\ x.left = 0 /\ q.left = 1
    <3> DEFINE v == [x EXCEPT !.ok = TRUE]
    <3>1. v \in Outcome /\ v.ok /\ v.left = 0 /\ v.d = x.d /\ Resuming(x, v)
      BY <2>7, <2>12, Resumed DEF Resuming
    <3>2. PICK w \in BackMember(v, o.d, k) : z = [w EXCEPT !.ok = FALSE]
      BY <2>4, <2>12
    <3> HIDE DEF v
    <3>3. About(v, w, k) /\ Done(v, w) /\ Present(w.d, k, s)
      BY <1>1, <2>9, <3>1, <3>2, MemberBack
    <3>4. Reported(w, z)
      BY <3>2, <3>3, ResumedReported DEF About
    <3>5. About(o, z, k) /\ ~ z.ok /\ z.left = 0 /\ z.d = w.d
      BY ONLY <2>10, <2>12, <3>1, <3>3, <3>4, BackReported
    <3>6. QED
      BY <2>6, <2>12, <3>3, <3>5 DEF Kept
  <2>13. QED
    BY <2>7, <2>11, <2>12
<1>7. QED
  BY <1>4, <1>5, <1>6

\* detach_port: the member is gone, or one call failed and it is as before.
LEMMA DetachedOrKept ==
  ASSUME "range" \notin L2Faults, NEW o \in Outcome, o.ok, NEW k \in Pair, NEW s, Fine(s),
         Present(o.d, k, s), NEW z \in detach_port(o, k)
  PROVE  About(o, z, k) /\ ((Done(o, z) /\ Absent(z.d, k)) \/ Kept(o, z, k, s))
<1> DEFINE A == UnroutedPort(o, k)
           L(y) == eswitch_pipeline_release_vswitch_port(y, k)
           U(x) == AndThen(BackMember(x, o.d, k), eswitch_manager_hw_routes_sync)
           F(y) == OnError(L(y), U)
<1>1. o.d.mem[k] # None
  BY Records DEF Present
<1>2. z \in UNION {IF y.ok THEN F(y) ELSE {y} : y \in A}
  BY <1>1 DEF detach_port, AndThen
<1> HIDE DEF A, F
<1>3. PICK y \in A : IF y.ok THEN z \in F(y) ELSE z = y
  BY <1>2
<1>4. /\ About(o, y, k)
      /\ \/ Done(o, y) /\ y.d.mem[k] = None /\ y.d.rec[k] = Quiet(s) /\ ~ InGroup(y.d, k)
         \/ Kept(o, y, k, s)
  BY UnroutedOrKept DEF A
<1>5. CASE Kept(o, y, k, s)
  <2>1. z = y
    BY <1>3, <1>5 DEF Kept
  <2>2. QED
    BY <1>4, <1>5, <2>1
<1>6. CASE Done(o, y) /\ y.d.mem[k] = None /\ y.d.rec[k] = Quiet(s) /\ ~ InGroup(y.d, k)
  <2> DEFINE B == L(y)
  <2>1. y \in Outcome /\ y.ok
    BY <1>4, <1>6 DEF About, Done
  <2>2. z \in F(y)
    BY <1>3, <2>1
  <2> HIDE DEF U
  <2>3. z \in UNION {IF x.ok THEN {x}
                     ELSE {[w EXCEPT !.ok = FALSE] : w \in U([x EXCEPT !.ok = TRUE])} : x \in B}
    BY <2>2 DEF F, OnError
  <2> HIDE DEF B
  <2>4. PICK x \in B : x.ok => z = x
    BY <2>3
  <2>5. /\ About(y, x, k) /\ Done(y, x) /\ x.d.rec[k] = None /\ SameMem(y.d, x.d, k)
        /\ SameGroup(y.d, x.d, k)
    <3>1. Quiet(s) # None /\ x \in eswitch_pipeline_release_vswitch_port(y, k)
      BY Records DEF B
    <3>2. QED
      BY <1>6, <2>1, <3>1, PipelineReleases
  <2>6. z = x
    BY <2>4, <2>5 DEF Done
  <2>7. About(o, z, k)
    BY ONLY <1>4, <2>5, <2>6, AboutTrans, Zenon
  <2>8. QED
    BY <1>6, <2>5, <2>6, <2>7 DEF Done, Absent, SameMem, SameGroup
<1>7. QED
  BY <1>4, <1>5, <1>6

-----------------------------------------------------------------------------
(***************************************************************************)
(* Topologies that change.  RouterOK is what the router's commands and the *)
(* vSwitches' commands keep true of the two files together.                *)
(***************************************************************************)
Plus(t, k, s) == [sw |-> t.sw, mem |-> [t.mem EXCEPT ![k] = s]]

RouterOK(t, R) ==
  \A r \in Rif : R[r] # "none" =>
    IF RifAt[r] \in Vs
    THEN RifAt[r] \in t.sw /\ \A k \in Members(t.mem) : k[1] = RifAt[r] => ~ Tagged(t.mem[k])
    ELSE \A k \in Members(t.mem) : k[2] # RifAt[r]

\* One member of a topology replaced.
LEMMA PlusFields ==
  ASSUME NEW t \in TopoType, NEW k \in Pair, NEW s \in PortSpec \union {None}
  PROVE  /\ Plus(t, k, s) \in TopoType /\ Plus(t, k, s).sw = t.sw /\ Plus(t, k, s).mem[k] = s
         /\ \A m \in Pair \ {k} : Plus(t, k, s).mem[m] = t.mem[m]
<1>1. t.mem \in MemType /\ t.sw \in SUBSET Vs
  BY DEF TopoType
<1>2. QED
  BY <1>1 DEF Plus, TopoType, MemType

\* A part of the members of a topology is a topology.
LEMMA PartTopo ==
  ASSUME NEW t, TopoOK(t), NEW u \in TopoType, Part(u.mem, t), \A k \in Members(u.mem) : k[1] \in u.sw
  PROVE  TopoOK(u)
<1>1. u.mem \in MemType /\ AllFine(u.mem)
  BY PartFine
<1>2. Cardinality(RuleSlots(u.mem)) <= MaxRules
  BY PartSlots
<1>3. \A k \in Members(u.mem) : k \in Members(t.mem) /\ u.mem[k] = t.mem[k]
  BY DEF Members, Part
<1>4. \A k, m \in Members(u.mem) : k # m => Compatible(k, u.mem[k], m, u.mem[m])
  BY <1>3 DEF TopoOK
<1>5. QED
  BY <1>1, <1>2, <1>4 DEF TopoOK

\* A member less.
LEMMA MinusOK ==
  ASSUME NEW t, TopoOK(t), NEW k \in Pair
  PROVE  TopoOK(Plus(t, k, None)) /\ Part(Plus(t, k, None).mem, t)
<1> DEFINE u == Plus(t, k, None)
<1>1. t \in TopoType /\ \A m \in Members(t.mem) : m[1] \in t.sw
  BY DEF TopoOK
<1>2. u \in TopoType /\ u.sw = t.sw /\ u.mem[k] = None /\ \A m \in Pair \ {k} : u.mem[m] = t.mem[m]
  BY <1>1, PlusFields
<1> HIDE DEF u
<1>3. Part(u.mem, t)
  BY <1>2 DEF Part, TopoType
<1>4. \A m \in Members(u.mem) : m[1] \in u.sw
  BY <1>1, <1>2 DEF Members
<1>5. TopoOK(u)
  BY <1>2, <1>3, <1>4, PartTopo
<1>6. QED
  BY <1>3, <1>5 DEF u

\* The check of attach_port keeps the topology right, and says the same of a
\* request and of its normal form.
LEMMA PlusOK ==
  ASSUME NEW t, TopoOK(t), NEW k \in Pair, k[1] \in t.sw, NEW s \in PortSpec, ValidRequest(s),
         Admits(t.mem, k[1], k[2], s)
  PROVE  /\ t.mem[k] = None /\ Admits(t.mem, k[1], k[2], Normal(s))
         /\ TopoOK(Plus(t, k, Normal(s)))
<1> DEFINE n == Normal(s)
           u == Plus(t, k, n)
           M == t.mem
<1>1. /\ Fine(n) /\ n.mode = s.mode /\ Tagged(n) = Tagged(s) /\ RuleCount(n) = RuleCount(s)
      /\ \A x : eswitch_vlan_allowlists_overlap(x, n) <=> eswitch_vlan_allowlists_overlap(x, s)
  BY NormalForm DEF Fine
<1>2. /\ t \in TopoType /\ M \in MemType /\ AllFine(M) /\ (\A m \in Members(M) : m[1] \in t.sw)
      /\ \A m, p \in Members(M) : m # p => Compatible(m, M[m], p, M[p])
  BY DEF TopoOK, TopoType
<1> HIDE DEF n, M
<1>3. /\ \A m \in Members(M) : /\ m[1] = k[1] => Tagged(M[m]) = Tagged(n)
                               /\ m[2] = k[2] => /\ m[1] # k[1] /\ M[m].mode = "trunk" /\ n.mode = "trunk"
                                                 /\ ~ eswitch_vlan_allowlists_overlap(M[m], n)
      /\ Cardinality(RuleSlots(M)) + RuleCount(n) <= MaxRules
  <2>1. Admits(M, k[1], k[2], s)
    BY DEF M
  <2>2. QED
    BY <1>1, <2>1 DEF Admits
<1>4. M[k] = None
  BY <1>3 DEF Members
<1>5. Admits(M, k[1], k[2], n)
  BY <1>3 DEF Admits
<1>6. n \in PortSpec \union {None} /\ n # None
  BY <1>1, Records
<1>7. /\ u \in TopoType /\ u.sw = t.sw /\ u.mem[k] = n /\ u.mem = [M EXCEPT ![k] = n]
      /\ \A m \in Pair \ {k} : u.mem[m] = M[m]
  <2>1. u.mem = [M EXCEPT ![k] = n]
    BY DEF Plus, M
  <2>2. /\ u \in TopoType /\ u.sw = t.sw /\ u.mem[k] = n
        /\ \A m \in Pair \ {k} : u.mem[m] = t.mem[m]
    BY <1>2, <1>6, PlusFields
  <2>3. QED
    BY <2>1, <2>2 DEF M
<1> HIDE DEF u
<1>8. /\ AllFine(u.mem) /\ Cardinality(RuleSlots(u.mem)) = Cardinality(RuleSlots(M)) + RuleCount(n)
  BY <1>1, <1>2, <1>4, <1>7, SlotsPlus
<1>9. \A m \in Members(u.mem) : m \in Pair /\ (m = k \/ (m # k /\ m \in Members(M) /\ u.mem[m] = M[m]))
  BY <1>7 DEF Members
<1>10. \A m \in Members(u.mem) : m[1] \in u.sw
  BY <1>2, <1>7, <1>9
<1>11. ASSUME NEW m \in Members(M) PROVE Compatible(m, M[m], k, n) /\ Compatible(k, n, m, M[m])
  BY <1>3, OverlapIsSymmetric DEF Compatible
<1>12. ASSUME NEW m \in Members(u.mem), NEW p \in Members(u.mem), m # p
       PROVE  Compatible(m, u.mem[m], p, u.mem[p])
  <2>1. CASE m = k
    BY <1>7, <1>9, <1>11, <1>12, <2>1
  <2>2. CASE p = k
    BY <1>7, <1>9, <1>11, <1>12, <2>2
  <2>3. CASE m # k /\ p # k
    BY <1>2, <1>9, <1>12, <2>3
  <2>4. QED
    BY <2>1, <2>2, <2>3
<1>13. TopoOK(u)
  BY <1>3, <1>7, <1>8, <1>10, <1>12 DEF TopoOK
<1>14. QED
  BY <1>4, <1>5, <1>13 DEF u, n, M

\* The memory of a topology that runs.
LEMMA RunsMem ==
  ASSUME NEW d \in LiveType, NEW t, TopoOK(t), Runs(d, t)
  PROVE  d.sw = t.sw /\ d.mem = t.mem /\ Spec(d.rec) = t.mem
<1>1. t \in TopoType /\ t.mem \in MemType /\ d.mem \in MemType /\ AllFine(t.mem)
  BY LiveFields DEF TopoOK, TopoType
<1>2. ASSUME NEW k \in Pair PROVE d.mem[k] = t.mem[k] /\ Spec(d.rec)[k] = t.mem[k]
  <2>1. CASE t.mem[k] = None
    BY <2>1 DEF Runs, Absent, Spec
  <2>2. CASE t.mem[k] # None
    <3> DEFINE s == t.mem[k]
    <3>1. Fine(s)
      BY <1>1, <2>2 DEF AllFine, Members
    <3>2. d.mem[k] = s /\ d.rec[k] = Installed(s)
      BY <2>2 DEF Runs, Present
    <3>3. d.rec[k] # None /\ d.rec[k].spec = s
      BY <3>1, <3>2, Records
    <3>4. QED
      BY <3>2, <3>3 DEF Spec
  <2>3. QED
    BY <2>1, <2>2
<1>3. d.mem = t.mem
  BY <1>1, <1>2 DEF MemType
<1>4. Spec(d.rec) = t.mem
  <2>1. Spec(d.rec) = [k \in Pair |-> Spec(d.rec)[k]]
    BY DEF Spec
  <2>2. t.mem = [k \in Pair |-> t.mem[k]]
    BY <1>1 DEF MemType
  <2>3. QED
    BY <1>2, <2>1, <2>2
<1>5. QED
  BY <1>3, <1>4 DEF Runs

\* What attach_port requires.
Attachable(t, k, s) ==
  /\ k[1] \in t.sw /\ ValidRequest(s)
  /\ ~ ReservedPort(k[2])
  /\ ~ (Tagged(s) /\ ReservedSwitch(k[1]))
  /\ Admits(t.mem, k[1], k[2], s)

\* A pair that was absent from a topology is attached, or nothing is.
LEMMA AttachedToTopo ==
  ASSUME "range" \notin L2Faults, NEW o \in Outcome, o.ok, NEW t, TopoOK(t), Runs(o.d, t),
         NEW k \in Pair, k[1] \in t.sw, NEW s \in PortSpec, ValidRequest(s),
         Admits(t.mem, k[1], k[2], s), NEW z \in AttachedIn(o, k, s)
  PROVE  /\ About(o, z, k) /\ TopoOK(Plus(t, k, Normal(s))) /\ t.mem[k] = None
         /\ Normal(s) \in PortSpec /\ Normal(s) # None /\ Tagged(Normal(s)) = Tagged(s)
         /\ \/ Done(o, z) /\ Runs(z.d, Plus(t, k, Normal(s)))
            \/ ~ z.ok /\ z.left = 0 /\ o.left = 1 /\ Runs(z.d, t)
<1> DEFINE n == Normal(s)
           u == Plus(t, k, n)
<1>1. t.mem[k] = None /\ Admits(t.mem, k[1], k[2], n) /\ TopoOK(u) /\ t \in TopoType /\ u \in TopoType
  BY PlusOK DEF TopoOK
<1>2. o.d \in LiveType /\ Spec(o.d.rec) = t.mem
  BY OutcomeFields, RunsMem
<1>3. Absent(o.d, k)
  BY <1>1 DEF Runs
<1>4. n \in PortSpec /\ n # None /\ Tagged(n) = Tagged(s)
  BY NormalForm, NormalFine, Records
<1>5. /\ About(o, z, k)
      /\ \/ Done(o, z) /\ Present(z.d, k, n)
         \/ /\ ~ z.ok /\ z.left = 0 /\ Absent(z.d, k)
            /\ o.left = 1 \/ ~ Admits(Spec(o.d.rec), k[1], k[2], n)
  BY <1>3, AttachedOrUndone
<1>6. Elsewhere(o.d, z.d, k)
  BY <1>5 DEF About
<1>7. u.sw = t.sw /\ u.mem[k] = n /\ \A m \in Pair \ {k} : u.mem[m] = t.mem[m]
  BY <1>1, <1>4, PlusFields
<1> HIDE DEF n, u
<1>8. Present(z.d, k, n) => Runs(z.d, u)
  BY <1>1, <1>4, <1>6, <1>7, RunsAt
<1>9. Absent(z.d, k) => Runs(z.d, t)
  BY <1>1, <1>6, RunsAt
<1>10. QED
  BY <1>1, <1>2, <1>4, <1>5, <1>8, <1>9 DEF n, u

\* attach_port.
LEMMA AttachKeepsTopo ==
  ASSUME "range" \notin L2Faults, NEW o \in Outcome, o.ok, NEW t, TopoOK(t), Runs(o.d, t),
         RouterOK(t, rif), NEW k \in Pair, NEW s \in PortSpec, NEW z \in attach_port(o, k, s)
  PROVE  /\ About(o, z, k)
         /\ \/ /\ Done(o, z) /\ Runs(z.d, Plus(t, k, Normal(s)))
               /\ TopoOK(Plus(t, k, Normal(s))) /\ RouterOK(Plus(t, k, Normal(s)), rif)
               /\ t.mem[k] = None /\ Normal(s) \in PortSpec /\ Normal(s) # None
            \/ /\ ~ z.ok /\ z.left = 0 /\ Runs(z.d, t)
               /\ o.left = 1 \/ ~ Attachable(t, k, s)
<1>1. o.d \in LiveType /\ o.d.sw = t.sw /\ o.d.mem = t.mem /\ t \in TopoType
  BY OutcomeFields, RunsMem DEF TopoOK
<1>2. z \in IF ~ Attachable(t, k, s) THEN Error(o) ELSE AttachedIn(o, k, s)
  BY <1>1 DEF attach_port, Attachable
<1>3. CASE ~ Attachable(t, k, s)
  <2>1. z \in Outcome /\ z.d = o.d /\ z.t = o.t /\ ~ z.ok /\ z.left = 0
    BY <1>2, <1>3, ErrorCall
  <2>2. About(o, z, k)
    BY <1>1, <2>1, ElsewhereSame DEF About
  <2>3. QED
    BY <1>3, <2>1, <2>2
<1>4. CASE Attachable(t, k, s)
  <2> DEFINE n == Normal(s)
             u == Plus(t, k, n)
  <2>1. /\ k[1] \in t.sw /\ ValidRequest(s) /\ Admits(t.mem, k[1], k[2], s)
        /\ ~ ReservedPort(k[2]) /\ ~ (Tagged(s) /\ ReservedSwitch(k[1]))
    BY <1>4 DEF Attachable
  <2>2. z \in AttachedIn(o, k, s)
    BY <1>2, <1>4
  <2>3. /\ About(o, z, k) /\ TopoOK(u) /\ t.mem[k] = None
        /\ n \in PortSpec /\ n # None /\ Tagged(n) = Tagged(s)
        /\ \/ Done(o, z) /\ Runs(z.d, u)
           \/ ~ z.ok /\ z.left = 0 /\ o.left = 1 /\ Runs(z.d, t)
    BY <2>1, <2>2, AttachedToTopo
  <2>4. u.sw = t.sw /\ u.mem[k] = n /\ \A m \in Pair \ {k} : u.mem[m] = t.mem[m]
    BY <1>1, <2>3, PlusFields
  <2> HIDE DEF n, u
  <2>5. RouterOK(u, rif)
    <3>1. \A m \in Members(u.mem) : m \in Pair /\ (m = k \/ (m \in Members(t.mem) /\ u.mem[m] = t.mem[m]))
      BY <2>4 DEF Members
    <3>2. ASSUME NEW r \in Rif, rif[r] # "none"
          PROVE  IF RifAt[r] \in Vs
                 THEN RifAt[r] \in u.sw /\ \A m \in Members(u.mem) : m[1] = RifAt[r] => ~ Tagged(u.mem[m])
                 ELSE \A m \in Members(u.mem) : m[2] # RifAt[r]
      <4>1. k[2] # RifAt[r] /\ (k[1] = RifAt[r] => ~ Tagged(n))
        BY <2>1, <2>3, <3>2 DEF ReservedPort, ReservedSwitch
      <4>2. CASE RifAt[r] \in Vs
        <5>1. RifAt[r] \in t.sw /\ \A m \in Members(t.mem) : m[1] = RifAt[r] => ~ Tagged(t.mem[m])
          BY <3>2, <4>2 DEF RouterOK
        <5>2. QED
          BY <2>4, <3>1, <4>1, <4>2, <5>1
      <4>3. CASE RifAt[r] \notin Vs
        <5>1. \A m \in Members(t.mem) : m[2] # RifAt[r]
          BY <3>2, <4>3 DEF RouterOK
        <5>2. QED
          BY <3>1, <4>1, <4>3, <5>1
      <4>4. QED
        BY <4>2, <4>3
    <3>3. QED
      BY <3>2 DEF RouterOK
  <2>6. QED
    BY <2>3, <2>5 DEF n, u
<1>5. QED
  BY <1>3, <1>4

-----------------------------------------------------------------------------
(***************************************************************************)
(* SF return contexts.  Every one belongs to an interface of the router,   *)
(* and one that names a port of a vSwitch names a member.                  *)
(***************************************************************************)
CtxFits(C, M, R) ==
  \A x \in C :
    /\ R[x[1]] # "none"
    /\ RifAt[x[1]] \in Vs =>
         x[2] = RifAt[x[1]] /\ (x[3] # None => M[<<x[2], x[3]>>] # None)

\* The contexts the interfaces need are such contexts.
LEMMA WantedFits ==
  ASSUME NEW d, d.mem \in MemType, NEW R
  PROVE  Wanted(d, R) \in SUBSET Context /\ CtxFits(Wanted(d, R), d.mem, R)
<1>1. ASSUME NEW r \in Rif, R[r] = "addressed", NEW x \in Contexts(d, r)
      PROVE  /\ x \in Context /\ x[1] = r /\ R[x[1]] # "none"
             /\ RifAt[x[1]] \in Vs =>
                  x[2] = RifAt[x[1]] /\ (x[3] # None => d.mem[<<x[2], x[3]>>] # None)
  <2>1. RifAt[r] \in Vs \union (Port \ {Parent}) /\ RifVr[r] \in Domains /\ Vs \subseteq Domains
    BY L2Assumption DEF Domains
  <2>2. CASE RifAt[r] \notin Vs
    <3>1. x = <<r, RifVr[r], RifAt[r]>>
      BY <2>2 DEF Contexts
    <3>2. QED
      BY <1>1, <2>1, <2>2, <3>1 DEF Context
  <2>3. CASE RifAt[r] \in Vs
    <3>1. x = <<r, RifAt[r], None>>
          \/ \E k \in {m \in Members(d.mem) : m[1] = RifAt[r]} : x = <<r, RifAt[r], k[2]>>
      BY <2>3 DEF Contexts
    <3>2. CASE x = <<r, RifAt[r], None>>
      BY <1>1, <2>1, <2>3, <3>2 DEF Context
    <3>3. CASE \E k \in {m \in Members(d.mem) : m[1] = RifAt[r]} : x = <<r, RifAt[r], k[2]>>
      <4>1. PICK k \in Members(d.mem) : k[1] = RifAt[r] /\ x = <<r, RifAt[r], k[2]>>
        BY <3>3
      <4>2. k \in Pair /\ d.mem[k] # None
        BY DEF Members
      <4>3. k = <<k[1], k[2]>> /\ k[2] \in Port
        BY <4>2 DEF Pair
      <4>4. x[1] = r /\ x[2] = RifAt[r] /\ x[3] = k[2]
        BY <4>1
      <4>5. x \in Context
        BY <2>1, <2>3, <4>1, <4>3 DEF Context
      <4>6. d.mem[<<x[2], x[3]>>] # None
        BY <4>1, <4>2, <4>3, <4>4
      <4>7. QED
        BY <1>1, <4>4, <4>5, <4>6
    <3>4. QED
      BY <3>1, <3>2, <3>3
  <2>4. QED
    BY <2>2, <2>3
<1>2. \A x \in Wanted(d, R) : \E r \in Rif : R[r] = "addressed" /\ x \in Contexts(d, r)
  BY DEF Wanted
<1>3. QED
  BY <1>1, <1>2 DEF CtxFits

\* There are finitely many contexts.
LEMMA ContextsFinite ==
  ASSUME NEW C \in SUBSET Context PROVE IsFiniteSet(C) /\ Cardinality(C) \in Nat
<1> DEFINE D == {RifVr[r] : r \in Rif}
           T == Port \union {None}
<1>1. IsFiniteSet(D)
  <2> DEFINE f == [r \in Rif |-> RifVr[r]]
  <2>1. f \in Surjection(Rif, D)
    BY DEF Surjection
  <2> HIDE DEF D, f
  <2>2. QED
    BY <2>1, L2Assumption, FS_Surjection
<1> HIDE DEF D
<1>2. IsFiniteSet(Domains)
  <2>1. IsFiniteSet(Vs \union D)
    BY <1>1, L2Assumption, FS_Union
  <2>2. QED
    BY <2>1 DEF Domains, D
<1>3. IsFiniteSet(T)
  <2>1. IsFiniteSet({None})
    BY FS_Singleton
  <2>2. QED
    BY <2>1, L2Assumption, FS_Union
<1> HIDE DEF T
<1>4. IsFiniteSet((Rif \X Domains) \X T)
  <2>1. IsFiniteSet(Rif \X Domains)
    BY <1>2, L2Assumption, FS_Product
  <2>2. QED
    BY <1>3, <2>1, FS_Product
<1> DEFINE P == (Rif \X Domains) \X T
           Q == Rif \X Domains \X T
           h == [y \in P |-> <<y[1][1], y[1][2], y[2]>>]
<1>5. h \in Surjection(P, Q)
  <2>1. ASSUME NEW y \in P PROVE h[y] \in Q
    OBVIOUS
  <2>2. ASSUME NEW q \in Q PROVE \E y \in P : h[y] = q
    <3>1. <<<<q[1], q[2]>>, q[3]>> \in P /\ q = <<q[1], q[2], q[3]>>
      OBVIOUS
    <3>2. h[<<<<q[1], q[2]>>, q[3]>>] = q
      BY <3>1
    <3>3. QED
      BY <3>1, <3>2
  <2>3. h \in [P -> Q]
    BY <2>1
  <2> HIDE DEF h, P, Q
  <2>4. QED
    BY <2>2, <2>3 DEF Surjection
<1> HIDE DEF h, Q
<1>6. IsFiniteSet(Q)
  BY <1>4, <1>5, FS_Surjection
<1>7. C \in SUBSET Q
  BY DEF Context, Q, T
<1>8. IsFiniteSet(C)
  BY <1>6, <1>7, FS_Subset
<1>9. QED
  BY <1>8, FS_CardinalityType

\* Fewer contexts than a number that are part of others.
LEMMA FewerContexts ==
  ASSUME NEW C \in SUBSET Context, NEW D \in SUBSET C, Cardinality(C) <= MaxContexts
  PROVE  Cardinality(D) <= MaxContexts
<1>1. IsFiniteSet(C) /\ Cardinality(C) \in Nat /\ IsFiniteSet(D) /\ Cardinality(D) \in Nat
  BY ContextsFinite
<1>2. Cardinality(D) <= Cardinality(C)
  BY <1>1, FS_Subset
<1>3. QED
  BY <1>1, <1>2, L2Assumption

\* Fewer members need fewer contexts.
LEMMA WantedGrows ==
  ASSUME NEW d, NEW e, NEW R, \A k \in Pair : d.mem[k] # None => e.mem[k] # None
  PROVE  Wanted(d, R) \subseteq Wanted(e, R)
<1>1. Members(d.mem) \subseteq Members(e.mem)
  BY DEF Members
<1>2. ASSUME NEW r \in Rif PROVE Contexts(d, r) \subseteq Contexts(e, r)
  BY <1>1 DEF Contexts
<1>3. QED
  BY <1>2 DEF Wanted

\* The contexts needed depend on the memberships only.
LEMMA WantedSame == ASSUME NEW d, NEW e, d.mem = e.mem, NEW R PROVE Wanted(d, R) = Wanted(e, R)
BY DEF Wanted, Contexts

\* Contexts taken away, and members added.
LEMMA CtxFewer ==
  ASSUME NEW C, NEW D, NEW M, NEW N, NEW R, CtxFits(C, M, R), D \subseteq C, C \in SUBSET Context,
         \A k \in Pair : M[k] # None => N[k] # None
  PROVE  CtxFits(D, N, R)
<1>1. ASSUME NEW x \in D, RifAt[x[1]] \in Vs, x[3] # None PROVE N[<<x[2], x[3]>>] # None
  <2>1. x[2] = RifAt[x[1]] /\ M[<<x[2], x[3]>>] # None
    BY <1>1 DEF CtxFits
  <2>2. x \in Context
    OBVIOUS
  <2>3. x[3] \in Port
    BY <1>1, <2>2 DEF Context
  <2>4. <<x[2], x[3]>> \in Pair
    BY <1>1, <2>1, <2>3 DEF Pair
  <2>5. QED
    BY <2>1, <2>4
<1>2. QED
  BY <1>1 DEF CtxFits

\* The contexts of an outcome written.
CtxSet(d, C) == [d EXCEPT !.ctx = C]

\* Contexts say nothing about pairs.
LEMMA CtxWritten ==
  ASSUME NEW d \in LiveType, NEW C \in SUBSET Context
  PROVE  SamePairs(d, CtxSet(d, C)) /\ CtxSet(d, C).ctx = C /\ CtxSet(d, C) \in LiveType
<1> DEFINE e == CtxSet(d, C)
<1>1. /\ e \in LiveType /\ e.ctx = C /\ e.sw = d.sw /\ e.mem = d.mem /\ e.rec = d.rec
      /\ e.flood = d.flood /\ e.uplink = d.uplink
  BY ReplaceCtx DEF CtxSet
<1> HIDE DEF e
<1>2. QED
  BY <1>1, SamePairsFields DEF e

\* A call about the contexts: those of C or, if it fails, those of a set in F.
LEMMA CtxCall ==
  ASSUME NEW o \in Outcome, o.ok, NEW C \in SUBSET Context, NEW kind, NEW F \in SUBSET (SUBSET Context),
         NEW z, z \in Ok(o, CtxSet(o.d, C)) \/ \E S \in F : z \in Fault(o, kind, CtxSet(o.d, S))
  PROVE  /\ z \in Outcome /\ z.t = o.t /\ SamePairs(o.d, z.d)
         /\ \/ Done(o, z) /\ z.d.ctx = C
            \/ ~ z.ok /\ z.left = 0 /\ o.left = 1 /\ z.d.ctx \in F
<1>1. o.d \in LiveType
  BY OutcomeFields
<1>2. CASE z \in Ok(o, CtxSet(o.d, C))
  <2> DEFINE e == CtxSet(o.d, C)
  <2>1. SamePairs(o.d, e) /\ e.ctx = C /\ e \in LiveType /\ z \in Ok(o, e)
    BY <1>1, <1>2, CtxWritten
  <2> HIDE DEF e
  <2>2. z \in Outcome /\ z.d = e /\ z.t = o.t /\ z.ok = o.ok /\ z.left = o.left
    BY <2>1, OkCall
  <2>3. QED
    BY <2>1, <2>2 DEF Done
<1>3. CASE \E S \in F : z \in Fault(o, kind, CtxSet(o.d, S))
  <2>1. PICK S \in F : z \in Fault(o, kind, CtxSet(o.d, S))
    BY <1>3
  <2> DEFINE e == CtxSet(o.d, S)
  <2>2. SamePairs(o.d, e) /\ e.ctx = S /\ e \in LiveType /\ z \in Fault(o, kind, e)
    BY <1>1, <2>1, CtxWritten
  <2> HIDE DEF e
  <2>3. z \in Outcome /\ z.d = e /\ z.t = o.t /\ ~ z.ok /\ z.left = 0 /\ o.left = 1
    BY <2>2, FaultCall
  <2>4. QED
    BY <2>2, <2>3
<1>4. QED
  BY <1>2, <1>3

\* eswitch_manager_router_prearm.
LEMMA PrearmKeeps ==
  ASSUME NEW o \in Outcome, o.ok, NEW R, NEW z \in eswitch_manager_router_prearm(o, R)
  PROVE  /\ z \in Outcome /\ z.t = o.t /\ SamePairs(o.d, z.d)
         /\ z.d.ctx \subseteq o.d.ctx \union Wanted(o.d, R)
         /\ \/ Done(o, z) /\ Cardinality(Wanted(o.d, R)) <= MaxContexts
            \/ ~ z.ok /\ z.left = 0 /\ (o.left = 1 \/ ~ preflight_router_contexts(o.d, R))
<1> DEFINE W == Wanted(o.d, R)
           missing == W \ o.d.ctx
           C == o.d.ctx \union missing
           F == {o.d.ctx \union S : S \in (SUBSET missing) \ {missing}}
<1>1. o.d \in LiveType /\ o.d.ctx \in SUBSET Context /\ W \in SUBSET Context
  BY OutcomeFields, LiveFields, WantedFits
<1>2. CASE ~ preflight_router_contexts(o.d, R)
  <2>1. z \in Error(o)
    BY <1>2 DEF eswitch_manager_router_prearm
  <2>2. z \in Outcome /\ z.d = o.d /\ z.t = o.t /\ ~ z.ok /\ z.left = 0
    BY <2>1, ErrorCall
  <2>3. SamePairs(o.d, z.d)
    BY <1>1, <2>2, SamePairsFields
  <2>4. QED
    BY <1>2, <2>2, <2>3
<1>3. CASE preflight_router_contexts(o.d, R)
  <2>1. z \in Ok(o, CtxSet(o.d, C)) \/ \E S \in F : z \in Fault(o, "bind", CtxSet(o.d, S))
    BY <1>3 DEF eswitch_manager_router_prearm, CtxSet
  <2>2. Cardinality(W) <= MaxContexts
    <3>1. Cardinality(o.d.ctx \union W) <= MaxContexts
      BY <1>3 DEF preflight_router_contexts
    <3> HIDE DEF W
    <3>2. o.d.ctx \union W \in SUBSET Context /\ W \in SUBSET (o.d.ctx \union W)
      BY <1>1
    <3>3. QED
      BY <3>1, <3>2, FewerContexts
  <2> HIDE DEF W
  <2>3. /\ C \in SUBSET Context /\ F \in SUBSET (SUBSET Context) /\ C \subseteq o.d.ctx \union W
        /\ \A S \in F : S \subseteq o.d.ctx \union W
    BY <1>1
  <2> HIDE DEF C, F
  <2>4. /\ z \in Outcome /\ z.t = o.t /\ SamePairs(o.d, z.d)
        /\ \/ Done(o, z) /\ z.d.ctx = C
           \/ ~ z.ok /\ z.left = 0 /\ o.left = 1 /\ z.d.ctx \in F
    BY <2>1, <2>3, CtxCall
  <2>5. QED
    BY <2>2, <2>3, <2>4 DEF W
<1>4. QED
  BY <1>2, <1>3

\* unarm_router_member and eswitch_pipeline_sf_unbind_vswitch.
LEMMA WithoutKeeps ==
  ASSUME NEW o \in Outcome, o.ok, NEW C, NEW kind, NEW z \in Without(o, C, kind)
  PROVE  /\ z \in Outcome /\ z.t = o.t /\ SamePairs(o.d, z.d) /\ z.d.ctx \subseteq o.d.ctx
         /\ \/ Done(o, z) /\ z.d.ctx = o.d.ctx \ C
            \/ ~ z.ok /\ z.left = 0 /\ o.left = 1
<1> DEFINE D == o.d.ctx \ C
           F == {o.d.ctx \ S : S \in (SUBSET C) \ {C}}
<1>1. o.d \in LiveType /\ o.d.ctx \in SUBSET Context
  BY OutcomeFields, LiveFields
<1>2. z \in Ok(o, CtxSet(o.d, D)) \/ \E S \in F : z \in Fault(o, kind, CtxSet(o.d, S))
  BY DEF Without, CtxSet
<1>3. /\ D \in SUBSET Context /\ F \in SUBSET (SUBSET Context) /\ D \subseteq o.d.ctx
      /\ \A S \in F : S \subseteq o.d.ctx
  BY <1>1
<1> HIDE DEF D, F
<1>4. /\ z \in Outcome /\ z.t = o.t /\ SamePairs(o.d, z.d)
      /\ \/ Done(o, z) /\ z.d.ctx = D
         \/ ~ z.ok /\ z.left = 0 /\ o.left = 1 /\ z.d.ctx \in F
  BY <1>2, <1>3, CtxCall
<1>5. QED
  BY <1>3, <1>4 DEF D

\* A topology goes on running.
LEMMA RunsSame ==
  ASSUME NEW d, NEW e, SamePairs(d, e), NEW t, Runs(d, t) PROVE Runs(e, t)
BY DEF SamePairs, SameAt, Runs, Absent, Present

-----------------------------------------------------------------------------
(***************************************************************************)
(* The loops over memberships.                                             *)
(***************************************************************************)

\* A loop whose n-th turn leads from the n-th set of outcomes to the next ends
\* in the last.
LEMMA ForEachFollows ==
  ASSUME NEW S, IsFiniteSet(S), NEW o, NEW call, NEW M, NEW I, o \in I[0],
         \A n \in 1..Cardinality(S) : \A y \in I[n-1] :
           IF y.ok THEN Turn(call, y, SetToSeq(S)[n], M) \subseteq I[n] ELSE y \in I[n]
  PROVE  ForEach(S, o, call, M) \subseteq I[Cardinality(S)]
<1> DEFINE L == Cardinality(S)
           q == SetToSeq(S)
           All == UNION {I[n] : n \in 0..L}
           A == SUBSET All
           Step(X, n) == UNION {IF y.ok THEN Turn(call, y, q[n], M) ELSE {y} : y \in X}
           F == [z \in (1..L) \X A |-> IF Step(z[2], z[1]) \in A THEN Step(z[2], z[1]) ELSE {}]
           R(x) == [n \in 0..L |-> IF n = 0 THEN {o} ELSE Step(x[n-1], n)]
           x == CHOOSE y : y = R(y)
<1>1. L \in Nat /\ Len(q) = L
  BY Enumerates
<1>2. \A n \in 1..L : \A X : X \subseteq I[n-1] => Step(X, n) \subseteq I[n]
  OBVIOUS
<1>3. \A n \in 0..L : I[n] \in A
  OBVIOUS
<1> HIDE DEF L, q, A, Step
<1>4. {o} \in A /\ {} \in A
  BY <1>1 DEF A
<1>5. F \in LoopBody(A, L)
  BY <1>4 DEF LoopBody
<1>6. PICK g : LoopRun(A, {o}, L, F, g)
  <2> HIDE DEF F, R, x
  <2>1. QED
    BY ONLY <1>1, <1>4, <1>5, LoopRuns, Zenon
<1>7. g \in [0..L -> A] /\ g[0] = {o} /\ \A n \in 1..L : g[n] = F[<<n, g[n-1]>>]
  BY <1>6 DEF LoopRun
<1> DEFINE T == {n \in Nat : n <= L => g[n] \subseteq I[n]}
<1>8. 0 \in T
  BY <1>7
<1>9. ASSUME NEW n \in 1..L, g[n-1] \subseteq I[n-1]
      PROVE  g[n] = Step(g[n-1], n) /\ g[n] \subseteq I[n]
  <2>1. n - 1 \in 0..L /\ n \in 0..L
    BY <1>1
  <2>2. g[n-1] \in A /\ g[n] = F[<<n, g[n-1]>>]
    BY <1>7, <2>1
  <2>3. Step(g[n-1], n) \subseteq I[n]
    BY <1>2, <1>9
  <2>4. Step(g[n-1], n) \in A
    BY <1>3, <2>1, <2>3 DEF A
  <2>5. QED
    BY <2>2, <2>3, <2>4
<1>10. ASSUME NEW n \in Nat, n \in T PROVE n + 1 \in T
  <2>1. SUFFICES ASSUME n + 1 <= L PROVE g[n+1] \subseteq I[n+1]
    OBVIOUS
  <2>2. n + 1 \in 1..L /\ (n + 1) - 1 = n /\ g[n] \subseteq I[n]
    BY <1>1, <1>10, <2>1
  <2>3. QED
    BY <1>9, <2>2
<1>11. Nat \subseteq T
  <2> HIDE DEF T
  <2>1. QED
    BY <1>8, <1>10, NatSetInduction
<1>12. \A n \in 0..L : g[n] \subseteq I[n]
  BY <1>1, <1>11
<1>13. g = R(g)
  <2> HIDE DEF F
  <2>1. ASSUME NEW n \in 0..L, n # 0 PROVE g[n] = Step(g[n-1], n)
    <3>1. n \in 1..L /\ n - 1 \in 0..L
      BY <1>1, <2>1
    <3>2. QED
      BY <1>9, <1>12, <3>1
  <2>2. QED
    BY <1>7, <2>1
<1>14. x = R(x)
  <2> HIDE DEF R
  <2>1. QED
    BY <1>13
<1>15. ForEach(S, o, call, M) = x[L]
  BY <1>1 DEF ForEach, AndThen, Step, q
<1> HIDE DEF x, F
<1> DEFINE U == {n \in Nat : n <= L => x[n] \subseteq I[n]}
<1>16. 0 \in U
  <2>1. x[0] = {o}
    BY <1>1, <1>14
  <2>2. QED
    BY <2>1
<1>17. ASSUME NEW n \in Nat, n \in U PROVE n + 1 \in U
  <2>1. SUFFICES ASSUME n + 1 <= L PROVE x[n+1] \subseteq I[n+1]
    OBVIOUS
  <2>2. n + 1 \in 1..L /\ n + 1 \in 0..L /\ (n + 1) - 1 = n /\ n + 1 # 0 /\ x[n] \subseteq I[n]
    BY <1>1, <1>17, <2>1
  <2>3. x[n+1] = Step(x[n], n + 1)
    BY <1>14, <2>2
  <2>4. QED
    BY <1>2, <2>2, <2>3
<1>18. Nat \subseteq U
  <2> HIDE DEF U
  <2>1. QED
    BY <1>16, <1>17, NatSetInduction
<1>19. x[L] \subseteq I[L]
  BY <1>1, <1>18
<1>20. QED
  BY <1>15, <1>19 DEF L

\* A loop over a set, told by what is left to do.
LEMMA ForEachLeft ==
  ASSUME NEW S, IsFiniteSet(S), NEW o, NEW call, NEW M, NEW J, o \in J[S],
         \A X \in SUBSET S : \A k \in X, y \in J[X] :
           IF y.ok THEN Turn(call, y, k, M) \subseteq J[X \ {k}] ELSE y \in J[X \ {k}]
  PROVE  ForEach(S, o, call, M) \subseteq J[{}]
<1> DEFINE L == Cardinality(S)
           q == SetToSeq(S)
           Rest(n) == {q[i] : i \in (n + 1)..L}
           I == [n \in 0..L |-> J[Rest(n)]]
<1>1. L \in Nat /\ q \in [1..L -> S] /\ \A i, j \in 1..L : q[i] = q[j] => i = j
  BY Enumerates
<1>2. \A x \in S : \E i \in 1..L : q[i] = x
  BY Enumerates
<1> HIDE DEF L, q
<1>3. Rest(0) = S /\ Rest(L) = {}
  BY <1>1, <1>2
<1>4. ASSUME NEW n \in 1..L PROVE q[n] \in Rest(n - 1) /\ Rest(n) = Rest(n - 1) \ {q[n]} /\ Rest(n - 1) \in SUBSET S
  <2>1. n - 1 \in 0..L /\ (n - 1) + 1 = n
    BY <1>1
  <2>2. \A i \in n..L : i \in 1..L /\ (i # n => i \in (n + 1)..L)
    BY <1>1
  <2>3. \A i \in (n + 1)..L : i \in n..L /\ i \in 1..L /\ i # n
    BY <1>1
  <2>4. QED
    BY <1>1, <2>1, <2>2, <2>3
<1> HIDE DEF Rest
<1>5. o \in I[0]
  <2>1. 0 \in 0..L
    BY ONLY <1>1
  <2>2. I[0] = J[Rest(0)]
    BY ONLY <2>1
  <2> HIDE DEF I
  <2>3. QED
    BY <1>3, <2>2, Zenon
<1>6. ASSUME NEW n \in 1..L, NEW y \in I[n-1]
      PROVE  IF y.ok THEN Turn(call, y, q[n], M) \subseteq I[n] ELSE y \in I[n]
  <2>1. n - 1 \in 0..L /\ n \in 0..L
    BY <1>1
  <2>2. I[n - 1] = J[Rest(n - 1)] /\ I[n] = J[Rest(n)]
    BY ONLY <2>1
  <2> HIDE DEF I
  <2>3. y \in J[Rest(n - 1)]
    BY <1>6, <2>2, Zenon
  <2>4. I[n] = J[Rest(n - 1) \ {q[n]}]
    BY <1>4, <2>2, Zenon
  <2>5. QED
    BY <1>4, <2>3, <2>4, Zenon
<1>7. I[L] = J[{}]
  <2>1. L \in 0..L
    BY ONLY <1>1
  <2>2. I[L] = J[Rest(L)]
    BY ONLY <2>1
  <2> HIDE DEF I
  <2>3. QED
    BY <1>3, <2>2, Zenon
<1> HIDE DEF I
<1>8. ForEach(S, o, call, M) \subseteq I[L]
  <2>1. \A n \in 1..Cardinality(S) : \A y \in I[n-1] :
           IF y.ok THEN Turn(call, y, SetToSeq(S)[n], M) \subseteq I[n] ELSE y \in I[n]
    BY <1>6 DEF L, q
  <2>2. QED
    BY ONLY IsFiniteSet(S), <1>5, <2>1, ForEachFollows DEF L
<1>9. QED
  BY <1>7, <1>8

\* A topology without some of its members.
Cut(t, X) == [sw |-> t.sw, mem |-> [m \in Pair |-> IF m \in X THEN None ELSE t.mem[m]]]

\* Whether a topology runs depends on its vSwitches and members.
LEMMA RunsEqual ==
  ASSUME NEW d, NEW t, NEW u, Runs(d, t), u.sw = t.sw, \A k \in Pair : u.mem[k] = t.mem[k]
  PROVE  Runs(d, u)
BY DEF Runs

\* What is left is a topology that fits the router.
LEMMA CutOK ==
  ASSUME NEW t, TopoOK(t), NEW X
  PROVE  /\ TopoOK(Cut(t, X)) /\ Part(Cut(t, X).mem, t) /\ Cut(t, X) \in TopoType
         /\ Cut(t, X).sw = t.sw
         /\ \A m \in Pair : Cut(t, X).mem[m] = IF m \in X THEN None ELSE t.mem[m]
         /\ \A R : RouterOK(t, R) => RouterOK(Cut(t, X), R)
<1> DEFINE u == Cut(t, X)
<1>1. t \in TopoType /\ t.mem \in MemType /\ t.sw \in SUBSET Vs /\ \A m \in Members(t.mem) : m[1] \in t.sw
  BY DEF TopoOK, TopoType
<1>2. u.sw = t.sw /\ \A m \in Pair : u.mem[m] = IF m \in X THEN None ELSE t.mem[m]
  BY DEF Cut
<1>3. u.mem \in MemType
  <2>1. \A m \in Pair : (IF m \in X THEN None ELSE t.mem[m]) \in PortSpec \union {None}
    BY <1>1 DEF MemType
  <2>2. QED
    BY <2>1 DEF Cut, MemType
<1>4. u \in TopoType
  <2>1. u = [sw |-> t.sw, mem |-> u.mem]
    BY DEF Cut
  <2> HIDE DEF u
  <2>2. QED
    BY <1>1, <1>3, <2>1 DEF TopoType
<1> HIDE DEF u
<1>5. Part(u.mem, t)
  BY <1>2, <1>3 DEF Part
<1>6. \A m \in Members(u.mem) : m \in Members(t.mem) /\ u.mem[m] = t.mem[m]
  BY <1>2 DEF Members
<1>7. TopoOK(u)
  BY <1>1, <1>2, <1>4, <1>5, <1>6, PartTopo
<1>8. ASSUME NEW R, RouterOK(t, R) PROVE RouterOK(u, R)
  BY <1>2, <1>6, <1>8 DEF RouterOK
<1>9. QED
  BY <1>2, <1>4, <1>5, <1>7, <1>8 DEF u

\* Outcomes of a call that cannot fail and leaves file, contexts and uplinks.
Settled(o, z) ==
  z \in Outcome /\ z.ok /\ z.left = 0 /\ z.t = o.t /\ z.d.ctx = o.d.ctx /\ z.d.uplink = o.d.uplink

\* Restoring and rolling back: a member of the topology is attached again.
LEMMA MemberReturns ==
  ASSUME "range" \notin L2Faults, NEW t, TopoOK(t), NEW call \in {"attach", "restore"},
         call = "attach" => RouterOK(t, rif), NEW X \in SUBSET Members(t.mem), NEW k \in X,
         NEW o \in Outcome, o.ok, o.left = 0, Runs(o.d, Cut(t, X)), NEW z \in Turn(call, o, k, t.mem)
  PROVE  Settled(o, z) /\ Runs(z.d, Cut(t, X \ {k}))
<1> DEFINE u == Cut(t, X)
           s == t.mem[k]
<1>1. /\ TopoOK(u) /\ Part(u.mem, t) /\ u \in TopoType /\ u.sw = t.sw /\ (call = "attach" => RouterOK(u, rif))
      /\ \A m \in Pair : u.mem[m] = IF m \in X THEN None ELSE t.mem[m]
  BY CutOK
<1>2. k \in Pair /\ k \in Members(t.mem) /\ k[1] \in t.sw /\ Fine(s) /\ k[1] \in Vs /\ k[2] \in Port
  BY DEF TopoOK, AllFine, Members, Pair
<1>3. s \in PortSpec /\ s # None /\ ValidRequest(s) /\ Normal(s) = s
  BY <1>2, Records
<1>4. Runs(o.d, u) /\ o.d \in LiveType
  BY OutcomeFields
<1> HIDE DEF u
<1>5. u.mem[k] = None /\ Admits(u.mem, k[1], k[2], s)
  BY <1>1, <1>2, PartAdmits
<1>6. About(o, z, k) /\ Done(o, z) /\ Runs(z.d, Plus(u, k, Normal(s)))
  <2>1. CASE call = "attach"
    <3>1. z \in attach_port(o, k, s)
      BY <2>1 DEF Turn
    <3>2. Attachable(u, k, s)
      <4>1. RouterOK(t, rif)
        BY <2>1
      <4>2. ASSUME NEW r \in Rif, rif[r] # "none", RifAt[r] = k[2] PROVE FALSE
        <5>1. RifAt[r] \notin Vs
          BY <1>2, <4>2, L2Assumption
        <5>2. QED
          BY <1>2, <4>1, <4>2, <5>1 DEF RouterOK
      <4>3. ASSUME NEW r \in Rif, rif[r] # "none", RifAt[r] = k[1] PROVE ~ Tagged(s)
        BY <1>2, <4>1, <4>3 DEF RouterOK
      <4>4. QED
        BY <1>1, <1>2, <1>3, <1>5, <4>2, <4>3 DEF Attachable, ReservedPort, ReservedSwitch
    <3>3. RouterOK(u, rif)
      BY <1>1, <2>1
    <3> HIDE DEF s
    <3>4. /\ About(o, z, k)
          /\ \/ Done(o, z) /\ Runs(z.d, Plus(u, k, Normal(s)))
             \/ o.left = 1 \/ ~ Attachable(u, k, s)
      BY <1>1, <1>2, <1>3, <1>4, <3>1, <3>3, AttachKeepsTopo
    <3>5. QED
      BY <3>2, <3>4
  <2>2. CASE call = "restore"
    <3>1. z \in RestoredMember(o, k, s)
      BY <2>2 DEF Turn
    <3>2. o.d.mem = u.mem
      BY <1>1, <1>4, RunsMem
    <3>3. z \in AttachedIn(o, k, s)
      BY <1>3, <1>5, <3>1, <3>2 DEF RestoredMember
    <3> HIDE DEF s
    <3>4. /\ About(o, z, k)
          /\ \/ Done(o, z) /\ Runs(z.d, Plus(u, k, Normal(s)))
             \/ o.left = 1
      BY <1>1, <1>2, <1>3, <1>4, <1>5, <3>3, AttachedToTopo
    <3>5. QED
      BY <3>4
  <2>3. QED
    BY <2>1, <2>2
<1>7. Settled(o, z)
  BY <1>6 DEF Settled, About, Done, Elsewhere
<1>8. Runs(z.d, Cut(t, X \ {k}))
  <2> DEFINE p == Plus(u, k, s)
             c == Cut(t, X \ {k})
  <2>1. p.sw = t.sw /\ p.mem[k] = s /\ \A m \in Pair \ {k} : p.mem[m] = u.mem[m]
    BY <1>1, <1>2, <1>3, PlusFields
  <2>2. c.sw = t.sw /\ \A m \in Pair : c.mem[m] = IF m \in X \ {k} THEN None ELSE t.mem[m]
    BY CutOK
  <2>3. Runs(z.d, p)
    BY <1>3, <1>6
  <2> HIDE DEF p, c
  <2>4. \A m \in Pair : c.mem[m] = p.mem[m]
    BY <1>1, <1>2, <2>1, <2>2
  <2>5. Runs(z.d, c)
    BY <2>1, <2>2, <2>3, <2>4, RunsEqual
  <2>6. QED
    BY <2>5 DEF c
<1>9. QED
  BY <1>7, <1>8

\* There are finitely many members.
LEMMA MembersFinite == ASSUME NEW M, NEW S \in SUBSET Members(M) PROVE IsFiniteSet(S)
<1>1. IsFiniteSet(Pair)
  BY L2Assumption, FS_Product DEF Pair
<1>2. S \in SUBSET Pair
  BY DEF Members
<1>3. QED
  BY <1>1, <1>2, FS_Subset

\* All of them are: the loop of a restart or a rollback ends with the topology
\* running.
LEMMA MembersReturn ==
  ASSUME "range" \notin L2Faults, NEW t, TopoOK(t), NEW call \in {"attach", "restore"},
         call = "attach" => RouterOK(t, rif), NEW S \in SUBSET Members(t.mem),
         NEW o \in Outcome, o.ok, o.left = 0, Runs(o.d, Cut(t, S)), NEW z \in ForEach(S, o, call, t.mem)
  PROVE  Settled(o, z) /\ Runs(z.d, t)
<1> DEFINE Good(X, y) == Settled(o, y) /\ Runs(y.d, Cut(t, X))
           J == [X \in SUBSET S |-> {y \in Outcome : Good(X, y)}]
<1>1. IsFiniteSet(S)
  BY MembersFinite
<1>2. o \in J[S]
  BY DEF Settled
<1>3. ASSUME NEW X \in SUBSET S, NEW k \in X, NEW y \in J[X]
      PROVE  IF y.ok THEN Turn(call, y, k, t.mem) \subseteq J[X \ {k}] ELSE y \in J[X \ {k}]
  <2>1. y \in Outcome /\ Settled(o, y) /\ Runs(y.d, Cut(t, X))
    OBVIOUS
  <2>2. y.ok /\ y.left = 0
    BY <2>1 DEF Settled
  <2>3. ASSUME NEW w \in Turn(call, y, k, t.mem) PROVE w \in J[X \ {k}]
    <3>1. X \in SUBSET Members(t.mem) /\ k \in X
      OBVIOUS
    <3>2. Settled(y, w) /\ Runs(w.d, Cut(t, X \ {k}))
      BY <2>1, <2>2, <3>1, MemberReturns
    <3>3. Settled(o, w) /\ w \in Outcome
      BY <2>1, <3>2 DEF Settled
    <3>4. Good(X \ {k}, w)
      BY <3>2, <3>3
    <3>5. QED
      BY <3>3, <3>4
  <2>4. QED
    BY <2>2, <2>3
<1>4. ForEach(S, o, call, t.mem) \subseteq J[{}]
  <2> HIDE DEF J
  <2>1. QED
    BY ONLY <1>1, <1>2, <1>3, ForEachLeft
<1>5. Settled(o, z) /\ Runs(z.d, Cut(t, {}))
  <2>1. z \in J[{}] /\ {} \in SUBSET S
    BY <1>4
  <2>2. QED
    BY <2>1
<1>6. Runs(z.d, t)
  <2>1. Cut(t, {}).sw = t.sw /\ \A m \in Pair : Cut(t, {}).mem[m] = t.mem[m]
    BY CutOK
  <2>2. QED
    BY <1>5, <2>1, RunsEqual
<1>7. QED
  BY <1>5, <1>6

-----------------------------------------------------------------------------
(***************************************************************************)
(* delete_vswitch.  Its loops are about the members of one vSwitch.        *)
(***************************************************************************)
Beside(d, e, K) ==
  /\ e \in LiveType /\ e.sw = d.sw /\ e.ctx = d.ctx /\ e.uplink = d.uplink
  /\ \A m \in Pair \ K : SameAt(d, e, m)

\* A call about one of the pairs, after calls about them.
LEMMA BesideElsewhere ==
  ASSUME NEW d, NEW e, NEW f, NEW K, NEW k \in K, Beside(d, e, K), Elsewhere(e, f, k)
  PROVE  Beside(d, f, K)
BY DEF Beside, Elsewhere, SameAt

\* A topology in which the members of a set were cut runs when they are absent.
LEMMA RunsCut ==
  ASSUME NEW d, NEW e, NEW t, TopoOK(t), NEW K, Runs(d, t), Beside(d, e, K),
         \A m \in Pair : m \in K => Absent(e, m)
  PROVE  Runs(e, Cut(t, K))
<1> DEFINE u == Cut(t, K)
<1>1. u.sw = t.sw /\ \A m \in Pair : u.mem[m] = IF m \in K THEN None ELSE t.mem[m]
  BY CutOK
<1> HIDE DEF u
<1>2. e.sw = u.sw
  BY <1>1 DEF Runs, Beside
<1>3. ASSUME NEW m \in Pair PROVE IF u.mem[m] = None THEN Absent(e, m) ELSE Present(e, m, u.mem[m])
  BY <1>1 DEF Runs, Beside, SameAt, Absent, Present
<1>4. Runs(e, u)
  BY <1>2, <1>3 DEF Runs
<1>5. QED
  BY <1>4 DEF u

\* What the first loop keeps: X are the members that are still to be closed.
Closing(y, w, t, K, X) ==
  /\ w.t = y.t /\ Beside(y.d, w.d, K) /\ w.d.mem = y.d.mem /\ w.d.flood = y.d.flood
  /\ IF w.ok THEN /\ w.left = y.left
                  /\ \A m \in K : w.d.rec[m] = IF m \in X THEN Installed(t.mem[m]) ELSE Quiet(t.mem[m])
             ELSE w.left = 0 /\ y.left = 1

\* Its turn.
LEMMA MemberCloses ==
  ASSUME "range" \notin L2Faults, NEW y \in Outcome, NEW t, TopoOK(t), NEW K \in SUBSET Members(t.mem),
         NEW X \in SUBSET K, NEW k \in X, NEW w \in Outcome, w.ok, Closing(y, w, t, K, X), NEW M,
         NEW z \in Turn("close", w, k, M)
  PROVE  z \in Outcome /\ Closing(y, z, t, K, X \ {k})
<1> DEFINE s == t.mem[k]
<1>1. k \in K /\ k \in Pair /\ Fine(s)
  BY DEF TopoOK, AllFine, Members
<1>2. w.d.rec[k] = Installed(s) /\ w.d.rec[k] # None /\ w.d.rec[k].spec = s
  BY <1>1, Records DEF Closing
<1>3. z \in eswitch_pipeline_detach_vswitch_port(w, k)
  BY DEF Turn
<1>4. \/ Lost(w, z) /\ w.left = 1
      \/ /\ About(w, z, k) /\ Done(w, z) /\ z.d.rec[k] = Quiet(w.d.rec[k].spec)
         /\ SameMem(w.d, z.d, k) /\ SameGroup(w.d, z.d, k)
         /\ z.d.mem = w.d.mem /\ z.d.flood = w.d.flood
  BY <1>1, <1>2, <1>3, PipelineDetaches
<1> HIDE DEF s
<1>5. CASE Lost(w, z) /\ w.left = 1
  <2>1. z \in Outcome /\ z.d = w.d /\ z.t = w.t /\ ~ z.ok /\ z.left = 0
    BY <1>5 DEF Lost
  <2>2. w.left = y.left
    BY DEF Closing
  <2>3. z.t = y.t /\ Beside(y.d, z.d, K) /\ z.d.mem = y.d.mem /\ z.d.flood = y.d.flood
    BY <2>1 DEF Closing
  <2>4. QED
    BY <1>5, <2>1, <2>2, <2>3 DEF Closing
<1>6. CASE /\ About(w, z, k) /\ Done(w, z) /\ z.d.rec[k] = Quiet(w.d.rec[k].spec)
           /\ z.d.mem = w.d.mem /\ z.d.flood = w.d.flood
  <2>1. z \in Outcome /\ z.t = w.t /\ Elsewhere(w.d, z.d, k) /\ z.ok /\ z.left = w.left
    BY <1>6 DEF About, Done
  <2>2. w.t = y.t /\ Beside(y.d, w.d, K) /\ w.d.mem = y.d.mem /\ w.d.flood = y.d.flood /\ w.left = y.left
    BY DEF Closing
  <2>3. Beside(y.d, z.d, K)
    BY <1>1, <2>1, <2>2, BesideElsewhere
  <2>4. ASSUME NEW m \in K
        PROVE  z.d.rec[m] = IF m \in X \ {k} THEN Installed(t.mem[m]) ELSE Quiet(t.mem[m])
    <3>1. CASE m = k
      BY <1>2, <1>6, <3>1 DEF s
    <3>2. CASE m # k
      <4>1. m \in Pair \ {k}
        BY <3>2 DEF Members
      <4>2. z.d.rec[m] = w.d.rec[m]
        BY <2>1, <4>1 DEF Elsewhere, SameAt
      <4>3. w.d.rec[m] = IF m \in X THEN Installed(t.mem[m]) ELSE Quiet(t.mem[m])
        BY DEF Closing
      <4>4. QED
        BY <3>2, <4>2, <4>3
    <3>3. QED
      BY <3>1, <3>2
  <2>5. QED
    BY <1>6, <2>1, <2>2, <2>3, <2>4 DEF Closing
<1>7. QED
  BY <1>4, <1>5, <1>6

\* The first loop of delete_vswitch: ingress is closed for every member, or one
\* call has failed.
LEMMA MembersClose ==
  ASSUME "range" \notin L2Faults, NEW y \in Outcome, y.ok, NEW t, TopoOK(t), Runs(y.d, t),
         NEW K \in SUBSET Members(t.mem), NEW M, NEW z \in ForEach(K, y, "close", M)
  PROVE  z \in Outcome /\ Closing(y, z, t, K, {})
<1> DEFINE J == [X \in SUBSET K |-> {w \in Outcome : Closing(y, w, t, K, X)}]
<1>1. IsFiniteSet(K)
  BY MembersFinite
<1>2. y \in J[K]
  <2>1. \A m \in K : m \in Pair /\ t.mem[m] # None
    BY DEF Members
  <2>2. \A m \in K : y.d.rec[m] = Installed(t.mem[m])
    BY <2>1 DEF Runs, Present
  <2>3. Beside(y.d, y.d, K)
    BY OutcomeFields DEF Beside, SameAt
  <2>4. Closing(y, y, t, K, K)
    BY <2>2, <2>3 DEF Closing
  <2>5. QED
    BY <2>4
<1>3. ASSUME NEW X \in SUBSET K, NEW k \in X, NEW w \in J[X]
      PROVE  IF w.ok THEN Turn("close", w, k, M) \subseteq J[X \ {k}] ELSE w \in J[X \ {k}]
  <2>1. w \in Outcome /\ Closing(y, w, t, K, X)
    OBVIOUS
  <2>2. CASE w.ok
    <3>1. ASSUME NEW x \in Turn("close", w, k, M) PROVE x \in Outcome /\ Closing(y, x, t, K, X \ {k})
      BY <2>1, <2>2, MemberCloses
    <3>2. X \ {k} \in SUBSET K
      OBVIOUS
    <3>3. QED
      BY <2>2, <3>1, <3>2
  <2>3. CASE ~ w.ok
    <3>1. Closing(y, w, t, K, X \ {k})
      BY <2>1, <2>3 DEF Closing
    <3>2. QED
      BY <2>1, <2>3, <3>1
  <2>4. QED
    BY <2>2, <2>3
<1>4. ForEach(K, y, "close", M) \subseteq J[{}]
  <2> HIDE DEF J
  <2>1. QED
    BY ONLY <1>1, <1>2, <1>3, ForEachLeft
<1>5. QED
  <2>1. z \in J[{}]
    BY <1>4
  <2>2. QED
    BY <2>1

\* A closed member that no flood group holds is released.
LEMMA MemberReleased ==
  ASSUME NEW o \in Outcome, o.ok, NEW k \in Pair, NEW s, Fine(s), o.d.rec[k] = Quiet(s),
         ~ InGroup(o.d, k), NEW z \in ReleasedMember(o, k)
  PROVE  About(o, z, k) /\ Done(o, z) /\ Absent(z.d, k)
<1> DEFINE L == eswitch_pipeline_release_vswitch_port(o, k)
           E(y) == [y.d EXCEPT !.mem[k] = None]
<1>1. PICK y \in L : IF y.ok THEN z \in Ok(y, E(y)) ELSE z = y
  BY DEF ReleasedMember, AndThen
<1>2. /\ About(o, y, k) /\ Done(o, y) /\ y.d.rec[k] = None /\ SameGroup(o.d, y.d, k)
  BY Records, PipelineReleases
<1>3. y \in Outcome /\ y.ok /\ y.d \in LiveType /\ ~ InGroup(y.d, k)
  BY <1>2, OutcomeFields DEF About, Done, SameGroup
<1>4. /\ Elsewhere(y.d, E(y), k) /\ E(y).mem[k] = None /\ E(y).rec[k] = y.d.rec[k]
      /\ InGroup(E(y), k) <=> InGroup(y.d, k)
  BY <1>3, SetMem
<1>5. z \in Ok(y, E(y))
  BY <1>1, <1>3
<1> HIDE DEF E
<1>6. E(y) \in LiveType
  BY <1>4 DEF Elsewhere
<1>7. z \in Outcome /\ z.d = E(y) /\ z.t = y.t /\ z.ok = y.ok /\ z.left = y.left
  BY ONLY <1>3, <1>5, <1>6, OkCall
<1>8. About(y, z, k)
  BY <1>4, <1>7 DEF About
<1>9. About(o, z, k)
  BY ONLY <1>2, <1>8, AboutTrans, Zenon
<1>10. QED
  BY <1>2, <1>3, <1>4, <1>7, <1>9 DEF Done, Absent

\* What the second loop keeps: X are the members that are still to be released.
Releasing(y, w, t, K, X) ==
  /\ w.t = y.t /\ Beside(y.d, w.d, K) /\ w.ok /\ w.left = y.left
  /\ \A m \in K : IF m \in X THEN w.d.rec[m] = Quiet(t.mem[m]) /\ ~ InGroup(w.d, m)
                  ELSE Absent(w.d, m)

\* Its turn.
LEMMA MemberReleases ==
  ASSUME NEW y \in Outcome, NEW t, TopoOK(t), NEW K \in SUBSET Members(t.mem),
         NEW X \in SUBSET K, NEW k \in X, NEW w \in Outcome, Releasing(y, w, t, K, X), NEW M,
         NEW z \in Turn("release", w, k, M)
  PROVE  z \in Outcome /\ Releasing(y, z, t, K, X \ {k})
<1> DEFINE s == t.mem[k]
<1>1. k \in K /\ k \in Pair /\ Fine(s)
  BY DEF TopoOK, AllFine, Members
<1>2. w.ok /\ w.d.rec[k] = Quiet(s) /\ ~ InGroup(w.d, k)
  BY <1>1 DEF Releasing
<1>3. z \in ReleasedMember(w, k)
  BY DEF Turn
<1> HIDE DEF s
<1>4. About(w, z, k) /\ Done(w, z) /\ Absent(z.d, k)
  BY <1>1, <1>2, <1>3, MemberReleased
<1>5. z \in Outcome /\ z.t = w.t /\ Elsewhere(w.d, z.d, k) /\ z.ok /\ z.left = w.left
  BY <1>4 DEF About, Done
<1>6. w.t = y.t /\ Beside(y.d, w.d, K) /\ w.left = y.left
  BY DEF Releasing
<1>7. Beside(y.d, z.d, K)
  BY <1>1, <1>5, <1>6, BesideElsewhere
<1>8. ASSUME NEW m \in K
      PROVE  IF m \in X \ {k} THEN z.d.rec[m] = Quiet(t.mem[m]) /\ ~ InGroup(z.d, m)
             ELSE Absent(z.d, m)
  <2>1. CASE m = k
    BY <1>4, <2>1
  <2>2. CASE m # k
    <3>1. m \in Pair \ {k}
      BY <2>2 DEF Members
    <3>2. SameAt(w.d, z.d, m)
      BY <1>5, <3>1 DEF Elsewhere
    <3>3. IF m \in X THEN w.d.rec[m] = Quiet(t.mem[m]) /\ ~ InGroup(w.d, m) ELSE Absent(w.d, m)
      BY DEF Releasing
    <3>4. QED
      BY <2>2, <3>2, <3>3 DEF SameAt, Absent
  <2>3. QED
    BY <2>1, <2>2
<1>9. QED
  BY <1>5, <1>6, <1>7, <1>8 DEF Releasing

\* The second loop of delete_vswitch: nothing in it fails.
LEMMA MembersRelease ==
  ASSUME NEW y \in Outcome, y.ok, NEW t, TopoOK(t), NEW K \in SUBSET Members(t.mem),
         \A m \in K : y.d.rec[m] = Quiet(t.mem[m]) /\ ~ InGroup(y.d, m), NEW M,
         NEW z \in ForEach(K, y, "release", M)
  PROVE  z \in Outcome /\ Releasing(y, z, t, K, {})
<1> DEFINE J == [X \in SUBSET K |-> {w \in Outcome : Releasing(y, w, t, K, X)}]
<1>1. IsFiniteSet(K)
  BY MembersFinite
<1>2. y \in J[K]
  <2>1. Beside(y.d, y.d, K)
    BY OutcomeFields DEF Beside, SameAt
  <2>2. Releasing(y, y, t, K, K)
    BY <2>1 DEF Releasing
  <2>3. QED
    BY <2>2
<1>3. ASSUME NEW X \in SUBSET K, NEW k \in X, NEW w \in J[X]
      PROVE  IF w.ok THEN Turn("release", w, k, M) \subseteq J[X \ {k}] ELSE w \in J[X \ {k}]
  <2>1. w \in Outcome /\ Releasing(y, w, t, K, X)
    OBVIOUS
  <2>2. w.ok
    BY <2>1 DEF Releasing
  <2>3. ASSUME NEW x \in Turn("release", w, k, M)
        PROVE  x \in Outcome /\ Releasing(y, x, t, K, X \ {k})
    BY <2>1, MemberReleases
  <2>4. X \ {k} \in SUBSET K
    OBVIOUS
  <2>5. QED
    BY <2>2, <2>3, <2>4
<1>4. ForEach(K, y, "release", M) \subseteq J[{}]
  <2> HIDE DEF J
  <2>1. QED
    BY ONLY <1>1, <1>2, <1>3, ForEachLeft
<1>5. QED
  <2>1. z \in J[{}]
    BY <1>4
  <2>2. QED
    BY <2>1

\* eswitch_pipeline_destroy_flood_group.
LEMMA GroupDestroyed ==
  ASSUME "delete" \notin L2Faults, NEW o \in Outcome, o.ok, NEW v \in Vs,
         NEW z \in eswitch_pipeline_destroy_flood_group(o, v)
  PROVE  /\ z \in Outcome /\ z.t = o.t /\ Done(o, z) /\ z.d.sw = o.d.sw /\ z.d.ctx = o.d.ctx
         /\ z.d.uplink = o.d.uplink /\ z.d.mem = o.d.mem /\ z.d.rec = o.d.rec
         /\ \A m \in Pair : InGroup(z.d, m) <=> m[1] # v /\ InGroup(o.d, m)
<1> DEFINE f == [o.d.flood EXCEPT ![v] = None]
           e == [o.d EXCEPT !.flood = f]
<1>1. o.d \in LiveType /\ o.d.flood \in [Vs -> (SUBSET Port) \union {None}]
  BY OutcomeFields, LiveFields
<1>2. f \in [Vs -> (SUBSET Port) \union {None}] /\ f[v] = None /\ \A w \in Vs \ {v} : f[w] = o.d.flood[w]
  BY <1>1
<1>3. Fault(o, "delete", o.d) = {}
  BY DEF Fault
<1>4. [o.d EXCEPT !.flood[v] = None] = e
  BY <1>1 DEF LiveType
<1>5. z \in Ok(o, e)
  BY <1>3, <1>4 DEF eswitch_pipeline_destroy_flood_group
<1> HIDE DEF f
<1>6. /\ e \in LiveType /\ e.flood = f /\ e.sw = o.d.sw /\ e.mem = o.d.mem /\ e.rec = o.d.rec
      /\ e.ctx = o.d.ctx /\ e.uplink = o.d.uplink
  BY <1>1, <1>2, ReplaceFlood
<1> HIDE DEF e
<1>7. z \in Outcome /\ z.d = e /\ z.t = o.t /\ z.ok = o.ok /\ z.left = o.left
  BY ONLY o \in Outcome, <1>5, <1>6, OkCall
<1>8. ASSUME NEW m \in Pair PROVE InGroup(e, m) <=> m[1] # v /\ InGroup(o.d, m)
  <2>1. m[1] \in Vs
    BY DEF Pair
  <2>2. QED
    BY <1>2, <1>6, <2>1 DEF InGroup
<1>9. QED
  BY <1>6, <1>7, <1>8 DEF Done

\* The members of a vSwitch, and a topology without it.
MembersOf(t, v) == {k \in Members(t.mem) : k[1] = v}
Gone(t, v) == [sw |-> t.sw \ {v}, mem |-> Cut(t, MembersOf(t, v)).mem]

\* It is a topology, and fits a router that does not use the vSwitch.
LEMMA GoneOK ==
  ASSUME NEW t, TopoOK(t), NEW v \in Vs
  PROVE  /\ TopoOK(Gone(t, v)) /\ Gone(t, v) \in TopoType /\ Gone(t, v).sw = t.sw \ {v}
         /\ Gone(t, v).mem = Cut(t, MembersOf(t, v)).mem
         /\ \A m \in Pair : Gone(t, v).mem[m] = IF m \in MembersOf(t, v) THEN None ELSE t.mem[m]
         /\ \A R : RouterOK(t, R) /\ (\A r \in Rif : R[r] # "none" => RifAt[r] # v)
                     => RouterOK(Gone(t, v), R)
<1> DEFINE K == MembersOf(t, v)
           c == Cut(t, K)
           g == Gone(t, v)
<1>1. /\ c \in TopoType /\ c.sw = t.sw /\ Part(c.mem, t)
      /\ \A m \in Pair : c.mem[m] = IF m \in K THEN None ELSE t.mem[m]
  BY CutOK
<1>2. t \in TopoType /\ t.sw \in SUBSET Vs /\ \A m \in Members(t.mem) : m[1] \in t.sw
  BY DEF TopoOK, TopoType
<1>3. g = [sw |-> t.sw \ {v}, mem |-> c.mem]
  BY DEF Gone
<1> HIDE DEF g, c
<1>4. g \in TopoType /\ g.sw = t.sw \ {v} /\ g.mem = c.mem
  BY <1>1, <1>2, <1>3 DEF TopoType
<1>5. \A m \in Members(g.mem) : m \in Members(t.mem) /\ m \notin K /\ g.mem[m] = t.mem[m]
  BY <1>1, <1>4 DEF Members
<1>6. \A m \in Members(g.mem) : m[1] \in g.sw
  BY <1>2, <1>4, <1>5 DEF MembersOf
<1>7. TopoOK(g)
  BY <1>1, <1>4, <1>6, PartTopo
<1>8. ASSUME NEW R, RouterOK(t, R), \A r \in Rif : R[r] # "none" => RifAt[r] # v
      PROVE  RouterOK(g, R)
  BY <1>4, <1>5, <1>8 DEF RouterOK
<1>9. QED
  BY <1>1, <1>4, <1>7, <1>8 DEF g, c, K

\* What the first half of delete_vswitch leaves when it succeeds.
Closed(o, z, t, v) ==
  /\ Done(o, z) /\ z.d.ctx = o.d.ctx \ {x \in o.d.ctx : x[2] = v}
  /\ \A m \in Pair \ MembersOf(t, v) : SameAt(o.d, z.d, m)
  /\ \A m \in MembersOf(t, v) : z.d.rec[m] = Quiet(t.mem[m])

\* ClosedSwitch: the contexts are unbound, the FDB is flushed and ingress is
\* closed, or the topology runs as before.
LEMMA SwitchCloses ==
  ASSUME "range" \notin L2Faults, "delete" \notin L2Faults, NEW o \in Outcome, o.ok,
         NEW t, TopoOK(t), Runs(o.d, t), NEW v \in Vs, NEW z \in ClosedSwitch(o, v, MembersOf(t, v))
  PROVE  /\ z \in Outcome /\ z.t = o.t /\ z.d.sw = o.d.sw /\ z.d.uplink = o.d.uplink
         /\ z.d.ctx \subseteq o.d.ctx
         /\ \/ Closed(o, z, t, v)
            \/ ~ z.ok /\ z.left = 0 /\ o.left = 1 /\ Runs(z.d, t)
<1> DEFINE K == MembersOf(t, v)
           C == {x \in o.d.ctx : x[2] = v}
           S == AndThen(eswitch_pipeline_sf_unbind_vswitch(o, v), Flushed)
           L(y) == {w \in ForEach(K, y, "close", o.d.mem) :
                      w.ok \/ w.d.rec = o.d.rec \/ "delete" \in L2Faults}
<1>1. PICK y \in S : IF y.ok THEN z \in L(y) ELSE z = y
  BY DEF ClosedSwitch, AndThen, S
<1>2. PICK x \in eswitch_pipeline_sf_unbind_vswitch(o, v) : IF x.ok THEN y \in Flushed(x) ELSE y = x
  BY DEF AndThen
<1>3. /\ x \in Outcome /\ x.t = o.t /\ SamePairs(o.d, x.d) /\ x.d.ctx \subseteq o.d.ctx
      /\ \/ Done(o, x) /\ x.d.ctx = o.d.ctx \ C
         \/ ~ x.ok /\ x.left = 0 /\ o.left = 1
  BY WithoutKeeps DEF eswitch_pipeline_sf_unbind_vswitch
<1> HIDE DEF S, C
<1>4. /\ y \in Outcome /\ y.t = o.t /\ y.d = x.d
      /\ \/ Done(o, y) /\ x.ok /\ x.d.ctx = o.d.ctx \ C
         \/ ~ y.ok /\ y.left = 0 /\ o.left = 1
  <2>1. CASE ~ x.ok
    BY <1>2, <1>3, <2>1 DEF Done
  <2>2. CASE x.ok
    <3>1. x.left = o.left /\ x.d.ctx = o.d.ctx \ C
      BY <1>3, <2>2 DEF Done
    <3>2. y = x \/ y \in Fault(x, "fdb", x.d)
      BY <1>2, <2>2 DEF Flushed
    <3>3. CASE y = x
      BY <1>3, <2>2, <3>1, <3>3 DEF Done
    <3>4. CASE y \in Fault(x, "fdb", x.d)
      <4>1. Lost(x, y) /\ x.left = 1
        BY <1>3, <3>4, FaultLost
      <4>2. QED
        BY <1>3, <3>1, <4>1 DEF Lost
    <3>5. QED
      BY <3>2, <3>3, <3>4
  <2>3. QED
    BY <2>1, <2>2
<1>5. SamePairs(o.d, y.d) /\ Runs(y.d, t) /\ y.d.sw = o.d.sw /\ y.d.uplink = o.d.uplink
  <2>1. SamePairs(o.d, y.d)
    BY <1>3, <1>4
  <2>2. QED
    BY <2>1, RunsSame DEF SamePairs
<1>6. CASE ~ y.ok
  <2>1. z = y /\ y.left = 0 /\ o.left = 1
    BY <1>1, <1>4, <1>6 DEF Done
  <2>2. QED
    BY <1>3, <1>4, <1>5, <1>6, <2>1
<1>7. CASE y.ok
  <2>1. z \in ForEach(K, y, "close", o.d.mem) /\ (z.ok \/ z.d.rec = o.d.rec)
    BY <1>1, <1>7
  <2>2. K \in SUBSET Members(t.mem)
    BY DEF MembersOf
  <2> HIDE DEF K
  <2>3. z \in Outcome /\ Closing(y, z, t, K, {})
    BY <1>4, <1>5, <1>7, <2>1, <2>2, MembersClose
  <2>4. z.t = y.t /\ Beside(y.d, z.d, K) /\ z.d.mem = y.d.mem /\ z.d.flood = y.d.flood
    BY <2>3 DEF Closing
  <2>5. Done(o, y) /\ y.d.ctx = o.d.ctx \ C
    BY <1>4, <1>7
  <2>6. z.d.sw = o.d.sw /\ z.d.uplink = o.d.uplink /\ z.d.ctx = o.d.ctx \ C
    BY <1>5, <2>4, <2>5 DEF Beside
  <2>7. CASE z.ok
    <3>1. z.left = y.left /\ \A m \in K : z.d.rec[m] = Quiet(t.mem[m])
      BY <2>3, <2>7 DEF Closing
    <3>2. Done(o, z)
      BY <2>5, <2>7, <3>1 DEF Done
    <3>3. \A m \in Pair \ K : SameAt(o.d, z.d, m)
      BY <1>5, <2>4 DEF SamePairs, Beside, SameAt
    <3>4. Closed(o, z, t, v)
      BY <2>6, <3>1, <3>2, <3>3 DEF Closed, K, C
    <3>5. QED
      BY <1>4, <2>3, <2>4, <2>6, <3>4
  <2>8. CASE ~ z.ok
    <3>1. z.left = 0 /\ y.left = 1 /\ y.left = o.left
      BY <2>3, <2>5, <2>8 DEF Closing, Done
    <3>2. ASSUME NEW m \in Pair PROVE SameAt(y.d, z.d, m)
      <4>1. z.d.rec[m] = y.d.rec[m]
        BY <1>5, <2>1, <2>8 DEF SamePairs, SameAt
      <4>2. QED
        BY <2>4, <4>1 DEF SameAt, InGroup
    <3>3. SamePairs(y.d, z.d)
      BY <2>4, <3>2 DEF SamePairs, Beside
    <3>4. Runs(z.d, t)
      BY <1>5, <3>3, RunsSame
    <3>5. QED
      BY <1>4, <2>3, <2>4, <2>6, <2>8, <3>1, <3>4
  <2>9. QED
    BY <2>7, <2>8
<1>8. QED
  BY <1>6, <1>7

\* delete_vswitch: the vSwitch is gone with its members and contexts, or the
\* topology runs as before.
LEMMA DeletedOrKept ==
  ASSUME "range" \notin L2Faults, "delete" \notin L2Faults, NEW o \in Outcome, o.ok,
         NEW t, TopoOK(t), Runs(o.d, t), NEW v \in Vs, NEW z \in delete_vswitch(o, v)
  PROVE  /\ z \in Outcome /\ z.t = o.t /\ z.d.uplink = o.d.uplink /\ z.d.ctx \subseteq o.d.ctx
         /\ \/ /\ Done(o, z) /\ v \in t.sw /\ Runs(z.d, Gone(t, v))
               /\ \A x \in z.d.ctx : x[2] # v
            \/ /\ ~ z.ok /\ z.left = 0 /\ Runs(z.d, t)
               /\ o.left = 1 \/ v \notin t.sw
<1> DEFINE K == MembersOf(t, v)
           A == ClosedSwitch(o, v, K)
           D == AndThen(A, LAMBDA y : eswitch_pipeline_destroy_flood_group(y, v))
           F == AndThen(D, LAMBDA y : ForEach(K, y, "release", o.d.mem))
           E(y) == [y.d EXCEPT !.sw = @ \ {v}]
<1>1. o.d \in LiveType /\ o.d.sw = t.sw /\ o.d.mem = t.mem /\ K \in SUBSET Members(t.mem)
  BY OutcomeFields, RunsMem DEF MembersOf
<1>2. z \in IF v \notin o.d.sw THEN Error(o) ELSE AndThen(F, LAMBDA y : Ok(y, E(y)))
  BY <1>1 DEF delete_vswitch, MembersOf
<1>3. CASE v \notin t.sw
  <2>1. z \in Error(o)
    BY <1>1, <1>2, <1>3
  <2>2. z \in Outcome /\ z.d = o.d /\ z.t = o.t /\ ~ z.ok /\ z.left = 0
    BY <2>1, ErrorCall
  <2>3. QED
    BY <1>3, <2>2
<1>4. CASE v \in t.sw
  <2>1. PICK w \in F : IF w.ok THEN z \in Ok(w, E(w)) ELSE z = w
    BY <1>1, <1>2, <1>4 DEF AndThen, F
  <2>2. PICK y \in D : IF y.ok THEN w \in ForEach(K, y, "release", o.d.mem) ELSE w = y
    BY DEF AndThen, D
  <2>3. PICK x \in A : IF x.ok THEN y \in eswitch_pipeline_destroy_flood_group(x, v) ELSE y = x
    BY DEF AndThen, A
  <2>4. /\ x \in Outcome /\ x.t = o.t /\ x.d.sw = o.d.sw /\ x.d.uplink = o.d.uplink
        /\ x.d.ctx \subseteq o.d.ctx
        /\ \/ Closed(o, x, t, v)
           \/ ~ x.ok /\ x.left = 0 /\ o.left = 1 /\ Runs(x.d, t)
    BY <2>3, SwitchCloses
  <2> HIDE DEF K, A, D, F
  <2>5. CASE ~ x.ok
    <3>1. z = x
      BY <2>1, <2>2, <2>3, <2>5
    <3>2. QED
      BY <2>4, <2>5, <3>1 DEF Closed, Done
  <2>6. CASE x.ok
    <3>1. Closed(o, x, t, v) /\ x.left = o.left
      BY <2>4, <2>6 DEF Closed, Done
    <3>2. y \in eswitch_pipeline_destroy_flood_group(x, v)
      BY <2>3, <2>6
    <3>3. /\ y \in Outcome /\ y.t = x.t /\ Done(x, y) /\ y.d.sw = x.d.sw /\ y.d.ctx = x.d.ctx
          /\ y.d.uplink = x.d.uplink /\ y.d.mem = x.d.mem /\ y.d.rec = x.d.rec
          /\ \A m \in Pair : InGroup(y.d, m) <=> m[1] # v /\ InGroup(x.d, m)
      BY <2>4, <2>6, <3>2, GroupDestroyed
    <3>4. y.ok /\ y.left = x.left /\ w \in ForEach(K, y, "release", o.d.mem)
      BY <2>2, <3>3 DEF Done
    <3>5. \A m \in K : y.d.rec[m] = Quiet(t.mem[m]) /\ ~ InGroup(y.d, m)
      <4>1. \A m \in K : m \in Pair /\ m[1] = v
        BY DEF K, MembersOf, Members
      <4>2. QED
        BY <3>1, <3>3, <4>1 DEF Closed, K
    <3>6. w \in Outcome /\ Releasing(y, w, t, K, {})
      BY <1>1, <3>3, <3>4, <3>5, MembersRelease
    <3>7. w.t = y.t /\ Beside(y.d, w.d, K) /\ w.ok /\ w.left = y.left /\ \A m \in K : Absent(w.d, m)
      BY <3>6 DEF Releasing
    <3>8. w.d \in LiveType /\ w.d.sw = o.d.sw /\ w.d.uplink = o.d.uplink /\ w.d.ctx = x.d.ctx
      BY <2>4, <3>3, <3>7 DEF Beside
    <3>9. E(w) \in LiveType /\ E(w).sw = t.sw \ {v} /\ E(w).mem = w.d.mem /\ E(w).rec = w.d.rec
          /\ E(w).flood = w.d.flood /\ E(w).ctx = w.d.ctx /\ E(w).uplink = w.d.uplink
      <4>1. t.sw \ {v} \in SUBSET Vs /\ E(w) = [w.d EXCEPT !.sw = t.sw \ {v}]
        BY <1>1, <3>8, LiveFields
      <4> DEFINE N == t.sw \ {v}
      <4> HIDE DEF N, E
      <4>2. E(w) = [w.d EXCEPT !.sw = N] /\ N \in SUBSET Vs
        BY <4>1 DEF N
      <4>3. E(w) \in LiveType /\ E(w).sw = N /\ E(w).mem = w.d.mem /\ E(w).rec = w.d.rec
            /\ E(w).flood = w.d.flood /\ E(w).ctx = w.d.ctx /\ E(w).uplink = w.d.uplink
        BY <3>8, <4>2, ReplaceSw
      <4>4. QED
        BY <4>3 DEF N
    <3>10. z \in Ok(w, E(w))
      BY <2>1, <3>7
    <3> HIDE DEF E
    <3>11. z \in Outcome /\ z.d = E(w) /\ z.t = w.t /\ z.ok = w.ok /\ z.left = w.left
      BY ONLY <3>6, <3>9, <3>10, OkCall
    <3>12. ASSUME NEW m \in Pair PROVE IF Gone(t, v).mem[m] = None THEN Absent(z.d, m)
                                      ELSE Present(z.d, m, t.mem[m])
      <4>1. Gone(t, v).mem[m] = IF m \in K THEN None ELSE t.mem[m]
        BY GoneOK DEF K
      <4>2. /\ z.d.mem[m] = w.d.mem[m] /\ z.d.rec[m] = w.d.rec[m] /\ (InGroup(z.d, m) <=> InGroup(w.d, m))
        BY <3>9, <3>11 DEF InGroup
      <4>3. CASE m \in K
        BY <3>7, <4>1, <4>2, <4>3 DEF Absent
      <4>4. CASE m \notin K
        <5>1. SameAt(o.d, x.d, m)
          BY <3>1, <4>4 DEF Closed, K
        <5>2. SameAt(y.d, w.d, m)
          BY <3>7, <4>4 DEF Beside
        <5>3. m[1] = v => t.mem[m] = None
          BY <4>4 DEF K, MembersOf, Members
        <5>4. z.d.mem[m] = o.d.mem[m] /\ z.d.rec[m] = o.d.rec[m]
          BY <3>3, <4>2, <5>1, <5>2 DEF SameAt
        <5>5. InGroup(z.d, m) <=> m[1] # v /\ InGroup(o.d, m)
          BY <3>3, <4>2, <5>1, <5>2 DEF SameAt
        <5>6. IF t.mem[m] = None THEN Absent(o.d, m) ELSE Present(o.d, m, t.mem[m])
          BY DEF Runs
        <5>7. QED
          BY <4>1, <4>4, <5>3, <5>4, <5>5, <5>6 DEF Absent, Present
      <4>5. QED
        BY <4>3, <4>4
    <3>13. Runs(z.d, Gone(t, v))
      <4>1. z.d.sw = Gone(t, v).sw
        BY <3>9, <3>11, GoneOK, ZenonT(40)
      <4>2. \A m \in Pair : Gone(t, v).mem[m] # None => Gone(t, v).mem[m] = t.mem[m]
        BY GoneOK
      <4>3. QED
        BY <3>12, <4>1, <4>2 DEF Runs
    <3>14. \A c \in z.d.ctx : c[2] # v
      BY <3>1, <3>8, <3>9, <3>11 DEF Closed
    <3>15. Done(o, z)
      BY <3>1, <3>4, <3>7, <3>11 DEF Done
    <3>16. z.t = o.t /\ z.d.uplink = o.d.uplink /\ z.d.ctx \subseteq o.d.ctx
      BY <2>4, <3>3, <3>7, <3>8, <3>9, <3>11
    <3>17. QED
      BY <1>4, <3>11, <3>13, <3>14, <3>15, <3>16
  <2>7. QED
    BY <2>5, <2>6
<1>5. QED
  BY <1>3, <1>4

-----------------------------------------------------------------------------
(***************************************************************************)
(* The invariant.  Two files that fit each other, and a memory that runs   *)
(* the first with no more contexts and uplinks than the second asks for.   *)
(***************************************************************************)
UplinkPorts(R) == {RifAt[r] : r \in {s \in Rif : R[s] # "none"}} \intersect Port

FilesFit(t, R) == TopoOK(t) /\ RouterOK(t, R) /\ Cardinality(Wanted(t, R)) <= MaxContexts

Sound(d, t, R) ==
  /\ FilesFit(t, R)
  /\ d \in LiveType /\ Runs(d, t) /\ CtxFits(d.ctx, t.mem, R) /\ d.uplink \subseteq UplinkPorts(R)

L2Inv ==
  /\ up \in BOOLEAN /\ rif \in [Rif -> {"none", "bare", "addressed"}]
  /\ FilesFit(topo, rif)
  /\ IF up THEN Sound(live, topo, rif) ELSE live = EmptyLive

\* A memory that runs the same topology.
LEMMA SoundAgain ==
  ASSUME NEW d, NEW t, NEW R, Sound(d, t, R), NEW e \in LiveType, Runs(e, t),
         e.ctx \subseteq d.ctx \union Wanted(t, R), e.uplink = d.uplink
  PROVE  Sound(e, t, R)
<1>1. t.mem \in MemType
  BY DEF Sound, FilesFit, TopoOK, TopoType
<1>2. CtxFits(Wanted(t, R), t.mem, R)
  BY <1>1, WantedFits
<1>3. CtxFits(e.ctx, t.mem, R)
  BY <1>2 DEF Sound, CtxFits
<1>4. QED
  BY <1>3 DEF Sound

\* The contexts needed by a topology that runs.
LEMMA WantedRuns ==
  ASSUME NEW d \in LiveType, NEW t, TopoOK(t), Runs(d, t), NEW R
  PROVE  Wanted(d, R) = Wanted(t, R) /\ Topology(d) = t
<1>1. d.mem = t.mem /\ d.sw = t.sw
  BY RunsMem
<1>2. Wanted(d, R) = Wanted(t, R)
  BY <1>1, WantedSame
<1>3. t = [sw |-> t.sw, mem |-> t.mem]
  BY DEF TopoOK, TopoType
<1>4. QED
  BY <1>1, <1>2, <1>3 DEF Topology

\* The outcome a handler starts from.
LEMMA NowIs ==
  ASSUME live \in LiveType, topo \in TopoType
  PROVE  Now \in Outcome /\ Now.d = live /\ Now.t = topo /\ Now.ok /\ Now.left = 1
BY DEF Now, Outcome

\* persist_manager.
LEMMA Persists ==
  ASSUME NEW o \in Outcome, o.ok, NEW t, TopoOK(t), Runs(o.d, t), NEW z \in persist_manager(o)
  PROVE  \/ Lost(o, z) /\ o.left = 1
         \/ z \in Outcome /\ z.ok /\ z.d = o.d /\ z.t = t /\ z.left = o.left
<1>1. o.d \in LiveType /\ t \in TopoType
  BY OutcomeFields DEF TopoOK
<1>2. Topology(o.d) = t
  BY <1>1, WantedRuns
<1>3. z = [o EXCEPT !.t = t] \/ z \in Fault(o, "save", o.d)
  BY <1>2 DEF persist_manager
<1>4. CASE z = [o EXCEPT !.t = t]
  BY <1>1, <1>4 DEF Outcome
<1>5. CASE z \in Fault(o, "save", o.d)
  BY <1>5, FaultLost
<1>6. QED
  BY <1>3, <1>4, <1>5

\* What a handler undoes starts with the memory as it is.
Undoing(o, x) == x \in Outcome /\ x.ok /\ x.d = o.d /\ x.t = o.t /\ x.left = 0

\* The file is the topology that runs, or is as it was.
LEMMA SavedOrNot ==
  ASSUME NEW o \in Outcome, o.ok, NEW t, TopoOK(t), Runs(o.d, t), NEW y \in persist_manager(o)
  PROVE  \/ y.ok /\ y \in Outcome /\ y.d = o.d /\ y.t = t
         \/ ~ y.ok /\ Undoing(o, [y EXCEPT !.ok = TRUE])
<1>1. \/ Lost(o, y) /\ o.left = 1
      \/ y \in Outcome /\ y.ok /\ y.d = o.d /\ y.t = t /\ y.left = o.left
  BY Persists
<1>2. CASE y.ok
  BY <1>1, <1>2 DEF Lost
<1>3. CASE ~ y.ok
  <2>1. y \in Outcome /\ y.d = o.d /\ y.t = o.t /\ y.left = 0
    BY <1>1, <1>3 DEF Lost
  <2>2. Resuming(y, [y EXCEPT !.ok = TRUE])
    BY <2>1, ResumedReported
  <2>3. QED
    BY <1>3, <2>1, <2>2 DEF Resuming, Undoing
<1>4. QED
  BY <1>2, <1>3

\* A vSwitch more.
Wider(t, v) == [sw |-> t.sw \union {v}, mem |-> t.mem]

\* It is a topology, fits the router and needs no other contexts.
LEMMA WiderOK ==
  ASSUME NEW t, TopoOK(t), NEW v \in Vs
  PROVE  /\ TopoOK(Wider(t, v)) /\ Wider(t, v).sw = t.sw \union {v} /\ Wider(t, v).mem = t.mem
         /\ \A R : FilesFit(t, R) => FilesFit(Wider(t, v), R)
<1> DEFINE u == Wider(t, v)
<1>1. t \in TopoType /\ t.sw \in SUBSET Vs /\ t.mem \in MemType
  BY DEF TopoOK, TopoType
<1>2. u \in TopoType /\ u.sw = t.sw \union {v} /\ u.mem = t.mem
  BY <1>1 DEF Wider, TopoType
<1> HIDE DEF u
<1>3. TopoOK(u)
  BY <1>2 DEF TopoOK
<1>4. ASSUME NEW R, FilesFit(t, R) PROVE FilesFit(u, R)
  <2>1. RouterOK(u, R)
    BY <1>2, <1>4 DEF FilesFit, RouterOK
  <2>2. Wanted(u, R) = Wanted(t, R)
    BY <1>2, WantedSame
  <2>3. QED
    BY <1>3, <1>4, <2>1, <2>2 DEF FilesFit
<1>5. QED
  BY <1>2, <1>3, <1>4 DEF u

\* create_vswitch.
LEMMA SwitchCreated ==
  ASSUME NEW o \in Outcome, o.ok, NEW t, TopoOK(t), Runs(o.d, t), NEW v \in Vs,
         NEW z \in create_vswitch(o, v)
  PROVE  /\ z \in Outcome /\ z.t = o.t /\ z.d.ctx = o.d.ctx /\ z.d.uplink = o.d.uplink
         /\ \/ Done(o, z) /\ v \notin t.sw /\ Runs(z.d, Wider(t, v))
            \/ ~ z.ok /\ z.left = 0 /\ v \in t.sw /\ z.d = o.d
<1>1. o.d \in LiveType /\ o.d.sw = t.sw /\ t \in TopoType /\ t.sw \in SUBSET Vs
  BY OutcomeFields, RunsMem DEF TopoOK, TopoType
<1>2. CASE v \in t.sw
  <2>1. z \in Error(o)
    BY <1>1, <1>2 DEF create_vswitch
  <2>2. z \in Outcome /\ z.d = o.d /\ z.t = o.t /\ ~ z.ok /\ z.left = 0
    BY <2>1, ErrorCall
  <2>3. QED
    BY <1>2, <2>2
<1>3. CASE v \notin t.sw
  <2> DEFINE N == t.sw \union {v}
             e == [o.d EXCEPT !.sw = N]
  <2>1. z \in Ok(o, e)
    BY <1>1, <1>3 DEF create_vswitch
  <2>2. N \in SUBSET Vs
    BY <1>1
  <2> HIDE DEF N
  <2>3. /\ e \in LiveType /\ e.sw = N /\ e.mem = o.d.mem /\ e.rec = o.d.rec /\ e.flood = o.d.flood
        /\ e.ctx = o.d.ctx /\ e.uplink = o.d.uplink
    BY <1>1, <2>2, ReplaceSw
  <2> HIDE DEF e
  <2>4. z \in Outcome /\ z.d = e /\ z.t = o.t /\ z.ok = o.ok /\ z.left = o.left
    BY ONLY o \in Outcome, <2>1, <2>3, OkCall
  <2>5. Wider(t, v).sw = N /\ Wider(t, v).mem = t.mem
    BY WiderOK DEF N
  <2>6. Runs(z.d, Wider(t, v))
    BY <2>3, <2>4, <2>5 DEF Runs, Absent, Present, InGroup
  <2>7. QED
    BY <1>3, <2>3, <2>4, <2>6 DEF Done
<1>4. QED
  BY <1>2, <1>3

\* detach_port, of a topology.
LEMMA DetachKeepsTopo ==
  ASSUME "range" \notin L2Faults, NEW o \in Outcome, o.ok, NEW t, TopoOK(t), Runs(o.d, t),
         NEW k \in Members(t.mem), NEW z \in detach_port(o, k)
  PROVE  /\ About(o, z, k)
         /\ \/ Done(o, z) /\ Runs(z.d, Plus(t, k, None))
            \/ ~ z.ok /\ z.left = 0 /\ o.left = 1 /\ Runs(z.d, t)
<1> DEFINE s == t.mem[k]
           u == Plus(t, k, None)
<1>1. k \in Pair /\ Fine(s) /\ s # None /\ t \in TopoType
  BY DEF TopoOK, AllFine, Members
<1>2. Present(o.d, k, s)
  BY <1>1 DEF Runs
<1>3. u \in TopoType /\ u.sw = t.sw /\ u.mem[k] = None /\ \A m \in Pair \ {k} : u.mem[m] = t.mem[m]
  BY <1>1, PlusFields
<1>4. About(o, z, k) /\ ((Done(o, z) /\ Absent(z.d, k)) \/ Kept(o, z, k, s))
  BY <1>1, <1>2, DetachedOrKept
<1> HIDE DEF u
<1>5. Elsewhere(o.d, z.d, k)
  BY <1>4 DEF About
<1>6. Absent(z.d, k) => Runs(z.d, u)
  BY <1>1, <1>3, <1>5, RunsAt
<1>7. Present(z.d, k, s) => Runs(z.d, t)
  BY <1>1, <1>5, RunsAt
<1>8. QED
  BY <1>4, <1>6, <1>7 DEF Kept, u

\* The contexts fit the memberships whatever the member is.
FitsWithout(C, M, k) == \A N : (\A m \in Pair \ {k} : N[m] = M[m]) => CtxFits(C, N, rif)

\* unarm_router_member: no context names the member any more.
LEMMA MemberUnarmed ==
  ASSUME NEW o \in Outcome, o.ok, NEW k \in Pair, NEW M, CtxFits(o.d.ctx, M, rif),
         NEW z \in unarm_router_member(o, k)
  PROVE  /\ z \in Outcome /\ z.t = o.t /\ SamePairs(o.d, z.d) /\ z.d.ctx \subseteq o.d.ctx
         /\ \/ Done(o, z) /\ FitsWithout(z.d.ctx, M, k)
            \/ ~ z.ok /\ z.left = 0 /\ o.left = 1
<1> DEFINE C == {x \in o.d.ctx : rif[x[1]] # "none" /\ RifAt[x[1]] = k[1] /\ x[2] = k[1] /\ x[3] = k[2]}
<1>1. /\ z \in Outcome /\ z.t = o.t /\ SamePairs(o.d, z.d) /\ z.d.ctx \subseteq o.d.ctx
      /\ \/ Done(o, z) /\ z.d.ctx = o.d.ctx \ C
         \/ ~ z.ok /\ z.left = 0 /\ o.left = 1
  BY WithoutKeeps DEF unarm_router_member
<1>2. o.d.ctx \in SUBSET Context
  BY OutcomeFields, LiveFields
<1>3. ASSUME z.d.ctx = o.d.ctx \ C, NEW N, \A m \in Pair \ {k} : N[m] = M[m]
      PROVE  CtxFits(z.d.ctx, N, rif)
  <2>1. ASSUME NEW x \in z.d.ctx, RifAt[x[1]] \in Vs, x[3] # None PROVE N[<<x[2], x[3]>>] # None
    <3>1. x \in o.d.ctx /\ x \notin C /\ x \in Context
      BY <1>2, <1>3, <2>1
    <3>2. rif[x[1]] # "none" /\ x[2] = RifAt[x[1]] /\ M[<<x[2], x[3]>>] # None
      BY <2>1, <3>1 DEF CtxFits
    <3>3. x[2] \in Vs /\ x[3] \in Port /\ <<x[2], x[3]>> \in Pair
      BY <2>1, <3>1, <3>2 DEF Context, Pair
    <3>4. ~ (x[2] = k[1] /\ x[3] = k[2])
      BY <3>1, <3>2
    <3>5. <<x[2], x[3]>> # k
      BY <3>4
    <3>6. N[<<x[2], x[3]>>] = M[<<x[2], x[3]>>]
      BY <1>3, <3>3, <3>5
    <3>7. QED
      BY <3>2, <3>6
  <2>2. \A x \in z.d.ctx : x \in o.d.ctx
    BY <1>3
  <2>3. QED
    BY <2>1, <2>2 DEF CtxFits
<1>4. z.d.ctx = o.d.ctx \ C => FitsWithout(z.d.ctx, M, k)
  BY <1>3 DEF FitsWithout
<1>5. QED
  BY <1>1, <1>4

\* What attach_port_persisted undoes: contexts and membership are taken away.
LEMMA MemberUndone ==
  ASSUME "range" \notin L2Faults, NEW o \in Outcome, o.ok, o.left = 0, NEW t, TopoOK(t), Runs(o.d, t),
         NEW k \in Members(t.mem), CtxFits(o.d.ctx, t.mem, rif),
         NEW z \in AndThen(unarm_router_member(o, k), LAMBDA w : detach_port(w, k))
  PROVE  /\ z \in Outcome /\ z.t = o.t /\ z.d.uplink = o.d.uplink /\ Runs(z.d, Plus(t, k, None))
         /\ CtxFits(z.d.ctx, Plus(t, k, None).mem, rif)
<1> DEFINE A == unarm_router_member(o, k)
           u == Plus(t, k, None)
<1>1. PICK y \in A : IF y.ok THEN z \in detach_port(y, k) ELSE z = y
  BY DEF AndThen
<1>2. k \in Pair /\ t \in TopoType
  BY DEF Members, TopoOK
<1>3. \A m \in Pair \ {k} : u.mem[m] = t.mem[m]
  BY <1>2, PlusFields
<1> HIDE DEF u
<1>4. /\ y \in Outcome /\ y.t = o.t /\ SamePairs(o.d, y.d)
      /\ \/ Done(o, y) /\ FitsWithout(y.d.ctx, t.mem, k)
         \/ ~ y.ok /\ y.left = 0 /\ o.left = 1
  BY ONLY o \in Outcome, o.ok, <1>2, CtxFits(o.d.ctx, t.mem, rif), y \in A, MemberUnarmed DEF A
<1> HIDE DEF A
<1>5. y.ok /\ y.left = 0 /\ CtxFits(y.d.ctx, u.mem, rif) /\ z \in detach_port(y, k)
  BY <1>1, <1>3, <1>4 DEF Done, FitsWithout
<1>6. Runs(y.d, t)
  BY <1>4, RunsSame
<1>7. /\ About(y, z, k)
      /\ \/ Done(y, z) /\ Runs(z.d, u)
         \/ ~ z.ok /\ z.left = 0 /\ y.left = 1 /\ Runs(z.d, t)
  BY <1>4, <1>5, <1>6, DetachKeepsTopo DEF u
<1>8. z \in Outcome /\ z.t = y.t /\ z.d.ctx = y.d.ctx /\ z.d.uplink = y.d.uplink /\ Runs(z.d, u)
  BY <1>5, <1>7 DEF About, Elsewhere
<1>9. QED
  BY <1>4, <1>5, <1>8 DEF SamePairs, u

\* A handler that ends with a memory that runs the file.
LEMMA HandleKeeps ==
  ASSUME L2Inv, up, up' = up, rif' = rif, NEW o, live' = o.d, topo' = o.t, Sound(o.d, o.t, rif)
  PROVE  L2Inv'
<1>1. FilesFit(o.t, rif)
  BY DEF Sound
<1>2. QED
  BY <1>1 DEF L2Inv

\* What the invariant says while the daemon runs.
LEMMA Running ==
  ASSUME L2Inv, up
  PROVE  /\ Sound(live, topo, rif) /\ live \in LiveType /\ TopoOK(topo) /\ RouterOK(topo, rif)
         /\ FilesFit(topo, rif) /\ Runs(live, topo) /\ topo \in TopoType /\ live.mem = topo.mem
         /\ live.sw = topo.sw /\ Now \in Outcome /\ Now.d = live /\ Now.t = topo /\ Now.ok /\ Now.left = 1
         /\ CtxFits(live.ctx, topo.mem, rif) /\ live.uplink \subseteq UplinkPorts(rif)
<1>1. Sound(live, topo, rif)
  BY DEF L2Inv
<1>2. /\ live \in LiveType /\ TopoOK(topo) /\ RouterOK(topo, rif) /\ Runs(live, topo) /\ topo \in TopoType
      /\ FilesFit(topo, rif) /\ CtxFits(live.ctx, topo.mem, rif) /\ live.uplink \subseteq UplinkPorts(rif)
  BY <1>1 DEF Sound, FilesFit, TopoOK
<1>3. QED
  BY <1>1, <1>2, NowIs, RunsMem

\* The command that creates a vSwitch.
LEMMA CreateKeeps ==
  ASSUME "range" \notin L2Faults, "delete" \notin L2Faults, L2Inv, NEW v \in Vs,
         create_vswitch_persisted(v)
  PROVE  L2Inv'
<1> DEFINE A == create_vswitch(Now, v)
           G(z) == delete_vswitch(z, v)
           S == AndThen(A, LAMBDA y : OnError(persist_manager(y), LAMBDA z : delete_vswitch(z, v)))
           u == Wider(topo, v)
<1>1. up /\ up' = up /\ rif' = rif /\ \E o \in S : live' = o.d /\ topo' = o.t
  BY DEF create_vswitch_persisted, Handle
<1>2. PICK o \in S : live' = o.d /\ topo' = o.t
  BY <1>1
<1>3. PICK y \in A : IF y.ok THEN o \in OnError(persist_manager(y), LAMBDA z : delete_vswitch(z, v)) ELSE o = y
  BY DEF AndThen
<1>4. /\ Sound(live, topo, rif) /\ live \in LiveType /\ TopoOK(topo) /\ Runs(live, topo) /\ topo \in TopoType
      /\ FilesFit(topo, rif) /\ Now \in Outcome /\ Now.d = live /\ Now.t = topo /\ Now.ok
      /\ CtxFits(live.ctx, topo.mem, rif) /\ live.uplink \subseteq UplinkPorts(rif)
  BY <1>1, Running
<1>5. /\ y \in Outcome /\ y.t = topo /\ y.d.ctx = live.ctx /\ y.d.uplink = live.uplink
      /\ \/ Done(Now, y) /\ v \notin topo.sw /\ Runs(y.d, u)
         \/ ~ y.ok /\ y.d = live
  BY <1>4, SwitchCreated
<1>6. TopoOK(u) /\ u.sw = topo.sw \union {v} /\ u.mem = topo.mem /\ FilesFit(u, rif)
  BY <1>4, WiderOK
<1> HIDE DEF S, A, u
<1>7. CASE ~ y.ok
  <2>1. Sound(o.d, o.t, rif)
    BY <1>3, <1>4, <1>5, <1>7 DEF Done
  <2>2. QED
    BY <1>1, <1>2, <2>1, HandleKeeps
<1>8. CASE y.ok
  <2>1. v \notin topo.sw /\ Runs(y.d, u) /\ y.d \in LiveType
    BY <1>5, <1>8, OutcomeFields
  <2>2. PICK p \in persist_manager(y) :
          IF p.ok THEN o = p ELSE \E w \in delete_vswitch([p EXCEPT !.ok = TRUE], v) : o = [w EXCEPT !.ok = FALSE]
    BY <1>3, <1>8 DEF OnError
  <2>3. \/ p.ok /\ p \in Outcome /\ p.d = y.d /\ p.t = u
        \/ ~ p.ok /\ Undoing(y, [p EXCEPT !.ok = TRUE])
    BY <1>5, <1>6, <1>8, <2>1, SavedOrNot
  <2>4. CASE p.ok
    <3>1. o.d = y.d /\ o.t = u
      BY <2>2, <2>3, <2>4
    <3>2. Sound(y.d, u, rif)
      BY <1>4, <1>5, <1>6, <2>1 DEF Sound
    <3>3. QED
      BY <1>1, <1>2, <3>1, <3>2, HandleKeeps
  <2>5. CASE ~ p.ok
    <3> DEFINE x == [p EXCEPT !.ok = TRUE]
    <3>1. PICK w \in delete_vswitch(x, v) : o = [w EXCEPT !.ok = FALSE]
      BY <2>2, <2>5
    <3>2. x \in Outcome /\ x.ok /\ x.d = y.d /\ x.t = y.t /\ x.left = 0
      BY <2>3, <2>5 DEF Undoing
    <3> HIDE DEF x
    <3>3. /\ w \in Outcome /\ w.t = x.t /\ w.d.uplink = x.d.uplink /\ w.d.ctx \subseteq x.d.ctx
          /\ \/ Done(x, w) /\ Runs(w.d, Gone(u, v))
             \/ x.left = 1 \/ v \notin u.sw
      BY <1>6, <2>1, <3>1, <3>2, DeletedOrKept
    <3>4. Runs(w.d, Gone(u, v)) /\ w.d \in LiveType
      BY <1>6, <3>2, <3>3, OutcomeFields
    <3>5. topo.sw = Gone(u, v).sw /\ \A m \in Pair : topo.mem[m] = Gone(u, v).mem[m]
      <4>1. MembersOf(u, v) = {}
        BY <1>4, <1>6, <2>1 DEF MembersOf, Members, TopoOK
      <4>2. /\ Gone(u, v).sw = u.sw \ {v}
            /\ \A m \in Pair : Gone(u, v).mem[m] = IF m \in MembersOf(u, v) THEN None ELSE u.mem[m]
        BY <1>6, GoneOK
      <4>3. topo.sw = (topo.sw \union {v}) \ {v}
        BY <2>1
      <4>4. QED
        BY <1>6, <4>1, <4>2, <4>3
    <3>6. Runs(w.d, topo)
      BY <3>4, <3>5, RunsEqual
    <3>7. Sound(w.d, topo, rif)
      BY <1>4, <1>5, <3>2, <3>3, <3>4, <3>6, SoundAgain
    <3>8. o.d = w.d /\ o.t = topo
      BY <1>5, <3>1, <3>2, <3>3, Resumed
    <3>9. QED
      BY <1>1, <1>2, <3>7, <3>8, HandleKeeps
  <2>6. QED
    BY <2>4, <2>5
<1>9. QED
  BY <1>7, <1>8

\* The command that attaches a port.
LEMMA AttachKeeps ==
  ASSUME "range" \notin L2Faults, L2Inv, NEW k \in Pair, NEW s \in PortSpec,
         attach_port_persisted(k, s)
  PROVE  L2Inv'
<1> DEFINE Back(z) == AndThen(unarm_router_member(z, k), LAMBDA w : detach_port(w, k))
           A == attach_port(Now, k, s)
           armed == AndThen(A, LAMBDA y : OnError(eswitch_manager_router_prearm(y, rif), Back))
           S == AndThen(armed, LAMBDA y : OnError(persist_manager(y), Back))
           n == Normal(s)
           u == Plus(topo, k, n)
<1>1. up /\ up' = up /\ rif' = rif /\ \E o \in S : live' = o.d /\ topo' = o.t
  BY DEF attach_port_persisted, Handle
<1>2. PICK o \in S : live' = o.d /\ topo' = o.t
  BY <1>1
<1>3. PICK p \in armed : IF p.ok THEN o \in OnError(persist_manager(p), Back) ELSE o = p
  BY DEF AndThen
<1>4. PICK y \in A : IF y.ok THEN p \in OnError(eswitch_manager_router_prearm(y, rif), Back) ELSE p = y
  BY DEF AndThen
<1>5. /\ Sound(live, topo, rif) /\ live \in LiveType /\ TopoOK(topo) /\ RouterOK(topo, rif)
      /\ Runs(live, topo) /\ topo \in TopoType
      /\ FilesFit(topo, rif) /\ Now \in Outcome /\ Now.d = live /\ Now.t = topo /\ Now.ok
      /\ CtxFits(live.ctx, topo.mem, rif) /\ live.uplink \subseteq UplinkPorts(rif)
  BY <1>1, Running
<1> HIDE DEF n
<1>6. /\ About(Now, y, k)
      /\ \/ /\ Done(Now, y) /\ Runs(y.d, u) /\ TopoOK(u) /\ RouterOK(u, rif)
            /\ topo.mem[k] = None /\ n \in PortSpec /\ n # None
         \/ ~ y.ok /\ Runs(y.d, topo)
  BY <1>5, AttachKeepsTopo DEF n
<1>7. y \in Outcome /\ y.t = topo /\ y.d \in LiveType /\ y.d.ctx = live.ctx /\ y.d.uplink = live.uplink
  BY <1>5, <1>6 DEF About, Elsewhere
<1> HIDE DEF S, armed, A
<1>8. CASE ~ y.ok
  <2>1. o = y /\ Runs(y.d, topo)
    BY <1>3, <1>4, <1>6, <1>8 DEF Done
  <2>2. Sound(y.d, topo, rif)
    BY <1>5, <1>7, <2>1, SoundAgain
  <2>3. Sound(o.d, o.t, rif)
    BY <1>7, <2>1, <2>2
  <2>4. QED
    BY <1>1, <1>2, <2>3, HandleKeeps
<1>9. CASE y.ok
  <2>1. /\ Runs(y.d, u) /\ TopoOK(u) /\ RouterOK(u, rif) /\ topo.mem[k] = None
        /\ n \in PortSpec /\ n # None
    BY <1>6, <1>9
  <2>2. u \in TopoType /\ u.sw = topo.sw /\ u.mem[k] = n /\ \A m \in Pair \ {k} : u.mem[m] = topo.mem[m]
    BY <1>5, <2>1, PlusFields
  <2>3. \A m \in Pair : topo.mem[m] # None => u.mem[m] # None
    BY <2>1, <2>2
  <2>4. k \in Members(u.mem)
    BY <2>1, <2>2 DEF Members
  <2> HIDE DEF u
  <2>5. PICK q \in eswitch_manager_router_prearm(y, rif) :
          IF q.ok THEN p = q ELSE \E w \in Back([q EXCEPT !.ok = TRUE]) : p = [w EXCEPT !.ok = FALSE]
    BY <1>4, <1>9 DEF OnError
  <2>6. /\ q \in Outcome /\ q.t = y.t /\ SamePairs(y.d, q.d)
        /\ q.d.ctx \subseteq y.d.ctx \union Wanted(y.d, rif)
        /\ \/ Done(y, q) /\ Cardinality(Wanted(y.d, rif)) <= MaxContexts
           \/ ~ q.ok /\ q.left = 0
    BY <1>7, <1>9, PrearmKeeps
  <2>7. q.d \in LiveType /\ Runs(q.d, u) /\ q.d.uplink = live.uplink /\ Wanted(y.d, rif) = Wanted(u, rif)
    BY <1>7, <2>1, <2>6, RunsSame, WantedRuns DEF SamePairs
  <2>8. CtxFits(q.d.ctx, u.mem, rif)
    <3>1. CtxFits(live.ctx, u.mem, rif)
      BY <1>5, <2>3, CtxFewer, LiveFields
    <3>2. CtxFits(Wanted(u, rif), u.mem, rif)
      BY <2>2, WantedFits DEF TopoType
    <3>3. \A x \in q.d.ctx : x \in live.ctx \/ x \in Wanted(u, rif)
      BY <1>7, <2>6, <2>7
    <3>4. QED
      BY <3>1, <3>2, <3>3 DEF CtxFits
  <2>9. ASSUME NEW x, Undoing(q, x), NEW w \in Back(x)
        PROVE  Sound([w EXCEPT !.ok = FALSE].d, [w EXCEPT !.ok = FALSE].t, rif) /\ ~ [w EXCEPT !.ok = FALSE].ok
    <3>1. x \in Outcome /\ x.ok /\ x.d = q.d /\ x.t = topo /\ x.left = 0
      BY <1>7, <2>6, <2>9 DEF Undoing
    <3>2. Runs(x.d, u) /\ CtxFits(x.d.ctx, u.mem, rif)
      BY <2>7, <2>8, <3>1
    <3>3. /\ w \in Outcome /\ w.t = x.t /\ w.d.uplink = x.d.uplink /\ Runs(w.d, Plus(u, k, None))
          /\ CtxFits(w.d.ctx, Plus(u, k, None).mem, rif)
      BY <2>1, <2>4, <2>9, <3>1, <3>2, MemberUndone
    <3> DEFINE c == Plus(u, k, None)
    <3>4. c.sw = topo.sw /\ \A m \in Pair : c.mem[m] = topo.mem[m]
      <4>1. c.sw = u.sw /\ c.mem[k] = None /\ \A m \in Pair \ {k} : c.mem[m] = u.mem[m]
        BY <2>2, PlusFields
      <4> HIDE DEF c
      <4>2. QED
        BY <2>1, <2>2, <4>1
    <3>5. w.d \in LiveType /\ w.d.ctx \in SUBSET Context
      BY <3>3, OutcomeFields, LiveFields
    <3>6. Runs(w.d, c) /\ CtxFits(w.d.ctx, c.mem, rif)
      BY <3>3
    <3> HIDE DEF c
    <3>7. Runs(w.d, topo)
      BY <3>4, <3>6, RunsEqual
    <3>8. CtxFits(w.d.ctx, topo.mem, rif)
      BY <3>4, <3>5, <3>6, CtxFewer
    <3>9. Sound(w.d, topo, rif)
      BY <1>5, <2>7, <3>1, <3>3, <3>5, <3>7, <3>8 DEF Sound
    <3>10. [w EXCEPT !.ok = FALSE].d = w.d /\ [w EXCEPT !.ok = FALSE].t = topo /\ ~ [w EXCEPT !.ok = FALSE].ok
      BY <3>1, <3>3, Resumed
    <3>11. QED
      BY <3>9, <3>10
  <2> HIDE DEF Back
  <2>10. CASE ~ q.ok
    <3>1. Undoing(q, [q EXCEPT !.ok = TRUE])
      BY <2>6, <2>10, Resumed DEF Undoing, Done
    <3>2. PICK w \in Back([q EXCEPT !.ok = TRUE]) : p = [w EXCEPT !.ok = FALSE]
      BY <2>5, <2>10
    <3>3. Sound(p.d, p.t, rif) /\ ~ p.ok
      BY <2>9, <3>1, <3>2
    <3>4. Sound(o.d, o.t, rif)
      BY <1>3, <3>3
    <3>5. QED
      BY <1>1, <1>2, <3>4, HandleKeeps
  <2>11. CASE q.ok
    <3>1. p = q /\ o \in OnError(persist_manager(q), Back)
      BY <1>3, <2>5, <2>11
    <3>2. PICK r \in persist_manager(q) :
            IF r.ok THEN o = r ELSE \E w \in Back([r EXCEPT !.ok = TRUE]) : o = [w EXCEPT !.ok = FALSE]
      BY <3>1 DEF OnError
    <3>3. \/ r.ok /\ r \in Outcome /\ r.d = q.d /\ r.t = u
          \/ ~ r.ok /\ Undoing(q, [r EXCEPT !.ok = TRUE])
      BY <2>1, <2>6, <2>7, <2>11, SavedOrNot
    <3>4. CASE r.ok
      <4>1. o.d = q.d /\ o.t = u
        BY <3>2, <3>3, <3>4
      <4>2. FilesFit(u, rif)
        BY <2>1, <2>6, <2>7, <2>11 DEF FilesFit
      <4>3. Sound(q.d, u, rif)
        BY <1>5, <2>7, <2>8, <4>2 DEF Sound
      <4>4. QED
        BY <1>1, <1>2, <4>1, <4>3, HandleKeeps
    <3>5. CASE ~ r.ok
      <4>1. PICK w \in Back([r EXCEPT !.ok = TRUE]) : o = [w EXCEPT !.ok = FALSE]
        BY <3>2, <3>5
      <4>2. Sound(o.d, o.t, rif)
        BY <2>9, <3>3, <3>5, <4>1
      <4>3. QED
        BY <1>1, <1>2, <4>2, HandleKeeps
    <3>6. QED
      BY <3>4, <3>5
  <2>12. QED
    BY <2>10, <2>11
<1>10. QED
  BY <1>8, <1>9

\* Files with fewer members fit.
LEMMA FewerFit ==
  ASSUME NEW t, NEW R, FilesFit(t, R), NEW u, TopoOK(u), RouterOK(u, R),
         \A m \in Pair : u.mem[m] # None => t.mem[m] # None
  PROVE  FilesFit(u, R)
<1>1. t.mem \in MemType
  BY DEF FilesFit, TopoOK, TopoType
<1>2. Wanted(u, R) \subseteq Wanted(t, R) /\ Wanted(t, R) \in SUBSET Context
  BY <1>1, WantedGrows, WantedFits
<1>3. Cardinality(Wanted(u, R)) <= MaxContexts
  BY <1>2, FewerContexts DEF FilesFit
<1>4. QED
  BY <1>3 DEF FilesFit

\* Without one of them.
LEMMA MinusFits ==
  ASSUME NEW t, NEW R, FilesFit(t, R), NEW k \in Pair
  PROVE  FilesFit(Plus(t, k, None), R)
<1> DEFINE u == Plus(t, k, None)
<1>1. TopoOK(t) /\ t \in TopoType /\ RouterOK(t, R)
  BY DEF FilesFit, TopoOK
<1>2. TopoOK(u)
  BY <1>1, MinusOK
<1>3. u.sw = t.sw /\ u.mem[k] = None /\ \A m \in Pair \ {k} : u.mem[m] = t.mem[m]
  BY <1>1, PlusFields
<1> HIDE DEF u
<1>4. \A m \in Members(u.mem) : m \in Members(t.mem) /\ u.mem[m] = t.mem[m]
  BY <1>3 DEF Members
<1>5. RouterOK(u, R)
  BY <1>1, <1>3, <1>4 DEF RouterOK
<1>6. FilesFit(u, R)
  BY <1>2, <1>3, <1>5, FewerFit
<1>7. QED
  BY <1>6 DEF u

\* The command that detaches a port.
LEMMA DetachKeeps ==
  ASSUME "range" \notin L2Faults, L2Inv, NEW k \in Pair, detach_port_persisted(k)
  PROVE  L2Inv'
<1> DEFINE s == live.mem[k]
           A == {Now} \union Fault(Now, "flush", live)
           B == AndThen(A, LAMBDA y : unarm_router_member(y, k))
           C == AndThen(B, LAMBDA y :
                  OnError(detach_port(y, k), LAMBDA z : eswitch_manager_router_prearm(z, rif)))
           Back(z) == AndThen(attach_port(z, k, s), LAMBDA w : eswitch_manager_router_prearm(w, rif))
           S == AndThen(C, LAMBDA y : OnError(persist_manager(y), Back))
           u == Plus(topo, k, None)
<1>1. up /\ up' = up /\ rif' = rif /\ s # None /\ \E o \in S : live' = o.d /\ topo' = o.t
  BY DEF detach_port_persisted, Handle
<1>2. PICK o \in S : live' = o.d /\ topo' = o.t
  BY <1>1
<1>3. PICK p \in C : IF p.ok THEN o \in OnError(persist_manager(p), Back) ELSE o = p
  BY DEF AndThen
<1>4. PICK y \in B : IF y.ok THEN p \in OnError(detach_port(y, k), LAMBDA z : eswitch_manager_router_prearm(z, rif))
                     ELSE p = y
  BY DEF AndThen
<1>5. PICK x \in A : IF x.ok THEN y \in unarm_router_member(x, k) ELSE y = x
  BY DEF AndThen
<1>6. /\ Sound(live, topo, rif) /\ live \in LiveType /\ TopoOK(topo) /\ RouterOK(topo, rif)
      /\ Runs(live, topo) /\ topo \in TopoType /\ live.mem = topo.mem
      /\ FilesFit(topo, rif) /\ Now \in Outcome /\ Now.d = live /\ Now.t = topo /\ Now.ok
      /\ CtxFits(live.ctx, topo.mem, rif) /\ live.uplink \subseteq UplinkPorts(rif)
  BY <1>1, Running
<1>7. /\ x \in Outcome /\ x.d = live /\ x.t = topo
  <2>1. x = Now \/ x \in Fault(Now, "flush", Now.d)
    BY <1>6
  <2>2. x \in Fault(Now, "flush", Now.d) => Lost(Now, x)
    BY <1>6, FaultLost
  <2>3. QED
    BY <1>6, <2>1, <2>2 DEF Lost
<1>8. k \in Members(topo.mem) /\ topo.mem[k] = s
  BY <1>1, <1>6 DEF Members
<1> HIDE DEF A, B, C, S, s, Back
<1>9. /\ y \in Outcome /\ y.t = topo /\ SamePairs(live, y.d) /\ y.d.ctx \subseteq live.ctx
      /\ y.ok => FitsWithout(y.d.ctx, topo.mem, k)
  <2>1. CASE ~ x.ok
    <3>1. y = x
      BY <1>5, <2>1
    <3>2. SamePairs(live, live)
      BY <1>6, SamePairsFields
    <3>3. QED
      BY <1>7, <2>1, <3>1, <3>2
  <2>2. CASE x.ok
    <3>1. y \in unarm_router_member(x, k) /\ CtxFits(x.d.ctx, topo.mem, rif)
      BY <1>5, <1>6, <1>7, <2>2
    <3>2. /\ y \in Outcome /\ y.t = x.t /\ SamePairs(x.d, y.d) /\ y.d.ctx \subseteq x.d.ctx
          /\ \/ Done(x, y) /\ FitsWithout(y.d.ctx, topo.mem, k)
             \/ ~ y.ok /\ y.left = 0 /\ x.left = 1
      BY <1>7, <2>2, <3>1, MemberUnarmed
    <3>3. QED
      BY <1>7, <3>2 DEF Done
  <2>3. QED
    BY <2>1, <2>2
<1>10. y.d \in LiveType /\ Runs(y.d, topo) /\ y.d.uplink = live.uplink
  BY <1>6, <1>9, RunsSame DEF SamePairs
<1>11. CASE ~ y.ok
  <2>1. o = y
    BY <1>3, <1>4, <1>11
  <2>2. Sound(y.d, topo, rif)
    BY <1>6, <1>9, <1>10, SoundAgain
  <2>3. Sound(o.d, o.t, rif)
    BY <1>9, <2>1, <2>2
  <2>4. QED
    BY <1>1, <1>2, <2>3, HandleKeeps
<1>12. CASE y.ok
  <2>1. PICK q \in detach_port(y, k) :
          IF q.ok THEN p = q
          ELSE \E w \in eswitch_manager_router_prearm([q EXCEPT !.ok = TRUE], rif) : p = [w EXCEPT !.ok = FALSE]
    BY <1>4, <1>12 DEF OnError
  <2>2. /\ About(y, q, k)
        /\ \/ Done(y, q) /\ Runs(q.d, u)
           \/ ~ q.ok /\ q.left = 0 /\ y.left = 1 /\ Runs(q.d, topo)
    BY <1>6, <1>8, <1>9, <1>10, <1>12, DetachKeepsTopo
  <2>3. q \in Outcome /\ q.t = topo /\ q.d \in LiveType /\ q.d.ctx = y.d.ctx /\ q.d.uplink = live.uplink
    BY <1>9, <1>10, <2>2 DEF About, Elsewhere
  <2>4. CASE ~ q.ok
    <3> DEFINE z == [q EXCEPT !.ok = TRUE]
    <3>1. PICK w \in eswitch_manager_router_prearm(z, rif) : p = [w EXCEPT !.ok = FALSE]
      BY <2>1, <2>4
    <3>2. z \in Outcome /\ z.ok /\ z.d = q.d /\ z.t = topo
      BY <2>3, Resumed
    <3> HIDE DEF z
    <3>3. /\ w \in Outcome /\ w.t = z.t /\ SamePairs(z.d, w.d) /\ w.d.ctx \subseteq z.d.ctx \union Wanted(z.d, rif)
      BY <3>1, <3>2, PrearmKeeps
    <3>4. Runs(q.d, topo)
      BY <2>2, <2>4 DEF Done
    <3>5. Runs(w.d, topo) /\ w.d \in LiveType /\ w.d.uplink = live.uplink /\ Wanted(z.d, rif) = Wanted(topo, rif)
      BY <1>6, <2>3, <3>2, <3>3, <3>4, RunsSame, WantedRuns DEF SamePairs
    <3>6. w.d.ctx \subseteq live.ctx \union Wanted(topo, rif)
      BY <1>9, <2>3, <3>2, <3>3, <3>5
    <3>7. Sound(w.d, topo, rif)
      BY <1>6, <3>5, <3>6, SoundAgain
    <3>8. p.d = w.d /\ p.t = topo /\ ~ p.ok
      BY <3>1, <3>2, <3>3, Resumed
    <3>9. Sound(o.d, o.t, rif)
      BY <1>3, <3>7, <3>8
    <3>10. QED
      BY <1>1, <1>2, <3>9, HandleKeeps
  <2>5. CASE q.ok
    <3>1. p = q /\ o \in OnError(persist_manager(q), Back) /\ Runs(q.d, u)
      BY <1>3, <2>1, <2>2, <2>5
    <3>2. PICK r \in persist_manager(q) :
            IF r.ok THEN o = r ELSE \E w \in Back([r EXCEPT !.ok = TRUE]) : o = [w EXCEPT !.ok = FALSE]
      BY <3>1 DEF OnError
    <3>3. FilesFit(u, rif) /\ TopoOK(u)
      BY <1>6, MinusFits DEF FilesFit
    <3>4. u.sw = topo.sw /\ u.mem[k] = None /\ \A m \in Pair \ {k} : u.mem[m] = topo.mem[m]
      BY <1>6, PlusFields
    <3> HIDE DEF u
    <3>5. \/ r.ok /\ r \in Outcome /\ r.d = q.d /\ r.t = u
          \/ ~ r.ok /\ Undoing(q, [r EXCEPT !.ok = TRUE])
      BY <2>3, <2>5, <3>1, <3>3, SavedOrNot
    <3>6. CASE r.ok
      <4>1. o.d = q.d /\ o.t = u
        BY <3>2, <3>5, <3>6
      <4>2. CtxFits(q.d.ctx, u.mem, rif)
        BY <1>9, <1>12, <2>3, <3>4 DEF FitsWithout
      <4>3. Sound(q.d, u, rif)
        BY <1>6, <2>3, <3>1, <3>3, <4>2 DEF Sound
      <4>4. QED
        BY <1>1, <1>2, <4>1, <4>3, HandleKeeps
    <3>7. CASE ~ r.ok
      <4> DEFINE z == [r EXCEPT !.ok = TRUE]
      <4>1. PICK w \in Back(z) : o = [w EXCEPT !.ok = FALSE]
        BY <3>2, <3>7
      <4>2. z \in Outcome /\ z.ok /\ z.d = q.d /\ z.t = topo /\ z.left = 0
        BY <2>3, <3>5, <3>7 DEF Undoing
      <4> HIDE DEF z
      <4>3. PICK a \in attach_port(z, k, s) : IF a.ok THEN w \in eswitch_manager_router_prearm(a, rif) ELSE w = a
        BY <4>1 DEF Back, AndThen
      <4>4. a \in Turn("attach", z, k, topo.mem)
        BY <1>8, <4>3 DEF Turn
      <4>5. Runs(z.d, Cut(topo, {k}))
        <5>1. Cut(topo, {k}).sw = topo.sw /\ \A m \in Pair : Cut(topo, {k}).mem[m] = IF m \in {k} THEN None ELSE topo.mem[m]
          BY <1>6, CutOK
        <5>2. \A m \in Pair : Cut(topo, {k}).mem[m] = u.mem[m]
          BY <3>4, <5>1
        <5>3. QED
          BY <3>1, <3>4, <4>2, <5>1, <5>2, RunsEqual, SMTT(30)
      <4>6. Settled(z, a) /\ Runs(a.d, Cut(topo, {k} \ {k}))
        <5>1. {k} \in SUBSET Members(topo.mem) /\ k \in {k}
          BY <1>8
        <5>2. QED
          BY <1>6, <4>2, <4>4, <4>5, <5>1, MemberReturns
      <4>7. Runs(a.d, topo)
        <5>1. /\ Cut(topo, {k} \ {k}).sw = topo.sw
              /\ \A m \in Pair : Cut(topo, {k} \ {k}).mem[m] = IF m \in {k} \ {k} THEN None ELSE topo.mem[m]
          BY <1>6, CutOK
        <5>2. QED
          BY <4>6, <5>1, RunsEqual
      <4>8. a \in Outcome /\ a.ok /\ a.t = topo /\ a.d.ctx = q.d.ctx /\ a.d.uplink = live.uplink
        BY <2>3, <4>2, <4>6 DEF Settled
      <4>9. /\ w \in Outcome /\ w.t = a.t /\ SamePairs(a.d, w.d) /\ w.d.ctx \subseteq a.d.ctx \union Wanted(a.d, rif)
        BY <4>3, <4>8, PrearmKeeps
      <4>10. a.d \in LiveType
        BY <4>8, OutcomeFields
      <4>11. Runs(w.d, topo) /\ w.d \in LiveType /\ w.d.uplink = live.uplink /\ Wanted(a.d, rif) = Wanted(topo, rif)
        BY <1>6, <4>7, <4>8, <4>9, <4>10, RunsSame, WantedRuns DEF SamePairs
      <4>12. w.d.ctx \subseteq live.ctx \union Wanted(topo, rif)
        BY <1>9, <2>3, <4>8, <4>9, <4>11
      <4>13. Sound(w.d, topo, rif)
        BY <1>6, <4>11, <4>12, SoundAgain
      <4>14. o.d = w.d /\ o.t = topo
        BY <4>1, <4>8, <4>9, Resumed
      <4>15. QED
        BY <1>1, <1>2, <4>13, <4>14, HandleKeeps
    <3>8. QED
      BY <3>6, <3>7
  <2>6. QED
    BY <2>4, <2>5
<1>13. QED
  BY <1>11, <1>12

\* The command that deletes a vSwitch.
LEMMA DeleteKeeps ==
  ASSUME "range" \notin L2Faults, "delete" \notin L2Faults, L2Inv, NEW v \in Vs,
         delete_vswitch_persisted(v)
  PROVE  L2Inv'
<1> DEFINE K == {k \in Members(live.mem) : k[1] = v}
           A == delete_vswitch(Now, v)
           Back(z) == AndThen(create_vswitch(z, v), LAMBDA w : ForEach(K, w, "attach", live.mem))
           S == AndThen(A, LAMBDA y : OnError(persist_manager(y), Back))
           u == Gone(topo, v)
<1>1. /\ up /\ up' = up /\ rif' = rif /\ ~ ReservedSwitch(v)
      /\ \E o \in S : live' = o.d /\ topo' = o.t
  BY DEF delete_vswitch_persisted, Handle
<1>2. PICK o \in S : live' = o.d /\ topo' = o.t
  BY <1>1
<1>3. PICK y \in A : IF y.ok THEN o \in OnError(persist_manager(y), Back) ELSE o = y
  BY DEF AndThen
<1>4. /\ Sound(live, topo, rif) /\ live \in LiveType /\ TopoOK(topo) /\ RouterOK(topo, rif)
      /\ Runs(live, topo) /\ topo \in TopoType /\ live.mem = topo.mem
      /\ FilesFit(topo, rif) /\ Now \in Outcome /\ Now.d = live /\ Now.t = topo /\ Now.ok
      /\ CtxFits(live.ctx, topo.mem, rif) /\ live.uplink \subseteq UplinkPorts(rif)
  BY <1>1, Running
<1>5. K = MembersOf(topo, v) /\ K \in SUBSET Members(topo.mem)
  BY <1>4 DEF MembersOf
<1>6. /\ y \in Outcome /\ y.t = topo /\ y.d.uplink = live.uplink /\ y.d.ctx \subseteq live.ctx
      /\ \/ /\ Done(Now, y) /\ v \in topo.sw /\ Runs(y.d, u) /\ \A x \in y.d.ctx : x[2] # v
         \/ ~ y.ok /\ Runs(y.d, topo)
  BY <1>4, DeletedOrKept
<1>7. /\ TopoOK(u) /\ u.sw = topo.sw \ {v}
      /\ \A m \in Pair : u.mem[m] = IF m \in K THEN None ELSE topo.mem[m]
      /\ RouterOK(u, rif)
  <2>1. \A r \in Rif : rif[r] # "none" => RifAt[r] # v
    BY <1>1 DEF ReservedSwitch
  <2>2. QED
    BY <1>4, <1>5, <2>1, GoneOK
<1>8. y.d \in LiveType /\ y.d.ctx \in SUBSET Context
  BY <1>6, OutcomeFields, LiveFields
<1> HIDE DEF A, S, K, Back, u
<1>9. FilesFit(u, rif)
  BY <1>4, <1>7, FewerFit
<1>10. CASE ~ y.ok
  <2>1. o = y /\ Runs(y.d, topo)
    BY <1>3, <1>6, <1>10 DEF Done
  <2>2. Sound(y.d, topo, rif)
    BY <1>4, <1>6, <1>8, <2>1, SoundAgain
  <2>3. Sound(o.d, o.t, rif)
    BY <1>6, <2>1, <2>2
  <2>4. QED
    BY <1>1, <1>2, <2>3, HandleKeeps
<1>11. CASE y.ok
  <2>1. v \in topo.sw /\ Runs(y.d, u) /\ \A x \in y.d.ctx : x[2] # v
    BY <1>6, <1>11
  <2>2. PICK r \in persist_manager(y) :
          IF r.ok THEN o = r ELSE \E w \in Back([r EXCEPT !.ok = TRUE]) : o = [w EXCEPT !.ok = FALSE]
    BY <1>3, <1>11 DEF OnError
  <2>3. \/ r.ok /\ r \in Outcome /\ r.d = y.d /\ r.t = u
        \/ ~ r.ok /\ Undoing(y, [r EXCEPT !.ok = TRUE])
    BY <1>6, <1>7, <1>11, <2>1, SavedOrNot
  <2>4. CASE r.ok
    <3>1. o.d = y.d /\ o.t = u
      BY <2>2, <2>3, <2>4
    <3>2. ASSUME NEW x \in y.d.ctx, RifAt[x[1]] \in Vs, x[3] # None PROVE u.mem[<<x[2], x[3]>>] # None
      <4>1. x \in live.ctx /\ x \in Context /\ x[2] # v
        BY <1>6, <1>8, <2>1
      <4>2. x[2] = RifAt[x[1]] /\ topo.mem[<<x[2], x[3]>>] # None
        BY <1>4, <3>2, <4>1 DEF CtxFits
      <4>3. x[2] \in Vs /\ x[3] \in Port /\ <<x[2], x[3]>> \in Pair
        BY <3>2, <4>1, <4>2 DEF Context, Pair
      <4>4. <<x[2], x[3]>>[1] # v
        BY <4>1
      <4>5. <<x[2], x[3]>> \notin K
        BY <4>4 DEF K
      <4>6. QED
        BY <1>7, <4>2, <4>3, <4>5
    <3>3. CtxFits(y.d.ctx, u.mem, rif)
      BY <1>4, <1>6, <3>2 DEF CtxFits
    <3>4. Sound(y.d, u, rif)
      BY <1>4, <1>6, <1>8, <1>9, <2>1, <3>3 DEF Sound
    <3>5. QED
      BY <1>1, <1>2, <3>1, <3>4, HandleKeeps
  <2>5. CASE ~ r.ok
    <3> DEFINE z == [r EXCEPT !.ok = TRUE]
               c == Wider(u, v)
               C == create_vswitch(z, v)
    <3>1. PICK w \in Back(z) : o = [w EXCEPT !.ok = FALSE]
      BY <2>2, <2>5
    <3>2. z \in Outcome /\ z.ok /\ z.d = y.d /\ z.t = topo /\ z.left = 0
      BY <1>6, <2>3, <2>5 DEF Undoing
    <3> HIDE DEF z
    <3>3. PICK a \in C : IF a.ok THEN w \in ForEach(K, a, "attach", live.mem) ELSE w = a
      BY <3>1 DEF Back, AndThen
    <3>4. /\ a \in Outcome /\ a.t = z.t /\ a.d.ctx = z.d.ctx /\ a.d.uplink = z.d.uplink
          /\ \/ Done(z, a) /\ v \notin u.sw /\ Runs(a.d, c)
             \/ ~ a.ok /\ a.left = 0 /\ v \in u.sw /\ a.d = z.d
      BY <1>7, <2>1, <3>2, <3>3, SwitchCreated
    <3>5. a.ok /\ a.left = 0 /\ Runs(a.d, c)
      BY <1>7, <3>2, <3>4 DEF Done
    <3>6. c.sw = u.sw \union {v} /\ c.mem = u.mem
      BY <1>7, WiderOK
    <3> HIDE DEF c, C
    <3>7. Runs(a.d, Cut(topo, K))
      <4>1. Cut(topo, K).sw = topo.sw /\ \A m \in Pair : Cut(topo, K).mem[m] = IF m \in K THEN None ELSE topo.mem[m]
        BY <1>4, CutOK
      <4>2. topo.sw = (topo.sw \ {v}) \union {v}
        BY <2>1
      <4>3. Cut(topo, K).sw = c.sw /\ \A m \in Pair : Cut(topo, K).mem[m] = c.mem[m]
        BY <1>7, <3>6, <4>1, <4>2
      <4>4. QED
        BY <3>5, <4>3, RunsEqual
    <3>8. w \in ForEach(K, a, "attach", topo.mem)
      BY <1>4, <3>3, <3>5
    <3>9. Settled(a, w) /\ Runs(w.d, topo)
      BY <1>4, <1>5, <3>4, <3>5, <3>7, <3>8, MembersReturn
    <3>10. w \in Outcome /\ w.t = topo /\ w.d.ctx = y.d.ctx /\ w.d.uplink = live.uplink /\ w.d \in LiveType
      BY <1>6, <3>2, <3>4, <3>9, OutcomeFields DEF Settled
    <3>11. Sound(w.d, topo, rif)
      BY <1>4, <1>6, <3>9, <3>10, SoundAgain
    <3>12. o.d = w.d /\ o.t = topo
      BY <3>1, <3>10, Resumed
    <3>13. QED
      BY <1>1, <1>2, <3>11, <3>12, HandleKeeps
  <2>6. QED
    BY <2>4, <2>5
<1>12. QED
  BY <1>10, <1>11

-----------------------------------------------------------------------------
(***************************************************************************)
(* The router's side.                                                      *)
(***************************************************************************)

\* A step that changes nothing of the pairs.
LEMMA PairsKeep ==
  ASSUME L2Inv, up, up' = up, topo' = topo, rif' = rif, SamePairs(live, live'),
         live'.ctx \subseteq live.ctx \union Wanted(topo, rif)
  PROVE  L2Inv'
<1>1. Sound(live, topo, rif) /\ Runs(live, topo)
  BY Running
<1>2. live' \in LiveType /\ live'.uplink = live.uplink /\ Runs(live', topo)
  BY <1>1, RunsSame DEF SamePairs
<1>3. Sound(live', topo, rif)
  BY <1>1, <1>2, SoundAgain
<1>4. QED
  BY <1>3 DEF L2Inv

\* The route scan, and a neighbor that is learnt.
LEMMA SyncKeeps ==
  ASSUME L2Inv, NEW N, N \in SUBSET (Rif \X Port),
         \E e : e = [live EXCEPT !.nb = N] /\ Handle(eswitch_manager_hw_routes_sync([Now EXCEPT !.d = e]))
  PROVE  L2Inv'
<1>1. PICK e : e = [live EXCEPT !.nb = N] /\ Handle(eswitch_manager_hw_routes_sync([Now EXCEPT !.d = e]))
  OBVIOUS
<1> DEFINE x == [Now EXCEPT !.d = e]
<1>2. up /\ up' = up /\ rif' = rif /\ \E o \in eswitch_manager_hw_routes_sync(x) : live' = o.d /\ topo' = o.t
  BY <1>1 DEF Handle
<1>3. PICK o \in eswitch_manager_hw_routes_sync(x) : live' = o.d /\ topo' = o.t
  BY <1>2
<1>4. live \in LiveType /\ Now \in Outcome /\ Now.d = live /\ Now.t = topo /\ Now.ok
  BY <1>2, Running
<1>5. SamePairs(live, e) /\ e.ctx = live.ctx /\ e \in LiveType
  <2>1. e = [live EXCEPT !.nb = N]
    BY <1>1
  <2>2. /\ e \in LiveType /\ e.sw = live.sw /\ e.mem = live.mem /\ e.rec = live.rec /\ e.flood = live.flood
        /\ e.ctx = live.ctx /\ e.uplink = live.uplink
    BY <1>4, <2>1, ReplaceNb
  <2>3. QED
    BY <1>4, <2>2, SamePairsFields
<1>6. x \in Outcome /\ x.d = e /\ x.t = topo /\ x.ok
  BY <1>4, <1>5, WithLive
<1> HIDE DEF x
<1>7. o.t = x.t /\ SamePairs(x.d, o.d) /\ o.d.ctx = x.d.ctx
  BY <1>3, <1>6, SyncKeepsPairs
<1>8. SamePairs(live, live') /\ live'.ctx = live.ctx /\ topo' = topo
  BY <1>3, <1>5, <1>6, <1>7, SamePairsTrans
<1>9. QED
  BY <1>2, <1>8, PairsKeep

\* A router command: the contexts of every interface are prepared, and the
\* routes are written if the plan changes.
LEMMA RouterKeeps ==
  ASSUME L2Inv, NEW r \in Rif, NEW state \in {"none", "bare", "addressed"}, NEW d \in LiveType,
         d.sw = live.sw, d.mem = live.mem, d.rec = live.rec, d.flood = live.flood, d.ctx = live.ctx,
         d.uplink \subseteq UplinkPorts([rif EXCEPT ![r] = state]),
         RouterOK(topo, [rif EXCEPT ![r] = state]), RouterCommand(r, state, d)
  PROVE  L2Inv'
<1> DEFINE R == [rif EXCEPT ![r] = state]
           D == {x \in d.ctx : x[1] # r}
           C == D \union Wanted(d, R)
           a == CtxSet(d, C)
           f == CtxSet(d, D)
           b == Synced(a, R)
<1>1. /\ up /\ up' = up /\ topo' = topo /\ rif' = R /\ preflight_router_contexts(f, R)
      /\ live' = a \/ live' = b
  BY DEF RouterCommand, CtxSet
<1>2. /\ Runs(live, topo) /\ TopoOK(topo) /\ live \in LiveType /\ CtxFits(live.ctx, topo.mem, rif)
      /\ live.mem = topo.mem
  BY <1>1, Running
<1>3. R \in [Rif -> {"none", "bare", "addressed"}] /\ \A s \in Rif : s # r => R[s] = rif[s]
  BY DEF L2Inv
<1>4. RouterOK(topo, R) /\ d.uplink \subseteq UplinkPorts(R)
  OBVIOUS
<1> HIDE DEF R
<1>5. D \in SUBSET Context /\ D \subseteq live.ctx
  BY LiveFields
<1>6. Wanted(d, R) = Wanted(topo, R) /\ Wanted(d, R) \in SUBSET Context /\ CtxFits(Wanted(d, R), topo.mem, R)
  BY <1>2, WantedSame, WantedFits, LiveFields
<1>7. Cardinality(Wanted(topo, R)) <= MaxContexts
  <2>1. f.ctx = D /\ f \in LiveType /\ f.mem = d.mem
    <3>1. f.ctx = D /\ f \in LiveType
      BY <1>5, CtxWritten
    <3>2. f.mem = d.mem
      BY <1>5, ReplaceCtx DEF CtxSet
    <3>3. QED
      BY <3>1, <3>2
  <2> HIDE DEF f
  <2>2. Wanted(f, R) = Wanted(d, R)
    BY <2>1, WantedSame
  <2>3. Cardinality(D \union Wanted(d, R)) <= MaxContexts
    BY <1>1, <2>1, <2>2 DEF preflight_router_contexts
  <2>4. D \union Wanted(d, R) \in SUBSET Context /\ Wanted(d, R) \in SUBSET (D \union Wanted(d, R))
    BY <1>5, <1>6
  <2> HIDE DEF D
  <2>5. Cardinality(Wanted(d, R)) <= MaxContexts
    BY <2>3, <2>4, FewerContexts
  <2>6. QED
    BY <1>6, <2>5
<1>8. FilesFit(topo, R)
  BY <1>2, <1>4, <1>7 DEF FilesFit
<1>9. C \in SUBSET Context /\ CtxFits(C, topo.mem, R)
  <2>1. CtxFits(D, topo.mem, R)
    <3>1. \A x \in D : x \in live.ctx /\ x \in Context /\ x[1] # r /\ x[1] \in Rif
      BY <1>5 DEF Context
    <3>2. \A x \in D : R[x[1]] = rif[x[1]]
      BY <1>3, <3>1
    <3> HIDE DEF D
    <3>3. QED
      BY <1>2, <3>1, <3>2 DEF CtxFits
  <2>2. QED
    BY <1>5, <1>6, <2>1 DEF CtxFits
<1> HIDE DEF C
<1>10. SamePairs(d, a) /\ a.ctx = C /\ a \in LiveType
  BY <1>9, CtxWritten
<1> HIDE DEF a, f
<1>11. SamePairs(a, b) /\ b.ctx = a.ctx
  <2>1. Plan(a, R) \in SUBSET (Rif \X Port) /\ FALSE \in BOOLEAN
    BY <1>10, PlanType
  <2>2. b = RoutesSet(a, Plan(a, R), FALSE)
    BY DEF Synced, RoutesSet
  <2>3. QED
    BY <1>10, <2>1, <2>2, RoutesWritten
<1> HIDE DEF b
<1>12. SamePairs(d, live') /\ live'.ctx = C
  BY <1>1, <1>10, <1>11, SamePairsTrans
<1>14. Runs(d, topo)
  BY <1>2 DEF Runs, Absent, Present, InGroup
<1>15. Runs(live', topo) /\ live' \in LiveType /\ live'.uplink = d.uplink
  BY <1>12, <1>14, RunsSame DEF SamePairs
<1>16. Sound(live', topo, R)
  BY <1>4, <1>8, <1>9, <1>12, <1>15 DEF Sound
<1>17. QED
  BY <1>1, <1>3, <1>8, <1>16 DEF L2Inv

\* An interface is attached to a vSwitch without tagged members or to a port
\* that is nobody's.
LEMMA RifAttachKeeps ==
  ASSUME L2Inv, NEW r \in Rif, RifAttach(r)
  PROVE  L2Inv'
<1> DEFINE N == live.uplink \union ({RifAt[r]} \intersect Port)
           d == [live EXCEPT !.uplink = N]
           R == [rif EXCEPT ![r] = "bare"]
<1>1. /\ rif[r] = "none" /\ RouterCommand(r, "bare", d) /\ up
      /\ IF RifAt[r] \in Vs THEN inventory_switch(RifAt[r])
         ELSE inventory_port(RifAt[r]) /\ ~ ReservedPort(RifAt[r])
  BY DEF RifAttach, RouterCommand
<1>2. /\ live \in LiveType /\ live.mem = topo.mem /\ live.sw = topo.sw /\ RouterOK(topo, rif)
      /\ live.uplink \subseteq UplinkPorts(rif)
  BY <1>1, Running
<1>3. rif \in [Rif -> {"none", "bare", "addressed"}] /\ R[r] = "bare" /\ \A s \in Rif : s # r => R[s] = rif[s]
  BY DEF L2Inv
<1>4. N \in SUBSET Port
  BY <1>2, LiveFields
<1>5. N \subseteq UplinkPorts(R)
  BY <1>2, <1>3 DEF UplinkPorts
<1>6. RouterOK(topo, R)
  <2>1. ASSUME NEW s \in Rif, R[s] # "none"
        PROVE  IF RifAt[s] \in Vs
               THEN RifAt[s] \in topo.sw /\ \A k \in Members(topo.mem) : k[1] = RifAt[s] => ~ Tagged(topo.mem[k])
               ELSE \A k \in Members(topo.mem) : k[2] # RifAt[s]
    <3>1. CASE s = r
      BY <1>1, <1>2, <3>1 DEF inventory_switch, inventory_port
    <3>2. CASE s # r
      BY <1>2, <1>3, <2>1, <3>2 DEF RouterOK
    <3>3. QED
      BY <3>1, <3>2
  <2> HIDE DEF R
  <2>2. QED
    BY <2>1 DEF RouterOK
<1> HIDE DEF N
<1>7. /\ d \in LiveType /\ d.uplink = N /\ d.sw = live.sw /\ d.mem = live.mem /\ d.rec = live.rec
      /\ d.flood = live.flood /\ d.ctx = live.ctx
  BY <1>2, <1>4, ReplaceUplink
<1> HIDE DEF d
<1>8. QED
  BY <1>1, <1>5, <1>6, <1>7, RouterKeeps

\* Less of the router fits.
LEMMA RifDetachKeeps ==
  ASSUME L2Inv, NEW r \in Rif, RifDetach(r)
  PROVE  L2Inv'
<1> DEFINE N == live.uplink \ {RifAt[r]}
           B == {x \in live.nb : x[1] # r}
           e == [live EXCEPT !.uplink = N]
           d == [e EXCEPT !.nb = B]
           R == [rif EXCEPT ![r] = "none"]
<1>1. RouterCommand(r, "none", d) /\ up
  BY DEF RifDetach, RouterCommand
<1>2. live \in LiveType /\ RouterOK(topo, rif) /\ live.uplink \subseteq UplinkPorts(rif)
  BY <1>1, Running
<1>3. rif \in [Rif -> {"none", "bare", "addressed"}] /\ R[r] = "none" /\ \A s \in Rif : s # r => R[s] = rif[s]
  BY DEF L2Inv
<1>4. N \in SUBSET Port /\ B \in SUBSET (Rif \X Port)
  BY <1>2, LiveFields
<1>5. N \subseteq UplinkPorts(R)
  BY <1>2, <1>3 DEF UplinkPorts
<1>6. RouterOK(topo, R)
  BY <1>2, <1>3 DEF RouterOK
<1> HIDE DEF N, B
<1>7. /\ e \in LiveType /\ e.uplink = N /\ e.sw = live.sw /\ e.mem = live.mem /\ e.rec = live.rec
      /\ e.flood = live.flood /\ e.ctx = live.ctx
  BY <1>2, <1>4, ReplaceUplink
<1> HIDE DEF e
<1>8. /\ d \in LiveType /\ d.uplink = N /\ d.sw = live.sw /\ d.mem = live.mem /\ d.rec = live.rec
      /\ d.flood = live.flood /\ d.ctx = live.ctx
  BY <1>4, <1>7, ReplaceNb
<1> HIDE DEF d
<1>9. QED
  BY <1>1, <1>5, <1>6, <1>8, RouterKeeps

\* An address is given to an interface or taken from it.
LEMMA RifAddressKeeps ==
  ASSUME L2Inv, NEW r \in Rif, RifAddress(r) \/ RifUnaddress(r)
  PROVE  L2Inv'
<1>1. PICK state \in {"bare", "addressed"} : RouterCommand(r, state, live)
  BY DEF RifAddress, RifUnaddress
<1>2. rif[r] # "none" /\ up
  BY <1>1 DEF RifAddress, RifUnaddress, RouterCommand
<1> DEFINE R == [rif EXCEPT ![r] = state]
<1>3. live \in LiveType /\ RouterOK(topo, rif) /\ live.uplink \subseteq UplinkPorts(rif)
  BY <1>2, Running
<1>4. rif \in [Rif -> {"none", "bare", "addressed"}] /\ \A s \in Rif : R[s] # "none" => rif[s] # "none"
  BY <1>2 DEF L2Inv
<1>5. \A s \in Rif : rif[s] # "none" => R[s] # "none"
  BY <1>4
<1>6. live.uplink \subseteq UplinkPorts(R)
  BY <1>3, <1>5 DEF UplinkPorts
<1>7. RouterOK(topo, R)
  BY <1>3, <1>4 DEF RouterOK
<1>8. state \in {"none", "bare", "addressed"}
  OBVIOUS
<1>9. QED
  BY <1>1, <1>3, <1>6, <1>7, <1>8, RouterKeeps

\* A station is heard; the route scan runs.
LEMMA LearnKeeps ==
  ASSUME L2Inv, NEW r \in Rif, NEW p \in Port, Learn(r, p)
  PROVE  L2Inv'
<1> DEFINE N == live.nb \union {<<r, p>>}
           e == [live EXCEPT !.nb = N]
<1>1. up /\ Handle(eswitch_manager_hw_routes_sync([Now EXCEPT !.d.nb = @ \union {<<r, p>>}]))
  BY DEF Learn, Handle
<1>2. live \in LiveType
  BY <1>1, Running
<1>3. N \in SUBSET (Rif \X Port)
  BY <1>2, LiveFields
<1>4. [Now EXCEPT !.d.nb = @ \union {<<r, p>>}] = [Now EXCEPT !.d = e]
  BY DEF Now
<1> HIDE DEF N
<1>5. \E f : f = [live EXCEPT !.nb = N] /\ Handle(eswitch_manager_hw_routes_sync([Now EXCEPT !.d = f]))
  BY <1>1, <1>4
<1>6. QED
  BY <1>3, <1>5, SyncKeeps

\* As LearnKeeps.
LEMMA MaintenanceKeeps ==
  ASSUME L2Inv, Maintenance
  PROVE  L2Inv'
<1>1. up /\ up' = up /\ rif' = rif /\ \E o \in eswitch_manager_hw_routes_sync(Now) : live' = o.d /\ topo' = o.t
  BY DEF Maintenance, Handle
<1>2. PICK o \in eswitch_manager_hw_routes_sync(Now) : live' = o.d /\ topo' = o.t
  BY <1>1
<1>3. Now \in Outcome /\ Now.d = live /\ Now.t = topo /\ Now.ok
  BY <1>1, Running
<1>4. o.t = Now.t /\ SamePairs(Now.d, o.d) /\ o.d.ctx = Now.d.ctx
  BY <1>3, SyncKeepsPairs
<1>5. SamePairs(live, live') /\ live'.ctx = live.ctx /\ topo' = topo
  BY <1>2, <1>3, <1>4
<1>6. QED
  BY <1>1, <1>5, PairsKeep

\* Time passes.
LEMMA TimeKeeps ==
  ASSUME L2Inv, RetryDue \/ \E r \in Rif, p \in Port : Expire(r, p)
  PROVE  L2Inv'
<1>1. up /\ up' = up /\ topo' = topo /\ rif' = rif
  BY DEF RetryDue, Expire
<1>2. live \in LiveType
  BY <1>1, Running
<1>3. /\ live' \in LiveType /\ live'.sw = live.sw /\ live'.mem = live.mem /\ live'.rec = live.rec
      /\ live'.flood = live.flood /\ live'.ctx = live.ctx /\ live'.uplink = live.uplink
  <2>1. CASE RetryDue
    <3>1. live' = [live EXCEPT !.backoff = FALSE] /\ FALSE \in BOOLEAN
      BY <2>1 DEF RetryDue
    <3>2. QED
      BY <1>2, <3>1, ReplaceBackoff
  <2>2. CASE \E r \in Rif, p \in Port : Expire(r, p)
    <3>1. PICK r \in Rif, p \in Port : Expire(r, p)
      BY <2>2
    <3> DEFINE N == live.nb \ {<<r, p>>}
    <3>2. live' = [live EXCEPT !.nb = N]
      BY <3>1 DEF Expire
    <3>3. N \in SUBSET (Rif \X Port)
      BY <1>2, LiveFields
    <3> HIDE DEF N
    <3>4. QED
      BY <1>2, <3>2, <3>3, ReplaceNb
  <2>3. QED
    BY <2>1, <2>2
<1>4. SamePairs(live, live')
  BY <1>2, <1>3, SamePairsFields
<1>5. QED
  BY <1>1, <1>3, <1>4, PairsKeep

\* A routed frame binds contexts that the interface may have.
LEMMA BindKeeps ==
  ASSUME L2Inv, NEW r \in Rif, NEW p \in Port, bind_route_egress(r, p)
  PROVE  L2Inv'
<1> DEFINE new == {x \in Contexts(live, r) : x[3] \in {None, p}}
           C == live.ctx \union new
<1>1. /\ up /\ up' = up /\ topo' = topo /\ rif' = rif /\ rif[r] = "addressed"
      /\ live' = CtxSet(live, C)
  BY DEF bind_route_egress, CtxSet
<1>2. live \in LiveType /\ TopoOK(topo) /\ Runs(live, topo) /\ live.ctx \in SUBSET Context /\ live.mem \in MemType
  BY <1>1, Running, LiveFields
<1>3. Wanted(live, rif) = Wanted(topo, rif) /\ Wanted(live, rif) \in SUBSET Context
  BY <1>2, WantedRuns, WantedFits
<1>4. new \subseteq Wanted(live, rif)
  BY <1>1 DEF Wanted
<1> HIDE DEF new
<1>5. C \in SUBSET Context /\ C \subseteq live.ctx \union Wanted(topo, rif)
  BY <1>2, <1>3, <1>4
<1> HIDE DEF C
<1>6. SamePairs(live, CtxSet(live, C)) /\ CtxSet(live, C).ctx = C
  BY <1>2, <1>5, CtxWritten
<1>7. QED
  BY <1>1, <1>5, <1>6, PairsKeep

\* The memory of a daemon that starts.
LEMMA EmptyIs ==
  /\ EmptyLive \in LiveType /\ EmptyLive.sw = {} /\ EmptyLive.ctx = {} /\ EmptyLive.uplink = {}
  /\ \A k \in Pair : EmptyLive.mem[k] = None /\ EmptyLive.rec[k] = None
  /\ \A k \in Pair : EmptyLive.flood[k[1]] = None
<1> DEFINE M == [k \in Pair |-> None]
           F == [v \in Vs |-> None]
<1>1. M \in MemType /\ M \in [Pair -> Record \union {None}] /\ F \in [Vs -> (SUBSET Port) \union {None}]
  BY DEF MemType
<1>2. \A k \in Pair : M[k] = None /\ F[k[1]] = None
  BY DEF Pair
<1>3. /\ EmptyLive.sw = {} /\ EmptyLive.mem = M /\ EmptyLive.rec = M /\ EmptyLive.flood = F
      /\ EmptyLive.ctx = {} /\ EmptyLive.uplink = {}
  BY DEF EmptyLive
<1>4. EmptyLive = [sw |-> {}, mem |-> M, rec |-> M, flood |-> F, ctx |-> {}, uplink |-> {}, nb |-> {},
                   lpm |-> {}, degraded |-> FALSE, backoff |-> FALSE]
  BY DEF EmptyLive
<1> HIDE DEF M, F
<1>5. EmptyLive \in LiveType
  BY <1>1, <1>4 DEF LiveType
<1>6. QED
  BY <1>2, <1>3, <1>5

\* A daemon that crashes.
LEMMA CrashKeeps ==
  ASSUME L2Inv, Crash
  PROVE  L2Inv'
BY DEF L2Inv, Crash

\* restore_manager and router_control_restore: every file that fits the other is
\* restored, and the topology runs.
LEMMA RestoredRuns ==
  ASSUME "range" \notin L2Faults, NEW t, NEW R, FilesFit(t, R), NEW o \in Restored(t, R)
  PROVE  o.ok /\ Sound(o.d, t, R)
<1> DEFINE S == Members(t.mem)
           e == [EmptyLive EXCEPT !.sw = t.sw]
           empty == [d |-> e, t |-> t, ok |-> TRUE, left |-> 0]
           rifs == {r \in Rif : R[r] # "none"}
           Found(d) == \A r \in rifs :
                         IF RifAt[r] \in Vs
                         THEN RifAt[r] \in d.sw /\ \A k \in Members(d.mem) :
                                k[1] = RifAt[r] => ~ Tagged(d.mem[k])
                         ELSE \A k \in Members(d.mem) : k[2] # RifAt[r]
           ports == {RifAt[r] : r \in rifs} \intersect Port
           L == ForEach(S, empty, "restore", t.mem)
           x(y) == [y EXCEPT !.d.uplink = ports]
<1>1. PICK y \in L : IF y.ok THEN o \in IF ~ Found(y.d) THEN Error(y)
                                         ELSE eswitch_manager_router_prearm(x(y), R)
                     ELSE o = y
  BY DEF Restored, AndThen
<1>2. TopoOK(t) /\ RouterOK(t, R) /\ t \in TopoType /\ t.sw \in SUBSET Vs /\ Cardinality(Wanted(t, R)) <= MaxContexts
  BY DEF FilesFit, TopoOK, TopoType
<1>3. e \in LiveType /\ e.sw = t.sw /\ e.mem = EmptyLive.mem /\ e.rec = EmptyLive.rec
      /\ e.flood = EmptyLive.flood /\ e.ctx = {} /\ e.uplink = {}
  BY <1>2, EmptyIs, ReplaceSw
<1> HIDE DEF e
<1>4. empty \in Outcome /\ empty.d = e /\ empty.t = t /\ empty.ok /\ empty.left = 0
  BY <1>2, <1>3 DEF Outcome
<1> HIDE DEF empty
<1>5. Runs(empty.d, Cut(t, S))
  <2>1. Cut(t, S).sw = t.sw /\ \A m \in Pair : Cut(t, S).mem[m] = IF m \in S THEN None ELSE t.mem[m]
    BY <1>2, CutOK
  <2>2. \A m \in Pair : Cut(t, S).mem[m] = None
    BY <2>1 DEF Members
  <2>3. \A m \in Pair : Absent(e, m)
    BY <1>3, EmptyIs DEF Absent, InGroup
  <2>4. QED
    BY <1>3, <1>4, <2>1, <2>2, <2>3 DEF Runs
<1>6. Settled(empty, y) /\ Runs(y.d, t)
  <2>1. "restore" \in {"attach", "restore"} /\ ("restore" = "attach" => RouterOK(t, rif)) /\ S \in SUBSET Members(t.mem)
    OBVIOUS
  <2> HIDE DEF S
  <2>2. y \in ForEach(S, empty, "restore", t.mem)
    OBVIOUS
  <2>3. QED
    BY ONLY "range" \notin L2Faults, <1>2, <1>4, <1>5, <2>1, <2>2, MembersReturn
<1>7. /\ y \in Outcome /\ y.ok /\ y.left = 0 /\ y.t = t /\ y.d.ctx = {} /\ y.d.uplink = {}
      /\ y.d \in LiveType /\ y.d.sw = t.sw /\ y.d.mem = t.mem
  BY <1>2, <1>3, <1>4, <1>6, OutcomeFields, RunsMem DEF Settled
<1>8. Found(y.d)
  BY <1>2, <1>7 DEF RouterOK
<1>9. o \in eswitch_manager_router_prearm(x(y), R)
  BY <1>1, <1>7, <1>8
<1>10. ports \in SUBSET Port /\ ports = UplinkPorts(R)
  BY DEF UplinkPorts
<1> HIDE DEF ports, L, Found
<1> DEFINE g == [y.d EXCEPT !.uplink = ports]
           z == [y EXCEPT !.d = g]
<1>11. x(y) = z
  BY <1>7 DEF Outcome
<1>12. /\ g \in LiveType /\ g.uplink = ports /\ g.sw = y.d.sw /\ g.mem = y.d.mem /\ g.rec = y.d.rec
       /\ g.flood = y.d.flood /\ g.ctx = y.d.ctx
  BY <1>7, <1>10, ReplaceUplink
<1> HIDE DEF g, x
<1>13. z \in Outcome /\ z.d = g /\ z.t = t /\ z.ok /\ z.left = 0
  BY <1>7, <1>12, WithLive
<1> HIDE DEF z
<1>14. Runs(g, t)
  BY <1>6, <1>12 DEF Runs, Absent, Present, InGroup
<1>15. Wanted(g, R) = Wanted(t, R) /\ preflight_router_contexts(g, R)
  <2>1. Wanted(g, R) = Wanted(t, R)
    BY <1>2, <1>12, <1>14, WantedRuns
  <2>2. g.ctx \union Wanted(g, R) = Wanted(t, R)
    BY <1>7, <1>12, <2>1
  <2>3. QED
    BY <1>2, <2>1, <2>2 DEF preflight_router_contexts
<1>16. /\ o \in Outcome /\ SamePairs(z.d, o.d) /\ o.d.ctx \subseteq z.d.ctx \union Wanted(z.d, R)
       /\ \/ Done(z, o)
          \/ z.left = 1 \/ ~ preflight_router_contexts(z.d, R)
  BY <1>9, <1>11, <1>13, PrearmKeeps
<1>17. o.ok /\ o.d.ctx \subseteq Wanted(t, R)
  BY <1>7, <1>12, <1>13, <1>15, <1>16 DEF Done
<1>18. Runs(o.d, t) /\ o.d \in LiveType /\ o.d.uplink = UplinkPorts(R)
  BY <1>10, <1>12, <1>13, <1>14, <1>16, RunsSame DEF SamePairs
<1>19. CtxFits(o.d.ctx, t.mem, R)
  <2>1. CtxFits(Wanted(t, R), t.mem, R)
    BY <1>2, WantedFits DEF TopoType
  <2>2. QED
    BY <1>17, <2>1 DEF CtxFits
<1>20. QED
  BY <1>17, <1>18, <1>19 DEF Sound

\* A daemon that starts again.
LEMMA RestartKeeps ==
  ASSUME "range" \notin L2Faults, L2Inv, Restart
  PROVE  L2Inv'
<1>1. up' = TRUE /\ topo' = topo /\ rif' = rif /\ FilesFit(topo, rif)
  BY DEF Restart, L2Inv
<1>2. PICK o \in Restored(topo, rif) : live' = o.d
  BY DEF Restart
<1>3. Sound(live', topo, rif)
  BY <1>1, <1>2, RestoredRuns
<1>4. QED
  BY <1>1, <1>3 DEF L2Inv

\* The first start.
LEMMA InitFits ==
  ASSUME Init
  PROVE  L2Inv
<1> DEFINE t == Topology(EmptyLive)
<1>1. up = TRUE /\ live = EmptyLive /\ topo = t /\ rif = [r \in Rif |-> "none"]
  BY DEF Init
<1>2. /\ EmptyLive \in LiveType /\ EmptyLive.sw = {} /\ EmptyLive.ctx = {} /\ EmptyLive.uplink = {}
      /\ EmptyLive.mem \in MemType /\ \A k \in Pair : EmptyLive.mem[k] = None
  BY EmptyIs, LiveFields
<1>3. t \in TopoType /\ t.sw = {} /\ t.mem = EmptyLive.mem
  BY <1>2 DEF Topology, TopoType
<1> HIDE DEF t
<1>4. Members(t.mem) = {}
  BY <1>2, <1>3 DEF Members
<1>5. RuleSlots(t.mem) = {}
  BY <1>4 DEF RuleSlots
<1>6. Cardinality(RuleSlots(t.mem)) <= MaxRules
  BY <1>5, L2Assumption, FS_EmptySet
<1>7. TopoOK(t)
  BY <1>3, <1>4, <1>6 DEF TopoOK, AllFine
<1>8. \A r \in Rif : rif[r] = "none"
  BY <1>1
<1>9. RouterOK(t, rif)
  BY <1>8 DEF RouterOK
<1>10. Wanted(t, rif) = {}
  BY <1>8 DEF Wanted
<1>11. Cardinality(Wanted(t, rif)) <= MaxContexts
  BY <1>10, L2Assumption, FS_EmptySet
<1>12. FilesFit(t, rif)
  BY <1>7, <1>9, <1>11 DEF FilesFit
<1>13. Runs(EmptyLive, t)
  BY <1>2, <1>3, EmptyIs DEF Runs, Absent, InGroup
<1>14. Sound(EmptyLive, t, rif)
  BY <1>2, <1>12, <1>13 DEF Sound, CtxFits
<1>15. rif \in [Rif -> {"none", "bare", "addressed"}]
  BY <1>1
<1>16. QED
  BY <1>1, <1>12, <1>14, <1>15 DEF L2Inv

\* The two faults that a command does not recover from: a list whose removal
\* stops half way, and delete_vswitch stopping after its first removal.
Recoverable == "range" \notin L2Faults /\ "delete" \notin L2Faults

\* Every step keeps the files fitting each other and the memory running them.
LEMMA NextKeeps ==
  ASSUME Recoverable, L2Inv, [Next]_l2vars
  PROVE  L2Inv'
<1>1. "range" \notin L2Faults /\ "delete" \notin L2Faults
  BY DEF Recoverable
<1>2. CASE Command
  <2>1. CASE \E v \in Vs : create_vswitch_persisted(v) \/ delete_vswitch_persisted(v)
    BY <1>1, <2>1, CreateKeeps, DeleteKeeps
  <2>2. CASE \E k \in Pair : detach_port_persisted(k) \/ \E s \in Request : attach_port_persisted(k, s)
    <3>1. Request \subseteq PortSpec
      BY L2Assumption
    <3>2. QED
      BY <1>1, <2>2, <3>1, DetachKeeps, AttachKeeps
  <2>3. QED
    BY <1>2, <2>1, <2>2 DEF Command
<1>3. CASE Routing
  <2>1. CASE \E r \in Rif : RifAttach(r) \/ RifDetach(r) \/ RifAddress(r) \/ RifUnaddress(r)
    BY <2>1, RifAttachKeeps, RifDetachKeeps, RifAddressKeeps
  <2>2. CASE \E r \in Rif, p \in Port : Learn(r, p) \/ Expire(r, p) \/ bind_route_egress(r, p)
    BY <2>2, LearnKeeps, TimeKeeps, BindKeeps
  <2>3. QED
    BY <1>3, <2>1, <2>2 DEF Routing
<1>4. CASE Maintenance
  BY <1>4, MaintenanceKeeps
<1>5. CASE RetryDue
  BY <1>5, TimeKeeps
<1>6. CASE Crash
  BY <1>6, CrashKeeps
<1>7. CASE Restart
  BY <1>1, <1>7, RestartKeeps
<1>8. CASE UNCHANGED l2vars
  BY <1>8 DEF l2vars, L2Inv
<1>9. QED
  BY <1>2, <1>3, <1>4, <1>5, <1>6, <1>7, <1>8 DEF Next

-----------------------------------------------------------------------------
(***************************************************************************)
(* The theorems.                                                           *)
(***************************************************************************)

\* The invariant: whatever fails, the topology file and the router file fit each
\* other, and a running daemon has programmed what the first says.
THEOREM L2Invariant == ASSUME Recoverable PROVE L2Spec => []L2Inv
<1>1. Init => L2Inv
  BY InitFits
<1>2. L2Inv /\ [Next]_l2vars => L2Inv'
  BY NextKeeps
<1>3. QED
  BY <1>1, <1>2, PTL DEF L2Spec

\* The file, the memory and the switch keep their types, and the rules of the
\* file fit the classifier.
THEOREM L2Types == ASSUME Recoverable PROVE L2Spec => []L2TypeOK
<1>1. L2Inv => L2TypeOK
  BY EmptyIs DEF L2Inv, L2TypeOK, Sound, FilesFit, TopoOK
<1>2. QED
  BY <1>1, L2Invariant, PTL

\* Wherever the daemon stops, the next start finds the ports and vSwitches of
\* every interface and has room for their contexts (router_control_restore).
THEOREM AlwaysRestorable == ASSUME Recoverable PROVE L2Spec => []Restorable
<1>1. L2Inv => Restorable
  BY RestoredRuns DEF Restorable, L2Inv, Recoverable
<1>2. QED
  BY <1>1, L2Invariant, PTL

\* A frame is classified into one vSwitch or to the router, never to both
\* (eswitch_pipeline_attach_port).
THEOREM OneOwner == ASSUME Recoverable PROVE L2Spec => []OneClassifier
<1>1. ASSUME L2Inv PROVE OneClassifier
  <2>1. CASE ~ up
    <3>1. live = EmptyLive
      BY <1>1, <2>1 DEF L2Inv
    <3>2. Members(Spec(live.rec)) = {}
      BY <3>1, EmptyIs DEF Members, Spec
    <3>3. QED
      BY <3>2 DEF OneClassifier
  <2>2. CASE up
    <3>1. /\ live \in LiveType /\ TopoOK(topo) /\ RouterOK(topo, rif) /\ Runs(live, topo)
          /\ live.uplink \subseteq UplinkPorts(rif) /\ Spec(live.rec) = topo.mem
      BY <1>1, <2>2, Running, RunsMem
    <3>2. ASSUME NEW k \in Members(topo.mem)
          PROVE  /\ k \in Pair /\ Fine(topo.mem[k]) /\ ListWords(topo.mem[k])
                 /\ live.rec[k].tags = MemberTags(topo.mem[k])
      <4>1. k \in Pair /\ topo.mem[k] # None /\ Fine(topo.mem[k])
        BY <3>1 DEF TopoOK, AllFine, Members
      <4>2. live.rec[k] = Installed(topo.mem[k])
        BY <3>1, <4>1 DEF Runs, Present
      <4>3. QED
        BY <4>1, <4>2, SpecWords DEF Installed, Fine
    <3>3. ASSUME NEW k \in Members(topo.mem), NEW m \in Members(topo.mem), k[2] = m[2], k # m
          PROVE  live.rec[k].tags \intersect live.rec[m].tags = {}
      <4> DEFINE l == topo.mem[k]
                 n == topo.mem[m]
      <4>1. l.mode = "trunk" /\ n.mode = "trunk" /\ ~ eswitch_vlan_allowlists_overlap(l, n)
        BY <3>1, <3>3 DEF TopoOK, Compatible
      <4>2. eswitch_vlan_allowlist_valid(l) /\ eswitch_vlan_allowlist_valid(n) /\ ListWords(l) /\ ListWords(n)
        BY <3>2, <4>1 DEF Fine, ValidRequest
      <4> HIDE DEF l, n
      <4>3. VlanSet(l) \intersect VlanSet(n) = {}
        BY <4>1, <4>2, OverlapTheorem
      <4>4. MemberTags(l) = VlanSet(l) /\ MemberTags(n) = VlanSet(n)
        BY <4>1 DEF MemberTags
      <4>5. QED
        BY <3>2, <4>3, <4>4 DEF l, n
    <3>4. ASSUME NEW k \in Members(topo.mem), k[2] \in live.uplink PROVE FALSE
      <4>1. PICK r \in Rif : rif[r] # "none" /\ RifAt[r] = k[2] /\ k[2] \in Port
        BY <3>1, <3>4 DEF UplinkPorts
      <4>2. RifAt[r] \notin Vs
        BY <4>1, L2Assumption
      <4>3. QED
        BY <3>1, <4>1, <4>2 DEF RouterOK
    <3>5. QED
      BY <3>1, <3>3, <3>4 DEF OneClassifier
  <2>3. QED
    BY <2>1, <2>2
<1>2. QED
  BY <1>1, L2Invariant, PTL

\* A command that reports an error leaves memory, file, classifier and flood
\* groups as they were: what runs is what the file says.
THEOREM SwitchesFollowFile == ASSUME Recoverable PROVE L2Spec => []SwitchesMembers
<1>1. ASSUME L2Inv, up PROVE SwitchesMembers
  <2>1. live \in LiveType /\ TopoOK(topo) /\ Runs(live, topo) /\ live.mem = topo.mem
    BY <1>1, Running
  <2>2. Topology(live) = topo
    BY <2>1, WantedRuns
  <2>3. ASSUME NEW k \in Pair
        PROVE  /\ IF live.mem[k] = None THEN live.rec[k] = None
                  ELSE live.rec[k] = [spec |-> live.mem[k], tags |-> MemberTags(live.mem[k])]
               /\ InGroup(live, k) <=> live.mem[k] # None
    <3>1. IF topo.mem[k] = None THEN Absent(live, k) ELSE Present(live, k, topo.mem[k])
      BY <2>1 DEF Runs
    <3>2. QED
      BY <2>1, <3>1 DEF Absent, Present, Installed
  <2>4. ASSUME NEW v \in Vs, NEW p \in Port
        PROVE  (live.flood[v] # None /\ p \in live.flood[v]) <=> live.mem[<<v, p>>] # None
    <3>1. <<v, p>> \in Pair
      BY DEF Pair
    <3>2. InGroup(live, <<v, p>>) <=> live.flood[v] # None /\ p \in live.flood[v]
      BY DEF InGroup
    <3>3. QED
      BY <2>3, <3>1, <3>2
  <2>5. QED
    BY <2>2, <2>3, <2>4 DEF SwitchesMembers
<1>2. ASSUME L2Inv PROVE SwitchesMembers
  BY <1>1, <1>2 DEF SwitchesMembers
<1>3. QED
  BY <1>2, L2Invariant, PTL

\* No return context of an interface points at the egress gate of a port that
\* has left the vSwitch (unarm_router_member before detach_port).
THEOREM GatesExist == ASSUME Recoverable PROVE L2Spec => []ContextGateExists
<1>1. ASSUME L2Inv PROVE ContextGateExists
  <2>1. CASE ~ up
    <3>1. live.ctx = {}
      BY <1>1, <2>1, EmptyIs DEF L2Inv
    <3>2. QED
      BY <3>1 DEF ContextGateExists
  <2>2. CASE up
    <3>1. live \in LiveType /\ TopoOK(topo) /\ Runs(live, topo) /\ CtxFits(live.ctx, topo.mem, rif)
      BY <1>1, <2>2, Running
    <3>2. ASSUME NEW x \in live.ctx, RifAt[x[1]] \in Vs, x[3] # None
          PROVE  live.rec[<<x[2], x[3]>>] # None
      <4> DEFINE k == <<x[2], x[3]>>
      <4>1. x \in Context /\ x[2] = RifAt[x[1]] /\ topo.mem[k] # None
        BY <3>1, <3>2, LiveFields DEF CtxFits
      <4>2. k \in Pair
        BY <3>2, <4>1 DEF Context, Pair
      <4> HIDE DEF k
      <4>3. Fine(topo.mem[k]) /\ live.rec[k] = Installed(topo.mem[k])
        BY <3>1, <4>1, <4>2 DEF TopoOK, AllFine, Members, Runs, Present
      <4>4. live.rec[k] # None
        BY <4>3, Records
      <4>5. QED
        BY <4>4 DEF k
    <3>3. QED
      BY <3>2 DEF ContextGateExists
  <2>3. QED
    BY <2>1, <2>2
<1>2. QED
  BY <1>1, L2Invariant, PTL
=============================================================================
