------------------------------ MODULE LoopLemmas -----------------------------
(***************************************************************************)
(* What the proofs need to know about loops over an array: a loop of n     *)
(* turns is a recursive function of the turn, and a set that every turn    *)
(* stays in holds the result.  Stated over sets, so that the provers can   *)
(* instantiate the lemmas.  Also that SetToSeq enumerates its set, and the *)
(* fact about division that masks and aligned blocks rest on.              *)
(***************************************************************************)
EXTENDS Integers, SequencesExt, FiniteSetTheorems, NaturalsInduction, WellFoundedInduction, TLAPS

\* A set of numbers has a least element.
LEMMA NatLeast ==
  ASSUME NEW T, T \subseteq Nat, T # {}
  PROVE  \E x \in T : \A y \in T : x <= y
<1>1. PICK x \in T : \A y \in T : ~ (<<y, x>> \in OpToRel(<, Nat))
  BY WFMin, NatLessThanWellFounded, Zenon
<1>2. ASSUME NEW y \in T PROVE x <= y
  <2>1. x \in Nat /\ y \in Nat
    OBVIOUS
  <2>2. y < x => <<y, x>> \in OpToRel(<, Nat)
    BY <2>1, Zenon DEF OpToRel
  <2>3. ~ (y < x)
    BY <1>1, <2>2, Zenon
  <2>4. QED
    BY <2>1, <2>3
<1>3. QED
  BY <1>2

\* A bounded set of numbers has a greatest element.
LEMMA NatGreatest ==
  ASSUME NEW b \in Nat, NEW T, T \subseteq 0..b, T # {}
  PROVE  \E x \in T : \A y \in T : y <= x
<1> DEFINE D == {b - x : x \in T}
<1>1. D \subseteq Nat /\ D # {}
  <2>1. \A x \in T : b - x \in Nat
    OBVIOUS
  <2>2. QED
    BY <2>1, Zenon
<1>2. PICK d \in D : \A e \in D : d <= e
  BY <1>1, NatLeast, Zenon
<1>3. PICK x \in T : d = b - x
  OBVIOUS
<1>4. ASSUME NEW y \in T PROVE y <= x
  <2>1. b - x <= b - y
    BY <1>2, <1>3
  <2>2. x \in 0..b /\ y \in 0..b
    OBVIOUS
  <2>3. QED
    BY <2>1, <2>2
<1>5. QED
  BY <1>4

\* Induction over the set of numbers a fact holds for.
LEMMA NatSetInduction ==
  ASSUME NEW T, 0 \in T, \A n \in Nat : n \in T => n + 1 \in T
  PROVE  Nat \subseteq T
<1>1. SUFFICES ASSUME Nat \ T # {} PROVE FALSE
  OBVIOUS
<1>2. PICK x \in Nat \ T : \A y \in Nat \ T : x <= y
  BY <1>1, NatLeast
<1>3. x # 0 /\ x - 1 \in Nat /\ x - 1 \in T
  BY <1>2
<1>4. QED
  BY <1>3

\* A loop that starts in A and whose every turn maps A to A has an execution.
LoopBody(A, L) == [(1..L) \X A -> A]

LoopRun(A, b, L, F, g) ==
  g \in [0..L -> A] /\ g[0] = b /\ \A n \in 1..L : g[n] = F[<<n, g[n-1]>>]

LEMMA LoopRuns ==
  ASSUME NEW A, NEW b, b \in A, NEW L, L \in Nat, NEW F, F \in LoopBody(A, L)
  PROVE  \E g : LoopRun(A, b, L, F, g)
<1> USE DEF LoopBody
<1> DEFINE Runs(m, g) == g[0] = b /\ \A n \in 1..m : g[n] = F[<<n, g[n-1]>>]
           T == {m \in Nat : m <= L => \E g \in [0..m -> A] : Runs(m, g)}
<1>1. 0 \in T
  <2>1. [n \in 0..0 |-> b] \in [0..0 -> A] /\ Runs(0, [n \in 0..0 |-> b])
    OBVIOUS
  <2>2. QED
    BY <2>1
<1>2. ASSUME NEW m \in Nat, m \in T PROVE m + 1 \in T
  <2>1. SUFFICES ASSUME m + 1 <= L PROVE \E g \in [0..(m+1) -> A] : Runs(m + 1, g)
    OBVIOUS
  <2>2. PICK g \in [0..m -> A] : Runs(m, g)
    BY <1>2, <2>1
  <2> DEFINE h == [n \in 0..(m+1) |-> IF n = m + 1 THEN F[<<m + 1, g[m]>>] ELSE g[n]]
  <2>3. F[<<m + 1, g[m]>>] \in A
    BY <2>1, <2>2
  <2>4. h \in [0..(m+1) -> A]
    BY <2>2, <2>3
  <2>5. h[0] = b
    BY <2>2
  <2>6. ASSUME NEW n \in 1..(m+1) PROVE h[n] = F[<<n, h[n-1]>>]
    <3>1. n - 1 \in 0..m /\ h[n-1] = g[n-1]
      OBVIOUS
    <3>2. CASE n = m + 1
      <4>1. h[n] = F[<<m + 1, g[m]>>] /\ n - 1 = m /\ h[n-1] = g[m]
        BY <3>1, <3>2
      <4>2. QED
        BY <4>1, <3>2
    <3>3. CASE n # m + 1
      BY <2>2, <3>1, <3>3
    <3>4. QED
      BY <3>2, <3>3
  <2>7. QED
    BY <2>4, <2>5, <2>6
<1>3. Nat \subseteq T
  <2> HIDE DEF T
  <2>1. QED
    BY <1>1, <1>2, NatSetInduction
<1>4. QED
  BY <1>3 DEF LoopRun

\* A list without repetition, as long as its set is large, has every element.
LEMMA InjectionOnto ==
  ASSUME NEW S, IsFiniteSet(S), NEW q \in [1..Cardinality(S) -> S],
         \A i, j \in 1..Cardinality(S) : q[i] = q[j] => i = j
  PROVE  \A x \in S : \E i \in 1..Cardinality(S) : q[i] = x
<1> DEFINE L == Cardinality(S)
           T == {q[i] : i \in 1..L}
<1>1. L \in Nat
  BY FS_CardinalityType
<1>2. T = S
  <2>1. T \in SUBSET S
    OBVIOUS
  <2>2. q \in Bijection(1..L, T)
    <3>1. q \in [1..L -> T]
      OBVIOUS
    <3>2. IsInjective(q)
      BY DEF IsInjective
    <3> HIDE DEF T, L
    <3>3. q \in Injection(1..L, T)
      BY <3>1, <3>2 DEF Injection
    <3>4. q \in Surjection(1..L, T)
      BY <3>1 DEF Surjection, T
    <3>5. QED
      BY <3>3, <3>4 DEF Bijection
  <2> HIDE DEF T
  <2>3. ExistsBijection(1..L, T)
    BY <2>2 DEF ExistsBijection
  <2>4. Cardinality(T) = L
    BY <1>1, <2>3, FS_CountingElements
  <2>5. QED
    BY <2>1, <2>4, FS_Subset
<1>3. QED
  BY <1>2

\* A loop visits every element of its set, once.
LEMMA Enumerates ==
  ASSUME NEW S, IsFiniteSet(S)
  PROVE  /\ Cardinality(S) \in Nat /\ SetToSeq(S) \in [1..Cardinality(S) -> S]
         /\ Len(SetToSeq(S)) = Cardinality(S)
         /\ \A i, j \in 1..Cardinality(S) : SetToSeq(S)[i] = SetToSeq(S)[j] => i = j
         /\ \A x \in S : \E i \in 1..Cardinality(S) : SetToSeq(S)[i] = x
<1> DEFINE L == Cardinality(S)
           q == SetToSeq(S)
<1>1. L \in Nat /\ ExistsBijection(1..L, S)
  BY FS_CardinalityType
<1>2. PICK f : f \in Bijection(1..L, S)
  BY <1>1 DEF ExistsBijection
<1>3. f \in [1..L -> S] /\ IsInjective(f)
  BY <1>2 DEF Bijection, Injection
<1>4. q \in [1..L -> S] /\ IsInjective(q)
  <2>1. q = CHOOSE g \in [1..L -> S] : IsInjective(g)
    BY DEF SetToSeq
  <2> HIDE DEF q, L
  <2>2. QED
    BY ONLY <1>3, <2>1
<1> HIDE DEF q
<1>5. \A i, j \in 1..L : q[i] = q[j] => i = j
  BY <1>4 DEF IsInjective
<1>6. Len(q) = L
  <2> HIDE DEF L
  <2>1. QED
    BY <1>1, <1>4
<1>7. \A x \in S : \E i \in 1..L : q[i] = x
  BY <1>4, <1>5, InjectionOnto
<1>8. QED
  BY <1>1, <1>4, <1>5, <1>6, <1>7 DEF q

\* A quotient and a remainder are determined by the number.
LEMMA DivisionUnique ==
  ASSUME NEW s \in Nat, s # 0, NEW p \in Int, NEW q \in Int, NEW a \in 0..(s-1), NEW b \in 0..(s-1),
         s * p + a = s * q + b
  PROVE  p = q
<1>1. ASSUME NEW i \in Int, NEW j \in Int, i < j PROVE s * i + s <= s * j
  <2>1. j - i - 1 \in Nat
    BY <1>1
  <2>2. s * (j - i - 1) >= 0
    BY <2>1
  <2>3. QED
    BY <2>2
<1>2. ~ (p < q)
  BY <1>1
<1>3. ~ (q < p)
  BY <1>1
<1>4. QED
  BY <1>2, <1>3
=============================================================================
