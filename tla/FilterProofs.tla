---------------------------- MODULE FilterProofs -----------------------------
(***************************************************************************)
(* Proofs about the two hardware filters of an interface, for every width  *)
(* of ports and of ICMP types, every set of rules and packets, every limit *)
(* of the arrays, and whichever calls fail.                                *)
(*                                                                         *)
(* The first part is about ranges: the loop over power-of-two blocks ends  *)
(* with blocks that cover the range and nothing else, and the mask of a    *)
(* block selects exactly its numbers.                                      *)
(***************************************************************************)
EXTENDS EgressAcl, IngressDeny, LoopLemmas, FiniteSetTheorems

\* The mask of an aligned block (acl_build_generation) selects its numbers.
LEMMA InBlockExact ==
  ASSUME NEW b, b.at \in Nat, b.size \in Nat, b.size # 0, b.at % b.size = 0, NEW x \in Nat
  PROVE  InBlock(x, b) <=> (b.at <= x /\ x < b.at + b.size)
<1> DEFINE s == b.size
           a == b.at
<1>1. a \in Nat /\ s \in Nat /\ s # 0 /\ a % s = 0
  OBVIOUS
<1> HIDE DEF s, a
<1>2. x = s * (x \div s) + (x % s) /\ x % s \in 0..(s-1) /\ x \div s \in Int
  BY <1>1
<1>3. a = s * (a \div s) /\ a \div s \in Int
  BY <1>1
<1>4. x - (x % s) = a => a <= x /\ x < a + s
  BY <1>1, <1>2
<1>5. ASSUME a <= x, x < a + s PROVE x - (x % s) = a
  <2>1. x - a \in 0..(s-1) /\ x = s * (a \div s) + (x - a)
    BY <1>1, <1>3, <1>5
  <2>2. x \div s = a \div s
    BY <1>1, <1>2, <1>3, <2>1, DivisionUnique
  <2>3. QED
    BY <1>1, <1>2, <1>3, <2>2
<1>6. QED
  BY <1>4, <1>5 DEF InBlock, s, a

\* router_acl_port_block: the block starts at the cursor, is aligned there and
\* stays within the range.
LEMMA PortBlock ==
  ASSUME NEW bits \in Nat, NEW cursor \in Nat, NEW last \in Nat, cursor <= last
  PROVE  /\ router_acl_port_block(bits, cursor, last) \in Nat
         /\ router_acl_port_block(bits, cursor, last) # 0
         /\ cursor % router_acl_port_block(bits, cursor, last) = 0
         /\ router_acl_port_block(bits, cursor, last) <= last - cursor + 1
<1> DEFINE S == {b \in {2^k : k \in 0 .. bits} : cursor % b = 0 /\ b <= last - cursor + 1}
           T == S \intersect Nat
           m == last - cursor + 1
<1>1. m \in Nat /\ 1 <= m
  OBVIOUS
<1>2. \A x \in S : x \in Int /\ cursor % x = 0 /\ x <= m
  OBVIOUS
<1>3. 1 \in S
  <2>1. 0 \in 0..bits /\ 2^0 = 1 /\ cursor % 1 = 0
    OBVIOUS
  <2>2. 1 \in {2^k : k \in 0..bits}
    BY ONLY <2>1, Zenon
  <2> QED BY <1>1, <2>1, <2>2
<1> HIDE DEF S, m
<1>4. T \subseteq 0..m /\ T # {}
  BY <1>1, <1>2, <1>3
<1> HIDE DEF T
<1>5. PICK x \in T : \A y \in T : y <= x
  BY <1>1, <1>4, NatGreatest
<1>6. x \in S /\ \A y \in S : x >= y
  BY <1>2, <1>4, <1>5 DEF T
<1>7. Max(S) \in S /\ \A y \in S : Max(S) >= y
  BY <1>6, Zenon DEF Max
<1>8. Max(S) \in Nat /\ Max(S) # 0 /\ cursor % Max(S) = 0 /\ Max(S) <= m
  BY <1>2, <1>3, <1>7
<1>9. router_acl_port_block(bits, cursor, last) = Max(S)
  BY DEF router_acl_port_block, S
<1>10. QED
  BY <1>8, <1>9 DEF m

\* A block of the range, and the numbers it stands for.
BlockOK(first, last, b) ==
  /\ b.at \in Nat /\ b.size \in Nat /\ b.size # 0 /\ b.at % b.size = 0
  /\ first <= b.at /\ b.at + b.size - 1 <= last

Holds(b, x) == b.at <= x /\ x < b.at + b.size

\* The loop's state: its blocks cover the range up to the cursor.
Cut == [at : Nat, got : SUBSET [at : Nat, size : Nat]]

CutOK(first, last, s) ==
  /\ s \in Cut /\ first <= s.at
  /\ \A b \in s.got : BlockOK(first, last, b)
  /\ \A x \in first..last : x < s.at => \E b \in s.got : Holds(b, x)

\* A turn of the loop over the blocks keeps CutOK, and advances.
LEMMA BlockTurnOK ==
  ASSUME NEW bits \in Nat, NEW first \in Nat, NEW last \in Nat, NEW s, CutOK(first, last, s)
  PROVE  /\ CutOK(first, last, BlockTurn(bits, last, s))
         /\ BlockTurn(bits, last, s).at > last \/ BlockTurn(bits, last, s).at >= s.at + 1
<1>1. s.at \in Nat /\ s.got \subseteq [at : Nat, size : Nat] /\ first <= s.at
  BY DEF CutOK, Cut
<1>2. CASE s.at > last
  BY <1>2 DEF BlockTurn
<1>3. CASE ~ (s.at > last)
  <2> DEFINE b == router_acl_port_block(bits, s.at, last)
             v == [at |-> s.at, size |-> b]
             w == [at |-> s.at + b, got |-> s.got \union {v}]
  <2>1. b \in Nat /\ b # 0 /\ s.at % b = 0 /\ b <= last - s.at + 1
    <3>1. s.at \in Nat /\ s.at <= last
      BY <1>1, <1>3
    <3>2. QED
      BY <3>1, PortBlock
  <2>2. BlockTurn(bits, last, s) = w
    BY <1>3 DEF BlockTurn
  <2> HIDE DEF b
  <2>3. v \in [at : Nat, size : Nat] /\ v.at = s.at /\ v.size = b
    BY <1>1, <2>1
  <2> HIDE DEF v
  <2>4. w \in Cut /\ w.at = s.at + b /\ w.got = s.got \union {v}
    BY <1>1, <2>1, <2>3 DEF Cut
  <2>5. BlockOK(first, last, v)
    BY <1>1, <1>3, <2>1, <2>3 DEF BlockOK
  <2> HIDE DEF w
  <2>6. ASSUME NEW x \in first..last, x < w.at PROVE \E c \in w.got : Holds(c, x)
    <3>1. CASE x < s.at
      <4>1. \E c \in s.got : Holds(c, x)
        BY <3>1 DEF CutOK
      <4>2. QED
        BY <4>1, <2>4
    <3>2. CASE ~ (x < s.at)
      BY <1>1, <2>1, <2>3, <2>4, <2>6, <3>2 DEF Holds
    <3>3. QED
      BY <3>1, <3>2
  <2>7. CutOK(first, last, w)
    BY <1>1, <2>1, <2>4, <2>5, <2>6 DEF CutOK
  <2>8. w.at >= s.at + 1
    BY <1>1, <2>1, <2>4
  <2>9. QED
    BY <2>2, <2>7, <2>8
<1>4. QED
  BY <1>2, <1>3

\* The loops over router_acl_port_block cut a range into blocks that hold its
\* numbers and no others, in at most 2^bits turns.
LEMMA BlocksExact ==
  ASSUME NEW bits \in Nat, NEW first \in Nat, NEW last \in Nat, last <= 2^bits - 1
  PROVE  /\ \A b \in Blocks(bits, first, last) : BlockOK(first, last, b)
         /\ \A x \in first..last : \E b \in Blocks(bits, first, last) : Holds(b, x)
<1> DEFINE L == 2^bits
           A == {s \in Cut : CutOK(first, last, s)}
           Start == [at |-> first, got |-> {}]
           F == [z \in (1..L) \X A |-> BlockTurn(bits, last, z[2])]
           R(x) == [n \in 0..L |-> IF n = 0 THEN Start ELSE BlockTurn(bits, last, x[n-1])]
           x == CHOOSE y : y = R(y)
<1>1. L \in Nat /\ last < L
  <2>1. 2^bits \in Int
    OBVIOUS
  <2>2. QED
    BY <2>1
<1>2. Start \in A /\ Start.at = first
  BY DEF Cut, CutOK
<1>3. \A y \in A : BlockTurn(bits, last, y) \in A
  BY BlockTurnOK DEF CutOK
<1> HIDE DEF A, Start
<1>4. F \in LoopBody(A, L)
  BY <1>3 DEF LoopBody
<1>5. PICK g : LoopRun(A, Start, L, F, g)
  <2> HIDE DEF L, F, R, x
  <2>1. QED
    BY ONLY <1>1, <1>2, <1>4, LoopRuns, Zenon
<1>6. g = R(g)
  <2>1. ASSUME NEW n \in 0..L PROVE g[n] = R(g)[n]
    <3>1. CASE n = 0
      BY <1>5, <3>1 DEF LoopRun
    <3>2. CASE n # 0
      <4>1. n \in 1..L /\ n - 1 \in 0..L
        BY <1>1, <3>2
      <4>2. g[n-1] \in A /\ g[n] = F[<<n, g[n-1]>>]
        BY <1>5, <4>1 DEF LoopRun
      <4>3. g[n] = BlockTurn(bits, last, g[n-1])
        BY <4>1, <4>2
      <4>4. QED
        BY <4>3, <3>2
    <3>3. QED
      BY <3>1, <3>2
  <2> HIDE DEF F, L
  <2>2. QED
    BY <1>5, <2>1 DEF LoopRun
<1>7. x = R(x)
  <2> HIDE DEF R
  <2>1. QED
    BY <1>6
<1>8. Blocks(bits, first, last) = x[L].got
  BY DEF Blocks, Start
<1> HIDE DEF x, F
<1> DEFINE Good(n) == /\ x[n] \in A
                      /\ x[n].at > last \/ x[n].at >= first + n
           T == {n \in Nat : n <= L => Good(n)}
<1>9. 0 \in T
  <2>1. x[0] = Start
    BY <1>1, <1>7
  <2>2. QED
    BY <1>2, <2>1
<1>10. ASSUME NEW n \in Nat, n \in T PROVE n + 1 \in T
  <2>1. SUFFICES ASSUME n + 1 <= L PROVE Good(n + 1)
    OBVIOUS
  <2>2. Good(n) /\ n + 1 \in 0..L /\ n + 1 # 0 /\ (n + 1) - 1 = n
    BY <1>1, <1>10, <2>1
  <2>3. x[n+1] = BlockTurn(bits, last, x[n])
    BY <1>7, <2>2
  <2>4. CutOK(first, last, x[n])
    BY <2>2 DEF A
  <2>5. /\ CutOK(first, last, x[n+1])
        /\ x[n+1].at > last \/ x[n+1].at >= x[n].at + 1
    BY <2>3, <2>4, BlockTurnOK
  <2>6. x[n].at \in Nat /\ x[n+1].at \in Nat
    BY <2>4, <2>5 DEF CutOK, Cut
  <2>7. x[n].at > last => x[n+1] = x[n]
    BY <2>3 DEF BlockTurn
  <2>8. x[n+1] \in A
    BY <2>5 DEF A, CutOK
  <2>9. x[n+1].at > last \/ x[n+1].at >= first + (n + 1)
    BY <2>2, <2>5, <2>6, <2>7
  <2>10. QED
    BY <2>8, <2>9
<1>11. Nat \subseteq T
  <2> HIDE DEF T
  <2>1. QED
    BY <1>9, <1>10, NatSetInduction
<1>12. Good(L)
  BY <1>1, <1>11
<1> HIDE DEF L, R, T
<1>13. CutOK(first, last, x[L]) /\ x[L].at \in Nat
  BY <1>12 DEF A, CutOK, Cut
<1>14. x[L].at > last
  BY <1>1, <1>12, <1>13
<1>15. QED
  BY <1>8, <1>13, <1>14 DEF CutOK

-----------------------------------------------------------------------------
(***************************************************************************)
(* The Arm's verdict: the matching rule with the lowest id decides, and    *)
(* without one the default.                                                *)
(***************************************************************************)
Hits(rules, p) == {r \in rules : Matches(r, p)}

Verdict(allow) == IF allow THEN "allow" ELSE "deny"

PolicyOK(policy) ==
  policy # NoPolicy /\ policy.allow \in BOOLEAN /\ \A r \in policy.rules : RuleOK(r)

\* firewall_check finds a rule of lowest id among the ones that match.
LEMMA FirewallVerdict ==
  ASSUME NEW policy, PolicyOK(policy), NEW local, NEW p, p.peer \notin local
  PROVE  /\ Hits(policy.rules, p) = {} => firewall_check(policy, local, p) = Verdict(policy.allow)
         /\ Hits(policy.rules, p) # {} =>
              \E r \in Hits(policy.rules, p) :
                /\ \A s \in Hits(policy.rules, p) : r.id <= s.id
                /\ firewall_check(policy, local, p) = Verdict(r.allow)
<1> DEFINE H == Hits(policy.rules, p)
           best == CHOOSE r \in H : \A s \in H : r.id <= s.id
<1>1. firewall_check(policy, local, p) =
        IF (H # {} /\ best.allow) \/ (H = {} /\ policy.allow) THEN "allow" ELSE "deny"
  BY DEF firewall_check, Hits, PolicyOK
<1>2. H = {} => firewall_check(policy, local, p) = Verdict(policy.allow)
  BY <1>1 DEF Verdict
<1>3. ASSUME H # {} PROVE best \in H /\ \A s \in H : best.id <= s.id
  <2> DEFINE I == {r.id : r \in H}
  <2>1. I \subseteq Nat /\ I # {}
    BY <1>3 DEF Hits, PolicyOK, RuleOK
  <2>2. PICK i \in I : \A j \in I : i <= j
    <3> HIDE DEF I
    <3>1. QED
      BY <2>1, NatLeast
  <2>3. PICK r \in H : r.id = i
    OBVIOUS
  <2>4. \A s \in H : r.id <= s.id
    BY <2>2, <2>3
  <2> HIDE DEF H
  <2>5. QED
    BY ONLY <2>4, Zenon DEF best
<1> HIDE DEF best
<1>4. H # {} => firewall_check(policy, local, p) = Verdict(best.allow)
  BY <1>1 DEF Verdict
<1>5. QED
  BY <1>2, <1>3, <1>4

\* A default-deny policy denies what none of its allowing rules matches.
LEMMA NoAllowDenies ==
  ASSUME NEW policy, PolicyOK(policy), policy.allow = FALSE, NEW local, NEW p, p.peer \notin local,
         \A r \in policy.rules : r.allow => ~ Matches(r, p)
  PROVE  firewall_check(policy, local, p) = "deny"
<1>1. \A r \in Hits(policy.rules, p) : r.allow = FALSE
  BY DEF Hits, PolicyOK, RuleOK
<1>2. QED
  BY <1>1, FirewallVerdict DEF Verdict

-----------------------------------------------------------------------------
(***************************************************************************)
(* The ingress filter.                                                     *)
(***************************************************************************)
\* The numbers a set of ranges stands for are numbers of the set.
LEMMA RangeInside ==
  ASSUME NEW bits \in Nat, NEW S, S \subseteq 0 .. 2^bits - 1, NEW x \in RangesOf(S),
         NEW b \in Blocks(bits, x[1], x[2]), NEW n \in Nat, InBlock(n, b)
  PROVE  n \in S
<1>1. 2^bits \in Int
  OBVIOUS
<1>2. x[1] \in S /\ x[2] \in S /\ x[1] .. x[2] \subseteq S
  BY DEF RangesOf
<1>3. x[1] \in Nat /\ x[2] \in Nat /\ x[2] <= 2^bits - 1
  <2> DEFINE top == 2^bits - 1
  <2>1. top \in Int /\ S \subseteq 0..top
    BY <1>1
  <2> HIDE DEF top
  <2>2. x[1] \in 0..top /\ x[2] \in 0..top
    BY <1>2, <2>1
  <2>3. x[1] \in Nat /\ x[2] \in Nat /\ x[2] <= top
    BY <2>1, <2>2
  <2>4. QED
    BY <2>3 DEF top
<1>4. BlockOK(x[1], x[2], b)
  BY <1>3, BlocksExact
<1>5. b.at <= n /\ n < b.at + b.size
  BY <1>4, InBlockExact DEF BlockOK
<1>6. n \in x[1] .. x[2]
  BY <1>3, <1>4, <1>5 DEF BlockOK
<1>7. QED
  BY <1>2, <1>6

\* A TCP or UDP prefix lies outside what a rule may allow and NAT may use.
LEMMA PortSpecSound ==
  ASSUME NEW policy, PolicyOK(policy), NEW ports, NEW proto \in {TCP, UDP},
         NEW s \in PortSpecs(router_ingress_l4_deny_ranges(policy, ports, proto), proto),
         NEW p, PacketOK(p), SpecHits(s, p)
  PROVE  /\ policy.allow = FALSE /\ p.proto = proto /\ p.port \notin ports
         /\ \A r \in policy.rules : r.allow => ~ Matches(r, p)
<1> DEFINE S == Port \ Excluded(policy, ports, proto)
<1>1. PICK x \in router_ingress_l4_deny_ranges(policy, ports, proto) :
        \E b \in Blocks(PortBits, x[1], x[2]) : s = [proto |-> proto, port |-> b]
  BY DEF PortSpecs
<1>2. PICK b \in Blocks(PortBits, x[1], x[2]) : s = [proto |-> proto, port |-> b]
  BY <1>1
<1>3. x \in RangesOf(S) /\ ~ policy.allow
  BY DEF router_ingress_l4_deny_ranges
<1>4. p.proto = proto /\ InBlock(p.port, b)
  BY <1>2 DEF SpecHits, ICMP, TCP, UDP
<1>5. p.port \in Nat /\ p.port \in Port /\ PortBits \in Nat
  BY AclAssumption DEF PacketOK, Port
<1>6. p.port \in S
  <2>1. S \subseteq 0 .. 2^PortBits - 1
    BY DEF Port
  <2> HIDE DEF S
  <2>2. QED
    BY <1>2, <1>3, <1>4, <1>5, <2>1, RangeInside
<1>7. p.port \notin ports
  BY <1>6 DEF Excluded
<1>8. ASSUME NEW r \in policy.rules, r.allow, Matches(r, p) PROVE FALSE
  <2>1. r.proto \in {0, proto} /\ r.type < 0 /\ r.code < 0
        /\ (r.first = 0 \/ p.port \in r.first .. r.last)
    BY <1>4, <1>8 DEF Matches, ICMP, TCP, UDP, PolicyOK, RuleOK, Byte
  <2>2. r \in MayAllow(policy, proto)
    BY <1>8, <2>1 DEF MayAllow
  <2>3. p.port \in Excluded(policy, ports, proto)
    BY <1>5, <2>1, <2>2 DEF Excluded
  <2>4. QED
    BY <1>6, <2>3
<1>9. QED
  BY <1>3, <1>4, <1>7, <1>8 DEF PolicyOK

\* An ICMP prefix lies outside the types and codes a rule may allow.
LEMMA IcmpSpecSound ==
  ASSUME NEW policy, PolicyOK(policy), NEW m \in router_ingress_icmp_deny_matches(policy),
         NEW p, PacketOK(p), p.proto = ICMP, InBlock(p.type, m.type), InBlock(p.code, m.code)
  PROVE  /\ policy.allow = FALSE
         /\ \A r \in policy.rules : r.allow => ~ Matches(r, p)
<1> DEFINE allowed == IcmpAllowed(policy)
           full == {t \in Byte : \A c \in Byte : <<t, c>> \notin allowed}
           denied(t) == {c \in Byte : <<t, c>> \notin allowed}
<1>1. p.type \in Byte /\ p.code \in Byte /\ IcmpBits \in Nat
  BY AclAssumption DEF PacketOK
<1>2. p.type \in Nat /\ p.code \in Nat
  BY <1>1 DEF Byte
<1>3. ~ policy.allow
  BY DEF router_ingress_icmp_deny_matches
<1>4. \/ \E x \in RangesOf(full) : \E b \in Blocks(IcmpBits, x[1], x[2]) :
            m = [type |-> b, code |-> AnyByte]
      \/ \E t \in Byte : \E x \in RangesOf(denied(t)) : \E b \in Blocks(IcmpBits, x[1], x[2]) :
            m = [type |-> [at |-> t, size |-> 1], code |-> b]
  <2> DEFINE A == UNION {{[type |-> b, code |-> AnyByte] : b \in Blocks(IcmpBits, x[1], x[2])}
                         : x \in RangesOf(full)}
             B(t) == UNION {{[type |-> [at |-> t, size |-> 1], code |-> b]
                              : b \in Blocks(IcmpBits, x[1], x[2])} : x \in RangesOf(denied(t))}
             C == UNION {B(t) : t \in Byte \ full}
  <2>0. router_ingress_icmp_deny_matches(policy) =
          IF policy.allow \/ Cardinality(A \union C) > MaxIcmp THEN {} ELSE A \union C
    BY Zenon DEF router_ingress_icmp_deny_matches
  <2>1. m \in A \union C
    <3> HIDE DEF A, C
    <3>1. QED
      BY <2>0
  <2> HIDE DEF full, denied
  <2>2. m \in A => \E x \in RangesOf(full) : \E b \in Blocks(IcmpBits, x[1], x[2]) :
                       m = [type |-> b, code |-> AnyByte]
    BY Zenon
  <2>3. m \in C => \E t \in Byte : m \in B(t)
    BY Zenon
  <2>4. ASSUME NEW t \in Byte, m \in B(t)
        PROVE  \E x \in RangesOf(denied(t)) : \E b \in Blocks(IcmpBits, x[1], x[2]) :
                 m = [type |-> [at |-> t, size |-> 1], code |-> b]
    BY <2>4, Zenon
  <2> HIDE DEF A, B, C
  <2>5. QED
    BY ONLY <2>1, <2>2, <2>3, <2>4, Zenon
<1>5. full \subseteq 0 .. 2^IcmpBits - 1 /\ \A t : denied(t) \subseteq 0 .. 2^IcmpBits - 1
  BY DEF Byte
<1>6. <<p.type, p.code>> \notin allowed
  <2>1. ASSUME NEW x \in RangesOf(full), NEW b \in Blocks(IcmpBits, x[1], x[2]),
               m = [type |-> b, code |-> AnyByte]
        PROVE  <<p.type, p.code>> \notin allowed
    <3>1. InBlock(p.type, b)
      BY <2>1
    <3>2. p.type \in full
      <4> HIDE DEF full
      <4>1. QED
        BY <1>1, <1>2, <1>5, <2>1, <3>1, RangeInside
    <3>3. QED
      BY <1>1, <3>2
  <2>2. ASSUME NEW t \in Byte, NEW x \in RangesOf(denied(t)),
               NEW b \in Blocks(IcmpBits, x[1], x[2]),
               m = [type |-> [at |-> t, size |-> 1], code |-> b]
        PROVE  <<p.type, p.code>> \notin allowed
    <3>1. InBlock(p.code, b) /\ InBlock(p.type, [at |-> t, size |-> 1])
      BY <2>2
    <3>2. p.type = t
      BY <1>2, <3>1 DEF InBlock
    <3>3. p.code \in denied(t)
      <4> HIDE DEF denied
      <4>1. QED
        BY <1>1, <1>2, <1>5, <2>2, <3>1, RangeInside
    <3>4. QED
      BY <3>2, <3>3
  <2>3. QED
    BY <1>4, <2>1, <2>2
<1>7. ASSUME NEW r \in policy.rules, r.allow, Matches(r, p) PROVE FALSE
  <2>1. /\ r.proto \in {0, ICMP} /\ r.first = 0
        /\ r.type >= 0 => p.type = r.type
        /\ r.code >= 0 => p.code = r.code
    BY <1>7 DEF Matches, ICMP, TCP, UDP
  <2>2. <<p.type, p.code>> \in (IF r.type >= 0 THEN {r.type} ELSE Byte)
                               \X (IF r.code >= 0 THEN {r.code} ELSE Byte)
    BY <1>1, <2>1
  <2>3. <<p.type, p.code>> \in allowed
    BY <1>7, <2>1, <2>2 DEF IcmpAllowed
  <2>4. QED
    BY <1>6, <2>3
<1>8. QED
  BY <1>3, <1>7 DEF PolicyOK

\* What the deny prefixes drop, the ingress policy denies, and a TCP or UDP
\* packet to a port of the NAT policy is not dropped.
LEMMA DenySpecsSound ==
  ASSUME NEW policy, PolicyOK(policy), NEW ports, NEW s \in DenySpecs(policy, ports),
         NEW p, PacketOK(p), SpecHits(s, p)
  PROVE  /\ policy.allow = FALSE
         /\ firewall_check(policy, {}, p) = "deny"
         /\ p.proto # ICMP => p.port \notin ports
<1>1. \/ s \in PortSpecs(router_ingress_l4_deny_ranges(policy, ports, TCP), TCP)
      \/ s \in PortSpecs(router_ingress_l4_deny_ranges(policy, ports, UDP), UDP)
      \/ \E m \in router_ingress_icmp_deny_matches(policy) :
           s = [proto |-> ICMP, type |-> m.type, code |-> m.code]
  BY DEF DenySpecs
<1>2. ASSUME NEW proto \in {TCP, UDP},
             s \in PortSpecs(router_ingress_l4_deny_ranges(policy, ports, proto), proto)
      PROVE  /\ policy.allow = FALSE
             /\ firewall_check(policy, {}, p) = "deny"
             /\ p.proto # ICMP => p.port \notin ports
  <2>1. /\ policy.allow = FALSE /\ p.port \notin ports
        /\ \A r \in policy.rules : r.allow => ~ Matches(r, p)
    BY <1>2, PortSpecSound
  <2>2. QED
    BY <2>1, NoAllowDenies
<1>3. ASSUME NEW m \in router_ingress_icmp_deny_matches(policy),
             s = [proto |-> ICMP, type |-> m.type, code |-> m.code]
      PROVE  /\ policy.allow = FALSE
             /\ firewall_check(policy, {}, p) = "deny"
             /\ p.proto # ICMP => p.port \notin ports
  <2>1. p.proto = ICMP /\ InBlock(p.type, m.type) /\ InBlock(p.code, m.code)
    BY <1>3 DEF SpecHits
  <2>2. /\ policy.allow = FALSE
        /\ \A r \in policy.rules : r.allow => ~ Matches(r, p)
    BY <2>1, IcmpSpecSound
  <2>3. QED
    BY <2>1, <2>2, NoAllowDenies
<1>4. QED
  BY <1>1, <1>2, <1>3

\* Prefixes exist only under a default-deny policy, and fit their array.
LEMMA DenySpecsFit ==
  ASSUME NEW policy, NEW ports
  PROVE  /\ Cardinality(DenySpecs(policy, ports)) <= MaxSpecs
         /\ DenySpecs(policy, ports) # {} => ~ policy.allow
<1>1. Cardinality({}) = 0 /\ MaxSpecs \in Nat
  BY AclAssumption, FS_EmptySet
<1>2. Cardinality(DenySpecs(policy, ports)) <= MaxSpecs
  <2> DEFINE Fitting(S) == IF Cardinality(S) <= MaxSpecs THEN S ELSE {}
  <2>1. \E S : DenySpecs(policy, ports) = Fitting(S)
    BY DEF DenySpecs
  <2>2. PICK S : DenySpecs(policy, ports) = IF Cardinality(S) <= MaxSpecs THEN S ELSE {}
    BY <2>1
  <2>3. CASE Cardinality(S) <= MaxSpecs
    BY <2>2, <2>3
  <2>4. CASE ~ (Cardinality(S) <= MaxSpecs)
    BY <1>1, <2>2, <2>4
  <2>5. QED
    BY <2>3, <2>4
<1>3. ASSUME policy.allow PROVE DenySpecs(policy, ports) = {}
  <2>1. \A proto : router_ingress_l4_deny_ranges(policy, ports, proto) = {}
    BY <1>3 DEF router_ingress_l4_deny_ranges
  <2>2. router_ingress_icmp_deny_matches(policy) = {}
    BY <1>3 DEF router_ingress_icmp_deny_matches
  <2>3. \A proto : PortSpecs({}, proto) = {}
    BY DEF PortSpecs
  <2>4. QED
    BY <2>1, <2>2, <2>3 DEF DenySpecs
<1>4. QED
  BY <1>2, <1>3

(***************************************************************************)
(* Sessions use ports of the committed NAT policy, and the prefixes in     *)
(* hardware are either none or the ones of the committed configuration.    *)
(* The second part is what a failing command has to restore.               *)
(***************************************************************************)
Derived(d, c) ==
  d = {} \/ (c.addressed = TRUE /\ c.policy # NoPolicy /\ d = DenySpecs(c.policy, c.nat))

IngressInv ==
  /\ pub \in Pub
  /\ nat \subseteq [proto : {TCP, UDP, ICMP}, port : Port]
  /\ IsFiniteSet(nat) /\ Cardinality(nat) <= MaxInSessions
  /\ \A x \in nat : x.port \in pub.nat
  /\ Derived(deny, pub)

\* A committed policy is well formed.
LEMMA PubPolicyOK == ASSUME NEW c \in Pub, c.policy # NoPolicy PROVE PolicyOK(c.policy)
<1>1. c.policy \in [allow : BOOLEAN, rules : SUBSET InRule]
  BY DEF Pub
<1>2. QED
  BY <1>1, DenyAssumption DEF PolicyOK

\* What a synchronization leaves behind, unless it fails.
LEMMA DenySyncDerived ==
  ASSUME NEW d, NEW c \in Pub, NEW f, c.addressed = FALSE => d = {},
         eswitch_pipeline_ingress_deny_sync(d, c, f).ok
  PROVE  Derived(eswitch_pipeline_ingress_deny_sync(d, c, f).deny, c)
<1>1. c.addressed \in BOOLEAN
  BY DEF Pub
<1> DEFINE specs == DenySpecs(c.policy, c.nat)
<1> HIDE DEF specs
<1>2. eswitch_pipeline_ingress_deny_sync(d, c, f) =
        IF c.policy = NoPolicy
        THEN [deny |-> IF d # {} /\ f = "target" THEN d ELSE {}, ok |-> ~ (d # {} /\ f = "target")]
        ELSE IF ~ c.addressed \/ (d # {} /\ d = specs) THEN [deny |-> d, ok |-> TRUE]
        ELSE IF f = "build" THEN [deny |-> {}, ok |-> TRUE]
        ELSE [deny |-> IF f = "target" THEN d ELSE specs, ok |-> f # "target"]
  BY DEF eswitch_pipeline_ingress_deny_sync, specs
<1> DEFINE after == eswitch_pipeline_ingress_deny_sync(d, c, f)
<1>3. CASE c.policy = NoPolicy
  <2>1. CASE d # {} /\ f = "target"
    <3>1. after = [deny |-> d, ok |-> FALSE]
      BY <1>2, <1>3, <2>1
    <3>2. QED
      BY <3>1
  <2>2. CASE ~ (d # {} /\ f = "target")
    <3>1. after = [deny |-> {}, ok |-> TRUE]
      BY <1>2, <1>3, <2>2
    <3>2. QED
      BY <3>1 DEF Derived
  <2>3. QED
    BY <2>1, <2>2
<1>4. CASE c.policy # NoPolicy
  <2>1. CASE ~ c.addressed \/ (d # {} /\ d = specs)
    <3>1. after = [deny |-> d, ok |-> TRUE]
      BY <1>2, <1>4, <2>1
    <3>2. d = {} \/ (c.addressed = TRUE /\ d = specs)
      BY <1>1, <2>1
    <3>3. QED
      BY <1>4, <3>1, <3>2 DEF Derived, specs
  <2>2. CASE ~ (~ c.addressed \/ (d # {} /\ d = specs)) /\ f = "build"
    <3>1. after = [deny |-> {}, ok |-> TRUE]
      BY <1>2, <1>4, <2>2
    <3>2. QED
      BY <3>1 DEF Derived
  <2>3. CASE ~ (~ c.addressed \/ (d # {} /\ d = specs)) /\ f = "target"
    <3>1. after = [deny |-> d, ok |-> FALSE]
      BY <1>2, <1>4, <2>3
    <3>2. QED
      BY <3>1
  <2>4. CASE ~ (~ c.addressed \/ (d # {} /\ d = specs)) /\ f \notin {"build", "target"}
    <3>1. after = [deny |-> specs, ok |-> TRUE]
      BY <1>2, <1>4, <2>4
    <3>2. QED
      BY <1>1, <1>4, <2>4, <3>1 DEF Derived, specs
  <2>5. QED
    BY <2>1, <2>2, <2>3, <2>4
<1>5. QED
  BY <1>3, <1>4

\* The recovery of a failed command synchronizes from nothing and succeeds.
LEMMA DenyRecovered ==
  ASSUME NEW c \in Pub
  PROVE  Derived(eswitch_pipeline_ingress_deny_sync({}, c, "none").deny, c)
<1>1. eswitch_pipeline_ingress_deny_sync({}, c, "none").ok
  BY DEF eswitch_pipeline_ingress_deny_sync
<1>2. QED
  BY <1>1, DenySyncDerived

\* A router command, whichever of its calls fails.
LEMMA InCommitKept ==
  ASSUME IngressInv, NEW c \in Pub, NEW f, InCommit(c, f) PROVE IngressInv'
<1> DEFINE bound == IF c.addressed = pub.addressed THEN deny ELSE {}
           done == eswitch_pipeline_ingress_deny_sync(bound, c, f)
           ok == done.ok /\ f \notin {"flush", "save"}
<1>1. /\ pub' = IF ok THEN c ELSE pub
      /\ deny' = IF ok THEN done.deny
                 ELSE eswitch_pipeline_ingress_deny_sync({}, pub, "none").deny
      /\ nat' = IF f = "flush" THEN nat ELSE {}
  BY DEF InCommit
<1>2. c.addressed = FALSE => bound = {}
  <2>1. deny # {} => pub.addressed = TRUE
    BY DEF IngressInv, Derived
  <2>2. QED
    BY <2>1
<1>3. pub \in Pub /\ pub' \in Pub
  BY <1>1 DEF IngressInv
<1>4. Derived(deny', pub')
  <2>1. CASE ok
    <3>1. Derived(done.deny, c)
      <4> HIDE DEF bound
      <4>1. QED
        BY <1>2, <2>1, DenySyncDerived
    <3>2. QED
      BY <1>1, <2>1, <3>1
  <2>2. CASE ~ ok
    BY <1>1, <1>3, <2>2, DenyRecovered
  <2>3. QED
    BY <2>1, <2>2
<1>5. /\ nat' \subseteq [proto : {TCP, UDP, ICMP}, port : Port]
      /\ IsFiniteSet(nat') /\ Cardinality(nat') <= MaxInSessions
      /\ \A x \in nat' : x.port \in pub'.nat
  <2>1. CASE f = "flush"
    <3>1. nat' = nat /\ pub' = pub
      BY <1>1, <2>1
    <3>2. QED
      BY <3>1 DEF IngressInv
  <2>2. CASE f # "flush"
    <3>1. nat' = {}
      BY <1>1, <2>2
    <3>2. IsFiniteSet({}) /\ Cardinality({}) = 0 /\ MaxInSessions \in Nat
      BY FS_EmptySet, DenyAssumption
    <3>3. QED
      BY <3>1, <3>2
  <2>3. QED
    BY <2>1, <2>2
<1>6. QED
  BY <1>3, <1>4, <1>5 DEF IngressInv, Derived

\* Every command asks for a well-formed configuration.
LEMMA CommandsKept ==
  ASSUME IngressInv,
         \/ InPolicySet \/ InPolicyDelete \/ InRuleAdd \/ InRuleDelete
         \/ InNatEnable \/ InNatDisable \/ InIpAdd \/ InIpDel
  PROVE  IngressInv'
<1>1. pub \in Pub
  BY DEF IngressInv
<1>2. /\ pub.addressed \in BOOLEAN /\ pub.nat \in NatRange \union {{}}
      /\ pub.policy \in [allow : BOOLEAN, rules : SUBSET InRule] \union {NoPolicy}
      /\ pub = [addressed |-> pub.addressed, nat |-> pub.nat, policy |-> pub.policy]
  BY <1>1 DEF Pub
<1>3. ASSUME NEW q \in [allow : BOOLEAN, rules : SUBSET InRule] \union {NoPolicy}
      PROVE  [pub EXCEPT !.policy = q] \in Pub
  BY <1>1 DEF Pub
<1>4. CASE InPolicySet
  <2>1. PICK allow \in BOOLEAN, f \in InFaults :
          InCommit([pub EXCEPT !.policy =
               [allow |-> allow, rules |-> IF @ = NoPolicy THEN {} ELSE @.rules]], f)
    BY <1>4 DEF InPolicySet
  <2> DEFINE q == [allow |-> allow, rules |-> IF pub.policy = NoPolicy THEN {} ELSE pub.policy.rules]
  <2>2. q \in [allow : BOOLEAN, rules : SUBSET InRule]
    BY <1>2
  <2>3. InCommit([pub EXCEPT !.policy = q], f)
    BY <2>1
  <2> HIDE DEF q
  <2>4. QED
    BY <1>3, <2>2, <2>3, InCommitKept
<1>5. CASE InPolicyDelete
  BY <1>3, <1>5, InCommitKept DEF InPolicyDelete
<1>6. CASE InRuleAdd
  <2>1. PICK r \in InRule, f \in InFaults :
          pub.policy # NoPolicy /\ InCommit([pub EXCEPT !.policy.rules = @ \union {r}], f)
    BY <1>6 DEF InRuleAdd
  <2> DEFINE q == [pub.policy EXCEPT !.rules = @ \union {r}]
  <2>2. q \in [allow : BOOLEAN, rules : SUBSET InRule]
    BY <1>2, <2>1
  <2>3. InCommit([pub EXCEPT !.policy = q], f)
    BY <2>1
  <2> HIDE DEF q
  <2>4. QED
    BY <1>3, <2>2, <2>3, InCommitKept
<1>7. CASE InRuleDelete
  <2>1. PICK f \in InFaults, r \in pub.policy.rules :
          pub.policy # NoPolicy /\ InCommit([pub EXCEPT !.policy.rules = @ \ {r}], f)
    BY <1>7 DEF InRuleDelete
  <2> DEFINE q == [pub.policy EXCEPT !.rules = @ \ {r}]
  <2>2. q \in [allow : BOOLEAN, rules : SUBSET InRule]
    BY <1>2, <2>1
  <2>3. InCommit([pub EXCEPT !.policy = q], f)
    BY <2>1
  <2> HIDE DEF q
  <2>4. QED
    BY <1>3, <2>2, <2>3, InCommitKept
<1>8. CASE InNatEnable
  <2>1. PICK n \in NatRange, f \in InFaults : InCommit([pub EXCEPT !.nat = n], f)
    BY <1>8 DEF InNatEnable
  <2>2. [pub EXCEPT !.nat = n] \in Pub
    BY <1>1 DEF Pub
  <2>3. QED
    BY <2>1, <2>2, InCommitKept
<1>9. CASE InNatDisable
  <2>1. PICK f \in InFaults : InCommit([pub EXCEPT !.nat = {}], f)
    BY <1>9 DEF InNatDisable
  <2>2. [pub EXCEPT !.nat = {}] \in Pub
    BY <1>1 DEF Pub
  <2>3. QED
    BY <2>1, <2>2, InCommitKept
<1>10. CASE InIpAdd
  <2>1. PICK f \in InFaults : InCommit([pub EXCEPT !.addressed = TRUE], f)
    BY <1>10 DEF InIpAdd
  <2>2. [pub EXCEPT !.addressed = TRUE] \in Pub
    BY <1>1 DEF Pub
  <2>3. QED
    BY <2>1, <2>2, InCommitKept
<1>11. CASE InIpDel
  <2>1. PICK f \in InFaults : InCommit([pub EXCEPT !.addressed = FALSE], f)
    BY <1>11 DEF InIpDel
  <2>2. [pub EXCEPT !.addressed = FALSE] \in Pub
    BY <1>1 DEF Pub
  <2>3. QED
    BY <2>1, <2>2, InCommitKept
<1>12. QED
  BY <1>4, <1>5, <1>6, <1>7, <1>8, <1>9, <1>10, <1>11

\* Every step keeps the invariant.
LEMMA IngressInvNext == IngressInv /\ [IngressNext]_inVars => IngressInv'
<1>1. SUFFICES ASSUME IngressInv, [IngressNext]_inVars PROVE IngressInv'
  OBVIOUS
<1>2. pub \in Pub /\ IsFiniteSet(nat) /\ Cardinality(nat) \in Nat /\ MaxInSessions \in Nat
  BY <1>1, FS_CardinalityType, DenyAssumption DEF IngressInv
<1>3. CASE NatOutbound
  <2>1. PICK proto \in {TCP, UDP, ICMP}, port \in pub.nat :
          /\ Cardinality(nat) < MaxInSessions
          /\ nat' = nat \union {[proto |-> proto, port |-> port]}
          /\ pub' = pub /\ deny' = deny
    BY <1>3 DEF NatOutbound
  <2> DEFINE v == [proto |-> proto, port |-> port]
  <2>2. pub.nat \subseteq Port
    BY <1>2, DenyAssumption DEF Pub
  <2>3. v \in [proto : {TCP, UDP, ICMP}, port : Port] /\ v.port \in pub.nat
    BY <2>1, <2>2
  <2> HIDE DEF v
  <2>4. /\ IsFiniteSet(nat \union {v})
        /\ Cardinality(nat \union {v}) <= Cardinality(nat) + 1
    <3>1. /\ IsFiniteSet(nat \union {v})
          /\ Cardinality(nat \union {v}) = IF v \in nat THEN Cardinality(nat) ELSE Cardinality(nat) + 1
      BY ONLY <1>2, FS_AddElement, Zenon
    <3>2. QED
      BY <1>2, <3>1
  <2>5. nat' = nat \union {v}
    BY <2>1 DEF v
  <2>6. IsFiniteSet(nat') /\ Cardinality(nat') <= MaxInSessions
    <3>1. Cardinality(nat \union {v}) \in Nat
      BY <2>4, FS_CardinalityType
    <3>2. QED
      BY <1>2, <2>1, <2>4, <2>5, <3>1
  <2>7. QED
    BY <1>1, <2>1, <2>3, <2>5, <2>6 DEF IngressInv, Derived
<1>4. CASE NatAge
  <2>1. PICK x \in nat : nat' = nat \ {x} /\ pub' = pub /\ deny' = deny
    BY <1>4 DEF NatAge
  <2>2. IsFiniteSet(nat \ {x}) /\ Cardinality(nat \ {x}) <= Cardinality(nat)
    BY <1>2, FS_Subset
  <2>3. Cardinality(nat \ {x}) \in Nat /\ Cardinality(nat) <= MaxInSessions
    BY <1>1, <2>2, FS_CardinalityType DEF IngressInv
  <2>4. IsFiniteSet(nat') /\ Cardinality(nat') <= MaxInSessions
    BY <1>2, <2>1, <2>2, <2>3
  <2>5. QED
    BY <1>1, <2>1, <2>4 DEF IngressInv, Derived
<1>5. CASE UNCHANGED inVars
  BY <1>1, <1>5 DEF inVars, IngressInv, Derived
<1>6. QED
  BY <1>1, <1>3, <1>4, <1>5, CommandsKept DEF IngressNext

\* The initial state has no address, no session and no prefix.
LEMMA IngressInvInit == IngressInit => IngressInv
<1>1. SUFFICES ASSUME IngressInit PROVE IngressInv
  OBVIOUS
<1>2. IsFiniteSet({}) /\ Cardinality({}) = 0 /\ MaxInSessions \in Nat
  BY FS_EmptySet, DenyAssumption
<1>3. nat = {} /\ deny = {} /\ pub \in Pub
  BY <1>1 DEF IngressInit, Pub
<1>4. QED
  BY <1>2, <1>3 DEF IngressInv, Derived

\* Every command and every session keeps IngressInv, whichever calls fail.
THEOREM IngressInvariant == IngressSpec => []IngressInv
BY IngressInvInit, IngressInvNext, PTL DEF IngressSpec

\* The prefixes fit ESWITCH_INGRESS_DENY_MAX_RULES and exist only for an
\* addressed interface with a default-deny policy.
THEOREM IngressTypes == IngressSpec => []IngressTypeOK
<1>1. IngressInv => IngressTypeOK
  <2>1. SUFFICES ASSUME IngressInv PROVE IngressTypeOK
    OBVIOUS
  <2>2. Cardinality(deny) <= MaxSpecs
    <3>1. Cardinality({}) = 0 /\ MaxSpecs \in Nat
      BY FS_EmptySet, AclAssumption
    <3>2. QED
      BY <2>1, <3>1, DenySpecsFit DEF IngressInv, Derived
  <2>3. deny # {} => pub.addressed /\ pub.policy # NoPolicy /\ ~ pub.policy.allow
    BY <2>1, DenySpecsFit DEF IngressInv, Derived
  <2>4. QED
    BY <2>1, <2>2, <2>3 DEF IngressInv, IngressTypeOK
<1>2. QED
  BY <1>1, IngressInvariant, PTL

(***************************************************************************)
(* What the deny prefixes drop, the Arm's ingress policy denies, and no    *)
(* TCP or UDP reply of a NAT session is dropped, for every rule set, NAT   *)
(* range, overflow of the arrays and failing call of                       *)
(* eswitch_pipeline_ingress_deny_sync.                                     *)
(***************************************************************************)
THEOREM DropsOnlyDenied == IngressSpec => []DropsDenied
<1>1. IngressInv => DropsDenied
  <2>1. SUFFICES ASSUME IngressInv, NEW p \in InPacket, HwDrops(p)
                 PROVE  /\ firewall_check(pub.policy, {}, p) = "deny"
                        /\ p.proto # ICMP => ~ NatReply(p)
    BY DEF DropsDenied
  <2>2. PICK s \in deny : SpecHits(s, p)
    BY <2>1 DEF HwDrops
  <2>3. pub.policy # NoPolicy /\ s \in DenySpecs(pub.policy, pub.nat) /\ pub \in Pub
    BY <2>1, <2>2 DEF IngressInv, Derived
  <2>4. PolicyOK(pub.policy) /\ PacketOK(p)
    BY <2>3, PubPolicyOK, DenyAssumption
  <2>5. /\ firewall_check(pub.policy, {}, p) = "deny"
        /\ p.proto # ICMP => p.port \notin pub.nat
    BY <2>2, <2>3, <2>4, DenySpecsSound
  <2>6. NatReply(p) => p.port \in pub.nat
    <3> DEFINE v == [proto |-> p.proto, port |-> p.port]
    <3>1. v.port = p.port
      OBVIOUS
    <3>2. NatReply(p) => v \in nat
      BY DEF NatReply
    <3>3. QED
      BY <2>1, <3>1, <3>2 DEF IngressInv
  <2>7. QED
    BY <2>5, <2>6
<1>2. QED
  BY <1>1, IngressInvariant, PTL

-----------------------------------------------------------------------------
(***************************************************************************)
(* The egress ACL decides like the Arm's checker.                          *)
(***************************************************************************)
UniqueIds(rules) == \A r, s \in rules : r.id = s.id => r = s

\* Priorities follow the rule ids.
LEMMA PriorityOrder ==
  ASSUME NEW rules, IsFiniteSet(rules), \A r \in rules : RuleOK(r),
         NEW r \in Offloaded(rules), NEW s \in Offloaded(rules), r.id < s.id
  PROVE  /\ Priority(rules, r) \in Nat /\ Priority(rules, s) \in Nat
         /\ Priority(rules, r) < Priority(rules, s)
<1> DEFINE A == {x \in Offloaded(rules) : x.id < r.id}
           B == {x \in Offloaded(rules) : x.id < s.id}
<1>1. \A x \in Offloaded(rules) : x \in rules /\ x.id \in Nat
  BY DEF Offloaded, RuleOK
<1>2. A \subseteq B /\ r \in B /\ r \notin A /\ B \subseteq rules
  BY <1>1
<1> HIDE DEF A, B
<1>3. IsFiniteSet(B) /\ IsFiniteSet(A)
  <2>1. IsFiniteSet(B)
    BY <1>2, FS_Subset
  <2>2. QED
    BY <1>2, <2>1, FS_Subset
<1>4. Cardinality(A) \in Nat /\ Cardinality(B) \in Nat
  BY <1>3, FS_CardinalityType
<1>5. Cardinality(A) <= Cardinality(B) /\ (Cardinality(A) = Cardinality(B) => A = B)
  BY <1>2, <1>3, FS_Subset
<1>6. Cardinality(A) < Cardinality(B)
  BY <1>2, <1>4, <1>5
<1>7. Priority(rules, r) = Cardinality(A) /\ Priority(rules, s) = Cardinality(B)
  BY DEF Priority, A, B
<1>8. QED
  BY <1>4, <1>6, <1>7

\* Priorities are numbers.
LEMMA PriorityNat ==
  ASSUME NEW rules, IsFiniteSet(rules), NEW r PROVE Priority(rules, r) \in Nat
<1> DEFINE A == {x \in Offloaded(rules) : x.id < r.id}
<1>1. A \subseteq rules
  BY DEF Offloaded
<1> HIDE DEF A
<1>2. IsFiniteSet(A)
  BY <1>1, FS_Subset
<1>3. QED
  BY <1>2, FS_CardinalityType DEF Priority, A

EntryHits(entries, p) ==
  {e \in entries : e.proto = p.proto /\ p.peer \in e.peers /\ InBlock(p.port, e.block)}

\* The blocks of a rule hold the ports it matches.
LEMMA RuleBlocks ==
  ASSUME NEW r, RuleOK(r), NEW n \in Port
  PROVE  (\E b \in Blocks(PortBits, r.first, IF r.first = 0 THEN 2^PortBits - 1 ELSE r.last) :
            InBlock(n, b))
         <=> (r.first = 0 \/ n \in r.first .. r.last)
<1> DEFINE last == IF r.first = 0 THEN 2^PortBits - 1 ELSE r.last
           B == Blocks(PortBits, r.first, last)
<1>1. 2^PortBits \in Int /\ PortBits \in Nat
  BY AclAssumption
<1> DEFINE top == 2^PortBits
<1>2. top \in Int /\ n \in 0 .. top - 1 /\ r.first \in 0 .. top - 1 /\ r.last \in 0 .. top - 1
      /\ last = IF r.first = 0 THEN top - 1 ELSE r.last
  BY <1>1 DEF Port, RuleOK
<1> HIDE DEF top, last
<1>3. n \in Nat /\ r.first \in Nat /\ last \in Nat /\ last <= top - 1
  BY <1>2
<1>4. /\ \A b \in B : BlockOK(r.first, last, b)
      /\ \A x \in r.first .. last : \E b \in B : Holds(b, x)
  BY <1>1, <1>3, BlocksExact DEF top
<1> HIDE DEF B
<1>5. \A b \in B : InBlock(n, b) <=> Holds(b, n)
  BY <1>3, <1>4, InBlockExact DEF BlockOK, Holds
<1>6. \A b \in B : Holds(b, n) => n \in r.first .. last
  BY <1>3, <1>4 DEF BlockOK, Holds
<1>7. n \in r.first .. last <=> (r.first = 0 \/ n \in r.first .. r.last)
  BY <1>2, <1>3
<1>8. (\E b \in B : InBlock(n, b)) <=> (r.first = 0 \/ n \in r.first .. r.last)
  BY <1>4, <1>5, <1>6, <1>7
<1>9. QED
  BY <1>8 DEF B, last

\* An entry a packet hits belongs to a rule the packet matches,
LEMMA EntryHasRule ==
  ASSUME NEW rules, \A r \in rules : RuleOK(r), NEW p, PacketOK(p), p.proto \in {TCP, UDP},
         NEW e \in EntryHits(acl_build_generation(rules), p)
  PROVE  \E r \in Hits(rules, p) :
           r \in Offloaded(rules) /\ e.prio = Priority(rules, r) /\ e.allow = r.allow
<1> DEFINE X == {y \in Offloaded(rules) \X {TCP, UDP} : router_acl_applies(y[1], y[2])}
<1>1. PICK x \in X : e \in RuleEntries(rules, x[1], x[2])
  BY DEF EntryHits, acl_build_generation
<1> DEFINE r == x[1]
           t == x[2]
<1>2. r \in Offloaded(rules) /\ t \in {TCP, UDP} /\ router_acl_applies(r, t) /\ r \in rules
  BY <1>1 DEF Offloaded
<1>3. e \in RuleEntries(rules, r, t)
  BY <1>1
<1> HIDE DEF r, t, X
<1>4. PICK b \in Blocks(PortBits, r.first, IF r.first = 0 THEN 2^PortBits - 1 ELSE r.last) :
        e = [prio |-> Priority(rules, r), proto |-> t, block |-> b, peers |-> r.peers,
             allow |-> r.allow]
  BY <1>3 DEF RuleEntries
<1>5. t = p.proto /\ p.peer \in r.peers /\ InBlock(p.port, b)
      /\ e.prio = Priority(rules, r) /\ e.allow = r.allow
  BY <1>4 DEF EntryHits
<1>6. RuleOK(r) /\ p.port \in Port
  BY <1>2 DEF PacketOK
<1>7. r.first = 0 \/ p.port \in r.first .. r.last
  BY <1>4, <1>5, <1>6, RuleBlocks
<1>8. r.type < 0 /\ r.code < 0 /\ r.proto \in {0, t} /\ r.type \in Int /\ r.code \in Int
  BY <1>2, <1>6 DEF router_acl_applies, RuleOK, Byte
<1>9. Matches(r, p)
  BY <1>2, <1>5, <1>7, <1>8 DEF Matches
<1>10. QED
  BY <1>2, <1>5, <1>9 DEF Hits

\* and every rule it matches has an entry it hits.
LEMMA RuleHasEntry ==
  ASSUME NEW rules, \A r \in rules : RuleOK(r), NEW p, PacketOK(p), p.proto \in {TCP, UDP},
         NEW r \in Hits(rules, p)
  PROVE  /\ r \in Offloaded(rules)
         /\ \E e \in EntryHits(acl_build_generation(rules), p) :
              e.prio = Priority(rules, r) /\ e.allow = r.allow
<1> DEFINE t == p.proto
           X == {y \in Offloaded(rules) \X {TCP, UDP} : router_acl_applies(y[1], y[2])}
<1>1. r \in rules /\ Matches(r, p) /\ RuleOK(r) /\ p.port \in Port
  BY DEF Hits, PacketOK
<1>2. r.type \in Int /\ r.code \in Int
  BY <1>1 DEF RuleOK, Byte
<1>3. router_acl_applies(r, t) /\ (r.first = 0 \/ p.port \in r.first .. r.last)
      /\ p.peer \in r.peers
  BY <1>1, <1>2 DEF Matches, router_acl_applies, ICMP, TCP, UDP
<1>4. r \in Offloaded(rules)
  BY <1>1, <1>3 DEF Offloaded
<1>5. PICK b \in Blocks(PortBits, r.first, IF r.first = 0 THEN 2^PortBits - 1 ELSE r.last) :
        InBlock(p.port, b)
  BY <1>1, <1>3, RuleBlocks
<1> DEFINE e == [prio |-> Priority(rules, r), proto |-> t, block |-> b, peers |-> r.peers,
                 allow |-> r.allow]
<1>6. e.prio = Priority(rules, r) /\ e.proto = t /\ e.block = b /\ e.peers = r.peers
      /\ e.allow = r.allow
  OBVIOUS
<1>7. e \in RuleEntries(rules, r, t)
  BY <1>5 DEF RuleEntries
<1> HIDE DEF e
<1>8. <<r, t>> \in X /\ <<r, t>>[1] = r /\ <<r, t>>[2] = t
  BY <1>3, <1>4
<1> HIDE DEF X
<1>9. e \in UNION {RuleEntries(rules, x[1], x[2]) : x \in X}
  <2>1. \E x \in X : e \in RuleEntries(rules, x[1], x[2])
    BY <1>7, <1>8
  <2>2. QED
    BY ONLY <2>1, Zenon
<1>10. e \in acl_build_generation(rules)
  BY <1>9 DEF acl_build_generation, X
<1>11. e \in EntryHits(acl_build_generation(rules), p)
  BY <1>3, <1>5, <1>6, <1>10 DEF EntryHits
<1>12. QED
  BY <1>4, <1>6, <1>11

\* First match by priority is first match by rule id: the generation drops
\* exactly the TCP and UDP packets that firewall_check denies.
LEMMA AclExact ==
  ASSUME NEW policy, PolicyOK(policy), IsFiniteSet(policy.rules), UniqueIds(policy.rules),
         NEW local, NEW p, PacketOK(p), p.proto \in {TCP, UDP}, p.peer \notin local
  PROVE  AclVerdict(acl_build_generation(policy.rules), policy.allow, p) = "drop"
           <=> firewall_check(policy, local, p) = "deny"
<1> DEFINE rules == policy.rules
           E == EntryHits(acl_build_generation(rules), p)
           top == {e \in E : \A d \in E : e.prio <= d.prio}
<1>1. \A r \in rules : RuleOK(r)
  BY DEF PolicyOK
<1>2. AclVerdict(acl_build_generation(rules), policy.allow, p) =
        IF (top # {} /\ \A e \in top : e.allow) \/ (top = {} /\ policy.allow) THEN "arm" ELSE "drop"
  BY DEF AclVerdict, EntryHits
<1> HIDE DEF E
<1>3. CASE Hits(rules, p) = {}
  <2>1. E = {}
    BY <1>1, <1>3, EntryHasRule DEF E
  <2>2. top = {}
    BY <2>1
  <2>3. firewall_check(policy, local, p) = Verdict(policy.allow)
    BY <1>3, FirewallVerdict
  <2>4. QED
    BY <1>2, <2>2, <2>3 DEF Verdict
<1>4. CASE Hits(rules, p) # {}
  <2>1. PICK r \in Hits(rules, p) :
          /\ \A s \in Hits(rules, p) : r.id <= s.id
          /\ firewall_check(policy, local, p) = Verdict(r.allow)
    BY <1>4, FirewallVerdict
  <2>2. r \in Offloaded(rules) /\ \E e \in E : e.prio = Priority(rules, r) /\ e.allow = r.allow
    BY <1>1, <2>1, RuleHasEntry DEF E
  <2>3. PICK e \in E : e.prio = Priority(rules, r) /\ e.allow = r.allow
    BY <2>2
  <2>4. ASSUME NEW d \in E
        PROVE  /\ e.prio \in Nat /\ d.prio \in Nat /\ e.prio <= d.prio
               /\ d.prio = e.prio => d.allow = r.allow
    <3>1. PICK s \in Hits(rules, p) :
            s \in Offloaded(rules) /\ d.prio = Priority(rules, s) /\ d.allow = s.allow
      BY <1>1, <2>4, EntryHasRule DEF E
    <3>2. r \in rules /\ s \in rules /\ r.id \in Nat /\ s.id \in Nat /\ r.id <= s.id
      BY <1>1, <2>1, <3>1 DEF Hits, RuleOK
    <3>3. Priority(rules, r) \in Nat /\ Priority(rules, s) \in Nat
      BY PriorityNat
    <3>4. CASE r = s
      BY <2>3, <3>1, <3>3, <3>4
    <3>5. CASE r # s
      <4>1. r.id < s.id
        BY <3>2, <3>5 DEF UniqueIds
      <4>2. Priority(rules, r) < Priority(rules, s)
        BY <1>1, <2>2, <3>1, <4>1, PriorityOrder
      <4>3. QED
        BY <2>3, <3>1, <3>3, <4>2
    <3>6. QED
      BY <3>4, <3>5
  <2>5. e \in top
    BY <2>3, <2>4
  <2>6. \A d \in top : d.allow = r.allow
    BY <2>3, <2>4
  <2>7. QED
    BY <1>2, <2>1, <2>5, <2>6 DEF Verdict
<1>5. QED
  BY <1>3, <1>4

-----------------------------------------------------------------------------
(***************************************************************************)
(* The slot of an interface belongs to the committed configuration: its    *)
(* generation was compiled from the committed rules, and every authorized  *)
(* flow is one the committed policy does not deny.  The fingerprint is     *)
(* part of it, because a synchronization that finds it equal keeps both.   *)
(***************************************************************************)
Flow      == [flow : Packet \ Reply, at : Place, left : 0 .. Lease]
Exception == [reply : Reply, at : Place \union {Unset}]

ConfOK(c) ==
  /\ c \in Conf
  /\ c.policy # NoPolicy => IsFiniteSet(c.policy.rules) /\ UniqueIds(c.policy.rules)

AuthOK(x, c) ==
  /\ x \subseteq Flow /\ IsFiniteSet(x) /\ Cardinality(x) <= MaxAuthorized
  /\ \A a, b \in x : a.flow = b.flow /\ a.at = b.at => a = b
  /\ \A a \in x : firewall_check(c.policy, c.local, a.flow) # "deny"

ExceptOK(x) == x \subseteq Exception /\ IsFiniteSet(x) /\ Cardinality(x) <= MaxExceptions

Shaped(s) ==
  s = [mode |-> s.mode, entries |-> s.entries, allow |-> s.allow, local |-> s.local,
       print |-> s.print, gate |-> s.gate, except |-> s.except, auth |-> s.auth]

SlotOK(s, c) ==
  /\ Shaped(s)
  /\ c.policy # NoPolicy
  /\ s.mode \in {"acl", "arm"} /\ s.gate \in BOOLEAN
  /\ s.allow = c.policy.allow /\ s.local = c.local /\ s.print = acl_fingerprint(c)
  /\ s.mode = "acl" => s.entries = acl_build_generation(c.policy.rules)
  /\ ExceptOK(s.except)
  /\ AuthOK(s.auth, c)

EgressInv ==
  /\ ConfOK(conf)
  /\ sessions \in [Reply -> Place \union {None, Unset}]
  /\ slot # None => SlotOK(slot, conf)

\* Both tables of a slot start empty.
LEMMA EmptyTables == ExceptOK({}) /\ \A c : AuthOK({}, c)
<1>1. IsFiniteSet({}) /\ Cardinality({}) = 0 /\ MaxExceptions \in Nat /\ MaxAuthorized \in Nat
  BY FS_EmptySet, EgressAssumption
<1>2. QED
  BY <1>1 DEF ExceptOK, AuthOK

\* Removing exceptions or flows.
LEMMA FewerExceptions == ASSUME NEW x, ExceptOK(x), NEW y, y \subseteq x PROVE ExceptOK(y)
<1>1. IsFiniteSet(y) /\ Cardinality(y) <= Cardinality(x) /\ IsFiniteSet(x)
  BY FS_Subset DEF ExceptOK
<1>2. Cardinality(y) \in Nat /\ Cardinality(x) \in Nat /\ MaxExceptions \in Nat
  BY <1>1, FS_CardinalityType, EgressAssumption
<1>3. Cardinality(y) <= MaxExceptions
  BY <1>1, <1>2 DEF ExceptOK
<1>4. QED
  BY <1>1, <1>3 DEF ExceptOK

\* Dropping authorised flows keeps the rest within the limit and allowed.
LEMMA FewerFlows == ASSUME NEW c, NEW x, AuthOK(x, c), NEW y, y \subseteq x PROVE AuthOK(y, c)
<1>1. IsFiniteSet(y) /\ Cardinality(y) <= Cardinality(x) /\ IsFiniteSet(x)
  BY FS_Subset DEF AuthOK
<1>2. Cardinality(y) \in Nat /\ Cardinality(x) \in Nat /\ MaxAuthorized \in Nat
  BY <1>1, FS_CardinalityType, EgressAssumption
<1>3. Cardinality(y) <= MaxAuthorized
  BY <1>1, <1>2 DEF AuthOK
<1>4. QED
  BY <1>1, <1>3 DEF AuthOK

\* Replacing the exceptions of a slot.
LEMMA SetExceptions ==
  ASSUME NEW c, NEW s, SlotOK(s, c), NEW x, ExceptOK(x)
  PROVE  SlotOK([s EXCEPT !.except = x], c)
<1> DEFINE t == [s EXCEPT !.except = x]
<1>1. t = [mode |-> s.mode, entries |-> s.entries, allow |-> s.allow, local |-> s.local,
           print |-> s.print, gate |-> s.gate, except |-> x, auth |-> s.auth]
  BY DEF SlotOK, Shaped
<1>2. /\ t.mode = s.mode /\ t.entries = s.entries /\ t.allow = s.allow /\ t.local = s.local
      /\ t.print = s.print /\ t.gate = s.gate /\ t.except = x /\ t.auth = s.auth
  BY <1>1
<1>3. Shaped(t)
  BY <1>1, <1>2 DEF Shaped
<1> HIDE DEF t
<1>4. SlotOK(t, c)
  BY <1>2, <1>3 DEF SlotOK
<1>5. QED
  BY <1>4 DEF t

\* Replacing the authorised flows of a slot.
LEMMA SetFlows ==
  ASSUME NEW c, NEW s, SlotOK(s, c), NEW x, AuthOK(x, c)
  PROVE  SlotOK([s EXCEPT !.auth = x], c)
<1> DEFINE t == [s EXCEPT !.auth = x]
<1>1. t = [mode |-> s.mode, entries |-> s.entries, allow |-> s.allow, local |-> s.local,
           print |-> s.print, gate |-> s.gate, except |-> s.except, auth |-> x]
  BY DEF SlotOK, Shaped
<1>2. /\ t.mode = s.mode /\ t.entries = s.entries /\ t.allow = s.allow /\ t.local = s.local
      /\ t.print = s.print /\ t.gate = s.gate /\ t.except = s.except /\ t.auth = x
  BY <1>1
<1>3. Shaped(t)
  BY <1>1, <1>2 DEF Shaped
<1> HIDE DEF t
<1>4. SlotOK(t, c)
  BY <1>2, <1>3 DEF SlotOK
<1>5. QED
  BY <1>4 DEF t

\* acl_pf_reply_fallback leaves nothing but the selector to the Arm.
LEMMA FallbackOK ==
  ASSUME NEW c, NEW s, SlotOK(s, c) PROVE SlotOK(acl_pf_reply_fallback(s), c)
<1> DEFINE no == FALSE
           t1 == [s EXCEPT !.mode = "arm"]
           t2 == [t1 EXCEPT !.entries = {}]
           t3 == [t2 EXCEPT !.gate = no]
           t4 == [t3 EXCEPT !.except = {}]
           t5 == [t4 EXCEPT !.auth = {}]
<1> HIDE DEF no
<1>1. t1 = [mode |-> "arm", entries |-> s.entries, allow |-> s.allow, local |-> s.local,
            print |-> s.print, gate |-> s.gate, except |-> s.except, auth |-> s.auth]
  BY DEF SlotOK, Shaped
<1> HIDE DEF t1
<1>2. t2 = [mode |-> "arm", entries |-> {}, allow |-> s.allow, local |-> s.local,
            print |-> s.print, gate |-> s.gate, except |-> s.except, auth |-> s.auth]
  BY <1>1
<1> HIDE DEF t2
<1>3. t3 = [mode |-> "arm", entries |-> {}, allow |-> s.allow, local |-> s.local,
            print |-> s.print, gate |-> no, except |-> s.except, auth |-> s.auth]
  BY <1>2
<1> HIDE DEF t3
<1>4. t4 = [mode |-> "arm", entries |-> {}, allow |-> s.allow, local |-> s.local,
            print |-> s.print, gate |-> no, except |-> {}, auth |-> s.auth]
  BY <1>3
<1> HIDE DEF t4
<1>5. t5 = [mode |-> "arm", entries |-> {}, allow |-> s.allow, local |-> s.local,
            print |-> s.print, gate |-> no, except |-> {}, auth |-> {}]
  BY <1>4
<1> HIDE DEF t5
<1>6. /\ t5.mode = "arm" /\ t5.allow = s.allow /\ t5.local = s.local
      /\ t5.print = s.print /\ t5.gate = no /\ t5.except = {} /\ t5.auth = {}
      /\ Shaped(t5)
  BY <1>5 DEF Shaped
<1>7. no \in BOOLEAN
  BY DEF no
<1>8. SlotOK(t5, c)
  BY <1>6, <1>7, EmptyTables DEF SlotOK
<1>9. acl_pf_reply_fallback(s) = t5
  BY ONLY Zenon DEF acl_pf_reply_fallback, t1, t2, t3, t4, t5, no
<1>10. QED
  BY <1>8, <1>9

\* A generation compiled from c, or the Arm fallback for c.
LEMMA SelectedOK ==
  ASSUME NEW c, c.policy # NoPolicy, NEW f PROVE SlotOK(Selected(c, f), c)
<1> DEFINE t == Selected(c, f)
           m == Compiled(c, f)
<1>1. m.mode \in {"acl", "arm"} /\ (m.mode = "acl" => m.entries = acl_build_generation(c.policy.rules))
  BY DEF Compiled
<1> HIDE DEF m
<1>2. t = [mode |-> m.mode, entries |-> m.entries, allow |-> c.policy.allow,
           local |-> c.local, print |-> acl_fingerprint(c), gate |-> f # "gate", except |-> {},
           auth |-> {}]
  BY DEF Selected, m
<1>3. (f # "gate") \in BOOLEAN
  OBVIOUS
<1> DEFINE b == f # "gate"
<1> HIDE DEF b
<1>4. /\ t.mode = m.mode /\ t.entries = m.entries /\ t.allow = c.policy.allow /\ t.local = c.local
      /\ t.print = acl_fingerprint(c) /\ t.gate = b /\ t.except = {} /\ t.auth = {}
      /\ Shaped(t)
  BY <1>2 DEF Shaped, b
<1> HIDE DEF t
<1>5. SlotOK(t, c)
  BY <1>1, <1>3, <1>4, EmptyTables DEF SlotOK, b
<1>6. QED
  BY <1>5 DEF t

\* eswitch_pipeline_egress_acl_sync: a slot of the old configuration c that is
\* kept has the fingerprint of the new one d, so it is a slot of d.
LEMMA AclSyncOK ==
  ASSUME NEW c, NEW d, NEW s, s # None => SlotOK(s, c), NEW f,
         eswitch_pipeline_egress_acl_sync(s, d, f).ok = TRUE,
         eswitch_pipeline_egress_acl_sync(s, d, f).slot # None
  PROVE  SlotOK(eswitch_pipeline_egress_acl_sync(s, d, f).slot, d)
<1> DEFINE after == eswitch_pipeline_egress_acl_sync(s, d, f)
<1>1. CASE d.policy = NoPolicy /\ s = None
  <2>1. after = [slot |-> s, ok |-> TRUE]
    BY <1>1 DEF eswitch_pipeline_egress_acl_sync, UpToDate
  <2>2. QED
    BY <1>1, <2>1
<1>2. CASE d.policy = NoPolicy /\ s # None
  <2>1. after = [slot |-> IF f = "select" THEN s ELSE None, ok |-> f # "select"]
    BY <1>2 DEF eswitch_pipeline_egress_acl_sync, UpToDate
  <2>2. CASE f = "select"
    <3>1. after = [slot |-> s, ok |-> FALSE]
      BY <2>1, <2>2
    <3>2. QED
      BY <3>1
  <2>3. CASE f # "select"
    <3>1. after = [slot |-> None, ok |-> TRUE]
      BY <2>1, <2>3
    <3>2. QED
      BY <3>1
  <2>4. QED
    BY <2>2, <2>3
<1>3. CASE d.policy # NoPolicy /\ UpToDate(s, d)
  <2>1. after = [slot |-> s, ok |-> TRUE]
    BY <1>3 DEF eswitch_pipeline_egress_acl_sync
  <2>2. SlotOK(s, c) /\ s.print = acl_fingerprint(c) /\ s.print = acl_fingerprint(d)
    BY <1>3 DEF UpToDate, SlotOK
  <2>3. c.policy = d.policy /\ c.local = d.local
    BY <2>2 DEF acl_fingerprint
  <2>4. SlotOK(s, d)
    BY <2>2, <2>3 DEF SlotOK, AuthOK
  <2>5. QED
    BY <2>1, <2>4
<1>4. CASE d.policy # NoPolicy /\ ~ UpToDate(s, d)
  <2>1. after = [slot |-> IF f = "select" THEN s ELSE Selected(d, f), ok |-> f # "select"]
    BY <1>4 DEF eswitch_pipeline_egress_acl_sync
  <2>2. CASE f = "select"
    <3>1. after = [slot |-> s, ok |-> FALSE]
      BY <2>1, <2>2
    <3>2. QED
      BY <3>1
  <2>3. CASE f # "select"
    <3>1. after = [slot |-> Selected(d, f), ok |-> TRUE]
      BY <2>1, <2>3
    <3>2. QED
      BY <1>4, <3>1, SelectedOK
  <2>4. QED
    BY <2>2, <2>3
<1>5. QED
  BY <1>1, <1>2, <1>3, <1>4

\* The flush of the exceptions before a command.
LEMMA FlushedOK ==
  ASSUME NEW c, NEW s, s # None => SlotOK(s, c) PROVE Flushed(s) # None => SlotOK(Flushed(s), c)
BY SetExceptions, EmptyTables DEF Flushed

\* The sessions after a flush.
LEMMA NoSessionsOK == NoSessions \in [Reply -> Place \union {None, Unset}]
BY DEF NoSessions

\* A synchronization returns a yes or a no.
LEMMA SyncAnswers ==
  ASSUME NEW s, NEW d, NEW f PROVE eswitch_pipeline_egress_acl_sync(s, d, f).ok \in BOOLEAN
BY DEF eswitch_pipeline_egress_acl_sync, UpToDate

\* A router command, whichever of its calls fails.
LEMMA CommitKept ==
  ASSUME EgressInv, NEW c, ConfOK(c), NEW f, Commit(c, f) PROVE EgressInv'
<1> DEFINE done == eswitch_pipeline_egress_acl_sync(Flushed(slot), c, f)
           ok == done.ok /\ f \notin {"flush", "save"}
           again == eswitch_pipeline_egress_acl_sync(None, conf, "none")
<1>1. /\ conf' = IF ok THEN c ELSE conf
      /\ slot' = IF ok THEN done.slot ELSE again.slot
      /\ sessions' = IF f = "flush" THEN sessions ELSE NoSessions
  BY DEF Commit
<1>2. sessions' \in [Reply -> Place \union {None, Unset}]
  BY <1>1, NoSessionsOK DEF EgressInv
<1>3. CASE ok
  <2>1. conf' = c /\ slot' = done.slot /\ done.ok = TRUE
    BY <1>1, <1>3, SyncAnswers
  <2>2. Flushed(slot) # None => SlotOK(Flushed(slot), conf)
    BY FlushedOK DEF EgressInv
  <2>3. done.slot # None => SlotOK(done.slot, c)
    BY <2>1, <2>2, AclSyncOK
  <2> HIDE DEF done, ok, again
  <2>4. QED
    BY <1>2, <2>1, <2>3 DEF EgressInv, ConfOK, SlotOK, AuthOK
<1>4. CASE ~ ok
  <2>1. conf' = conf /\ slot' = again.slot
    BY <1>1, <1>4
  <2>2. again.ok = TRUE
    <3>1. CASE conf.policy = NoPolicy
      <4>1. again = [slot |-> None, ok |-> TRUE]
        BY <3>1 DEF eswitch_pipeline_egress_acl_sync
      <4>2. QED
        BY <4>1
    <3>2. CASE conf.policy # NoPolicy
      <4>1. again = [slot |-> Selected(conf, "none"), ok |-> TRUE]
        BY <3>2 DEF eswitch_pipeline_egress_acl_sync, UpToDate
      <4>2. QED
        BY <4>1
    <3>3. QED
      BY <3>1, <3>2
  <2>3. again.slot # None => SlotOK(again.slot, conf)
    BY <2>2, AclSyncOK
  <2> HIDE DEF done, ok, again
  <2>4. QED
    BY <1>2, <2>1, <2>3 DEF EgressInv, ConfOK, SlotOK, AuthOK
<1>5. QED
  BY <1>3, <1>4

\* Every command asks for a configuration with finitely many rules and unique
\* rule ids (EGRESS_RULE_ADD refuses an id that is there).
LEMMA EgressCommandsKept ==
  ASSUME EgressInv,
         \/ PolicySet \/ PolicyDelete \/ RuleAdd \/ RuleDelete
         \/ Readdress \/ ForwardChange \/ OtherCommand
  PROVE  EgressInv'
<1>1. ConfOK(conf) /\ conf \in Conf
  BY DEF EgressInv, ConfOK
<1>2. /\ conf.policy \in Policy /\ conf.local \subseteq Peers /\ conf.forwards \in BOOLEAN
      /\ conf.policy # NoPolicy =>
           /\ conf.policy \in [allow : BOOLEAN, rules : SUBSET InputRule]
           /\ IsFiniteSet(conf.policy.rules) /\ UniqueIds(conf.policy.rules)
  BY <1>1 DEF Conf, Policy, ConfOK
<1>3. ASSUME NEW q \in [allow : BOOLEAN, rules : SUBSET InputRule],
             IsFiniteSet(q.rules), UniqueIds(q.rules)
      PROVE  ConfOK([conf EXCEPT !.policy = q])
  <2> DEFINE d == [conf EXCEPT !.policy = q]
  <2>1. d \in Conf /\ d.policy = q
    BY <1>1, <1>3 DEF Conf, Policy
  <2>2. QED
    BY <1>3, <2>1 DEF ConfOK
<1>4. CASE PolicySet
  <2>1. PICK allow \in BOOLEAN, f \in CommandFaults :
          Commit([conf EXCEPT !.policy =
            [allow |-> allow, rules |-> IF @ = NoPolicy THEN {} ELSE @.rules]], f)
    BY <1>4 DEF PolicySet
  <2> DEFINE R == IF conf.policy = NoPolicy THEN {} ELSE conf.policy.rules
             q == [allow |-> allow, rules |-> R]
  <2>2. R \subseteq InputRule /\ IsFiniteSet(R) /\ UniqueIds(R)
    BY <1>2, FS_EmptySet DEF UniqueIds
  <2>3. Commit([conf EXCEPT !.policy = q], f)
    BY <2>1
  <2> HIDE DEF R
  <2>4. q \in [allow : BOOLEAN, rules : SUBSET InputRule] /\ q.rules = R
    BY <2>2
  <2> HIDE DEF q
  <2>5. QED
    BY <1>3, <2>2, <2>3, <2>4, CommitKept
<1>5. CASE PolicyDelete
  <2>1. PICK f \in CommandFaults : Commit([conf EXCEPT !.policy = NoPolicy], f)
    BY <1>5 DEF PolicyDelete
  <2> DEFINE d == [conf EXCEPT !.policy = NoPolicy]
  <2>2. d \in Conf /\ d.policy = NoPolicy
    BY <1>1 DEF Conf, Policy
  <2>3. ConfOK(d)
    BY <2>2 DEF ConfOK
  <2> HIDE DEF d
  <2>4. QED
    BY <2>1, <2>3, CommitKept DEF d
<1>6. CASE RuleAdd
  <2>1. PICK r \in InputRule, f \in CommandFaults :
          /\ conf.policy # NoPolicy
          /\ \A x \in conf.policy.rules : x.id # r.id
          /\ Commit([conf EXCEPT !.policy.rules = @ \union {r}], f)
    BY <1>6 DEF RuleAdd
  <2> DEFINE R == conf.policy.rules \union {r}
             q == [conf.policy EXCEPT !.rules = R]
  <2>2. R \subseteq InputRule /\ UniqueIds(R)
    BY <1>2, <2>1 DEF UniqueIds
  <2>3. IsFiniteSet(R)
    BY <1>2, <2>1, FS_AddElement
  <2>4. Commit([conf EXCEPT !.policy = q], f)
    BY <2>1
  <2> HIDE DEF R
  <2>5. q \in [allow : BOOLEAN, rules : SUBSET InputRule] /\ q.rules = R
    BY <1>2, <2>1, <2>2
  <2> HIDE DEF q
  <2>6. QED
    BY <1>3, <2>2, <2>3, <2>4, <2>5, CommitKept
<1>7. CASE RuleDelete
  <2>1. PICK f \in CommandFaults, r \in conf.policy.rules :
          /\ conf.policy # NoPolicy
          /\ Commit([conf EXCEPT !.policy.rules = @ \ {r}], f)
    BY <1>7 DEF RuleDelete
  <2> DEFINE R == conf.policy.rules \ {r}
             q == [conf.policy EXCEPT !.rules = R]
  <2>2. R \subseteq InputRule /\ UniqueIds(R)
    BY <1>2, <2>1 DEF UniqueIds
  <2>3. IsFiniteSet(R)
    BY <1>2, <2>1, FS_RemoveElement
  <2>4. Commit([conf EXCEPT !.policy = q], f)
    BY <2>1
  <2> HIDE DEF R
  <2>5. q \in [allow : BOOLEAN, rules : SUBSET InputRule] /\ q.rules = R
    BY <1>2, <2>1, <2>2
  <2> HIDE DEF q
  <2>6. QED
    BY <1>3, <2>2, <2>3, <2>4, <2>5, CommitKept
<1>8. CASE Readdress
  <2>1. PICK x \in Peers, f \in CommandFaults :
          Commit([conf EXCEPT !.local = IF x \in @ THEN @ \ {x} ELSE @ \union {x}], f)
    BY <1>8 DEF Readdress
  <2> DEFINE L == IF x \in conf.local THEN conf.local \ {x} ELSE conf.local \union {x}
             d == [conf EXCEPT !.local = L]
  <2>2. L \subseteq Peers
    BY <1>2
  <2>3. Commit(d, f)
    BY <2>1
  <2> HIDE DEF L
  <2>4. d \in Conf /\ d.policy = conf.policy
    BY <1>1, <2>2 DEF Conf
  <2> HIDE DEF d
  <2>5. ConfOK(d)
    BY <1>1, <2>4 DEF ConfOK
  <2>6. QED
    BY <2>3, <2>5, CommitKept
<1>9. CASE ForwardChange
  <2>1. PICK f \in CommandFaults : Commit([conf EXCEPT !.forwards = ~ @], f)
    BY <1>9 DEF ForwardChange
  <2> DEFINE b == ~ conf.forwards
             d == [conf EXCEPT !.forwards = b]
  <2>2. b \in BOOLEAN
    OBVIOUS
  <2>3. Commit(d, f)
    BY <2>1
  <2> HIDE DEF b
  <2>4. d \in Conf /\ d.policy = conf.policy
    BY <1>1, <2>2 DEF Conf
  <2> HIDE DEF d
  <2>5. ConfOK(d)
    BY <1>1, <2>4 DEF ConfOK
  <2>6. QED
    BY <2>3, <2>5, CommitKept
<1>10. CASE OtherCommand
  BY <1>1, <1>10, CommitKept DEF OtherCommand
<1>11. QED
  BY <1>4, <1>5, <1>6, <1>7, <1>8, <1>9, <1>10

\* The slot and the sessions change, the configuration does not.
LEMMA SlotStep ==
  ASSUME EgressInv, conf' = conf, sessions' \in [Reply -> Place \union {None, Unset}],
         slot' # None => SlotOK(slot', conf)
  PROVE  EgressInv'
BY DEF EgressInv, ConfOK, SlotOK, AuthOK

\* An inbound port-forward packet adds an exception, or falls back to the Arm.
LEMMA PfInboundKept == ASSUME EgressInv, NEW q \in Reply, PfInbound(q) PROVE EgressInv'
<1>1. PICK f \in (EgressFaults \intersect {"add", "remove", "select"}) \union {"none"},
           same \in BOOLEAN :
        LET at  == IF sessions[q] = None THEN Unset ELSE sessions[q]
            add == eswitch_pipeline_egress_acl_pf_reply_add(q, at, same, f)
        IN /\ slot' = add.slot
           /\ sessions' = [sessions EXCEPT ![q] = IF add.ok THEN at ELSE None]
           /\ conf' = conf
  BY DEF PfInbound
<1> DEFINE at == IF sessions[q] = None THEN Unset ELSE sessions[q]
           add == eswitch_pipeline_egress_acl_pf_reply_add(q, at, same, f)
           kept == {e \in slot.except : Live(e) \/ (same /\ e.reply = q)}
           v == [reply |-> q, at |-> at]
<1>2. /\ slot' = add.slot /\ conf' = conf
      /\ sessions' = [sessions EXCEPT ![q] = IF add.ok THEN at ELSE None]
  BY <1>1
<1>3. sessions \in [Reply -> Place \union {None, Unset}] /\ at \in Place \union {Unset}
  BY EgressAssumption DEF EgressInv
<1>4. sessions' \in [Reply -> Place \union {None, Unset}]
  BY <1>2, <1>3
<1>5. ASSUME slot # None PROVE SlotOK(slot, conf)
  BY <1>5 DEF EgressInv
<1>6. \/ add.slot = slot
      \/ slot # None /\ add.slot \in {[slot EXCEPT !.except = kept], acl_pf_reply_fallback(slot)}
      \/ /\ slot # None /\ ~ (Cardinality(kept) >= MaxExceptions)
         /\ add.slot = [slot EXCEPT !.except = kept \union {v}]
  <2>1. CASE slot = None \/ slot.mode = "arm"
    BY <2>1 DEF eswitch_pipeline_egress_acl_pf_reply_add
  <2>2. CASE slot # None /\ slot.mode # "arm"
    <3>1. slot.mode = "acl"
      BY <1>5, <2>2 DEF SlotOK
    <3>2. QED
      BY <2>2, <3>1 DEF eswitch_pipeline_egress_acl_pf_reply_add
  <2>3. QED
    BY <2>1, <2>2
<1>7. ASSUME slot # None PROVE ExceptOK(kept)
  <2>1. kept \subseteq slot.except /\ ExceptOK(slot.except)
    BY <1>5, <1>7 DEF SlotOK
  <2>2. QED
    BY <2>1, FewerExceptions
<1>8. ASSUME slot # None, ~ (Cardinality(kept) >= MaxExceptions) PROVE ExceptOK(kept \union {v})
  <2>1. ExceptOK(kept) /\ v \in Exception
    BY <1>3, <1>7, <1>8 DEF Exception
  <2> HIDE DEF kept, v
  <2>2. IsFiniteSet(kept)
    BY <2>1 DEF ExceptOK
  <2>3. /\ IsFiniteSet(kept \union {v})
        /\ Cardinality(kept \union {v}) = IF v \in kept THEN Cardinality(kept) ELSE Cardinality(kept) + 1
    BY ONLY <2>2, FS_AddElement, Zenon
  <2>4. Cardinality(kept) \in Nat /\ MaxExceptions \in Nat
    BY <2>2, FS_CardinalityType, EgressAssumption
  <2>5. Cardinality(kept \union {v}) <= MaxExceptions
    BY <1>8, <2>3, <2>4
  <2>6. QED
    BY <2>1, <2>3, <2>5 DEF ExceptOK
<1> HIDE DEF kept, v, add
<1>9. add.slot # None => SlotOK(add.slot, conf)
  BY <1>5, <1>6, <1>7, <1>8, SetExceptions, FallbackOK
<1>10. QED
  BY <1>2, <1>4, <1>9, SlotStep

\* Lapsed flows are removed, or not.
LEMMA PrunedOK ==
  ASSUME NEW c, NEW s, SlotOK(s, c), NEW f
  PROVE  /\ SlotOK(Pruned(s, f), c)
         /\ Pruned(s, f).gate = s.gate /\ Pruned(s, f).auth \subseteq s.auth
<1> DEFINE x == s.auth \ Lapsed(s)
<1>1. AuthOK(x, c)
  BY FewerFlows DEF SlotOK
<1>2. CASE f = "remove"
  BY <1>2 DEF Pruned
<1>3. CASE f # "remove"
  <2>1. Pruned(s, f) = [s EXCEPT !.auth = x]
    BY <1>3 DEF Pruned
  <2> HIDE DEF x
  <2>2. SlotOK(Pruned(s, f), c)
    BY <1>1, <2>1, SetFlows
  <2>3. [s EXCEPT !.auth = x].gate = s.gate /\ [s EXCEPT !.auth = x].auth = x
    BY DEF SlotOK, Shaped
  <2>4. QED
    BY <2>1, <2>2, <2>3 DEF x
<1>4. QED
  BY <1>2, <1>3

\* A flow the policy allows is authorized once, and only if there is room.
LEMMA AuthorizeOK ==
  ASSUME NEW c, NEW s, SlotOK(s, c), NEW p \in Packet \ Reply, NEW at \in Place, NEW f,
         firewall_check(c.policy, c.local, p) = "allow"
  PROVE  SlotOK(eswitch_pipeline_egress_authorize(s, p, at, f), c)
<1> DEFINE kept == Pruned(s, f)
           mine == {a \in kept.auth : a.flow = p /\ a.at = at}
           v == [flow |-> p, at |-> at, left |-> Lease]
           x == (kept.auth \ mine) \union {v}
           after == eswitch_pipeline_egress_authorize(s, p, at, f)
<1>1. \/ after \in {s, kept}
      \/ /\ ~ (mine = {} /\ Cardinality(kept.auth) >= MaxAuthorized)
         /\ after = [kept EXCEPT !.auth = x]
  BY DEF eswitch_pipeline_egress_authorize
<1>2. SlotOK(kept, c)
  BY PrunedOK
<1>3. AuthOK(kept.auth, c)
  BY <1>2 DEF SlotOK
<1>4. v \in Flow /\ v.flow = p /\ v.at = at
  BY EgressAssumption DEF Flow
<1>5. ASSUME ~ (mine = {} /\ Cardinality(kept.auth) >= MaxAuthorized) PROVE AuthOK(x, c)
  <2> DEFINE A == kept.auth
             B == A \ mine
  <2>1. A \subseteq Flow /\ IsFiniteSet(A) /\ Cardinality(A) <= MaxAuthorized
        /\ B \subseteq A /\ \A b \in B : ~ (b.flow = p /\ b.at = at)
    BY <1>3 DEF AuthOK
  <2>2. Cardinality(A) \in Nat /\ MaxAuthorized \in Nat
    BY <2>1, FS_CardinalityType, EgressAssumption
  <2>3. IsFiniteSet(B) /\ Cardinality(B) <= Cardinality(A) /\ (Cardinality(A) = Cardinality(B) => A = B)
    BY <2>1, FS_Subset
  <2>4. Cardinality(B) \in Nat
    BY <2>3, FS_CardinalityType
  <2>5. Cardinality(B) < MaxAuthorized
    <3>1. CASE mine = {}
      <4>1. ~ (Cardinality(A) >= MaxAuthorized)
        BY <1>5, <3>1
      <4> HIDE DEF A, B
      <4>2. QED
        BY <2>2, <2>3, <2>4, <4>1
    <3>2. CASE mine # {}
      <4>1. A # B
        BY <3>2
      <4> HIDE DEF A, B
      <4>2. QED
        BY <2>1, <2>2, <2>3, <2>4, <4>1
    <3>3. QED
      BY <3>1, <3>2
  <2> HIDE DEF B
  <2>6. /\ IsFiniteSet(B \union {v})
        /\ Cardinality(B \union {v}) = IF v \in B THEN Cardinality(B) ELSE Cardinality(B) + 1
    BY ONLY <2>3, FS_AddElement, Zenon
  <2>7. Cardinality(B \union {v}) <= MaxAuthorized
    BY <2>2, <2>4, <2>5, <2>6
  <2> HIDE DEF v
  <2>8. \A a, b \in B \union {v} : a.flow = b.flow /\ a.at = b.at => a = b
    BY <1>3, <1>4, <2>1 DEF AuthOK
  <2>9. \A a \in B \union {v} : firewall_check(c.policy, c.local, a.flow) # "deny"
    BY <1>3, <1>4, <2>1 DEF AuthOK
  <2>10. B \union {v} \subseteq Flow
    BY <1>4, <2>1
  <2>11. AuthOK(B \union {v}, c)
    BY <2>6, <2>7, <2>8, <2>9, <2>10 DEF AuthOK
  <2>12. QED
    BY <2>11 DEF B
<1> HIDE DEF kept, mine, x, after
<1>6. SlotOK(after, c)
  BY <1>1, <1>2, <1>5, SetFlows
<1>7. QED
  BY <1>6 DEF after

\* A guest packet on the Arm.
LEMMA GuestPacketKept ==
  ASSUME EgressInv, NEW p \in Sent, NEW at \in Place, GuestPacket(p, at) PROVE EgressInv'
<1> DEFINE answers == p \in Reply /\ sessions[p] # None
           verdict == firewall_check(conf.policy, conf.local, p)
<1>1. PICK f :
        /\ sessions' = IF answers THEN [sessions EXCEPT ![p] = at] ELSE sessions
        /\ slot' = IF p \notin Reply /\ verdict = "allow" /\ slot # None
                   THEN eswitch_pipeline_egress_authorize(slot, p, at, f) ELSE slot
        /\ conf' = conf
  BY DEF GuestPacket
<1>2. sessions' \in [Reply -> Place \union {None, Unset}]
  BY <1>1 DEF EgressInv
<1>3. p \in Packet
  BY EgressAssumption
<1>4. slot' # None => SlotOK(slot', conf)
  <2>1. CASE p \notin Reply /\ verdict = "allow" /\ slot # None
    <3>1. slot' = eswitch_pipeline_egress_authorize(slot, p, at, f)
      BY <1>1, <2>1
    <3>2. QED
      BY <1>3, <2>1, <3>1, AuthorizeOK DEF EgressInv
  <2>2. CASE ~ (p \notin Reply /\ verdict = "allow" /\ slot # None)
    <3>1. slot' = slot
      BY <1>1, <2>2
    <3>2. QED
      BY <3>1 DEF EgressInv
  <2>3. QED
    BY <2>1, <2>2
<1>5. QED
  BY <1>1, <1>2, <1>4, SlotStep

\* Periodic work only removes.
LEMMA MaintainKept == ASSUME EgressInv, NEW idle, NEW f, Maintain(idle, f) PROVE EgressInv'
<1> DEFINE left == [q \in Reply |-> IF q \in idle THEN None ELSE sessions[q]]
<1>1. /\ sessions' = left /\ conf' = conf
      /\ slot' = IF slot = None THEN slot ELSE Pruned(PrunedExceptions(slot, left, f), f)
  BY DEF Maintain
<1>2. left \in [Reply -> Place \union {None, Unset}]
  BY DEF EgressInv
<1> HIDE DEF left
<1>3. ASSUME slot # None PROVE SlotOK(slot', conf)
  <2>1. SlotOK(slot, conf)
    BY <1>3 DEF EgressInv
  <2> DEFINE x == {e \in slot.except : left[e.reply] # None}
  <2>2. ExceptOK(x)
    BY <2>1, FewerExceptions DEF SlotOK
  <2>3. PrunedExceptions(slot, left, f) \in {slot, [slot EXCEPT !.except = x]}
    BY DEF PrunedExceptions
  <2> HIDE DEF x
  <2>4. SlotOK(PrunedExceptions(slot, left, f), conf)
    BY <2>1, <2>2, <2>3, SetExceptions
  <2>5. QED
    BY <1>1, <1>3, <2>4, PrunedOK
<1>4. slot' # None => SlotOK(slot', conf)
  BY <1>1, <1>3
<1>5. QED
  BY <1>1, <1>2, <1>4, SlotStep

\* Time shortens the leases, and keeps the flows apart.
LEMMA EgressTickKept == ASSUME EgressInv, Tick PROVE EgressInv'
<1> DEFINE A == slot.auth
           Next1(a) == [a EXCEPT !.left = IF @ = 0 THEN 0 ELSE @ - 1]
           B == {Next1(a) : a \in A}
<1>1. slot # None /\ slot' = [slot EXCEPT !.auth = B] /\ conf' = conf /\ sessions' = sessions
  BY DEF Tick
<1>2. SlotOK(slot, conf) /\ AuthOK(A, conf)
  BY <1>1 DEF EgressInv, SlotOK
<1>3. ASSUME NEW a \in A
      PROVE  Next1(a) \in Flow /\ Next1(a).flow = a.flow /\ Next1(a).at = a.at
  <2>1. a \in Flow /\ Lease \in Nat
    BY <1>2, <1>3, EgressAssumption DEF AuthOK
  <2>2. a.left \in 0 .. Lease
    BY <2>1 DEF Flow
  <2> DEFINE n == IF a.left = 0 THEN 0 ELSE a.left - 1
  <2>3. n \in 0 .. Lease
    BY <2>1, <2>2
  <2>4. Next1(a) = [a EXCEPT !.left = n]
    OBVIOUS
  <2> HIDE DEF n
  <2>5. QED
    BY <2>1, <2>3, <2>4 DEF Flow
<1> HIDE DEF Next1
<1>4. \A b \in B : \E a \in A : b = Next1(a)
  OBVIOUS
<1>5. IsFiniteSet(B) /\ Cardinality(B) <= Cardinality(A)
  <2> DEFINE g == [a \in A |-> Next1(a)]
  <2>1. g \in Surjection(A, B)
    BY DEF Surjection
  <2>2. IsFiniteSet(A)
    BY <1>2 DEF AuthOK
  <2> HIDE DEF g, A, B
  <2>3. QED
    BY <2>1, <2>2, FS_Surjection
<1>6. Cardinality(B) <= MaxAuthorized
  <2>1. Cardinality(A) \in Nat /\ Cardinality(B) \in Nat /\ MaxAuthorized \in Nat
        /\ Cardinality(A) <= MaxAuthorized
    BY <1>2, <1>5, FS_CardinalityType, EgressAssumption DEF AuthOK
  <2>2. QED
    BY <1>5, <2>1
<1> HIDE DEF B
<1>7. ASSUME NEW b \in B PROVE b \in Flow /\ firewall_check(conf.policy, conf.local, b.flow) # "deny"
  <2>1. PICK a \in A : b = Next1(a)
    BY <1>4
  <2>2. QED
    BY <1>2, <1>3, <2>1 DEF AuthOK
<1>8. ASSUME NEW b \in B, NEW d \in B, b.flow = d.flow, b.at = d.at PROVE b = d
  <2>1. PICK a \in A : b = Next1(a)
    BY <1>4
  <2>2. PICK e \in A : d = Next1(e)
    BY <1>4
  <2>3. a.flow = e.flow /\ a.at = e.at
    BY <1>3, <1>8, <2>1, <2>2
  <2>4. a = e
    BY <1>2, <2>3 DEF AuthOK
  <2>5. QED
    BY <2>1, <2>2, <2>4
<1>9. AuthOK(B, conf)
  BY <1>5, <1>6, <1>7, <1>8 DEF AuthOK
<1>10. SlotOK(slot', conf)
  BY <1>1, <1>2, <1>9, SetFlows
<1>11. QED
  BY <1>1, <1>10, SlotStep DEF EgressInv

\* Every step keeps the invariant.
LEMMA EgressInvNext == EgressInv /\ [EgressNext]_egVars => EgressInv'
<1>1. SUFFICES ASSUME EgressInv, [EgressNext]_egVars PROVE EgressInv'
  OBVIOUS
<1>2. CASE PortDetach
  <2>1. /\ slot' = Flushed(slot) /\ conf' = conf
        /\ sessions' \in {sessions, NoSessions}
    BY <1>2 DEF PortDetach
  <2>2. sessions' \in [Reply -> Place \union {None, Unset}]
    BY <1>1, <2>1, NoSessionsOK DEF EgressInv
  <2>3. slot' # None => SlotOK(slot', conf)
    BY <1>1, <2>1, FlushedOK DEF EgressInv
  <2>4. QED
    BY <1>1, <2>1, <2>2, <2>3, SlotStep
<1>3. CASE Maintenance
  BY <1>1, <1>3, MaintainKept DEF Maintenance
<1>4. CASE UNCHANGED egVars
  BY <1>1, <1>4, SlotStep DEF egVars, EgressInv
<1>5. QED
  BY <1>1, <1>2, <1>3, <1>4, EgressCommandsKept, PfInboundKept, GuestPacketKept, EgressTickKept
     DEF EgressNext

\* Every command, packet and maintenance step keeps the slot one of the
\* committed configuration, whichever calls fail.
THEOREM EgressInvariant == EgressSpec => []EgressInv
<1>1. EgressInit => EgressInv
  BY NoSessionsOK DEF EgressInit, EgressInv, ConfOK, Conf, Policy
<1>2. QED
  BY <1>1, EgressInvNext, PTL DEF EgressSpec

\* Neither table of the slot outgrows its array (ESWITCH_MAX_PF_REPLY_EXCEPTIONS,
\* ESWITCH_MAX_EGRESS_AUTHORIZED_FLOWS) and no packet is authorized twice.
THEOREM EgressTypes == EgressSpec => []EgressTypeOK
<1>1. EgressInv => EgressTypeOK
  BY DEF EgressInv, EgressTypeOK, ConfOK, SlotOK, AuthOK, ExceptOK, Flow
<1>2. QED
  BY <1>1, EgressInvariant, PTL

(***************************************************************************)
(* For every rule set and every history of commands and failures the ACL   *)
(* drops what firewall_check denies for the committed configuration and    *)
(* nothing else, and a flow that bypasses the checker is one it does not   *)
(* deny.                                                                   *)
(***************************************************************************)
THEOREM HardwareIsChecker == EgressSpec => []AclIsChecker
<1>1. EgressInv => AclIsChecker
  <2>1. SUFFICES ASSUME EgressInv, NEW p \in Packet, NEW at \in Place
                 PROVE  LET hw      == HwGuest(slot, p, at)
                            verdict == firewall_check(conf.policy, conf.local, p)
                        IN /\ hw = "drop" => verdict = "deny"
                           /\ hw = "route" => verdict # "deny"
                           /\ /\ verdict = "deny" /\ p.proto \in {TCP, UDP}
                              /\ slot # None /\ slot.mode = "acl"
                              /\ [reply |-> p, at |-> at] \notin slot.except
                              => hw = "drop"
    BY DEF AclIsChecker
  <2> DEFINE hw == HwGuest(slot, p, at)
             verdict == firewall_check(conf.policy, conf.local, p)
             acl == AclVerdict(slot.entries, slot.allow, p)
  <2>2. CASE slot = None
    <3>1. hw = "arm"
      BY <2>2 DEF HwGuest
    <3>2. QED
      BY <2>2, <3>1
  <2>3. CASE slot # None
    <3>1. SlotOK(slot, conf) /\ ConfOK(conf)
      BY <2>1, <2>3 DEF EgressInv
    <3>2. /\ conf.policy # NoPolicy /\ slot.mode \in {"acl", "arm"}
          /\ slot.local = conf.local /\ slot.allow = conf.policy.allow
          /\ slot.mode = "acl" => slot.entries = acl_build_generation(conf.policy.rules)
      BY <3>1 DEF SlotOK
    <3>3. /\ PolicyOK(conf.policy) /\ IsFiniteSet(conf.policy.rules)
          /\ UniqueIds(conf.policy.rules) /\ PacketOK(p)
      BY <3>1, <3>2, EgressAssumption DEF ConfOK, Conf, Policy, PolicyOK
    <3>4. CASE Authorized(slot, p, at)
      <4>1. hw = "route"
        BY <2>3, <3>4 DEF HwGuest
      <4>2. PICK a \in slot.auth : a.flow = p
        BY <3>4 DEF Authorized
      <4>3. verdict # "deny"
        BY <3>1, <4>2 DEF SlotOK, AuthOK
      <4>4. QED
        BY <4>1, <4>3
    <3>5. CASE ~ Authorized(slot, p, at)
      <4>1. hw = IF \/ slot.mode = "arm" \/ p.peer \in slot.local \/ p.proto \notin {TCP, UDP}
                    \/ [reply |-> p, at |-> at] \in slot.except
                 THEN "arm" ELSE acl
        BY <2>3, <3>5 DEF HwGuest
      <4>2. acl \in {"arm", "drop"}
        BY DEF AclVerdict
      <4>3. ASSUME slot.mode = "acl", p.peer \notin conf.local, p.proto \in {TCP, UDP}
            PROVE  acl = "drop" <=> verdict = "deny"
        <5>1. acl = AclVerdict(acl_build_generation(conf.policy.rules), conf.policy.allow, p)
          BY <3>2, <4>3
        <5>2. QED
          BY <3>3, <4>3, <5>1, AclExact
      <4>4. p.peer \in conf.local => verdict = "n/a"
        BY DEF firewall_check
      <4> HIDE DEF hw, verdict, acl
      <4>5. QED
        BY <3>2, <4>1, <4>2, <4>3, <4>4 DEF hw, verdict
    <3>6. QED
      BY <3>4, <3>5
  <2>4. QED
    BY <2>2, <2>3
<1>2. QED
  BY <1>1, EgressInvariant, PTL
=============================================================================
