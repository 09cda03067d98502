--------------------------- MODULE InductionFacts ---------------------------
(***************************************************************************)
(* Induction over the naturals, stated with sets instead of predicates so  *)
(* that it can be cited: the facts the other proof modules rest on when    *)
(* they need a least position or walk along a queue or a table; and what   *)
(* the community modules' folds compute, from the definition they have.    *)
(***************************************************************************)
EXTENDS Naturals, FiniteSetsExt, WellFoundedInduction, TLAPS

\* Every set of naturals that is not empty has a least element.
LEMMA LeastNat ==
    ASSUME NEW T, T \subseteq Nat, T # {}
    PROVE  \E m \in T : \A k \in T : m <= k
<1>1. \E m \in T : \A k \in T : ~(<<k, m>> \in OpToRel(<, Nat))
  BY WFMin, NatLessThanWellFounded, Zenon
<1>2. \E m \in T : \A k \in T : ~(k < m)
  BY <1>1, Zenon DEF OpToRel
<1> QED  BY <1>2

\* A set that holds 0 and, with every natural, its successor holds them all.
LEMMA SetInduction ==
    ASSUME NEW S, 0 \in S, \A n \in S \cap Nat : n + 1 \in S
    PROVE  Nat \subseteq S
<1> DEFINE T == Nat \ S
<1> SUFFICES ASSUME T # {} PROVE FALSE  OBVIOUS
<1>1. PICK m \in T : \A k \in T : m <= k
  <2> HIDE DEF T
  <2>1. T \subseteq Nat  BY DEF T
  <2> QED  BY <2>1, LeastNat
<1>2. m # 0  OBVIOUS
<1>3. m - 1 \in Nat /\ m - 1 \notin T  BY <1>1, <1>2
<1>4. m - 1 \in S \cap Nat  BY <1>3
<1> QED  BY <1>4

\* The greatest element of a set of positions that has one.
LEMMA MaxOfPositions ==
    ASSUME NEW s, s \subseteq Nat, NEW m \in s, \A y \in s : m >= y
    PROVE  Max(s) = m
<1>1. /\ Max(s) \in s
      /\ \A y \in s : Max(s) >= y
  BY DEF Max
<1>2. ASSUME NEW x \in s, \A y \in s : x >= y
      PROVE  x = m
  BY <1>2
<1> QED  BY <1>1, <1>2

\* Sets of positions have one.
LEMMA MaxInside ==
    ASSUME NEW n \in Nat, NEW s \in SUBSET (1..n), s # {}
    PROVE  Max(s) \in s
<1> DEFINE T == {k \in Nat : \A y \in s : k >= y}
<1>1. n \in T  OBVIOUS
<1>2. PICK m \in T : \A k \in T : m <= k
  <2>1. T \subseteq Nat /\ T # {}  BY <1>1
  <2> HIDE DEF T
  <2> QED  BY <2>1, LeastNat
<1>3. m \in s
  <2> SUFFICES ASSUME m \notin s PROVE FALSE  OBVIOUS
  <2>1. PICK y \in s : TRUE  OBVIOUS
  <2>2. m >= y /\ y >= 1 /\ m # y /\ y \in Nat  OBVIOUS
  <2>3. m - 1 \in Nat  BY <2>2
  <2>4. \A z \in s : m - 1 >= z
    <3> SUFFICES ASSUME NEW z \in s PROVE m - 1 >= z  OBVIOUS
    <3>1. m >= z /\ m # z /\ z \in Nat  OBVIOUS
    <3> QED  BY <3>1
  <2>5. m - 1 \in T  BY <2>3, <2>4
  <2> QED  BY <1>2, <2>5
<1>4. s \subseteq Nat /\ \A y \in s : m >= y  OBVIOUS
<1>5. Max(s) = m  BY <1>3, <1>4, MaxOfPositions
<1> QED  BY <1>3, <1>5

\* The positions before the last one.
LEMMA BeforeLast ==
    ASSUME NEW i \in Nat, i > 0
    PROVE  /\ Max(1..i) = i /\ (1..i) \ {i} = 1..(i - 1) /\ 1..i # {}
<1>1. 1..i \subseteq Nat /\ i \in 1..i /\ \A y \in 1..i : i >= y  OBVIOUS
<1>2. Max(1..i) = i
  <2> DEFINE s == 1..i
  <2>1. s \subseteq Nat /\ i \in s /\ \A y \in s : i >= y  BY <1>1
  <2> HIDE DEF s
  <2>2. Max(s) = i  BY <2>1, MaxOfPositions
  <2> QED  BY <2>2 DEF s
<1> QED  BY <1>1, <1>2

\* Sets of positions up to the last one.
LEMMA UpTo ==
    ASSUME NEW k \in Nat, NEW s \in SUBSET (1..(k + 1))
    PROVE  /\ s \ {k + 1} \in SUBSET (1..k)
           /\ s \ {k + 1} \in SUBSET (1..(k + 1))
           /\ k + 1 \notin s => s \in SUBSET (1..k)
           /\ k + 1 \in s => Max(s) = k + 1
<1>1. s \subseteq Nat /\ \A y \in s : k + 1 >= y  OBVIOUS
<1>2. k + 1 \in s => Max(s) = k + 1  BY <1>1, MaxOfPositions
<1>3. \A y \in s : y # k + 1 => y \in 1..k  OBVIOUS
<1> QED  BY <1>2, <1>3

\* g is the function FoldLeft defines on the sets of positions of t, with the
\* step f.
Folding(g, f, base, t, n) ==
    g = [s \in SUBSET (1..n) |->
            IF s = {} THEN base ELSE f[g[s \ {Max(s)}]][t[Max(s)]]]

\* The recursion of a fold is well founded: a step that stays in C has such a
\* function, with values in C.
LEMMA FoldSolution ==
    ASSUME NEW C, NEW E, NEW f \in [C -> [E -> C]], NEW base \in C,
           NEW n \in Nat, NEW t \in [1..n -> E]
    PROVE  \E g \in [SUBSET (1..n) -> C] : Folding(g, f, base, t, n)
<1> DEFINE Sol(k) == \E g \in [SUBSET (1..k) -> C] : Folding(g, f, base, t, k)
           S == {k \in Nat : k <= n => Sol(k)}
<1>1. 0 \in S
  <2> DEFINE g == [s \in {{}} |-> base]
  <2>1. SUBSET (1..0) = {{}}
    <3>1. 1..0 = {}  OBVIOUS
    <3> QED  BY <3>1
  <2>2. g = [s \in {{}} |->
              IF s = {} THEN base ELSE f[g[s \ {Max(s)}]][t[Max(s)]]]
    OBVIOUS
  <2>3. Folding(g, f, base, t, 0)  BY <2>1, <2>2 DEF Folding
  <2>4. g \in [SUBSET (1..0) -> C]  BY <2>1
  <2> HIDE DEF g
  <2> QED  BY <2>3, <2>4
<1>2. ASSUME NEW k \in Nat, k + 1 <= n,
             NEW g \in [SUBSET (1..k) -> C], Folding(g, f, base, t, k)
      PROVE  Sol(k + 1)
  <2> DEFINE h == [s \in SUBSET (1..(k + 1)) |->
                      IF k + 1 \in s THEN f[g[s \ {k + 1}]][t[k + 1]] ELSE g[s]]
  <2>0. t[k + 1] \in E  BY <1>2
  <2>1. ASSUME NEW s \in SUBSET (1..(k + 1))
        PROVE  /\ h[s] = IF s = {} THEN base
                         ELSE f[h[s \ {Max(s)}]][t[Max(s)]]
               /\ h[s] \in C
    <3>0. /\ s \ {k + 1} \in SUBSET (1..k)
          /\ s \ {k + 1} \in SUBSET (1..(k + 1))
          /\ k + 1 \notin s => s \in SUBSET (1..k)
          /\ k + 1 \in s => Max(s) = k + 1
      BY UpTo
    <3>1. CASE k + 1 \in s
      <4>3. h[s \ {k + 1}] = g[s \ {k + 1}] /\ g[s \ {k + 1}] \in C
        BY <3>0, Zenon
      <4>4. h[s] = f[g[s \ {k + 1}]][t[k + 1]]  BY <3>1, Zenon
      <4>5. s # {}  BY <3>1
      <4>6. f[g[s \ {k + 1}]][t[k + 1]] \in C
        <5>1. f[g[s \ {k + 1}]] \in [E -> C]  BY <4>3, Zenon
        <5> QED  BY <2>0, <5>1, Zenon
      <4> HIDE DEF h
      <4> QED  BY <3>0, <3>1, <4>3, <4>4, <4>5, <4>6, Zenon
    <3>2. CASE k + 1 \notin s
      <4>2. g[s] = IF s = {} THEN base
                   ELSE f[g[s \ {Max(s)}]][t[Max(s)]]
        BY <1>2, <3>0, <3>2, Zenon DEF Folding
      <4>3. h[s] = g[s] /\ g[s] \in C  BY <3>0, <3>2, Zenon
      <4>4. h[s \ {Max(s)}] = g[s \ {Max(s)}]
        <5>1. s \ {Max(s)} \in SUBSET (1..(k + 1))  OBVIOUS
        <5> QED  BY <3>2, <5>1, Zenon
      <4> HIDE DEF h
      <4> QED  BY <4>2, <4>3, <4>4, Zenon
    <3> QED  BY <3>1, <3>2
  <2>2. Folding(h, f, base, t, k + 1)
    <3>1. h = [s \in SUBSET (1..(k + 1)) |-> h[s]]  OBVIOUS
    <3> HIDE DEF h
    <3>2. [s \in SUBSET (1..(k + 1)) |-> h[s]]
            = [s \in SUBSET (1..(k + 1)) |->
                IF s = {} THEN base ELSE f[h[s \ {Max(s)}]][t[Max(s)]]]
      BY <2>1
    <3> QED  BY <3>1, <3>2 DEF Folding
  <2>3. h \in [SUBSET (1..(k + 1)) -> C]
    <3>1. h = [s \in SUBSET (1..(k + 1)) |-> h[s]]  OBVIOUS
    <3> HIDE DEF h
    <3> QED  BY <2>1, <3>1
  <2> HIDE DEF h
  <2> QED  BY <2>2, <2>3
<1>3. ASSUME NEW k \in Nat, k <= n => Sol(k), k + 1 <= n
      PROVE  Sol(k + 1)
  <2> HIDE DEF Sol
  <2>1. Sol(k)  BY <1>3
  <2> QED  BY <1>2, <1>3, <2>1, Zenon DEF Sol
<1> HIDE DEF Sol
<1>4. \A k \in S \cap Nat : k + 1 \in S  BY <1>3
<1>5. Nat \subseteq S
  <2> HIDE DEF S
  <2> QED  BY <1>1, <1>4, SetInduction
<1>6. Sol(n)
  <2>1. n <= n  OBVIOUS
  <2> QED  BY <1>5, <2>1
<1> QED  BY <1>6 DEF Sol

\* What the fold has after i positions stays in C[i].
LEMMA FoldWalk ==
    ASSUME NEW g, NEW n \in Nat, NEW C, g[{}] \in C[0],
           \A i \in 1..n : g[1..(i - 1)] \in C[i - 1] => g[1..i] \in C[i]
    PROVE  g[1..n] \in C[n]
<1> DEFINE S == {k \in Nat : k <= n => g[1..k] \in C[k]}
<1>1. 0 \in S
  <2>1. 1..0 = {}  OBVIOUS
  <2> QED  BY <2>1
<1>2. ASSUME NEW k \in S \cap Nat PROVE k + 1 \in S
  <2>1. CASE k + 1 <= n
    <3>1. k + 1 \in 1..n /\ k <= n /\ (k + 1) - 1 = k  BY <2>1
    <3>2. g[1..k] \in C[k]  BY <3>1
    <3>3. g[1..(k + 1)] \in C[k + 1]  BY <3>1, <3>2
    <3> QED  BY <3>3
  <2>2. CASE ~(k + 1 <= n)  BY <2>2
  <2> QED  BY <2>1, <2>2
<1>3. Nat \subseteq S
  <2> HIDE DEF S
  <2> QED  BY <1>1, <1>2, SetInduction
<1> QED  BY <1>3
=============================================================================
