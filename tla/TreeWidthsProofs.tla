--------------------------- MODULE TreeWidthsProofs ---------------------------
(***************************************************************************)
(* Arithmetic for the proofs about both trees.  Induction is over the      *)
(* least counterexample: a set of naturals that is not empty has a least   *)
(* element (LeastNatural), and none can be least.                          *)
(***************************************************************************)
EXTENDS TreeWidths, WellFoundedInduction, TLAPS

\* A set of naturals that is not empty has a least element.
LEMMA LeastNatural ==
    ASSUME NEW T \in SUBSET Nat, T # {}
    PROVE  \E n \in T : \A m \in T : n <= m
<1>1. PICK n \in T : \A m \in T : ~ (<<m, n>> \in OpToRel(<, Nat))
  BY WFMin, NatLessThanWellFounded
<1>2. \A m \in T : ~ (m < n)
  BY <1>1, Zenon DEF OpToRel
<1> QED
  BY <1>2

\* A set of naturals with 0 and with the successor of each of its members that
\* is below a bound has everything up to the bound.
LEMMA UpTo ==
    ASSUME NEW N \in Nat, NEW S, 0 \in S, \A n \in 0 .. N - 1 : n \in S => n + 1 \in S
    PROVE  0 .. N \subseteq S
<1> DEFINE T == {n \in 0 .. N : n \notin S}
<1>1. SUFFICES ASSUME T # {} PROVE FALSE
  OBVIOUS
<1>2. PICK n \in T : \A m \in T : n <= m
  <2>1. T \in SUBSET Nat
    OBVIOUS
  <2> HIDE DEF T
  <2> QED
    BY <1>1, <2>1, LeastNatural
<1>3. n # 0 /\ n - 1 \in 0 .. N - 1 /\ n - 1 \notin T
  BY <1>2
<1>4. n - 1 \in S
  BY <1>3
<1> QED
  BY <1>2, <1>3, <1>4

\* Division, by what it means.
LEMMA Quotient ==
    ASSUME NEW a \in Nat, NEW b \in Nat \ {0}, NEW q \in Nat
    PROVE  /\ a \div b \in Nat
           /\ a \div b = q <=> b * q <= a /\ a < b * (q + 1)
<1>1. a \div b \in Nat /\ b * (a \div b) <= a /\ a < b * ((a \div b) + 1)
  OBVIOUS
<1>2. ASSUME b * q <= a, a < b * (q + 1) PROVE a \div b = q
  <2> DEFINE d == a \div b
  <2>1. CASE d < q
    <3>1. b * (d + 1) <= b * q
      BY <1>1, <2>1
    <3> QED
      BY <1>1, <1>2, <3>1
  <2>2. CASE q < d
    <3>1. b * (q + 1) <= b * d
      BY <1>1, <2>2
    <3> QED
      BY <1>1, <1>2, <3>1
  <2> QED
    BY <2>1, <2>2, <1>1
<1> QED
  BY <1>1, <1>2

-----------------------------------------------------------------------------
(* Levels *)

LEMMA WidthDefined == Width = [l \in Levels |-> IF l = 0 THEN 1 ELSE 2 * Width[l - 1]]
<1> DEFINE Defines(g, n) == g = [l \in 0 .. n |-> IF l = 0 THEN 1 ELSE 2 * g[l - 1]]
           S == {n \in 0 .. TreeDepth : \E g : Defines(g, n)}
<1>1. 0 \in S
  <2>1. Defines([l \in 0 .. 0 |-> 1], 0)
    OBVIOUS
  <2>2. \E g : Defines(g, 0)
    <3> HIDE DEF Defines
    <3> QED
      BY <2>1
  <2> QED
    BY <2>2, TreeDepthAssumption
<1>2. ASSUME NEW n \in 0 .. TreeDepth - 1, n \in S PROVE n + 1 \in S
  <2>1. PICK g : Defines(g, n)
    BY <1>2
  <2> DEFINE h == [l \in 0 .. n + 1 |-> IF l = n + 1 THEN 2 * g[n] ELSE g[l]]
  <2>2. Defines(h, n + 1)
    BY <2>1
  <2>3. \E k : Defines(k, n + 1)
    <3> HIDE DEF Defines, h
    <3> QED
      BY <2>2
  <2>4. n + 1 \in 0 .. TreeDepth
    BY TreeDepthAssumption
  <2> QED
    BY <2>3, <2>4
<1> HIDE DEF S
<1>3. TreeDepth \in S
  BY <1>1, <1>2, UpTo, TreeDepthAssumption
<1>4. PICK g : Defines(g, TreeDepth)
  BY <1>3 DEF S
<1> QED
  BY <1>4 DEF Width, Levels

LEMMA Widths ==
    /\ TreeDepth \in Levels /\ 0 \in Levels
    /\ Width[0] = 1
    /\ \A l \in Levels : Width[l] \in Nat \ {0}
    /\ \A l \in 0 .. TreeDepth - 1 : Width[l + 1] = 2 * Width[l]
<1>0. TreeDepth \in Levels /\ 0 \in Levels
  BY TreeDepthAssumption DEF Levels
<1>1. Width[0] = 1
  BY <1>0, WidthDefined
<1>2. ASSUME NEW l \in 0 .. TreeDepth - 1 PROVE Width[l + 1] = 2 * Width[l]
  BY WidthDefined, TreeDepthAssumption DEF Levels
<1> DEFINE S == {l \in Levels : Width[l] \in Nat \ {0}}
<1>3. 0 \in S /\ \A l \in 0 .. TreeDepth - 1 : l \in S => l + 1 \in S
  BY <1>0, <1>1, <1>2, TreeDepthAssumption DEF Levels
<1>4. \A l \in Levels : l \in S
  <2> HIDE DEF S
  <2> QED
    BY <1>3, UpTo, TreeDepthAssumption DEF Levels
<1> QED
  BY <1>0, <1>1, <1>2, <1>4

LEMMA WidestIsMaxPadded == \A l \in Levels : Width[l] <= MaxPadded
<1> SUFFICES ASSUME NEW l \in Levels PROVE Width[l] <= MaxPadded
  OBVIOUS
<1> DEFINE S == {d \in 0 .. TreeDepth - l : Width[l] <= Width[l + d]}
<1>1. l \in Nat /\ TreeDepth - l \in Nat /\ l + (TreeDepth - l) = TreeDepth
  BY TreeDepthAssumption DEF Levels
<1>2. 0 \in S
  BY <1>1, Widths
<1>3. ASSUME NEW d \in 0 .. TreeDepth - l - 1, d \in S PROVE d + 1 \in S
  <2>1. l + d \in 0 .. TreeDepth - 1 /\ l + d \in Levels /\ l + (d + 1) = (l + d) + 1
    BY <1>1 DEF Levels
  <2>2. Width[l + (d + 1)] = 2 * Width[l + d] /\ Width[l + d] \in Nat /\ Width[l] \in Nat
    BY <2>1, Widths
  <2> QED
    BY <1>1, <1>3, <2>2
<1> HIDE DEF S
<1>4. TreeDepth - l \in S
  BY <1>1, <1>2, <1>3, UpTo
<1> QED
  BY <1>1, <1>4 DEF S, MaxPadded

\* The position one level up is half the position.
LEMMA HalfPosition ==
    ASSUME NEW n \in Nat, NEW l \in 0 .. TreeDepth - 1
    PROVE  n \div Width[l + 1] = (n \div Width[l]) \div 2
<1> DEFINE w == Width[l]
           q == n \div w
           h == q \div 2
<1>1. w \in Nat \ {0} /\ Width[l + 1] = 2 * w /\ 2 * w \in Nat \ {0}
  BY Widths, TreeDepthAssumption DEF Levels
<1>2. q \in Nat /\ w * q <= n /\ n < w * (q + 1)
  BY <1>1, Quotient
<1>3. h \in Nat /\ 2 * h <= q /\ q + 1 <= 2 * (h + 1)
  BY <1>2
<1>4. (2 * w) * h <= n /\ n < (2 * w) * (h + 1)
  <2>1. w * (2 * h) <= w * q /\ w * (q + 1) <= w * (2 * (h + 1))
    BY <1>1, <1>2, <1>3
  <2>2. w * (2 * h) = (2 * w) * h /\ w * (2 * (h + 1)) = (2 * w) * (h + 1)
    BY <1>1, <1>3
  <2> QED
    BY <1>1, <1>2, <1>3, <2>1, <2>2
<1> HIDE DEF w, q, h
<1>5. n \div (2 * w) = h
  BY <1>1, <1>3, <1>4, Quotient
<1> QED
  BY <1>1, <1>5 DEF w, q, h

LEMMA PaddedLevelLemma ==
    ASSUME NEW count \in Nat, count <= MaxPadded
    PROVE  /\ PaddedLevel(count) \in Levels
           /\ count <= PaddedCount(count)
           /\ PaddedCount(count) <= MaxPadded
<1> DEFINE T == {l \in Levels : Width[l] >= count}
<1>1. TreeDepth \in T
  BY Widths DEF MaxPadded
<1>2. T \in SUBSET Nat
  BY DEF Levels
<1>3. PICK l \in T : \A m \in T : l <= m
  <2> HIDE DEF T
  <2> QED
    BY <1>1, <1>2, LeastNatural
<1>4. ASSUME NEW k \in 0 .. l - 1 PROVE Width[k] < count
  <2>1. k \in Levels /\ ~ (l <= k)
    BY <1>3, TreeDepthAssumption DEF Levels
  <2>2. k \notin T
    BY <1>3, <2>1
  <2> QED
    BY <2>1, <2>2, Widths
<1>5. PaddedLevel(count) \in Levels /\ Width[PaddedLevel(count)] >= count
  BY <1>3, <1>4 DEF PaddedLevel
<1> QED
  BY <1>5, WidestIsMaxPadded, Widths DEF PaddedCount
===============================================================================
