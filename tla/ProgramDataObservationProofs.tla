--------------------- MODULE ProgramDataObservationProofs ---------------------
(***************************************************************************)
(* Proofs about the chunked observation for every tree depth, chunk size,  *)
(* artifact and interleaving: the frontier holds the hashes of the tree it *)
(* stands for, a header vouches for the payload behind it, and the         *)
(* observation implements one that reads the account at once.              *)
(*                                                                         *)
(* Inductions use UpTo, of TreeWidthsProofs.                               *)
(***************************************************************************)
EXTENDS ProgramDataObservation, TreeWidthsProofs, SequenceTheorems

-----------------------------------------------------------------------------
(* Bits: which slots are occupied, and what an append does to them *)

\* Slots full below f: all leaves so far and the new one fill whole blocks.
LEMMA CarriedPositions ==
    ASSUME NEW n \in Nat, NEW f \in Levels, 0 .. f - 1 \subseteq Bits(n), NEW l \in 0 .. f
    PROVE  /\ n + 1 = Width[l] * ((n \div Width[l]) + 1)
           /\ (n + 1) \div Width[l] = (n \div Width[l]) + 1
<1> DEFINE q(k) == n \div Width[k]
           S == {k \in 0 .. f : n + 1 = Width[k] * (q(k) + 1)}
<1>1. f \in Nat /\ f <= TreeDepth /\ \A k \in 0 .. f : k \in Levels
  BY TreeDepthAssumption DEF Levels
<1>2. \A k \in 0 .. f : Width[k] \in Nat \ {0} /\ q(k) \in Nat
  BY <1>1, Widths, Quotient
<1>3. 0 \in S
  <2>1. q(0) = n
    BY Widths
  <2> QED
    BY <1>1, <2>1, Widths
<1>4. ASSUME NEW k \in 0 .. f - 1, k \in S PROVE k + 1 \in S
  <2>1. k \in 0 .. TreeDepth - 1 /\ k \in 0 .. f /\ k + 1 \in 0 .. f
    BY <1>1, TreeDepthAssumption
  <2>2. q(k) % 2 = 1
    BY DEF Bits
  <2>3. q(k + 1) = q(k) \div 2 /\ Width[k + 1] = 2 * Width[k]
    BY <2>1, HalfPosition, Widths
  <2>4. q(k) + 1 = 2 * (q(k + 1) + 1)
    BY <1>2, <2>1, <2>2, <2>3
  <2> HIDE DEF q
  <2>5. n + 1 = Width[k] * (2 * (q(k + 1) + 1))
    BY <1>4, <2>4
  <2>6. n + 1 = (2 * Width[k]) * (q(k + 1) + 1)
    BY <1>2, <2>1, <2>5
  <2> QED
    BY <2>1, <2>3, <2>6
<1>5. l \in S
  <2> HIDE DEF S
  <2> QED
    BY <1>1, <1>3, <1>4, UpTo
<1>6. n + 1 = Width[l] * (q(l) + 1)
  BY <1>5
<1>7. (n + 1) \div Width[l] = q(l) + 1
  <2> HIDE DEF q
  <2>1. Width[l] * (q(l) + 1) <= n + 1 /\ n + 1 < Width[l] * ((q(l) + 1) + 1)
    BY <1>2, <1>6
  <2>2. n + 1 \in Nat /\ q(l) + 1 \in Nat /\ Width[l] \in Nat \ {0}
    BY <1>2
  <2> QED
    BY <2>1, <2>2, Quotient
<1> QED
  BY <1>6, <1>7

\* Above the free slot, the new leaf completes no block.
LEMMA UncarriedPositions ==
    ASSUME NEW n \in Nat, NEW f \in Levels \ Bits(n), 0 .. f - 1 \subseteq Bits(n),
           NEW l \in f + 1 .. TreeDepth
    PROVE  (n + 1) \div Width[l] = n \div Width[l]
<1> DEFINE q(k) == n \div Width[k]
           r(k) == (n + 1) \div Width[k]
           S == {d \in 0 .. TreeDepth - (f + 1) : r(f + 1 + d) = q(f + 1 + d)}
<1>1. f \in Nat /\ TreeDepth \in Nat /\ TreeDepth - (f + 1) \in Nat
      /\ f \in 0 .. TreeDepth - 1 /\ n + 1 \in Nat
  BY TreeDepthAssumption DEF Levels
<1>2. r(f) = q(f) + 1 /\ q(f) \in Nat /\ q(f) % 2 = 0
  <2>1. q(f) \in Nat
    BY Widths, Quotient
  <2>2. q(f) % 2 # 1
    BY DEF Bits
  <2> QED
    BY <2>1, <2>2, <1>1, CarriedPositions
<1>3. r(f + 1) = q(f + 1)
  <2>1. r(f + 1) = r(f) \div 2 /\ q(f + 1) = q(f) \div 2
    BY <1>1, HalfPosition
  <2> HIDE DEF q, r
  <2> QED
    BY <1>2, <2>1
<1>4. 0 \in S
  BY <1>1, <1>3
<1>5. ASSUME NEW d \in 0 .. TreeDepth - (f + 1) - 1, d \in S PROVE d + 1 \in S
  <2> DEFINE k == f + 1 + d
  <2>1. k \in 0 .. TreeDepth - 1 /\ f + 1 + (d + 1) = k + 1
    BY <1>1
  <2>2. r(k + 1) = r(k) \div 2 /\ q(k + 1) = q(k) \div 2
    BY <1>1, <2>1, HalfPosition
  <2>3. r(k) = q(k)
    BY <1>5
  <2>4. r(k + 1) = q(k + 1)
    <3> HIDE DEF q, r, k
    <3> QED
      BY <2>2, <2>3
  <2>5. d + 1 \in 0 .. TreeDepth - (f + 1)
    BY <1>1
  <2> QED
    BY <2>1, <2>4, <2>5
<1>6. l - (f + 1) \in S
  <2> HIDE DEF S
  <2> QED
    BY <1>1, <1>4, <1>5, UpTo
<1>7. f + 1 + (l - (f + 1)) = l
  BY <1>1
<1> QED
  BY <1>6, <1>7

LEMMA NextBits ==
    ASSUME NEW n \in Nat, NEW f \in Levels \ Bits(n), 0 .. f - 1 \subseteq Bits(n)
    PROVE  Bits(n + 1) = (Bits(n) \ (0 .. f - 1)) \cup {f}
<1>1. f \in Nat
  BY DEF Levels
<1>2. ASSUME NEW l \in 0 .. f - 1 PROVE l \notin Bits(n + 1)
  <2>1. l \in Bits(n) /\ l \in Levels /\ (n \div Width[l]) % 2 = 1 /\ l \in 0 .. f
    BY <1>1 DEF Bits
  <2>a. n \div Width[l] \in Nat
    BY <2>1, Widths, Quotient
  <2>2. (n + 1) \div Width[l] = (n \div Width[l]) + 1
    BY <2>1, CarriedPositions
  <2> QED
    BY <2>1, <2>2, <2>a DEF Bits
<1>3. f \in Bits(n + 1)
  <2>1. (n \div Width[f]) % 2 # 1 /\ f \in 0 .. f /\ n \div Width[f] \in Nat
    BY <1>1, Widths, Quotient DEF Bits
  <2>2. (n + 1) \div Width[f] = (n \div Width[f]) + 1
    BY <2>1, CarriedPositions
  <2> QED
    BY <2>1, <2>2 DEF Bits
<1>4. ASSUME NEW l \in f + 1 .. TreeDepth PROVE l \in Bits(n + 1) <=> l \in Bits(n)
  BY UncarriedPositions DEF Bits
<1>5. \A l \in Levels : l \in 0 .. f - 1 \/ l = f \/ l \in f + 1 .. TreeDepth
  BY <1>1 DEF Levels
<1>6. Bits(n) \subseteq Levels /\ Bits(n + 1) \subseteq Levels
  BY DEF Bits
<1>7. \A l \in f + 1 .. TreeDepth : l \notin 0 .. f - 1 /\ l # f
  BY <1>1
<1>8. f \notin 0 .. f - 1
  BY <1>1
<1> QED
  BY <1>2, <1>3, <1>4, <1>5, <1>6, <1>7, <1>8

\* A slot is free as long as the widest tree has room.
LEMMA FreeBit ==
    ASSUME NEW n \in Nat, n < MaxPadded
    PROVE  \E f \in Levels \ Bits(n) : 0 .. f - 1 \subseteq Bits(n)
<1>1. TreeDepth \in Levels \ Bits(n)
  <2>1. n \div Width[TreeDepth] = 0
    <3>1. Width[TreeDepth] * 0 <= n /\ n < Width[TreeDepth] * (0 + 1)
      BY Widths DEF MaxPadded
    <3> QED
      BY <3>1, Widths, Quotient
  <2> QED
    BY <2>1, Widths DEF Bits
<1>2. Levels \ Bits(n) \in SUBSET Nat
  BY DEF Levels
<1>3. PICK f \in Levels \ Bits(n) : \A m \in Levels \ Bits(n) : f <= m
  BY <1>1, <1>2, LeastNatural
<1>4. ASSUME NEW l \in 0 .. f - 1 PROVE l \in Bits(n)
  <2>1. l \in Levels /\ ~ (f <= l)
    BY <1>3, TreeDepthAssumption DEF Levels
  <2> QED
    BY <1>3, <2>1
<1> QED
  BY <1>3, <1>4

-----------------------------------------------------------------------------
(* The tree and the frontier *)

RowsOf(rows, subject, raw, N) ==
    rows = [l \in 0 .. N |->
               [i \in Nat |->
                   IF l = 0 THEN PaddedLeaf(subject, raw, i)
                   ELSE NodeHash(l, rows[l - 1][2 * i], rows[l - 1][2 * i + 1])]]

LEMMA RowsDefined ==
    ASSUME NEW subject, NEW raw
    PROVE  RowsOf(Rows(subject, raw), subject, raw, TreeDepth)
<1> DEFINE S == {n \in 0 .. TreeDepth : \E rows : RowsOf(rows, subject, raw, n)}
<1>1. 0 \in S
  <2>1. RowsOf([l \in 0 .. 0 |-> [i \in Nat |-> PaddedLeaf(subject, raw, i)]], subject, raw, 0)
    BY DEF RowsOf
  <2>2. \E rows : RowsOf(rows, subject, raw, 0)
    BY <2>1
  <2> QED
    BY <2>2, TreeDepthAssumption
<1>2. ASSUME NEW n \in 0 .. TreeDepth - 1, n \in S PROVE n + 1 \in S
  <2>1. PICK g : RowsOf(g, subject, raw, n)
    BY <1>2
  <2> DEFINE top == [i \in Nat |-> NodeHash(n + 1, g[n][2 * i], g[n][2 * i + 1])]
             h == [l \in 0 .. n + 1 |-> IF l = n + 1 THEN top ELSE g[l]]
  <2>2. h = [l \in 0 .. n + 1 |->
               [i \in Nat |->
                   IF l = 0 THEN PaddedLeaf(subject, raw, i)
                   ELSE NodeHash(l, h[l - 1][2 * i], h[l - 1][2 * i + 1])]]
    <3>1. ASSUME NEW l \in 0 .. n
          PROVE  h[l] = [i \in Nat |->
                            IF l = 0 THEN PaddedLeaf(subject, raw, i)
                            ELSE NodeHash(l, h[l - 1][2 * i], h[l - 1][2 * i + 1])]
      <4>1. h[l] = g[l] /\ (l # 0 => h[l - 1] = g[l - 1])
        BY <3>1
      <4>2. g[l] = [i \in Nat |->
                       IF l = 0 THEN PaddedLeaf(subject, raw, i)
                       ELSE NodeHash(l, g[l - 1][2 * i], g[l - 1][2 * i + 1])]
        BY <2>1 DEF RowsOf
      <4> QED
        BY <4>1, <4>2
    <3>2. h[n + 1] = [i \in Nat |-> NodeHash(n + 1, h[n][2 * i], h[n][2 * i + 1])]
      <4>1. h[n + 1] = top /\ h[n] = g[n]
        OBVIOUS
      <4> HIDE DEF h
      <4> QED
        BY <4>1
    <3>3. (n + 1) - 1 = n /\ n + 1 # 0 /\ \A l \in 0 .. n + 1 : l \in 0 .. n \/ l = n + 1
      OBVIOUS
    <3>4. h = [l \in 0 .. n + 1 |-> h[l]]
      OBVIOUS
    <3> HIDE DEF h
    <3>5. ASSUME NEW l \in 0 .. n + 1
          PROVE  h[l] = [i \in Nat |->
                            IF l = 0 THEN PaddedLeaf(subject, raw, i)
                            ELSE NodeHash(l, h[l - 1][2 * i], h[l - 1][2 * i + 1])]
      BY <3>1, <3>2, <3>3
    <3> QED
      BY <3>4, <3>5
  <2>3. RowsOf(h, subject, raw, n + 1)
    BY <2>2 DEF RowsOf
  <2>4. \E rows : RowsOf(rows, subject, raw, n + 1)
    <3> HIDE DEF h
    <3> QED
      BY <2>3
  <2>5. n + 1 \in 0 .. TreeDepth
    BY TreeDepthAssumption
  <2> QED
    BY <2>4, <2>5
<1> HIDE DEF S
<1>3. TreeDepth \in S
  BY <1>1, <1>2, UpTo, TreeDepthAssumption
<1>4. PICK rows : RowsOf(rows, subject, raw, TreeDepth)
  BY <1>3 DEF S
<1> QED
  BY <1>4 DEF Rows, RowsOf, Levels

LEMMA SubtreeLemma ==
    ASSUME NEW subject, NEW raw, NEW i \in Nat
    PROVE  /\ Subtree(subject, raw, 0, i) = PaddedLeaf(subject, raw, i)
           /\ \A l \in 0 .. TreeDepth - 1 :
                  Subtree(subject, raw, l + 1, i) =
                      NodeHash(l + 1, Subtree(subject, raw, l, 2 * i),
                                      Subtree(subject, raw, l, 2 * i + 1))
<1> DEFINE rows == Rows(subject, raw)
<1>1. RowsOf(rows, subject, raw, TreeDepth)
  BY RowsDefined
<1>2. rows[0][i] = PaddedLeaf(subject, raw, i)
  BY <1>1, TreeDepthAssumption DEF RowsOf
<1>3. ASSUME NEW l \in 0 .. TreeDepth - 1
      PROVE  rows[l + 1][i] = NodeHash(l + 1, rows[l][2 * i], rows[l][2 * i + 1])
  <2>1. l + 1 \in 0 .. TreeDepth /\ l + 1 # 0 /\ (l + 1) - 1 = l
    BY TreeDepthAssumption
  <2> HIDE DEF rows
  <2>2. rows[l + 1] = [k \in Nat |-> NodeHash(l + 1, rows[l][2 * k], rows[l][2 * k + 1])]
    BY <1>1, <2>1 DEF RowsOf
  <2> QED
    BY <2>2
<1> QED
  BY <1>2, <1>3 DEF Subtree

\* What a frontier is for: its slots hold the last complete block of every
\* width that the leaves so far are made of.
Accumulates(frontier, subject, raw) ==
    /\ frontier.next \in Nat
    /\ FrontierValid(frontier)
    /\ \A l \in frontier.occupied :
           frontier.hashes[l] =
               Subtree(subject, raw, l, frontier.next \div Width[l] - 1)

LEMMA EmptyAccumulates ==
    ASSUME NEW subject, NEW raw
    PROVE  Accumulates(EmptyFrontier, subject, raw)
<1>1. EmptyFrontier.next = 0 /\ EmptyFrontier.occupied = {}
      /\ \A l \in Levels : EmptyFrontier.hashes[l] = NoHash
  BY DEF EmptyFrontier
<1>2. ASSUME NEW l \in Levels PROVE 0 \div Width[l] = 0
  BY Widths, Quotient
<1>3. Bits(0) = {}
  BY <1>2 DEF Bits
<1>4. 0 <= MaxPadded
  BY Widths DEF MaxPadded
<1> QED
  BY <1>1, <1>3, <1>4 DEF Accumulates, FrontierValid

CarryOf(carry, hashes, hash, f) ==
    carry = [l \in 0 .. f |->
                IF l = 0 THEN hash ELSE NodeHash(l, hashes[l - 1], carry[l - 1])]

LEMMA CarryExists ==
    ASSUME NEW hashes, NEW hash, NEW f \in Nat
    PROVE  \E carry : CarryOf(carry, hashes, hash, f)
<1> DEFINE S == {n \in Nat : \E carry : CarryOf(carry, hashes, hash, n)}
<1>1. 0 \in S
  <2>1. CarryOf([l \in 0 .. 0 |-> hash], hashes, hash, 0)
    BY DEF CarryOf
  <2> QED
    BY <2>1
<1>2. ASSUME NEW n \in 0 .. f - 1, n \in S PROVE n + 1 \in S
  <2>1. PICK g : CarryOf(g, hashes, hash, n)
    BY <1>2
  <2> DEFINE h == [l \in 0 .. n + 1 |->
                      IF l = n + 1 THEN NodeHash(n + 1, hashes[n], g[n]) ELSE g[l]]
  <2>2. CarryOf(h, hashes, hash, n + 1)
    BY <2>1 DEF CarryOf
  <2>3. \E carry : CarryOf(carry, hashes, hash, n + 1)
    <3> HIDE DEF h
    <3> QED
      BY <2>2
  <2> QED
    BY <2>3
<1> HIDE DEF S
<1>3. f \in S
  BY <1>1, <1>2, UpTo
<1> QED
  BY <1>3 DEF S

LEMMA AppendHashLemma ==
    ASSUME NEW frontier, NEW hash, FreeLevel(frontier) \in Nat
    PROVE  LET f == FreeLevel(frontier) IN
           \E carry :
               /\ CarryOf(carry, frontier.hashes, hash, f)
               /\ AppendHash(frontier, hash) =
                      [hashes |-> [l \in Levels |-> IF l < f THEN NoHash
                                                    ELSE IF l = f THEN carry[l]
                                                    ELSE frontier.hashes[l]],
                       occupied |-> (frontier.occupied \ (0 .. f - 1)) \cup {f},
                       next |-> frontier.next + 1]
<1> DEFINE f == FreeLevel(frontier)
           carry == CHOOSE carry : CarryOf(carry, frontier.hashes, hash, f)
<1>1. CarryOf(carry, frontier.hashes, hash, f)
  BY CarryExists
<1>2. AppendHash(frontier, hash) =
          [hashes |-> [l \in Levels |-> IF l < f THEN NoHash
                                        ELSE IF l = f THEN carry[l]
                                        ELSE frontier.hashes[l]],
           occupied |-> (frontier.occupied \ (0 .. f - 1)) \cup {f},
           next |-> frontier.next + 1]
  BY DEF AppendHash, CarryOf
<1> HIDE DEF carry
<1> QED
  BY <1>1, <1>2

LEMMA FreeLevelLemma ==
    ASSUME NEW frontier, frontier.next \in Nat, FrontierValid(frontier),
           frontier.next < MaxPadded
    PROVE  /\ FreeLevel(frontier) \in Levels \ Bits(frontier.next)
           /\ 0 .. FreeLevel(frontier) - 1 \subseteq Bits(frontier.next)
<1>1. frontier.occupied = Bits(frontier.next)
  BY DEF FrontierValid
<1>2. \E l \in Levels : l \notin frontier.occupied /\ 0 .. l - 1 \subseteq frontier.occupied
  BY <1>1, FreeBit
<1> QED
  BY <1>1, <1>2 DEF FreeLevel

\* The carry hashes the blocks that the new leaf completes.
LEMMA CarryIsSubtree ==
    ASSUME NEW subject, NEW raw, NEW frontier, Accumulates(frontier, subject, raw),
           frontier.next < MaxPadded, NEW carry,
           CarryOf(carry, frontier.hashes, PaddedLeaf(subject, raw, frontier.next),
                   FreeLevel(frontier))
    PROVE  \A l \in 0 .. FreeLevel(frontier) :
               carry[l] = Subtree(subject, raw, l, frontier.next \div Width[l])
<1> DEFINE f == FreeLevel(frontier)
           n == frontier.next
           S == {l \in 0 .. f : carry[l] = Subtree(subject, raw, l, n \div Width[l])}
<1>1. /\ n \in Nat
      /\ f \in Levels \ Bits(n)
      /\ 0 .. f - 1 \subseteq Bits(n)
      /\ frontier.occupied = Bits(n)
  BY FreeLevelLemma DEF Accumulates, FrontierValid
<1>2. f \in Nat /\ 0 .. f \subseteq Levels /\ 0 .. f - 1 \subseteq 0 .. TreeDepth - 1
  BY <1>1, TreeDepthAssumption DEF Levels
<1>3. \A l \in 0 .. f : carry[l] = IF l = 0 THEN PaddedLeaf(subject, raw, n)
                                   ELSE NodeHash(l, frontier.hashes[l - 1], carry[l - 1])
  BY <1>2 DEF CarryOf
<1>4. 0 \in S
  <2>1. n \div Width[0] = n
    BY <1>1, Widths
  <2> QED
    BY <1>1, <1>2, <1>3, <2>1, SubtreeLemma
<1>5. ASSUME NEW l \in 0 .. f - 1, l \in S PROVE l + 1 \in S
  <2> DEFINE q == n \div Width[l]
             h == n \div Width[l + 1]
  <2>1. l \in Levels /\ l \in frontier.occupied /\ l \in 0 .. TreeDepth - 1 /\ l + 1 \in 0 .. f
        /\ l + 1 # 0 /\ (l + 1) - 1 = l
    BY <1>1, <1>2
  <2>2. q \in Nat /\ q % 2 = 1
    BY <1>1, <2>1, Widths, Quotient DEF Bits
  <2>3. h = q \div 2
    BY <1>1, <2>1, HalfPosition
  <2>4. frontier.hashes[l] = Subtree(subject, raw, l, q - 1)
    BY <2>1 DEF Accumulates
  <2>5. carry[l] = Subtree(subject, raw, l, q)
    BY <1>5
  <2>6. carry[l + 1] = NodeHash(l + 1, frontier.hashes[l], carry[l])
    BY <1>3, <2>1
  <2> HIDE DEF q, h
  <2>7. h \in Nat /\ q - 1 = 2 * h /\ q = 2 * h + 1
    BY <2>2, <2>3
  <2>8. Subtree(subject, raw, l + 1, h) =
            NodeHash(l + 1, Subtree(subject, raw, l, 2 * h), Subtree(subject, raw, l, 2 * h + 1))
    BY <2>1, <2>7, SubtreeLemma
  <2>9. carry[l + 1] = Subtree(subject, raw, l + 1, h)
    BY <2>4, <2>5, <2>6, <2>7, <2>8
  <2> QED
    BY <2>1, <2>9 DEF h
<1>6. 0 .. f \subseteq S
  <2> HIDE DEF S, f, n
  <2> QED
    BY <1>2, <1>4, <1>5, UpTo
<1> QED
  BY <1>6

\* One more leaf of the tree, real or padding.
LEMMA AppendAccumulates ==
    ASSUME NEW subject, NEW raw, NEW frontier, Accumulates(frontier, subject, raw),
           frontier.next < MaxPadded
    PROVE  LET after == AppendHash(frontier, PaddedLeaf(subject, raw, frontier.next)) IN
           /\ Accumulates(after, subject, raw)
           /\ after.next = frontier.next + 1
<1> DEFINE leaf == PaddedLeaf(subject, raw, frontier.next)
           after == AppendHash(frontier, leaf)
           f == FreeLevel(frontier)
           n == frontier.next
<1>1. /\ n \in Nat
      /\ f \in Levels \ Bits(n)
      /\ 0 .. f - 1 \subseteq Bits(n)
      /\ frontier.occupied = Bits(n)
      /\ \A l \in Levels \ Bits(n) : frontier.hashes[l] = NoHash
  BY FreeLevelLemma DEF Accumulates, FrontierValid
<1>2. f \in Nat
  BY <1>1 DEF Levels
<1>3. PICK carry :
          /\ CarryOf(carry, frontier.hashes, leaf, f)
          /\ after = [hashes |-> [l \in Levels |-> IF l < f THEN NoHash
                                                   ELSE IF l = f THEN carry[l]
                                                   ELSE frontier.hashes[l]],
                      occupied |-> (frontier.occupied \ (0 .. f - 1)) \cup {f},
                      next |-> n + 1]
  BY <1>2, AppendHashLemma
<1> HIDE DEF after
<1>4. /\ after.next = n + 1
      /\ after.occupied = (Bits(n) \ (0 .. f - 1)) \cup {f}
      /\ \A l \in Levels : after.hashes[l] = IF l < f THEN NoHash
                                             ELSE IF l = f THEN carry[l]
                                             ELSE frontier.hashes[l]
  BY <1>1, <1>3
<1>5. after.occupied = Bits(n + 1)
  BY <1>1, <1>4, NextBits
<1>6. \A l \in 0 .. f : carry[l] = Subtree(subject, raw, l, n \div Width[l])
  BY <1>3, CarryIsSubtree
<1> HIDE DEF f, n
<1>7. FrontierValid(after)
  <2>1. n + 1 <= MaxPadded
    BY <1>1, Widths DEF n, MaxPadded
  <2>2. ASSUME NEW l \in Levels \ after.occupied PROVE after.hashes[l] = NoHash
    <3>1. l < f \/ (l # f /\ ~ (l < f) /\ l \notin Bits(n))
      BY <1>2, <1>4 DEF Levels
    <3> QED
      BY <3>1, <1>1, <1>4
  <2> QED
    BY <1>4, <1>5, <2>1, <2>2 DEF FrontierValid
<1>8. ASSUME NEW l \in after.occupied
      PROVE  after.hashes[l] = Subtree(subject, raw, l, (n + 1) \div Width[l] - 1)
  <2>0. l \in Levels /\ n \div Width[l] \in Nat
    BY <1>1, <1>4, Widths, Quotient DEF Bits
  <2>1. CASE l = f
    <3>1. (n + 1) \div Width[l] = (n \div Width[l]) + 1 /\ l \in 0 .. f
      BY <1>1, <1>2, <2>1, CarriedPositions
    <3>2. (n + 1) \div Width[l] - 1 = n \div Width[l]
      BY <2>0, <3>1
    <3> QED
      BY <2>0, <2>1, <3>1, <3>2, <1>4, <1>6
  <2>2. CASE l # f
    <3>1. l \in Bits(n) /\ l \in f + 1 .. TreeDepth /\ ~ (l < f)
      BY <1>2, <1>4, <2>0, <2>2, TreeDepthAssumption DEF Levels
    <3>2. (n + 1) \div Width[l] = n \div Width[l]
      BY <1>1, <3>1, UncarriedPositions
    <3>3. frontier.hashes[l] = Subtree(subject, raw, l, n \div Width[l] - 1)
      BY <1>1, <3>1 DEF Accumulates, n
    <3> QED
      BY <2>0, <2>2, <3>1, <3>2, <3>3, <1>4
  <2> QED
    BY <2>1, <2>2
<1> QED
  BY <1>1, <1>4, <1>7, <1>8 DEF Accumulates, after, n

-----------------------------------------------------------------------------
(* The root *)

LEMMA ChunkCounts ==
    ASSUME NEW length \in MinRawLength .. MaxRawLength
    PROVE  /\ ChunkCount(length) \in Nat \ {0}
           /\ ChunkCount(length) <= MaxPadded
           /\ length <= RawChunkSize * ChunkCount(length)
           /\ RawChunkSize * (ChunkCount(length) - 1) < length
<1> DEFINE size == RawChunkSize
           top == length + size - 1
           count == top \div size
<1>1. /\ size \in Nat \ {0} /\ MaxPadded \in Nat /\ length \in Nat \ {0}
      /\ length <= size * MaxPadded
  BY ObservationMerkleAssumption, Widths DEF MaxPadded
<1>2. top \in Nat /\ size <= top
  BY <1>1
<1>3. count \in Nat /\ size * count <= top /\ top < size * (count + 1)
  BY <1>1, <1>2, Quotient
<1> HIDE DEF count, top
<1>4. count # 0
  BY <1>1, <1>2, <1>3
<1>5. length <= size * count
  <2>1. size * (count + 1) = size * count + size
    BY <1>1, <1>3
  <2> QED
    BY <1>1, <1>3, <2>1 DEF top
<1>6. size * (count - 1) < length
  <2>1. size * (count - 1) = size * count - size
    BY <1>1, <1>3
  <2> QED
    BY <1>1, <1>3, <2>1 DEF top
<1>7. count <= MaxPadded
  <2> SUFFICES ASSUME ~ (count <= MaxPadded) PROVE FALSE
    OBVIOUS
  <2>1. MaxPadded <= count - 1
    BY <1>1, <1>3
  <2>2. size * MaxPadded <= size * (count - 1)
    BY <1>1, <1>3, <2>1
  <2>3. size * MaxPadded \in Nat /\ size * (count - 1) \in Int
    BY <1>1, <1>3
  <2> QED
    BY <1>1, <1>6, <2>2, <2>3
<1> QED
  BY <1>3, <1>4, <1>5, <1>6, <1>7 DEF ChunkCount, count, top

CompletedOf(completed, frontier, subject, count, total) ==
    completed = [n \in count .. total |->
                    IF n = count THEN frontier
                    ELSE AppendHash(completed[n - 1], EmptyHash(subject, n - 1))]

LEMMA CompletedExists ==
    ASSUME NEW frontier, NEW subject, NEW count \in Nat, NEW total \in Nat, count <= total
    PROVE  \E completed : CompletedOf(completed, frontier, subject, count, total)
<1> DEFINE S == {d \in Nat : \E c : CompletedOf(c, frontier, subject, count, count + d)}
<1>1. 0 \in S
  <2>1. CompletedOf([n \in count .. count |-> frontier], frontier, subject, count, count)
    BY DEF CompletedOf
  <2>2. \E c : CompletedOf(c, frontier, subject, count, count)
    BY <2>1
  <2>3. count + 0 = count
    OBVIOUS
  <2> QED
    BY <2>2, <2>3
<1>2. ASSUME NEW d \in 0 .. total - count - 1, d \in S PROVE d + 1 \in S
  <2> DEFINE t == count + d
  <2>1. t \in Nat /\ count <= t /\ count + (d + 1) = t + 1
    OBVIOUS
  <2>2. PICK g : CompletedOf(g, frontier, subject, count, t)
    BY <1>2
  <2> HIDE DEF t
  <2> DEFINE h == [n \in count .. t + 1 |->
                      IF n = t + 1 THEN AppendHash(g[t], EmptyHash(subject, t)) ELSE g[n]]
  <2>3. CompletedOf(h, frontier, subject, count, t + 1)
    <3>1. ASSUME NEW n \in count .. t + 1
          PROVE  h[n] = IF n = count THEN frontier
                        ELSE AppendHash(h[n - 1], EmptyHash(subject, n - 1))
      <4>1. CASE n = t + 1
        <5>1. h[n] = AppendHash(g[t], EmptyHash(subject, t)) /\ h[t] = g[t] /\ n - 1 = t /\ n # count
          BY <2>1, <4>1
        <5> QED
          BY <5>1
      <4>2. CASE n # t + 1
        <5>1. n \in count .. t /\ h[n] = g[n] /\ (n # count => h[n - 1] = g[n - 1])
          BY <2>1, <4>2
        <5> QED
          BY <2>2, <5>1 DEF CompletedOf
      <4> QED
        BY <4>1, <4>2
    <3>2. h = [n \in count .. t + 1 |-> h[n]]
      OBVIOUS
    <3> HIDE DEF h
    <3> QED
      BY <3>1, <3>2 DEF CompletedOf
  <2>4. \E c : CompletedOf(c, frontier, subject, count, t + 1)
    <3> HIDE DEF h
    <3> QED
      BY <2>3
  <2> QED
    BY <2>1, <2>4
<1>3. total - count \in S
  <2> HIDE DEF S
  <2>1. total - count \in Nat
    OBVIOUS
  <2> QED
    BY <1>1, <1>2, <2>1, UpTo
<1>4. count + (total - count) = total
  OBVIOUS
<1> QED
  BY <1>3, <1>4

\* Where the padding after a leaves stands, d leaves short of b.
LEMMA InTheGap ==
    ASSUME NEW a \in Nat, NEW b \in Nat, NEW limit \in Nat, b <= limit,
           NEW d \in 0 .. b - a - 1
    PROVE  /\ a + d \in Nat /\ a + d < limit /\ a + d >= a
           /\ a + (d + 1) = a + d + 1
           /\ a + d + 1 \in a .. b /\ a + d + 1 # a /\ (a + d + 1) - 1 = a + d
  OBVIOUS

(***************************************************************************)
(* The root that finalize_programdata_observation_frontier computes from   *)
(* the few hashes of the frontier, after carrying padding leaves up to the *)
(* next power of two, is the root of the whole tree over the account.      *)
(***************************************************************************)
THEOREM FinalRootTheorem ==
    ASSUME NEW subject, NEW raw, Len(raw) \in MinRawLength .. MaxRawLength,
           NEW frontier, Accumulates(frontier, subject, raw),
           frontier.next = ChunkCount(Len(raw))
    PROVE  FinalRoot(frontier, subject) = TreeRoot(subject, raw)
<1> DEFINE count == frontier.next
           level == PaddedLevel(count)
           total == PaddedCount(count)
           c == CHOOSE c : CompletedOf(c, frontier, subject, count, total)
<1>1. /\ count \in Nat /\ count <= MaxPadded
      /\ level \in Levels /\ total = Width[level] /\ total \in Nat \ {0}
      /\ count <= total /\ total <= MaxPadded /\ MaxPadded \in Nat
  BY ChunkCounts, PaddedLevelLemma, Widths DEF PaddedCount, MaxPadded
<1>2. CompletedOf(c, frontier, subject, count, total)
  BY <1>1, CompletedExists
<1>3. FinalRoot(frontier, subject) = c[total].hashes[level]
  BY DEF FinalRoot, CompletedOf
<1> DEFINE S == {d \in 0 .. total - count :
                    Accumulates(c[count + d], subject, raw) /\ c[count + d].next = count + d}
<1> HIDE DEF c, level, total
<1>4. 0 \in S
  <2>1. c[count] = frontier /\ count + 0 = count
    BY <1>1, <1>2 DEF CompletedOf
  <2> QED
    BY <1>1, <2>1
<1>5. ASSUME NEW d \in 0 .. total - count - 1, d \in S PROVE d + 1 \in S
  <2> DEFINE n == count + d
  <2>1. /\ n \in Nat /\ n < MaxPadded /\ n >= count
        /\ count + (d + 1) = n + 1
        /\ n + 1 \in count .. total /\ n + 1 # count /\ (n + 1) - 1 = n
    <3>1. count \in Nat /\ total \in Nat /\ MaxPadded \in Nat /\ total <= MaxPadded
      BY <1>1
    <3> HIDE DEF count
    <3> QED
      BY <3>1, InTheGap
  <2>2. Accumulates(c[n], subject, raw) /\ c[n].next = n
    BY <1>5
  <2> HIDE DEF n
  <2>3. c[n + 1] = AppendHash(c[n], EmptyHash(subject, n))
    BY <1>2, <2>1 DEF CompletedOf
  <2>4. PaddedLeaf(subject, raw, n) = EmptyHash(subject, n)
    <3>1. ~ (n < ChunkCount(Len(raw)))
      BY <1>1, <2>1
    <3> QED
      BY <3>1 DEF PaddedLeaf
  <2>5. Accumulates(c[n + 1], subject, raw) /\ c[n + 1].next = n + 1
    BY <2>1, <2>2, <2>3, <2>4, AppendAccumulates
  <2>6. d + 1 \in 0 .. total - count
    BY <1>1
  <2> QED
    BY <2>1, <2>5, <2>6
<1>6. Accumulates(c[total], subject, raw) /\ c[total].next = total
  <2>1. total - count \in S
    <3> HIDE DEF S
    <3>1. total - count \in Nat
      BY <1>1
    <3> QED
      BY <1>4, <1>5, <3>1, UpTo
  <2>2. count + (total - count) = total
    BY <1>1
  <2> QED
    BY <2>1, <2>2
<1>7. total \div Width[level] = 1
  <2>1. total * 1 <= total /\ total < total * (1 + 1)
    BY <1>1
  <2> QED
    BY <1>1, <2>1, Quotient
<1>8. level \in c[total].occupied
  BY <1>1, <1>6, <1>7 DEF Accumulates, FrontierValid, Bits
<1>9. c[total].hashes[level] = Subtree(subject, raw, level, 0)
  BY <1>6, <1>7, <1>8 DEF Accumulates
<1> QED
  BY <1>3, <1>9 DEF TreeRoot, level

-----------------------------------------------------------------------------
(***************************************************************************)
(* The invariant.  HeaderVouchesForPayload is silent while the header      *)
(* differs, and an authority may come back to what it was, so it is not    *)
(* inductive.  The invariant goes by the deployed slot alone, which never  *)
(* returns: an observation knows the account as long as that slot stands.  *)
(***************************************************************************)

Account == [payload : Seq(Cells), deployed : Nat, authority : Authorities]
Statuses == {"Accumulating", "ReadyToFinalize", "Finalized"}

\* A record with the fields of ProgramDataObservationV1.
HasFields(o) ==
    o = [digest |-> o.digest, graph |-> o.graph, frontier |-> o.frontier,
         nextArtifact |-> o.nextArtifact, tailVerified |-> o.tailVerified,
         startSlot |-> o.startSlot, lastObserved |-> o.lastObserved,
         finalizedSlot |-> o.finalizedSlot, root |-> o.root, status |-> o.status]

Typed(digest, o) ==
    /\ digest \in Digests
    /\ HasFields(o)
    /\ o.digest = digest
    /\ o.graph \in [deployed : Nat, authority : Authorities, capacity : 0 .. PolicyCapacity]
    /\ o.frontier.next \in Nat
    /\ o.nextArtifact \in Nat
    /\ o.status \in Statuses
    /\ RecordValid(o)

Types ==
    /\ accounts \in [Programs -> Account]
    /\ slot \in Nat
    /\ observations = [digest \in DOMAIN observations |-> observations[digest]]
    /\ \A digest \in DOMAIN observations : Typed(digest, observations[digest])

\* The account that o observed: its header at the beginning, the payload now.
Observed(o) ==
    [payload |-> accounts[o.digest.program].payload,
     deployed |-> o.graph.deployed, authority |-> o.graph.authority]

RawObserved(o) == Atomic!RawData(Observed(o))

\* What o has read, if the program was not deployed again since.
Read(o) ==
    LET payload == accounts[o.digest.program].payload
        artifact == o.digest.artifact
    IN  /\ Len(payload) = o.graph.capacity
        /\ Accumulates(o.frontier, o.digest, RawObserved(o))
        /\ \A i \in 1 .. Len(artifact) :
               i <= o.nextArtifact * ArtifactChunkSize => payload[i] = artifact[i]
        /\ \A i \in Len(artifact) + 1 .. Len(payload) :
               MetadataLength + i <= RawChunkSize * o.frontier.next => payload[i] = Zero
        /\ o.status = "Finalized" => o.root = TreeRoot(o.digest, RawObserved(o))

Knows(o) ==
    /\ o.graph.deployed <= accounts[o.digest.program].deployed
    /\ o.graph.deployed = accounts[o.digest.program].deployed => Read(o)

ObservationInv ==
    /\ Types
    /\ \A digest \in DOMAIN observations : Knows(observations[digest])

\* The header comes first, the payload is the rest.
LEMMA RawLemma ==
    ASSUME NEW account \in Account
    PROVE  /\ Len(account.payload) \in Nat
           /\ Len(Atomic!RawData(account)) = MetadataLength + Len(account.payload)
           /\ \A i \in 1 .. Len(account.payload) :
                  Atomic!RawData(account)[MetadataLength + i] = account.payload[i]
<1> DEFINE H == [cell : 1 .. MetadataLength, deployed : Nat, authority : Authorities]
           header == Atomic!HeaderCells(account)
           payload == account.payload
           X == H \cup Cells
<1>1. MetadataLength \in Nat
  BY ObservationAssumption
<1>2. header \in [1 .. MetadataLength -> H]
  BY DEF Atomic!HeaderCells, Account
<1>3. header \in Seq(X) /\ Len(header) = MetadataLength
  <2> HIDE DEF header, H
  <2> QED
    BY <1>1, <1>2
<1>4. payload \in Seq(Cells) /\ payload \in Seq(X) /\ Len(payload) \in Nat
  <2>1. payload \in Seq(Cells)
    BY DEF Account
  <2> HIDE DEF payload, H
  <2>2. payload \in [1 .. Len(payload) -> Cells] /\ Len(payload) \in Nat
    BY <2>1, LenProperties
  <2>3. payload \in [1 .. Len(payload) -> X]
    BY <2>2
  <2> QED
    BY <2>1, <2>2, <2>3
<1>5. Atomic!RawData(account) = header \o payload
  BY DEF Atomic!RawData
<1> HIDE DEF header, payload, X
<1>6. /\ Len(header \o payload) = Len(header) + Len(payload)
      /\ \A i \in 1 .. Len(header) + Len(payload) :
             (header \o payload)[i] = IF i <= Len(header) THEN header[i]
                                      ELSE payload[i - Len(header)]
  BY <1>3, <1>4, ConcatProperties
<1>7. ASSUME NEW i \in 1 .. Len(payload)
      PROVE  (header \o payload)[MetadataLength + i] = payload[i]
  <2>1. /\ MetadataLength + i \in 1 .. Len(header) + Len(payload)
        /\ ~ (MetadataLength + i <= Len(header))
        /\ (MetadataLength + i) - Len(header) = i
    BY <1>1, <1>3, <1>4
  <2> QED
    BY <1>6, <2>1
<1> QED
  BY <1>3, <1>4, <1>5, <1>6, <1>7 DEF payload

LEMMA RawSame ==
    ASSUME NEW a, NEW b, a.deployed = b.deployed, a.authority = b.authority,
           a.payload = b.payload
    PROVE  Atomic!RawData(a) = Atomic!RawData(b)
BY DEF Atomic!RawData, Atomic!HeaderCells

\* The digest of an observation names one of the programs, and sound inputs.
LEMMA DigestLemma ==
    ASSUME NEW digest \in Digests
    PROVE  /\ digest.program \in Programs
           /\ digest.artifact \in Artifacts /\ digest.artifact \in Seq(Cells)
           /\ Len(digest.artifact) \in Nat \ {0}
           /\ digest.minimum \in Nat
           /\ digest.gate \in Gates
<1>1. PICK purpose \in Purposes :
          digest \in [program : {ObservedProgram(purpose)}, purpose : {purpose},
                      subject : Subjects, generation : 1 .. MaxGeneration, gate : Gates,
                      artifact : Artifacts, minimum : Minima]
  BY DEF Digests
<1>2. digest.program = ObservedProgram(purpose) /\ digest.artifact \in Artifacts
      /\ digest.minimum \in Minima /\ digest.gate \in Gates
  BY <1>1
<1>3. digest.artifact \in Seq(Cells) /\ digest.artifact # <<>>
  BY <1>2, ObservationAssumption
<1>4. Len(digest.artifact) \in Nat \ {0}
  BY <1>3, LenProperties, EmptySeq
<1> QED
  BY <1>2, <1>3, <1>4, ObservationAssumption DEF Programs

\* What a loaded observation is about.
LEMMA LoadsLemma ==
    ASSUME ObservationInv, NEW digest, Loads(digest)
    PROVE  LET o == observations[digest]
               account == accounts[digest.program]
           IN  /\ Typed(digest, o)
               /\ account \in Account
               /\ Observed(o) \in Account
               /\ o.graph = Graph(digest.program)
               /\ RawObserved(o) = RawData(digest.program)
               /\ Len(RawData(digest.program)) = RawLength(o)
               /\ Read(o)
<1> DEFINE o == observations[digest]
           account == accounts[digest.program]
<1>1. Typed(digest, o) /\ Knows(o) /\ accounts \in [Programs -> Account]
  BY DEF ObservationInv, Types, Loads
<1>2. account \in Account
  BY <1>1, DigestLemma DEF Typed
<1>3. o.graph = Graph(digest.program) /\ o.digest = digest
  BY <1>1 DEF Loads, GraphFresh, Typed
<1>4. o.graph.deployed = account.deployed /\ o.graph.authority = account.authority
      /\ o.graph.capacity = Len(account.payload)
  BY <1>3 DEF Graph
<1>5. Observed(o) \in Account
  BY <1>2, <1>3, <1>4 DEF Observed, Account
<1>6. RawObserved(o) = RawData(digest.program)
  BY <1>3, <1>4, RawSame DEF RawObserved, RawData, Observed
<1>7. Len(RawData(digest.program)) = RawLength(o)
  BY <1>2, <1>4, RawLemma DEF RawData, RawLength
<1>8. Read(o)
  BY <1>1, <1>3, <1>4 DEF Knows
<1> QED
  BY <1>1, <1>2, <1>3, <1>5, <1>6, <1>7, <1>8

LEMMA StoreKeeps ==
    ASSUME ObservationInv, NEW digest \in DOMAIN observations, NEW o,
           Typed(digest, o), Knows(o), Store(o)
    PROVE  ObservationInv'
<1>1. /\ observations' = [observations EXCEPT ![digest] = o]
      /\ accounts' = accounts /\ slot' = slot /\ gate' = gate
  BY DEF Store, Typed
<1>2. /\ DOMAIN observations' = DOMAIN observations
      /\ observations' = [d \in DOMAIN observations' |-> observations'[d]]
      /\ \A d \in DOMAIN observations :
             observations'[d] = IF d = digest THEN o ELSE observations[d]
  BY <1>1
<1>3. Types'
  BY <1>1, <1>2 DEF ObservationInv, Types
<1>4. \A d \in DOMAIN observations' : Knows(observations'[d])
  BY <1>2 DEF ObservationInv
<1>5. \A d \in DOMAIN observations' : Knows(observations[d])'
  BY <1>1, <1>4 DEF Knows, Read, RawObserved, Observed
<1> QED
  BY <1>3, <1>5 DEF ObservationInv

-----------------------------------------------------------------------------
(* The steps of an observation *)

\* The certificates issued: what an observation implements AtomicObservation by.
Certificates == [digest \in Certified |-> observations[digest].root]

\* A step on a record that is not finalized, and is not by it, certifies nothing.
LEMMA StoreCertifiesNothing ==
    ASSUME Types, NEW digest \in DOMAIN observations, NEW o, o.digest = digest,
           observations[digest].status # "Finalized", o.status # "Finalized", Store(o)
    PROVE  Certificates' = Certificates
<1>1. observations' = [observations EXCEPT ![digest] = o]
  BY DEF Store
<1>2. /\ DOMAIN observations' = DOMAIN observations
      /\ \A d \in DOMAIN observations :
             observations'[d] = IF d = digest THEN o ELSE observations[d]
  BY <1>1
<1>3. Certified' = Certified
  BY <1>2 DEF Certified
<1>4. \A d \in Certified : observations'[d] = observations[d]
  BY <1>2 DEF Certified
<1> QED
  BY <1>3, <1>4 DEF Certificates

\* RecordValid says when the traversal is complete.
LEMMA CompleteLemma ==
    ASSUME NEW o, RecordValid(o), o.status # "Accumulating"
    PROVE  /\ o.frontier.next = ChunkCount(RawLength(o))
           /\ o.nextArtifact = ArtifactChunkCount(o.digest.artifact)
BY DEF RecordValid, TraversalComplete

\* SetReady touches the status, and nothing but the status.
LEMMA SetReadyLemma ==
    ASSUME NEW o, HasFields(o), o.status = "Accumulating"
    PROVE  /\ HasFields(SetReady(o))
           /\ SetReady(o).status \in {"Accumulating", "ReadyToFinalize"}
           /\ SetReady(o).digest = o.digest /\ SetReady(o).graph = o.graph
           /\ SetReady(o).frontier = o.frontier /\ SetReady(o).nextArtifact = o.nextArtifact
<1>1. CASE TraversalComplete(o)
  <2>1. SetReady(o) = [o EXCEPT !.status = "ReadyToFinalize"]
    BY <1>1 DEF SetReady
  <2> QED
    BY <2>1 DEF HasFields
<1>2. CASE ~ TraversalComplete(o)
  BY <1>2 DEF SetReady
<1> QED
  BY <1>1, <1>2

LEMMA BeginKeeps ==
    ASSUME ObservationInv, NEW digest \in Digests, BeginProgramDataObservation(digest)
    PROVE  ObservationInv'
<1> DEFINE o == NewObservation(digest)
           account == accounts[digest.program]
<1>1. /\ digest \notin DOMAIN observations
      /\ GraphReadable(Graph(digest.program))
      /\ RecordValid(o)
      /\ observations' = [d \in DOMAIN observations \cup {digest} |->
                             IF d = digest THEN NewObservation(d) ELSE observations[d]]
      /\ accounts' = accounts /\ gate' = gate /\ slot' = slot
  BY DEF BeginProgramDataObservation
<1>2. /\ o.digest = digest /\ o.graph = Graph(digest.program)
      /\ o.frontier = EmptyFrontier /\ o.nextArtifact = 0 /\ o.status = "Accumulating"
      /\ HasFields(o)
  BY DEF NewObservation, HasFields
<1>3. account \in Account /\ Len(account.payload) \in Nat
  BY DigestLemma, RawLemma DEF ObservationInv, Types
<1>4. o.graph \in [deployed : Nat, authority : Authorities, capacity : 0 .. PolicyCapacity]
  BY <1>1, <1>2, <1>3, ObservationAssumption DEF Graph, GraphReadable, Account
<1>5. EmptyFrontier.next = 0
  BY DEF EmptyFrontier
<1>6. Typed(digest, o)
  <2> HIDE DEF o
  <2> QED
    BY <1>1, <1>2, <1>4, <1>5 DEF Typed, Statuses
<1>7. Knows(o)
  <2> HIDE DEF o
  <2>1. o.graph.deployed = account.deployed /\ o.graph.capacity = Len(account.payload)
        /\ account.deployed \in Nat
    BY <1>2, <1>3 DEF Graph, Account
  <2>2. Accumulates(o.frontier, o.digest, RawObserved(o))
    BY <1>2, EmptyAccumulates
  <2>3. \A i \in 1 .. Len(digest.artifact) : ~ (i <= 0 * ArtifactChunkSize)
    BY ObservationAssumption
  <2>4. \A i \in Len(digest.artifact) + 1 .. Len(account.payload) :
            ~ (MetadataLength + i <= RawChunkSize * 0)
    BY DigestLemma, ObservationAssumption, ObservationMerkleAssumption
  <2> QED
    BY <1>2, <1>5, <2>1, <2>2, <2>3, <2>4 DEF Knows, Read
<1>8. /\ DOMAIN observations' = DOMAIN observations \cup {digest}
      /\ observations' = [d \in DOMAIN observations' |-> observations'[d]]
      /\ \A d \in DOMAIN observations' :
             observations'[d] = IF d = digest THEN o ELSE observations[d]
  BY <1>1
<1> HIDE DEF o
<1>9. Types'
  BY <1>1, <1>6, <1>8 DEF ObservationInv, Types
<1>10. \A d \in DOMAIN observations' : Knows(observations'[d])
  BY <1>7, <1>8 DEF ObservationInv
<1>11. \A d \in DOMAIN observations' : Knows(observations[d])'
  <2>1. accounts' = accounts
    BY <1>1
  <2> QED
    BY <1>10, <2>1 DEF Knows, Read, RawObserved, Observed
<1> QED
  BY <1>9, <1>11 DEF ObservationInv

\* A raw chunk is the next leaf, and its tail cells are zero.
LEMMA AppendKeeps ==
    ASSUME ObservationInv, NEW digest \in Digests, NEW index \in Nat,
           AppendProgramDataObservationChunk(digest, index)
    PROVE  ObservationInv' /\ Certificates' = Certificates
<1> DEFINE o == observations[digest]
           account == accounts[digest.program]
           payload == account.payload
           raw == RawData(digest.program)
           chunk == RawChunk(raw, index)
           after == [o EXCEPT
                        !.frontier = AppendChunk(o.frontier, digest, index, chunk),
                        !.tailVerified = @ + Cardinality(TailIntersection(o, index)),
                        !.lastObserved = slot]
           new == SetReady(after)
<1>1. /\ Loads(digest) /\ o.status = "Accumulating"
      /\ CanAppendChunk(o.frontier, RawLength(o), index, chunk)
      /\ TailScanned(o, index, raw)
      /\ Store(new)
  BY DEF AppendProgramDataObservationChunk
<1>2. /\ Typed(digest, o) /\ account \in Account
      /\ RawObserved(o) = raw /\ Len(raw) = RawLength(o) /\ Read(o)
  BY <1>1, LoadsLemma
<1>3. /\ index = o.frontier.next /\ index < ChunkCount(RawLength(o))
      /\ o.frontier.next < MaxPadded
  BY <1>1 DEF CanAppendChunk, CanAppend
<1>4. PaddedLeaf(digest, raw, index) = LeafHash(digest, index, chunk)
  BY <1>2, <1>3 DEF PaddedLeaf
<1>5. Accumulates(o.frontier, digest, raw)
  BY <1>2 DEF Read, Typed
<1>6. LET frontier == AppendChunk(o.frontier, digest, index, chunk) IN
      Accumulates(frontier, digest, raw) /\ frontier.next = index + 1
  BY <1>3, <1>4, <1>5, AppendAccumulates DEF AppendChunk
<1>7. /\ HasFields(after) /\ after.digest = o.digest /\ after.graph = o.graph
      /\ after.frontier = AppendChunk(o.frontier, digest, index, chunk)
      /\ after.nextArtifact = o.nextArtifact /\ after.status = "Accumulating"
  <2> DEFINE frontier == AppendChunk(o.frontier, digest, index, chunk)
             tail == o.tailVerified + Cardinality(TailIntersection(o, index))
  <2>1. HasFields(o) /\ o.status = "Accumulating"
    BY <1>1, <1>2 DEF Typed
  <2>2. after = [o EXCEPT !.frontier = frontier, !.tailVerified = tail, !.lastObserved = slot]
    OBVIOUS
  <2> HIDE DEF o, frontier, tail, after
  <2>3. after = [digest |-> o.digest, graph |-> o.graph, frontier |-> frontier,
                 nextArtifact |-> o.nextArtifact, tailVerified |-> tail,
                 startSlot |-> o.startSlot, lastObserved |-> slot,
                 finalizedSlot |-> o.finalizedSlot, root |-> o.root, status |-> o.status]
    BY <2>1, <2>2 DEF HasFields
  <2>4. after.frontier = frontier
    BY <2>3
  <2> QED
    BY <2>1, <2>3, <2>4 DEF HasFields, frontier
<1> HIDE DEF after
<1>8. /\ HasFields(new) /\ new.digest = o.digest /\ new.graph = o.graph
      /\ new.frontier = after.frontier /\ new.nextArtifact = o.nextArtifact
      /\ new.status \in {"Accumulating", "ReadyToFinalize"}
  BY <1>7, SetReadyLemma
<1> HIDE DEF new
<1>9. Typed(digest, new)
  <2>1. RecordValid(new)
    BY <1>1 DEF Store
  <2> QED
    BY <1>2, <1>6, <1>7, <1>8, <2>1 DEF Typed, Statuses
<1>10. RawObserved(new) = raw
  BY <1>2, <1>8 DEF RawObserved, Observed
<1>11. ASSUME NEW i \in Len(digest.artifact) + 1 .. Len(payload),
              MetadataLength + i <= RawChunkSize * (index + 1)
       PROVE  payload[i] = Zero
  <2> DEFINE length == Len(digest.artifact)
             j == MetadataLength + i - 1
  <2>1. /\ length \in Nat /\ Len(payload) \in Nat /\ MetadataLength \in Nat \ {0}
        /\ RawChunkSize \in Nat \ {0} /\ o.digest = digest
        /\ Len(payload) = o.graph.capacity
    BY <1>2, DigestLemma, RawLemma, ObservationAssumption, ObservationMerkleAssumption
       DEF Typed, Read
  <2>2. CASE MetadataLength + i <= RawChunkSize * index
    BY <1>2, <1>3, <2>1, <2>2 DEF Read
  <2>3. CASE ~ (MetadataLength + i <= RawChunkSize * index)
    <3>1. RawChunkSize * (index + 1) = index * RawChunkSize + RawChunkSize
          /\ RawChunkSize * index = index * RawChunkSize /\ index * RawChunkSize \in Nat
      BY <2>1
    <3>2. j \in index * RawChunkSize .. index * RawChunkSize + RawChunkSize - 1
      BY <1>11, <2>1, <2>3, <3>1
    <3>3. j >= TailStart(o) /\ j < RawLength(o)
      BY <2>1 DEF TailStart, RawLength
    <3>4. j \in TailIntersection(o, index)
      BY <3>2, <3>3 DEF TailIntersection
    <3>5. raw[j + 1] = Zero
      BY <1>1, <3>4 DEF TailScanned, TailZero
    <3>6. j + 1 = MetadataLength + i /\ i \in 1 .. Len(payload)
      BY <2>1
    <3>7. raw[MetadataLength + i] = payload[i]
      BY <1>2, <3>6, RawLemma DEF RawData
    <3> QED
      BY <3>5, <3>6, <3>7
  <2> QED
    BY <2>2, <2>3
<1>12. Knows(new)
  <2>1. o.digest = digest /\ new.digest = digest /\ o.graph = Graph(digest.program)
    BY <1>1, <1>2, <1>8, LoadsLemma DEF Typed
  <2>2. o.graph.deployed = account.deployed /\ account.deployed \in Nat
    BY <1>2, <2>1 DEF Graph, Account
  <2>3. Read(new)
    BY <1>2, <1>6, <1>7, <1>8, <1>10, <1>11, <2>1 DEF Read
  <2> QED
    BY <1>8, <2>1, <2>2, <2>3 DEF Knows
<1>13. Certificates' = Certificates
  <2>1. digest \in DOMAIN observations /\ Types /\ Store(new) /\ o.status = "Accumulating"
    BY <1>1 DEF Loads, ObservationInv
  <2>2. new.digest = digest /\ new.status # "Finalized"
    BY <1>2, <1>8 DEF Typed
  <2> QED
    BY <2>1, <2>2, StoreCertifiesNothing
<1> QED
  BY <1>1, <1>9, <1>12, <1>13, StoreKeeps DEF Loads

\* Equal artifact chunks are equal cells.
LEMMA ChunkCells ==
    ASSUME NEW s \in Seq(Cells), NEW t \in Seq(Cells), NEW length \in Nat,
           length <= Len(s), length <= Len(t), NEW index \in Nat,
           ArtifactChunk(s, length, index) = ArtifactChunk(t, length, index),
           NEW i \in 1 .. length,
           index * ArtifactChunkSize < i, i <= (index + 1) * ArtifactChunkSize
    PROVE  s[i] = t[i]
<1> DEFINE first == index * ArtifactChunkSize + 1
           last == Lesser((index + 1) * ArtifactChunkSize, length)
           k == i - first + 1
<1>1. /\ index * ArtifactChunkSize \in Nat /\ (index + 1) * ArtifactChunkSize \in Nat
      /\ Len(s) \in Nat /\ Len(t) \in Nat
  BY ObservationAssumption, LenProperties
<1>2. /\ first \in Nat \ {0} /\ last \in Nat /\ first <= i /\ i <= last /\ last <= length
      /\ first \in 1 .. Len(s) + 1 /\ last \in 0 .. Len(s)
      /\ first \in 1 .. Len(t) + 1 /\ last \in 0 .. Len(t)
  BY <1>1 DEF Lesser
<1>3. SubSeq(s, first, last) = SubSeq(t, first, last)
  BY DEF ArtifactChunk
<1> HIDE DEF first, last
<1>4. k \in 1 .. last - first + 1 /\ first + k - 1 = i
  BY <1>2
<1>5. SubSeq(s, first, last)[k] = s[i]
  BY <1>2, <1>4, SubSeqProperties
<1>6. SubSeq(t, first, last)[k] = t[i]
  BY <1>2, <1>4, SubSeqProperties
<1> QED
  BY <1>3, <1>5, <1>6

\* An artifact chunk extends the prefix in which payload and artifact agree.
LEMMA VerifyKeeps ==
    ASSUME ObservationInv, NEW digest \in Digests, NEW index \in Nat,
           VerifyObservedArtifactChunk(digest, index)
    PROVE  ObservationInv' /\ Certificates' = Certificates
<1> DEFINE o == observations[digest]
           account == accounts[digest.program]
           payload == account.payload
           artifact == digest.artifact
           after == [o EXCEPT !.nextArtifact = @ + 1, !.lastObserved = slot]
           new == SetReady(after)
<1>1. /\ Loads(digest) /\ o.status = "Accumulating"
      /\ index = o.nextArtifact
      /\ ArtifactChunk(payload, Len(artifact), index) = ArtifactChunk(artifact, Len(artifact), index)
      /\ Store(new)
  BY DEF VerifyObservedArtifactChunk
<1>2. /\ Typed(digest, o) /\ account \in Account /\ Read(o)
      /\ o.graph = Graph(digest.program)
  BY <1>1, LoadsLemma
<1>3. /\ HasFields(after) /\ after.digest = o.digest /\ after.graph = o.graph
      /\ after.frontier = o.frontier /\ after.nextArtifact = index + 1
      /\ after.status = "Accumulating"
  <2> DEFINE next == o.nextArtifact + 1
  <2>1. HasFields(o) /\ o.status = "Accumulating" /\ next = index + 1
    BY <1>1, <1>2 DEF Typed
  <2>2. after = [o EXCEPT !.nextArtifact = next, !.lastObserved = slot]
    OBVIOUS
  <2> HIDE DEF o, next, after
  <2>3. after = [digest |-> o.digest, graph |-> o.graph, frontier |-> o.frontier,
                 nextArtifact |-> next, tailVerified |-> o.tailVerified,
                 startSlot |-> o.startSlot, lastObserved |-> slot,
                 finalizedSlot |-> o.finalizedSlot, root |-> o.root, status |-> o.status]
    BY <2>1, <2>2 DEF HasFields
  <2> QED
    BY <2>1, <2>3 DEF HasFields
<1> HIDE DEF after
<1>4. /\ HasFields(new) /\ new.digest = o.digest /\ new.graph = o.graph
      /\ new.frontier = o.frontier /\ new.nextArtifact = index + 1
      /\ new.status \in {"Accumulating", "ReadyToFinalize"}
  BY <1>3, SetReadyLemma
<1> HIDE DEF new
<1>5. Typed(digest, new)
  <2>1. RecordValid(new)
    BY <1>1 DEF Store
  <2> QED
    BY <1>2, <1>4, <2>1 DEF Typed, Statuses
<1>6. RawObserved(new) = RawObserved(o)
  BY <1>4 DEF RawObserved, Observed
<1>7. ASSUME NEW i \in 1 .. Len(artifact), i <= (index + 1) * ArtifactChunkSize
      PROVE  payload[i] = artifact[i]
  <2>1. CASE i <= index * ArtifactChunkSize
    BY <1>1, <1>2, <2>1 DEF Read, Typed
  <2>2. CASE ~ (i <= index * ArtifactChunkSize)
    <3>1. /\ payload \in Seq(Cells) /\ artifact \in Seq(Cells)
          /\ Len(artifact) \in Nat /\ Len(payload) \in Nat
      BY <1>2, DigestLemma, RawLemma DEF Account
    <3>2. Len(artifact) <= Len(payload)
      <4>1. /\ o.digest.minimum >= Len(artifact) /\ o.graph.capacity >= o.digest.minimum
            /\ o.digest = digest
        BY <1>2 DEF Typed, RecordValid
      <4>2. o.graph.capacity = Len(payload) /\ digest.minimum \in Nat
        BY <1>2, DigestLemma DEF Graph
      <4> QED
        BY <3>1, <4>1, <4>2
    <3>3. index * ArtifactChunkSize < i
      BY <2>2, ObservationAssumption
    <3> HIDE DEF payload, artifact
    <3> QED
      BY <1>1, <1>7, <3>1, <3>2, <3>3, ChunkCells
  <2> QED
    BY <2>1, <2>2
<1>8. Knows(new)
  <2>1. o.digest = digest /\ new.digest = digest
    BY <1>2, <1>4 DEF Typed
  <2>2. o.graph.deployed = account.deployed /\ account.deployed \in Nat
    BY <1>2, <2>1 DEF Graph, Account
  <2>3. Read(new)
    BY <1>2, <1>4, <1>6, <1>7, <2>1 DEF Read
  <2> QED
    BY <1>4, <2>1, <2>2, <2>3 DEF Knows
<1>9. Certificates' = Certificates
  <2>1. digest \in DOMAIN observations /\ Types /\ Store(new) /\ o.status = "Accumulating"
    BY <1>1 DEF Loads, ObservationInv
  <2>2. new.digest = digest /\ new.status # "Finalized"
    BY <1>2, <1>4 DEF Typed
  <2> QED
    BY <2>1, <2>2, StoreCertifiesNothing
<1> QED
  BY <1>1, <1>5, <1>8, <1>9, StoreKeeps DEF Loads

\* The root that the finalization stores is the root of the live account.
LEMMA FinalizeKeeps ==
    ASSUME ObservationInv, NEW digest \in Digests, FinalizeProgramDataObservation(digest)
    PROVE  /\ ObservationInv'
           /\ observations' = [observations EXCEPT ![digest] = Finalized(observations[digest])]
           /\ Finalized(observations[digest]).status = "Finalized"
           /\ Finalized(observations[digest]).root = TreeRoot(digest, RawData(digest.program))
<1> DEFINE o == observations[digest]
           account == accounts[digest.program]
           raw == RawData(digest.program)
           new == Finalized(o)
<1>1. /\ Loads(digest) /\ o.status = "ReadyToFinalize"
      /\ CanFinalize(o.frontier, RawLength(o))
      /\ Store(new)
  BY DEF FinalizeProgramDataObservation
<1>2. /\ Typed(digest, o) /\ account \in Account /\ RawObserved(o) = raw
      /\ Len(raw) = RawLength(o) /\ Read(o) /\ o.graph = Graph(digest.program)
  BY <1>1, LoadsLemma
<1>3. o.digest = digest /\ HasFields(o)
  BY <1>2 DEF Typed
<1>4. /\ HasFields(new) /\ new.digest = digest /\ new.graph = o.graph
      /\ new.frontier = o.frontier /\ new.nextArtifact = o.nextArtifact
      /\ new.status = "Finalized" /\ new.root = FinalRoot(o.frontier, digest)
  <2> DEFINE root == FinalRoot(o.frontier, digest)
  <2>2. new = [o EXCEPT !.root = root, !.finalizedSlot = slot,
                        !.lastObserved = slot, !.status = "Finalized"]
    BY <1>3 DEF Finalized
  <2> HIDE DEF o, root, new
  <2>3. new = [digest |-> o.digest, graph |-> o.graph, frontier |-> o.frontier,
               nextArtifact |-> o.nextArtifact, tailVerified |-> o.tailVerified,
               startSlot |-> o.startSlot, lastObserved |-> slot,
               finalizedSlot |-> slot, root |-> root, status |-> "Finalized"]
    BY <1>3, <2>2 DEF HasFields
  <2>4. new.root = root
    BY <2>3
  <2> QED
    BY <1>3, <2>3, <2>4 DEF HasFields, root
<1>5. FinalRoot(o.frontier, digest) = TreeRoot(digest, raw)
  <2>1. Len(raw) \in MinRawLength .. MaxRawLength /\ o.frontier.next = ChunkCount(Len(raw))
    BY <1>1, <1>2 DEF CanFinalize, ChunkCountDefined
  <2>2. Accumulates(o.frontier, digest, raw)
    BY <1>2, <1>3 DEF Read
  <2> QED
    BY <2>1, <2>2, FinalRootTheorem
<1> HIDE DEF new
<1>6. Typed(digest, new)
  <2>1. RecordValid(new)
    BY <1>1 DEF Store
  <2> QED
    BY <1>2, <1>4, <2>1 DEF Typed, Statuses
<1>7. RawObserved(new) = raw
  BY <1>2, <1>3, <1>4 DEF RawObserved, Observed
<1>8. Knows(new)
  <2>1. o.graph.deployed = account.deployed /\ account.deployed \in Nat
    BY <1>2 DEF Graph, Account
  <2>2. Read(new)
    BY <1>2, <1>3, <1>4, <1>5, <1>7 DEF Read
  <2> QED
    BY <1>4, <2>1, <2>2 DEF Knows
<1>9. ObservationInv'
  BY <1>1, <1>6, <1>8, StoreKeeps DEF Loads
<1>10. observations' = [observations EXCEPT ![digest] = new]
  BY <1>1, <1>4 DEF Store
<1> QED
  BY <1>4, <1>5, <1>9, <1>10 DEF new

-----------------------------------------------------------------------------
(* The ledger *)

\* Whatever replaces or extends a payload moves its deployed slot on.
LEMMA LedgerKeeps ==
    ASSUME ObservationInv, accounts' \in [Programs -> Account], slot' \in Nat,
           observations' = observations,
           \A program \in Programs :
               \/ accounts'[program].deployed > accounts[program].deployed
               \/ /\ accounts'[program].deployed = accounts[program].deployed
                  /\ accounts'[program].payload = accounts[program].payload
    PROVE  ObservationInv'
<1>1. Types'
  BY DEF ObservationInv, Types
<1>2. ASSUME NEW digest \in DOMAIN observations
      PROVE  Knows(observations[digest])'
  <2> DEFINE o == observations[digest]
             now == accounts[digest.program]
             next == accounts'[digest.program]
  <2>1. Typed(digest, o) /\ Knows(o)
    BY DEF ObservationInv, Types
  <2>2. /\ o.digest = digest /\ digest.program \in Programs
        /\ o.graph.deployed \in Nat /\ o.graph.deployed <= now.deployed
        /\ (o.graph.deployed = now.deployed => Read(o))
    BY <2>1, DigestLemma DEF Typed, Knows
  <2>3. now.deployed \in Nat /\ next.deployed \in Nat
    BY <2>2 DEF ObservationInv, Types, Account
  <2>4. observations'[digest] = o
    OBVIOUS
  <2>5. CASE next.deployed > now.deployed
    <3>1. o.graph.deployed <= next.deployed /\ o.graph.deployed # next.deployed
      BY <2>2, <2>3, <2>5
    <3> QED
      BY <2>2, <2>4, <3>1 DEF Knows
  <2>6. CASE next.deployed = now.deployed /\ next.payload = now.payload
    <3>1. Read(o) => Read(o)'
      BY <2>2, <2>4, <2>6 DEF Read, RawObserved, Observed
    <3>2. next.deployed = now.deployed
      BY <2>6
    <3> QED
      BY <2>2, <2>4, <3>1, <3>2 DEF Knows
  <2> QED
    BY <2>2, <2>5, <2>6
<1> QED
  BY <1>1, <1>2 DEF ObservationInv

LEMMA UpgradeKeeps ==
    ASSUME ObservationInv, NEW program \in Programs, NEW image \in Images,
           LoaderUpgrade(program, image)
    PROVE  ObservationInv'
<1> DEFINE account == accounts[program]
           payload == Padded(image, Len(account.payload))
           new == [account EXCEPT !.payload = payload, !.deployed = slot]
<1>1. /\ slot > account.deployed
      /\ accounts' = [accounts EXCEPT ![program] = new]
      /\ slot' = slot /\ observations' = observations
  BY DEF LoaderUpgrade, Mutable
<1>2. account \in Account /\ accounts \in [Programs -> Account] /\ slot \in Nat
  BY DEF ObservationInv, Types
<1>3. payload \in Seq(Cells)
  <2>1. Len(account.payload) \in Nat
    BY <1>2, RawLemma
  <2>2. image \in Seq(Cells) /\ Zero \in Cells
    BY ObservationAssumption
  <2>3. \A i \in 1 .. Len(account.payload) :
            (IF i <= Len(image) THEN image[i] ELSE Zero) \in Cells
    BY <2>1, <2>2, LenProperties
  <2> QED
    BY <2>1, <2>3 DEF Padded
<1> HIDE DEF payload
<1>4. new \in Account /\ new.deployed = slot
  BY <1>2, <1>3 DEF Account
<1> HIDE DEF new
<1>5. /\ accounts' \in [Programs -> Account]
      /\ \A p \in Programs : accounts'[p] = IF p = program THEN new ELSE accounts[p]
  BY <1>1, <1>2, <1>4
<1> QED
  BY <1>1, <1>2, <1>4, <1>5, LedgerKeeps

LEMMA ExtendKeeps ==
    ASSUME ObservationInv, NEW program \in Programs, LoaderExtend(program)
    PROVE  ObservationInv'
<1> DEFINE account == accounts[program]
           payload == Append(account.payload, Zero)
           new == [account EXCEPT !.payload = payload, !.deployed = slot]
<1>1. /\ slot > account.deployed
      /\ accounts' = [accounts EXCEPT ![program] = new]
      /\ slot' = slot /\ observations' = observations
  BY DEF LoaderExtend, Mutable
<1>2. account \in Account /\ accounts \in [Programs -> Account] /\ slot \in Nat
  BY DEF ObservationInv, Types
<1>3. payload \in Seq(Cells)
  BY <1>2, ObservationAssumption, AppendProperties DEF Account
<1> HIDE DEF payload
<1>4. new \in Account /\ new.deployed = slot
  BY <1>2, <1>3 DEF Account
<1> HIDE DEF new
<1>5. /\ accounts' \in [Programs -> Account]
      /\ \A p \in Programs : accounts'[p] = IF p = program THEN new ELSE accounts[p]
  BY <1>1, <1>2, <1>4
<1> QED
  BY <1>1, <1>2, <1>4, <1>5, LedgerKeeps

LEMMA SetAuthorityKeeps ==
    ASSUME ObservationInv, NEW program \in Programs, NEW authority \in Authorities,
           LoaderSetAuthority(program, authority)
    PROVE  ObservationInv'
<1> DEFINE new == [accounts[program] EXCEPT !.authority = authority]
<1>1. /\ accounts' = [accounts EXCEPT ![program] = new]
      /\ slot' = slot /\ observations' = observations
  BY DEF LoaderSetAuthority
<1>2. accounts[program] \in Account /\ accounts \in [Programs -> Account] /\ slot \in Nat
  BY DEF ObservationInv, Types
<1>3. /\ new \in Account /\ new.deployed = accounts[program].deployed
      /\ new.payload = accounts[program].payload
  BY <1>2 DEF Account
<1> HIDE DEF new
<1>4. /\ accounts' \in [Programs -> Account]
      /\ \A p \in Programs : accounts'[p] = IF p = program THEN new ELSE accounts[p]
  BY <1>1, <1>2, <1>3
<1> QED
  BY <1>1, <1>2, <1>3, <1>4, LedgerKeeps

-----------------------------------------------------------------------------
(* The invariant holds *)

LEMMA ObservationInit == Init => ObservationInv
<1> SUFFICES ASSUME Init PROVE ObservationInv
  OBVIOUS
<1>1. PICK a \in [Programs -> {[payload |-> image, deployed |-> 1, authority |-> authority] :
                                   image \in Images, authority \in Authorities}] :
          accounts = a
  BY DEF Init
<1>2. accounts \in [Programs -> Account]
  BY <1>1, ObservationAssumption DEF Account
<1>3. observations = <<>> /\ slot = 1
  BY DEF Init
<1>4. DOMAIN observations = {} /\ observations = [digest \in {} |-> observations[digest]]
  BY <1>3
<1> QED
  BY <1>2, <1>3, <1>4 DEF ObservationInv, Types

LEMMA ObservationStep == ObservationInv /\ [Next]_vars => ObservationInv'
<1> SUFFICES ASSUME ObservationInv, [Next]_vars PROVE ObservationInv'
  OBVIOUS
<1>1. \A index \in 0 .. MaxPadded - 1 : index \in Nat
  OBVIOUS
<1>2. \A index \in 0 .. MaxRawLength : index \in Nat
  OBVIOUS
<1>3. ASSUME NEW digest \in Digests, BeginProgramDataObservation(digest)
      PROVE  ObservationInv'
  BY <1>3, BeginKeeps
<1>4. ASSUME NEW digest \in Digests, Step(digest)
      PROVE  ObservationInv'
  <2>1. CASE \E index \in 0 .. MaxPadded - 1 : AppendProgramDataObservationChunk(digest, index)
    BY <2>1, <1>1, AppendKeeps
  <2>2. CASE \E index \in 0 .. MaxRawLength : VerifyObservedArtifactChunk(digest, index)
    BY <2>2, <1>2, VerifyKeeps
  <2>3. CASE FinalizeProgramDataObservation(digest)
    BY <2>3, FinalizeKeeps
  <2> QED
    BY <1>4, <2>1, <2>2, <2>3 DEF Step
<1>5. CASE \/ \E g \in Gates : MoveGate(g)
           \/ Tick
           \/ UNCHANGED vars
  <2>1. accounts' = accounts /\ observations' = observations /\ slot' \in Nat
    BY <1>5 DEF MoveGate, Tick, vars, ObservationInv, Types
  <2>2. accounts \in [Programs -> Account]
    BY DEF ObservationInv, Types
  <2> QED
    BY <2>1, <2>2, LedgerKeeps
<1>6. ASSUME NEW program \in Programs,
             \/ \E image \in Images : LoaderUpgrade(program, image)
             \/ LoaderExtend(program)
             \/ \E authority \in Authorities : LoaderSetAuthority(program, authority)
      PROVE  ObservationInv'
  BY <1>6, UpgradeKeeps, ExtendKeeps, SetAuthorityKeeps
<1> QED
  BY <1>3, <1>4, <1>5, <1>6 DEF Next, Ledger

\* In every reachable state an observation knows the account that it observes
\* as long as its deployed slot stands (release1_processor_observation.rs:
\* every step reads the account again and stores what it has read).
LEMMA ObservationInvariant == Spec => []ObservationInv
<1> QED
  BY ObservationInit, ObservationStep, PTL DEF Spec

-----------------------------------------------------------------------------
(* What a header vouches for *)

\* A traversal that is complete has seen the artifact, and zeros behind it.
LEMMA TraversedHolds ==
    ASSUME NEW digest, NEW o, Typed(digest, o), accounts[digest.program] \in Account,
           Read(o), o.status # "Accumulating"
    PROVE  Atomic!Holds(accounts[digest.program], digest.artifact)
<1> DEFINE account == accounts[digest.program]
           payload == account.payload
           artifact == digest.artifact
           length == Len(artifact)
           capacity == o.graph.capacity
           count == ChunkCount(RawLength(o))
           top == length + ArtifactChunkSize - 1
           chunks == ArtifactChunkCount(artifact)
<1>1. /\ o.digest = digest /\ digest \in Digests /\ RecordValid(o)
      /\ capacity \in Nat /\ capacity <= PolicyCapacity
  BY DEF Typed
<1>2. /\ length \in Nat \ {0} /\ digest.minimum \in Nat
      /\ length <= capacity /\ Len(payload) = capacity
  BY <1>1, DigestLemma DEF RecordValid, Read
<1>3. o.frontier.next = count /\ o.nextArtifact = chunks
  BY <1>1, CompleteLemma
<1>4. RawLength(o) = MetadataLength + capacity /\ MetadataLength \in Nat \ {0}
  BY ObservationAssumption DEF RawLength
<1>5. RawLength(o) \in MinRawLength .. MaxRawLength
  BY <1>1, <1>4, ObservationAssumption, ObservationMerkleAssumption
<1>6. MetadataLength + capacity <= RawChunkSize * count
  BY <1>4, <1>5, ChunkCounts
<1>7. length <= chunks * ArtifactChunkSize
  <2>1. /\ ArtifactChunkSize \in Nat \ {0} /\ top \in Nat
        /\ chunks = top \div ArtifactChunkSize
    BY <1>2, ObservationAssumption DEF ArtifactChunkCount
  <2>2. chunks \in Nat /\ top < ArtifactChunkSize * (chunks + 1)
    BY <2>1, Quotient
  <2> DEFINE size == ArtifactChunkSize
  <2>3. size \in Nat \ {0} /\ chunks \in Nat /\ top < size * (chunks + 1)
        /\ top = length + size - 1 /\ length \in Nat
    BY <1>2, <2>1, <2>2
  <2> HIDE DEF chunks, length, top, size
  <2>4. length + size - 1 < size * (chunks + 1)
    BY <2>3
  <2>5. length <= chunks * size
    BY <2>3, <2>4
  <2> QED
    BY <2>5 DEF size
<1>8. ASSUME NEW i \in 1 .. Len(payload)
      PROVE  payload[i] = IF i <= length THEN artifact[i] ELSE Zero
  <2>1. i \in Nat /\ i >= 1 /\ i <= capacity
    BY <1>1, <1>2
  <2>2. CASE i <= length
    <3>1. chunks * ArtifactChunkSize \in Nat
      <4>1. ArtifactChunkSize \in Nat \ {0} /\ top \in Nat
        BY <1>2, ObservationAssumption
      <4>2. chunks \in Nat
        BY <4>1, Quotient DEF ArtifactChunkCount
      <4> QED
        BY <4>1, <4>2
    <3>2. i <= o.nextArtifact * ArtifactChunkSize /\ i \in 1 .. length
      BY <1>2, <1>3, <1>7, <2>1, <2>2, <3>1
    <3> QED
      BY <1>1, <2>2, <3>2 DEF Read
  <2>3. CASE ~ (i <= length)
    <3>1. i \in length + 1 .. Len(payload)
      BY <1>2, <2>1, <2>3
    <3>2. MetadataLength + i <= RawChunkSize * o.frontier.next
      <4>1. RawChunkSize * count \in Nat
        BY <1>5, ChunkCounts, ObservationMerkleAssumption
      <4>2. MetadataLength + i <= MetadataLength + capacity
        BY <1>1, <1>4, <2>1
      <4> DEFINE reach == RawChunkSize * count
      <4>3. reach = RawChunkSize * o.frontier.next /\ MetadataLength + capacity <= reach
        BY <1>3, <1>6
      <4>4. capacity \in Nat /\ MetadataLength \in Nat /\ i \in Nat /\ reach \in Nat
        BY <1>1, <1>4, <2>1, <4>1
      <4> HIDE DEF reach, capacity
      <4> QED
        BY <4>2, <4>3, <4>4
    <3>3. payload[i] = Zero
      BY <1>1, <3>1, <3>2 DEF Read
    <3> QED
      BY <2>3, <3>3
  <2> QED
    BY <2>2, <2>3
<1>9. length <= Len(payload)
  BY <1>2
<1> QED
  BY <1>8, <1>9 DEF Atomic!Holds

LEMMA InvVouches == ObservationInv => HeaderVouchesForPayload
<1> SUFFICES ASSUME ObservationInv, NEW digest \in DOMAIN observations,
                    observations[digest].graph = Graph(digest.program)
             PROVE  LET o == observations[digest]
                        raw == RawData(digest.program)
                    IN  /\ o.status = "Finalized" =>
                               /\ Atomic!Holds(accounts[digest.program], digest.artifact)
                               /\ o.root = TreeRoot(digest, raw)
                        /\ \A l \in o.frontier.occupied :
                               o.frontier.hashes[l] =
                                   Subtree(digest, raw, l, o.frontier.next \div Width[l] - 1)
  BY DEF HeaderVouchesForPayload
<1> DEFINE o == observations[digest]
           raw == RawData(digest.program)
<1>1. Typed(digest, o) /\ Knows(o) /\ accounts \in [Programs -> Account]
  BY DEF ObservationInv, Types
<1>2. digest.program \in Programs /\ o.digest = digest
  BY <1>1, DigestLemma DEF Typed
<1>3. accounts[digest.program] \in Account
  BY <1>1, <1>2
<1>4. /\ o.graph.deployed = accounts[digest.program].deployed
      /\ o.graph.authority = accounts[digest.program].authority
  BY DEF Graph
<1>5. Read(o)
  BY <1>1, <1>2, <1>4 DEF Knows
<1>6. RawObserved(o) = raw
  BY <1>2, <1>4, RawSame DEF RawObserved, RawData, Observed
<1>7. ASSUME o.status = "Finalized"
      PROVE  Atomic!Holds(accounts[digest.program], digest.artifact) /\ o.root = TreeRoot(digest, raw)
  BY <1>1, <1>2, <1>3, <1>5, <1>6, <1>7, TraversedHolds DEF Read
<1>8. ASSUME NEW l \in o.frontier.occupied
      PROVE  o.frontier.hashes[l] = Subtree(digest, raw, l, o.frontier.next \div Width[l] - 1)
  BY <1>2, <1>5, <1>6 DEF Read, Accumulates
<1> QED
  BY <1>7, <1>8

(***************************************************************************)
(* While the live header is the one that an observation recorded, its      *)
(* frontier holds the hashes of the live account, and once it is finalized *)
(* the payload is the artifact and zeros and the root is that of the live  *)
(* account (load_fresh_observation and load_step_context compare headers   *)
(* only), for every tree depth, chunk size, artifact and interleaving.     *)
(***************************************************************************)
THEOREM HeaderTheorem == Spec => []HeaderVouchesForPayload
<1> QED
  BY ObservationInvariant, InvVouches, PTL

-----------------------------------------------------------------------------
(* The refinement of AtomicObservation *)

\* AtomicObservation hashes with the same operators.
LEMMA SameTree ==
    ASSUME NEW subject, NEW raw
    PROVE  Atomic!TreeRoot(subject, raw) = TreeRoot(subject, raw)
<1>1. Atomic!Levels = Levels
  BY DEF Atomic!Levels, Levels
<1>2. Atomic!Width = Width
  BY <1>1 DEF Atomic!Width, Width
<1>3. Atomic!ChunkCount(Len(raw)) = ChunkCount(Len(raw))
  BY DEF Atomic!ChunkCount, ChunkCount
<1>4. ASSUME NEW count PROVE Atomic!PaddedLevel(count) = PaddedLevel(count)
  BY <1>1, <1>2 DEF Atomic!PaddedLevel, PaddedLevel
<1>5. ASSUME NEW i PROVE Atomic!PaddedLeaf(subject, raw, i) = PaddedLeaf(subject, raw, i)
  BY <1>3 DEF Atomic!PaddedLeaf, PaddedLeaf, Atomic!LeafHash, LeafHash,
              Atomic!EmptyHash, EmptyHash, Atomic!RawChunk, RawChunk,
              Atomic!Lesser, Lesser
<1>6. Atomic!Rows(subject, raw) = Rows(subject, raw)
  BY <1>1, <1>5 DEF Atomic!Rows, Rows, Atomic!NodeHash, NodeHash
<1> QED
  BY <1>3, <1>4, <1>6 DEF Atomic!TreeRoot, TreeRoot, Atomic!Subtree, Subtree

LEMMA FinalizeCertifies ==
    ASSUME ObservationInv, NEW digest \in Digests, FinalizeProgramDataObservation(digest)
    PROVE  Atomic!AtomicNext
<1> DEFINE o == observations[digest]
           account == accounts[digest.program]
           new == Finalized(o)
           root == TreeRoot(digest, RawData(digest.program))
<1>1. /\ Loads(digest) /\ o.status = "ReadyToFinalize" /\ digest \in DOMAIN observations
      /\ accounts' = accounts /\ gate' = gate
  BY DEF FinalizeProgramDataObservation, Store, Loads
<1>2. /\ observations' = [observations EXCEPT ![digest] = new]
      /\ new.status = "Finalized" /\ new.root = root
  BY FinalizeKeeps
<1>3. Typed(digest, o) /\ account \in Account /\ Read(o)
  BY <1>1, LoadsLemma
<1>4. digest \notin Certified
  BY <1>1 DEF Certified
<1>5. digest.gate = gate /\ Len(account.payload) >= digest.minimum
  BY <1>1, <1>3 DEF Loads, GraphFresh, Graph, Typed
<1>6. Atomic!Holds(account, digest.artifact)
  BY <1>1, <1>3, TraversedHolds
<1> HIDE DEF new, root
<1>7. /\ DOMAIN observations' = DOMAIN observations
      /\ \A d \in DOMAIN observations :
             observations'[d] = IF d = digest THEN new ELSE observations[d]
  BY <1>2
<1>8. Certified' = Certified \cup {digest}
  BY <1>1, <1>2, <1>7 DEF Certified
<1>9. Certificates' = [d \in Certified \cup {digest} |->
                          IF d = digest THEN root ELSE Certificates[d]]
  <2>1. \A d \in Certified : d \in DOMAIN observations
    BY DEF Certified
  <2>2. \A d \in Certified \cup {digest} :
            observations'[d].root = IF d = digest THEN root ELSE Certificates[d]
    BY <1>1, <1>2, <1>7, <2>1 DEF Certificates
  <2> QED
    BY <1>8, <2>2 DEF Certificates
<1>10. Atomic!TreeRoot(digest, Atomic!RawData(account)) = root
  BY SameTree DEF root, RawData
<1>11. DOMAIN Certificates = Certified /\ digest \in DOMAIN Certificates'
  BY <1>8 DEF Certificates
<1>12. Atomic!Certify(digest, digest.program)
  <2> HIDE DEF Certified
  <2> QED
    BY <1>1, <1>4, <1>5, <1>6, <1>9, <1>10, <1>11 DEF Atomic!Certify, Certificates
<1> QED
  BY <1>11, <1>12 DEF Atomic!AtomicNext, Certificates

LEMMA AtomicStep == ObservationInv /\ [Next]_vars => [Atomic!AtomicNext]_(Atomic!atomicVars)
<1> SUFFICES ASSUME ObservationInv, [Next]_vars PROVE Atomic!AtomicNext
  OBVIOUS
<1>1. ASSUME Certificates' = Certificates PROVE Atomic!AtomicNext
  BY <1>1 DEF Atomic!AtomicNext, Atomic!LedgerMoves, Certificates
<1>2. ASSUME NEW digest \in Digests, BeginProgramDataObservation(digest)
      PROVE  Certificates' = Certificates
  <2>1. /\ digest \notin DOMAIN observations
        /\ observations' = [d \in DOMAIN observations \cup {digest} |->
                               IF d = digest THEN NewObservation(d) ELSE observations[d]]
    BY <1>2 DEF BeginProgramDataObservation
  <2>2. NewObservation(digest).status = "Accumulating"
    BY DEF NewObservation
  <2>3. /\ DOMAIN observations' = DOMAIN observations \cup {digest}
        /\ \A d \in DOMAIN observations : observations'[d] = observations[d]
        /\ observations'[digest].status = "Accumulating"
    BY <2>1, <2>2
  <2>4. Certified' = Certified
    BY <2>3 DEF Certified
  <2>5. \A d \in Certified : observations'[d] = observations[d]
    BY <2>3 DEF Certified
  <2> QED
    BY <2>4, <2>5 DEF Certificates
<1>3. ASSUME NEW digest \in Digests, Step(digest)
      PROVE  Atomic!AtomicNext
  <2>1. CASE \E index \in 0 .. MaxPadded - 1 : AppendProgramDataObservationChunk(digest, index)
    BY <1>1, <2>1, AppendKeeps
  <2>2. CASE \E index \in 0 .. MaxRawLength : VerifyObservedArtifactChunk(digest, index)
    BY <1>1, <2>2, VerifyKeeps
  <2>3. CASE FinalizeProgramDataObservation(digest)
    BY <2>3, FinalizeCertifies
  <2> QED
    BY <1>3, <2>1, <2>2, <2>3 DEF Step
<1>4. ASSUME observations' = observations PROVE Atomic!AtomicNext
  BY <1>1, <1>4 DEF Certificates, Certified
<1>5. CASE Ledger \/ UNCHANGED vars
  BY <1>4, <1>5 DEF Ledger, LoaderUpgrade, LoaderExtend, LoaderSetAuthority, MoveGate,
                    Tick, vars
<1> QED
  BY <1>1, <1>2, <1>3, <1>5 DEF Next

(***************************************************************************)
(* The instructions implement the observation that reads the account at    *)
(* once: every certificate is one that a single instruction could issue at *)
(* the moment of process_finalize_programdata_observation_v1, whatever     *)
(* happened to the program and the gate between the transactions, for      *)
(* every tree depth, chunk size, artifact and interleaving.                *)
(***************************************************************************)
THEOREM AtomicTheorem == Spec => ObservationIsAtomic
<1>1. Init => Atomic!AtomicInit
  <2> SUFFICES ASSUME Init PROVE Atomic!AtomicInit
    OBVIOUS
  <2>1. observations = <<>>
    BY DEF Init
  <2>2. DOMAIN observations = {}
    BY <2>1
  <2>3. Certified = {}
    BY <2>2 DEF Certified
  <2> HIDE DEF Certified
  <2> QED
    BY <2>3 DEF Atomic!AtomicInit
<1> QED
  BY <1>1, AtomicStep, ObservationInvariant, PTL
  DEF Spec, ObservationIsAtomic, Atomic!AtomicSpec

=============================================================================
