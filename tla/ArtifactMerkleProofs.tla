------------------------- MODULE ArtifactMerkleProofs -------------------------
(***************************************************************************)
(* Proofs about the artifact commitment for every tree depth, chunk size,  *)
(* artifact and committed root: a buffer whose chunks are all verified is  *)
(* the one behind the root, and an honest root can always be verified.     *)
(***************************************************************************)
EXTENDS ArtifactMerkle, TreeWidthsProofs, SequenceTheorems

-------------------------------------------------------------------------------
(* The rounds of reduce *)

LEMMA RoundsDefined ==
    ASSUME NEW level
    PROVE  Rounds(level) =
               [d \in Levels |-> IF d = 0 THEN level ELSE Parents(Rounds(level)[d - 1])]
<1> DEFINE Defines(g, n) == g = [d \in 0 .. n |-> IF d = 0 THEN level ELSE Parents(g[d - 1])]
           S == {n \in 0 .. TreeDepth : \E g : Defines(g, n)}
<1>1. 0 \in S
  <2>1. Defines([d \in 0 .. 0 |-> level], 0)
    OBVIOUS
  <2>2. \E g : Defines(g, 0)
    <3> HIDE DEF Defines
    <3> QED
      BY <2>1
  <2> QED
    BY <2>2, TreeDepthAssumption
<1>2. ASSUME NEW n \in 0 .. TreeDepth - 1, n \in S PROVE n + 1 \in S
  <2>1. PICK g : Defines(g, n)
    BY <1>2
  <2> DEFINE h == [d \in 0 .. n + 1 |-> IF d = n + 1 THEN Parents(g[n]) ELSE g[d]]
  <2>2. Defines(h, n + 1)
    BY <2>1
  <2>3. \E k : Defines(k, n + 1)
    <3> HIDE DEF Defines, h
    <3> QED
      BY <2>2
  <2>4. n + 1 \in 0 .. TreeDepth
    BY TreeDepthAssumption
  <2> QED
    BY <2>3, <2>4
<1> HIDE DEF S
<1>3. TreeDepth \in S
  BY <1>1, <1>2, UpTo, TreeDepthAssumption
<1>4. PICK g : Defines(g, TreeDepth)
  BY <1>3 DEF S
<1> QED
  BY <1>4 DEF Rounds, Levels

\* The first level is what reduce is given; each round hashes neighbours.
LEMMA RoundLemma ==
    ASSUME NEW level
    PROVE  /\ Rounds(level)[0] = level
           /\ \A d \in 0 .. TreeDepth - 1, i \in Nat :
                  Rounds(level)[d + 1][i] =
                      node_hash(Rounds(level)[d][2 * i], Rounds(level)[d][2 * i + 1])
<1> DEFINE r == Rounds(level)
<1>1. r = [d \in Levels |-> IF d = 0 THEN level ELSE Parents(r[d - 1])]
  BY RoundsDefined
<1> HIDE DEF r
<1>2. r[0] = level
  BY <1>1, Widths
<1>3. ASSUME NEW d \in 0 .. TreeDepth - 1, NEW i \in Nat
      PROVE  r[d + 1][i] = node_hash(r[d][2 * i], r[d][2 * i + 1])
  <2>1. d + 1 \in Levels /\ d + 1 # 0 /\ (d + 1) - 1 = d
    BY TreeDepthAssumption DEF Levels
  <2>2. r[d + 1] = Parents(r[d])
    BY <1>1, <2>1
  <2> QED
    BY <2>2 DEF Parents
<1> QED
  BY <1>2, <1>3 DEF r

-------------------------------------------------------------------------------
(* Padding *)

\* Levels that agree from leaf n on have the same hashes above those leaves.
LEMMA AgreeingRounds ==
    ASSUME NEW a, NEW b, NEW n \in Nat, \A j \in Nat : j >= n => a[j] = b[j],
           NEW d \in Levels, NEW i \in Nat, i * Width[d] >= n
    PROVE  Rounds(a)[d][i] = Rounds(b)[d][i]
<1> DEFINE S == {e \in Levels : \A k \in Nat :
                    k * Width[e] >= n => Rounds(a)[e][k] = Rounds(b)[e][k]}
<1>1. 0 \in S
  BY RoundLemma, Widths
<1>2. ASSUME NEW e \in 0 .. TreeDepth - 1, e \in S PROVE e + 1 \in S
  <2>1. e + 1 \in Levels
    BY TreeDepthAssumption DEF Levels
  <2>2. ASSUME NEW k \in Nat, k * Width[e + 1] >= n
        PROVE  Rounds(a)[e + 1][k] = Rounds(b)[e + 1][k]
    <3> DEFINE w == Width[e]
    <3>1. w \in Nat /\ Width[e + 1] = 2 * w
      BY Widths DEF Levels
    <3>2. 2 * k \in Nat /\ 2 * k + 1 \in Nat
      OBVIOUS
    <3> HIDE DEF w
    <3>3. k * (2 * w) = (2 * k) * w /\ (2 * k + 1) * w = (2 * k) * w + w
          /\ (2 * k) * w \in Nat
      BY <3>1
    <3>4. (2 * k) * w >= n /\ (2 * k + 1) * w >= n
      <4> DEFINE x == (2 * k) * w
                 y == (2 * k + 1) * w
      <4>1. x \in Nat /\ y = x + w /\ x >= n
        BY <2>2, <3>1, <3>3
      <4> HIDE DEF x, y
      <4>2. x >= n /\ y >= n
        BY <3>1, <4>1
      <4> QED
        BY <4>2 DEF x, y
    <3>5. /\ Rounds(a)[e][2 * k] = Rounds(b)[e][2 * k]
          /\ Rounds(a)[e][2 * k + 1] = Rounds(b)[e][2 * k + 1]
      BY <1>2, <3>2, <3>4 DEF w
    <3> QED
      BY <3>5, RoundLemma
  <2> QED
    BY <2>1, <2>2
<1>3. d \in S
  <2> HIDE DEF S
  <2> QED
    BY <1>1, <1>2, UpTo, TreeDepthAssumption DEF Levels
<1> QED
  BY <1>3

\* b is a from position start on.
Shifted(b, a, start) == \A j \in Nat : b[j] = a[start + j]

\* A level that is another one from an aligned leaf on has its hashes from there on.
LEMMA ShiftedRounds ==
    ASSUME NEW a, NEW b, NEW d \in Levels, NEW p \in Nat, Shifted(b, a, p * Width[d])
    PROVE  Rounds(b)[d][0] = Rounds(a)[d][p]
<1> DEFINE start == p * Width[d]
           S == {e \in Levels : \A q \in Nat :
                    start = q * Width[e] =>
                        \A i \in Nat : Rounds(b)[e][i] = Rounds(a)[e][q + i]}
<1>0. start \in Nat /\ Shifted(b, a, start)
  BY Widths
<1> HIDE DEF start
<1>1. 0 \in S
  <2>1. ASSUME NEW q \in Nat, start = q * Width[0], NEW i \in Nat
        PROVE  Rounds(b)[0][i] = Rounds(a)[0][q + i]
    <3>1. start = q
      BY <2>1, Widths
    <3>2. b[i] = a[q + i]
      BY <1>0, <3>1 DEF Shifted
    <3> QED
      BY <3>2, RoundLemma
  <2> QED
    BY <2>1, Widths
<1>2. ASSUME NEW e \in 0 .. TreeDepth - 1, e \in S PROVE e + 1 \in S
  <2>1. e + 1 \in Levels
    BY TreeDepthAssumption DEF Levels
  <2>2. ASSUME NEW q \in Nat, start = q * Width[e + 1], NEW i \in Nat
        PROVE  Rounds(b)[e + 1][i] = Rounds(a)[e + 1][q + i]
    <3>1. Width[e] \in Nat /\ Width[e + 1] = 2 * Width[e]
      BY Widths DEF Levels
    <3>2. q * Width[e + 1] = (2 * q) * Width[e]
      BY <3>1
    <3>3. 2 * q \in Nat /\ 2 * i \in Nat /\ 2 * i + 1 \in Nat /\ q + i \in Nat
      OBVIOUS
    <3>4. \A k \in Nat : Rounds(b)[e][k] = Rounds(a)[e][2 * q + k]
      <4>1. start = (2 * q) * Width[e]
        BY <2>2, <3>2
      <4> QED
        BY <1>2, <3>3, <4>1
    <3>5. 2 * q + 2 * i = 2 * (q + i) /\ 2 * q + (2 * i + 1) = 2 * (q + i) + 1
      OBVIOUS
    <3>6. /\ Rounds(b)[e][2 * i] = Rounds(a)[e][2 * (q + i)]
          /\ Rounds(b)[e][2 * i + 1] = Rounds(a)[e][2 * (q + i) + 1]
      BY <3>3, <3>4, <3>5
    <3>7. /\ Rounds(b)[e + 1][i] = node_hash(Rounds(b)[e][2 * i], Rounds(b)[e][2 * i + 1])
          /\ Rounds(a)[e + 1][q + i] =
                 node_hash(Rounds(a)[e][2 * (q + i)], Rounds(a)[e][2 * (q + i) + 1])
      BY <3>3, RoundLemma
    <3> QED
      BY <3>6, <3>7
  <2> QED
    BY <2>1, <2>2
<1>3. d \in S
  <2> HIDE DEF S
  <2> QED
    BY <1>1, <1>2, UpTo, TreeDepthAssumption DEF Levels
<1>4. Rounds(b)[d][0] = Rounds(a)[d][p + 0]
  BY <1>3 DEF start
<1> QED
  BY <1>4

\* Where a level has padding only, the tree has the canonical padding hash.
LEMMA PaddingLemma ==
    ASSUME NEW bytes, chunk_count(Len(bytes)) \in Nat, NEW d \in Levels, NEW p \in Nat,
           p * Width[d] >= chunk_count(Len(bytes))
    PROVE  padding_hash(p * Width[d], d) = Rounds(leaves(bytes))[d][p]
<1> DEFINE count == chunk_count(Len(bytes))
           start == p * Width[d]
           empty == [i \in Nat |-> empty_hash(i)]
           shifted == [i \in Nat |-> empty_hash(start + i)]
<1>1. start \in Nat
  BY Widths
<1>2. padding_hash(start, d) = Rounds(shifted)[d][0]
  BY DEF padding_hash, reduce
<1>3. Shifted(shifted, empty, start)
  <2> HIDE DEF start
  <2> QED
    BY <1>1 DEF Shifted
<1>4. Rounds(shifted)[d][0] = Rounds(empty)[d][p]
  <2> HIDE DEF shifted, empty
  <2> QED
    BY <1>3, ShiftedRounds
<1>5. \A j \in Nat : j >= count => empty[j] = leaves(bytes)[j]
  <2>1. ASSUME NEW j \in Nat, j >= count PROVE empty[j] = leaves(bytes)[j]
    <3>1. ~ (j < count)
      BY <2>1
    <3> HIDE DEF count
    <3> QED
      BY <3>1 DEF leaves, count
  <2> QED
    BY <2>1
<1>6. Rounds(empty)[d][p] = Rounds(leaves(bytes))[d][p]
  <2> HIDE DEF empty
  <2> QED
    BY <1>5, AgreeingRounds
<1> QED
  BY <1>2, <1>4, <1>6

-------------------------------------------------------------------------------
(* Nodes *)

LEMMA NodeLemma ==
    ASSUME NEW i \in Nat
    PROVE  /\ Node(i, 0) = i
           /\ \A d \in Levels : Node(i, d) \in Nat
           /\ \A d \in 0 .. TreeDepth - 1 : Node(i, d + 1) = Node(i, d) \div 2
<1>1. Node(i, 0) = i
  BY Widths DEF Node
<1>2. \A d \in Levels : Node(i, d) \in Nat
  BY Widths, Quotient DEF Node
<1> QED
  BY <1>1, <1>2, HalfPosition DEF Node

\* The node above the first leaf of a block is the block.
LEMMA FirstLeaf ==
    ASSUME NEW d \in Levels, NEW n \in Nat
    PROVE  n * Width[d] \in Nat /\ Node(n * Width[d], d) = n
<1> DEFINE w == Width[d]
<1>1. w \in Nat \ {0}
  BY Widths
<1> HIDE DEF w
<1>2. n * w \in Nat /\ w * n <= n * w /\ n * w < w * (n + 1)
  BY <1>1
<1>3. (n * w) \div w = n
  BY <1>1, <1>2, Quotient
<1> QED
  BY <1>2, <1>3 DEF w, Node

\* A sibling is the other half of the parent.
LEMMA SiblingLemma ==
    ASSUME NEW n \in Nat
    PROVE  /\ n \div 2 \in Nat /\ Sibling(n) \in Nat
           /\ Sibling(n) \div 2 = n \div 2
           /\ IF n % 2 = 0
              THEN n = 2 * (n \div 2) /\ Sibling(n) = 2 * (n \div 2) + 1 /\ Sibling(n) % 2 # 0
              ELSE n = 2 * (n \div 2) + 1 /\ Sibling(n) = 2 * (n \div 2) /\ Sibling(n) % 2 = 0
BY DEF Sibling

\* A block over a leaf of the tree lies in the tree.
LEMMA BlockInside ==
    ASSUME NEW top \in Levels, NEW i \in Nat, i < Width[top], NEW d \in 0 .. top
    PROVE  (Node(i, d) + 1) * Width[d] <= Width[top]
<1> DEFINE end(e) == (Node(i, e) + 1) * Width[e]
           S == {k \in 0 .. top : end(top - k) <= Width[top]}
<1>1. top \in Nat /\ top <= TreeDepth /\ Width[top] \in Nat \ {0}
  BY Widths, TreeDepthAssumption DEF Levels
<1>2. 0 \in S
  <2>1. Width[top] * 0 <= i /\ i < Width[top] * (0 + 1)
    BY <1>1
  <2>2. Node(i, top) = 0
    BY <1>1, <2>1, Quotient DEF Node
  <2> QED
    BY <1>1, <2>2
<1>3. ASSUME NEW k \in 0 .. top - 1, k \in S PROVE k + 1 \in S
  <2> DEFINE e == top - (k + 1)
             n == Node(i, e)
             w == Width[e]
             m == n \div 2
  <2>1. e \in 0 .. TreeDepth - 1 /\ e \in Levels /\ e + 1 = top - k /\ k + 1 \in 0 .. top
    BY <1>1, TreeDepthAssumption DEF Levels
  <2> HIDE DEF e
  <2>2. w \in Nat /\ Width[e + 1] = 2 * w /\ n \in Nat /\ Node(i, e + 1) = m
    BY <2>1, Widths, NodeLemma
  <2>3. (m + 1) * (2 * w) <= Width[top]
    BY <1>3, <2>1, <2>2
  <2> HIDE DEF n, w
  <2>4. m \in Nat /\ n + 1 <= 2 * (m + 1)
    BY <2>2
  <2>5. (n + 1) * w <= (2 * (m + 1)) * w
    BY <2>2, <2>4
  <2>6. (2 * (m + 1)) * w = (m + 1) * (2 * w)
    BY <2>2, <2>4
  <2>7. (n + 1) * w <= Width[top]
    <3> DEFINE x == (n + 1) * w
               y == (m + 1) * (2 * w)
    <3>1. x <= y /\ y <= Width[top] /\ x \in Nat /\ y \in Nat
      BY <2>2, <2>3, <2>4, <2>5, <2>6
    <3> HIDE DEF x, y
    <3>2. x <= Width[top]
      BY <1>1, <3>1
    <3> QED
      BY <3>2 DEF x
  <2> QED
    BY <2>1, <2>7 DEF e, n, w
<1>4. top - d \in S
  <2> HIDE DEF S
  <2>1. top - d \in 0 .. top
    BY <1>1
  <2> QED
    BY <1>1, <1>2, <1>3, <2>1, UpTo
<1>5. top - (top - d) = d
  BY <1>1
<1> QED
  BY <1>4, <1>5

-------------------------------------------------------------------------------
(* Lengths *)

LEMMA CountLemma ==
    ASSUME NEW length \in 1 .. MAX_CHUNKS * CHUNK
    PROVE  /\ chunk_count(length) \in Nat \ {0}
           /\ chunk_count(length) <= MAX_CHUNKS
           /\ length <= CHUNK * chunk_count(length)
           /\ \A index \in Nat : index < chunk_count(length) => index * CHUNK < length
<1> DEFINE top == length + CHUNK - 1
           count == top \div CHUNK
<1>1. CHUNK \in Nat \ {0} /\ MAX_CHUNKS \in Nat /\ length \in Nat \ {0}
      /\ length <= CHUNK * MAX_CHUNKS
  <2>1. MAX_CHUNKS \in Nat
    BY Widths DEF MAX_CHUNKS, MaxPadded
  <2> QED
    BY <2>1, MerkleAssumption
<1>2. top \in Nat /\ CHUNK <= top
  BY <1>1
<1>3. count \in Nat /\ CHUNK * count <= top /\ top < CHUNK * (count + 1)
  BY <1>1, <1>2, Quotient
<1> HIDE DEF count
<1>4. count # 0
  BY <1>1, <1>2, <1>3
<1>5. CHUNK * (count - 1) < length
  <2>1. CHUNK * (count - 1) = CHUNK * count - CHUNK
    BY <1>1, <1>3
  <2> QED
    BY <1>1, <1>3, <2>1
<1>6. count <= MAX_CHUNKS
  <2>1. CASE count >= MAX_CHUNKS + 1
    <3>1. CHUNK * MAX_CHUNKS <= CHUNK * (count - 1)
      BY <1>1, <1>3, <2>1
    <3> QED
      BY <1>1, <1>3, <1>4, <1>5, <3>1
  <2> QED
    BY <1>1, <1>3, <2>1
<1>7. ASSUME NEW index \in Nat, index < count PROVE index * CHUNK < length
  <2>1. index * CHUNK <= CHUNK * (count - 1)
    BY <1>1, <1>3, <1>4, <1>7
  <2>2. index * CHUNK \in Nat /\ CHUNK * (count - 1) \in Nat
    BY <1>1, <1>3, <1>4
  <2> QED
    BY <1>1, <1>5, <2>1, <2>2
<1>8. length <= CHUNK * count
  <2>1. CHUNK * (count + 1) = CHUNK * count + CHUNK /\ CHUNK * count \in Nat
    BY <1>1, <1>3
  <2> QED
    BY <1>1, <1>3, <2>1
<1> QED
  BY <1>3, <1>4, <1>6, <1>7, <1>8 DEF chunk_count, count

\* The slice of the buffer has the length that verify_chunk asks for.
LEMMA ChunkLength ==
    ASSUME NEW bytes \in Artifacts, NEW index \in Nat, index < chunk_count(Len(bytes))
    PROVE  Len(ChunkAt(bytes, index)) =
               IF Len(bytes) - index * CHUNK < CHUNK THEN Len(bytes) - index * CHUNK ELSE CHUNK
<1> DEFINE length == Len(bytes)
           start == index * CHUNK
           end == IF (index + 1) * CHUNK < length THEN (index + 1) * CHUNK ELSE length
<1>1. bytes \in Seq(Bytes) /\ length \in 1 .. MAX_CHUNKS * CHUNK /\ CHUNK \in Nat \ {0}
  BY MerkleAssumption
<1>2. length \in Nat /\ start \in Nat /\ start < length
  BY <1>1, CountLemma, LenProperties
<1>3. (index + 1) * CHUNK = start + CHUNK
  BY <1>1
<1>4. end = (IF start + CHUNK < length THEN start + CHUNK ELSE length)
  BY <1>3
<1> HIDE DEF length, start, end
<1>5. end \in Nat /\ start + 1 \in 1 .. length + 1 /\ end \in start .. length
  BY <1>1, <1>2, <1>4
<1>6. Len(SubSeq(bytes, start + 1, end)) = end - start
  <2>1. /\ start + 1 \in 1 .. Len(bytes) + 1 /\ end \in (start + 1) - 1 .. Len(bytes)
    BY <1>2, <1>5 DEF length
  <2>2. Len(SubSeq(bytes, start + 1, end)) =
            IF start + 1 <= end THEN end - (start + 1) + 1 ELSE 0
    BY <1>1, <2>1, SubSeqProperties
  <2> QED
    BY <1>2, <1>5, <2>2
<1>7. end - start = IF length - start < CHUNK THEN length - start ELSE CHUNK
  BY <1>1, <1>2, <1>4
<1>8. ChunkAt(bytes, index) = SubSeq(bytes, start + 1, end)
  BY DEF ChunkAt, length, start, end
<1> QED
  BY <1>6, <1>7, <1>8 DEF length, start

-------------------------------------------------------------------------------
(* Climbing *)

LEMMA ClimbDefined ==
    ASSUME NEW leaf, NEW index, NEW proof, Len(proof) \in Nat
    PROVE  /\ Climb(leaf, index, proof)[0] = leaf
           /\ \A d \in 0 .. Len(proof) - 1 :
                  Climb(leaf, index, proof)[d + 1] =
                      IF Node(index, d) % 2 = 0
                      THEN node_hash(Climb(leaf, index, proof)[d], proof[d + 1])
                      ELSE node_hash(proof[d + 1], Climb(leaf, index, proof)[d])
<1> DEFINE next(c, d) == IF Node(index, d - 1) % 2 = 0 THEN node_hash(c, proof[d])
                         ELSE node_hash(proof[d], c)
           Defines(g, n) == g = [d \in 0 .. n |-> IF d = 0 THEN leaf ELSE next(g[d - 1], d)]
           S == {n \in Nat : \E g : Defines(g, n)}
           current == Climb(leaf, index, proof)
<1> HIDE DEF next
<1>1. 0 \in S
  <2>1. Defines([d \in 0 .. 0 |-> leaf], 0)
    OBVIOUS
  <2>2. \E g : Defines(g, 0)
    <3> HIDE DEF Defines
    <3> QED
      BY <2>1
  <2> QED
    BY <2>2
<1>2. ASSUME NEW n \in 0 .. Len(proof) - 1, n \in S PROVE n + 1 \in S
  <2>1. PICK g : Defines(g, n)
    BY <1>2
  <2> DEFINE h == [d \in 0 .. n + 1 |-> IF d = n + 1 THEN next(g[n], n + 1) ELSE g[d]]
  <2>2. Defines(h, n + 1)
    BY <2>1
  <2>3. \E k : Defines(k, n + 1)
    <3> HIDE DEF Defines, h
    <3> QED
      BY <2>2
  <2> QED
    BY <2>3
<1> HIDE DEF S
<1>3. Len(proof) \in S
  <2> DEFINE N == Len(proof)
  <2>1. N \in Nat /\ \A n \in 0 .. N - 1 : n \in S => n + 1 \in S
    BY <1>2
  <2> HIDE DEF N
  <2>2. 0 .. N \subseteq S
    BY <1>1, <2>1, UpTo
  <2> QED
    BY <2>1, <2>2 DEF N
<1>4. PICK g : Defines(g, Len(proof))
  BY <1>3 DEF S
<1>5. Defines(current, Len(proof))
  BY <1>4 DEF Climb, next
<1> HIDE DEF current
<1>6. current[0] = leaf
  BY <1>5
<1>7. ASSUME NEW d \in 0 .. Len(proof) - 1
      PROVE  current[d + 1] = IF Node(index, d) % 2 = 0 THEN node_hash(current[d], proof[d + 1])
                              ELSE node_hash(proof[d + 1], current[d])
  <2>1. d + 1 \in 0 .. Len(proof) /\ d + 1 # 0 /\ (d + 1) - 1 = d
    OBVIOUS
  <2>2. current[d + 1] = next(current[d], d + 1)
    BY <1>5, <2>1
  <2> QED
    BY <2>1, <2>2 DEF next
<1> QED
  BY <1>6, <1>7 DEF current

\* The tree of an artifact, and the climb of a proof through it.
Tree(bytes) == Rounds(leaves(bytes))
Count(bytes) == chunk_count(Len(bytes))
Depth(bytes) == PaddedLevel(Count(bytes))
At(bytes, index, proof) == Climb(leaf_hash(index, ChunkAt(bytes, index)), index, proof)

Accepted(committed, bytes, index, proof) ==
    verify_chunk(committed, Len(bytes), index, ChunkAt(bytes, index), proof)

LEMMA ArtifactLemma ==
    ASSUME NEW bytes \in Artifacts
    PROVE  /\ Len(bytes) \in 1 .. MAX_CHUNKS * CHUNK
           /\ Count(bytes) \in Nat \ {0}
           /\ Depth(bytes) \in Levels /\ Depth(bytes) \in Nat /\ Depth(bytes) <= TreeDepth
           /\ Width[Depth(bytes)] = PaddedCount(Count(bytes))
           /\ \A index \in Nat : index < Count(bytes) => index < Width[Depth(bytes)]
           /\ \A index \in Nat : index < Count(bytes) =>
                  Tree(bytes)[0][index] = leaf_hash(index, ChunkAt(bytes, index))
<1>1. Len(bytes) \in 1 .. MAX_CHUNKS * CHUNK
  BY MerkleAssumption
<1>2. Count(bytes) \in Nat \ {0} /\ Count(bytes) <= MaxPadded
  BY <1>1, CountLemma DEF Count, MAX_CHUNKS
<1>3. /\ Depth(bytes) \in Levels /\ Count(bytes) <= PaddedCount(Count(bytes))
      /\ Width[Depth(bytes)] = PaddedCount(Count(bytes))
  BY <1>2, PaddedLevelLemma DEF Depth, PaddedCount
<1>4. Width[Depth(bytes)] \in Nat
  BY <1>3, Widths
<1>5. \A index \in Nat : index < Count(bytes) => index < Width[Depth(bytes)]
  BY <1>2, <1>3, <1>4
<1>6. ASSUME NEW index \in Nat, index < Count(bytes)
      PROVE  Tree(bytes)[0][index] = leaf_hash(index, ChunkAt(bytes, index))
  BY <1>6, RoundLemma DEF Tree, leaves, Count
<1> QED
  BY <1>1, <1>2, <1>3, <1>5, <1>6, TreeDepthAssumption DEF Levels

\* A step of the climb at node n, whose parent is m, in terms of both children.
LEMMA ClimbStep ==
    ASSUME NEW bytes \in Artifacts, NEW index \in Nat, NEW proof, Len(proof) = Depth(bytes),
           NEW d \in 0 .. Depth(bytes) - 1
    PROVE  At(bytes, index, proof)[d + 1] =
               IF Node(index, d) % 2 = 0 THEN node_hash(At(bytes, index, proof)[d], proof[d + 1])
               ELSE node_hash(proof[d + 1], At(bytes, index, proof)[d])
BY ArtifactLemma, ClimbDefined DEF At

\* The tree hashes a node and its sibling into their parent.
LEMMA ParentLemma ==
    ASSUME NEW bytes \in Artifacts, NEW index \in Nat, NEW d \in 0 .. Depth(bytes) - 1
    PROVE  Tree(bytes)[d + 1][Node(index, d + 1)] =
               IF Node(index, d) % 2 = 0
               THEN node_hash(Tree(bytes)[d][Node(index, d)],
                              Tree(bytes)[d][Sibling(Node(index, d))])
               ELSE node_hash(Tree(bytes)[d][Sibling(Node(index, d))],
                              Tree(bytes)[d][Node(index, d)])
<1> DEFINE n == Node(index, d)
           m == n \div 2
<1>1. d \in 0 .. TreeDepth - 1 /\ d \in Levels
  BY ArtifactLemma, TreeDepthAssumption DEF Levels
<1>2. n \in Nat /\ Node(index, d + 1) = m
  BY <1>1, NodeLemma
<1> HIDE DEF n
<1>3. /\ m \in Nat
      /\ IF n % 2 = 0 THEN n = 2 * m /\ Sibling(n) = 2 * m + 1
                      ELSE n = 2 * m + 1 /\ Sibling(n) = 2 * m
  BY <1>2, SiblingLemma
<1>4. Tree(bytes)[d + 1][m] = node_hash(Tree(bytes)[d][2 * m], Tree(bytes)[d][2 * m + 1])
  BY <1>1, <1>3, RoundLemma DEF Tree
<1> HIDE DEF m
<1> QED
  BY <1>2, <1>3, <1>4 DEF n

\* A sibling lies in the tree, and is the canonical hash where it is padding only.
LEMMA SiblingInside ==
    ASSUME NEW bytes \in Artifacts, NEW index \in Nat, index < Count(bytes),
           NEW d \in 0 .. Depth(bytes) - 1
    PROVE  LET s == Sibling(Node(index, d)) IN
           /\ s \in Nat /\ s * Width[d] \in Nat
           /\ s * Width[d] + Width[d] <= PaddedCount(Count(bytes))
           /\ s * Width[d] >= Count(bytes) => padding_hash(s * Width[d], d) = Tree(bytes)[d][s]
<1> DEFINE n == Node(index, d)
           s == Sibling(n)
           m == n \div 2
           w == Width[d]
<1>1. d \in 0 .. TreeDepth - 1 /\ d \in Levels /\ d + 1 \in 0 .. Depth(bytes)
  BY ArtifactLemma, TreeDepthAssumption DEF Levels
<1>2. n \in Nat /\ Node(index, d + 1) = m
  BY <1>1, NodeLemma
<1>3. m \in Nat /\ s \in Nat /\ s <= 2 * m + 1
  <2> HIDE DEF n
  <2>1. m \in Nat /\ s \in Nat /\ (s = 2 * m + 1 \/ s = 2 * m)
    BY <1>2, SiblingLemma
  <2> HIDE DEF m, s
  <2> QED
    BY <2>1
<1>4. w \in Nat /\ Width[d + 1] = 2 * w
  BY <1>1, Widths
<1>5. (m + 1) * (2 * w) <= PaddedCount(Count(bytes)) /\ PaddedCount(Count(bytes)) \in Nat
  <2>1. (Node(index, d + 1) + 1) * Width[d + 1] <= Width[Depth(bytes)]
    BY <1>1, ArtifactLemma, BlockInside
  <2> QED
    BY <1>2, <1>4, <2>1, ArtifactLemma, Widths
<1>6. s * w \in Nat
  <2> HIDE DEF s, w
  <2> QED
    BY <1>3, <1>4
<1>7. s * w + w <= PaddedCount(Count(bytes))
  <2> HIDE DEF s, w, m
  <2>1. (s + 1) * w <= (2 * (m + 1)) * w
    BY <1>3, <1>4
  <2>2. (2 * (m + 1)) * w = (m + 1) * (2 * w) /\ (s + 1) * w = s * w + w
    BY <1>3, <1>4
  <2> DEFINE x == s * w
             y == (m + 1) * (2 * w)
  <2>3. x \in Nat /\ y \in Nat /\ x + w <= y /\ y <= PaddedCount(Count(bytes))
    BY <1>3, <1>4, <1>5, <1>6, <2>1, <2>2
  <2> HIDE DEF x, y
  <2>4. x + w <= PaddedCount(Count(bytes))
    BY <1>4, <1>5, <2>3
  <2> QED
    BY <2>4 DEF x
<1>8. ASSUME s * w >= Count(bytes) PROVE padding_hash(s * w, d) = Tree(bytes)[d][s]
  <2>1. Count(bytes) \in Nat
    BY ArtifactLemma
  <2> HIDE DEF s
  <2> QED
    BY <1>1, <1>3, <1>8, <2>1, PaddingLemma DEF Tree, Count
<1> QED
  BY <1>3, <1>6, <1>7, <1>8

-------------------------------------------------------------------------------
(* Honest commitments *)

LEMMA HonestClimb ==
    ASSUME NEW bytes \in Artifacts, NEW committed, NEW index \in Nat, index < Count(bytes)
    PROVE  Accepted(committed, bytes, index, merkle_proof(bytes, index))
               <=> committed = merkle_root(bytes)
<1> DEFINE proof == merkle_proof(bytes, index)
           hash == At(bytes, index, proof)
           S == {d \in 0 .. Depth(bytes) : hash[d] = Tree(bytes)[d][Node(index, d)]}
<1>1. /\ proof = [d \in 1 .. Depth(bytes) |-> Tree(bytes)[d - 1][Sibling(Node(index, d - 1))]]
      /\ Depth(bytes) \in Nat
  BY ArtifactLemma DEF merkle_proof, Depth, Count, Tree
<1>2. /\ Len(proof) = Depth(bytes)
      /\ \A d \in 0 .. Depth(bytes) - 1 : proof[d + 1] = Tree(bytes)[d][Sibling(Node(index, d))]
  <2> HIDE DEF proof
  <2> DEFINE H == {proof[d] : d \in 1 .. Depth(bytes)}
  <2>1. proof \in [1 .. Depth(bytes) -> H]
    BY <1>1
  <2> HIDE DEF H
  <2>3. Len(proof) = Depth(bytes)
    BY <1>1, <2>1
  <2>4. ASSUME NEW d \in 0 .. Depth(bytes) - 1
        PROVE  proof[d + 1] = Tree(bytes)[d][Sibling(Node(index, d))]
    <3>1. d + 1 \in 1 .. Depth(bytes) /\ (d + 1) - 1 = d
      BY <1>1
    <3> QED
      BY <1>1, <3>1
  <2> QED
    BY <2>3, <2>4
<1> HIDE DEF proof
<1>3. 0 \in S
  <2>1. hash[0] = leaf_hash(index, ChunkAt(bytes, index))
    BY <1>1, <1>2, ClimbDefined DEF At
  <2>2. Tree(bytes)[0][Node(index, 0)] = leaf_hash(index, ChunkAt(bytes, index))
    BY ArtifactLemma, NodeLemma
  <2> QED
    BY <1>1, <2>1, <2>2
<1>4. ASSUME NEW d \in 0 .. Depth(bytes) - 1, d \in S PROVE d + 1 \in S
  <2>1. hash[d + 1] = IF Node(index, d) % 2 = 0 THEN node_hash(hash[d], proof[d + 1])
                      ELSE node_hash(proof[d + 1], hash[d])
    BY <1>2, ClimbStep
  <2>2. /\ hash[d] = Tree(bytes)[d][Node(index, d)]
        /\ proof[d + 1] = Tree(bytes)[d][Sibling(Node(index, d))]
    BY <1>2, <1>4
  <2> HIDE DEF hash
  <2>3. hash[d + 1] = Tree(bytes)[d + 1][Node(index, d + 1)]
    BY <2>1, <2>2, ParentLemma
  <2>4. d + 1 \in 0 .. Depth(bytes)
    BY <1>1
  <2> QED
    BY <2>3, <2>4
<1>5. Depth(bytes) \in S
  <2> HIDE DEF S
  <2>1. \A d \in 0 .. Depth(bytes) - 1 : d \in S => d + 1 \in S
    BY <1>4
  <2>2. 0 .. Depth(bytes) \subseteq S
    BY <1>1, <1>3, <2>1, UpTo
  <2> QED
    BY <1>1, <2>2
<1>6. Node(index, Depth(bytes)) = 0
  <2>1. Width[Depth(bytes)] \in Nat \ {0} /\ index < Width[Depth(bytes)]
    BY ArtifactLemma, Widths
  <2>2. Width[Depth(bytes)] * 0 <= index /\ index < Width[Depth(bytes)] * (0 + 1)
    BY <2>1
  <2> QED
    BY <2>1, <2>2, Quotient DEF Node
<1>7. hash[Depth(bytes)] = merkle_root(bytes)
  <2>1. hash[Depth(bytes)] = Tree(bytes)[Depth(bytes)][0]
    BY <1>5, <1>6
  <2> QED
    BY <2>1 DEF merkle_root, reduce, Tree, Depth, Count
<1> HIDE DEF hash
<1>8. ASSUME NEW d \in 0 .. Depth(bytes) - 1
      PROVE  SiblingAllowed(proof[d + 1], Sibling(Node(index, d)) * Width[d], d, Count(bytes))
  BY <1>2, SiblingInside DEF SiblingAllowed
<1>9. /\ Len(bytes) \in 1 .. MAX_CHUNKS * CHUNK
      /\ Len(ChunkAt(bytes, index)) = IF Len(bytes) - index * CHUNK < CHUNK
                                       THEN Len(bytes) - index * CHUNK ELSE CHUNK
  BY ArtifactLemma, ChunkLength DEF Count
<1>10. Accepted(committed, bytes, index, proof) <=> hash[Depth(bytes)] = committed
  BY <1>2, <1>8, <1>9 DEF Accepted, verify_chunk, hash, At, Count, Depth
<1> QED
  BY <1>7, <1>10 DEF proof

-------------------------------------------------------------------------------
(* What a root stands for *)

LEMMA NodesInject ==
    ASSUME NEW a, NEW b, NEW c, NEW d, node_hash(a, b) = node_hash(c, d)
    PROVE  a = c /\ b = d
BY DEF node_hash

\* From the root down, a climb that is accepted runs through the tree.
LEMMA OnlyTheChunk ==
    ASSUME NEW bytes \in Artifacts, NEW index \in Nat, NEW chunk, NEW proof,
           verify_chunk(merkle_root(bytes), Len(bytes), index, chunk, proof)
    PROVE  chunk = ChunkAt(bytes, index)
<1> DEFINE top == Depth(bytes)
           c == Climb(leaf_hash(index, chunk), index, proof)
           Meets(e) == c[e] = Tree(bytes)[e][Node(index, e)]
           S == {k \in 0 .. top : Meets(top - k)}
<1>1. /\ index < Count(bytes) /\ Len(proof) = top /\ c[top] = merkle_root(bytes)
      /\ top \in Nat /\ top <= TreeDepth /\ index < Width[top]
  BY ArtifactLemma DEF verify_chunk, Count, Depth
<1>2. /\ c[0] = leaf_hash(index, chunk)
      /\ \A d \in 0 .. top - 1 :
             c[d + 1] = IF Node(index, d) % 2 = 0 THEN node_hash(c[d], proof[d + 1])
                        ELSE node_hash(proof[d + 1], c[d])
  BY <1>1, ClimbDefined
<1> HIDE DEF c
<1>3. 0 \in S
  <2>1. Width[top] \in Nat \ {0}
    BY ArtifactLemma, Widths
  <2>2. Width[top] * 0 <= index /\ index < Width[top] * (0 + 1)
    BY <1>1, <2>1
  <2>3. Node(index, top) = 0
    BY <2>1, <2>2, Quotient DEF Node
  <2>4. merkle_root(bytes) = Tree(bytes)[top][0]
    BY DEF merkle_root, reduce, Tree, Depth, Count
  <2>5. Meets(top)
    BY <1>1, <2>3, <2>4
  <2> HIDE DEF Meets
  <2> QED
    BY <1>1, <2>5
<1>4. ASSUME NEW k \in 0 .. top - 1, k \in S PROVE k + 1 \in S
  <2> DEFINE e == top - (k + 1)
  <2>1. e \in 0 .. top - 1 /\ e + 1 = top - k /\ k + 1 \in 0 .. top
    BY <1>1
  <2> HIDE DEF e
  <2>2. Meets(e + 1)
    BY <1>4, <2>1
  <2>3. CASE Node(index, e) % 2 = 0
    <3>1. node_hash(c[e], proof[e + 1]) =
              node_hash(Tree(bytes)[e][Node(index, e)], Tree(bytes)[e][Sibling(Node(index, e))])
      BY <1>2, <2>1, <2>2, <2>3, ParentLemma
    <3> QED
      BY <2>1, <3>1, NodesInject DEF e
  <2>4. CASE Node(index, e) % 2 # 0
    <3>1. node_hash(proof[e + 1], c[e]) =
              node_hash(Tree(bytes)[e][Sibling(Node(index, e))], Tree(bytes)[e][Node(index, e)])
      BY <1>2, <2>1, <2>2, <2>4, ParentLemma
    <3> QED
      BY <2>1, <3>1, NodesInject DEF e
  <2> QED
    BY <2>3, <2>4
<1>5. Meets(0)
  <2> HIDE DEF S
  <2>1. \A k \in 0 .. top - 1 : k \in S => k + 1 \in S
    BY <1>4
  <2>2. 0 .. top \subseteq S
    BY <1>1, <1>3, <2>1, UpTo
  <2>3. top \in S /\ top - top = 0
    BY <1>1, <2>2
  <2> QED
    BY <2>3 DEF S
<1>6. leaf_hash(index, chunk) = leaf_hash(index, ChunkAt(bytes, index))
  BY <1>1, <1>2, <1>5, ArtifactLemma, NodeLemma
<1> QED
  BY <1>6 DEF leaf_hash

(***************************************************************************)
(* Under the root of an artifact verify_chunk accepts, at each index, that *)
(* artifact's chunk and no other, whatever the proof: a mark on a chunk    *)
(* says what the chunk is.  The processors of both controllers, and their  *)
(* models, take a root to stand for its artifact.                          *)
(***************************************************************************)
THEOREM OnlyTheChunkVerifies ==
    ASSUME NEW bytes \in Artifacts, NEW index \in 0 .. chunk_count(Len(bytes)) - 1, NEW chunk
    PROVE  (\E proof : verify_chunk(merkle_root(bytes), Len(bytes), index, chunk, proof))
               <=> chunk = ChunkAt(bytes, index)
<1>1. index \in Nat /\ index < Count(bytes)
  BY ArtifactLemma DEF Count
<1>2. ASSUME NEW proof, verify_chunk(merkle_root(bytes), Len(bytes), index, chunk, proof)
      PROVE  chunk = ChunkAt(bytes, index)
  BY <1>1, <1>2, OnlyTheChunk
<1>3. Accepted(merkle_root(bytes), bytes, index, merkle_proof(bytes, index))
  BY <1>1, HonestClimb
<1> QED
  BY <1>2, <1>3 DEF Accepted

\* Equal chunks are equal bytes.
LEMMA ChunkBytes ==
    ASSUME NEW a \in Artifacts, NEW b \in Artifacts, Len(a) = Len(b),
           NEW index \in Nat, ChunkAt(a, index) = ChunkAt(b, index),
           NEW i \in 1 .. Len(a), index * CHUNK < i, i <= (index + 1) * CHUNK
    PROVE  a[i] = b[i]
<1> DEFINE length == Len(a)
           first == index * CHUNK + 1
           last == IF (index + 1) * CHUNK < length THEN (index + 1) * CHUNK ELSE length
           k == i - first + 1
<1>1. /\ index * CHUNK \in Nat /\ (index + 1) * CHUNK \in Nat /\ length \in Nat
      /\ a \in Seq(Bytes) /\ b \in Seq(Bytes) /\ Len(b) = length
  BY MerkleAssumption, LenProperties
<1>2. /\ first \in Nat \ {0} /\ last \in Nat /\ first <= i /\ i <= last /\ last <= length
  BY <1>1
<1>3. SubSeq(a, first, last) = SubSeq(b, first, last)
  BY DEF ChunkAt
<1> HIDE DEF first, last
<1>4. k \in 1 .. last - first + 1 /\ first + k - 1 = i
  BY <1>2
<1> HIDE DEF k
<1>5. SubSeq(a, first, last)[k] = a[i]
  BY <1>1, <1>2, <1>4, SubSeqProperties
<1>6. SubSeq(b, first, last)[k] = b[i]
  BY <1>1, <1>2, <1>4, SubSeqProperties
<1> QED
  BY <1>3, <1>5, <1>6

(***************************************************************************)
(* The length and the root of a proposal determine its artifact            *)
(* (merkle_root, verify_chunk): two byte strings of one length with one    *)
(* root are the same.  A buffer whose verification is complete under an    *)
(* honest commitment is therefore the artifact the council voted on.       *)
(***************************************************************************)
THEOREM RootDeterminesArtifact ==
    ASSUME NEW a \in Artifacts, NEW b \in Artifacts, Len(a) = Len(b),
           merkle_root(a) = merkle_root(b)
    PROVE  a = b
<1>1. /\ a \in Seq(Bytes) /\ b \in Seq(Bytes) /\ Len(a) \in 1 .. MAX_CHUNKS * CHUNK
      /\ CHUNK \in Nat \ {0} /\ Len(a) \in Nat
  BY MerkleAssumption, LenProperties
<1>2. ASSUME NEW i \in 1 .. Len(a) PROVE a[i] = b[i]
  <2> DEFINE index == (i - 1) \div CHUNK
             count == chunk_count(Len(a))
  <2>1. index \in Nat /\ CHUNK * index <= i - 1 /\ i - 1 < CHUNK * (index + 1)
    BY <1>1, Quotient
  <2>2. count \in Nat /\ Len(a) <= CHUNK * count
    BY <1>1, CountLemma
  <2> HIDE DEF index, count
  <2>3. index < count
    <3>1. CASE index >= count
      <4>1. CHUNK * count <= CHUNK * index
        BY <1>1, <2>1, <2>2, <3>1
      <4>2. CHUNK * count \in Nat /\ CHUNK * index \in Nat
        BY <1>1, <2>1, <2>2
      <4> QED
        BY <1>1, <2>1, <2>2, <4>1, <4>2
    <3> QED
      BY <2>1, <2>2, <3>1
  <2>4. index \in 0 .. chunk_count(Len(b)) - 1 /\ index \in 0 .. chunk_count(Len(a)) - 1
    BY <2>1, <2>2, <2>3 DEF count
  <2>5. \E proof : verify_chunk(merkle_root(b), Len(b), index, ChunkAt(b, index), proof)
    BY <2>4, OnlyTheChunkVerifies
  <2>6. ChunkAt(b, index) = ChunkAt(a, index)
    BY <2>4, <2>5, OnlyTheChunkVerifies
  <2>7. index * CHUNK < i /\ i <= (index + 1) * CHUNK
    BY <1>1, <2>1
  <2> QED
    BY <2>1, <2>6, <2>7, ChunkBytes
<1> QED
  BY <1>1, <1>2, SeqEqual

-------------------------------------------------------------------------------
(* Complete verifications *)

\* The climbs from the chunks of a complete verification meet from the root
\* down (two of them that pass a node have the same hash there), so that each
\* sibling of a climb is the hash of another: from the leaves up they are the
\* hashes of the tree.
LEMMA CompleteLemma ==
    ASSUME NEW bytes \in Artifacts, NEW committed,
           \A i \in 0 .. Count(bytes) - 1 : \E proof : Accepted(committed, bytes, i, proof)
    PROVE  committed = merkle_root(bytes)
<1> DEFINE I == 0 .. Count(bytes) - 1
           p(i) == CHOOSE proof : Accepted(committed, bytes, i, proof)
           h(i) == At(bytes, i, p(i))
<1>1. /\ Depth(bytes) \in Nat /\ Depth(bytes) <= TreeDepth /\ Count(bytes) \in Nat \ {0}
      /\ \A i \in I : i \in Nat /\ i < Count(bytes)
      /\ \A d \in 0 .. Depth(bytes) - 1 : d \in 0 .. TreeDepth - 1 /\ d \in Levels
  BY ArtifactLemma, TreeDepthAssumption DEF Levels
<1>2. ASSUME NEW i \in I
      PROVE  /\ Len(p(i)) = Depth(bytes)
             /\ h(i)[Depth(bytes)] = committed
             /\ h(i)[0] = leaf_hash(i, ChunkAt(bytes, i))
             /\ \A d \in 0 .. Depth(bytes) - 1 :
                    SiblingAllowed(p(i)[d + 1], Sibling(Node(i, d)) * Width[d], d, Count(bytes))
  <2>1. Accepted(committed, bytes, i, p(i))
    OBVIOUS
  <2> HIDE DEF p
  <2>2. /\ Len(p(i)) = Depth(bytes)
        /\ At(bytes, i, p(i))[Depth(bytes)] = committed
        /\ \A d \in 0 .. Depth(bytes) - 1 :
               SiblingAllowed(p(i)[d + 1], Sibling(Node(i, d)) * Width[d], d, Count(bytes))
    BY <2>1 DEF Accepted, verify_chunk, At, Depth, Count
  <2>3. At(bytes, i, p(i))[0] = leaf_hash(i, ChunkAt(bytes, i))
    BY <1>1, <2>2, ClimbDefined DEF At
  <2> QED
    BY <2>2, <2>3
<1> HIDE DEF p
<1>3. ASSUME NEW i \in I, NEW d \in 0 .. Depth(bytes) - 1
      PROVE  h(i)[d + 1] = IF Node(i, d) % 2 = 0 THEN node_hash(h(i)[d], p(i)[d + 1])
                           ELSE node_hash(p(i)[d + 1], h(i)[d])
  BY <1>1, <1>2, ClimbStep
<1> HIDE DEF h
<1>4. ASSUME NEW d \in 0 .. Depth(bytes)
      PROVE  \A i, j \in I : Node(i, d) = Node(j, d) => h(i)[d] = h(j)[d]
  <2> DEFINE Meet(e) == \A i, j \in I : Node(i, e) = Node(j, e) => h(i)[e] = h(j)[e]
             S == {k \in 0 .. Depth(bytes) : Meet(Depth(bytes) - k)}
  <2>1. 0 \in S
    BY <1>1, <1>2
  <2>2. ASSUME NEW k \in 0 .. Depth(bytes) - 1, k \in S PROVE k + 1 \in S
    <3> DEFINE e == Depth(bytes) - (k + 1)
    <3>1. e \in 0 .. Depth(bytes) - 1 /\ e + 1 = Depth(bytes) - k /\ k + 1 \in 0 .. Depth(bytes)
      BY <1>1
    <3> HIDE DEF e
    <3>2. ASSUME NEW i \in I, NEW j \in I, Node(i, e) = Node(j, e) PROVE h(i)[e] = h(j)[e]
      <4>1. Node(i, e + 1) = Node(j, e + 1)
        BY <1>1, <3>1, <3>2, NodeLemma
      <4>2. h(i)[e + 1] = h(j)[e + 1]
        BY <2>2, <3>1, <4>1
      <4>3. CASE Node(i, e) % 2 = 0
        <5>1. node_hash(h(i)[e], p(i)[e + 1]) = node_hash(h(j)[e], p(j)[e + 1])
          BY <1>3, <3>1, <3>2, <4>2, <4>3
        <5> QED
          BY <5>1, NodesInject
      <4>4. CASE Node(i, e) % 2 # 0
        <5>1. node_hash(p(i)[e + 1], h(i)[e]) = node_hash(p(j)[e + 1], h(j)[e])
          BY <1>3, <3>1, <3>2, <4>2, <4>4
        <5> QED
          BY <5>1, NodesInject
      <4> QED
        BY <4>3, <4>4
    <3>3. Meet(e)
      BY <3>2
    <3> QED
      BY <3>1, <3>3 DEF e
  <2>3. Depth(bytes) - d \in S
    <3>1. Depth(bytes) - d \in 0 .. Depth(bytes)
      BY <1>1
    <3> HIDE DEF S
    <3>2. \A k \in 0 .. Depth(bytes) - 1 : k \in S => k + 1 \in S
      BY <2>2
    <3>3. 0 .. Depth(bytes) \subseteq S
      BY <1>1, <2>1, <3>2, UpTo
    <3> QED
      BY <3>1, <3>3
  <2>4. Depth(bytes) - (Depth(bytes) - d) = d
    BY <1>1
  <2> QED
    BY <2>3, <2>4
<1>5. ASSUME NEW d \in 0 .. Depth(bytes)
      PROVE  \A i \in I : h(i)[d] = Tree(bytes)[d][Node(i, d)]
  <2> DEFINE S == {e \in 0 .. Depth(bytes) : \A i \in I : h(i)[e] = Tree(bytes)[e][Node(i, e)]}
  <2>1. 0 \in S
    <3>1. ASSUME NEW i \in I PROVE h(i)[0] = Tree(bytes)[0][Node(i, 0)]
      <4>1. Tree(bytes)[0][i] = leaf_hash(i, ChunkAt(bytes, i))
        BY <1>1, ArtifactLemma
      <4> QED
        BY <1>1, <1>2, <4>1, NodeLemma
    <3> QED
      BY <1>1, <3>1
  <2>2. ASSUME NEW e \in 0 .. Depth(bytes) - 1, e \in S PROVE e + 1 \in S
    <3>1. e + 1 \in 0 .. Depth(bytes) /\ e \in Levels
      BY <1>1
    <3>2. ASSUME NEW i \in I PROVE h(i)[e + 1] = Tree(bytes)[e + 1][Node(i, e + 1)]
      <4> DEFINE n == Node(i, e)
                 s == Sibling(n)
                 j == s * Width[e]
      <4>1. h(i)[e] = Tree(bytes)[e][n]
        BY <2>2
      <4>2. n \in Nat /\ Node(i, e + 1) = n \div 2
        BY <1>1, NodeLemma
      <4>3. /\ s \in Nat /\ j \in Nat
            /\ j >= Count(bytes) => padding_hash(j, e) = Tree(bytes)[e][s]
        BY <1>1, SiblingInside
      <4>4. p(i)[e + 1] = Tree(bytes)[e][s]
        <5>1. CASE j >= Count(bytes)
          BY <1>2, <4>3, <5>1 DEF SiblingAllowed
        <5>2. CASE ~ (j >= Count(bytes))
          <6> HIDE DEF n
          <6>1. /\ s \div 2 = n \div 2
                /\ n % 2 = 0 => s % 2 # 0
                /\ n % 2 # 0 => s % 2 = 0
            BY <4>2, SiblingLemma
          <6>2. j \in I /\ Node(j, e) = s
            <7> HIDE DEF s
            <7>1. Node(j, e) = s
              BY <3>1, <4>3, FirstLeaf
            <7> HIDE DEF j
            <7>2. j \in I
              BY <1>1, <4>3, <5>2
            <7> QED
              BY <7>1, <7>2
          <6> HIDE DEF j, s
          <6>3. Node(j, e + 1) = Node(i, e + 1)
            BY <1>1, <4>2, <4>3, <6>1, <6>2, NodeLemma
          <6>4. h(j)[e] = Tree(bytes)[e][s]
            BY <2>2, <6>2
          <6>5. h(i)[e + 1] = h(j)[e + 1]
            BY <1>4, <3>1, <6>2, <6>3
          <6>6. CASE n % 2 = 0
            <7>1. node_hash(h(i)[e], p(i)[e + 1]) = node_hash(p(j)[e + 1], h(j)[e])
              BY <1>3, <6>1, <6>2, <6>5, <6>6 DEF n
            <7> QED
              BY <6>4, <7>1, NodesInject
          <6>7. CASE n % 2 # 0
            <7>1. node_hash(p(i)[e + 1], h(i)[e]) = node_hash(h(j)[e], p(j)[e + 1])
              BY <1>3, <6>1, <6>2, <6>5, <6>7 DEF n
            <7> QED
              BY <6>4, <7>1, NodesInject
          <6> QED
            BY <6>6, <6>7
        <5> QED
          BY <5>1, <5>2
      <4>5. h(i)[e + 1] = IF n % 2 = 0 THEN node_hash(Tree(bytes)[e][n], Tree(bytes)[e][s])
                          ELSE node_hash(Tree(bytes)[e][s], Tree(bytes)[e][n])
        BY <1>3, <4>1, <4>4
      <4> QED
        BY <1>1, <4>5, ParentLemma
    <3> QED
      BY <3>1, <3>2
  <2>3. d \in S
    <3> HIDE DEF S
    <3>1. \A e \in 0 .. Depth(bytes) - 1 : e \in S => e + 1 \in S
      BY <2>2
    <3>2. 0 .. Depth(bytes) \subseteq S
      BY <1>1, <2>1, <3>1, UpTo
    <3> QED
      BY <3>2
  <2> QED
    BY <2>3
<1>6. 0 \in I /\ Depth(bytes) \in 0 .. Depth(bytes)
  BY <1>1
<1>7. Node(0, Depth(bytes)) = 0
  <2>1. Width[Depth(bytes)] \in Nat \ {0}
    BY ArtifactLemma, Widths
  <2> QED
    BY <2>1 DEF Node
<1>8. committed = Tree(bytes)[Depth(bytes)][0]
  BY <1>2, <1>5, <1>6, <1>7
<1> QED
  BY <1>8 DEF merkle_root, reduce, Tree, Depth, Count

-------------------------------------------------------------------------------
(* The specification *)

\* Every mark stands for a proof that verify_chunk accepted.
MerkleInv ==
    /\ buffer \in Artifacts
    /\ \A index \in marked : \E proof : Accepted(root, buffer, index, proof)

LEMMA MerkleInvariant == Spec => []MerkleInv
<1>1. Init => MerkleInv
  BY DEF Init, MerkleInv
<1>2. MerkleInv /\ [Next]_merkleVars => MerkleInv'
  <2> SUFFICES ASSUME MerkleInv, [Next]_merkleVars PROVE MerkleInv'
    OBVIOUS
  <2>1. ASSUME NEW index, NEW proof, Verify(index, proof) PROVE MerkleInv'
    <3>1. /\ Accepted(root, buffer, index, proof)
          /\ marked' = marked \cup {index} /\ buffer' = buffer /\ root' = root
      BY <2>1 DEF Verify, Accepted
    <3>2. \A i \in marked' : \E q : Accepted(root, buffer, i, q)
      BY <3>1 DEF MerkleInv
    <3> QED
      BY <3>1, <3>2 DEF MerkleInv, Accepted
  <2>2. CASE UNCHANGED merkleVars
    BY <2>2 DEF merkleVars, MerkleInv, Accepted
  <2> QED
    BY <2>1, <2>2 DEF Next
<1> QED
  BY <1>1, <1>2, PTL DEF Spec

(***************************************************************************)
(* When every chunk of the sealed buffer is marked, the committed root is  *)
(* the canonical root of exactly these bytes, for every tree depth, chunk  *)
(* size and committed root, honest or not: at each sibling the proofs of   *)
(* two chunks hold each other to the same hash, and padding is pinned by   *)
(* padding_hash (verify_chunk).                                            *)
(***************************************************************************)
THEOREM CompleteTheorem == Spec => []CompleteIsCanonical
<1>1. MerkleInv => CompleteIsCanonical
  <2> SUFFICES ASSUME MerkleInv, marked = 0 .. Count(buffer) - 1 PROVE root = merkle_root(buffer)
    BY DEF CompleteIsCanonical, Count
  <2> QED
    BY CompleteLemma DEF MerkleInv
<1> QED
  BY <1>1, MerkleInvariant, PTL

(***************************************************************************)
(* The path that merkle_proof computes is accepted by verify_chunk for     *)
(* every chunk of a buffer whose root is committed, padded or not: nobody  *)
(* can be kept from completing an honest commitment.                       *)
(***************************************************************************)
THEOREM HonestTheorem == Spec => []HonestProofAccepted
<1>1. MerkleInv => HonestProofAccepted
  <2> SUFFICES ASSUME MerkleInv, root = merkle_root(buffer), NEW index \in 0 .. Count(buffer) - 1
               PROVE  Accepted(root, buffer, index, merkle_proof(buffer, index))
    BY DEF HonestProofAccepted, Accepted, Count
  <2>1. buffer \in Artifacts /\ index \in Nat /\ index < Count(buffer)
    BY ArtifactLemma DEF MerkleInv
  <2> QED
    BY <2>1, HonestClimb
<1> QED
  BY <1>1, MerkleInvariant, PTL

=============================================================================
