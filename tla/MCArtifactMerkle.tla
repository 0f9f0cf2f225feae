--------------------------- MODULE MCArtifactMerkle ---------------------------
(***************************************************************************)
(* Chunks of two bytes, at most four of them, so that artifacts of one,    *)
(* two, three (padded) and four chunks occur, with a full and a short last *)
(* chunk.  The second byte of a chunk distinguishes contents.              *)
(***************************************************************************)
EXTENDS ArtifactMerkle

ByteStrings ==
    UNION {{a \in [1 .. n -> {0, 1}] : \A i \in 1 .. n : i % 2 = 1 => a[i] = 0} : n \in 1 .. 7}

\* What a creator may put at leaf i: any chunk, padding, or the leaf of another place.
Leaf(i) ==
    {leaf_hash(i, c) : c \in {<<0>>, <<0, 0>>, <<0, 1>>}}
       \cup {empty_hash(i), leaf_hash(i + 1, <<0, 0>>)}

Pairs(i) == {node_hash(l, r) : l \in Leaf(i), r \in Leaf(i + 1)}

AllTrees ==
    [w \in {1, 2, 4} |->
        IF w = 1 THEN Leaf(0)
        ELSE IF w = 2 THEN Pairs(0)
        ELSE {node_hash(l, r) : l \in Pairs(0), r \in Pairs(2)}]

\* The hashes a tree is made of; nothing else in a proof can lead to its root.
RECURSIVE Hashes(_)
Hashes(tree) == {tree} \cup IF tree[1] = "node" THEN Hashes(tree[2]) \cup Hashes(tree[3]) ELSE {}
===============================================================================
