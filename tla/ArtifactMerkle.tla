---------------------------- MODULE ArtifactMerkle ----------------------------
(***************************************************************************)
(* The Merkle commitment of governance_controller_v3/src/artifact.rs: a    *)
(* proposal commits to a length and a root, and chunks of the sealed       *)
(* buffer are checked against them one by one.  The program never sees the *)
(* artifact behind the root, and the root need not come from one: whoever  *)
(* creates the proposal may commit to any tree of hashes.                  *)
(*                                                                         *)
(* TreeDepth is MAX_PROOF_DEPTH.  Hashes are free constructors, so         *)
(* distinct inputs never collide and the three domains (leaf, node,        *)
(* padding) stay apart.                                                    *)
(***************************************************************************)
EXTENDS TreeWidths, Sequences

CONSTANTS
    CHUNK,        \* bytes of a full chunk
    Bytes,        \* the bytes explored
    Artifacts,    \* the byte strings explored as buffer contents
    Trees,        \* Trees[w]: the roots explored over w leaves
    Siblings(_)   \* the hashes explored in a proof for a root

MAX_CHUNKS == MaxPadded

ASSUME MerkleAssumption ==
    /\ CHUNK \in Nat \ {0}
    /\ Artifacts \subseteq Seq(Bytes)
    /\ \A a \in Artifacts : Len(a) \in 1 .. MAX_CHUNKS * CHUNK

VARIABLES
    buffer,   \* the bytes of the sealed buffer, of the committed length
    root,     \* the committed root
    marked    \* the chunk indices marked as verified, from zero

merkleVars == <<buffer, root, marked>>

-------------------------------------------------------------------------------
(* The tree.  A level is a function of the position, from zero; the vector *)
(* of the code holds as much of it as the root stands for.                 *)

chunk_count(length) == (length + CHUNK - 1) \div CHUNK

leaf_hash(index, chunk) == <<"leaf", index, chunk>>
empty_hash(index) == <<"empty", index>>
node_hash(left, right) == <<"node", left, right>>

\* The slice of the buffer that verify hashes.
ChunkAt(bytes, index) ==
    SubSeq(bytes, index * CHUNK + 1, IF (index + 1) * CHUNK < Len(bytes)
                                     THEN (index + 1) * CHUNK ELSE Len(bytes))

\* One level up: neighbours are hashed in pairs.
Parents(level) == [i \in Nat |-> node_hash(level[2 * i], level[2 * i + 1])]

\* The level after each round of the loop.
Rounds(level) ==
    LET round[d \in Levels] == IF d = 0 THEN level ELSE Parents(round[d - 1])
    IN  round

\* The one hash left of Width[depth] of them.
reduce(level, depth) == Rounds(level)[depth][0]

\* The canonical hash of Width[depth] padding leaves.
padding_hash(start, depth) == reduce([i \in Nat |-> empty_hash(start + i)], depth)

leaves(bytes) ==
    [i \in Nat |-> IF i < chunk_count(Len(bytes)) THEN leaf_hash(i, ChunkAt(bytes, i))
                                                  ELSE empty_hash(i)]

merkle_root(bytes) == reduce(leaves(bytes), PaddedLevel(chunk_count(Len(bytes))))

\* index >> d, the node above a leaf after d rounds, and node ^ 1
Node(index, d) == index \div Width[d]
Sibling(node) == IF node % 2 = 0 THEN node + 1 ELSE node - 1

merkle_proof(bytes, index) ==
    [d \in 1 .. PaddedLevel(chunk_count(Len(bytes))) |->
        Rounds(leaves(bytes))[d - 1][Sibling(Node(index, d - 1))]]

-------------------------------------------------------------------------------
(* The check *)

\* Mutant: padding is whatever the proof says.
SiblingAllowedMutant(sibling, start, d, count) == start + Width[d] <= PaddedCount(count)

\* Mutant: a subtree that is padding only in part is taken for padding.
SiblingAllowedMutant2(sibling, start, d, count) ==
    /\ start + Width[d] <= PaddedCount(count)
    /\ start + Width[d] > count => sibling = padding_hash(start, d)

\* A sibling that covers only padding must be the canonical padding subtree.
SiblingAllowed(sibling, start, d, count) ==
    /\ start + Width[d] <= PaddedCount(count)
    /\ start >= count => sibling = padding_hash(start, d)

\* The hash that the loop over the proof carries, after each sibling.
Climb(leaf, index, proof) ==
    LET current[d \in 0 .. Len(proof)] ==
            IF d = 0 THEN leaf
            ELSE IF Node(index, d - 1) % 2 = 0 THEN node_hash(current[d - 1], proof[d])
            ELSE node_hash(proof[d], current[d - 1])
    IN  current

verify_chunk(committed, length, index, chunk, proof) ==
    LET count == chunk_count(length) IN
    /\ length \in 1 .. MAX_CHUNKS * CHUNK
    /\ index < count
    /\ Len(chunk) = IF length - index * CHUNK < CHUNK THEN length - index * CHUNK ELSE CHUNK
    /\ Len(proof) = PaddedLevel(count)
    /\ \A d \in 0 .. Len(proof) - 1 :
           SiblingAllowed(proof[d + 1], Sibling(Node(index, d)) * Width[d], d, count)
    /\ Climb(leaf_hash(index, chunk), index, proof)[Len(proof)] = committed

-------------------------------------------------------------------------------
(* Verification of a sealed buffer *)

Init ==
    /\ buffer \in Artifacts
    /\ root \in Trees[PaddedCount(chunk_count(Len(buffer)))]
    /\ marked = {}

\* The VerifyChunk instruction: a chunk already marked is refused before hashing.
Verify(index, proof) ==
    /\ index < chunk_count(Len(buffer))
    /\ index \notin marked
    /\ verify_chunk(root, Len(buffer), index, ChunkAt(buffer, index), proof)
    /\ marked' = marked \cup {index}
    /\ UNCHANGED <<buffer, root>>

Next ==
    \E index \in 0 .. MAX_CHUNKS, length \in Levels :
        \E proof \in [1 .. length -> Siblings(root)] : Verify(index, proof)

Spec == Init /\ [][Next]_merkleVars

-------------------------------------------------------------------------------

\* Once every chunk is marked, the committed root is the root of exactly these
\* bytes with canonical padding, even if the creator committed to some other
\* tree: length and root then determine the artifact, and a root with anything
\* else in it can never be completed (verify_chunk, padding_hash).
CompleteIsCanonical ==
    marked = 0 .. chunk_count(Len(buffer)) - 1 => root = merkle_root(buffer)

\* Nobody can be kept from completing an honest commitment: the path that
\* merkle_proof computes is accepted for every chunk of the artifact.
HonestProofAccepted ==
    root = merkle_root(buffer) =>
        \A index \in 0 .. chunk_count(Len(buffer)) - 1 :
            verify_chunk(root, Len(buffer), index, ChunkAt(buffer, index),
                         merkle_proof(buffer, index))
===============================================================================
