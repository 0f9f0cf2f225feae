------------------------- MODULE ObservationMerkle -------------------------
(***************************************************************************)
(* programdata_observation_merkle.rs: the raw root of a ProgramData        *)
(* account, accumulated chunk by chunk in a frontier that fits an account. *)
(* Slot l of the frontier holds the hash of Width[l] neighbouring leaves;  *)
(* a chunk is a leaf that carries through the occupied slots, and          *)
(* finalization carries padding leaves up to the next power of two.        *)
(*                                                                         *)
(* Hashes are free constructors: distinct inputs never collide, and no     *)
(* hash is the zero hash.                                                  *)
(***************************************************************************)
EXTENDS TreeWidths, Sequences

CONSTANTS
    MinRawLength,  \* length of a ProgramData account without payload
    MaxRawLength,  \* length of the largest ProgramData account
    RawChunkSize   \* the capacity policy's observation_chunk_size

ASSUME ObservationMerkleAssumption ==
    /\ RawChunkSize \in Nat \ {0}
    /\ MinRawLength \in Nat \ {0}
    /\ MaxRawLength \in MinRawLength .. RawChunkSize * MaxPadded

NoHash == <<>>

Lesser(a, b) == IF a <= b THEN a ELSE b

-----------------------------------------------------------------------------
(* Chunks *)

ChunkCountDefined(length) == length \in MinRawLength .. MaxRawLength
ChunkCount(length) == (length + RawChunkSize - 1) \div RawChunkSize

\* The cells of chunk index, from zero; the last chunk may be short.
RawChunk(raw, index) ==
    SubSeq(raw, index * RawChunkSize + 1, Lesser((index + 1) * RawChunkSize, Len(raw)))

ExpectedLength(length, index) == Lesser(length - index * RawChunkSize, RawChunkSize)

-----------------------------------------------------------------------------
(* Hashes *)

LeafHash(subject, index, chunk) == <<"leaf", subject, index, chunk>>
NodeHash(level, left, right) == <<"node", level, left, right>>
EmptyHash(subject, index) == <<"empty", subject, index>>

-----------------------------------------------------------------------------
(* The frontier *)

Bits(n) == {l \in Levels : (n \div Width[l]) % 2 = 1}

EmptyFrontier == [hashes |-> [l \in Levels |-> NoHash], occupied |-> {}, next |-> 0]

FrontierValid(frontier) ==
    /\ frontier.next <= MaxPadded
    /\ frontier.occupied = Bits(frontier.next)
    /\ \A l \in Levels \ frontier.occupied : frontier.hashes[l] = NoHash

\* The first free slot, which the carry stops in.
FreeLevel(frontier) ==
    CHOOSE l \in Levels : l \notin frontier.occupied /\ 0 .. l - 1 \subseteq frontier.occupied

CanAppend(frontier) == FrontierValid(frontier) /\ frontier.next < MaxPadded

AppendHash(frontier, hash) ==
    LET free == FreeLevel(frontier)
        carry[l \in 0 .. free] ==
            IF l = 0 THEN hash ELSE NodeHash(l, frontier.hashes[l - 1], carry[l - 1])
    IN  [hashes |-> [l \in Levels |-> IF l < free THEN NoHash
                                      ELSE IF l = free THEN carry[l]
                                      ELSE frontier.hashes[l]],
         occupied |-> (frontier.occupied \ (0 .. free - 1)) \cup {free},
         next |-> frontier.next + 1]

CanAppendChunk(frontier, length, index, chunk) ==
    /\ CanAppend(frontier)
    /\ ChunkCountDefined(length)
    /\ index = frontier.next
    /\ index < ChunkCount(length)
    /\ Len(chunk) = ExpectedLength(length, index)

AppendChunk(frontier, subject, index, chunk) ==
    AppendHash(frontier, LeafHash(subject, index, chunk))

CanFinalize(frontier, length) ==
    /\ FrontierValid(frontier)
    /\ ChunkCountDefined(length)
    /\ frontier.next = ChunkCount(length)

FinalRoot(frontier, subject) ==
    LET count == frontier.next
        completed[n \in count .. PaddedCount(count)] ==
            IF n = count THEN frontier
            ELSE AppendHash(completed[n - 1], EmptyHash(subject, n - 1))
    IN  completed[PaddedCount(count)].hashes[PaddedLevel(count)]

-----------------------------------------------------------------------------
(* Reference: the tree itself, hashed level by level.                      *)

PaddedLeaf(subject, raw, index) ==
    IF index < ChunkCount(Len(raw)) THEN LeafHash(subject, index, RawChunk(raw, index))
                                    ELSE EmptyHash(subject, index)

\* row[l][i] is the hash of the Width[l] leaves that start at leaf i * Width[l].
Rows(subject, raw) ==
    LET row[l \in Levels] ==
            [i \in Nat |->
                IF l = 0 THEN PaddedLeaf(subject, raw, i)
                ELSE NodeHash(l, row[l - 1][2 * i], row[l - 1][2 * i + 1])]
    IN  row

Subtree(subject, raw, level, position) == Rows(subject, raw)[level][position]

TreeRoot(subject, raw) ==
    Subtree(subject, raw, PaddedLevel(ChunkCount(Len(raw))), 0)
=============================================================================
