----------------------- MODULE ProgramDataObservation -----------------------
(***************************************************************************)
(* release1_processor_observation.rs: an observation reads a ProgramData   *)
(* account over several permissionless transactions, in any order: raw     *)
(* chunks into the frontier of ObservationMerkle (the part of each behind  *)
(* the artifact must be zero), artifact chunks against the release's root, *)
(* then the finalization.  Between two steps anyone may do anything the    *)
(* loader allows, and the controller may move the gate; every step checks  *)
(* that the header and the gate are still those the observation began with.*)
(*                                                                         *)
(* Cells stand for bytes.  An artifact's root stands for the artifact: a   *)
(* chunk has a proof exactly if it is the artifact's (ArtifactMerkle).     *)
(***************************************************************************)
EXTENDS ObservationMerkle, FiniteSets

CONSTANTS
    Cells,             \* what stands for bytes
    Zero,              \* the zero cell
    MetadataLength,    \* cells of the ProgramData header, PROGRAMDATA_PAYLOAD_OFFSET_V1
    ArtifactChunkSize, \* ARTIFACT_BINDING_CHUNK_SIZE_V1
    PolicyCapacity,    \* maximum_payload_capacity of the capacity policy
    Artifacts,         \* the artifacts a caller names
    Images,            \* the payloads deployed, before the loader pads them
    Authorities,       \* upgrade authorities; "none" is an immutable program
    Purposes,          \* the purposes explored
    Gates,             \* the gate states the other instructions leave
    Minima,            \* minimum capacities a caller names
    MaxGeneration,     \* bound: generations of an observation, from 1
    MaxObservations,   \* bound: observation accounts
    MaxCapacity,       \* bound: growth of a program
    MaxSlot            \* bound: the clock

ASSUME ObservationAssumption ==
    /\ Zero \in Cells
    /\ MetadataLength \in Nat \ {0}
    /\ ArtifactChunkSize \in Nat \ {0}
    /\ PolicyCapacity \in Nat
    /\ Artifacts \subseteq Seq(Cells) \ {<<>>}
    /\ Images \subseteq Seq(Cells)
    /\ Minima \subseteq Nat
    /\ MinRawLength <= MetadataLength
    /\ MetadataLength + PolicyCapacity <= MaxRawLength

BootstrapReason == "bootstrap"
BootstrapPurposes == {"ControllerImmutability", "TargetHandoffBridge", "BootstrapActivation"}
UpgradePurposes == {"ProposalPrestate", "PostUpgrade", "Rollback"}
EmergencyPurposes == {"EmergencyResolution"}

VARIABLES
    accounts,      \* each program's payload, deployed slot and upgrade authority
    gate,          \* the protocol gate
    slot,          \* the clock
    observations   \* observation accounts, by subject digest

vars == <<accounts, gate, slot, observations>>

\* validate_observed_identity
ObservedProgram(purpose) ==
    IF purpose = "ControllerImmutability" THEN "controller" ELSE "target"

Programs == {ObservedProgram(purpose) : purpose \in Purposes}
Subjects == {"none", "proposal"}

\* What compute_programdata_observation_subject_digest_v1 commits to; with the
\* purpose and the generation, the address of the account.
Digests ==
    UNION {[program : {ObservedProgram(purpose)}, purpose : {purpose}, subject : Subjects,
            generation : 1 .. MaxGeneration, gate : Gates, artifact : Artifacts,
            minimum : Minima] : purpose \in Purposes}

\* The single-instruction observation, over the certificates issued so far.
Certified == {digest \in DOMAIN observations : observations[digest].status = "Finalized"}

Atomic == INSTANCE AtomicObservation WITH
    certificates <- [digest \in Certified |-> observations[digest].root]

-----------------------------------------------------------------------------
(* The graph and the gate *)

\* read_observed_graph, as far as the loader lets it vary.
Graph(program) ==
    [deployed |-> accounts[program].deployed,
     authority |-> accounts[program].authority,
     capacity |-> Len(accounts[program].payload)]

GraphReadable(graph) == graph.capacity <= PolicyCapacity

RawData(program) == Atomic!RawData(accounts[program])

\* validate_observation_purpose_gate, and validate_static's gate_matches_purpose.
PurposeGate(purpose, subject, g) ==
    CASE purpose \in BootstrapPurposes ->
             g.status = "EmergencyFrozen" /\ g.reason = BootstrapReason
      [] purpose \in UpgradePurposes ->
             g.status = "FrozenForUpgrade" /\ g.active = subject
      [] purpose \in EmergencyPurposes ->
             g.status = "EmergencyFrozen" /\ g.reason # BootstrapReason

\* validate_graph_fresh that overlooks the deployed slot.
GraphFreshMutant(o) ==
    LET graph == Graph(o.digest.program) IN
    /\ GraphReadable(graph)
    /\ [o.graph EXCEPT !.deployed = graph.deployed] = graph

\* validate_graph_fresh
GraphFresh(o) ==
    LET graph == Graph(o.digest.program) IN
    /\ GraphReadable(graph)
    /\ o.graph = graph
    /\ graph.capacity >= o.digest.minimum

-----------------------------------------------------------------------------
(* The record *)

RawLength(o) == MetadataLength + o.graph.capacity
ArtifactChunkCount(artifact) ==
    (Len(artifact) + ArtifactChunkSize - 1) \div ArtifactChunkSize
TailLength(o) == o.graph.capacity - Len(o.digest.artifact)

TraversalComplete(o) ==
    /\ o.frontier.next = ChunkCount(RawLength(o))
    /\ o.nextArtifact = ArtifactChunkCount(o.digest.artifact)
    /\ o.tailVerified = TailLength(o)

\* ProgramDataObservationV1::validate_static
RecordValid(o) ==
    /\ o.digest.minimum >= Len(o.digest.artifact)
    /\ o.graph.capacity >= o.digest.minimum
    /\ o.graph.deployed # 0
    /\ o.lastObserved >= o.startSlot
    /\ PurposeGate(o.digest.purpose, o.digest.subject, o.digest.gate)
    /\ o.frontier.next <= ChunkCount(RawLength(o))
    /\ o.nextArtifact <= ArtifactChunkCount(o.digest.artifact)
    /\ FrontierValid(o.frontier)
    /\ \A l \in o.frontier.occupied : o.frontier.hashes[l] # NoHash
    /\ o.tailVerified <= TailLength(o)
    /\ TraversalComplete(o) <=> o.status # "Accumulating"
    /\ IF o.status = "Finalized"
       THEN o.finalizedSlot >= o.lastObserved /\ o.root # NoHash
       ELSE o.finalizedSlot = 0 /\ o.root = NoHash

NewObservation(digest) ==
    [digest |-> digest, graph |-> Graph(digest.program),
     frontier |-> EmptyFrontier, nextArtifact |-> 0, tailVerified |-> 0,
     startSlot |-> slot, lastObserved |-> slot, finalizedSlot |-> 0,
     root |-> NoHash, status |-> "Accumulating"]

\* set_ready_if_complete, forgotten in the artifact step.
SetReadyMutant(o) ==
    IF TraversalComplete(o) /\ o.frontier.next # observations[o.digest].frontier.next
    THEN [o EXCEPT !.status = "ReadyToFinalize"] ELSE o

\* set_ready_if_complete
SetReady(o) == IF TraversalComplete(o) THEN [o EXCEPT !.status = "ReadyToFinalize"] ELSE o

-----------------------------------------------------------------------------
(* The tail *)

TailStart(o) == MetadataLength + Len(o.digest.artifact)

\* The cells of raw chunk index that lie in the tail, as offsets from zero.
TailIntersection(o, index) ==
    LET first == index * RawChunkSize IN
    {i \in first .. first + RawChunkSize - 1 : i >= TailStart(o) /\ i < RawLength(o)}

\* scan_tail_intersection one cell late: the first tail cell of a chunk is skipped.
TailZeroMutant(o, index, raw) ==
    \A i \in TailIntersection(o, index) : i - 1 \in TailIntersection(o, index) => raw[i + 1] = Zero

TailZero(o, index, raw) == \A i \in TailIntersection(o, index) : raw[i + 1] = Zero

\* scan_tail_intersection: tail cells are met in order, and are zero.
TailScanned(o, index, raw) ==
    LET part == TailIntersection(o, index) IN
    part # {} =>
        /\ TailStart(o) + o.tailVerified \in part
        /\ \A i \in part : i >= TailStart(o) + o.tailVerified
        /\ TailZero(o, index, raw)

-----------------------------------------------------------------------------
(* Instructions *)

Init ==
    /\ accounts \in [Programs -> {[payload |-> image, deployed |-> 1, authority |-> authority] :
                                      image \in Images, authority \in Authorities}]
    /\ gate \in Gates
    /\ slot = 1
    /\ observations = <<>>

\* process_begin_programdata_observation_v1
BeginProgramDataObservation(digest) ==
    /\ Cardinality(DOMAIN observations) < MaxObservations
    /\ digest \notin DOMAIN observations
    /\ digest.gate = gate
    /\ PurposeGate(digest.purpose, digest.subject, gate)
    /\ GraphReadable(Graph(digest.program))
    /\ accounts[digest.program].deployed # 0
    /\ slot > accounts[digest.program].deployed
    /\ Len(digest.artifact) <= Len(accounts[digest.program].payload)
    /\ digest.minimum <= Len(accounts[digest.program].payload)
    /\ RecordValid(NewObservation(digest))
    /\ observations' = [d \in DOMAIN observations \cup {digest} |->
                           IF d = digest THEN NewObservation(d) ELSE observations[d]]
    /\ UNCHANGED <<accounts, gate, slot>>

\* load_step_context: the account exists, is valid, and nothing it observes moved.
Loads(digest) ==
    /\ digest \in DOMAIN observations
    /\ RecordValid(observations[digest])
    /\ digest.gate = gate
    /\ GraphFresh(observations[digest])

Store(o) ==
    /\ RecordValid(o)
    /\ observations' = [observations EXCEPT ![o.digest] = o]
    /\ UNCHANGED <<accounts, gate, slot>>

\* process_append_programdata_observation_chunk_v1
AppendProgramDataObservationChunk(digest, index) ==
    LET o == observations[digest]
        raw == RawData(digest.program)
        chunk == RawChunk(raw, index)
    IN  /\ Loads(digest)
        /\ o.status = "Accumulating"
        /\ slot >= o.lastObserved
        /\ CanAppendChunk(o.frontier, RawLength(o), index, chunk)
        /\ TailScanned(o, index, raw)
        /\ Store(SetReady([o EXCEPT
               !.frontier = AppendChunk(o.frontier, digest, index, chunk),
               !.tailVerified = @ + Cardinality(TailIntersection(o, index)),
               !.lastObserved = slot]))

\* exact_artifact_chunk: the cells of an artifact chunk, out of the payload.
ArtifactChunk(cells, length, index) ==
    SubSeq(cells, index * ArtifactChunkSize + 1, Lesser((index + 1) * ArtifactChunkSize, length))

\* process_verify_observed_artifact_chunk_v1
VerifyObservedArtifactChunk(digest, index) ==
    LET o == observations[digest]
        length == Len(digest.artifact)
    IN  /\ Loads(digest)
        /\ o.status = "Accumulating"
        /\ slot >= o.lastObserved
        /\ index = o.nextArtifact
        /\ index < ArtifactChunkCount(digest.artifact)
        /\ ArtifactChunk(accounts[digest.program].payload, length, index)
               = ArtifactChunk(digest.artifact, length, index)
        /\ Store(SetReady([o EXCEPT !.nextArtifact = @ + 1, !.lastObserved = slot]))

\* finalize_observation_record_in_place
Finalized(o) ==
    [o EXCEPT !.root = FinalRoot(o.frontier, o.digest), !.finalizedSlot = slot,
              !.lastObserved = slot, !.status = "Finalized"]

\* process_finalize_programdata_observation_v1
FinalizeProgramDataObservation(digest) ==
    LET o == observations[digest] IN
    /\ Loads(digest)
    /\ o.status = "ReadyToFinalize"
    /\ slot >= o.lastObserved
    /\ CanFinalize(o.frontier, RawLength(o))
    /\ Store(Finalized(o))

-----------------------------------------------------------------------------
(* The ledger around it *)

Padded(image, capacity) ==
    [i \in 1 .. capacity |-> IF i <= Len(image) THEN image[i] ELSE Zero]

\* The loader refuses a program without authority, and to touch one twice in a slot.
Mutable(program) ==
    /\ accounts[program].authority # "none"
    /\ slot > accounts[program].deployed

\* BPF loader Upgrade: the rest of the payload is zeroed.
LoaderUpgrade(program, image) ==
    /\ Mutable(program)
    /\ Len(image) <= Len(accounts[program].payload)
    /\ accounts' = [accounts EXCEPT
           ![program].payload = Padded(image, Len(@)), ![program].deployed = slot]
    /\ UNCHANGED <<gate, slot, observations>>

\* BPF loader ExtendProgram, which anyone may call.
LoaderExtend(program) ==
    /\ Mutable(program)
    /\ Len(accounts[program].payload) < MaxCapacity
    /\ accounts' = [accounts EXCEPT
           ![program].payload = Append(@, Zero), ![program].deployed = slot]
    /\ UNCHANGED <<gate, slot, observations>>

\* BPF loader SetAuthority, which leaves the deployed slot alone.
LoaderSetAuthority(program, authority) ==
    /\ accounts[program].authority # "none"
    /\ accounts' = [accounts EXCEPT ![program].authority = authority]
    /\ UNCHANGED <<gate, slot, observations>>

\* Any other instruction of the controller that moves the gate.
MoveGate(g) ==
    /\ g.epoch >= gate.epoch
    /\ g # gate
    /\ gate' = g
    /\ UNCHANGED <<accounts, slot, observations>>

Tick ==
    /\ slot < MaxSlot
    /\ slot' = slot + 1
    /\ UNCHANGED <<accounts, gate, observations>>

-----------------------------------------------------------------------------
Step(digest) ==
    \/ \E index \in 0 .. MaxPadded - 1 : AppendProgramDataObservationChunk(digest, index)
    \/ \E index \in 0 .. MaxRawLength : VerifyObservedArtifactChunk(digest, index)
    \/ FinalizeProgramDataObservation(digest)

Ledger ==
    \/ \E program \in Programs :
           \/ \E image \in Images : LoaderUpgrade(program, image)
           \/ LoaderExtend(program)
           \/ \E authority \in Authorities : LoaderSetAuthority(program, authority)
    \/ \E g \in Gates : MoveGate(g)
    \/ Tick

Next ==
    \/ \E digest \in Digests : BeginProgramDataObservation(digest) \/ Step(digest)
    \/ Ledger

Spec == Init /\ [][Next]_vars

\* A step names no signer: whoever wants the certificate may send it.
Fairness == \A digest \in Digests : WF_vars(Step(digest))

FairSpec == Spec /\ Fairness

-----------------------------------------------------------------------------
(* Properties *)

(***************************************************************************)
(* What the consumers of an observation rely on (load_fresh_observation of *)
(* the custody and lifecycle processors compare headers, never payloads):  *)
(* while the live header is the one a finalized observation recorded, the  *)
(* payload is its artifact and zeros, and its root is the live account's;  *)
(* and what a running observation has read so far is still what is there.  *)
(***************************************************************************)
HeaderVouchesForPayload ==
    \A digest \in DOMAIN observations :
        LET o == observations[digest]
            raw == RawData(digest.program)
        IN  o.graph = Graph(digest.program) =>
                /\ o.status = "Finalized" =>
                       /\ Atomic!Holds(accounts[digest.program], digest.artifact)
                       /\ o.root = TreeRoot(digest, raw)
                /\ \A l \in o.frontier.occupied :
                       o.frontier.hashes[l] =
                           Subtree(digest, raw, l, o.frontier.next \div Width[l] - 1)

(***************************************************************************)
(* An observation of many transactions, with the program and the gate free *)
(* to change between any two of them, certifies only what one instruction  *)
(* that reads the whole account at the finalization would certify.         *)
(***************************************************************************)
ObservationIsAtomic == Atomic!AtomicSpec

Correct(digest) ==
    /\ digest \in DOMAIN observations
    /\ Atomic!Holds(accounts[digest.program], digest.artifact)
    /\ digest.gate = gate
    /\ GraphFresh(observations[digest])

(***************************************************************************)
(* An observation of a correct program is finalized by permissionless      *)
(* steps unless the program or the gate moves: no order of the raw and     *)
(* artifact steps, and no short or padded tail, leaves it unready.         *)
(***************************************************************************)
CorrectIsCertified ==
    \A digest \in Digests :
        Correct(digest) ~> digest \in Certified \/ ~Correct(digest)
=============================================================================
