-------------------------- MODULE Release1Records --------------------------
(***************************************************************************)
(* The accounts of the live Release 1 controller: configuration, council   *)
(* sets, protocol gate, trusted deployment record, upgrade proposals and   *)
(* the evidence records that hang on them, with the loaders and validators *)
(* every handler runs.                                                     *)
(*                                                                         *)
(* Identities that a program address fixes (controller, target, loader,    *)
(* authority, policy) are the same in every account and are left out.  A   *)
(* digest stands for the fields it covers, so a comparison of digests is a *)
(* comparison of records.  The "expected" fields of an instruction pin     *)
(* what its sender read: a mismatch is a refusal that changes nothing, so  *)
(* the actions below take the instruction that pins the present state.     *)
(*                                                                         *)
(* A milestone slot is kept where a later step compares it with another    *)
(* slot and the order of the steps does not settle the comparison, as the  *)
(* slot never decreases.  The others (first approval, governance           *)
(* satisfied, queued, verified, accepted, when an observation, attestation *)
(* or failure was recorded) are nonzero exactly when their step is done.   *)
(***************************************************************************)
EXTENDS Naturals, FiniteSets, Sequences

CONSTANTS
    Councils,      \* council-set versions: << [from, until, term : seat -> end slot] >>
    Threshold,     \* RELEASE1_APPROVAL_THRESHOLD
    Timing,        \* the configuration's delays: review, rollback, routine, major, expiry
    Artifacts,     \* payloads a buffer may hold: sequences of chunk contents
    Buffers,       \* loader buffers: nonzero numbers
    Plans,         \* proposal manifests
    Damage,        \* payloads the loader may leave instead of the buffer's
    Views,         \* state roots a council seat may attest
    Reasons,       \* reasons a council may cancel for
    MaxPayload,    \* maximum_payload_capacity of the capacity policy
    MaxSlot,       \* bound on the clock
    MaxEpoch,      \* bound on the gate epoch (u64::MAX - 1 in the code)
    MaxProposals,  \* bound on next_proposal_id
    MaxObservations, \* observations begun per subject, by purpose
    MaxCandidates,  \* bound on a checkpoint's generation
    MaxGeneration   \* bound on the deployment's and a verification's generation

VARIABLES
    slot,          \* Clock::slot
    config,        \* ControllerConfigV1: nonce, council
    gate,          \* ProtocolGateV1
    deployment,    \* CurrentDeploymentStateV1
    runtime,       \* the target's ProgramData account
    proposals,     \* UpgradeProposalV3, by proposal id
    buffers,       \* loader buffer accounts
    checks,        \* BufferVerificationV1, by proposal id
    observations,  \* ProgramDataObservationV1
    attestations,  \* CheckpointAttestationV1, by checkpoint, council and seat
    checkpoints,   \* StateCheckpointV2, by subject and phase
    verifications, \* ProgramDataVerificationV2, by proposal id
    failures,      \* ProgramDataFailureObservationV2, by primary id
    freezes,       \* EmergencyFreezeObservationV2, by frozen epoch
    resolutions    \* EmergencyFreezeResolutionV2, by frozen epoch and council

controller == <<config, gate, deployment>>
evidence == <<observations, attestations, checkpoints, verifications, failures>>
custody == <<runtime, buffers, checks>>
emergency == <<freezes, resolutions>>
vars == <<slot, controller, proposals, evidence, custody, emergency>>

-----------------------------------------------------------------------------
(* Vocabulary *)

None == 0
NoDigest == <<>>

PrimaryClasses == {"RoutineUpgrade", "MajorChange"}
Classes == PrimaryClasses \cup {"EmergencyRollback"}

PreFreeze ==
    {"Draft", "BufferAdopted", "BufferVerified", "CouncilApproved",
     "GovernanceSatisfied", "Timelocked"}
UnfreezeStates == {"PoststateAccepted", "UnfreezeApproved", "Completed"}
VerifiedStates == {"ProgramDataVerified"} \cup UnfreezeStates
UpgradedStates == {"UpgradeExecuted", "SupersededByRollback"} \cup VerifiedStates
FrozenOrLater == {"Frozen", "Extended"} \cup UpgradedStates
Terminal == {"Completed", "Cancelled", "Expired", "SupersededByRollback", "Retired"}

\* A function extended, or changed, at one point: an account created or stored.
Put(f, k, v) == [x \in DOMAIN f \cup {k} |-> IF x = k THEN v ELSE f[x]]

Proposed(id) == id \in 1 .. Len(proposals)

-----------------------------------------------------------------------------
(* The records *)

Slots == 0 .. MaxSlot
Seats == UNION {DOMAIN Councils[v].term : v \in DOMAIN Councils}
GateStatuses == {"Active", "FrozenForUpgrade", "EmergencyFrozen"}
Purposes == {"ProposalPrestate", "PostUpgrade", "Rollback", "EmergencyResolution"}

GateRecord ==
    [status : GateStatuses, epoch : 1 .. MaxEpoch, active : Nat, freezeSlot : Slots,
     reason : {"none", "governed", "guardian", "rollback"}, lastCompleted : Nat]

ProposalRecord ==
    [class : Classes, state : PreFreeze \cup FrozenOrLater \cup Terminal,
     nonce : Nat, council : DOMAIN Councils, gateStatus : GateStatuses,
     gateEpoch : 1 .. MaxEpoch, generation : 1 .. MaxGeneration,
     created : Slots, reviewEnd : Nat, notBefore : Nat, expiry : Nat,
     buffer : Buffers, artifact : Artifacts, minCapacity : 1 .. MaxPayload,
     primary : Nat, rollback : Nat, rollbackBuffer : {None} \cup Buffers,
     rollbackArtifact : {NoDigest} \cup Artifacts,
     approvals : SUBSET Seats, approvedAt : Slots,
     cancelCouncil : Nat, cancelApprovals : SUBSET Seats, cancelReason : {"none"} \cup Reasons,
     unfreezeCouncil : Nat, unfreezeApprovals : SUBSET Seats,
     freezeEpoch : Nat, frozenAt : Slots, extendedAt : Slots, upgradedAt : Slots,
     terminalAt : Slots]

CheckRecord ==
    [status : {"Adopted", "Verifying", "ReadyToFinalize", "Verified",
               "ConsumedByUpgrade", "ClosedAbandoned"},
     buffer : Buffers, verified : SUBSET Nat]

VerificationRecord(os) ==
    [status : {"ObservationBound", "Verified"}, epoch : 1 .. MaxEpoch, nonce : Nat,
     generation : 1 .. MaxGeneration, number : 1 .. MaxGeneration, observation : os]

FailureRecord(payloads) ==
    [generation : 1 .. MaxGeneration, epoch : 1 .. MaxEpoch, deployed : Slots,
     capacity : 1 .. MaxPayload, payload : payloads]

FreezeRecord ==
    [generation : 1 .. MaxGeneration, nonce : Nat, freezeSlot : Slots]

\* What process_create_proposal_v3 is given.
Manifest ==
    [class : Classes, buffer : Buffers, artifact : Artifacts, minCapacity : Nat,
     primary : Nat, rollback : Nat, rollbackBuffer : {None} \cup Buffers,
     rollbackArtifact : {NoDigest} \cup Artifacts]

BufferRecord == [authority : {"uploader", "controller", "closed"}, artifact : Artifacts]

Chunks == UNION {{payload[i] : i \in DOMAIN payload} : payload \in Artifacts \cup Damage}

ASSUME BoundsAssumption ==
    /\ Threshold \in Nat \ {0}
    /\ {MaxPayload, MaxSlot, MaxEpoch, MaxProposals, MaxCandidates, MaxGeneration}
          \subseteq Nat \ {0}
    /\ MaxObservations \in [Purposes -> Nat]
    /\ DOMAIN Councils \subseteq Nat \ {0}

\* validate_artifact: no payload is empty.
ASSUME PayloadAssumption ==
    /\ Artifacts \cup Damage \subseteq Seq(Chunks)
    /\ \A artifact \in Artifacts : Len(artifact) > 0
    /\ Buffers \subseteq Nat \ {0}
    /\ Plans \subseteq Manifest

-----------------------------------------------------------------------------
(* Councils *)

\* GovernanceCouncilSetV1::active_at.
ActiveAt(v, s) ==
    /\ Councils[v].from <= s
    /\ Councils[v].until = 0 \/ s < Councils[v].until

\* CouncilSeatV1::term_covers.
TermCovers(v, seat, s) ==
    seat \in DOMAIN Councils[v].term /\ s < Councils[v].term[seat]

\* load_current_council.
CouncilLoads == ActiveAt(config.council, slot)

\* A seat of the present council that may create proposals and attest.
CurrentSeat(seat) == CouncilLoads /\ TermCovers(config.council, seat, slot)

\* record_seat_approval's refusals.
MayApprove(v, approvals, seat) ==
    ActiveAt(v, slot) /\ TermCovers(v, seat, slot) /\ seat \notin approvals

\* require_exact_recorded_quorum.
RecordedQuorum(v, approvals, s) ==
    /\ Cardinality(approvals) = Threshold
    /\ ActiveAt(v, s)
    /\ \A seat \in approvals : TermCovers(v, seat, s)

-----------------------------------------------------------------------------
(* Timing *)

\* The relations ControllerConfigV1::validate_static requires of the delays: the
\* longest ordinary lifecycle, a second review and two loader slots fit before
\* expiry.  Its absolute floors are left to the instance.
TimingValid(t) ==
    /\ t.rollback <= t.routine
    /\ t.routine <= t.major
    /\ t.major < t.expiry
    /\ t.review < t.expiry
    /\ 1 + t.review + t.major + t.review + 2 < t.expiry

ASSUME TimingAssumption ==
    /\ Timing \in [review : Nat, rollback : Nat, routine : Nat, major : Nat, expiry : Nat]
    /\ TimingValid(Timing)

ClassDelay(t, class) ==
    CASE class = "EmergencyRollback" -> t.rollback
      [] class = "RoutineUpgrade" -> t.routine
      [] OTHER -> t.major

\* derive_proposal_timing.
ReviewEnd(t, created) == created + 1 + t.review
NotBefore(t, class, created) == ReviewEnd(t, created) + ClassDelay(t, class)
Expiry(t, created) == created + t.expiry
TimingDerives(t, class, created) == NotBefore(t, class, created) < Expiry(t, created)

\* verify_exact_proposal_timing: the delays in force still give the recorded slots.
TimingExact(p) ==
    /\ TimingDerives(Timing, p.class, p.created)
    /\ p.reviewEnd = ReviewEnd(Timing, p.created)
    /\ p.notBefore = NotBefore(Timing, p.class, p.created)
    /\ p.expiry = Expiry(Timing, p.created)

-----------------------------------------------------------------------------
(* The gate *)

\* A gate that reopens, or closes, under the epoch it already had.
ActiveGateMutant(g, epoch) ==
    [g EXCEPT !.status = "Active", !.active = None, !.freezeSlot = 0, !.reason = "none"]
FrozenGateMutant(g, status, epoch, id, reason) ==
    [g EXCEPT !.status = status, !.active = id, !.freezeSlot = slot, !.reason = reason]

ActiveGate(g, epoch) ==
    [g EXCEPT !.status = "Active", !.epoch = epoch, !.active = None,
              !.freezeSlot = 0, !.reason = "none"]
FrozenGate(g, status, epoch, id, reason) ==
    [g EXCEPT !.status = status, !.epoch = epoch, !.active = id,
              !.freezeSlot = slot, !.reason = reason]

\* ProtocolGateV1::validate_static.
GateValid(g) ==
    /\ g.epoch # 0
    /\ (g.status = "Active") <=> (g.freezeSlot = 0)
    /\ (g.status = "Active") <=> (g.reason = "none")
    /\ (g.status = "FrozenForUpgrade") <=> (g.active # None)

\* checked_nonterminal_increment.
NextEpoch(epoch) == epoch + 1 <= MaxEpoch
NextNumber(n) == n + 1 <= MaxGeneration

\* What an observation copies of the gate, and requires unchanged.
GateSnapshot ==
    [status |-> gate.status, epoch |-> gate.epoch, active |-> gate.active,
     freezeSlot |-> gate.freezeSlot, reason |-> gate.reason]

-----------------------------------------------------------------------------
(* The target program *)

\* read_runtime_programdata_header: the account is canonical and within policy.
RuntimeReads == runtime.deployed # 0 /\ runtime.capacity <= MaxPayload

\* require_runtime_matches_trusted_deployment: capacity may have grown.
RuntimeTrusted ==
    /\ RuntimeReads
    /\ runtime.deployed = deployment.deployed
    /\ runtime.capacity >= deployment.capacity

\* trusted_observation_expectation: the capacity is pinned.
TrustedExpectation ==
    [artifact |-> deployment.artifact, deployed |-> deployment.deployed,
     exact |-> deployment.capacity, minimum |-> Len(deployment.artifact)]

\* candidate_observation_expectation: the capacity is what is observed.
CandidateExpectation(p) ==
    [artifact |-> p.artifact, deployed |-> p.upgradedAt,
     exact |-> None, minimum |-> p.minCapacity]

\* ProgramDataObservationV1::matches_identity: what the consumer expects of it.
ExpectationMet(o, e) ==
    /\ o.artifact = e.artifact
    /\ o.minimum = e.minimum
    /\ o.deployed = e.deployed
    /\ e.exact # None => o.capacity = e.exact

\* load_fresh_programdata_observation.
FreshObservation(o, purpose, subject, e) ==
    /\ o.status = "Finalized"
    /\ o.purpose = purpose
    /\ o.subject = subject
    /\ o.gate = GateSnapshot
    /\ o.capacity <= MaxPayload
    /\ ExpectationMet(o, e)

\* The observation is not compared with the live header.
ObservationLiveMutant(o) == RuntimeReads

\* require_observation_matches_runtime.
ObservationLive(o) ==
    /\ RuntimeReads
    /\ o.deployed = runtime.deployed
    /\ o.capacity = runtime.capacity

\* A second loader operation in the slot of the first.
LoaderReadyMutant == runtime.deployed <= slot

\* The loader refuses to touch a program in the slot of its last deployment, and so
\* do the handlers that call it: a deployment slot names one payload and capacity.
LoaderReady == runtime.deployed < slot

-----------------------------------------------------------------------------
(* Upgrade proposals *)

\* validate_rollback_shape: a primary names a rollback, its buffer and its
\* artifact; a rollback names its primary and nothing else.
LinkShape(p) ==
    IF p.class = "EmergencyRollback"
    THEN p.primary # None /\ p.rollback = None /\ p.rollbackBuffer = None
    ELSE p.primary = None /\ p.rollback # None /\ p.rollbackBuffer # None

\* validate_upgrade_proposal_v3_lifecycle, conjunct by conjunct.
TerminalShape(p) ==
    /\ p.state = "Retired" => p.class = "EmergencyRollback"
    /\ p.state = "SupersededByRollback" => p.class # "EmergencyRollback"
    /\ (p.terminalAt # 0) <=> (p.state \in Terminal)
    /\ p.state = "Cancelled" => p.terminalAt < p.expiry
    /\ p.state = "Expired" => p.terminalAt >= p.expiry

FreezeShape(p) ==
    /\ (p.freezeEpoch # 0) <=> (p.state \in FrozenOrLater)
    /\ (p.frozenAt # 0) <=> (p.state \in FrozenOrLater)
    /\ p.state \in FrozenOrLater =>
          /\ p.gateEpoch < p.freezeEpoch
          /\ p.notBefore <= p.frozenAt
          /\ p.frozenAt < p.expiry

CancellationShape(p) ==
    /\ (p.cancelApprovals # {}) <=> (p.cancelReason # "none")
    /\ (p.state = "Cancelled") <=> (Cardinality(p.cancelApprovals) = Threshold)

ApprovalShape(p) ==
    /\ Cardinality(p.approvals) <= Threshold
    /\ (p.approvedAt # 0) <=> (Cardinality(p.approvals) = Threshold)
    /\ p.approvedAt # 0 => p.approvedAt <= p.reviewEnd /\ p.approvedAt < p.expiry
    /\ p.state \in {"Draft", "BufferAdopted"} => p.approvals = {}
    /\ p.state = "BufferVerified" => Cardinality(p.approvals) < Threshold
    /\ p.state \in {"CouncilApproved", "GovernanceSatisfied", "Timelocked", "Retired"}
                      \cup FrozenOrLater =>
          Cardinality(p.approvals) = Threshold

ExecutionShape(p) ==
    /\ p.state = "Extended" => p.extendedAt # 0
    /\ p.extendedAt # 0 =>
          /\ p.state \in {"Extended"} \cup UpgradedStates
          /\ p.frozenAt <= p.extendedAt
          /\ p.extendedAt < p.expiry
    /\ (p.upgradedAt # 0) <=> (p.state \in UpgradedStates)
    /\ p.upgradedAt # 0 =>
          /\ p.upgradedAt < p.expiry
          /\ p.extendedAt < p.upgradedAt
          /\ p.frozenAt <= p.upgradedAt

EvidenceShape(p) ==
    /\ p.state = "PoststateAccepted" => Cardinality(p.unfreezeApprovals) < Threshold
    /\ p.state \in {"UnfreezeApproved", "Completed"} =>
          Cardinality(p.unfreezeApprovals) = Threshold
    /\ p.state \notin UnfreezeStates => p.unfreezeApprovals = {}

\* UpgradeProposalV3::validate_schema, on every load and before every store.
ProposalValid(p) ==
    /\ LinkShape(p)
    /\ TerminalShape(p)
    /\ FreezeShape(p)
    /\ CancellationShape(p)
    /\ ApprovalShape(p)
    /\ ExecutionShape(p)
    /\ EvidenceShape(p)

\* A handler stores the proposal it has changed, if it is still valid.
Store(id, p) ==
    /\ ProposalValid(p)
    /\ proposals' = [proposals EXCEPT ![id] = p]

\* require_proposal_deployment_current.
DeploymentCurrent(p) == p.generation = deployment.generation

\* require_creation_gate.
CreationGate(p) ==
    /\ p.nonce = config.nonce
    /\ p.gateStatus = gate.status
    /\ p.gateEpoch = gate.epoch
    /\ gate.active = None
    /\ gate.status \in {"Active", "EmergencyFrozen"}

\* The gate is frozen for this proposal, whose nonce is consumed
\* (require_unfreeze_gate_binding and the checkpoint binding).
FrozenFor(id) ==
    /\ gate.status = "FrozenForUpgrade"
    /\ gate.active = id
    /\ gate.epoch = proposals[id].freezeEpoch
    /\ gate.freezeSlot = proposals[id].frozenAt
    /\ config.nonce = proposals[id].nonce + 1

\* A primary and a rollback that name each other, one another's buffer and
\* artifact, and the same nonce.
Linked(primary, rollback) ==
    /\ Proposed(primary)
    /\ Proposed(rollback)
    /\ proposals[primary].class \in PrimaryClasses
    /\ proposals[rollback].class = "EmergencyRollback"
    /\ proposals[primary].rollback = rollback
    /\ proposals[rollback].primary = primary
    /\ proposals[primary].rollbackBuffer = proposals[rollback].buffer
    /\ proposals[primary].rollbackArtifact = proposals[rollback].artifact
    /\ proposals[primary].nonce = proposals[rollback].nonce

\* load_verified_buffer_for_proposal.
BufferVerified(id) ==
    /\ id \in DOMAIN checks
    /\ checks[id].status = "Verified"
    /\ checks[id].buffer = proposals[id].buffer

\* What the checks cs say of the buffers bs: one that is being verified, or was, is
\* the controller's, and agrees with the commitment as far as it was read.
LiveChecks(cs) ==
    {id \in DOMAIN cs : cs[id].status \notin {"ConsumedByUpgrade", "ClosedAbandoned"}}
ChecksSound(ps, bs, cs) ==
    /\ \A id \in LiveChecks(cs) :
          /\ bs[ps[id].buffer].authority = "controller"
          /\ Len(bs[ps[id].buffer].artifact) = Len(ps[id].artifact)
          /\ \A chunk \in cs[id].verified :
                 chunk \in DOMAIN ps[id].artifact
                 /\ bs[ps[id].buffer].artifact[chunk] = ps[id].artifact[chunk]
          /\ cs[id].status \in {"ReadyToFinalize", "Verified"} =>
                 cs[id].verified = DOMAIN ps[id].artifact
    /\ \A id, other \in LiveChecks(cs) : ps[id].buffer = ps[other].buffer => id = other

\* The buffer is under the controller's authority and is the one that was sealed.
BufferSealed(id) ==
    /\ buffers[proposals[id].buffer].authority = "controller"
    /\ Len(buffers[proposals[id].buffer].artifact) = Len(proposals[id].artifact)
=============================================================================
