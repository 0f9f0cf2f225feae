----------------------------- MODULE Release1Model -----------------------------
(***************************************************************************)
(* upgrade_controller/src/release1_model.rs: the reference state machine   *)
(* of the Release 1 controller.  Release1Model::apply evaluates an action  *)
(* on a clone and keeps it only on success, so an action here is a guard   *)
(* and the assignments of the successful path.                             *)
(*                                                                         *)
(* A council hash stands for the seats and their terms, a hard state for   *)
(* its seven commitments and their combined root, an image for slot,       *)
(* hashes and capacity of a ProgramData account.  The identity graph never *)
(* changes and has passed its validation, so it is not a variable.  Every  *)
(* action takes the slot it runs at from the chain's clock.                *)
(***************************************************************************)
EXTENDS Integers, FiniteSets

CONSTANTS
    Seats,              \* the seat indices (five)
    THRESHOLD,          \* MODEL_ROUTINE_THRESHOLD (three)
    Delays,             \* the ModelDelays given to initialize
    FirstCouncil,       \* the council given to initialize, active at every slot of its terms
    Candidates,         \* the council sets offered to CreateCandidateCouncilSet
    Images,             \* contents a ProgramData account may show
    Authorities,        \* keys that may be its upgrade authority
    Controller,         \* graph.authority_pda
    HardStates,         \* hard states seats may attest to
    FreezeReasons,      \* reasons the guardian may give
    CancelReasons,      \* reasons a seat may give for a cancellation
    Observations,       \* what a harness may set: kind, image and authority
    Requests,           \* the class, extension and links of proposals somebody asks for
    NULL,
    U64_MAX, MaxSlot, MaxProposals, MaxEpoch,
    Mixes               \* bound: what is explored side by side, and up to which slot

BOOTSTRAP == "BOOTSTRAP_INITIALIZATION_FREEZE_REASON_V1"

GOVERNED == "MODEL_GOVERNED_FREEZE_REASON"

U64 == 0 .. U64_MAX

ProposalIds == 1 .. MaxProposals

ASSUME ModelAssumption ==
    /\ IsFiniteSet(Seats) /\ THRESHOLD \in Nat \ {0} /\ THRESHOLD <= Cardinality(Seats)
    /\ U64_MAX \in Nat /\ MaxSlot \in U64 /\ MaxProposals \in U64
    /\ Controller \in Authorities /\ NULL \notin Authorities
    /\ \A r \in {BOOTSTRAP, GOVERNED, NULL} : r \notin FreezeReasons
    /\ NULL \notin CancelReasons
    /\ MaxEpoch \in U64

-------------------------------------------------------------------------------
(* Delays *)

DelayField == {"review_slots", "rollback_slots", "routine_slots", "major_slots",
               "terminal_slots", "proposal_expiry_slots"}

\* ModelDelays::validate
DelaysValid(d) ==
    /\ \A f \in DelayField : d[f] > 0
    /\ d.rollback_slots <= d.routine_slots
    /\ d.routine_slots <= d.major_slots
    /\ d.major_slots <= d.terminal_slots
    /\ 1 + d.review_slots + d.major_slots + d.review_slots + 2 <= U64_MAX
    /\ d.proposal_expiry_slots > 1 + d.review_slots + d.major_slots + d.review_slots + 2

ASSUME DelaysAssumption ==
    Delays \in [DelayField -> U64] /\ DelaysValid(Delays)

Classes == {"EmergencyRollback", "RoutineUpgrade", "EconomicChange", "ConstitutionalChange"}

\* What callers hand over has the types of ModelCouncil and ModelProposalRequest.
ASSUME InputsAssumption ==
    /\ \A c \in {FirstCouncil} \cup Candidates : c.version \in U64 /\ c.activation_slot \in U64
    /\ \A r \in Requests :
          /\ r.class \in Classes /\ r.extension_required \in BOOLEAN
          /\ r.primary_proposal \in U64 \cup {NULL}
          /\ r.rollback_proposal \in U64 \cup {NULL}

ClassDelay(class) ==
    CASE class = "EmergencyRollback" -> Delays.rollback_slots
      [] class = "RoutineUpgrade" -> Delays.routine_slots
      [] OTHER -> Delays.major_slots

Fits(n) == n <= U64_MAX

-------------------------------------------------------------------------------
(* Councils *)

Covers(term, s) == term.start_slot <= s /\ s < term.end_slot

\* ModelCouncil::new, distinct and non-default seats being part of the hash.
CouncilValid(c) ==
    /\ c.version > 0 /\ c.activation_slot > 0
    /\ \A i \in Seats : Covers(c.terms[i], c.activation_slot)

SeatActive(c, i, s) == i \in Seats /\ s >= c.activation_slot /\ Covers(c.terms[i], s)

MaskActive(c, seats, s) == \A i \in seats : SeatActive(c, i, s)

Binding(c) == [version |-> c.version, hash |-> c.hash]

NoBinding == [version |-> 0, hash |-> NULL]

-------------------------------------------------------------------------------
(* Approval accumulators: the count is the cardinality of the bitset. *)

Pinned(c) == [binding |-> Binding(c), bitset |-> {}]

EmptyApprovals == [binding |-> NoBinding, bitset |-> {}]

Quorum(seats) == Cardinality(seats) >= THRESHOLD

\* is_complete_at returns Ok(true).
CompleteAt(acc, c, s) ==
    /\ acc.binding = Binding(c)
    /\ MaskActive(c, acc.bitset, s)
    /\ Quorum(acc.bitset)

\* A seat signs whatever its term says.
MayRecordPinnedMutant(acc, c, i, s) == acc.binding = Binding(c) /\ i \notin acc.bitset

\* record_pinned and record_current succeed.
MayRecordPinned(acc, c, i, s) ==
    acc.binding = Binding(c) /\ SeatActive(c, i, s) /\ i \notin acc.bitset

Rebound(acc, c) == IF acc.binding = Binding(c) THEN acc ELSE Pinned(c)

MayRecordCurrent(acc, c, i, s) ==
    SeatActive(c, i, s) /\ i \notin Rebound(acc, c).bitset

Recorded(acc, i) == [acc EXCEPT !.bitset = @ \cup {i}]

\* What record_seat returns: this signature completes the quorum.
Crosses(acc, i) == ~ Quorum(acc.bitset) /\ Quorum(acc.bitset \cup {i})

-------------------------------------------------------------------------------
(* Proposals *)

PreFreeze == {"Draft", "BufferAdopted", "BufferVerified", "CouncilApproved",
              "GovernanceSatisfied", "Timelocked"}

InFlight == {"Frozen", "Extended", "UpgradeExecuted", "ProgramDataVerified",
             "PoststateAccepted", "UnfreezeApproved"}

Terminal == {"Completed", "Cancelled", "Expired", "SupersededByRollback", "Retired"}

TimingFits(created, class) ==
    /\ Fits(created + 1 + Delays.review_slots + ClassDelay(class))
    /\ Fits(created + Delays.proposal_expiry_slots)
    /\ created + 1 + Delays.review_slots + ClassDelay(class)
           < created + Delays.proposal_expiry_slots

\* proposal_timing
ProposalTiming(created, class) ==
    [ creation_slot     |-> created,
      review_start_slot |-> created + 1,
      review_end_slot   |-> created + 1 + Delays.review_slots,
      not_before_slot   |-> created + 1 + Delays.review_slots + ClassDelay(class),
      expiry_slot       |-> created + Delays.proposal_expiry_slots ]

CheckpointAccepted(cp) == cp # NULL /\ cp.accepted /\ Quorum(cp.approvals.bitset)

LinkShape(r) ==
    IF r.class = "EmergencyRollback"
    THEN r.primary_proposal # NULL /\ r.rollback_proposal = NULL
    ELSE r.primary_proposal = NULL /\ r.rollback_proposal # NULL

-------------------------------------------------------------------------------
(* State *)

VARIABLES
    slot,            \* the chain's clock
    initialized,
    council,
    council_history, \* version -> council set, a function on the versions created
    programdata,     \* the expected ProgramData: image and authority
    runtime,         \* what the accounts look like now: current_guardian_runtime_observation
    authority,       \* current_programdata_authority
    next_proposal_id,
    target_nonce,
    next_candidate_council_version,
    gate,
    freeze_observations,
    proposals,
    rotations,
    resolutions

govVars == <<council, council_history, next_candidate_council_version, rotations>>
pdVars == <<programdata, runtime, authority>>
idVars == <<next_proposal_id, target_nonce>>
vars == <<slot, initialized, govVars, pdVars, idVars, gate, freeze_observations,
          proposals, resolutions>>

\* ModelGuardianProgramDataObservation::canonical: both accounts well formed, owned by
\* the loader and linked.  Any other observation is MALFORMED.
Canonical(image, a) == [image |-> image, authority |-> a]

MALFORMED == [image |-> NULL, authority |-> NULL]

\* require_controller_programdata_authority, and is_canonical_for the controller.
RuntimeCanonical == runtime = Canonical(programdata.image, Controller)

ControllerOwnsProgram == authority = Controller /\ RuntimeCanonical

GateCanonical(g) ==
    /\ g.epoch > 0
    /\ g.status = "Active" =>
           g.active_proposal = NULL /\ g.freeze_slot = 0 /\ g.freeze_reason = NULL
    /\ g.status = "FrozenForUpgrade" =>
           g.active_proposal # NULL /\ g.freeze_slot # 0 /\ g.freeze_reason # NULL
    /\ g.status = "EmergencyFrozen" =>
           g.active_proposal = NULL /\ g.freeze_slot # 0 /\ g.freeze_reason # NULL

GuardianFrozen == gate.status = "EmergencyFrozen" /\ gate.freeze_reason # BOOTSTRAP

ObservationOfGate ==
    /\ gate.epoch \in DOMAIN freeze_observations
    /\ freeze_observations[gate.epoch].freeze_slot = gate.freeze_slot
    /\ freeze_observations[gate.epoch].freeze_reason = gate.freeze_reason

\* validate_core, which every action but Initialize runs first.
ValidateCore ==
    /\ initialized
    /\ CouncilValid(council)
    /\ \A v \in DOMAIN council_history :
           council_history[v].version = v /\ CouncilValid(council_history[v])
    /\ council.version \in DOMAIN council_history
    /\ council_history[council.version] = council
    /\ GateCanonical(gate)
    /\ GuardianFrozen => ObservationOfGate
    /\ next_proposal_id > 0 /\ target_nonce > 0
    /\ next_candidate_council_version > council.version

\* The test apply_in_place makes before every action but the freeze and the observations.
Ready == ValidateCore /\ (gate.status = "Active" => RuntimeCanonical)

\* The gate reopens under the epoch of its freeze.
ActiveGateMutant(g) ==
    [g EXCEPT !.status = "Active", !.active_proposal = NULL,
              !.freeze_slot = 0, !.freeze_reason = NULL]

ActiveGate(g) ==
    [g EXCEPT !.status = "Active", !.active_proposal = NULL,
              !.freeze_slot = 0, !.freeze_reason = NULL, !.epoch = @ + 1]

Exists(p) == p \in DOMAIN proposals

Init ==
    /\ slot = 1
    /\ initialized = FALSE
    /\ council = FirstCouncil
    /\ council_history = <<>>
    /\ \E i \in Images, a \in Authorities \ {Controller} :
           /\ programdata = [image |-> i, authority |-> a]
           /\ runtime = Canonical(i, a)
           /\ authority = a
    /\ next_proposal_id = 0 /\ target_nonce = 0 /\ next_candidate_council_version = 0
    /\ gate = [status |-> "Active", epoch |-> 0, active_proposal |-> NULL, freeze_slot |-> 0,
               freeze_reason |-> NULL, last_completed |-> NULL]
    /\ freeze_observations = <<>>
    /\ proposals = <<>> /\ rotations = <<>> /\ resolutions = <<>>

-------------------------------------------------------------------------------
(* Start, and what the accounts show *)

Initialize ==
    /\ ~ initialized
    /\ programdata.authority # Controller
    /\ CouncilValid(FirstCouncil) /\ FirstCouncil.version = 1
    /\ FirstCouncil.activation_slot = slot
    /\ initialized' = TRUE
    /\ council' = FirstCouncil
    /\ council_history' = [v \in {1} |-> FirstCouncil]
    /\ next_proposal_id' = 1 /\ target_nonce' = 1 /\ next_candidate_council_version' = 2
    /\ gate' = [gate EXCEPT !.status = "EmergencyFrozen", !.epoch = 1,
                            !.freeze_slot = slot, !.freeze_reason = BOOTSTRAP]
    /\ UNCHANGED <<slot, pdVars, freeze_observations, proposals, rotations, resolutions>>

SimulatePostHandoffActivation ==
    /\ gate.status = "EmergencyFrozen" /\ gate.freeze_reason = BOOTSTRAP
    /\ Ready
    /\ programdata.authority = Controller
    /\ ControllerOwnsProgram
    /\ Fits(gate.epoch + 1)
    /\ gate' = ActiveGate(gate)
    /\ UNCHANGED <<slot, initialized, govVars, pdVars, idVars, freeze_observations,
                   proposals, resolutions>>

Observed(pd, r, a) ==
    /\ ValidateCore
    /\ programdata' = pd /\ runtime' = r /\ authority' = a
    /\ UNCHANGED <<slot, initialized, govVars, idVars, gate, freeze_observations,
                   proposals, resolutions>>

\* SetProgramDataObservation
ObserveProgramData ==
    \E o \in {x \in Observations : x.kind = "programdata"} :
        Observed([image |-> o.image, authority |-> o.authority],
                 Canonical(o.image, o.authority), o.authority)

\* SetProgramDataAuthorityObservation, None included
ObserveAuthority ==
    \E o \in {x \in Observations : x.kind = "authority"} :
        Observed(programdata, Canonical(programdata.image, o.authority), o.authority)

\* SetGuardianRuntimeObservation of accounts that do not parse
ObserveMalformed ==
    /\ \E o \in Observations : o.kind = "malformed"
    /\ Observed(programdata, MALFORMED, NULL)

-------------------------------------------------------------------------------
(* Proposal lifecycle up to the freeze *)

CreateProposal ==
    /\ Ready
    /\ gate.status = "Active" \/ GuardianFrozen
    /\ ControllerOwnsProgram
    /\ \E i \in Seats : SeatActive(council, i, slot)
    /\ next_proposal_id \in ProposalIds /\ Fits(next_proposal_id + 1)
    /\ GuardianFrozen => ObservationOfGate
    /\ \E r \in Requests :
        /\ LinkShape(r)
        /\ TimingFits(slot, r.class)
        /\ proposals' = [p \in DOMAIN proposals \cup {next_proposal_id} |->
             IF p # next_proposal_id THEN proposals[p] ELSE
             [ class |-> r.class, state |-> "Draft", target_nonce |-> target_nonce,
               creation_gate_status |-> gate.status, creation_gate_epoch |-> gate.epoch,
               creation_observation |->
                   IF GuardianFrozen THEN freeze_observations[gate.epoch] ELSE NULL,
               creation_programdata |-> programdata, freeze_gate_epoch |-> 0,
               creation_council |-> Binding(council),
               timing |-> ProposalTiming(slot, r.class),
               extension_required |-> r.extension_required,
               primary_proposal |-> r.primary_proposal,
               rollback_proposal |-> r.rollback_proposal,
               initial_approvals |-> Pinned(council),
               cancellation_approvals |-> EmptyApprovals,
               unfreeze_approvals |-> EmptyApprovals,
               prestate |-> NULL, poststate |-> NULL,
               prestate_attestations |-> {}, poststate_attestations |-> {},
               frozen_slot |-> 0, extended_slot |-> 0, upgraded_slot |-> 0,
               verified_slot |-> 0, programdata_failure |-> NULL,
               cancellation_reason |-> NULL, terminal_slot |-> 0, terminal_reason |-> NULL ]]
    /\ next_proposal_id' = next_proposal_id + 1
    /\ UNCHANGED <<slot, initialized, govVars, pdVars, target_nonce, gate,
                   freeze_observations, resolutions>>

\* require_creation_gate
CreationGate(p) ==
    /\ p.creation_gate_status = gate.status /\ p.creation_gate_epoch = gate.epoch
    /\ gate.status = "Active" \/ GuardianFrozen
    /\ gate.status = "Active" => p.creation_observation = NULL
    /\ GuardianFrozen =>
           /\ gate.epoch \in DOMAIN freeze_observations
           /\ p.creation_observation = freeze_observations[gate.epoch]
    /\ p.creation_programdata = programdata
    /\ ControllerOwnsProgram

\* The binding tests shared by every step of a candidate.
CurrentCandidate(p) == p.target_nonce = target_nonce /\ CreationGate(p)

\* pinned_initial_quorum_complete returns Ok(true).
PinnedQuorum(p) ==
    /\ p.creation_council.version \in DOMAIN council_history
    /\ p.creation_council = Binding(council_history[p.creation_council.version])
    /\ p.initial_approvals.binding = p.creation_council
    /\ Quorum(p.initial_approvals.bitset)

OnlyProposals(f) ==
    /\ proposals' = f
    /\ UNCHANGED <<slot, initialized, govVars, pdVars, idVars, gate, freeze_observations,
                   resolutions>>

Moves(id, from, to) ==
    /\ proposals[id].state = from
    /\ OnlyProposals([proposals EXCEPT ![id].state = to])

AdoptBuffer(id) ==
    Moves(id, "Draft", "BufferAdopted") /\ Ready /\ CurrentCandidate(proposals[id])

VerifyBuffer(id) ==
    Moves(id, "BufferAdopted", "BufferVerified") /\ Ready /\ CurrentCandidate(proposals[id])

ApproveProposal(id, i) ==
    LET p == proposals[id] IN
    /\ p.state = "BufferVerified"
    /\ Ready
    /\ p.timing = ProposalTiming(p.timing.creation_slot, p.class)
    /\ p.timing.review_start_slot <= slot /\ slot <= p.timing.review_end_slot
    /\ slot < p.timing.expiry_slot
    /\ CurrentCandidate(p)
    /\ p.creation_council = Binding(council)
    /\ MayRecordPinned(p.initial_approvals, council, i, slot)
    /\ OnlyProposals([proposals EXCEPT
           ![id].initial_approvals = Recorded(@, i),
           ![id].state = IF Crosses(p.initial_approvals, i) THEN "CouncilApproved" ELSE @])

\* satisfy_governance and queue_proposal differ in their states only.
Advance(id, from, to) ==
    LET p == proposals[id] IN
    /\ Moves(id, from, to)
    /\ Ready
    /\ p.timing = ProposalTiming(p.timing.creation_slot, p.class)
    /\ slot < p.timing.expiry_slot
    /\ PinnedQuorum(p)
    /\ CurrentCandidate(p)

SatisfyGovernance(id) == Advance(id, "CouncilApproved", "GovernanceSatisfied")

QueueProposal(id) == Advance(id, "GovernanceSatisfied", "Timelocked")

ApproveCancellation(id, i, reason) ==
    LET p == proposals[id]
        acc == Rebound(p.cancellation_approvals, council) IN
    /\ p.state \in PreFreeze
    /\ Ready
    /\ slot < p.timing.expiry_slot
    /\ p.cancellation_reason \in {NULL, reason}
    /\ p.terminal_reason = NULL
    /\ MayRecordCurrent(p.cancellation_approvals, council, i, slot)
    /\ OnlyProposals([proposals EXCEPT ![id] =
           IF Crosses(acc, i)
           THEN [p EXCEPT !.cancellation_approvals = Recorded(acc, i),
                          !.cancellation_reason = reason, !.state = "Cancelled",
                          !.terminal_slot = slot, !.terminal_reason = reason]
           ELSE [p EXCEPT !.cancellation_approvals = Recorded(acc, i),
                          !.cancellation_reason = reason]])

ExpireProposal(id) ==
    LET p == proposals[id] IN
    /\ p.state \in PreFreeze
    /\ Ready
    /\ slot >= p.timing.expiry_slot
    /\ OnlyProposals([proposals EXCEPT ![id].state = "Expired", ![id].terminal_slot = slot,
                                       ![id].terminal_reason = "EXPIRED"])

-------------------------------------------------------------------------------
(* Freeze, execution and verification *)

\* require_freeze_execution_runway
Runway(p) ==
    LET horizon == slot + Delays.review_slots + (IF p.extension_required THEN 2 ELSE 1) IN
    Fits(horizon) /\ horizon < p.timing.expiry_slot

\* validate_prepared_rollback
PreparedRollback(id) ==
    LET p == proposals[id]
        r == proposals[p.rollback_proposal] IN
    /\ p.rollback_proposal # NULL /\ Exists(p.rollback_proposal)
    /\ r.class = "EmergencyRollback"
    /\ r.primary_proposal = id
    /\ r.target_nonce = p.target_nonce
    /\ r.state = "Timelocked"
    /\ Fits(slot + Delays.rollback_slots)
    /\ Fits(p.timing.expiry_slot + Delays.rollback_slots)
    /\ slot + Delays.rollback_slots < r.timing.expiry_slot
    /\ r.timing.expiry_slot > p.timing.expiry_slot + Delays.rollback_slots
    /\ PinnedQuorum(r)

\* The delay is not waited out.
DueMutant(p) == slot < p.timing.expiry_slot

\* The execution window of a queued proposal.
Due(p) == p.timing.not_before_slot <= slot /\ slot < p.timing.expiry_slot

\* The part that freeze_proposal and convert_emergency_freeze share.
FreezeFrom(id, status) ==
    LET p == proposals[id] IN
    /\ p.class # "EmergencyRollback"
    /\ p.state = "Timelocked"
    /\ Ready
    /\ p.timing = ProposalTiming(p.timing.creation_slot, p.class)
    /\ Due(p)
    /\ Runway(p)
    /\ PinnedQuorum(p)
    /\ CurrentCandidate(p)
    /\ gate.status = status
    /\ PreparedRollback(id)
    \* consume_proposal_freeze
    /\ Fits(target_nonce + 1) /\ Fits(gate.epoch + 1)
    /\ target_nonce' = target_nonce + 1
    /\ gate' = [gate EXCEPT !.epoch = @ + 1, !.status = "FrozenForUpgrade",
                            !.active_proposal = id, !.freeze_slot = slot,
                            !.freeze_reason = GOVERNED]
    /\ proposals' = [proposals EXCEPT ![id].state = "Frozen", ![id].frozen_slot = slot,
                                      ![id].freeze_gate_epoch = gate.epoch + 1]
    /\ UNCHANGED <<slot, initialized, govVars, pdVars, next_proposal_id,
                   freeze_observations, resolutions>>

FreezeProposal(id) == FreezeFrom(id, "Active")

ConvertEmergencyFreeze(id) == ObservationOfGate /\ FreezeFrom(id, "EmergencyFrozen")

\* require_frozen_proposal
FrozenFor(id) ==
    /\ gate.status = "FrozenForUpgrade" /\ gate.active_proposal = id
    /\ proposals[id].freeze_gate_epoch # 0
    /\ proposals[id].freeze_gate_epoch = gate.epoch
    /\ target_nonce = proposals[id].target_nonce + 1

PhaseState(phase) == IF phase = "prestate" THEN "Frozen" ELSE "ProgramDataVerified"

Attestations(phase) == IF phase = "prestate" THEN "prestate_attestations" ELSE "poststate_attestations"

\* One attestation per council version and seat; a later one replaces it.
Attested(atts, i, epoch, h, drift) ==
    {a \in atts : ~ (a.binding.version = council.version /\ a.seat = i)}
    \cup {[binding |-> Binding(council), seat |-> i, gate_epoch |-> epoch,
           hard_state |-> h, drift |-> drift, attested_slot |-> slot]}

AttestCheckpoint(id, phase, i, h, drift) ==
    LET p == proposals[id] IN
    /\ FrozenFor(id)
    /\ p.state = PhaseState(phase) /\ p[phase] = NULL
    /\ Ready
    /\ SeatActive(council, i, slot)
    /\ OnlyProposals([proposals EXCEPT
           ![id][Attestations(phase)] = Attested(@, i, gate.epoch, h, drift)])

\* select_checkpoint_quorum returns a quorum of seats that attested to a.
QuorumAttested(atts, seats, a) ==
    /\ Cardinality(seats) = THRESHOLD
    /\ MaskActive(council, seats, slot)
    /\ \A i \in seats : \E b \in atts :
           /\ b.seat = i /\ b.binding = Binding(council) /\ b.gate_epoch = gate.epoch
           /\ b.attested_slot <= slot
           /\ b.hard_state = a.hard_state /\ b.drift = a.drift

Checkpoint(seats, a) ==
    [ gate_epoch |-> gate.epoch, hard_state |-> a.hard_state, drift |-> a.drift,
      approvals |-> [binding |-> Binding(council), bitset |-> seats],
      accepted |-> a.drift = 0, accepted_slot |-> IF a.drift = 0 THEN slot ELSE 0 ]

\* A poststate without drift has the hard state of the accepted prestate.
StateKept(p, phase, a) ==
    phase = "poststate" =>
        /\ p.prestate # NULL /\ p.prestate.accepted
        /\ a.hard_state = p.prestate.hard_state \/ a.drift # 0

FinalizeCheckpoint(id, phase, seats) ==
    LET p == proposals[id] IN
    /\ FrozenFor(id)
    /\ p.state = PhaseState(phase) /\ p[phase] = NULL
    /\ Ready
    /\ \E a \in p[Attestations(phase)] :
        /\ a.seat \in seats
        /\ QuorumAttested(p[Attestations(phase)], seats, a)
        /\ StateKept(p, phase, a)
        /\ OnlyProposals([proposals EXCEPT
               ![id][phase] = Checkpoint(seats, a),
               ![id].state = IF phase = "poststate" /\ a.drift = 0
                             THEN "PoststateAccepted" ELSE @])

ExtendTarget(id) ==
    LET p == proposals[id] IN
    /\ FrozenFor(id) /\ Ready /\ ControllerOwnsProgram
    /\ p.state = "Frozen" /\ p.extension_required
    /\ CheckpointAccepted(p.prestate)
    /\ p.frozen_slot <= slot /\ slot < p.timing.expiry_slot
    /\ OnlyProposals([proposals EXCEPT ![id].state = "Extended", ![id].extended_slot = slot])

\* The checkpoint window of the rollback is not reserved.
RollbackRunwayMutant(p) ==
    LET r == proposals[p.rollback_proposal] IN
    /\ slot >= r.timing.not_before_slot
    /\ slot + Delays.rollback_slots + 1 < r.timing.expiry_slot

\* require_primary_execution_rollback_runway
RollbackRunway(p) ==
    LET r == proposals[p.rollback_proposal]
        horizon == slot + Delays.rollback_slots + Delays.review_slots + 1 IN
    Fits(horizon) /\ slot >= r.timing.not_before_slot /\ horizon < r.timing.expiry_slot

ExecuteUpgrade(id) ==
    LET p == proposals[id] IN
    /\ FrozenFor(id) /\ Ready /\ ControllerOwnsProgram
    /\ IF p.extension_required
       THEN p.state = "Extended" /\ p.extended_slot # 0 /\ slot > p.extended_slot
       ELSE p.state = "Frozen"
    /\ CheckpointAccepted(p.prestate)
    /\ slot < p.timing.expiry_slot
    /\ p.class # "EmergencyRollback" => PreparedRollback(id) /\ RollbackRunway(p)
    /\ OnlyProposals([proposals EXCEPT ![id].state = "UpgradeExecuted", ![id].upgraded_slot = slot])

VerifyProgramData(id) ==
    LET p == proposals[id] IN
    /\ FrozenFor(id) /\ Ready /\ ControllerOwnsProgram
    /\ p.state = "UpgradeExecuted" /\ p.upgraded_slot # 0 /\ slot >= p.upgraded_slot
    /\ p.programdata_failure = NULL
    /\ OnlyProposals([proposals EXCEPT ![id].state = "ProgramDataVerified",
                                       ![id].verified_slot = slot])

RecordProgramDataFailure(id) ==
    LET p == proposals[id] IN
    /\ FrozenFor(id) /\ Ready
    /\ p.class # "EmergencyRollback"
    /\ p.state = "UpgradeExecuted" /\ p.upgraded_slot # 0 /\ slot >= p.upgraded_slot
    /\ p.programdata_failure = NULL
    /\ OnlyProposals([proposals EXCEPT ![id].programdata_failure =
           [gate_epoch |-> gate.epoch, observed_slot |-> slot, programdata |-> programdata]])

-------------------------------------------------------------------------------
(* Rollback and unfreeze *)

\* The evidence that opens the rollback path.
FailedPrimary(p) ==
    \/ /\ p.state = "UpgradeExecuted" /\ p.programdata_failure # NULL
       /\ p.programdata_failure.gate_epoch = gate.epoch
       /\ p.upgraded_slot <= p.programdata_failure.observed_slot
       /\ p.programdata_failure.observed_slot <= slot
       /\ p.programdata_failure.programdata = programdata
    \/ /\ p.state = "ProgramDataVerified"
       /\ p.prestate # NULL /\ p.poststate # NULL
       /\ p.prestate.accepted /\ ~ p.poststate.accepted
       /\ p.prestate.gate_epoch = gate.epoch /\ p.poststate.gate_epoch = gate.epoch
       /\ p.prestate.hard_state # p.poststate.hard_state \/ p.poststate.drift # 0
       /\ CompleteAt(p.poststate.approvals, council, slot)

ActivateRollback(id, rid) ==
    LET p == proposals[id]
        r == proposals[rid] IN
    /\ FrozenFor(id) /\ Ready
    /\ r.state = "Timelocked" /\ r.class = "EmergencyRollback"
    /\ p.rollback_proposal = rid /\ r.primary_proposal = id
    /\ r.target_nonce = p.target_nonce
    /\ slot < r.timing.expiry_slot
    /\ Runway(r)
    /\ p.upgraded_slot # 0
    /\ Fits(p.upgraded_slot + Delays.rollback_slots)
    /\ slot >= r.timing.not_before_slot /\ slot >= p.upgraded_slot + Delays.rollback_slots
    /\ FailedPrimary(p)
    /\ Fits(gate.epoch + 1)
    /\ gate' = [gate EXCEPT !.epoch = @ + 1, !.active_proposal = rid,
                            !.freeze_slot = slot, !.freeze_reason = GOVERNED]
    /\ proposals' = [proposals EXCEPT ![rid].state = "Frozen", ![rid].frozen_slot = slot,
                                      ![rid].freeze_gate_epoch = gate.epoch + 1]
    /\ UNCHANGED <<slot, initialized, govVars, pdVars, idVars, freeze_observations, resolutions>>

ApproveUnfreeze(id, i) ==
    LET p == proposals[id]
        acc == Rebound(p.unfreeze_approvals, council) IN
    /\ FrozenFor(id) /\ Ready
    /\ \/ p.state = "PoststateAccepted"
       \/ p.state = "UnfreezeApproved" /\ p.unfreeze_approvals.binding # Binding(council)
    /\ CheckpointAccepted(p.poststate)
    /\ MayRecordCurrent(p.unfreeze_approvals, council, i, slot)
    /\ OnlyProposals([proposals EXCEPT
           ![id].unfreeze_approvals = Recorded(acc, i),
           ![id].state = IF Crosses(acc, i) THEN "UnfreezeApproved" ELSE "PoststateAccepted"])

Settled(p, state, reason) ==
    [p EXCEPT !.state = state, !.terminal_slot = slot, !.terminal_reason = reason]

ExecuteUnfreeze(id) ==
    LET p == proposals[id]
        other == IF p.class = "EmergencyRollback" THEN p.primary_proposal
                 ELSE p.rollback_proposal IN
    /\ FrozenFor(id) /\ Ready /\ ControllerOwnsProgram
    /\ p.state = "UnfreezeApproved"
    /\ CheckpointAccepted(p.poststate)
    /\ CompleteAt(p.unfreeze_approvals, council, slot)
    /\ Fits(gate.epoch + 1)
    /\ other # NULL /\ Exists(other)
    /\ p.class # "EmergencyRollback" => proposals[other].state = "Timelocked"
    /\ gate' = [ActiveGate(gate) EXCEPT !.last_completed = id]
    /\ proposals' = [proposals EXCEPT
           ![id] = Settled(@, "Completed", "COMPLETED"),
           ![other] = IF p.class = "EmergencyRollback"
                      THEN Settled(@, "SupersededByRollback", "SUPERSEDED_BY_ROLLBACK")
                      ELSE Settled(@, "Retired", "RETIRED_ROLLBACK")]
    /\ UNCHANGED <<slot, initialized, govVars, pdVars, idVars, freeze_observations, resolutions>>

-------------------------------------------------------------------------------
(* Guardian freeze and its resolution *)

GuardianFreeze(reason) ==
    /\ ValidateCore
    /\ gate.status = "Active"
    /\ Fits(gate.epoch + 1) /\ gate.epoch < MaxEpoch
    /\ gate.epoch + 1 \notin DOMAIN freeze_observations
    /\ freeze_observations' =
           [e \in DOMAIN freeze_observations \cup {gate.epoch + 1} |->
               IF e \in DOMAIN freeze_observations THEN freeze_observations[e]
               ELSE [freeze_slot |-> slot, freeze_reason |-> reason, programdata |-> runtime]]
    /\ gate' = [gate EXCEPT !.epoch = @ + 1, !.status = "EmergencyFrozen",
                            !.freeze_slot = slot, !.freeze_reason = reason]
    /\ UNCHANGED <<slot, initialized, govVars, pdVars, idVars, proposals, resolutions>>

CreateEmergencyResolution ==
    LET o == freeze_observations[gate.epoch] IN
    /\ GuardianFrozen
    /\ Ready
    /\ ObservationOfGate
    /\ gate.epoch \notin DOMAIN resolutions
    /\ Fits(o.freeze_slot + Delays.proposal_expiry_slots)
    /\ o.freeze_slot + Delays.routine_slots < o.freeze_slot + Delays.proposal_expiry_slots
    /\ o.freeze_slot <= slot /\ slot < o.freeze_slot + Delays.proposal_expiry_slots
    /\ resolutions' = [e \in DOMAIN resolutions \cup {gate.epoch} |->
           IF e \in DOMAIN resolutions THEN resolutions[e] ELSE
           [ state |-> "Draft", freeze_slot |-> gate.freeze_slot,
             freeze_reason |-> gate.freeze_reason, target_nonce |-> target_nonce,
             not_before_slot |-> o.freeze_slot + Delays.routine_slots,
             expiry_slot |-> o.freeze_slot + Delays.proposal_expiry_slots,
             observed_programdata |-> o.programdata, approvals |-> EmptyApprovals,
             checkpoint |-> NULL, attestations |-> {}, executed_slot |-> 0 ]]
    /\ UNCHANGED <<slot, initialized, govVars, pdVars, idVars, gate, freeze_observations, proposals>>

\* require_emergency_binding, but for the expiry test.
EmergencyBinding(e) ==
    LET r == resolutions[e] IN
    /\ e \in DOMAIN freeze_observations
    /\ GuardianFrozen /\ gate.epoch = e
    /\ gate.freeze_slot = r.freeze_slot /\ gate.freeze_reason = r.freeze_reason
    /\ target_nonce = r.target_nonce
    /\ freeze_observations[e] = [freeze_slot |-> r.freeze_slot,
                                 freeze_reason |-> r.freeze_reason,
                                 programdata |-> r.observed_programdata]

Resolvable(e) ==
    /\ resolutions[e].not_before_slot <= slot /\ slot < resolutions[e].expiry_slot
    /\ Ready /\ EmergencyBinding(e)

OnlyResolutions(f) ==
    /\ resolutions' = f
    /\ UNCHANGED <<slot, initialized, govVars, pdVars, idVars, gate, freeze_observations,
                   proposals>>

ApproveEmergencyResolution(e, i) ==
    LET r == resolutions[e]
        acc == Rebound(r.approvals, council) IN
    /\ Resolvable(e)
    /\ \/ r.state = "Draft"
       \/ r.approvals.binding # Binding(council) /\ r.state \in {"CouncilApproved", "Timelocked"}
    /\ MayRecordCurrent(r.approvals, council, i, slot)
    /\ OnlyResolutions([resolutions EXCEPT
           ![e].approvals = Recorded(acc, i),
           ![e].state = IF Crosses(acc, i) THEN "CouncilApproved" ELSE "Draft"])

QueueEmergencyResolution(e) ==
    /\ Resolvable(e)
    /\ resolutions[e].state = "CouncilApproved"
    /\ CompleteAt(resolutions[e].approvals, council, slot)
    /\ OnlyResolutions([resolutions EXCEPT ![e].state = "Timelocked"])

AttestEmergencyCheckpoint(e, i, h, drift) ==
    /\ Resolvable(e)
    /\ SeatActive(council, i, slot)
    /\ resolutions[e].state = "Timelocked" /\ resolutions[e].checkpoint = NULL
    /\ OnlyResolutions([resolutions EXCEPT ![e].attestations = Attested(@, i, e, h, drift)])

FinalizeEmergencyCheckpoint(e, seats) ==
    LET r == resolutions[e] IN
    /\ Resolvable(e)
    /\ r.state = "Timelocked" /\ r.checkpoint = NULL
    /\ \E a \in r.attestations :
        /\ a.seat \in seats
        /\ QuorumAttested(r.attestations, seats, a)
        /\ OnlyResolutions([resolutions EXCEPT ![e].checkpoint = Checkpoint(seats, a)])

ExecuteEmergencyResume(e) ==
    LET r == resolutions[e] IN
    /\ Resolvable(e)
    /\ r.state = "Timelocked"
    /\ CompleteAt(r.approvals, council, slot)
    /\ CheckpointAccepted(r.checkpoint) /\ slot >= r.checkpoint.accepted_slot
    /\ r.observed_programdata = runtime /\ RuntimeCanonical
    /\ Fits(gate.epoch + 1)
    /\ gate' = ActiveGate(gate)
    /\ resolutions' = [resolutions EXCEPT ![e].state = "Executed", ![e].executed_slot = slot]
    /\ UNCHANGED <<slot, initialized, govVars, pdVars, idVars, freeze_observations, proposals>>

ExpireEmergencyResolution(e) ==
    /\ Ready /\ EmergencyBinding(e)
    /\ resolutions[e].state \in {"Draft", "CouncilApproved", "Timelocked"}
    /\ slot >= resolutions[e].expiry_slot
    /\ OnlyResolutions([resolutions EXCEPT ![e].state = "Expired"])

-------------------------------------------------------------------------------
(* Council rotation *)

OnlyCouncil ==
    UNCHANGED <<slot, initialized, pdVars, idVars, gate, freeze_observations, proposals,
                resolutions>>

CreateCandidateCouncilSet(c) ==
    /\ c.version > council.version
    /\ Ready
    /\ Fits(slot + Delays.major_slots)
    /\ c.activation_slot >= slot + Delays.major_slots
    /\ CouncilValid(c)
    /\ c.version \notin DOMAIN council_history
    /\ Fits(c.version + 1)
    /\ council_history' = [v \in DOMAIN council_history \cup {c.version} |->
                              IF v = c.version THEN c ELSE council_history[v]]
    /\ next_candidate_council_version' =
           IF next_candidate_council_version > c.version
           THEN next_candidate_council_version ELSE c.version + 1
    /\ UNCHANGED <<council, rotations>> /\ OnlyCouncil

CreateCouncilRotation(v) ==
    LET c == council_history[v] IN
    /\ v > council.version
    /\ Ready
    /\ v \notin DOMAIN rotations
    /\ Fits(slot + Delays.major_slots) /\ Fits(slot + Delays.proposal_expiry_slots)
    /\ slot + Delays.major_slots <= c.activation_slot
    /\ c.activation_slot < slot + Delays.proposal_expiry_slots
    /\ rotations' = [w \in DOMAIN rotations \cup {v} |->
           IF w # v THEN rotations[w] ELSE
           [ state |-> "Draft", current |-> Binding(council), candidate |-> c,
             target_nonce |-> target_nonce, creation_slot |-> slot,
             not_before_slot |-> c.activation_slot,
             expiry_slot |-> slot + Delays.proposal_expiry_slots,
             approvals |-> Pinned(council), cancellation_approvals |-> EmptyApprovals,
             cancellation_reason |-> NULL, terminal_slot |-> 0 ]]
    /\ UNCHANGED <<council, council_history, next_candidate_council_version>> /\ OnlyCouncil

OnlyRotations(f) ==
    /\ rotations' = f
    /\ UNCHANGED <<council, council_history, next_candidate_council_version>>
    /\ OnlyCouncil

PendingRotation == {"Draft", "CouncilApproved", "Timelocked"}

\* The binding tests of approve, queue and cancel.
RotationCurrent(q) ==
    /\ q.current = Binding(council) /\ q.target_nonce = target_nonce
    /\ q.creation_slot <= slot /\ slot < q.expiry_slot

ApproveCouncilRotation(v, i) ==
    LET q == rotations[v] IN
    /\ q.state = "Draft"
    /\ Ready /\ RotationCurrent(q)
    /\ MayRecordPinned(q.approvals, council, i, slot)
    /\ OnlyRotations([rotations EXCEPT
           ![v].approvals = Recorded(@, i),
           ![v].state = IF Crosses(q.approvals, i) THEN "CouncilApproved" ELSE @])

QueueCouncilRotation(v) ==
    LET q == rotations[v] IN
    /\ q.state = "CouncilApproved"
    /\ Ready /\ RotationCurrent(q)
    /\ CompleteAt(q.approvals, council, slot)
    /\ OnlyRotations([rotations EXCEPT ![v].state = "Timelocked"])

ApproveCouncilRotationCancellation(v, i, reason) ==
    LET q == rotations[v]
        acc == Rebound(q.cancellation_approvals, council) IN
    /\ q.state \in PendingRotation
    /\ Ready /\ RotationCurrent(q)
    /\ q.cancellation_reason \in {NULL, reason}
    /\ MayRecordCurrent(q.cancellation_approvals, council, i, slot)
    /\ OnlyRotations([rotations EXCEPT
           ![v].cancellation_approvals = Recorded(acc, i),
           ![v].cancellation_reason = reason,
           ![v].state = IF Crosses(acc, i) THEN "Cancelled" ELSE @,
           ![v].terminal_slot = IF Crosses(acc, i) THEN slot ELSE @])

ExpireCouncilRotation(v) ==
    /\ rotations[v].state \in PendingRotation
    /\ Ready
    /\ slot >= rotations[v].expiry_slot
    /\ OnlyRotations([rotations EXCEPT ![v].state = "Expired", ![v].terminal_slot = slot])

ActivateCouncilRotation(v) ==
    LET q == rotations[v] IN
    /\ q.state = "Timelocked"
    /\ Ready
    /\ q.not_before_slot <= slot /\ slot < q.expiry_slot
    /\ q.current = Binding(council) /\ q.target_nonce = target_nonce
    /\ v = q.candidate.version /\ council_history[v] = q.candidate
    /\ CompleteAt(q.approvals, council, slot)
    /\ MaskActive(q.candidate, Seats, slot)
    /\ council' = q.candidate
    /\ rotations' = [rotations EXCEPT ![v].state = "Activated", ![v].terminal_slot = slot]
    /\ UNCHANGED <<council_history, next_candidate_council_version>> /\ OnlyCouncil

-------------------------------------------------------------------------------

Tick ==
    /\ slot < MaxSlot
    /\ slot' = slot + 1
    /\ UNCHANGED <<initialized, govVars, pdVars, idVars, gate, freeze_observations,
                   proposals, resolutions>>

\* Bound: the activities that have begun, and the mixes of them that are explored.
Cancelling ==
    \/ \E id \in DOMAIN proposals : proposals[id].cancellation_approvals.bitset # {}
    \/ \E v \in DOMAIN rotations : rotations[v].cancellation_approvals.bitset # {}

Begun ==
    {kind \in {"proposals", "freezes", "councils", "cancellations"} :
        CASE kind = "proposals" -> DOMAIN proposals # {}
          [] kind = "freezes" -> DOMAIN freeze_observations # {}
          [] kind = "councils" -> Cardinality(DOMAIN council_history) > 1
          [] OTHER -> Cancelling}

Explored(kinds) ==
    \E mix \in Mixes : Begun \cup kinds \subseteq mix.kinds /\ slot < mix.last

\* The accounts change at the hand-over, and in the mixes that say so.
Drifts == gate.freeze_reason = BOOTSTRAP \/ (Begun # {} /\ Explored({"drift"}))

ProposalStep(id) ==
    \/ AdoptBuffer(id) \/ VerifyBuffer(id)
    \/ \E i \in Seats : ApproveProposal(id, i) \/ ApproveUnfreeze(id, i)
    \/ SatisfyGovernance(id) \/ QueueProposal(id)
    \/ Explored({"cancellations"}) /\
          \E i \in Seats, reason \in CancelReasons : ApproveCancellation(id, i, reason)
    \/ ExpireProposal(id)
    \/ FreezeProposal(id) \/ ConvertEmergencyFreeze(id)
    \/ \E phase \in {"prestate", "poststate"} :
          \/ \E i \in Seats, h \in HardStates, drift \in {0, 1} :
                AttestCheckpoint(id, phase, i, h, drift)
          \/ \E seats \in SUBSET Seats : FinalizeCheckpoint(id, phase, seats)
    \/ ExtendTarget(id) \/ ExecuteUpgrade(id)
    \/ VerifyProgramData(id) \/ RecordProgramDataFailure(id)
    \/ \E rid \in DOMAIN proposals : ActivateRollback(id, rid)
    \/ ExecuteUnfreeze(id)

EmergencyStep ==
    \/ Explored({"freezes"}) /\ \E reason \in FreezeReasons : GuardianFreeze(reason)
    \/ CreateEmergencyResolution
    \/ \E e \in DOMAIN resolutions :
          \/ \E i \in Seats : ApproveEmergencyResolution(e, i)
          \/ QueueEmergencyResolution(e)
          \/ \E i \in Seats, h \in HardStates, drift \in {0, 1} :
                AttestEmergencyCheckpoint(e, i, h, drift)
          \/ \E seats \in SUBSET Seats : FinalizeEmergencyCheckpoint(e, seats)
          \/ ExecuteEmergencyResume(e)
          \/ ExpireEmergencyResolution(e)

CouncilStep ==
    \/ Explored({"councils"}) /\ \E c \in Candidates : CreateCandidateCouncilSet(c)
    \/ \E v \in DOMAIN council_history : CreateCouncilRotation(v)
    \/ \E v \in DOMAIN rotations :
          \/ \E i \in Seats : ApproveCouncilRotation(v, i)
          \/ Explored({"cancellations"}) /\
                \E i \in Seats, reason \in CancelReasons :
                   ApproveCouncilRotationCancellation(v, i, reason)
          \/ QueueCouncilRotation(v)
          \/ ExpireCouncilRotation(v)
          \/ ActivateCouncilRotation(v)

Next ==
    \/ Initialize \/ SimulatePostHandoffActivation
    \/ Drifts /\ ObserveProgramData
    \/ Drifts /\ ObserveAuthority
    \/ Drifts /\ ObserveMalformed
    \/ Explored({"proposals"}) /\ CreateProposal
    \/ \E id \in DOMAIN proposals : ProposalStep(id)
    \/ EmergencyStep
    \/ CouncilStep
    \/ Explored({}) /\ Tick

Spec == Init /\ [][Next]_vars

-------------------------------------------------------------------------------
(* Properties *)

\* When execute_upgrade replaces a primary's code, a slot remains at which its rollback,
\* approved beforehand and needing no extension, can be activated with the whole checkpoint
\* window ahead of it: the runway arithmetic of freeze, execution and activation fits.
RollbackWindowOpen ==
    \A id \in DOMAIN proposals :
        LET p == proposals[id]
            r == proposals[p.rollback_proposal]
            first == IF r.timing.not_before_slot > p.upgraded_slot + Delays.rollback_slots
                     THEN r.timing.not_before_slot
                     ELSE p.upgraded_slot + Delays.rollback_slots IN
        p.class # "EmergencyRollback" /\ p.upgraded_slot # 0 =>
            first + Delays.review_slots + 1 < r.timing.expiry_slot

\* When execute_upgrade replaces code, the proposal was approved by a quorum of the council
\* it was created under, as that council was registered, and each seat of the quorum was
\* in office at a slot of the review window, whatever became of it and of the council since;
\* the delay was waited out before users were locked out; and the
\* freeze consumed the nonce the proposal was created under.
UpgradeWasDecided ==
    [][ \A id \in DOMAIN proposals :
          proposals'[id].upgraded_slot # proposals[id].upgraded_slot =>
            LET p == proposals[id]
                c == council_history[p.creation_council.version]
                t == p.timing IN
            /\ p.creation_council.version \in DOMAIN council_history
            /\ p.creation_council = Binding(c)
            /\ p.initial_approvals.binding = p.creation_council
            /\ Quorum(p.initial_approvals.bitset)
            /\ \A i \in p.initial_approvals.bitset :
                  \E s \in t.review_start_slot .. t.review_end_slot : SeatActive(c, i, s)
            /\ t.not_before_slot <= p.frozen_slot
            /\ p.target_nonce + 1 = target_nonce ]_vars

================================================================================
