------------------------- MODULE Release1Lifecycle -------------------------
(***************************************************************************)
(* release1_processor_v3_lifecycle: proposals up to the freeze, guardian   *)
(* freeze and emergency resolution, state checkpoints, and unfreeze.       *)
(***************************************************************************)
EXTENDS Release1Records

-----------------------------------------------------------------------------
(* Proposals before the freeze *)

\* The record process_create_proposal_v3 writes for the manifest m.
NewProposal(m) ==
    [class |-> m.class, state |-> "Draft", nonce |-> config.nonce,
     council |-> config.council, gateStatus |-> gate.status,
     gateEpoch |-> gate.epoch, generation |-> deployment.generation,
     created |-> slot, reviewEnd |-> ReviewEnd(Timing, slot),
     notBefore |-> NotBefore(Timing, m.class, slot),
     expiry |-> Expiry(Timing, slot),
     buffer |-> m.buffer, artifact |-> m.artifact, minCapacity |-> m.minCapacity,
     primary |-> m.primary, rollback |-> m.rollback,
     rollbackBuffer |-> m.rollbackBuffer, rollbackArtifact |-> m.rollbackArtifact,
     approvals |-> {}, approvedAt |-> 0,
     cancelCouncil |-> None, cancelApprovals |-> {}, cancelReason |-> "none",
     unfreezeCouncil |-> None, unfreezeApprovals |-> {},
     freezeEpoch |-> 0, frozenAt |-> 0, extendedAt |-> 0, upgradedAt |-> 0,
     terminalAt |-> 0]

\* The manifest names a buffer its uploader still holds, of the artifact's size.
ManifestReady(m) ==
    /\ TimingDerives(Timing, m.class, slot)
    /\ Len(m.artifact) <= m.minCapacity
    /\ m.minCapacity <= MaxPayload
    /\ buffers[m.buffer].authority = "uploader"
    /\ Len(buffers[m.buffer].artifact) = Len(m.artifact)

\* process_create_proposal_v3, by a seat of the present council.
CreateProposal(seat, m) ==
    /\ Len(proposals) < MaxProposals
    /\ CurrentSeat(seat)
    /\ gate.status \in {"Active", "EmergencyFrozen"}
    /\ gate.active = None
    /\ RuntimeTrusted
    /\ ManifestReady(m)
    /\ ProposalValid(NewProposal(m))
    /\ proposals' = Append(proposals, NewProposal(m))
    /\ UNCHANGED <<slot, controller, evidence, custody, emergency>>

\* The record after one more approval; at the threshold the council has approved.
ApprovedProposal(p, seat) ==
    LET approvals == p.approvals \cup {seat} IN
    IF Cardinality(approvals) = Threshold
    THEN [p EXCEPT !.approvals = approvals, !.state = "CouncilApproved",
                   !.approvedAt = slot]
    ELSE [p EXCEPT !.approvals = approvals]

ApproveReady(id, seat) ==
    LET p == proposals[id] IN
    /\ p.state = "BufferVerified"
    /\ p.council = config.council
    /\ CreationGate(p)
    /\ DeploymentCurrent(p)
    /\ p.created + 1 <= slot
    /\ slot <= p.reviewEnd
    /\ slot < p.expiry
    /\ BufferVerified(id)
    /\ MayApprove(p.council, p.approvals, seat)

\* process_approve_proposal_v3.
ApproveProposal(id, seat) ==
    /\ Proposed(id)
    /\ ApproveReady(id, seat)
    /\ Store(id, ApprovedProposal(proposals[id], seat))
    /\ UNCHANGED <<slot, controller, evidence, custody, emergency>>

\* process_finalize_governance_v3, by anyone.
FinalizeGovernance(id) ==
    /\ Proposed(id)
    /\ proposals[id].state = "CouncilApproved"
    /\ ActiveAt(proposals[id].council, slot)
    /\ DeploymentCurrent(proposals[id])
    /\ CreationGate(proposals[id])
    /\ slot < proposals[id].expiry
    /\ RecordedQuorum(proposals[id].council, proposals[id].approvals,
                      proposals[id].approvedAt)
    /\ Store(id, [proposals[id] EXCEPT !.state = "GovernanceSatisfied"])
    /\ UNCHANGED <<slot, controller, evidence, custody, emergency>>

\* process_queue_proposal_v3, by anyone.
QueueProposal(id) ==
    /\ Proposed(id)
    /\ proposals[id].state = "GovernanceSatisfied"
    /\ DeploymentCurrent(proposals[id])
    /\ CreationGate(proposals[id])
    /\ TimingExact(proposals[id])
    /\ slot < proposals[id].expiry
    /\ Store(id, [proposals[id] EXCEPT !.state = "Timelocked"])
    /\ UNCHANGED <<slot, controller, evidence, custody, emergency>>

\* require_freeze_execution_runway: a review and the loader's slots fit before
\* expiry.
FreezeRunway(p) ==
    LET execution == IF runtime.capacity < p.minCapacity THEN 2 ELSE 1
    IN  slot + Timing.review + execution < p.expiry

\* validate_prepared_rollback_v3: the rollback is queued, sealed, of the same
\* council and deployment, and outlives its primary by the rollback delay.
RollbackPrepared(id) ==
    LET p == proposals[id]
        r == proposals[p.rollback]
    IN  /\ Linked(id, p.rollback)
        /\ r.state = "Timelocked"
        /\ r.generation = p.generation
        /\ r.council = p.council
        /\ TimingExact(r)
        /\ BufferVerified(p.rollback)
        /\ BufferSealed(p.rollback)
        /\ slot + Timing.rollback < r.expiry
        /\ p.expiry + Timing.rollback < r.expiry

\* A decided primary in its window, under the gate it was created for.
FreezeDue(p) ==
    /\ p.state = "Timelocked"
    /\ p.class # "EmergencyRollback"
    /\ ActiveAt(p.council, slot)
    /\ DeploymentCurrent(p)
    /\ CreationGate(p)
    /\ TimingExact(p)
    /\ p.notBefore <= slot
    /\ slot < p.expiry
    /\ RecordedQuorum(p.council, p.approvals, p.approvedAt)

\* The nonce is consumed and the gate closes for the proposal, in one commit.
CloseGateFor(id) ==
    /\ config' = [config EXCEPT !.nonce = @ + 1]
    /\ gate' = FrozenGate(gate, "FrozenForUpgrade", gate.epoch + 1, id, "governed")
    /\ GateValid(gate')

\* process_freeze_proposal_v3, by anyone: the nonce is consumed, the gate closes
\* under a new epoch for this proposal.
FreezeProposal(id) ==
    /\ Proposed(id)
    /\ LET p == proposals[id] IN
       /\ FreezeDue(p)
       /\ RuntimeTrusted
       /\ FreezeRunway(p)
       /\ RollbackPrepared(id)
       /\ NextEpoch(gate.epoch)
       /\ Store(id, [p EXCEPT !.state = "Frozen", !.freezeEpoch = gate.epoch + 1,
                              !.frozenAt = slot])
    /\ CloseGateFor(id)
    /\ UNCHANGED <<slot, deployment, evidence, custody, emergency>>

\* A cancellation counts votes of one council: votes of a replaced council are
\* dropped, and the first vote fixes the reason.
CancelledProposal(p, seat, reason) ==
    LET stale == p.cancelApprovals # {} /\ p.cancelCouncil # config.council
        votes == (IF stale THEN {} ELSE p.cancelApprovals) \cup {seat}
        q == [p EXCEPT !.cancelCouncil = config.council, !.cancelApprovals = votes,
                       !.cancelReason = reason]
    IN  IF Cardinality(votes) = Threshold
        THEN [q EXCEPT !.state = "Cancelled", !.terminalAt = slot]
        ELSE q

CancelReady(id, seat, reason) ==
    LET p == proposals[id]
        counted == IF p.cancelCouncil = config.council THEN p.cancelApprovals ELSE {}
    IN  /\ p.state \in PreFreeze
        /\ slot < p.expiry
        /\ CouncilLoads
        /\ counted # {} => p.cancelReason = reason
        /\ MayApprove(config.council, counted, seat)

\* process_cancel_proposal_v3.
CancelProposal(id, seat, reason) ==
    /\ Proposed(id)
    /\ CancelReady(id, seat, reason)
    /\ Store(id, CancelledProposal(proposals[id], seat, reason))
    /\ UNCHANGED <<slot, controller, evidence, custody, emergency>>

\* process_expire_proposal_v3, by anyone.
ExpireProposal(id) ==
    /\ Proposed(id)
    /\ proposals[id].state \in PreFreeze
    /\ proposals[id].expiry <= slot
    /\ Store(id, [proposals[id] EXCEPT !.state = "Expired", !.terminalAt = slot])
    /\ UNCHANGED <<slot, controller, evidence, custody, emergency>>

-----------------------------------------------------------------------------
(* Checkpoints *)

ProposalSubject(id) == <<"proposal", id, 0>>
ResolutionSubject(epoch, council) == <<"resolution", epoch, council>>
FreezeSubject(epoch) == <<"freeze", epoch, 0>>

\* The prestate of a rollback is the upgraded program of its primary; any other
\* prestate is the trusted deployment.
PrestateExpectation(p) ==
    IF p.class = "EmergencyRollback"
    THEN CandidateExpectation(proposals[p.primary])
    ELSE TrustedExpectation

\* The linked primary a rollback's prestate rests on.
FailedPrimary(id) ==
    LET p == proposals[id] IN
    p.class = "EmergencyRollback" =>
        /\ Linked(p.primary, id)
        /\ proposals[p.primary].state = "UpgradeExecuted"
        /\ proposals[p.primary].upgradedAt <= p.frozenAt
        /\ proposals[p.primary].freezeEpoch + 1 = p.freezeEpoch

PoststatePurpose(p) ==
    IF p.class = "EmergencyRollback" THEN "Rollback" ELSE "PostUpgrade"

\* load_emergency_resolution.
ResolutionLoads(epoch, council) ==
    /\ <<epoch, council>> \in DOMAIN resolutions
    /\ gate.status = "EmergencyFrozen"
    /\ gate.epoch = epoch
    /\ resolutions[<<epoch, council>>].generation = deployment.generation
    /\ resolutions[<<epoch, council>>].nonce = config.nonce

\* load_checkpoint_subject_binding and the observation it requires, fresh and
\* equal to the live program.
PrestateBinding(id, o) ==
    /\ Proposed(id)
    /\ FrozenFor(id)
    /\ proposals[id].state = "Frozen"
    /\ FailedPrimary(id)
    /\ FreshObservation(o, "ProposalPrestate", ProposalSubject(id),
                        PrestateExpectation(proposals[id]))
    /\ ObservationLive(o)

PoststateBinding(id, o) ==
    /\ Proposed(id)
    /\ FrozenFor(id)
    /\ proposals[id].state = "ProgramDataVerified"
    /\ FreshObservation(o, PoststatePurpose(proposals[id]), ProposalSubject(id),
                        CandidateExpectation(proposals[id]))
    /\ ObservationLive(o)

EmergencyBinding(epoch, council, o) ==
    /\ ResolutionLoads(epoch, council)
    /\ LET r == resolutions[<<epoch, council>>] IN
       /\ r.state = "Draft"
       /\ r.approvals = {}
       /\ r.checkpoint = NoDigest
       /\ r.observation = o
    /\ FreshObservation(o, "EmergencyResolution", FreezeSubject(epoch),
                        TrustedExpectation)
    /\ ObservationLive(o)

CheckpointBinding(subject, phase, o) ==
    \/ phase = "Prestate" /\ PrestateBinding(subject[2], o)
    \/ phase = "Poststate" /\ PoststateBinding(subject[2], o)
    \/ phase = "Emergency" /\ EmergencyBinding(subject[2], subject[3], o)

CheckpointSubjects ==
    {<<ProposalSubject(id), phase>> :
        id \in 1 .. Len(proposals), phase \in {"Prestate", "Poststate"}}
    \cup {<<ResolutionSubject(k[1], k[2]), "Emergency">> : k \in DOMAIN resolutions}

\* derive_checkpoint_candidate: the digest covers the observation, the attested
\* state roots, the council and the candidate it replaces.
Candidate(o, view, previous) ==
    [observation |-> o, view |-> view, council |-> config.council,
     number |-> (IF previous = NoDigest THEN 1 ELSE previous.number + 1),
     previous |-> previous]

Attested(subject, phase, council) ==
    {attestations[k] : k \in
        {j \in DOMAIN attestations : j[1] = <<subject, phase>> /\ j[2] = council}}

\* process_create_checkpoint_v2: one attestation per checkpoint, council and seat.
\* Only a digest somebody else can name is of use as the predecessor.
CreateCheckpoint(subject, phase, seat, o, view, previous) ==
    LET key == <<<<subject, phase>>, config.council, seat>> IN
    /\ CurrentSeat(seat)
    /\ <<subject, phase>> \notin DOMAIN checkpoints
    /\ CheckpointBinding(subject, phase, o)
    /\ key \notin DOMAIN attestations
    /\ Candidate(o, view, previous).number <= MaxCandidates
    /\ attestations' = Put(attestations, key, Candidate(o, view, previous))
    /\ UNCHANGED <<slot, controller, proposals, observations, checkpoints,
                   verifications, failures, custody, emergency>>

\* process_recast_checkpoint_v2: the new candidate names the seat's own last one.
RecastCheckpoint(subject, phase, seat, o, view) ==
    LET key == <<<<subject, phase>>, config.council, seat>> IN
    /\ CurrentSeat(seat)
    /\ <<subject, phase>> \notin DOMAIN checkpoints
    /\ CheckpointBinding(subject, phase, o)
    /\ key \in DOMAIN attestations
    /\ LET c == Candidate(o, view, attestations[key]) IN
       /\ c.number <= MaxCandidates
       /\ attestations' = Put(attestations, key, c)
    /\ UNCHANGED <<slot, controller, proposals, observations, checkpoints,
                   verifications, failures, custody, emergency>>

\* The seats whose attestation supports the candidate c of a checkpoint.
Supporters(subject, phase, c) ==
    {seat \in DOMAIN Councils[config.council].term :
        LET key == <<<<subject, phase>>, config.council, seat>> IN
        /\ key \in DOMAIN attestations
        /\ attestations[key] = c}

\* What an accepted checkpoint writes to its subject: a poststate advances the
\* proposal, an emergency checkpoint is bound into the resolution.
SubjectAfterCheckpoint(subject, phase, c) ==
    CASE phase = "Prestate" -> UNCHANGED <<proposals, resolutions>>
      [] phase = "Poststate" ->
            /\ Store(subject[2], [proposals[subject[2]] EXCEPT
                                     !.state = "PoststateAccepted"])
            /\ UNCHANGED resolutions
      [] OTHER ->
            /\ resolutions' = [resolutions EXCEPT
                                  ![<<subject[2], subject[3]>>].checkpoint = c]
            /\ UNCHANGED proposals

AcceptedCheckpoint(c) == [candidate |-> c, generation |-> deployment.generation]

\* process_finalize_checkpoint_v2, by anyone, with a quorum of matching attestations.
FinalizeCheckpoint(subject, phase, c) ==
    /\ <<subject, phase>> \notin DOMAIN checkpoints
    /\ CouncilLoads
    /\ c.council = config.council
    /\ CheckpointBinding(subject, phase, c.observation)
    /\ Cardinality(Supporters(subject, phase, c)) >= Threshold
    /\ checkpoints' = Put(checkpoints, <<subject, phase>>, AcceptedCheckpoint(c))
    /\ SubjectAfterCheckpoint(subject, phase, c)
    /\ UNCHANGED <<slot, controller, observations, attestations, verifications,
                   failures, custody, freezes>>

-----------------------------------------------------------------------------
(* Guardian freeze and emergency resolution *)

FreezeObservation ==
    [generation |-> deployment.generation, nonce |-> config.nonce, freezeSlot |-> slot]

\* process_guardian_freeze_v2: only out of Active, and only while the program is
\* exactly the recorded deployment.
GuardianFreeze ==
    /\ gate.status = "Active"
    /\ gate.active = None
    /\ RuntimeTrusted
    /\ runtime.capacity = deployment.capacity
    /\ NextEpoch(gate.epoch)
    /\ gate' = FrozenGate(gate, "EmergencyFrozen", gate.epoch + 1, None, "guardian")
    /\ GateValid(gate')
    /\ freezes' = Put(freezes, gate.epoch + 1, FreezeObservation)
    /\ UNCHANGED <<slot, config, deployment, proposals, evidence, custody, resolutions>>

\* load_emergency_freeze_observation.
FreezeLoads ==
    /\ gate.status = "EmergencyFrozen"
    /\ gate.epoch \in DOMAIN freezes
    /\ freezes[gate.epoch] = [FreezeObservation EXCEPT !.freezeSlot = gate.freezeSlot]

\* validate_emergency_resolution_v2_lifecycle.
ResolutionValid(r) ==
    /\ (r.approvedAt # 0) <=> (Cardinality(r.approvals) = Threshold)
    /\ r.approvedAt # 0 => r.approvedAt <= r.reviewEnd /\ r.approvedAt < r.expiry
    /\ r.state = "Draft" => Cardinality(r.approvals) < Threshold
    /\ r.state \in {"CouncilApproved", "Timelocked", "Executed"} =>
          Cardinality(r.approvals) = Threshold
    /\ (r.terminalAt # 0) <=> (r.state \in {"Executed", "Expired"})
    /\ r.state = "Executed" => r.notBefore <= r.terminalAt /\ r.terminalAt < r.expiry
    /\ r.state = "Expired" => r.expiry <= r.terminalAt

StoreResolution(k, r) ==
    /\ ResolutionValid(r)
    /\ resolutions' = Put(resolutions, k, r)

\* The record process_create_emergency_resolution_v2 writes: the delay runs from
\* the freeze, the review from now, and both end with the freeze's own expiry.
NewResolution(o) ==
    [state |-> "Draft", created |-> slot,
     reviewEnd |-> ReviewEnd(Timing, slot),
     notBefore |-> (LET review == ReviewEnd(Timing, slot)
                        delay == gate.freezeSlot + Timing.routine
                    IN  IF review >= delay THEN review ELSE delay),
     expiry |-> gate.freezeSlot + Timing.expiry,
     nonce |-> config.nonce, generation |-> deployment.generation,
     observation |-> o, checkpoint |-> NoDigest,
     approvals |-> {}, approvedAt |-> 0, terminalAt |-> 0]

\* process_create_emergency_resolution_v2: one per frozen epoch and council.
CreateEmergencyResolution(seat, o) ==
    /\ CurrentSeat(seat)
    /\ FreezeLoads
    /\ FreshObservation(o, "EmergencyResolution", FreezeSubject(gate.epoch),
                        TrustedExpectation)
    /\ <<gate.epoch, config.council>> \notin DOMAIN resolutions
    /\ NewResolution(o).notBefore < NewResolution(o).expiry
    /\ slot < NewResolution(o).expiry
    /\ StoreResolution(<<gate.epoch, config.council>>, NewResolution(o))
    /\ UNCHANGED <<slot, controller, proposals, evidence, custody, freezes>>

\* load_accepted_emergency_checkpoint: the one the resolution was bound to.
EmergencyCheckpoint(c, r) ==
    /\ c \in DOMAIN checkpoints
    /\ checkpoints[c].candidate = r.checkpoint
    /\ checkpoints[c].candidate.council = config.council
    /\ checkpoints[c].candidate.observation = r.observation
    /\ checkpoints[c].generation = deployment.generation

\* validate_emergency_evidence, for the resolution of the present council.
EmergencyEvidence(epoch) ==
    LET k == <<epoch, config.council>>
        c == <<ResolutionSubject(epoch, config.council), "Emergency">>
    IN  /\ CouncilLoads
        /\ ResolutionLoads(epoch, config.council)
        /\ FreezeLoads
        /\ FreshObservation(resolutions[k].observation, "EmergencyResolution",
                            FreezeSubject(epoch), TrustedExpectation)
        /\ EmergencyCheckpoint(c, resolutions[k])

ApprovedResolution(r, seat) ==
    LET approvals == r.approvals \cup {seat} IN
    IF Cardinality(approvals) = Threshold
    THEN [r EXCEPT !.approvals = approvals, !.state = "CouncilApproved",
                   !.approvedAt = slot]
    ELSE [r EXCEPT !.approvals = approvals]

\* process_approve_emergency_resolution_v2.
ApproveEmergencyResolution(epoch, seat) ==
    LET k == <<epoch, config.council>> IN
    /\ k \in DOMAIN resolutions
    /\ resolutions[k].state = "Draft"
    /\ resolutions[k].created + 1 <= slot
    /\ slot <= resolutions[k].reviewEnd
    /\ slot < resolutions[k].expiry
    /\ EmergencyEvidence(epoch)
    /\ MayApprove(config.council, resolutions[k].approvals, seat)
    /\ StoreResolution(k, ApprovedResolution(resolutions[k], seat))
    /\ UNCHANGED <<slot, controller, proposals, evidence, custody, freezes>>

\* process_queue_emergency_resolution_v2, by anyone.
QueueEmergencyResolution(epoch) ==
    LET k == <<epoch, config.council>> IN
    /\ k \in DOMAIN resolutions
    /\ resolutions[k].state = "CouncilApproved"
    /\ slot < resolutions[k].expiry
    /\ RecordedQuorum(config.council, resolutions[k].approvals, resolutions[k].approvedAt)
    /\ EmergencyEvidence(epoch)
    /\ StoreResolution(k, [resolutions[k] EXCEPT !.state = "Timelocked"])
    /\ UNCHANGED <<slot, controller, proposals, evidence, custody, freezes>>

\* The deployment record is renewed from the observation, under a new generation.
RenewedDeployment(o) ==
    [deployment EXCEPT !.deployed = o.deployed, !.capacity = o.capacity,
                       !.epoch = gate.epoch + 1, !.generation = @ + 1]

\* process_execute_emergency_resolution_v2, by anyone: the observed program is
\* the live one, the gate reopens and the deployment record is renewed.
ExecuteEmergencyResolution(epoch) ==
    LET k == <<epoch, config.council>>
        o == resolutions[k].observation
    IN  /\ k \in DOMAIN resolutions
        /\ resolutions[k].state = "Timelocked"
        /\ resolutions[k].notBefore <= slot
        /\ slot < resolutions[k].expiry
        /\ RecordedQuorum(config.council, resolutions[k].approvals,
                          resolutions[k].approvedAt)
        /\ EmergencyEvidence(epoch)
        /\ ObservationLive(o)
        /\ NextEpoch(gate.epoch)
        /\ NextNumber(deployment.generation)
        /\ gate' = ActiveGate(gate, gate.epoch + 1)
        /\ GateValid(gate')
        /\ deployment' = RenewedDeployment(o)
        /\ StoreResolution(k, [resolutions[k] EXCEPT !.state = "Executed",
                                                     !.terminalAt = slot])
        /\ UNCHANGED <<slot, config, proposals, evidence, custody, freezes>>

\* process_expire_emergency_resolution_v2, by anyone, while its freeze lasts.
ExpireEmergencyResolution(epoch, council) ==
    LET k == <<epoch, council>> IN
    /\ ResolutionLoads(epoch, council)
    /\ resolutions[k].state \in {"Draft", "CouncilApproved", "Timelocked"}
    /\ resolutions[k].expiry <= slot
    /\ StoreResolution(k, [resolutions[k] EXCEPT !.state = "Expired", !.terminalAt = slot])
    /\ UNCHANGED <<slot, controller, proposals, evidence, custody, freezes>>

-----------------------------------------------------------------------------
(* Unfreeze *)

\* load_verified_programdata_for_unfreeze_v2.
VerificationAccepted(id) ==
    /\ id \in DOMAIN verifications
    /\ LET v == verifications[id] IN
       /\ v.status = "Verified"
       /\ v.epoch = gate.epoch
       /\ v.nonce = config.nonce
       /\ v.generation = deployment.generation
       /\ v.observation.artifact = proposals[id].artifact
       /\ v.observation.deployed = proposals[id].upgradedAt
       /\ proposals[id].minCapacity <= v.observation.capacity
    /\ DeploymentCurrent(proposals[id])

\* load_accepted_poststate_for_unfreeze_v2: the checkpoint rests on the
\* observation that verified the upgrade.
PoststateMatches(id) ==
    LET c == <<ProposalSubject(id), "Poststate">> IN
    /\ c \in DOMAIN checkpoints
    /\ checkpoints[c].candidate.observation = verifications[id].observation
    /\ checkpoints[c].generation = deployment.generation

\* validate_live_verified_programdata_v2.
VerifiedLive(id) ==
    /\ RuntimeReads
    /\ runtime.deployed = verifications[id].observation.deployed
    /\ runtime.capacity = verifications[id].observation.capacity

UnfreezeEvidence(id) ==
    /\ CouncilLoads
    /\ FrozenFor(id)
    /\ VerificationAccepted(id)
    /\ PoststateMatches(id)
    /\ VerifiedLive(id)

\* prepare_unfreeze_accumulator_v2: the votes of a replaced council are dropped,
\* also when they had reached the threshold.
StaleUnfreeze(p) == p.unfreezeApprovals # {} /\ p.unfreezeCouncil # config.council
CountedUnfreeze(p) == IF StaleUnfreeze(p) THEN {} ELSE p.unfreezeApprovals

UnfreezeProposal(p, seat) ==
    LET votes == CountedUnfreeze(p) \cup {seat} IN
    [p EXCEPT !.unfreezeCouncil = config.council, !.unfreezeApprovals = votes,
              !.state = IF Cardinality(votes) = Threshold
                        THEN "UnfreezeApproved" ELSE "PoststateAccepted"]

\* process_approve_unfreeze_v2.
ApproveUnfreeze(id, seat) ==
    /\ Proposed(id)
    /\ \/ proposals[id].state = "PoststateAccepted"
       \/ proposals[id].state = "UnfreezeApproved" /\ StaleUnfreeze(proposals[id])
    /\ UnfreezeEvidence(id)
    /\ MayApprove(config.council, CountedUnfreeze(proposals[id]), seat)
    /\ Store(id, UnfreezeProposal(proposals[id], seat))
    /\ UNCHANGED <<slot, controller, evidence, custody, emergency>>

\* Votes of the council that cast them are enough.
UnfreezeQuorumMutant(p) ==
    RecordedQuorum(p.unfreezeCouncil, p.unfreezeApprovals, slot)

\* require_current_unfreeze_quorum_v2.
UnfreezeQuorum(p) ==
    /\ p.unfreezeCouncil = config.council
    /\ RecordedQuorum(config.council, p.unfreezeApprovals, slot)

\* terminalize_unfreeze_pair_v3: the other proposal of the pair, and how it ends.
LinkedEnd(id) ==
    IF proposals[id].class = "EmergencyRollback"
    THEN [other |-> proposals[id].primary, state |-> "SupersededByRollback"]
    ELSE [other |-> proposals[id].rollback, state |-> "Retired"]

PairCloses(id) ==
    IF proposals[id].class = "EmergencyRollback"
    THEN /\ Linked(proposals[id].primary, id)
         /\ proposals[proposals[id].primary].state
               \in {"UpgradeExecuted", "ProgramDataVerified"}
    ELSE /\ Linked(id, proposals[id].rollback)
         /\ proposals[proposals[id].rollback].state = "Timelocked"

\* The new deployment keeps the old artifact's name.
ActivatedDeploymentMutant(id) ==
    [deployment EXCEPT
        !.capacity = verifications[id].observation.capacity,
        !.deployed = verifications[id].observation.deployed,
        !.epoch = gate.epoch + 1,
        !.completed = id,
        !.generation = @ + 1]

\* build_activated_deployment_v2.
ActivatedDeployment(id) ==
    [deployment EXCEPT
        !.artifact = proposals[id].artifact,
        !.capacity = verifications[id].observation.capacity,
        !.deployed = verifications[id].observation.deployed,
        !.epoch = gate.epoch + 1,
        !.completed = id,
        !.generation = @ + 1]

\* Both proposals of the pair end in the same commit.
EndPair(id) ==
    LET done == [proposals[id] EXCEPT !.state = "Completed", !.terminalAt = slot]
        end == LinkedEnd(id)
        other == [proposals[end.other] EXCEPT !.state = end.state, !.terminalAt = slot]
    IN  /\ ProposalValid(done)
        /\ ProposalValid(other)
        /\ proposals' = [proposals EXCEPT ![id] = done, ![end.other] = other]

\* apply_activated_deployment_v2.
ReopenAfter(id) ==
    /\ gate' = [ActiveGate(gate, gate.epoch + 1) EXCEPT !.lastCompleted = id]
    /\ GateValid(gate')

\* process_execute_unfreeze_v2, by anyone, with a quorum of the present council.
ExecuteUnfreeze(id) ==
    /\ Proposed(id)
    /\ proposals[id].state = "UnfreezeApproved"
    /\ UnfreezeEvidence(id)
    /\ UnfreezeQuorum(proposals[id])
    /\ PairCloses(id)
    /\ NextEpoch(gate.epoch)
    /\ NextNumber(deployment.generation)
    /\ EndPair(id)
    /\ ReopenAfter(id)
    /\ deployment' = ActivatedDeployment(id)
    /\ UNCHANGED <<slot, config, evidence, custody, emergency>>
=============================================================================
