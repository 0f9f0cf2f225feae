----------------------- MODULE Release1ControllerProofs -----------------------
(***************************************************************************)
(* Proofs about Release1Controller for every council history, threshold,   *)
(* timing, set of payloads, buffers and proposals, and bound.              *)
(***************************************************************************)
EXTENDS Release1Controller, FiniteSetTheorems, TLAPS

-------------------------------------------------------------------------------
(* Frames: what each family of handlers leaves alone *)

\* Of the proposal handlers only the freeze and the unfreeze write the controller.
LEMMA ProposalFrame ==
    ASSUME ProposalNext
    PROVE  /\ UNCHANGED <<slot, evidence, custody, emergency>>
           /\ \/ UNCHANGED controller
              \/ UNCHANGED deployment /\ \E id \in Ids : FreezeProposal(id)
              \/ UNCHANGED config /\ \E id \in Ids : ExecuteUnfreeze(id)
<1>1. CASE \E seat \in Seats, m \in Plans : CreateProposal(seat, m)
  BY <1>1 DEF CreateProposal
<1>2. CASE \E id \in Ids, seat \in Seats : ApproveProposal(id, seat)
  BY <1>2 DEF ApproveProposal
<1>3. CASE \E id \in Ids : FinalizeGovernance(id)
  BY <1>3 DEF FinalizeGovernance
<1>4. CASE \E id \in Ids : QueueProposal(id)
  BY <1>4 DEF QueueProposal
<1>5. CASE \E id \in Ids : FreezeProposal(id)
  BY <1>5 DEF FreezeProposal
<1>6. CASE \E id \in Ids, seat \in Seats, reason \in Reasons : CancelProposal(id, seat, reason)
  BY <1>6 DEF CancelProposal
<1>7. CASE \E id \in Ids : ExpireProposal(id)
  BY <1>7 DEF ExpireProposal
<1>8. CASE \E id \in Ids, seat \in Seats : ApproveUnfreeze(id, seat)
  BY <1>8 DEF ApproveUnfreeze
<1>9. CASE \E id \in Ids : ExecuteUnfreeze(id)
  BY <1>9 DEF ExecuteUnfreeze
<1> QED
  BY <1>1, <1>2, <1>3, <1>4, <1>5, <1>6, <1>7, <1>8, <1>9 DEF ProposalNext

\* A checkpoint step writes attestations, or a checkpoint and its subject.
LEMMA CheckpointFrame ==
    ASSUME CheckpointNext
    PROVE  /\ UNCHANGED <<slot, controller, observations, verifications, failures,
                          custody, freezes>>
           /\ \/ UNCHANGED <<proposals, checkpoints, resolutions>>
              \/ \E c \in CheckpointSubjects :
                    \E candidate \in Attested(c[1], c[2], config.council) :
                       FinalizeCheckpoint(c[1], c[2], candidate)
<1> PICK c \in CheckpointSubjects :
        \/ \E seat \in Seats, o \in observations, view \in Views,
              previous \in {NoDigest} \cup
                  UNION {Attested(c[1], c[2], v) : v \in DOMAIN Councils} :
              CreateCheckpoint(c[1], c[2], seat, o, view, previous)
        \/ \E seat \in Seats, o \in observations, view \in Views :
              RecastCheckpoint(c[1], c[2], seat, o, view)
        \/ \E candidate \in Attested(c[1], c[2], config.council) :
              FinalizeCheckpoint(c[1], c[2], candidate)
  BY DEF CheckpointNext
<1>1. ASSUME NEW seat, NEW o, NEW view, NEW previous,
             CreateCheckpoint(c[1], c[2], seat, o, view, previous)
      PROVE  UNCHANGED <<slot, controller, proposals, observations, checkpoints,
                         verifications, failures, custody, emergency>>
  BY <1>1 DEF CreateCheckpoint
<1>2. ASSUME NEW seat, NEW o, NEW view, RecastCheckpoint(c[1], c[2], seat, o, view)
      PROVE  UNCHANGED <<slot, controller, proposals, observations, checkpoints,
                         verifications, failures, custody, emergency>>
  BY <1>2 DEF RecastCheckpoint
<1>3. ASSUME NEW candidate, FinalizeCheckpoint(c[1], c[2], candidate)
      PROVE  UNCHANGED <<slot, controller, observations, verifications, failures,
                         custody, freezes>>
  BY <1>3 DEF FinalizeCheckpoint
<1> QED
  BY <1>1, <1>2, <1>3 DEF emergency

\* The emergency handlers write the gate, the freezes and the resolutions.
LEMMA EmergencyFrame ==
    ASSUME EmergencyNext
    PROVE  /\ UNCHANGED <<slot, config, proposals, evidence, custody>>
           /\ \/ UNCHANGED <<gate, deployment, freezes>>
              \/ UNCHANGED <<deployment, resolutions>> /\ GuardianFreeze
              \/ UNCHANGED freezes
                   /\ \E epoch \in DOMAIN freezes : ExecuteEmergencyResolution(epoch)
<1>1. CASE GuardianFreeze
  BY <1>1 DEF GuardianFreeze
<1>2. CASE \E seat \in Seats, o \in observations : CreateEmergencyResolution(seat, o)
  BY <1>2 DEF CreateEmergencyResolution, controller
<1>3. CASE \E epoch \in DOMAIN freezes, seat \in Seats : ApproveEmergencyResolution(epoch, seat)
  BY <1>3 DEF ApproveEmergencyResolution, controller
<1>4. CASE \E epoch \in DOMAIN freezes : QueueEmergencyResolution(epoch)
  BY <1>4 DEF QueueEmergencyResolution, controller
<1>5. CASE \E epoch \in DOMAIN freezes : ExecuteEmergencyResolution(epoch)
  BY <1>5 DEF ExecuteEmergencyResolution
<1>6. CASE \E k \in DOMAIN resolutions : ExpireEmergencyResolution(k[1], k[2])
  BY <1>6 DEF ExpireEmergencyResolution, controller
<1> QED
  BY <1>1, <1>2, <1>3, <1>4, <1>5, <1>6 DEF EmergencyNext

\* What each custody handler leaves alone.
LEMMA CustodyFrame ==
    ASSUME CustodyNext
    PROVE  /\ UNCHANGED <<slot, config, attestations, checkpoints, emergency>>
           /\ \/ /\ UNCHANGED <<gate, deployment, evidence, runtime>>
                 /\ \E id \in Ids :
                       \/ AdoptBuffer(id)
                       \/ \E chunk \in DOMAIN proposals[id].artifact :
                             VerifyBufferChunk(id, chunk)
                       \/ FinalizeBuffer(id)
                       \/ CloseAbandonedBuffer(id)
              \/ /\ UNCHANGED <<gate, deployment, proposals, verifications, failures, custody>>
                 /\ \/ \E plan \in ObservationPlans : BeginObservation(plan)
                    \/ \E o \in observations : FinalizeObservation(o)
              \/ /\ UNCHANGED <<gate, deployment, evidence>>
                 /\ \E id \in Ids, o \in observations :
                       \E payload \in {buffers[proposals[id].buffer].artifact} \cup Damage :
                          ExecuteUpgrade(id, o, payload)
              \/ /\ UNCHANGED <<gate, deployment, observations, failures, custody>>
                 /\ \E id \in Ids :
                       \/ \E o \in observations : BindVerification(id, o)
                       \/ FinalizeVerification(id)
              \/ /\ UNCHANGED <<gate, deployment, proposals, observations, verifications,
                                custody>>
                 /\ \E id \in Ids : ObserveFailure(id)
              \/ /\ UNCHANGED <<deployment, evidence, custody>>
                 /\ \E id \in Ids : ActivateRollback(id)
<1>1. CASE \E id \in Ids : AdoptBuffer(id)
  BY <1>1 DEF AdoptBuffer, controller, evidence
<1>2. CASE \E id \in Ids : \E chunk \in DOMAIN proposals[id].artifact :
              VerifyBufferChunk(id, chunk)
  BY <1>2 DEF VerifyBufferChunk, controller, evidence
<1>3. CASE \E id \in Ids : FinalizeBuffer(id)
  BY <1>3 DEF FinalizeBuffer, controller, evidence
<1>4. CASE \E id \in Ids : CloseAbandonedBuffer(id)
  BY <1>4 DEF CloseAbandonedBuffer, controller, evidence
<1>5. CASE \E plan \in ObservationPlans : BeginObservation(plan)
  BY <1>5 DEF BeginObservation, controller
<1>6. CASE \E o \in observations : FinalizeObservation(o)
  BY <1>6 DEF FinalizeObservation, controller
<1>7. CASE \E id \in Ids, o \in observations :
              \E payload \in {buffers[proposals[id].buffer].artifact} \cup Damage :
                 ExecuteUpgrade(id, o, payload)
  BY <1>7 DEF ExecuteUpgrade, controller, evidence
<1>8. CASE \E id \in Ids, o \in observations : BindVerification(id, o)
  BY <1>8 DEF BindVerification, controller
<1>9. CASE \E id \in Ids : FinalizeVerification(id)
  BY <1>9 DEF FinalizeVerification, controller
<1>10. CASE \E id \in Ids : ObserveFailure(id)
  BY <1>10 DEF ObserveFailure, controller
<1>11. CASE \E id \in Ids : ActivateRollback(id)
  BY <1>11 DEF ActivateRollback, evidence
<1> QED
  BY <1>1, <1>2, <1>3, <1>4, <1>5, <1>6, <1>7, <1>8, <1>9, <1>10, <1>11
  DEF CustodyNext

\* The surroundings write the clock, the council, the program or a buffer.
LEMMA SurroundingsFrame ==
    ASSUME Surroundings
    PROVE  /\ UNCHANGED <<gate, deployment, proposals, evidence, checks, emergency>>
           /\ \/ UNCHANGED <<config, custody>> /\ slot < MaxSlot /\ slot' = slot + 1
              \/ /\ UNCHANGED <<slot, config, runtime>>
                 /\ \E b \in Buffers, artifact \in Artifacts : Upload(b, artifact)
              \/ UNCHANGED <<slot, config, buffers>> /\ GrowProgram
              \/ /\ UNCHANGED <<slot, custody>>
                 /\ \E v \in DOMAIN Councils : RotateCouncil(v)
<1>1. CASE Tick
  BY <1>1 DEF Tick, controller, custody
<1>2. CASE \E b \in Buffers, artifact \in Artifacts : Upload(b, artifact)
  BY <1>2 DEF Upload, controller
<1>3. CASE GrowProgram
  BY <1>3 DEF GrowProgram, controller
<1>4. CASE \E v \in DOMAIN Councils : RotateCouncil(v)
  BY <1>4 DEF RotateCouncil, custody
<1> QED
  BY <1>1, <1>2, <1>3, <1>4 DEF Surroundings

-------------------------------------------------------------------------------
(* The inductive invariant: types *)

ClockTypes == slot \in 1 .. MaxSlot

\* An epoch is spent for every nonce.
ConfigTypes ==
    /\ config \in [nonce : 1 .. MaxEpoch, council : DOMAIN Councils]
    /\ config.nonce <= gate.epoch

GateTypes == gate \in GateRecord /\ GateValid(gate)

DeploymentTypes ==
    deployment \in [artifact : Artifacts, capacity : Nat, deployed : Nat, epoch : Nat,
                    completed : Nat, generation : 1 .. MaxGeneration]

RuntimeTypes ==
    /\ runtime \in [artifact : Artifacts \cup Damage, deployed : Nat, capacity : 1 .. MaxPayload]
    /\ runtime.deployed \in 1 .. slot
    /\ Len(runtime.artifact) <= runtime.capacity

ProposalTypes ==
    /\ proposals \in Seq(ProposalRecord)
    /\ \A id \in Ids :
          /\ ProposalValid(proposals[id])
          /\ Len(proposals[id].artifact) <= proposals[id].minCapacity

BufferTypes == buffers \in [Buffers -> BufferRecord]

CheckTypes ==
    /\ DOMAIN checks \subseteq Ids
    /\ checks \in [DOMAIN checks -> CheckRecord]

\* An observation: its header is that of the account when it was begun.
ObservationFields ==
    {"purpose", "subject", "artifact", "minimum", "gate", "generation", "deployed",
     "capacity", "status"}
Observed(o) ==
    /\ ObservationFields \subseteq DOMAIN o
    /\ o.purpose \in Purposes
    /\ o.generation \in Nat \ {0}
    /\ o.deployed \in Nat
    /\ o.capacity \in Nat
ObservationTypes ==
    /\ IsFiniteSet(observations)
    /\ \A o \in observations : Observed(o)

\* What has been finalized, and may be cited.
Citable == {o \in observations : o.status = "Finalized"}

VerificationTypes ==
    \A id \in DOMAIN verifications :
        id \in Ids /\ verifications[id] \in VerificationRecord(Citable)

FailureTypes ==
    \A id \in DOMAIN failures :
        id \in Ids /\ failures[id] \in FailureRecord(Artifacts \cup Damage)

FreezeTypes ==
    /\ DOMAIN freezes \subseteq Nat
    /\ \A epoch \in DOMAIN freezes : freezes[epoch] \in FreezeRecord

ResolutionTypes ==
    \A k \in DOMAIN resolutions :
        /\ {"state", "observation", "approvals"} \subseteq DOMAIN resolutions[k]
        /\ resolutions[k].observation \in Citable

Types ==
    /\ ClockTypes
    /\ ConfigTypes
    /\ GateTypes
    /\ DeploymentTypes
    /\ RuntimeTypes
    /\ ProposalTypes
    /\ BufferTypes
    /\ CheckTypes
    /\ ObservationTypes
    /\ VerificationTypes
    /\ FailureTypes
    /\ FreezeTypes
    /\ ResolutionTypes

-------------------------------------------------------------------------------
(* Proposals: what a handler may change of a stored record *)

\* What is fixed when a proposal is created.
SameManifest(p, q) ==
    /\ q.class = p.class
    /\ q.nonce = p.nonce
    /\ q.council = p.council
    /\ q.gateStatus = p.gateStatus
    /\ q.gateEpoch = p.gateEpoch
    /\ q.generation = p.generation
    /\ q.created = p.created
    /\ q.reviewEnd = p.reviewEnd
    /\ q.notBefore = p.notBefore
    /\ q.expiry = p.expiry
    /\ q.buffer = p.buffer
    /\ q.artifact = p.artifact
    /\ q.minCapacity = p.minCapacity
    /\ q.primary = p.primary
    /\ q.rollback = p.rollback
    /\ q.rollbackBuffer = p.rollbackBuffer
    /\ q.rollbackArtifact = p.rollbackArtifact

\* What the freeze and the upgrade record.
SameFlight(p, q) ==
    /\ q.freezeEpoch = p.freezeEpoch
    /\ q.frozenAt = p.frozenAt
    /\ q.extendedAt = p.extendedAt
    /\ q.upgradedAt = p.upgradedAt

Sound(p) == ProposalValid(p) /\ Len(p.artifact) <= p.minCapacity

\* Every step keeps the proposals there are, and what they were created with.
ProposalsKept ==
    /\ proposals' \in Seq(ProposalRecord)
    /\ Len(proposals) <= Len(proposals')
    /\ \A id \in Ids : SameManifest(proposals[id], proposals'[id])
    /\ \A id \in Ids' : Sound(proposals'[id])

\* The proposal id becomes q, and every other one is left alone.
Becomes(id, q) ==
    /\ q \in ProposalRecord
    /\ SameManifest(proposals[id], q)
    /\ Sound(q)
    /\ proposals' = [proposals EXCEPT ![id] = q]
    /\ Len(proposals') = Len(proposals)
    /\ proposals'[id] = q
    /\ \A other \in Ids \ {id} : proposals'[other] = proposals[other]

PreFreezeEnds == PreFreeze \cup {"Cancelled", "Expired"}

\* A proposal that has not been frozen stays so.
PendingStep ==
    \E id \in Ids, q \in ProposalRecord :
        /\ proposals[id].state \in PreFreeze
        /\ q.state \in PreFreezeEnds
        /\ SameFlight(proposals[id], q)
        /\ Becomes(id, q)

\* A proposal is created.
NewStep ==
    \E q \in ProposalRecord :
        /\ q.state = "Draft"
        /\ Sound(q)
        /\ proposals' = Append(proposals, q)

LEMMA SameManifestReflexive == \A p : SameManifest(p, p)
BY DEF SameManifest

\* A handler that stores a record with the same manifest keeps the proposals.
LEMMA StoreLemma ==
    ASSUME ProposalTypes, NEW id \in Ids, NEW q \in ProposalRecord,
           SameManifest(proposals[id], q), Store(id, q)
    PROVE  Becomes(id, q)
<1>1. Len(proposals) \in Nat /\ DOMAIN proposals = 1 .. Len(proposals)
  BY DEF ProposalTypes
<1>2. /\ Len(proposals') = Len(proposals)
      /\ proposals'[id] = q
      /\ \A other \in Ids \ {id} : proposals'[other] = proposals[other]
  BY <1>1 DEF Store, Ids, ProposalTypes
<1>3. Sound(q)
  BY DEF Store, Sound, SameManifest, ProposalTypes
<1> QED
  BY <1>2, <1>3 DEF Becomes, Store

LEMMA BecomesKeeps ==
    ASSUME ProposalTypes, NEW id \in Ids, NEW q \in ProposalRecord, Becomes(id, q)
    PROVE  ProposalsKept
<1>1. Len(proposals) \in Nat /\ DOMAIN proposals = 1 .. Len(proposals)
  BY DEF ProposalTypes
<1>2. \A i \in Ids : proposals'[i] \in ProposalRecord /\ Sound(proposals'[i])
  BY DEF Becomes, Ids, ProposalTypes, Sound
<1>3. proposals' \in Seq(ProposalRecord)
  BY DEF Becomes, Ids, ProposalTypes
<1>4. \A i \in Ids : SameManifest(proposals[i], proposals'[i])
  BY SameManifestReflexive DEF Becomes
<1> QED
  BY <1>1, <1>2, <1>3, <1>4 DEF ProposalsKept, Becomes, Ids

\* A stored record that is not changed is still one.
LEMMA RecordLemma ==
    ASSUME Types, NEW id \in Ids
    PROVE  /\ proposals[id] \in ProposalRecord
           /\ Sound(proposals[id])
           /\ slot \in Slots \ {0}
BY DEF Types, ProposalTypes, ClockTypes, Sound, Ids, Slots

LEMMA ApproveStep ==
    ASSUME Types, NEW id \in Ids, NEW seat \in Seats, ApproveProposal(id, seat)
    PROVE  PendingStep
<1> DEFINE q == ApprovedProposal(proposals[id], seat)
<1>1. proposals[id].state = "BufferVerified" /\ Store(id, q)
  BY DEF ApproveProposal, ApproveReady
<1>2. proposals[id] \in ProposalRecord /\ slot \in Slots
  BY RecordLemma
<1>3. q \in ProposalRecord
  <2> DEFINE approvals == proposals[id].approvals \cup {seat}
  <2>1. approvals \in SUBSET Seats
    BY <1>2 DEF ProposalRecord
  <2> HIDE DEF approvals
  <2>2. [proposals[id] EXCEPT !.approvals = approvals] \in ProposalRecord
    BY <2>1, <1>2 DEF ProposalRecord
  <2>3. [proposals[id] EXCEPT !.approvals = approvals, !.state = "CouncilApproved",
                              !.approvedAt = slot] \in ProposalRecord
    BY <2>1, <1>2 DEF ProposalRecord, PreFreeze
  <2> QED
    BY <2>2, <2>3 DEF ApprovedProposal, approvals
<1>4. q.state \in PreFreezeEnds
  BY <1>1, <1>2 DEF ApprovedProposal, ProposalRecord, PreFreeze, PreFreezeEnds
<1>5. SameManifest(proposals[id], q) /\ SameFlight(proposals[id], q)
  BY <1>2 DEF ApprovedProposal, ProposalRecord, SameManifest, SameFlight
<1> QED
  BY <1>1, <1>3, <1>4, <1>5, StoreLemma DEF PendingStep, Types, PreFreeze

LEMMA CancelStep ==
    ASSUME Types, NEW id \in Ids, NEW seat \in Seats, NEW reason \in Reasons,
           CancelProposal(id, seat, reason)
    PROVE  PendingStep
<1> DEFINE q == CancelledProposal(proposals[id], seat, reason)
<1>1. proposals[id].state \in PreFreeze /\ Store(id, q)
  BY DEF CancelProposal, CancelReady
<1>2. config.council \in Nat
  BY BoundsAssumption DEF Types, ConfigTypes
<1>3. proposals[id] \in ProposalRecord /\ slot \in Slots
  BY RecordLemma
<1>4. q \in ProposalRecord
  <2> DEFINE p == proposals[id]
             stale == p.cancelApprovals # {} /\ p.cancelCouncil # config.council
             votes == (IF stale THEN {} ELSE p.cancelApprovals) \cup {seat}
             counted == [p EXCEPT !.cancelCouncil = config.council,
                                  !.cancelApprovals = votes, !.cancelReason = reason]
  <2>1. votes \in SUBSET Seats
    BY <1>3 DEF ProposalRecord
  <2> HIDE DEF votes
  <2>2. counted \in ProposalRecord
    BY <2>1, <1>2, <1>3 DEF ProposalRecord
  <2>3. [counted EXCEPT !.state = "Cancelled", !.terminalAt = slot] \in ProposalRecord
    <3> HIDE DEF counted
    <3> QED  BY <2>2, <1>3 DEF ProposalRecord, Terminal
  <2> QED
    BY <2>2, <2>3 DEF CancelledProposal, votes
<1>5. q.state \in PreFreezeEnds
  BY <1>1, <1>3 DEF CancelledProposal, ProposalRecord, PreFreezeEnds
<1>6. SameManifest(proposals[id], q) /\ SameFlight(proposals[id], q)
  BY <1>3 DEF CancelledProposal, ProposalRecord, SameManifest, SameFlight
<1> QED
  BY <1>1, <1>4, <1>5, <1>6, StoreLemma DEF PendingStep, Types

\* The handlers that move a pending proposal on, or end it.
LEMMA MoveStep ==
    ASSUME Types, NEW id \in Ids, proposals[id].state \in PreFreeze,
           NEW state \in PreFreezeEnds, NEW at \in Slots,
           Store(id, [proposals[id] EXCEPT !.state = state, !.terminalAt = at])
    PROVE  PendingStep
<1> DEFINE q == [proposals[id] EXCEPT !.state = state, !.terminalAt = at]
<1>1. proposals[id] \in ProposalRecord
  BY RecordLemma
<1>2. q \in ProposalRecord
  BY <1>1 DEF ProposalRecord, PreFreezeEnds, Terminal
<1>3. q.state = state /\ SameManifest(proposals[id], q) /\ SameFlight(proposals[id], q)
  BY <1>1 DEF ProposalRecord, SameManifest, SameFlight
<1> QED
  BY <1>2, <1>3, StoreLemma DEF PendingStep, Types

\* The same, when no slot is recorded.
LEMMA AdvanceStep ==
    ASSUME Types, NEW id \in Ids, proposals[id].state \in PreFreeze,
           NEW state \in PreFreezeEnds,
           Store(id, [proposals[id] EXCEPT !.state = state])
    PROVE  PendingStep
<1> DEFINE q == [proposals[id] EXCEPT !.state = state]
<1>1. proposals[id] \in ProposalRecord
  BY RecordLemma
<1>2. q \in ProposalRecord
  BY <1>1 DEF ProposalRecord, PreFreezeEnds, Terminal
<1>3. q.state = state /\ SameManifest(proposals[id], q) /\ SameFlight(proposals[id], q)
  BY <1>1 DEF ProposalRecord, SameManifest, SameFlight
<1> QED
  BY <1>2, <1>3, StoreLemma DEF PendingStep, Types

\* The record a freeze or an activation stores.
FrozenNow(id) ==
    [proposals[id] EXCEPT !.state = "Frozen", !.freezeEpoch = gate.epoch + 1,
                          !.frozenAt = slot]

LEMMA FreezeStep ==
    ASSUME Types, NEW id \in Ids, Store(id, FrozenNow(id))
    PROVE  Becomes(id, FrozenNow(id))
<1>1. proposals[id] \in ProposalRecord /\ slot \in Slots
  BY RecordLemma
<1>2. gate.epoch + 1 \in Nat
  BY BoundsAssumption DEF Types, GateTypes, GateRecord
<1>3. FrozenNow(id) \in ProposalRecord
  BY <1>1, <1>2 DEF FrozenNow, ProposalRecord, FrozenOrLater
<1>4. SameManifest(proposals[id], FrozenNow(id))
  BY <1>1 DEF FrozenNow, ProposalRecord, SameManifest
<1> QED
  BY <1>3, <1>4, StoreLemma DEF Types

\* The handlers that move a frozen proposal on.
FlightMove(id, state) == [proposals[id] EXCEPT !.state = state]
LEMMA FlightMoveStep ==
    ASSUME Types, NEW id \in Ids, NEW state \in FrozenOrLater,
           Store(id, FlightMove(id, state))
    PROVE  Becomes(id, FlightMove(id, state))
<1>1. proposals[id] \in ProposalRecord
  BY RecordLemma
<1>2. FlightMove(id, state) \in ProposalRecord
  BY <1>1 DEF FlightMove, ProposalRecord
<1>3. SameManifest(proposals[id], FlightMove(id, state))
  BY <1>1 DEF FlightMove, ProposalRecord, SameManifest
<1> QED
  BY <1>2, <1>3, StoreLemma DEF Types

UpgradedNow(id) == [proposals[id] EXCEPT !.state = "UpgradeExecuted", !.upgradedAt = slot]
LEMMA UpgradeStep ==
    ASSUME Types, NEW id \in Ids, NEW o, NEW payload, ExecuteUpgrade(id, o, payload)
    PROVE  Becomes(id, UpgradedNow(id))
<1>1. proposals[id] \in ProposalRecord /\ slot \in Slots
  BY RecordLemma
<1>2. UpgradedNow(id) \in ProposalRecord
  BY <1>1 DEF UpgradedNow, ProposalRecord, FrozenOrLater, UpgradedStates
<1>3. SameManifest(proposals[id], UpgradedNow(id))
  BY <1>1 DEF UpgradedNow, ProposalRecord, SameManifest
<1>4. Store(id, UpgradedNow(id))
  BY DEF ExecuteUpgrade, Upgraded, UpgradedNow
<1> QED
  BY <1>2, <1>3, <1>4, StoreLemma DEF Types

UnfrozenBy(id, seat) == UnfreezeProposal(proposals[id], seat)
LEMMA ApproveUnfreezeStep ==
    ASSUME Types, NEW id \in Ids, NEW seat \in Seats, ApproveUnfreeze(id, seat)
    PROVE  /\ Becomes(id, UnfrozenBy(id, seat))
           /\ UnfrozenBy(id, seat).state \in {"PoststateAccepted", "UnfreezeApproved"}
           /\ SameFlight(proposals[id], UnfrozenBy(id, seat))
<1> DEFINE votes == CountedUnfreeze(proposals[id]) \cup {seat}
           state == IF Cardinality(votes) = Threshold
                    THEN "UnfreezeApproved" ELSE "PoststateAccepted"
           q == [proposals[id] EXCEPT !.unfreezeCouncil = config.council,
                    !.unfreezeApprovals = votes, !.state = state]
<1>1. proposals[id] \in ProposalRecord
  BY RecordLemma
<1>2. votes \in SUBSET Seats
  BY <1>1 DEF CountedUnfreeze, ProposalRecord
<1>3. config.council \in Nat
  BY BoundsAssumption DEF Types, ConfigTypes
<1>4. state \in {"PoststateAccepted", "UnfreezeApproved"}
  OBVIOUS
<1>5. UnfrozenBy(id, seat) = q
  BY DEF UnfrozenBy, UnfreezeProposal
<1> HIDE DEF votes, state
<1>6. q \in ProposalRecord
  BY <1>1, <1>2, <1>3, <1>4
  DEF ProposalRecord, FrozenOrLater, UpgradedStates, VerifiedStates, UnfreezeStates
<1>7. q.state = state /\ SameManifest(proposals[id], q) /\ SameFlight(proposals[id], q)
  BY <1>1 DEF ProposalRecord, SameManifest, SameFlight
<1>8. Store(id, q)
  BY <1>5 DEF ApproveUnfreeze, UnfrozenBy
<1> HIDE DEF q
<1> QED
  BY <1>4, <1>5, <1>6, <1>7, <1>8, StoreLemma DEF Types

\* The pair ends: the proposal completes, and its counterpart with it.
PairEnded(id, other) ==
    /\ proposals' \in Seq(ProposalRecord)
    /\ Len(proposals') = Len(proposals)
    /\ proposals'[id].state = "Completed"
    /\ SameManifest(proposals[id], proposals'[id])
    /\ Sound(proposals'[id])
    /\ IF proposals[id].class = "EmergencyRollback"
       THEN /\ other = proposals[id].primary
            /\ proposals[other].state \in {"UpgradeExecuted", "ProgramDataVerified"}
            /\ proposals'[other].state = "SupersededByRollback"
       ELSE /\ other = proposals[id].rollback
            /\ proposals[other].state = "Timelocked"
            /\ proposals'[other].state = "Retired"
    /\ SameManifest(proposals[other], proposals'[other])
    /\ Sound(proposals'[other])
    /\ \A i \in Ids \ {id, other} : proposals'[i] = proposals[i]

LEMMA PairLemma ==
    ASSUME Types, NEW id \in Ids, PairCloses(id)
    PROVE  /\ LinkedEnd(id).other \in Ids \ {id}
           /\ IF proposals[id].class = "EmergencyRollback"
              THEN /\ LinkedEnd(id).other = proposals[id].primary
                   /\ proposals[LinkedEnd(id).other].state
                         \in {"UpgradeExecuted", "ProgramDataVerified"}
                   /\ LinkedEnd(id).state = "SupersededByRollback"
              ELSE /\ LinkedEnd(id).other = proposals[id].rollback
                   /\ proposals[LinkedEnd(id).other].state = "Timelocked"
                   /\ LinkedEnd(id).state = "Retired"
<1>1. CASE proposals[id].class = "EmergencyRollback"
  BY <1>1 DEF PairCloses, Linked, LinkedEnd, Proposed, Ids, PrimaryClasses
<1>2. CASE proposals[id].class # "EmergencyRollback"
  BY <1>2 DEF PairCloses, Linked, LinkedEnd, Proposed, Ids, PrimaryClasses
<1> QED
  BY <1>1, <1>2

LEMMA UnfreezeStep ==
    ASSUME Types, NEW id \in Ids, ExecuteUnfreeze(id)
    PROVE  \E other \in Ids \ {id} : PairEnded(id, other)
<1> DEFINE other == LinkedEnd(id).other
           end == LinkedEnd(id).state
           done == [proposals[id] EXCEPT !.state = "Completed", !.terminalAt = slot]
           closed == [proposals[other] EXCEPT !.state = end, !.terminalAt = slot]
<1>1. PairCloses(id) /\ EndPair(id)
  BY DEF ExecuteUnfreeze
<1>2. /\ ProposalValid(done)
      /\ ProposalValid(closed)
      /\ proposals' = [proposals EXCEPT ![id] = done, ![other] = closed]
  BY <1>1 DEF EndPair
<1>3. other \in Ids \ {id} /\ end \in {"SupersededByRollback", "Retired"}
  BY <1>1, PairLemma
<1>4. /\ proposals[id] \in ProposalRecord /\ Sound(proposals[id])
      /\ proposals[other] \in ProposalRecord /\ Sound(proposals[other])
      /\ slot \in Slots
  BY <1>3, RecordLemma
<1> HIDE DEF other, end
<1>5. /\ done \in ProposalRecord /\ done.state = "Completed"
      /\ SameManifest(proposals[id], done)
  BY <1>4 DEF ProposalRecord, Terminal, SameManifest
<1>6. /\ closed \in ProposalRecord /\ closed.state = end
      /\ SameManifest(proposals[other], closed)
  <2> DEFINE p == proposals[other]
  <2>1. p \in ProposalRecord
    BY <1>4
  <2> HIDE DEF p
  <2>2. end \in Terminal
    BY <1>3 DEF Terminal
  <2>3. [p EXCEPT !.state = end, !.terminalAt = slot] \in ProposalRecord
    BY <1>4, <2>1, <2>2 DEF ProposalRecord
  <2>4. /\ [p EXCEPT !.state = end, !.terminalAt = slot].state = end
        /\ SameManifest(p, [p EXCEPT !.state = end, !.terminalAt = slot])
    BY <2>1 DEF ProposalRecord, SameManifest
  <2> QED
    BY <2>3, <2>4 DEF p
<1>7. Sound(done) /\ Sound(closed)
  BY <1>2, <1>4, <1>5, <1>6 DEF Sound, SameManifest
<1> HIDE DEF done, closed
<1>8. /\ proposals' \in Seq(ProposalRecord)
      /\ Len(proposals') = Len(proposals)
      /\ proposals'[id] = done
      /\ proposals'[other] = closed
      /\ \A i \in Ids \ {id, other} : proposals'[i] = proposals[i]
  <2>1. proposals \in Seq(ProposalRecord) /\ id \in DOMAIN proposals /\ other \in DOMAIN proposals
    BY <1>3 DEF Types, ProposalTypes, Ids
  <2> QED
    BY <1>2, <1>3, <1>5, <1>6, <2>1 DEF Ids
<1> QED
  BY <1>1, <1>3, <1>5, <1>6, <1>7, <1>8, PairLemma DEF PairEnded, other, end

LEMMA PairKeeps ==
    ASSUME Types, NEW id \in Ids, NEW other \in Ids \ {id}, PairEnded(id, other)
    PROVE  ProposalsKept
<1>1. \A i \in Ids : SameManifest(proposals[i], proposals'[i])
  BY SameManifestReflexive DEF PairEnded
<1>2. \A i \in Ids : Sound(proposals'[i])
  BY RecordLemma DEF PairEnded
<1>3. Len(proposals) \in Nat
  BY DEF Types, ProposalTypes
<1> QED
  BY <1>1, <1>2, <1>3 DEF PairEnded, ProposalsKept, Ids

\* A new proposal is well formed.
LEMMA CreateStep ==
    ASSUME Types, NEW seat \in Seats, NEW m \in Plans, CreateProposal(seat, m)
    PROVE  NewStep
<1> DEFINE q == NewProposal(m)
<1>1. /\ m \in Manifest
      /\ Len(m.artifact) \in Nat \ {0}
  BY PayloadAssumption DEF Manifest
<1>2. /\ Len(m.artifact) <= m.minCapacity
      /\ m.minCapacity <= MaxPayload
      /\ ProposalValid(q)
      /\ proposals' = Append(proposals, q)
  BY DEF CreateProposal, ManifestReady
<1>3. m.minCapacity \in 1 .. MaxPayload
  BY <1>1, <1>2, BoundsAssumption DEF Manifest
<1>4. /\ slot \in Slots
      /\ ReviewEnd(Timing, slot) \in Nat
      /\ NotBefore(Timing, m.class, slot) \in Nat
      /\ Expiry(Timing, slot) \in Nat
  BY TimingAssumption DEF Types, ClockTypes, Slots, ReviewEnd, NotBefore, Expiry, ClassDelay
<1>5. /\ config.nonce \in Nat
      /\ config.council \in DOMAIN Councils
      /\ gate.status \in GateStatuses
      /\ gate.epoch \in 1 .. MaxEpoch
      /\ deployment.generation \in 1 .. MaxGeneration
  BY DEF Types, ConfigTypes, GateTypes, GateRecord, DeploymentTypes
<1>6. 0 \in Slots
  BY BoundsAssumption DEF Slots
<1>7. q \in ProposalRecord
  <2>1. /\ m.class \in Classes /\ m.buffer \in Buffers /\ m.artifact \in Artifacts
        /\ m.primary \in Nat /\ m.rollback \in Nat
        /\ m.rollbackBuffer \in {None} \cup Buffers
        /\ m.rollbackArtifact \in {NoDigest} \cup Artifacts
    BY <1>1 DEF Manifest
  <2>2. None \in Nat /\ "Draft" \in PreFreeze
    BY DEF None, PreFreeze
  <2> QED
    BY <1>3, <1>4, <1>5, <1>6, <2>1, <2>2 DEF NewProposal, ProposalRecord
<1>8. q.state = "Draft" /\ Sound(q)
  BY <1>2 DEF NewProposal, Sound
<1> QED
  BY <1>2, <1>7, <1>8 DEF NewStep

LEMMA NewKeeps ==
    ASSUME Types, NewStep
    PROVE  ProposalsKept
<1> PICK q \in ProposalRecord : Sound(q) /\ proposals' = Append(proposals, q)
  BY DEF NewStep
<1>1. /\ proposals \in Seq(ProposalRecord)
      /\ \A id \in Ids : Sound(proposals[id])
  BY RecordLemma DEF Types, ProposalTypes
<1>2. /\ proposals' \in Seq(ProposalRecord)
      /\ Len(proposals') = Len(proposals) + 1
      /\ Len(proposals) \in Nat
      /\ proposals'[Len(proposals) + 1] = q
      /\ \A id \in Ids : proposals'[id] = proposals[id]
  BY <1>1 DEF Ids
<1>3. \A id \in Ids' : id \in Ids \/ id = Len(proposals) + 1
  BY <1>2 DEF Ids
<1>4. \A id \in Ids' : Sound(proposals'[id])
  BY <1>1, <1>2, <1>3
<1>5. \A id \in Ids : SameManifest(proposals[id], proposals'[id])
  BY <1>2, SameManifestReflexive
<1>6. Len(proposals) <= Len(proposals')
  BY <1>2
<1> QED
  BY <1>2, <1>4, <1>5, <1>6 DEF ProposalsKept

\* An accepted checkpoint: of a proposal before or after its upgrade, or of a resolution.
Prestate(id, c) == FinalizeCheckpoint(ProposalSubject(id), "Prestate", c)
Poststate(id, c) == FinalizeCheckpoint(ProposalSubject(id), "Poststate", c)
Resolved(k, c) == FinalizeCheckpoint(ResolutionSubject(k[1], k[2]), "Emergency", c)

LEMMA CheckpointSteps ==
    ASSUME CheckpointNext
    PROVE  \/ UNCHANGED <<proposals, checkpoints, resolutions>>
           \/ \E id \in Ids :
                 \E c \in Attested(ProposalSubject(id), "Prestate", config.council) :
                    Prestate(id, c)
           \/ \E id \in Ids :
                 \E c \in Attested(ProposalSubject(id), "Poststate", config.council) :
                    Poststate(id, c)
           \/ \E k \in DOMAIN resolutions :
                 \E c \in Attested(ResolutionSubject(k[1], k[2]), "Emergency", config.council) :
                    Resolved(k, c)
<1>1. ASSUME NEW s \in CheckpointSubjects,
             NEW c \in Attested(s[1], s[2], config.council),
             FinalizeCheckpoint(s[1], s[2], c)
      PROVE  \/ \E id \in Ids :
                   \E d \in Attested(ProposalSubject(id), "Prestate", config.council) :
                      Prestate(id, d)
             \/ \E id \in Ids :
                   \E d \in Attested(ProposalSubject(id), "Poststate", config.council) :
                      Poststate(id, d)
             \/ \E k \in DOMAIN resolutions :
                   \E d \in Attested(ResolutionSubject(k[1], k[2]), "Emergency",
                                     config.council) :
                      Resolved(k, d)
  <2>1. CASE \E id \in Ids : s = <<ProposalSubject(id), "Prestate">>
    <3> PICK id \in Ids : s = <<ProposalSubject(id), "Prestate">>
      BY <2>1
    <3>1. s[1] = ProposalSubject(id) /\ s[2] = "Prestate"
      OBVIOUS
    <3> QED
      BY <1>1, <3>1 DEF Prestate
  <2>2. CASE \E id \in Ids : s = <<ProposalSubject(id), "Poststate">>
    <3> PICK id \in Ids : s = <<ProposalSubject(id), "Poststate">>
      BY <2>2
    <3>1. s[1] = ProposalSubject(id) /\ s[2] = "Poststate"
      OBVIOUS
    <3> QED
      BY <1>1, <3>1 DEF Poststate
  <2>3. CASE \E k \in DOMAIN resolutions :
                s = <<ResolutionSubject(k[1], k[2]), "Emergency">>
    <3> PICK k \in DOMAIN resolutions : s = <<ResolutionSubject(k[1], k[2]), "Emergency">>
      BY <2>3
    <3>1. s[1] = ResolutionSubject(k[1], k[2]) /\ s[2] = "Emergency"
      OBVIOUS
    <3> QED
      BY <1>1, <3>1 DEF Resolved
  <2> QED
    BY <2>1, <2>2, <2>3 DEF CheckpointSubjects, Ids
<1> QED
  BY <1>1, CheckpointFrame

LEMMA PoststateStep ==
    ASSUME Types, NEW id \in Ids, NEW c, Poststate(id, c)
    PROVE  /\ Becomes(id, FlightMove(id, "PoststateAccepted"))
           /\ proposals[id].state = "ProgramDataVerified"
           /\ FrozenFor(id)
           /\ UNCHANGED resolutions
<1>1. ProposalSubject(id)[2] = id
  BY DEF ProposalSubject
<1>2. PoststateBinding(id, c.observation)
  BY <1>1 DEF Poststate, FinalizeCheckpoint, CheckpointBinding
<1>3. /\ Store(id, FlightMove(id, "PoststateAccepted"))
      /\ UNCHANGED resolutions
  BY <1>1 DEF Poststate, FinalizeCheckpoint, SubjectAfterCheckpoint, FlightMove
<1>4. "PoststateAccepted" \in FrozenOrLater
  BY DEF FrozenOrLater, UpgradedStates, VerifiedStates, UnfreezeStates
<1> QED
  BY <1>2, <1>3, <1>4, FlightMoveStep DEF PoststateBinding

LEMMA PrestateStep ==
    ASSUME NEW id \in Ids, NEW c, Prestate(id, c)
    PROVE  UNCHANGED <<proposals, resolutions>> /\ PrestateBinding(id, c.observation)
<1>1. ProposalSubject(id)[2] = id
  BY DEF ProposalSubject
<1> QED
  BY <1>1
  DEF Prestate, FinalizeCheckpoint, CheckpointBinding, SubjectAfterCheckpoint

LEMMA ResolvedStep ==
    ASSUME NEW k, NEW c, Resolved(k, c)
    PROVE  /\ UNCHANGED proposals
           /\ resolutions' = [resolutions EXCEPT ![<<k[1], k[2]>>].checkpoint = c]
<1>1. ResolutionSubject(k[1], k[2])[2] = k[1] /\ ResolutionSubject(k[1], k[2])[3] = k[2]
  BY DEF ResolutionSubject
<1> QED
  BY <1>1 DEF Resolved, FinalizeCheckpoint, SubjectAfterCheckpoint

LEMMA FreezeProposalStep ==
    ASSUME Types, NEW id \in Ids, FreezeProposal(id)
    PROVE  Becomes(id, FrozenNow(id)) /\ proposals[id].state = "Timelocked"
BY FreezeStep DEF FreezeProposal, FreezeDue, FrozenNow

LEMMA ActivateStep ==
    ASSUME Types, NEW id \in Ids, ActivateRollback(id)
    PROVE  /\ proposals[id].rollback \in Ids \ {id}
           /\ Becomes(proposals[id].rollback, FrozenNow(proposals[id].rollback))
           /\ proposals[proposals[id].rollback].state = "Timelocked"
<1> DEFINE r == proposals[id].rollback
<1>1. /\ Linked(id, r)
      /\ proposals[r].state = "Timelocked"
      /\ HandOverTo(r)
  BY DEF ActivateRollback
<1>2. r \in Ids \ {id}
  BY <1>1 DEF Linked, Proposed, Ids, PrimaryClasses
<1>3. Store(r, FrozenNow(r))
  BY <1>1 DEF HandOverTo, FrozenNow
<1> QED
  BY <1>1, <1>2, <1>3, FreezeStep

LEMMA VerifyStep ==
    ASSUME Types, NEW id \in Ids, FinalizeVerification(id)
    PROVE  /\ Becomes(id, FlightMove(id, "ProgramDataVerified"))
           /\ proposals[id].state = "UpgradeExecuted"
<1>1. "ProgramDataVerified" \in FrozenOrLater
  BY DEF FrozenOrLater, UpgradedStates, VerifiedStates
<1>2. Store(id, FlightMove(id, "ProgramDataVerified"))
  BY DEF FinalizeVerification, FlightMove
<1> QED
  BY <1>1, <1>2, FlightMoveStep DEF FinalizeVerification

-------------------------------------------------------------------------------
(* Every way the proposals change *)

ProposalChange ==
    \/ UNCHANGED proposals
    \/ NewStep
    \/ PendingStep
    \/ \E id \in Ids : FreezeProposal(id)
    \/ \E id \in Ids, seat \in Seats : ApproveUnfreeze(id, seat)
    \/ \E id \in Ids : ExecuteUnfreeze(id)
    \/ \E id \in Ids :
          \E c \in Attested(ProposalSubject(id), "Poststate", config.council) :
             Poststate(id, c)
    \/ \E id \in Ids, o \in observations :
          \E payload \in {buffers[proposals[id].buffer].artifact} \cup Damage :
             ExecuteUpgrade(id, o, payload)
    \/ \E id \in Ids : FinalizeVerification(id)
    \/ \E id \in Ids : ActivateRollback(id)

LEMMA ProposalSteps ==
    ASSUME Types, Next
    PROVE  ProposalChange
<1>1. CASE ProposalNext
  <2>1. ASSUME NEW id \in Ids, FinalizeGovernance(id)  PROVE PendingStep
    BY <2>1, AdvanceStep DEF FinalizeGovernance, PreFreeze, PreFreezeEnds
  <2>2. ASSUME NEW id \in Ids, QueueProposal(id)  PROVE PendingStep
    BY <2>2, AdvanceStep DEF QueueProposal, PreFreeze, PreFreezeEnds
  <2>3. ASSUME NEW id \in Ids, ExpireProposal(id)  PROVE PendingStep
    BY <2>3, MoveStep, RecordLemma DEF ExpireProposal, PreFreezeEnds
  <2> QED
    BY <1>1, <2>1, <2>2, <2>3, CreateStep, ApproveStep, CancelStep
    DEF ProposalNext, ProposalChange
<1>2. CASE CheckpointNext
  BY <1>2, CheckpointSteps, PrestateStep, ResolvedStep DEF ProposalChange
<1>3. CASE EmergencyNext
  BY <1>3, EmergencyFrame DEF ProposalChange
<1>4. CASE CustodyNext
  <2>1. ASSUME NEW id \in Ids, AdoptBuffer(id)  PROVE PendingStep
    BY <2>1, AdvanceStep DEF AdoptBuffer, PreFreeze, PreFreezeEnds
  <2>2. ASSUME NEW id \in Ids, FinalizeBuffer(id)  PROVE PendingStep
    BY <2>2, AdvanceStep DEF FinalizeBuffer, PreFreeze, PreFreezeEnds
  <2>3. ASSUME NEW id \in Ids, NEW chunk, VerifyBufferChunk(id, chunk)  PROVE UNCHANGED proposals
    BY <2>3 DEF VerifyBufferChunk
  <2>4. ASSUME NEW id \in Ids, CloseAbandonedBuffer(id)  PROVE UNCHANGED proposals
    BY <2>4 DEF CloseAbandonedBuffer
  <2>5. ASSUME NEW id \in Ids, NEW o, BindVerification(id, o)  PROVE UNCHANGED proposals
    BY <2>5 DEF BindVerification
  <2> QED
    BY <1>4, <2>1, <2>2, <2>3, <2>4, <2>5, CustodyFrame DEF ProposalChange
<1>5. CASE Surroundings
  BY <1>5, SurroundingsFrame DEF ProposalChange
<1> QED
  BY <1>1, <1>2, <1>3, <1>4, <1>5 DEF Next

LEMMA ProposalsLemma ==
    ASSUME Types, Next
    PROVE  ProposalsKept
<1>1. ASSUME NEW id \in Ids, NEW q, Becomes(id, q)  PROVE ProposalsKept
  BY <1>1, BecomesKeeps DEF Types, Becomes
<1>2. CASE UNCHANGED proposals
  BY <1>2, SameManifestReflexive, RecordLemma DEF ProposalsKept, Types, ProposalTypes, Ids
<1>3. CASE \E id \in Ids : ExecuteUnfreeze(id)
  BY <1>3, UnfreezeStep, PairKeeps
<1> QED
  BY <1>1, <1>2, <1>3, ProposalSteps, NewKeeps, FreezeProposalStep, ApproveUnfreezeStep,
     PoststateStep, UpgradeStep, VerifyStep, ActivateStep
  DEF ProposalChange, PendingStep

-------------------------------------------------------------------------------
(* Every way the other accounts change *)

LEMMA GateSteps ==
    ASSUME Next
    PROVE  \/ UNCHANGED gate
           \/ \E id \in Ids : FreezeProposal(id)
           \/ \E id \in Ids : ExecuteUnfreeze(id)
           \/ GuardianFreeze
           \/ \E epoch \in DOMAIN freezes : ExecuteEmergencyResolution(epoch)
           \/ \E id \in Ids : ActivateRollback(id)
BY ProposalFrame, CheckpointFrame, EmergencyFrame, CustodyFrame, SurroundingsFrame
DEF Next, controller

LEMMA ConfigSteps ==
    ASSUME Next
    PROVE  \/ UNCHANGED config
           \/ \E id \in Ids : FreezeProposal(id)
           \/ UNCHANGED gate /\ \E v \in DOMAIN Councils : RotateCouncil(v)
BY ProposalFrame, CheckpointFrame, EmergencyFrame, CustodyFrame, SurroundingsFrame
DEF Next, controller

LEMMA DeploymentSteps ==
    ASSUME Next
    PROVE  \/ UNCHANGED deployment
           \/ \E id \in Ids : ExecuteUnfreeze(id)
           \/ \E epoch \in DOMAIN freezes : ExecuteEmergencyResolution(epoch)
BY ProposalFrame, CheckpointFrame, EmergencyFrame, CustodyFrame, SurroundingsFrame
DEF Next, controller

LEMMA RuntimeSteps ==
    ASSUME Next
    PROVE  \/ UNCHANGED runtime
           \/ GrowProgram /\ UNCHANGED slot
           \/ UNCHANGED slot
                /\ \E id \in Ids, o \in observations :
                      \E payload \in {buffers[proposals[id].buffer].artifact} \cup Damage :
                         ExecuteUpgrade(id, o, payload)
BY ProposalFrame, CheckpointFrame, EmergencyFrame, CustodyFrame, SurroundingsFrame
DEF Next, custody

LEMMA SlotSteps ==
    ASSUME Next
    PROVE  slot' = slot \/ (slot < MaxSlot /\ slot' = slot + 1)
BY ProposalFrame, CheckpointFrame, EmergencyFrame, CustodyFrame, SurroundingsFrame DEF Next

LEMMA ObservationSteps ==
    ASSUME Next
    PROVE  \/ UNCHANGED observations
           \/ \E plan \in ObservationPlans : BeginObservation(plan)
           \/ \E o \in observations : FinalizeObservation(o)
BY ProposalFrame, CheckpointFrame, EmergencyFrame, CustodyFrame, SurroundingsFrame
DEF Next, evidence

LEMMA VerificationSteps ==
    ASSUME Next
    PROVE  \/ UNCHANGED verifications
           \/ UNCHANGED observations
                /\ \E id \in Ids, o \in observations : BindVerification(id, o)
           \/ UNCHANGED observations /\ \E id \in Ids : FinalizeVerification(id)
BY ProposalFrame, CheckpointFrame, EmergencyFrame, CustodyFrame, SurroundingsFrame
DEF Next, evidence

LEMMA FailureSteps ==
    ASSUME Next
    PROVE  UNCHANGED failures \/ \E id \in Ids : ObserveFailure(id)
BY ProposalFrame, CheckpointFrame, EmergencyFrame, CustodyFrame, SurroundingsFrame
DEF Next, evidence

LEMMA FreezesSteps ==
    ASSUME Next
    PROVE  UNCHANGED freezes \/ GuardianFreeze
BY ProposalFrame, CheckpointFrame, EmergencyFrame, CustodyFrame, SurroundingsFrame
DEF Next, emergency

\* A buffer changes hands with its check, or is written by its uploader.
LEMMA BufferSteps ==
    ASSUME Next
    PROVE  \/ UNCHANGED <<buffers, checks>>
           \/ \E id \in Ids :
                 \/ AdoptBuffer(id)
                 \/ \E chunk \in DOMAIN proposals[id].artifact : VerifyBufferChunk(id, chunk)
                 \/ FinalizeBuffer(id)
                 \/ CloseAbandonedBuffer(id)
           \/ \E id \in Ids, o \in observations :
                 \E payload \in {buffers[proposals[id].buffer].artifact} \cup Damage :
                    ExecuteUpgrade(id, o, payload)
           \/ UNCHANGED checks
                /\ \E b \in Buffers, artifact \in Artifacts : Upload(b, artifact)
BY ProposalFrame, CheckpointFrame, EmergencyFrame, CustodyFrame, SurroundingsFrame
DEF Next, custody

LEMMA PoststateKeeps ==
    ASSUME NEW id \in Ids, NEW c, Poststate(id, c)
    PROVE  UNCHANGED resolutions
BY DEF Poststate, FinalizeCheckpoint, SubjectAfterCheckpoint

LEMMA ResolutionSteps ==
    ASSUME Next
    PROVE  \/ UNCHANGED resolutions
           \/ UNCHANGED observations /\ EmergencyNext
           \/ /\ UNCHANGED observations
              /\ \E k \in DOMAIN resolutions :
                    \E c \in Attested(ResolutionSubject(k[1], k[2]), "Emergency",
                                      config.council) :
                       Resolved(k, c)
<1>1. CASE CheckpointNext
  BY <1>1, CheckpointFrame, CheckpointSteps, PrestateStep, PoststateKeeps
<1> QED
  BY <1>1, ProposalFrame, EmergencyFrame, CustodyFrame, SurroundingsFrame
  DEF Next, emergency, evidence

-------------------------------------------------------------------------------
(* Types are kept *)

LEMMA ClockLemma ==
    ASSUME Types, Next
    PROVE  ClockTypes'
BY SlotSteps, BoundsAssumption DEF Types, ClockTypes

\* A gate that closes, or is handed over, under the next epoch.
LEMMA FrozenGateLemma ==
    ASSUME Types, NextEpoch(gate.epoch),
           NEW status \in {"FrozenForUpgrade", "EmergencyFrozen"}, NEW id \in Nat,
           NEW reason \in {"governed", "guardian", "rollback"}
    PROVE  LET g == FrozenGate(gate, status, gate.epoch + 1, id, reason) IN
           /\ g \in GateRecord
           /\ g.status = status
           /\ g.epoch = gate.epoch + 1
           /\ g.active = id
           /\ g.freezeSlot = slot
           /\ g.reason = reason
<1>1. gate \in GateRecord /\ slot \in Slots
  BY BoundsAssumption DEF Types, GateTypes, ClockTypes, Slots
<1>2. gate.epoch + 1 \in 1 .. MaxEpoch
  BY <1>1, BoundsAssumption DEF GateRecord, NextEpoch
<1> QED
  BY <1>1, <1>2 DEF FrozenGate, GateRecord, GateStatuses

\* A gate that opens under the next epoch.
LEMMA ActiveGateLemma ==
    ASSUME Types, NextEpoch(gate.epoch)
    PROVE  LET g == ActiveGate(gate, gate.epoch + 1) IN
           /\ g \in GateRecord
           /\ g.status = "Active"
           /\ g.epoch = gate.epoch + 1
           /\ g.active = None
<1>1. gate \in GateRecord /\ 0 \in Slots
  BY BoundsAssumption DEF Types, GateTypes, Slots
<1>2. gate.epoch + 1 \in 1 .. MaxEpoch
  BY <1>1, BoundsAssumption DEF GateRecord, NextEpoch
<1> QED
  BY <1>1, <1>2 DEF ActiveGate, GateRecord, GateStatuses, None

\* The five steps that write the gate.
LEMMA FreezeGateStep ==
    ASSUME Types, NEW id \in Ids, FreezeProposal(id)
    PROVE  /\ gate' \in GateRecord /\ GateValid(gate')
           /\ gate.status \in {"Active", "EmergencyFrozen"} /\ gate.active = None
           /\ gate'.status = "FrozenForUpgrade"
           /\ gate'.active = id
           /\ gate'.epoch = gate.epoch + 1
           /\ gate'.freezeSlot = slot
           /\ config.nonce = proposals[id].nonce
           /\ config' = [config EXCEPT !.nonce = @ + 1]
<1>1. /\ CreationGate(proposals[id])
      /\ NextEpoch(gate.epoch)
      /\ CloseGateFor(id)
  BY DEF FreezeProposal, FreezeDue
<1>2. id \in Nat
  BY DEF Ids
<1> QED
  BY <1>1, <1>2, FrozenGateLemma DEF CloseGateFor, CreationGate

LEMMA GuardianGateStep ==
    ASSUME Types, GuardianFreeze
    PROVE  /\ gate' \in GateRecord /\ GateValid(gate')
           /\ gate.status = "Active"
           /\ gate'.status = "EmergencyFrozen"
           /\ gate'.active = None
           /\ gate'.epoch = gate.epoch + 1
<1>1. None \in Nat
  BY DEF None
<1> QED
  BY <1>1, FrozenGateLemma DEF GuardianFreeze

LEMMA ResolveGateStep ==
    ASSUME Types, NEW epoch, ExecuteEmergencyResolution(epoch)
    PROVE  /\ gate' \in GateRecord /\ GateValid(gate')
           /\ gate.status = "EmergencyFrozen"
           /\ gate.epoch = epoch
           /\ gate'.status = "Active"
           /\ gate'.active = None
           /\ gate'.epoch = gate.epoch + 1
BY ActiveGateLemma DEF ExecuteEmergencyResolution, EmergencyEvidence, ResolutionLoads

LEMMA UnfreezeGateStep ==
    ASSUME Types, NEW id \in Ids, ExecuteUnfreeze(id)
    PROVE  /\ gate' \in GateRecord /\ GateValid(gate')
           /\ FrozenFor(id)
           /\ gate'.status = "Active"
           /\ gate'.active = None
           /\ gate'.epoch = gate.epoch + 1
<1>1. /\ FrozenFor(id)
      /\ NextEpoch(gate.epoch)
      /\ ReopenAfter(id)
  BY DEF ExecuteUnfreeze, UnfreezeEvidence
<1>2. id \in Nat
  BY DEF Ids
<1> QED
  BY <1>1, <1>2, ActiveGateLemma DEF ReopenAfter, GateRecord

LEMMA ActivateGateStep ==
    ASSUME Types, NEW id \in Ids, ActivateRollback(id)
    PROVE  /\ gate' \in GateRecord /\ GateValid(gate')
           /\ FrozenFor(id)
           /\ gate'.status = "FrozenForUpgrade"
           /\ gate'.active = proposals[id].rollback
           /\ gate'.epoch = gate.epoch + 1
           /\ gate'.freezeSlot = slot
           /\ config.nonce = proposals[proposals[id].rollback].nonce + 1
<1> DEFINE r == proposals[id].rollback
<1>1. /\ CustodyGuard(id)
      /\ proposals[id].state = "UpgradeExecuted"
      /\ config.nonce = proposals[r].nonce + 1
      /\ NextEpoch(gate.epoch)
      /\ HandOverTo(r)
  BY DEF ActivateRollback
<1>2. FrozenFor(id)
  BY <1>1 DEF CustodyGuard, FrozenOrLater, UpgradedStates, Terminal
<1>3. r \in Nat
  BY RecordLemma DEF ProposalRecord
<1> HIDE DEF r
<1>4. /\ gate' = FrozenGate(gate, "FrozenForUpgrade", gate.epoch + 1, r, "rollback")
      /\ GateValid(gate')
  BY <1>1 DEF HandOverTo
<1> QED
  BY <1>1, <1>2, <1>3, <1>4, FrozenGateLemma DEF r

\* The epoch never falls, and a closing or opening gate has a new one.
LEMMA EpochLemma ==
    ASSUME Types, Next
    PROVE  /\ gate' \in GateRecord /\ GateValid(gate')
           /\ gate.epoch \in Nat
           /\ UNCHANGED gate \/ gate'.epoch = gate.epoch + 1
<1>1. gate \in GateRecord /\ GateValid(gate) /\ gate.epoch \in Nat
  BY BoundsAssumption DEF Types, GateTypes, GateRecord
<1> QED
  BY <1>1, GateSteps, FreezeGateStep, GuardianGateStep, ResolveGateStep, UnfreezeGateStep,
     ActivateGateStep

LEMMA ConfigLemma ==
    ASSUME Types, Next
    PROVE  ConfigTypes'
<1>1. /\ config \in [nonce : 1 .. MaxEpoch, council : DOMAIN Councils]
      /\ config.nonce <= gate.epoch
      /\ config.nonce \in Nat /\ gate.epoch \in Nat /\ gate.epoch <= MaxEpoch
      /\ MaxEpoch \in Nat
  BY BoundsAssumption DEF Types, ConfigTypes, GateTypes, GateRecord
<1>2. CASE UNCHANGED config
  BY <1>1, <1>2, EpochLemma DEF ConfigTypes
<1>3. CASE \E id \in Ids : FreezeProposal(id)
  <2> PICK id \in Ids : FreezeProposal(id)
    BY <1>3
  <2>1. /\ gate'.epoch = gate.epoch + 1
        /\ config' = [config EXCEPT !.nonce = @ + 1]
        /\ gate'.epoch <= MaxEpoch
    BY BoundsAssumption, FreezeGateStep DEF GateRecord
  <2>2. config.nonce + 1 \in 1 .. MaxEpoch /\ config.nonce + 1 <= gate'.epoch
    BY <1>1, <2>1
  <2> QED
    BY <1>1, <2>1, <2>2 DEF ConfigTypes
<1>4. CASE UNCHANGED gate /\ \E v \in DOMAIN Councils : RotateCouncil(v)
  BY <1>1, <1>4 DEF ConfigTypes, RotateCouncil
<1> QED
  BY <1>2, <1>3, <1>4, ConfigSteps

LEMMA DeploymentLemma ==
    ASSUME Types, Next
    PROVE  DeploymentTypes'
<1>1. /\ deployment \in [artifact : Artifacts, capacity : Nat, deployed : Nat, epoch : Nat,
                         completed : Nat, generation : 1 .. MaxGeneration]
      /\ gate.epoch + 1 \in Nat
      /\ slot \in Nat
      /\ runtime.deployed \in Nat /\ runtime.capacity \in Nat
      /\ MaxGeneration \in Nat
  <2>1. /\ deployment \in [artifact : Artifacts, capacity : Nat, deployed : Nat, epoch : Nat,
                           completed : Nat, generation : 1 .. MaxGeneration]
        /\ gate \in GateRecord
        /\ slot \in 1 .. MaxSlot
        /\ runtime \in [artifact : Artifacts \cup Damage, deployed : Nat,
                        capacity : 1 .. MaxPayload]
    BY DEF Types, DeploymentTypes, GateTypes, ClockTypes, RuntimeTypes
  <2>2. MaxSlot \in Nat /\ MaxPayload \in Nat /\ MaxGeneration \in Nat
    BY BoundsAssumption
  <2>3. gate.epoch \in Nat
    BY EpochLemma
  <2>4. runtime.deployed \in Nat /\ runtime.capacity \in 1 .. MaxPayload
    BY <2>1
  <2> QED
    BY <2>1, <2>2, <2>3, <2>4
<1>2. NextNumber(deployment.generation) => deployment.generation + 1 \in 1 .. MaxGeneration
  BY <1>1 DEF NextNumber
<1>3. ASSUME NEW id \in Ids, ExecuteUnfreeze(id)  PROVE DeploymentTypes'
  <2>1. /\ deployment' = ActivatedDeployment(id)
        /\ NextNumber(deployment.generation)
        /\ runtime.deployed = verifications[id].observation.deployed
        /\ runtime.capacity = verifications[id].observation.capacity
    BY <1>3 DEF ExecuteUnfreeze, UnfreezeEvidence, VerifiedLive
  <2>2. proposals[id].artifact \in Artifacts /\ id \in Nat
    BY RecordLemma DEF ProposalRecord, Ids
  <2> QED
    BY <1>1, <1>2, <2>1, <2>2 DEF ActivatedDeployment, DeploymentTypes
<1>4. ASSUME NEW epoch, ExecuteEmergencyResolution(epoch)  PROVE DeploymentTypes'
  <2> DEFINE o == resolutions[<<epoch, config.council>>].observation
  <2>1. /\ deployment' = RenewedDeployment(o)
        /\ NextNumber(deployment.generation)
        /\ o.deployed = runtime.deployed
        /\ o.capacity = runtime.capacity
    BY <1>4 DEF ExecuteEmergencyResolution, ObservationLive
  <2> QED
    BY <1>1, <1>2, <2>1 DEF RenewedDeployment, DeploymentTypes
<1> QED
  BY <1>1, <1>3, <1>4, DeploymentSteps DEF DeploymentTypes

\* An upgrade: what it requires of the proposal, the program and the buffer.
LEMMA UpgradeFacts ==
    ASSUME Types, NEW id \in Ids, NEW o,
           NEW payload \in {buffers[proposals[id].buffer].artifact} \cup Damage,
           ExecuteUpgrade(id, o, payload)
    PROVE  /\ proposals[id].state \in {"Frozen", "Extended"}
           /\ FrozenFor(id)
           /\ payload \in Artifacts \cup Damage
           /\ Len(payload) <= runtime.capacity
           /\ runtime.deployed < slot
           /\ runtime' = [runtime EXCEPT !.artifact = payload, !.deployed = slot]
           /\ proposals[id].notBefore <= slot
           /\ slot < proposals[id].expiry
<1>1. /\ proposals[id].state \in {"Frozen", "Extended"}
      /\ CustodyGuard(id)
      /\ proposals[id].minCapacity <= runtime.capacity
      /\ Len(buffers[proposals[id].buffer].artifact) = Len(proposals[id].artifact)
      /\ \/ payload = buffers[proposals[id].buffer].artifact
         \/ payload \in Damage /\ Len(payload) <= runtime.capacity
      /\ LoaderReady
      /\ runtime' = [runtime EXCEPT !.artifact = payload, !.deployed = slot]
      /\ proposals[id].notBefore <= slot
      /\ slot < proposals[id].expiry
  BY DEF ExecuteUpgrade, ExecutionDue, FitsRuntime, BufferSealed, Upgraded
<1>2. FrozenFor(id)
  BY <1>1 DEF CustodyGuard, FrozenOrLater, Terminal
<1>3. /\ proposals[id].buffer \in Buffers
      /\ proposals[id].artifact \in Artifacts
      /\ proposals[id].minCapacity \in Nat
      /\ Len(proposals[id].artifact) <= proposals[id].minCapacity
  <2>1. proposals[id] \in ProposalRecord /\ Sound(proposals[id])
    BY RecordLemma
  <2>2. /\ proposals[id].buffer \in Buffers
        /\ proposals[id].artifact \in Artifacts
        /\ proposals[id].minCapacity \in 1 .. MaxPayload
    BY <2>1 DEF ProposalRecord
  <2> QED
    BY <2>1, <2>2, BoundsAssumption DEF Sound
<1>4. buffers[proposals[id].buffer].artifact \in Artifacts
  BY <1>3 DEF Types, BufferTypes, BufferRecord
<1>5. Len(proposals[id].artifact) \in Nat /\ runtime.capacity \in Nat
  BY <1>3, PayloadAssumption, BoundsAssumption DEF Types, RuntimeTypes
<1>6. Len(payload) <= runtime.capacity
  BY <1>1, <1>3, <1>5
<1> QED
  BY <1>1, <1>2, <1>4, <1>6 DEF LoaderReady

LEMMA RuntimeLemma ==
    ASSUME Types, Next
    PROVE  RuntimeTypes'
<1>1. /\ runtime \in [artifact : Artifacts \cup Damage, deployed : Nat,
                      capacity : 1 .. MaxPayload]
      /\ runtime.deployed \in 1 .. slot
      /\ Len(runtime.artifact) <= runtime.capacity
      /\ slot \in Nat \ {0}
      /\ MaxPayload \in Nat
      /\ Len(runtime.artifact) \in Nat
  BY BoundsAssumption, PayloadAssumption DEF Types, RuntimeTypes, ClockTypes
<1>2. CASE UNCHANGED runtime
  BY <1>1, <1>2, SlotSteps DEF RuntimeTypes
<1>3. CASE GrowProgram /\ UNCHANGED slot
  <2>1. /\ runtime' = [runtime EXCEPT !.capacity = @ + 1, !.deployed = slot]
        /\ runtime.capacity < MaxPayload
    BY <1>3 DEF GrowProgram
  <2>2. runtime.capacity + 1 \in 1 .. MaxPayload /\ runtime.capacity \in Nat
    BY <1>1, <2>1
  <2>3. /\ runtime' \in [artifact : Artifacts \cup Damage, deployed : Nat,
                         capacity : 1 .. MaxPayload]
        /\ runtime'.deployed = slot
        /\ runtime'.artifact = runtime.artifact
        /\ runtime'.capacity = runtime.capacity + 1
    BY <1>1, <2>1, <2>2
  <2> QED
    BY <1>1, <1>3, <2>2, <2>3 DEF RuntimeTypes
<1>4. ASSUME NEW id \in Ids, NEW o,
             NEW payload \in {buffers[proposals[id].buffer].artifact} \cup Damage,
             ExecuteUpgrade(id, o, payload), UNCHANGED slot
      PROVE  RuntimeTypes'
  <2>1. /\ payload \in Artifacts \cup Damage
        /\ Len(payload) <= runtime.capacity
        /\ runtime' = [runtime EXCEPT !.artifact = payload, !.deployed = slot]
    BY <1>4, UpgradeFacts
  <2>2. /\ runtime' \in [artifact : Artifacts \cup Damage, deployed : Nat,
                         capacity : 1 .. MaxPayload]
        /\ runtime'.deployed = slot
        /\ runtime'.artifact = payload
        /\ runtime'.capacity = runtime.capacity
    BY <1>1, <2>1
  <2> QED
    BY <1>1, <1>4, <2>1, <2>2 DEF RuntimeTypes
<1> QED
  BY <1>2, <1>3, <1>4, RuntimeSteps

LEMMA BufferLemma ==
    ASSUME Types, Next
    PROVE  BufferTypes'
<1>1. buffers \in [Buffers -> BufferRecord]
  BY DEF Types, BufferTypes
<1>2. \A id \in Ids : \A authority \in {"controller", "closed"} :
         [buffers EXCEPT ![proposals[id].buffer].authority = authority]
            \in [Buffers -> BufferRecord]
  BY <1>1 DEF BufferRecord
<1>3. ASSUME NEW id \in Ids, AdoptBuffer(id)  PROVE BufferTypes'
  BY <1>2, <1>3 DEF AdoptBuffer, BufferTypes
<1>4. ASSUME NEW id \in Ids, CloseAbandonedBuffer(id)  PROVE BufferTypes'
  BY <1>2, <1>4 DEF CloseAbandonedBuffer, BufferTypes
<1>5. ASSUME NEW id \in Ids, NEW o, NEW payload, ExecuteUpgrade(id, o, payload)
      PROVE  BufferTypes'
  BY <1>2, <1>5 DEF ExecuteUpgrade, Upgraded, BufferTypes
<1>6. ASSUME NEW b \in Buffers, NEW artifact \in Artifacts, Upload(b, artifact)
      PROVE  BufferTypes'
  BY <1>1, <1>6 DEF Upload, BufferTypes, BufferRecord
<1>7. ASSUME NEW id \in Ids, NEW chunk, VerifyBufferChunk(id, chunk)  PROVE BufferTypes'
  BY <1>1, <1>7 DEF VerifyBufferChunk, BufferTypes
<1>8. ASSUME NEW id \in Ids, FinalizeBuffer(id)  PROVE BufferTypes'
  BY <1>1, <1>8 DEF FinalizeBuffer, BufferTypes
<1> QED
  BY <1>1, <1>3, <1>4, <1>5, <1>6, <1>7, <1>8, BufferSteps DEF BufferTypes

\* A check that is marked, or set to a status, is still one.
LEMMA CheckStatusLemma ==
    ASSUME CheckTypes, NEW id \in DOMAIN checks,
           NEW status \in {"Verified", "ConsumedByUpgrade", "ClosedAbandoned"},
           checks' = [checks EXCEPT ![id].status = status]
    PROVE  /\ DOMAIN checks' = DOMAIN checks
           /\ checks' \in [DOMAIN checks -> CheckRecord]
           /\ checks'[id].status = status
           /\ checks'[id].verified = checks[id].verified
           /\ \A other \in DOMAIN checks \ {id} : checks'[other] = checks[other]
BY DEF CheckTypes, CheckRecord

Marks(id, chunk, count) ==
    checks' = [checks EXCEPT ![id] = MarkedChunk(@, chunk, count)]

LEMMA MarkedLemma ==
    ASSUME CheckTypes, NEW id \in DOMAIN checks, NEW chunk \in Nat, NEW count,
           Marks(id, chunk, count)
    PROVE  /\ DOMAIN checks' = DOMAIN checks
           /\ checks' \in [DOMAIN checks -> CheckRecord]
           /\ checks'[id].verified = checks[id].verified \cup {chunk}
           /\ checks'[id].status \in {"ReadyToFinalize", "Verifying"}
           /\ checks'[id].status = "ReadyToFinalize" =>
                 Cardinality(checks[id].verified \cup {chunk}) = count
           /\ \A other \in DOMAIN checks \ {id} : checks'[other] = checks[other]
<1> DEFINE verified == checks[id].verified \cup {chunk}
           status == IF Cardinality(verified) = count THEN "ReadyToFinalize" ELSE "Verifying"
           marked == [checks[id] EXCEPT !.verified = verified, !.status = status]
<1>1. checks[id] \in CheckRecord
  BY DEF CheckTypes
<1>2. verified \in SUBSET Nat
  BY <1>1 DEF CheckRecord
<1>3. /\ status \in {"ReadyToFinalize", "Verifying"}
      /\ status = "ReadyToFinalize" => Cardinality(verified) = count
  OBVIOUS
<1>4. checks' = [checks EXCEPT ![id] = marked]
  BY DEF Marks, MarkedChunk
<1> HIDE DEF verified, status
<1>5. marked \in CheckRecord /\ marked.verified = verified /\ marked.status = status
  BY <1>1, <1>2, <1>3 DEF CheckRecord
<1> HIDE DEF marked
<1>6. /\ DOMAIN checks' = DOMAIN checks
      /\ checks' \in [DOMAIN checks -> CheckRecord]
      /\ checks'[id] = marked
      /\ \A other \in DOMAIN checks \ {id} : checks'[other] = checks[other]
  BY <1>4, <1>5 DEF CheckTypes
<1> QED
  BY <1>3, <1>5, <1>6 DEF verified

LEMMA AdoptLemma ==
    ASSUME CheckTypes, NEW id \in Ids, id \notin DOMAIN checks,
           proposals[id].buffer \in Buffers,
           checks' = Put(checks, id, AdoptedCheck(proposals[id]))
    PROVE  /\ DOMAIN checks' = DOMAIN checks \cup {id}
           /\ checks' \in [DOMAIN checks' -> CheckRecord]
           /\ checks'[id].status = "Adopted"
           /\ checks'[id].verified = {}
           /\ \A other \in DOMAIN checks : checks'[other] = checks[other]
BY DEF CheckTypes, CheckRecord, Put, AdoptedCheck

\* Every way a check changes.
CheckChange ==
    \/ UNCHANGED <<buffers, checks>>
    \/ /\ UNCHANGED checks
       /\ \E b \in Buffers, artifact \in Artifacts : Upload(b, artifact)
    \/ \E id \in Ids \ DOMAIN checks :
          /\ buffers[proposals[id].buffer].authority = "uploader"
          /\ Len(buffers[proposals[id].buffer].artifact) = Len(proposals[id].artifact)
          /\ buffers' = [buffers EXCEPT ![proposals[id].buffer].authority = "controller"]
          /\ checks' = Put(checks, id, AdoptedCheck(proposals[id]))
    \/ \E id \in DOMAIN checks : \E chunk \in DOMAIN proposals[id].artifact :
          /\ UNCHANGED buffers
          /\ checks[id].status \in {"Adopted", "Verifying"}
          /\ buffers[proposals[id].buffer].artifact[chunk] = proposals[id].artifact[chunk]
          /\ Marks(id, chunk, Len(proposals[id].artifact))
    \/ \E id \in DOMAIN checks :
          /\ UNCHANGED buffers
          /\ checks[id].status = "ReadyToFinalize"
          /\ checks' = [checks EXCEPT ![id].status = "Verified"]
    \/ \E id \in DOMAIN checks, status \in {"ConsumedByUpgrade", "ClosedAbandoned"} :
          /\ checks[id].status \notin {"ConsumedByUpgrade", "ClosedAbandoned"}
          /\ buffers' = [buffers EXCEPT ![proposals[id].buffer].authority = "closed"]
          /\ checks' = [checks EXCEPT ![id].status = status]

LEMMA CheckSteps ==
    ASSUME Types, Next
    PROVE  CheckChange
<1>1. ASSUME NEW id \in Ids, AdoptBuffer(id)  PROVE CheckChange
  BY <1>1 DEF AdoptBuffer, CheckChange
<1>2. ASSUME NEW id \in Ids, NEW chunk \in DOMAIN proposals[id].artifact,
             VerifyBufferChunk(id, chunk)
      PROVE  CheckChange
  <2>1. CASE id \in DOMAIN checks
    BY <1>2, <2>1 DEF VerifyBufferChunk, CheckChange, Marks
  <2>2. CASE id \notin DOMAIN checks
    BY <1>2, <2>2 DEF VerifyBufferChunk, CheckChange, Types, CheckTypes
  <2> QED
    BY <2>1, <2>2
<1>3. ASSUME NEW id \in Ids, FinalizeBuffer(id)  PROVE CheckChange
  <2>1. CASE id \in DOMAIN checks
    BY <1>3, <2>1 DEF FinalizeBuffer, CheckChange
  <2>2. CASE id \notin DOMAIN checks
    BY <1>3, <2>2 DEF FinalizeBuffer, CheckChange, Types, CheckTypes
  <2> QED
    BY <2>1, <2>2
<1>4. ASSUME NEW id \in Ids, CloseAbandonedBuffer(id)  PROVE CheckChange
  BY <1>4 DEF CloseAbandonedBuffer, CheckChange
<1>5. ASSUME NEW id \in Ids, NEW o, NEW payload, ExecuteUpgrade(id, o, payload)
      PROVE  CheckChange
  <2>1. /\ id \in DOMAIN checks
        /\ checks[id].status = "Verified"
        /\ buffers' = [buffers EXCEPT ![proposals[id].buffer].authority = "closed"]
        /\ checks' = [checks EXCEPT ![id].status = "ConsumedByUpgrade"]
    BY <1>5 DEF ExecuteUpgrade, Upgraded, BufferVerified
  <2> QED
    BY <2>1 DEF CheckChange
<1>6. CASE UNCHANGED checks /\ \E b \in Buffers, artifact \in Artifacts : Upload(b, artifact)
  BY <1>6 DEF CheckChange
<1> QED
  BY <1>1, <1>2, <1>3, <1>4, <1>5, <1>6, BufferSteps DEF CheckChange

LEMMA ArtifactLemma ==
    ASSUME Types, NEW id \in Ids
    PROVE  /\ proposals[id].artifact \in Seq(Chunks)
           /\ DOMAIN proposals[id].artifact = 1 .. Len(proposals[id].artifact)
           /\ Len(proposals[id].artifact) \in Nat
           /\ proposals[id].buffer \in Buffers
BY RecordLemma, PayloadAssumption DEF ProposalRecord

LEMMA ChecksLemma ==
    ASSUME Types, Next
    PROVE  CheckTypes'
<1>1. CheckTypes /\ Ids \subseteq Ids'
  BY ProposalsLemma DEF Types, ProposalTypes, ProposalsKept, Ids
<1>2. \A id \in DOMAIN checks : id \in Ids /\ DOMAIN proposals[id].artifact \subseteq Nat
  BY <1>1, ArtifactLemma DEF CheckTypes
<1>3. ASSUME DOMAIN checks' \subseteq Ids, checks' \in [DOMAIN checks' -> CheckRecord]
      PROVE  CheckTypes'
  BY <1>1, <1>3 DEF CheckTypes
<1>4. CASE UNCHANGED checks
  BY <1>1, <1>3, <1>4 DEF CheckTypes
<1>5. ASSUME NEW id \in Ids \ DOMAIN checks,
             checks' = Put(checks, id, AdoptedCheck(proposals[id]))
      PROVE  CheckTypes'
  BY <1>1, <1>3, <1>5, AdoptLemma, ArtifactLemma DEF CheckTypes
<1>6. ASSUME NEW id \in DOMAIN checks, NEW chunk \in DOMAIN proposals[id].artifact, NEW count,
             Marks(id, chunk, count)
      PROVE  CheckTypes'
  BY <1>1, <1>2, <1>3, <1>6, MarkedLemma DEF CheckTypes
<1>7. ASSUME NEW id \in DOMAIN checks,
             NEW status \in {"Verified", "ConsumedByUpgrade", "ClosedAbandoned"},
             checks' = [checks EXCEPT ![id].status = status]
      PROVE  CheckTypes'
  BY <1>1, <1>3, <1>7, CheckStatusLemma DEF CheckTypes
<1> QED
  BY <1>4, <1>5, <1>6, <1>7, CheckSteps DEF CheckChange

-------------------------------------------------------------------------------
(* Buffers under verification *)

\* What a live check says of its buffer, as a predicate of one proposal.
CheckHolds(p, b, check) ==
    /\ b.authority = "controller"
    /\ Len(b.artifact) = Len(p.artifact)
    /\ \A chunk \in check.verified :
           chunk \in DOMAIN p.artifact /\ b.artifact[chunk] = p.artifact[chunk]
    /\ check.status \in {"ReadyToFinalize", "Verified"} => check.verified = DOMAIN p.artifact

CheckLive(check) == check.status \notin {"ConsumedByUpgrade", "ClosedAbandoned"}

BuffersSealed ==
    /\ \A id \in DOMAIN checks : CheckLive(checks[id]) =>
          CheckHolds(proposals[id], buffers[proposals[id].buffer], checks[id])
    /\ \A id, other \in DOMAIN checks :
          /\ CheckLive(checks[id]) /\ CheckLive(checks[other])
          /\ proposals[id].buffer = proposals[other].buffer
          => id = other

LEMMA SealedDef ==
    ASSUME NEW ps, NEW bs, NEW cs
    PROVE  ChecksSound(ps, bs, cs) <=>
              /\ \A id \in DOMAIN cs : CheckLive(cs[id]) =>
                    CheckHolds(ps[id], bs[ps[id].buffer], cs[id])
              /\ \A id, other \in DOMAIN cs :
                    /\ CheckLive(cs[id]) /\ CheckLive(cs[other])
                    /\ ps[id].buffer = ps[other].buffer
                    => id = other
BY DEF ChecksSound, LiveChecks, CheckHolds, CheckLive

\* A set of chunk numbers as large as the payload is all of them.
LEMMA AllChunks ==
    ASSUME NEW n \in Nat, NEW verified \in SUBSET (1 .. n), Cardinality(verified) = n
    PROVE  verified = 1 .. n
<1>1. IsFiniteSet(1 .. n) /\ Cardinality(1 .. n) = n
  BY FS_Interval
<1> QED
  BY <1>1, FS_Subset

\* The buffers after a step that rewrites the checks of id and its buffer only.
LEMMA SealedStep ==
    ASSUME Types, BuffersSealed, ProposalsKept,
           NEW id \in Ids, DOMAIN checks' \subseteq DOMAIN checks \cup {id},
           \A other \in DOMAIN checks \ {id} : checks'[other] = checks[other],
           \A b \in Buffers \ {proposals[id].buffer} : buffers'[b] = buffers[b],
           \A other \in DOMAIN checks \ {id} :
               CheckLive(checks[other]) => proposals[other].buffer # proposals[id].buffer,
           id \in DOMAIN checks' /\ CheckLive(checks'[id]) =>
               CheckHolds(proposals[id], buffers'[proposals[id].buffer], checks'[id])
    PROVE  BuffersSealed'
<1>1. /\ \A i \in Ids : /\ proposals'[i].buffer = proposals[i].buffer
                        /\ proposals'[i].artifact = proposals[i].artifact
                        /\ proposals[i].buffer \in Buffers
      /\ DOMAIN checks \subseteq Ids
  BY ArtifactLemma DEF ProposalsKept, SameManifest, Types, CheckTypes
<1>2. \A other \in DOMAIN checks' \ {id} :
         /\ other \in DOMAIN checks /\ other \in Ids
         /\ checks'[other] = checks[other]
         /\ CheckLive(checks'[other]) =>
               /\ proposals[other].buffer # proposals[id].buffer
               /\ CheckHolds(proposals[other], buffers'[proposals[other].buffer], checks'[other])
  BY <1>1 DEF BuffersSealed
<1>3. \A other \in DOMAIN checks' : CheckLive(checks'[other]) =>
         CheckHolds(proposals[other], buffers'[proposals[other].buffer], checks'[other])
  BY <1>2
<1>4. \A other \in DOMAIN checks' : CheckLive(checks'[other]) =>
         CheckHolds(proposals'[other], buffers'[proposals'[other].buffer], checks'[other])
  BY <1>1, <1>2, <1>3 DEF CheckHolds
<1>5. ASSUME NEW i \in DOMAIN checks', NEW j \in DOMAIN checks',
             CheckLive(checks'[i]), CheckLive(checks'[j]),
             proposals'[i].buffer = proposals'[j].buffer
      PROVE  i = j
  <2>1. i \in Ids /\ j \in Ids /\ proposals[i].buffer = proposals[j].buffer
    BY <1>1, <1>2, <1>5
  <2> QED
    BY <1>2, <1>5, <2>1 DEF BuffersSealed
<1> QED
  BY <1>4, <1>5 DEF BuffersSealed

LEMMA SealedLemma ==
    ASSUME Types, BuffersSealed, Next
    PROVE  BuffersSealed'
<1>1. /\ ProposalsKept
      /\ CheckTypes /\ BufferTypes
      /\ DOMAIN checks \subseteq Ids
      /\ \A i \in Ids : /\ proposals'[i].buffer = proposals[i].buffer
                        /\ proposals'[i].artifact = proposals[i].artifact
                        /\ proposals[i].buffer \in Buffers
  BY ProposalsLemma, ArtifactLemma DEF ProposalsKept, SameManifest, Types, CheckTypes
<1>2. CASE UNCHANGED checks
              /\ \A i \in DOMAIN checks : CheckLive(checks[i]) =>
                    buffers'[proposals[i].buffer] = buffers[proposals[i].buffer]
  <2>1. ASSUME NEW i \in DOMAIN checks', CheckLive(checks'[i])
        PROVE  CheckHolds(proposals'[i], buffers'[proposals'[i].buffer], checks'[i])
    <3>1. /\ i \in DOMAIN checks /\ i \in Ids /\ checks'[i] = checks[i]
          /\ CheckHolds(proposals[i], buffers[proposals[i].buffer], checks[i])
          /\ buffers'[proposals[i].buffer] = buffers[proposals[i].buffer]
      BY <1>1, <1>2, <2>1 DEF BuffersSealed
    <3>2. buffers'[proposals'[i].buffer] = buffers[proposals[i].buffer]
      BY <1>1, <3>1
    <3>3. CheckHolds(proposals[i], buffers'[proposals'[i].buffer], checks'[i])
      BY <3>1, <3>2
    <3>4. proposals'[i].artifact = proposals[i].artifact
      BY <1>1, <3>1
    <3> QED
      BY <3>3, <3>4 DEF CheckHolds
  <2>2. \A i, j \in DOMAIN checks' :
           /\ CheckLive(checks'[i]) /\ CheckLive(checks'[j])
           /\ proposals'[i].buffer = proposals'[j].buffer
           => i = j
    BY <1>1, <1>2 DEF BuffersSealed
  <2> QED
    BY <2>1, <2>2 DEF BuffersSealed
<1>3. CASE UNCHANGED <<buffers, checks>>
  BY <1>2, <1>3
<1>4. ASSUME NEW b \in Buffers, NEW artifact \in Artifacts, Upload(b, artifact),
             UNCHANGED checks
      PROVE  BuffersSealed'
  <2>1. buffers[b].authority = "uploader" /\ buffers' = [buffers EXCEPT ![b].artifact = artifact]
    BY <1>4 DEF Upload
  <2>2. \A i \in DOMAIN checks : CheckLive(checks[i]) => proposals[i].buffer # b
    BY <2>1 DEF BuffersSealed, CheckHolds
  <2>3. \A c \in Buffers \ {b} : buffers'[c] = buffers[c]
    BY <1>1, <2>1 DEF BufferTypes
  <2> QED
    BY <1>1, <1>2, <1>4, <2>2, <2>3
<1>5. ASSUME NEW id \in Ids \ DOMAIN checks,
             buffers[proposals[id].buffer].authority = "uploader",
             Len(buffers[proposals[id].buffer].artifact) = Len(proposals[id].artifact),
             buffers' = [buffers EXCEPT ![proposals[id].buffer].authority = "controller"],
             checks' = Put(checks, id, AdoptedCheck(proposals[id]))
      PROVE  BuffersSealed'
  <2> DEFINE b == proposals[id].buffer
  <2>1. /\ DOMAIN checks' = DOMAIN checks \cup {id}
        /\ checks'[id].status = "Adopted"
        /\ checks'[id].verified = {}
        /\ \A other \in DOMAIN checks : checks'[other] = checks[other]
    BY <1>1, <1>5, AdoptLemma
  <2>2. /\ buffers'[b].authority = "controller"
        /\ buffers'[b].artifact = buffers[b].artifact
        /\ \A c \in Buffers \ {b} : buffers'[c] = buffers[c]
    BY <1>1, <1>5 DEF BufferTypes, BufferRecord
  <2>3. \A i \in DOMAIN checks : CheckLive(checks[i]) => proposals[i].buffer # b
    BY <1>5 DEF BuffersSealed, CheckHolds
  <2>4. CheckHolds(proposals[id], buffers'[b], checks'[id])
    BY <1>5, <2>1, <2>2 DEF CheckHolds
  <2> QED
    BY <1>1, <2>1, <2>2, <2>3, <2>4, SealedStep
<1>6. ASSUME NEW id \in DOMAIN checks, NEW chunk \in DOMAIN proposals[id].artifact,
             UNCHANGED buffers,
             checks[id].status \in {"Adopted", "Verifying"},
             buffers[proposals[id].buffer].artifact[chunk] = proposals[id].artifact[chunk],
             Marks(id, chunk, Len(proposals[id].artifact))
      PROVE  BuffersSealed'
  <2>0. CheckTypes
    BY <1>1
  <2> DEFINE p == proposals[id]
             b == p.buffer
             verified == checks[id].verified \cup {chunk}
  <2>1. /\ id \in Ids
        /\ DOMAIN p.artifact = 1 .. Len(p.artifact)
        /\ Len(p.artifact) \in Nat
        /\ chunk \in Nat
    BY <1>1, ArtifactLemma
  <2>2. /\ DOMAIN checks' = DOMAIN checks
        /\ checks'[id].verified = verified
        /\ checks'[id].status \in {"ReadyToFinalize", "Verifying"}
        /\ checks'[id].status = "ReadyToFinalize" => Cardinality(verified) = Len(p.artifact)
        /\ \A other \in DOMAIN checks \ {id} : checks'[other] = checks[other]
    BY <1>6, <2>0, <2>1, MarkedLemma
  <2>3. CheckLive(checks[id]) /\ CheckHolds(p, buffers[b], checks[id])
    BY <1>6 DEF CheckLive, BuffersSealed
  <2>4. verified \in SUBSET (1 .. Len(p.artifact))
    BY <1>6, <2>1, <2>3 DEF CheckHolds
  <2>5. checks'[id].status = "ReadyToFinalize" => verified = 1 .. Len(p.artifact)
    BY <2>1, <2>2, <2>4, AllChunks
  <2>6. CheckHolds(p, buffers'[b], checks'[id])
    BY <1>6, <2>1, <2>2, <2>3, <2>5 DEF CheckHolds
  <2>7. \A i \in DOMAIN checks \ {id} : CheckLive(checks[i]) => proposals[i].buffer # b
    BY <2>3 DEF BuffersSealed
  <2> QED
    BY <1>1, <1>6, <2>1, <2>2, <2>6, <2>7, SealedStep
<1>7. ASSUME NEW id \in DOMAIN checks, UNCHANGED buffers,
             checks[id].status = "ReadyToFinalize",
             checks' = [checks EXCEPT ![id].status = "Verified"]
      PROVE  BuffersSealed'
  <2> DEFINE b == proposals[id].buffer
  <2>1. /\ DOMAIN checks' = DOMAIN checks
        /\ checks'[id].status = "Verified"
        /\ checks'[id].verified = checks[id].verified
        /\ \A other \in DOMAIN checks \ {id} : checks'[other] = checks[other]
    BY <1>1, <1>7, CheckStatusLemma
  <2>2. CheckLive(checks[id]) /\ CheckHolds(proposals[id], buffers[b], checks[id])
    BY <1>7 DEF CheckLive, BuffersSealed
  <2>3. CheckHolds(proposals[id], buffers'[b], checks'[id])
    BY <1>7, <2>1, <2>2 DEF CheckHolds
  <2>4. \A i \in DOMAIN checks \ {id} : CheckLive(checks[i]) => proposals[i].buffer # b
    BY <2>2 DEF BuffersSealed
  <2> QED
    BY <1>1, <1>7, <2>1, <2>3, <2>4, SealedStep
<1>8. ASSUME NEW id \in DOMAIN checks, NEW status \in {"ConsumedByUpgrade", "ClosedAbandoned"},
             checks[id].status \notin {"ConsumedByUpgrade", "ClosedAbandoned"},
             buffers' = [buffers EXCEPT ![proposals[id].buffer].authority = "closed"],
             checks' = [checks EXCEPT ![id].status = status]
      PROVE  BuffersSealed'
  <2> DEFINE b == proposals[id].buffer
  <2>1. /\ DOMAIN checks' = DOMAIN checks
        /\ checks'[id].status = status
        /\ \A other \in DOMAIN checks \ {id} : checks'[other] = checks[other]
    BY <1>1, <1>8, CheckStatusLemma
  <2>2. CheckLive(checks[id]) /\ ~CheckLive(checks'[id])
    BY <1>8, <2>1 DEF CheckLive
  <2>3. \A i \in DOMAIN checks \ {id} : CheckLive(checks[i]) => proposals[i].buffer # b
    BY <2>2 DEF BuffersSealed
  <2>4. \A c \in Buffers \ {b} : buffers'[c] = buffers[c]
    BY <1>1, <1>8 DEF BufferTypes
  <2> QED
    BY <1>1, <2>1, <2>2, <2>3, <2>4, SealedStep
<1> QED
  BY <1>3, <1>4, <1>5, <1>6, <1>7, <1>8, CheckSteps DEF CheckChange

\* Verified chunk by chunk, the buffer holds the committed bytes.
LEMMA SealedIntact ==
    ASSUME Types, BuffersSealed
    PROVE  SealedBufferIntact
<1> SUFFICES ASSUME NEW id \in DOMAIN checks, checks[id].status = "Verified"
             PROVE  /\ buffers[proposals[id].buffer].authority = "controller"
                    /\ buffers[proposals[id].buffer].artifact = proposals[id].artifact
  BY DEF SealedBufferIntact
<1> DEFINE p == proposals[id]
           b == buffers[p.buffer]
<1>1. CheckHolds(p, b, checks[id])
  BY DEF BuffersSealed, CheckLive
<1>2. /\ p.artifact \in Seq(Chunks)
      /\ DOMAIN p.artifact = 1 .. Len(p.artifact)
      /\ p.buffer \in Buffers
  BY ArtifactLemma DEF Types, CheckTypes
<1>3. b.artifact \in Seq(Chunks)
  BY <1>2, PayloadAssumption DEF Types, BufferTypes, BufferRecord
<1>4. /\ Len(b.artifact) = Len(p.artifact)
      /\ \A chunk \in 1 .. Len(p.artifact) : b.artifact[chunk] = p.artifact[chunk]
  BY <1>1, <1>2 DEF CheckHolds
<1>5. b.artifact = p.artifact
  BY <1>2, <1>3, <1>4
<1> QED
  BY <1>1, <1>5 DEF CheckHolds

-------------------------------------------------------------------------------
(* Evidence is well formed, and what has been cited stays *)

LEMMA PlanLemma ==
    ASSUME NEW plan \in ObservationPlans
    PROVE  plan.purpose \in Purposes
BY DEF ObservationPlans, PoststatePurpose, Purposes

LEMMA GenerationLemma ==
    ASSUME ObservationTypes, NEW plan
    PROVE  NextGeneration(plan) \in Nat \ {0}
<1> DEFINE earlier == {o \in observations : o.purpose = plan.purpose /\ o.subject = plan.subject}
<1>1. IsFiniteSet(earlier)
  BY FS_Subset DEF ObservationTypes
<1>2. Cardinality(earlier) \in Nat
  BY <1>1, FS_CardinalityType
<1> QED
  BY <1>2 DEF NextGeneration

\* A new observation, and one that is finalized.
LEMMA BegunLemma ==
    ASSUME Types, NEW plan \in ObservationPlans
    PROVE  /\ Observed(NewObservation(plan))
           /\ NewObservation(plan).deployed = runtime.deployed
           /\ NewObservation(plan).capacity = runtime.capacity
           /\ NewObservation(plan).status = "Accumulating"
<1>1. runtime.deployed \in Nat /\ runtime.capacity \in Nat
  BY BoundsAssumption DEF Types, RuntimeTypes
<1>2. NextGeneration(plan) \in Nat \ {0}
  BY GenerationLemma DEF Types
<1> QED
  BY <1>1, <1>2, PlanLemma DEF NewObservation, Observed, ObservationFields

Sealed(o) == [o EXCEPT !.status = "Finalized"]
LEMMA FinalizedLemma ==
    ASSUME NEW o, Observed(o)
    PROVE  /\ Observed(Sealed(o))
           /\ Sealed(o).status = "Finalized"
           /\ Sealed(o).deployed = o.deployed
           /\ Sealed(o).capacity = o.capacity
           /\ Sealed(o).artifact = o.artifact
BY DEF Observed, ObservationFields, Sealed

LEMMA ObservationsLemma ==
    ASSUME Types, Next
    PROVE  ObservationTypes'
<1>1. IsFiniteSet(observations) /\ \A o \in observations : Observed(o)
  BY DEF Types, ObservationTypes
<1>2. CASE UNCHANGED observations
  BY <1>1, <1>2 DEF ObservationTypes
<1>3. ASSUME NEW plan \in ObservationPlans, BeginObservation(plan)  PROVE ObservationTypes'
  <2>1. observations' = observations \cup {NewObservation(plan)}
    BY <1>3 DEF BeginObservation
  <2>2. IsFiniteSet(observations')
    BY <1>1, <2>1, FS_AddElement
  <2> QED
    BY <1>1, <2>1, <2>2, BegunLemma DEF ObservationTypes
<1>4. ASSUME NEW o \in observations, FinalizeObservation(o)  PROVE ObservationTypes'
  <2>1. observations' = (observations \ {o}) \cup {Sealed(o)}
    BY <1>4 DEF FinalizeObservation, Sealed
  <2>2. IsFiniteSet(observations')
    BY <1>1, <2>1, FS_AddElement, FS_RemoveElement
  <2> QED
    BY <1>1, <2>1, <2>2, FinalizedLemma DEF ObservationTypes
<1> QED
  BY <1>2, <1>3, <1>4, ObservationSteps

\* No handler discards a finalized observation.
LEMMA CitableLemma ==
    ASSUME Types, Next
    PROVE  Citable \subseteq Citable'
<1>1. ASSUME NEW plan \in ObservationPlans, BeginObservation(plan)
      PROVE  observations \subseteq observations'
  BY <1>1 DEF BeginObservation
<1>2. ASSUME NEW o \in observations, FinalizeObservation(o)
      PROVE  \A cited \in observations : cited.status = "Finalized" => cited \in observations'
  BY <1>2 DEF FinalizeObservation
<1> QED
  BY <1>1, <1>2, ObservationSteps DEF Citable

LEMMA BoundLemma ==
    ASSUME Types, NEW id \in Ids, NEW o, BindVerification(id, o)
    PROVE  /\ verifications' = Put(verifications, id, BoundVerification(id, o))
           /\ BoundVerification(id, o) \in VerificationRecord(Citable)
           /\ BoundVerification(id, o).status = "ObservationBound"
           /\ proposals[id].state = "UpgradeExecuted"
<1>1. /\ o \in Citable
      /\ verifications' = Put(verifications, id, BoundVerification(id, o))
      /\ id \in DOMAIN verifications => NextNumber(verifications[id].number)
      /\ proposals[id].state = "UpgradeExecuted"
  BY DEF BindVerification, CustodyObservation, Citable
<1>2. /\ gate.epoch \in 1 .. MaxEpoch
      /\ config.nonce \in Nat
      /\ deployment.generation \in 1 .. MaxGeneration
      /\ MaxGeneration \in Nat \ {0}
  BY BoundsAssumption DEF Types, GateTypes, GateRecord, ConfigTypes, DeploymentTypes
<1> DEFINE number == IF id \in DOMAIN verifications THEN verifications[id].number + 1 ELSE 1
<1>3. number \in 1 .. MaxGeneration
  <2>1. CASE id \in DOMAIN verifications
    <3>1. verifications[id].number \in 1 .. MaxGeneration
      BY <2>1 DEF Types, VerificationTypes, VerificationRecord
    <3> QED
      BY <1>1, <1>2, <2>1, <3>1 DEF NextNumber
  <2>2. CASE id \notin DOMAIN verifications
    BY <1>2, <2>2
  <2> QED
    BY <2>1, <2>2
<1>4. BoundVerification(id, o) =
         [status |-> "ObservationBound", epoch |-> gate.epoch, nonce |-> config.nonce,
          generation |-> deployment.generation, number |-> number, observation |-> o]
  BY DEF BoundVerification
<1> HIDE DEF number
<1>5. BoundVerification(id, o) \in VerificationRecord(Citable)
  BY <1>1, <1>2, <1>3, <1>4 DEF VerificationRecord
<1> QED
  BY <1>1, <1>4, <1>5

LEMMA IdsGrow ==
    ASSUME Types, Next
    PROVE  Ids \subseteq Ids'
BY ProposalsLemma DEF Types, ProposalTypes, ProposalsKept, Ids

LEMMA VerificationsLemma ==
    ASSUME Types, Next
    PROVE  VerificationTypes'
<1>1. /\ Ids \subseteq Ids'
      /\ Citable \subseteq Citable'
      /\ \A id \in DOMAIN verifications :
            id \in Ids /\ verifications[id] \in VerificationRecord(Citable)
  BY IdsGrow, CitableLemma DEF Types, VerificationTypes
<1>2. ASSUME NEW v \in VerificationRecord(Citable)  PROVE v \in VerificationRecord(Citable')
  BY <1>1, <1>2 DEF VerificationRecord
<1>3. ASSUME \A id \in DOMAIN verifications' :
                id \in Ids /\ verifications'[id] \in VerificationRecord(Citable)
      PROVE  VerificationTypes'
  BY <1>1, <1>2, <1>3 DEF VerificationTypes
<1>4. CASE UNCHANGED verifications
  BY <1>1, <1>3, <1>4
<1>5. ASSUME NEW id \in Ids, NEW o, BindVerification(id, o)  PROVE VerificationTypes'
  <2> DEFINE v == BoundVerification(id, o)
  <2>1. verifications' = Put(verifications, id, v) /\ v \in VerificationRecord(Citable)
    BY <1>5, BoundLemma
  <2> HIDE DEF v
  <2>2. /\ DOMAIN verifications' = DOMAIN verifications \cup {id}
        /\ \A i \in DOMAIN verifications' :
              verifications'[i] = IF i = id THEN v ELSE verifications[i]
    BY <2>1 DEF Put
  <2> QED
    BY <1>1, <1>3, <2>1, <2>2
<1>6. ASSUME NEW id \in Ids, FinalizeVerification(id)  PROVE VerificationTypes'
  <2>1. /\ id \in DOMAIN verifications
        /\ verifications' = [verifications EXCEPT ![id].status = "Verified"]
    BY <1>6 DEF FinalizeVerification
  <2>2. [verifications[id] EXCEPT !.status = "Verified"] \in VerificationRecord(Citable)
    BY <1>1, <2>1 DEF VerificationRecord
  <2>3. DOMAIN verifications' = DOMAIN verifications
    BY <2>1
  <2>4. \A i \in DOMAIN verifications :
           verifications'[i] = IF i = id THEN [verifications[id] EXCEPT !.status = "Verified"]
                               ELSE verifications[i]
    BY <2>1
  <2> QED
    BY <1>1, <1>3, <2>2, <2>3, <2>4
<1> QED
  BY <1>4, <1>5, <1>6, VerificationSteps

LEMMA FailuresLemma ==
    ASSUME Types, Next
    PROVE  FailureTypes'
<1>1. /\ Ids \subseteq Ids'
      /\ \A id \in DOMAIN failures :
            id \in Ids /\ failures[id] \in FailureRecord(Artifacts \cup Damage)
  BY IdsGrow DEF Types, FailureTypes
<1>2. ObservedFailure \in FailureRecord(Artifacts \cup Damage)
  <2>1. /\ gate.epoch \in 1 .. MaxEpoch
        /\ deployment.generation \in 1 .. MaxGeneration
        /\ runtime.artifact \in Artifacts \cup Damage
        /\ runtime.capacity \in 1 .. MaxPayload
        /\ runtime.deployed \in 1 .. slot
        /\ slot \in 1 .. MaxSlot
    BY DEF Types, GateTypes, GateRecord, DeploymentTypes, RuntimeTypes, ClockTypes
  <2>2. runtime.deployed \in Slots
    BY <2>1, BoundsAssumption DEF Slots
  <2> QED
    BY <2>1, <2>2 DEF ObservedFailure, FailureRecord
<1>3. ASSUME NEW id \in Ids, ObserveFailure(id)  PROVE FailureTypes'
  <2>1. failures' = Put(failures, id, ObservedFailure)
    BY <1>3 DEF ObserveFailure
  <2> QED
    BY <1>1, <1>2, <2>1 DEF Put, FailureTypes
<1> QED
  BY <1>1, <1>3, FailureSteps DEF FailureTypes

LEMMA FreezesLemma ==
    ASSUME Types, Next
    PROVE  FreezeTypes'
<1>1. CASE GuardianFreeze
  <2>1. freezes' = Put(freezes, gate.epoch + 1, FreezeObservation)
    BY <1>1 DEF GuardianFreeze
  <2>2. FreezeObservation \in FreezeRecord /\ gate.epoch + 1 \in Nat
    BY BoundsAssumption
    DEF Types, GateTypes, GateRecord, ConfigTypes, DeploymentTypes, ClockTypes, Slots,
        FreezeObservation, FreezeRecord
  <2> QED
    BY <2>1, <2>2 DEF Types, FreezeTypes, Put
<1> QED
  BY <1>1, FreezesSteps DEF Types, FreezeTypes

\* A resolution keeps the observation it was created with.
Cites(r) ==
    /\ {"state", "observation", "approvals"} \subseteq DOMAIN r
    /\ r.observation \in Citable

LEMMA ResolutionsLemma ==
    ASSUME Types, Next
    PROVE  ResolutionTypes'
<1>1. \A k \in DOMAIN resolutions : Cites(resolutions[k])
  BY DEF Types, ResolutionTypes, Cites
<1>2. ASSUME \A k \in DOMAIN resolutions' : Cites(resolutions'[k])
      PROVE  ResolutionTypes'
  BY <1>2, CitableLemma DEF ResolutionTypes, Cites
<1>3. ASSUME NEW k, NEW r, Cites(r), StoreResolution(k, r)
      PROVE  \A j \in DOMAIN resolutions' : Cites(resolutions'[j])
  <2> QED
    BY <1>1, <1>3 DEF StoreResolution, Put
<1>4. ASSUME NEW seat \in Seats, NEW o \in observations, CreateEmergencyResolution(seat, o)
      PROVE  \A j \in DOMAIN resolutions' : Cites(resolutions'[j])
  <2>1. StoreResolution(<<gate.epoch, config.council>>, NewResolution(o))
        /\ o.status = "Finalized"
    BY <1>4 DEF CreateEmergencyResolution, FreshObservation
  <2>2. Cites(NewResolution(o))
    BY <2>1 DEF NewResolution, Citable, Cites
  <2> QED
    BY <1>3, <2>1, <2>2
<1>5. ASSUME NEW epoch, NEW seat \in Seats, ApproveEmergencyResolution(epoch, seat)
      PROVE  \A j \in DOMAIN resolutions' : Cites(resolutions'[j])
  <2> DEFINE k == <<epoch, config.council>>
  <2>1. k \in DOMAIN resolutions /\ StoreResolution(k, ApprovedResolution(resolutions[k], seat))
    BY <1>5 DEF ApproveEmergencyResolution
  <2>2. Cites(ApprovedResolution(resolutions[k], seat))
    BY <1>1, <2>1 DEF ApprovedResolution, Cites
  <2> QED
    BY <1>3, <2>1, <2>2
<1>6. ASSUME NEW epoch, QueueEmergencyResolution(epoch)
      PROVE  \A j \in DOMAIN resolutions' : Cites(resolutions'[j])
  <2> DEFINE k == <<epoch, config.council>>
  <2>1. /\ k \in DOMAIN resolutions
        /\ StoreResolution(k, [resolutions[k] EXCEPT !.state = "Timelocked"])
    BY <1>6 DEF QueueEmergencyResolution
  <2>2. Cites([resolutions[k] EXCEPT !.state = "Timelocked"])
    BY <1>1, <2>1 DEF Cites
  <2> QED
    BY <1>3, <2>1, <2>2
<1>7. ASSUME NEW epoch, ExecuteEmergencyResolution(epoch)
      PROVE  \A j \in DOMAIN resolutions' : Cites(resolutions'[j])
  <2> DEFINE k == <<epoch, config.council>>
  <2>1. /\ k \in DOMAIN resolutions
        /\ StoreResolution(k, [resolutions[k] EXCEPT !.state = "Executed", !.terminalAt = slot])
    BY <1>7 DEF ExecuteEmergencyResolution
  <2>2. Cites([resolutions[k] EXCEPT !.state = "Executed", !.terminalAt = slot])
    BY <1>1, <2>1 DEF Cites
  <2> QED
    BY <1>3, <2>1, <2>2
<1>8. ASSUME NEW epoch, NEW council, ExpireEmergencyResolution(epoch, council)
      PROVE  \A j \in DOMAIN resolutions' : Cites(resolutions'[j])
  <2> DEFINE k == <<epoch, council>>
  <2>1. /\ k \in DOMAIN resolutions
        /\ StoreResolution(k, [resolutions[k] EXCEPT !.state = "Expired", !.terminalAt = slot])
    BY <1>8 DEF ExpireEmergencyResolution, ResolutionLoads
  <2>2. Cites([resolutions[k] EXCEPT !.state = "Expired", !.terminalAt = slot])
    BY <1>1, <2>1 DEF Cites
  <2> QED
    BY <1>3, <2>1, <2>2
<1>9. ASSUME NEW j, NEW c, Resolved(j, c)
      PROVE  \A i \in DOMAIN resolutions' : Cites(resolutions'[i])
  <2> DEFINE k == <<j[1], j[2]>>
  <2>1. resolutions' = [resolutions EXCEPT ![k].checkpoint = c]
    BY <1>9, ResolvedStep
  <2>2. k \in DOMAIN resolutions => Cites([resolutions[k] EXCEPT !.checkpoint = c])
    BY <1>1 DEF Cites
  <2>3. \A i \in DOMAIN resolutions' :
           /\ i \in DOMAIN resolutions
           /\ resolutions'[i] = IF i = k THEN [resolutions[k] EXCEPT !.checkpoint = c]
                                ELSE resolutions[i]
    BY <2>1
  <2> HIDE DEF k
  <2> QED
    BY <1>1, <2>2, <2>3
<1>10. CASE EmergencyNext
  <2>1. CASE GuardianFreeze
    BY <1>1, <1>2, <2>1 DEF GuardianFreeze
  <2> QED
    BY <1>2, <1>4, <1>5, <1>6, <1>7, <1>8, <1>10, <2>1 DEF EmergencyNext
<1>11. CASE UNCHANGED resolutions
  BY <1>1, <1>2, <1>11
<1> QED
  BY <1>2, <1>9, <1>10, <1>11, ResolutionSteps

-------------------------------------------------------------------------------
(* Initial states, and the theorem about types *)

LEMMA InitTypes ==
    ASSUME Init
    PROVE  Types /\ BuffersSealed
<1> PICK start \in Starts :
        /\ slot = start.slot
        /\ config = [nonce |-> start.nonce, council |-> start.council]
        /\ deployment = [artifact |-> Genesis, capacity |-> start.capacity, deployed |-> 1,
                         epoch |-> 1, completed |-> None, generation |-> 1]
        /\ runtime = [artifact |-> Genesis, deployed |-> 1, capacity |-> start.capacity]
        /\ proposals = start.proposals
        /\ buffers = start.buffers
        /\ checks = start.checks
  BY DEF Init
<1>1. StartValid(start)
  BY StartsAssumption
<1>2. /\ Genesis \in Artifacts
      /\ Len(Genesis) \in Nat \ {0}
      /\ start.capacity \in 1 .. MaxPayload
      /\ Len(Genesis) <= start.capacity
      /\ start.capacity \in Nat
  BY <1>1, GenesisAssumption, PayloadAssumption, BoundsAssumption DEF StartValid
<1>3. /\ gate = [status |-> "Active", epoch |-> 1, active |-> None, freezeSlot |-> 0,
                 reason |-> "none", lastCompleted |-> None]
      /\ observations = {}
      /\ verifications = <<>> /\ failures = <<>> /\ freezes = <<>> /\ resolutions = <<>>
  BY DEF Init
<1>4. 1 \in 1 .. MaxEpoch /\ 1 \in 1 .. MaxGeneration /\ 0 \in Slots
  BY BoundsAssumption DEF Slots
<1>5. ClockTypes
  BY <1>1 DEF StartValid, ClockTypes
<1>6. GateTypes
  BY <1>3, <1>4 DEF GateTypes, GateRecord, GateStatuses, GateValid, None
<1>7. ConfigTypes
  BY <1>1, <1>3, <1>4 DEF ConfigTypes, StartValid
<1>8. DeploymentTypes
  BY <1>2, <1>4 DEF DeploymentTypes, None
<1>9. RuntimeTypes
  BY <1>1, <1>2, BoundsAssumption DEF RuntimeTypes, StartValid
<1>10. ProposalTypes
  BY <1>1 DEF ProposalTypes, StartValid, Ids
<1>11. BufferTypes
  BY <1>1 DEF BufferTypes, StartValid
<1>12. CheckTypes
  BY <1>1, <1>10 DEF CheckTypes, StartValid, ProposalTypes, Ids
<1>13. ObservationTypes
  BY <1>3, FS_EmptySet DEF ObservationTypes
<1>14. VerificationTypes /\ FailureTypes /\ FreezeTypes /\ ResolutionTypes
  BY <1>3 DEF VerificationTypes, FailureTypes, FreezeTypes, ResolutionTypes
<1>15. BuffersSealed
  BY <1>1, SealedDef DEF StartValid, BuffersSealed
<1> QED
  BY <1>5, <1>6, <1>7, <1>8, <1>9, <1>10, <1>11, <1>12, <1>13, <1>14, <1>15 DEF Types

LEMMA TypesLemma ==
    ASSUME Types, Next
    PROVE  Types'
<1>1. ProposalTypes' /\ GateTypes'
  BY ProposalsLemma, EpochLemma DEF ProposalsKept, ProposalTypes, Sound, GateTypes
<1> QED
  BY <1>1, ClockLemma, ConfigLemma, DeploymentLemma, RuntimeLemma, BufferLemma, ChecksLemma,
     ObservationsLemma, VerificationsLemma, FailuresLemma, FreezesLemma, ResolutionsLemma
  DEF Types

\* A step of nobody changes nothing.
LEMMA TypesStutter ==
    ASSUME Types, BuffersSealed, UNCHANGED vars
    PROVE  Types' /\ BuffersSealed'
<1>1. Types'
  BY DEF Types, ClockTypes, ConfigTypes, GateTypes, DeploymentTypes, RuntimeTypes,
         ProposalTypes, BufferTypes, CheckTypes, ObservationTypes, VerificationTypes,
         FailureTypes, FreezeTypes, ResolutionTypes, Citable, Ids, vars, controller,
         evidence, custody, emergency
<1>2. BuffersSealed'
  BY DEF BuffersSealed, vars, custody
<1> QED
  BY <1>1, <1>2

\* What every handler keeps: the types, and what the checks say of the buffers.
THEOREM TypesInvariant == Spec => [](Types /\ BuffersSealed)
<1>1. Types /\ BuffersSealed /\ [Next]_vars => (Types /\ BuffersSealed)'
  BY TypesLemma, SealedLemma, TypesStutter
<1> QED
  BY <1>1, InitTypes, PTL DEF Spec

\* The type invariant the runs check.
LEMMA TypesImply ==
    ASSUME Types
    PROVE  TypeOK
<1>1. /\ slot \in 1 .. MaxSlot
      /\ config.nonce \in 1 .. MaxEpoch
      /\ config.council \in DOMAIN Councils
      /\ GateValid(gate)
      /\ gate \in GateRecord
      /\ deployment.generation \in 1 .. MaxGeneration
  BY DEF Types, ClockTypes, ConfigTypes, GateTypes, DeploymentTypes
<1>2. /\ runtime.deployed \in 1 .. slot
      /\ Len(runtime.artifact) <= runtime.capacity
      /\ runtime.capacity <= MaxPayload
  BY BoundsAssumption DEF Types, RuntimeTypes
<1>3. \A id \in Ids : proposals[id] \in ProposalRecord
  BY RecordLemma
<1>4. \A id \in DOMAIN checks : id \in Ids /\ checks[id] \in CheckRecord
  BY DEF Types, CheckTypes
<1>5. \A id \in DOMAIN verifications :
         id \in Ids /\ verifications[id] \in VerificationRecord(observations)
  BY DEF Types, VerificationTypes, VerificationRecord, Citable
<1>6. \A id \in DOMAIN failures :
         id \in Ids /\ failures[id] \in FailureRecord(Artifacts \cup Damage)
  BY DEF Types, FailureTypes
<1>7. \A epoch \in DOMAIN freezes : freezes[epoch] \in FreezeRecord
  BY DEF Types, FreezeTypes
<1>8. \A o \in observations : o.purpose \in Purposes /\ o.generation >= 1
  BY DEF Types, ObservationTypes, Observed
<1> QED
  BY <1>1, <1>2, <1>3, <1>4, <1>5, <1>6, <1>7, <1>8 DEF TypeOK

\* The accounts of the controller are well formed in every reachable state, with every
\* council history, timing, set of payloads and bound.
THEOREM TypeTheorem == Spec => []TypeOK
BY TypesInvariant, TypesImply, PTL

\* A buffer that was verified keeps the committed bytes under the controller's
\* authority until an upgrade uses it or a close gives it back.
THEOREM SealedTheorem == Spec => []SealedBufferIntact
BY TypesInvariant, SealedIntact, PTL

-------------------------------------------------------------------------------
(* One upgrade in flight *)

Flying == FrozenOrLater \ Terminal

LEMMA FlyingDef ==
    /\ Flying = {"Frozen", "Extended", "UpgradeExecuted", "ProgramDataVerified",
                 "PoststateAccepted", "UnfreezeApproved"}
    /\ InFlight = {id \in Ids : proposals[id].state \in Flying}
    /\ InFlight' = {id \in Ids' : proposals'[id].state \in Flying}
BY DEF Flying, InFlight, FrozenOrLater, UpgradedStates, VerifiedStates, UnfreezeStates, Terminal

\* A step that lets nothing take off or land.
Steady ==
    /\ InFlight' = InFlight
    /\ \A id \in InFlight : proposals'[id].freezeEpoch = proposals[id].freezeEpoch

LEMMA BecomesSteady ==
    ASSUME Types, NEW id \in Ids, NEW q \in ProposalRecord, Becomes(id, q),
           proposals[id].state \in Flying <=> q.state \in Flying,
           proposals[id].state \in Flying => q.freezeEpoch = proposals[id].freezeEpoch
    PROVE  Steady
<1>1. /\ Ids' = Ids
      /\ proposals'[id] = q
      /\ \A other \in Ids \ {id} : proposals'[other] = proposals[other]
  BY DEF Becomes, Ids
<1>2. \A i \in Ids : proposals'[i].state \in Flying <=> proposals[i].state \in Flying
  BY <1>1
<1>3. InFlight' = InFlight
  BY <1>1, <1>2, FlyingDef
<1>4. \A i \in Ids : proposals[i].state \in Flying =>
         proposals'[i].freezeEpoch = proposals[i].freezeEpoch
  BY <1>1
<1> QED
  BY <1>3, <1>4, FlyingDef DEF Steady

LEMMA NewSteady ==
    ASSUME Types, NewStep
    PROVE  Steady
<1> PICK q \in ProposalRecord : q.state = "Draft" /\ proposals' = Append(proposals, q)
  BY DEF NewStep
<1>1. /\ \A id \in Ids : proposals'[id] = proposals[id]
      /\ Ids \subseteq Ids'
      /\ \A id \in Ids' \ Ids : proposals'[id].state = "Draft"
  BY DEF Types, ProposalTypes, Ids
<1> QED
  BY <1>1, FlyingDef DEF Steady

LEMMA SteadySteps ==
    ASSUME Types, Next
    PROVE  \/ Steady
           \/ \E id \in Ids : FreezeProposal(id)
           \/ \E id \in Ids : ExecuteUnfreeze(id)
           \/ \E id \in Ids : ActivateRollback(id)
<1>1. CASE UNCHANGED proposals
  BY <1>1 DEF Steady, InFlight, Ids
<1>2. CASE PendingStep
  BY <1>2, BecomesSteady, FlyingDef DEF PendingStep, PreFreeze, PreFreezeEnds
<1>3. ASSUME NEW id \in Ids, NEW seat \in Seats, ApproveUnfreeze(id, seat)  PROVE Steady
  <2>1. proposals[id].state \in {"PoststateAccepted", "UnfreezeApproved"}
    BY <1>3 DEF ApproveUnfreeze
  <2> QED
    BY <1>3, <2>1, ApproveUnfreezeStep, BecomesSteady, FlyingDef DEF Becomes, SameFlight
<1>4. ASSUME NEW id \in Ids, NEW c, Poststate(id, c)  PROVE Steady
  <2>1. FlightMove(id, "PoststateAccepted").state = "PoststateAccepted"
        /\ FlightMove(id, "PoststateAccepted").freezeEpoch = proposals[id].freezeEpoch
    BY RecordLemma DEF FlightMove, ProposalRecord
  <2> QED
    BY <1>4, <2>1, PoststateStep, BecomesSteady, FlyingDef DEF Becomes
<1>5. ASSUME NEW id \in Ids, FinalizeVerification(id)  PROVE Steady
  <2>1. FlightMove(id, "ProgramDataVerified").state = "ProgramDataVerified"
        /\ FlightMove(id, "ProgramDataVerified").freezeEpoch = proposals[id].freezeEpoch
    BY RecordLemma DEF FlightMove, ProposalRecord
  <2> QED
    BY <1>5, <2>1, VerifyStep, BecomesSteady, FlyingDef DEF Becomes
<1>6. ASSUME NEW id \in Ids, NEW o \in observations,
             NEW payload \in {buffers[proposals[id].buffer].artifact} \cup Damage,
             ExecuteUpgrade(id, o, payload)
      PROVE  Steady
  <2>1. /\ UpgradedNow(id).state = "UpgradeExecuted"
        /\ UpgradedNow(id).freezeEpoch = proposals[id].freezeEpoch
    BY RecordLemma DEF UpgradedNow, ProposalRecord
  <2> QED
    BY <1>6, <2>1, UpgradeStep, UpgradeFacts, BecomesSteady, FlyingDef DEF Becomes
<1> QED
  BY <1>1, <1>2, <1>3, <1>4, <1>5, <1>6, ProposalSteps, NewSteady DEF ProposalChange

\* A primary names no primary, and a rollback no rollback.
LEMMA LinkLemma ==
    ASSUME Types, NEW id \in Ids
    PROVE  /\ id # None
           /\ proposals[id].class # "EmergencyRollback" => proposals[id].primary = None
           /\ proposals[id].class = "EmergencyRollback" => proposals[id].rollback = None
BY RecordLemma DEF Sound, ProposalValid, LinkShape, Ids, None

\* The gate's holder and the primary it answers, if any, are all that flies.
LEMMA FlightHolder ==
    ASSUME Types, OneFlight, NEW id \in Ids, FrozenFor(id)
    PROVE  /\ id \in InFlight
           /\ \A other \in InFlight \ {id} :
                 /\ proposals[id].primary = other
                 /\ proposals[other].rollback = id
                 /\ proposals[id].class = "EmergencyRollback"
<1>1. gate.status = "FrozenForUpgrade" /\ gate.active = id
  BY DEF FrozenFor
<1>2. /\ id \in InFlight
      /\ \A other \in InFlight \ {id} :
            proposals[id].primary = other /\ proposals[other].rollback = id
  BY <1>1 DEF OneFlight
<1>3. \A other \in InFlight \ {id} : other # None
  BY LinkLemma DEF InFlight
<1> QED
  BY <1>2, <1>3, LinkLemma

LEMMA FlightLemma ==
    ASSUME Types, OneFlight, Next
    PROVE  OneFlight'
<1>1. CASE Steady /\ UNCHANGED <<gate, config.nonce>>
  <2>1. /\ InFlight' = InFlight
        /\ InFlight \subseteq Ids
        /\ \A id \in InFlight :
              /\ proposals'[id].freezeEpoch = proposals[id].freezeEpoch
              /\ proposals'[id].nonce = proposals[id].nonce
              /\ proposals'[id].primary = proposals[id].primary
              /\ proposals'[id].rollback = proposals[id].rollback
    BY <1>1, ProposalsLemma DEF Steady, InFlight, ProposalsKept, SameManifest
  <2> QED
    BY <1>1, <2>1 DEF OneFlight
<1>2. CASE InFlight = {} /\ Steady /\ gate'.status # "FrozenForUpgrade"
  BY <1>2 DEF Steady, OneFlight
<1>3. ASSUME NEW id \in Ids, FreezeProposal(id)  PROVE OneFlight'
  <2>1. /\ InFlight = {}
        /\ gate'.status = "FrozenForUpgrade" /\ gate'.active = id
        /\ gate'.epoch = gate.epoch + 1
        /\ config'.nonce = proposals[id].nonce + 1
    BY <1>3, FreezeGateStep DEF OneFlight, Types, ConfigTypes
  <2>2. /\ Becomes(id, FrozenNow(id))
        /\ FrozenNow(id).state = "Frozen"
        /\ FrozenNow(id).freezeEpoch = gate.epoch + 1
        /\ FrozenNow(id).nonce = proposals[id].nonce
    BY <1>3, FreezeProposalStep, RecordLemma DEF FrozenNow, ProposalRecord
  <2>3. Ids' = Ids /\ proposals'[id] = FrozenNow(id)
        /\ \A other \in Ids \ {id} : proposals'[other] = proposals[other]
    BY <2>2 DEF Becomes, Ids
  <2>4. InFlight' = {id}
    BY <2>1, <2>2, <2>3, FlyingDef
  <2> QED
    BY <2>1, <2>2, <2>3, <2>4 DEF OneFlight
<1>4. ASSUME NEW id \in Ids, ExecuteUnfreeze(id)  PROVE OneFlight'
  <2>1. gate'.status = "Active" /\ FrozenFor(id)
    BY <1>4, UnfreezeGateStep
  <2> PICK other \in Ids \ {id} : PairEnded(id, other)
    BY <1>4, UnfreezeStep
  <2>2. /\ Ids' = Ids
        /\ proposals'[id].state \notin Flying
        /\ proposals'[other].state \notin Flying
        /\ \A i \in Ids \ {id, other} : proposals'[i] = proposals[i]
    BY FlyingDef DEF PairEnded, Ids
  <2>3. \A i \in Ids \ {id, other} : i \notin InFlight
    BY <2>1, FlightHolder DEF PairEnded
  <2>4. InFlight' = {}
    BY <2>2, <2>3, FlyingDef
  <2> QED
    BY <2>1, <2>4 DEF OneFlight
<1>5. ASSUME NEW id \in Ids, ActivateRollback(id)  PROVE OneFlight'
  <2> DEFINE r == proposals[id].rollback
  <2>1. /\ FrozenFor(id)
        /\ gate'.status = "FrozenForUpgrade" /\ gate'.active = r
        /\ gate'.epoch = gate.epoch + 1
        /\ config.nonce = proposals[r].nonce + 1
    BY <1>5, ActivateGateStep
  <2>2. /\ r \in Ids \ {id}
        /\ Becomes(r, FrozenNow(r))
    BY <1>5, ActivateStep
  <2>3. /\ proposals[r].primary = id
        /\ proposals[id].class # "EmergencyRollback"
        /\ proposals[id].state \in Flying
        /\ UNCHANGED config
    BY <1>5, FlyingDef DEF ActivateRollback, Linked, PrimaryClasses
  <2> HIDE DEF r
  <2>4. /\ FrozenNow(r).state = "Frozen"
        /\ FrozenNow(r).freezeEpoch = gate.epoch + 1
        /\ FrozenNow(r).nonce = proposals[r].nonce
        /\ FrozenNow(r).primary = proposals[r].primary
    BY <2>2, RecordLemma DEF FrozenNow, ProposalRecord
  <2>5. /\ Ids' = Ids
        /\ proposals'[r] = FrozenNow(r)
        /\ \A other \in Ids \ {r} : proposals'[other] = proposals[other]
    BY <2>2 DEF Becomes, Ids
  <2>6. InFlight = {id}
    BY <2>1, <2>3, FlightHolder
  <2>7. InFlight' = {id, r}
    BY <2>2, <2>4, <2>5, <2>6, FlyingDef
  <2>8. proposals'[id].rollback = r
    BY <2>2, <2>5 DEF r
  <2> QED
    BY <2>1, <2>2, <2>3, <2>4, <2>5, <2>7, <2>8 DEF OneFlight
<1>6. CASE GuardianFreeze
  <2>1. InFlight = {} /\ gate'.status # "FrozenForUpgrade" /\ UNCHANGED proposals
    BY <1>6, GuardianGateStep DEF OneFlight, GuardianFreeze
  <2> QED
    BY <1>2, <2>1 DEF Steady, InFlight, Ids
<1>7. ASSUME NEW epoch, ExecuteEmergencyResolution(epoch)  PROVE OneFlight'
  <2>1. InFlight = {} /\ gate'.status # "FrozenForUpgrade" /\ UNCHANGED proposals
    BY <1>7, ResolveGateStep DEF OneFlight, ExecuteEmergencyResolution
  <2> QED
    BY <1>2, <2>1 DEF Steady, InFlight, Ids
<1>8. CASE UNCHANGED gate /\ \E v \in DOMAIN Councils : RotateCouncil(v)
  <2>1. UNCHANGED proposals /\ config'.nonce = config.nonce
    BY <1>8 DEF RotateCouncil, Types, ConfigTypes
  <2> QED
    BY <1>1, <1>8, <2>1 DEF Steady, InFlight, Ids
<1>9. UNCHANGED config => config'.nonce = config.nonce
  OBVIOUS
<1> QED
  BY <1>1, <1>3, <1>4, <1>5, <1>6, <1>7, <1>8, <1>9, SteadySteps, GateSteps, ConfigSteps

LEMMA FlightInit ==
    ASSUME Init, Types
    PROVE  OneFlight
<1>1. \A id \in Ids : proposals[id].state \in PreFreeze \cup {"Cancelled", "Expired"}
  BY StartsAssumption DEF Init, StartValid, Ids, Types, ProposalTypes
<1>2. InFlight = {}
  BY <1>1, FlyingDef DEF PreFreeze
<1> QED
  BY <1>2 DEF Init, OneFlight

LEMMA FlightStutter ==
    ASSUME OneFlight, UNCHANGED vars
    PROVE  OneFlight'
BY DEF OneFlight, InFlight, Ids, vars, controller

\* The gate is closed for an upgrade exactly while one is in flight, whatever the
\* proposals, the councils and the order of the handlers.
THEOREM FlightTheorem == Spec => []OneFlight
<1>1. Types /\ OneFlight /\ [Next]_vars => OneFlight'
  BY FlightLemma, FlightStutter
<1>2. Init => OneFlight
  BY InitTypes, FlightInit
<1> QED
  BY <1>1, <1>2, TypesInvariant, PTL DEF Spec

-------------------------------------------------------------------------------
(* A deployment slot names one program *)

\* No evidence is of a later deployment than the live one.
SlotOrder ==
    /\ deployment.deployed <= runtime.deployed
    /\ \A o \in observations : o.deployed <= runtime.deployed

SlotInv == SlotOrder /\ SlotNamesProgram

\* A finalized observation of the live slot describes the live account.
LEMMA LiveObservation ==
    ASSUME SlotInv, NEW o \in Citable, o.deployed = runtime.deployed
    PROVE  o.capacity = runtime.capacity /\ o.artifact = runtime.artifact
BY DEF SlotInv, SlotNamesProgram, Citable

\* The unfreeze finds the proposal's payload in the account, and records it.
LEMMA UnfreezeFacts ==
    ASSUME Types, SlotInv, NEW id \in Ids, ExecuteUnfreeze(id)
    PROVE  /\ runtime.artifact = proposals[id].artifact
           /\ deployment'.artifact = runtime.artifact
           /\ deployment'.capacity = runtime.capacity
           /\ deployment'.deployed = runtime.deployed
           /\ UNCHANGED <<runtime, observations>>
<1> DEFINE o == verifications[id].observation
<1>1. /\ VerificationAccepted(id)
      /\ VerifiedLive(id)
      /\ deployment' = ActivatedDeployment(id)
      /\ UNCHANGED <<runtime, observations>>
  BY DEF ExecuteUnfreeze, UnfreezeEvidence, evidence, custody
<1>2. /\ o \in Citable
      /\ o.artifact = proposals[id].artifact
      /\ o.deployed = runtime.deployed
      /\ o.capacity = runtime.capacity
  BY <1>1 DEF VerificationAccepted, VerifiedLive, Types, VerificationTypes, VerificationRecord
<1> HIDE DEF o
<1>3. runtime.artifact = proposals[id].artifact
  BY <1>2, LiveObservation
<1>4. deployment' = [deployment EXCEPT !.artifact = proposals[id].artifact,
                        !.capacity = o.capacity, !.deployed = o.deployed,
                        !.epoch = gate.epoch + 1, !.completed = id, !.generation = @ + 1]
  BY <1>1 DEF ActivatedDeployment, o
<1>5. /\ deployment'.artifact = proposals[id].artifact
      /\ deployment'.capacity = o.capacity
      /\ deployment'.deployed = o.deployed
  BY <1>4 DEF Types, DeploymentTypes
<1> QED
  BY <1>1, <1>2, <1>3, <1>5

\* The resolution finds the trusted payload in the account.
LEMMA ResolveFacts ==
    ASSUME Types, SlotInv, NEW epoch, ExecuteEmergencyResolution(epoch)
    PROVE  /\ runtime.artifact = deployment.artifact
           /\ deployment'.artifact = runtime.artifact
           /\ deployment'.capacity = runtime.capacity
           /\ deployment'.deployed = runtime.deployed
           /\ UNCHANGED <<runtime, observations>>
<1> DEFINE k == <<epoch, config.council>>
           o == resolutions[k].observation
<1>1. /\ k \in DOMAIN resolutions
      /\ FreshObservation(o, "EmergencyResolution", FreezeSubject(epoch), TrustedExpectation)
      /\ ObservationLive(o)
      /\ deployment' = RenewedDeployment(o)
      /\ UNCHANGED <<runtime, observations>>
  BY DEF ExecuteEmergencyResolution, EmergencyEvidence, evidence, custody
<1>2. /\ o \in Citable
      /\ o.artifact = deployment.artifact
      /\ o.deployed = runtime.deployed
      /\ o.capacity = runtime.capacity
  BY <1>1 DEF FreshObservation, ExpectationMet, TrustedExpectation, ObservationLive, Types,
              ResolutionTypes
<1> HIDE DEF o, k
<1>3. runtime.artifact = deployment.artifact
  BY <1>2, LiveObservation
<1>4. /\ deployment'.artifact = deployment.artifact
      /\ deployment'.capacity = o.capacity
      /\ deployment'.deployed = o.deployed
  BY <1>1 DEF RenewedDeployment, Types, DeploymentTypes
<1> QED
  BY <1>1, <1>2, <1>3, <1>4

\* The loader stamps the account with a slot no evidence has seen.
LEMMA NewSlotLemma ==
    ASSUME Types, SlotInv, runtime.deployed < slot, runtime'.deployed = slot,
           UNCHANGED observations,
           \/ UNCHANGED deployment
           \/ /\ deployment'.deployed = slot
              /\ deployment'.artifact = runtime'.artifact
              /\ deployment'.capacity = runtime'.capacity
    PROVE  SlotInv'
<1>1. /\ slot \in Nat /\ runtime.deployed \in Nat /\ deployment.deployed \in Nat
      /\ \A o \in observations : o.deployed \in Nat
  BY BoundsAssumption DEF Types, ClockTypes, RuntimeTypes, DeploymentTypes, ObservationTypes,
                          Observed
<1>2. \A o \in observations' : o.deployed < runtime'.deployed
  BY <1>1 DEF SlotInv, SlotOrder
<1>3. UNCHANGED deployment => deployment'.deployed < runtime'.deployed
  BY <1>1 DEF SlotInv, SlotOrder
<1>4. \A o \in observations' : o.deployed <= runtime'.deployed /\ o.deployed # runtime'.deployed
  BY <1>1, <1>2
<1>5. /\ deployment'.deployed <= runtime'.deployed
      /\ deployment'.deployed = runtime'.deployed =>
            deployment'.artifact = runtime'.artifact /\ deployment'.capacity = runtime'.capacity
  BY <1>1, <1>3
<1> QED
  BY <1>4, <1>5 DEF SlotInv, SlotOrder, SlotNamesProgram

LEMMA SlotLemma ==
    ASSUME Types, SlotInv, Next
    PROVE  SlotInv'
<1>1. CASE UNCHANGED <<runtime, deployment, observations>>
  BY <1>1 DEF SlotInv, SlotOrder, SlotNamesProgram
<1>2. CASE GrowProgram
  <2>1. /\ runtime' = [runtime EXCEPT !.capacity = @ + 1, !.deployed = slot]
        /\ runtime.deployed < slot
        /\ UNCHANGED <<deployment, observations>>
    BY <1>2 DEF GrowProgram, LoaderReady, controller, evidence
  <2>2. runtime'.deployed = slot
    BY <2>1 DEF Types, RuntimeTypes
  <2> QED
    BY <2>1, <2>2, NewSlotLemma
<1>3. ASSUME NEW id \in Ids, NEW o,
             NEW payload \in {buffers[proposals[id].buffer].artifact} \cup Damage,
             ExecuteUpgrade(id, o, payload)
      PROVE  SlotInv'
  <2>1. /\ runtime' = [runtime EXCEPT !.artifact = payload, !.deployed = slot]
        /\ runtime.deployed < slot
        /\ UNCHANGED <<deployment, observations>>
    BY <1>3, UpgradeFacts DEF ExecuteUpgrade, controller, evidence
  <2>2. runtime'.deployed = slot
    BY <2>1 DEF Types, RuntimeTypes
  <2> QED
    BY <2>1, <2>2, NewSlotLemma
<1>4. ASSUME NEW plan \in ObservationPlans, BeginObservation(plan)  PROVE SlotInv'
  <2>1. /\ observations' = observations \cup {NewObservation(plan)}
        /\ UNCHANGED <<runtime, deployment>>
    BY <1>4 DEF BeginObservation, custody, controller
  <2>2. runtime.deployed \in Nat
    BY BoundsAssumption DEF Types, RuntimeTypes
  <2> QED
    BY <2>1, <2>2, BegunLemma DEF SlotInv, SlotOrder, SlotNamesProgram
<1>5. ASSUME NEW o \in observations, FinalizeObservation(o)  PROVE SlotInv'
  <2>1. /\ observations' = (observations \ {o}) \cup {Sealed(o)}
        /\ UNCHANGED <<runtime, deployment>>
        /\ o.deployed = runtime.deployed
        /\ o.capacity = runtime.capacity
        /\ runtime.artifact = o.artifact
    BY <1>5 DEF FinalizeObservation, ObservationLive, Sealed, custody, controller
  <2>2. /\ Sealed(o).deployed = o.deployed
        /\ Sealed(o).capacity = o.capacity
        /\ Sealed(o).artifact = o.artifact
    BY FinalizedLemma DEF Types, ObservationTypes
  <2> QED
    BY <2>1, <2>2 DEF SlotInv, SlotOrder, SlotNamesProgram
<1>6. ASSUME \/ \E id \in Ids : ExecuteUnfreeze(id)
             \/ \E epoch \in DOMAIN freezes : ExecuteEmergencyResolution(epoch)
      PROVE  SlotInv'
  <2>1. /\ deployment'.artifact = runtime.artifact
        /\ deployment'.capacity = runtime.capacity
        /\ deployment'.deployed = runtime.deployed
        /\ UNCHANGED <<runtime, observations>>
    BY <1>6, UnfreezeFacts, ResolveFacts
  <2>2. runtime.deployed \in Nat
    BY BoundsAssumption DEF Types, RuntimeTypes
  <2> QED
    BY <2>1, <2>2 DEF SlotInv, SlotOrder, SlotNamesProgram
<1> QED
  BY <1>1, <1>2, <1>3, <1>4, <1>5, <1>6, RuntimeSteps, DeploymentSteps, ObservationSteps

LEMMA SlotInit ==
    ASSUME Init, Types
    PROVE  SlotInv
BY BoundsAssumption DEF Init, SlotInv, SlotOrder, SlotNamesProgram

\* No evidence is of a later deployment, and the evidence of the live one describes it.
THEOREM SlotInvariant == Spec => []SlotInv
<1>1. Types /\ SlotInv /\ [Next]_vars => SlotInv'
  <2>1. ASSUME SlotInv, UNCHANGED vars  PROVE SlotInv'
    BY <2>1 DEF SlotInv, SlotOrder, SlotNamesProgram, vars, controller, evidence, custody
  <2> QED
    BY <2>1, SlotLemma
<1>2. Init => SlotInv
  BY InitTypes, SlotInit
<1> QED
  BY <1>1, <1>2, TypesInvariant, PTL DEF Spec

\* Evidence that carries the live account's slot describes the live account, with
\* every history of upgrades, growth and observations.
THEOREM SlotTheorem == Spec => []SlotNamesProgram
<1>1. SlotInv => SlotNamesProgram
  BY DEF SlotInv
<1> QED
  BY <1>1, SlotInvariant, PTL

-------------------------------------------------------------------------------
(* What the gate promises of the program *)

\* The gate opens only at the end of an upgrade or of an emergency freeze.
LEMMA OpeningSteps ==
    ASSUME Types, Next, gate.status # "Active", gate'.status = "Active"
    PROVE  \/ gate.status = "FrozenForUpgrade" /\ \E id \in Ids : ExecuteUnfreeze(id)
           \/ gate.status = "EmergencyFrozen"
                /\ \E epoch \in DOMAIN freezes : ExecuteEmergencyResolution(epoch)
<1>1. ASSUME NEW id \in Ids, ExecuteUnfreeze(id)  PROVE gate.status = "FrozenForUpgrade"
  BY <1>1, UnfreezeGateStep DEF FrozenFor
<1> QED
  BY <1>1, GateSteps, FreezeGateStep, GuardianGateStep, ResolveGateStep, ActivateGateStep

\* A handler that keeps the gate keeps the trusted payload, and only an upgrade
\* replaces the running one.
LEMMA PayloadSteps ==
    ASSUME Types, Next, UNCHANGED gate
    PROVE  /\ deployment'.artifact = deployment.artifact
           /\ \/ runtime'.artifact = runtime.artifact
              \/ \E id \in Ids, o \in observations :
                    \E payload \in {buffers[proposals[id].buffer].artifact} \cup Damage :
                       ExecuteUpgrade(id, o, payload) /\ runtime'.artifact = payload
<1>1. gate.epoch \in Nat
  BY EpochLemma
<1>2. /\ ~ \E id \in Ids : ExecuteUnfreeze(id)
      /\ ~ \E epoch : ExecuteEmergencyResolution(epoch)
  BY <1>1, UnfreezeGateStep, ResolveGateStep
<1>3. GrowProgram => runtime'.artifact = runtime.artifact
  BY DEF GrowProgram, Types, RuntimeTypes
<1>4. ASSUME NEW id \in Ids, NEW o,
             NEW payload \in {buffers[proposals[id].buffer].artifact} \cup Damage,
             ExecuteUpgrade(id, o, payload)
      PROVE  runtime'.artifact = payload
  BY <1>4, UpgradeFacts DEF Types, RuntimeTypes
<1>5. deployment'.artifact = deployment.artifact
  BY <1>2, DeploymentSteps
<1> QED
  BY <1>3, <1>4, <1>5, RuntimeSteps

LEMMA GatedStep ==
    ASSUME Types, SlotInv, Next
    PROVE  [Gated!Next]_(Gated!gated)
<1>1. gate.epoch \in Nat /\ gate.status \in GateStatuses
  BY EpochLemma DEF Types, GateTypes, GateRecord
<1>2. ASSUME NEW id \in Ids, FreezeProposal(id)  PROVE Gated!Next
  <2>1. /\ UNCHANGED <<runtime, deployment>>
        /\ gate'.status # "Active"
        /\ gate'.epoch = gate.epoch + 1
    BY <1>2, FreezeGateStep DEF FreezeProposal, custody
  <2> QED
    BY <2>1 DEF Gated!Next, Gated!Close, Gated!HandOver
<1>3. ASSUME NEW id \in Ids, ActivateRollback(id)  PROVE Gated!Next
  <2>1. /\ UNCHANGED <<runtime, deployment>>
        /\ gate.status # "Active"
        /\ gate'.status # "Active"
        /\ gate'.epoch = gate.epoch + 1
    BY <1>3, ActivateGateStep DEF ActivateRollback, custody, FrozenFor
  <2> QED
    BY <2>1 DEF Gated!Next, Gated!HandOver
<1>4. CASE GuardianFreeze
  <2>1. /\ UNCHANGED <<runtime, deployment>>
        /\ gate.status = "Active"
        /\ gate'.status # "Active"
        /\ gate'.epoch = gate.epoch + 1
    BY <1>4, GuardianGateStep DEF GuardianFreeze, custody
  <2> QED
    BY <2>1 DEF Gated!Next, Gated!Close
<1>5. ASSUME NEW id \in Ids, ExecuteUnfreeze(id)  PROVE Gated!Next
  <2>1. /\ gate.status # "Active" /\ gate'.status = "Active"
        /\ gate'.epoch = gate.epoch + 1
        /\ deployment'.artifact = runtime.artifact
        /\ UNCHANGED runtime
    BY <1>5, UnfreezeGateStep, UnfreezeFacts DEF FrozenFor
  <2> QED
    BY <2>1 DEF Gated!Next, Gated!Reopen
<1>6. ASSUME NEW epoch, ExecuteEmergencyResolution(epoch)  PROVE Gated!Next
  <2>1. /\ gate.status # "Active" /\ gate'.status = "Active"
        /\ gate'.epoch = gate.epoch + 1
        /\ deployment'.artifact = runtime.artifact
        /\ UNCHANGED runtime
    BY <1>6, ResolveGateStep, ResolveFacts
  <2> QED
    BY <2>1 DEF Gated!Next, Gated!Reopen
<1>7. CASE UNCHANGED gate
  <2>1. ASSUME NEW id \in Ids, NEW o,
               NEW payload \in {buffers[proposals[id].buffer].artifact} \cup Damage,
               ExecuteUpgrade(id, o, payload), runtime'.artifact = payload
        PROVE  Gated!Next
    <3>1. /\ gate.status # "Active"
          /\ runtime'.artifact \in Artifacts \cup Damage
          /\ deployment'.artifact = deployment.artifact
      BY <1>7, <2>1, UpgradeFacts, PayloadSteps DEF FrozenFor
    <3> QED
      BY <1>7, <3>1 DEF Gated!Next, Gated!Replace
  <2> QED
    BY <1>7, <2>1, PayloadSteps DEF Gated!gated
<1> QED
  BY <1>2, <1>3, <1>4, <1>5, <1>6, <1>7, GateSteps

\* The controller implements the abstract gate: users run the trusted program while
\* the gate is open, the payload changes only behind a closed gate, and every period
\* of the gate has an epoch of its own.
THEOREM GatedTheorem == Spec => GatedSpec
<1>1. Init => Gated!Init
  BY DEF Init, Gated!Init
<1>2. Types /\ SlotInv /\ [Next]_vars => [Gated!Next]_(Gated!gated)
  <2>1. UNCHANGED vars => UNCHANGED Gated!gated
    BY DEF vars, controller, custody, Gated!gated
  <2> QED
    BY <2>1, GatedStep
<1> QED
  BY <1>1, <1>2, TypesInvariant, SlotInvariant, PTL DEF Spec, GatedSpec, Gated!Spec

-------------------------------------------------------------------------------
(* What the council decided *)

\* The payload changes only in an upgrade the council decided, inside its window, and
\* for a primary while its rollback is queued, sealed and has the slots to be used.
THEOREM DecidedTheorem == Spec => PayloadChangesDecided
<1> DEFINE p == proposals[gate.active]
           Decided ==
              /\ gate.status = "FrozenForUpgrade"
              /\ Cardinality(p.approvals) = Threshold
              /\ p.notBefore <= slot /\ slot < p.expiry
              /\ p.class \in PrimaryClasses =>
                    /\ proposals[p.rollback].state = "Timelocked"
                    /\ slot + Timing.rollback + Timing.review + 1 < proposals[p.rollback].expiry
                    /\ SealedBufferIntact
<1>1. ASSUME Types, BuffersSealed, NEW id \in Ids, NEW o,
             NEW payload \in {buffers[proposals[id].buffer].artifact} \cup Damage,
             ExecuteUpgrade(id, o, payload)
      PROVE  Decided
  <2>1. /\ gate.status = "FrozenForUpgrade" /\ gate.active = id
        /\ p.state \in {"Frozen", "Extended"}
        /\ p.notBefore <= slot /\ slot < p.expiry
    BY <1>1, UpgradeFacts DEF FrozenFor
  <2>2. Cardinality(p.approvals) = Threshold
    BY <1>1, <2>1, RecordLemma DEF Sound, ProposalValid, ApprovalShape, FrozenOrLater
  <2>3. ASSUME p.class \in PrimaryClasses
        PROVE  /\ proposals[p.rollback].state = "Timelocked"
               /\ slot + Timing.rollback + Timing.review + 1 < proposals[p.rollback].expiry
    <3> DEFINE r == proposals[p.rollback]
    <3>1. RollbackReady(id)
      BY <1>1, <2>1, <2>3 DEF ExecuteUpgrade, PrimaryPrestate, PrimaryClasses
    <3>2. /\ p.rollback \in Ids
          /\ r.state = "Timelocked"
          /\ slot + Timing.rollback + Timing.review + 1 < r.expiry
      BY <2>1, <3>1 DEF RollbackReady, RollbackRunway, Linked, Proposed, Ids
    <3>3. r.expiry \in Nat
      BY <1>1, <3>2, RecordLemma DEF ProposalRecord
    <3>4. Timing.rollback \in Nat /\ Timing.review \in Nat /\ slot \in Nat
      BY <1>1, TimingAssumption DEF Types, ClockTypes
    <3> QED
      BY <3>2, <3>3, <3>4
  <2> QED
    BY <1>1, <2>1, <2>2, <2>3, SealedIntact
<1>2. ASSUME Types, BuffersSealed, [Next]_vars, runtime'.artifact # runtime.artifact
      PROVE  Decided
  <2>1. Next
    BY <1>2 DEF vars, custody
  <2>2. UNCHANGED runtime \/ ~UNCHANGED gate \/ \E id \in Ids, o \in observations :
           \E payload \in {buffers[proposals[id].buffer].artifact} \cup Damage :
              ExecuteUpgrade(id, o, payload)
    BY <1>2, <2>1, PayloadSteps
  <2>3. ASSUME ~UNCHANGED gate  PROVE UNCHANGED runtime
    BY <2>1, <2>3, GateSteps
    DEF FreezeProposal, ExecuteUnfreeze, GuardianFreeze, ExecuteEmergencyResolution,
        ActivateRollback, custody
  <2> QED
    BY <1>1, <1>2, <2>2, <2>3
<1>3. Types /\ BuffersSealed /\ [Next]_vars => [runtime'.artifact # runtime.artifact => Decided]_vars
  BY <1>2
<1> QED
  BY <1>3, TypesInvariant, PTL DEF Spec, PayloadChangesDecided

\* The gate reopens after an upgrade only by a quorum of the council in force, every
\* voter inside its term, on a program that was observed whole.
THEOREM ReopenTheorem == Spec => ReopenedByCouncil
<1> DEFINE p == proposals[gate.active]
           covered == {seat \in p.unfreezeApprovals : TermCovers(config.council, seat, slot)}
           Voted ==
              /\ p.unfreezeCouncil = config.council
              /\ Cardinality(covered) >= Threshold
              /\ runtime.artifact = p.artifact
              /\ runtime.capacity = deployment'.capacity
           Reopens == gate.status = "FrozenForUpgrade" /\ gate'.status = "Active"
<1>1. ASSUME Types, SlotInv, NEW id \in Ids, ExecuteUnfreeze(id)  PROVE Voted
  <2>1. gate.active = id
    BY <1>1, UnfreezeGateStep DEF FrozenFor
  <2>2. UnfreezeQuorum(p)
    BY <1>1, <2>1 DEF ExecuteUnfreeze
  <2>3. /\ p.unfreezeCouncil = config.council
        /\ Cardinality(p.unfreezeApprovals) = Threshold
        /\ \A seat \in p.unfreezeApprovals : TermCovers(config.council, seat, slot)
    BY <2>2 DEF UnfreezeQuorum, RecordedQuorum
  <2>4. covered = p.unfreezeApprovals
    BY <2>3
  <2> HIDE DEF covered
  <2>5. Cardinality(covered) = Threshold
    BY <2>3, <2>4
  <2>6. Cardinality(covered) >= Threshold
    BY <2>5, BoundsAssumption
  <2> QED
    BY <1>1, <2>1, <2>3, <2>6, UnfreezeFacts DEF covered
<1>2. ASSUME Types, SlotInv, [Next]_vars, Reopens  PROVE Voted
  <2>1. Next /\ gate.status # "Active"
    BY <1>2 DEF vars, controller
  <2> QED
    BY <1>1, <1>2, <2>1, OpeningSteps
<1>3. Types /\ SlotInv /\ [Next]_vars => [Reopens => Voted]_vars
  BY <1>2
<1> QED
  BY <1>3, TypesInvariant, SlotInvariant, PTL DEF Spec, ReopenedByCouncil

\* An emergency freeze ends only with the program it began with, by a resolution that
\* a quorum of one council approved.
THEOREM EmergencyTheorem == Spec => EmergencyKeepsProgram
<1> DEFINE Ends == gate.status = "EmergencyFrozen" /\ gate'.status = "Active"
           Kept ==
              /\ deployment'.artifact = deployment.artifact
              /\ runtime.artifact = deployment.artifact
              /\ runtime.deployed = deployment'.deployed
              /\ runtime.capacity = deployment'.capacity
              /\ \E k \in DOMAIN resolutions :
                    /\ k[1] = gate.epoch
                    /\ Cardinality(resolutions[k].approvals) = Threshold
                    /\ resolutions[k].state # "Executed"
                    /\ resolutions'[k].state = "Executed"
<1>1. ASSUME Types, SlotInv, NEW epoch, ExecuteEmergencyResolution(epoch)  PROVE Kept
  <2> DEFINE k == <<epoch, config.council>>
             r == [resolutions[k] EXCEPT !.state = "Executed", !.terminalAt = slot]
  <2>1. /\ k \in DOMAIN resolutions
        /\ resolutions[k].state = "Timelocked"
        /\ Cardinality(resolutions[k].approvals) = Threshold
        /\ StoreResolution(k, r)
    BY <1>1 DEF ExecuteEmergencyResolution, RecordedQuorum
  <2>2. k[1] = gate.epoch
    BY <1>1, ResolveGateStep
  <2>3. "state" \in DOMAIN resolutions[k]
    BY <1>1, <2>1 DEF Types, ResolutionTypes
  <2>4. r.state = "Executed"
    BY <2>3
  <2> HIDE DEF k, r
  <2>5. resolutions'[k] = r
    BY <2>1 DEF StoreResolution, Put
  <2>6. resolutions[k].state # "Executed" /\ resolutions'[k].state = "Executed"
    BY <2>1, <2>4, <2>5
  <2> QED
    BY <1>1, <2>1, <2>2, <2>6, ResolveFacts
<1>2. ASSUME Types, SlotInv, [Next]_vars, Ends  PROVE Kept
  <2>1. Next /\ gate.status # "Active"
    BY <1>2 DEF vars, controller
  <2> QED
    BY <1>1, <1>2, <2>1, OpeningSteps
<1>3. Types /\ SlotInv /\ [Next]_vars => [Ends => Kept]_vars
  BY <1>2
<1> QED
  BY <1>3, TypesInvariant, SlotInvariant, PTL DEF Spec, EmergencyKeepsProgram

-------------------------------------------------------------------------------
(* What becomes of a proposal in flight *)

\* The ways a proposal comes to be, or stays, in flight.
FlightChange(id) ==
    \/ id \in InFlight /\ proposals'[id] = proposals[id]
    \/ FreezeProposal(id)
    \/ \E primary \in Ids : ActivateRollback(primary) /\ id = proposals[primary].rollback
    \/ \E o \in observations, payload \in {buffers[proposals[id].buffer].artifact} \cup Damage :
          ExecuteUpgrade(id, o, payload)
    \/ FinalizeVerification(id)
    \/ \E c \in Attested(ProposalSubject(id), "Poststate", config.council) : Poststate(id, c)
    \/ \E seat \in Seats : ApproveUnfreeze(id, seat)

LEMMA FlightChangeLemma ==
    ASSUME Types, Next, NEW id \in InFlight'
    PROVE  id \in Ids /\ FlightChange(id)
<1>1. id \in Ids' /\ proposals'[id].state \in Flying
  BY FlyingDef
<1>2. ASSUME NEW i \in Ids, NEW q \in ProposalRecord, Becomes(i, q), id # i
      PROVE  id \in InFlight /\ proposals'[id] = proposals[id]
  <2>1. id \in Ids /\ proposals'[id] = proposals[id]
    BY <1>1, <1>2 DEF Becomes, Ids
  <2> QED
    BY <1>1, <2>1, FlyingDef
<1>3. CASE UNCHANGED proposals
  BY <1>1, <1>3, FlyingDef DEF FlightChange, Ids
<1>4. CASE NewStep
  <2> PICK q \in ProposalRecord : q.state = "Draft" /\ proposals' = Append(proposals, q)
    BY <1>4 DEF NewStep
  <2>1. /\ \A i \in Ids : proposals'[i] = proposals[i]
        /\ \A i \in Ids' \ Ids : proposals'[i].state = "Draft"
    BY DEF Types, ProposalTypes, Ids
  <2>2. id \in Ids /\ proposals'[id] = proposals[id]
    BY <1>1, <2>1, FlyingDef
  <2> QED
    BY <1>1, <2>2, FlyingDef DEF FlightChange
<1>5. CASE PendingStep
  <2> PICK i \in Ids, q \in ProposalRecord : q.state \in PreFreezeEnds /\ Becomes(i, q)
    BY <1>5 DEF PendingStep
  <2>1. id # i
    BY <1>1, FlyingDef DEF Becomes, PreFreezeEnds, PreFreeze
  <2> QED
    BY <1>2, <2>1 DEF FlightChange, InFlight
<1>6. ASSUME NEW i \in Ids, ExecuteUnfreeze(i)  PROVE id \in Ids /\ FlightChange(id)
  <2> PICK other \in Ids \ {i} : PairEnded(i, other)
    BY <1>6, UnfreezeStep
  <2>1. /\ Ids' = Ids
        /\ proposals'[i].state \notin Flying
        /\ proposals'[other].state \notin Flying
        /\ \A j \in Ids \ {i, other} : proposals'[j] = proposals[j]
    BY FlyingDef DEF PairEnded, Ids
  <2>2. id \in Ids /\ proposals'[id] = proposals[id]
    BY <1>1, <2>1
  <2> QED
    BY <1>1, <2>2, FlyingDef DEF FlightChange
<1>7. ASSUME NEW i \in Ids, FreezeProposal(i)  PROVE id \in Ids /\ FlightChange(id)
  BY <1>2, <1>7, FreezeProposalStep DEF FlightChange, Becomes, InFlight
<1>8. ASSUME NEW i \in Ids, ActivateRollback(i)  PROVE id \in Ids /\ FlightChange(id)
  BY <1>2, <1>8, ActivateStep DEF FlightChange, Becomes, InFlight
<1>9. ASSUME NEW i \in Ids, NEW o \in observations,
              NEW payload \in {buffers[proposals[i].buffer].artifact} \cup Damage,
              ExecuteUpgrade(i, o, payload)
       PROVE  id \in Ids /\ FlightChange(id)
  BY <1>2, <1>9, UpgradeStep DEF FlightChange, Becomes, InFlight
<1>10. ASSUME NEW i \in Ids, FinalizeVerification(i)  PROVE id \in Ids /\ FlightChange(id)
  BY <1>2, <1>10, VerifyStep DEF FlightChange, Becomes, InFlight
<1>11. ASSUME NEW i \in Ids,
              NEW c \in Attested(ProposalSubject(i), "Poststate", config.council),
              Poststate(i, c)
       PROVE  id \in Ids /\ FlightChange(id)
  BY <1>2, <1>11, PoststateStep DEF FlightChange, Becomes, InFlight
<1>12. ASSUME NEW i \in Ids, NEW seat \in Seats, ApproveUnfreeze(i, seat)
       PROVE  id \in Ids /\ FlightChange(id)
  BY <1>2, <1>12, ApproveUnfreezeStep DEF FlightChange, Becomes, InFlight
<1> QED
  BY <1>3, <1>4, <1>5, <1>6, <1>7, <1>8, <1>9, <1>10, <1>11, <1>12, ProposalSteps
  DEF ProposalChange

\* Who may act on a proposal in flight, and what the step makes of it.
LEMMA FlightRecords ==
    ASSUME Types, NEW id \in Ids
    PROVE  /\ FreezeProposal(id) =>
                 proposals[id].state = "Timelocked" /\ proposals'[id].state = "Frozen"
           /\ \A o, payload : ExecuteUpgrade(id, o, payload) =>
                 /\ FrozenFor(id)
                 /\ proposals[id].state \in {"Frozen", "Extended"}
                 /\ proposals'[id].state = "UpgradeExecuted"
                 /\ proposals'[id].upgradedAt = slot
           /\ FinalizeVerification(id) =>
                 /\ gate.status = "FrozenForUpgrade" /\ gate.active = id
                 /\ proposals[id].state = "UpgradeExecuted"
                 /\ proposals'[id] = FlightMove(id, "ProgramDataVerified")
           /\ \A c : Poststate(id, c) =>
                 /\ FrozenFor(id)
                 /\ proposals[id].state = "ProgramDataVerified"
                 /\ proposals'[id] = FlightMove(id, "PoststateAccepted")
           /\ \A seat \in Seats : ApproveUnfreeze(id, seat) =>
                 /\ FrozenFor(id)
                 /\ proposals[id].state \in {"PoststateAccepted", "UnfreezeApproved"}
                 /\ proposals'[id].state \in {"PoststateAccepted", "UnfreezeApproved"}
                 /\ SameFlight(proposals[id], proposals'[id])
<1>1. proposals[id] \in ProposalRecord
  BY RecordLemma
<1>2. /\ FrozenNow(id).state = "Frozen"
      /\ UpgradedNow(id).state = "UpgradeExecuted" /\ UpgradedNow(id).upgradedAt = slot
  BY <1>1 DEF FrozenNow, UpgradedNow, ProposalRecord
<1>3. FreezeProposal(id) =>
         proposals[id].state = "Timelocked" /\ proposals'[id].state = "Frozen"
  BY <1>2, FreezeProposalStep DEF Becomes
<1>4. ASSUME NEW o, NEW payload, ExecuteUpgrade(id, o, payload)
      PROVE  /\ FrozenFor(id)
             /\ proposals[id].state \in {"Frozen", "Extended"}
             /\ proposals'[id].state = "UpgradeExecuted"
             /\ proposals'[id].upgradedAt = slot
  <2>1. proposals[id].state \in {"Frozen", "Extended"} /\ CustodyGuard(id)
    BY <1>4 DEF ExecuteUpgrade, ExecutionDue
  <2>2. FrozenFor(id)
    BY <2>1 DEF CustodyGuard, FrozenOrLater, Terminal
  <2>3. proposals'[id] = UpgradedNow(id)
    BY <1>4, UpgradeStep DEF Becomes
  <2> QED
    BY <1>2, <2>1, <2>2, <2>3
<1>5. FinalizeVerification(id) =>
         /\ gate.status = "FrozenForUpgrade" /\ gate.active = id
         /\ proposals[id].state = "UpgradeExecuted"
         /\ proposals'[id] = FlightMove(id, "ProgramDataVerified")
  <2> SUFFICES ASSUME FinalizeVerification(id)
               PROVE  /\ gate.status = "FrozenForUpgrade" /\ gate.active = id
                      /\ proposals[id].state = "UpgradeExecuted"
                      /\ proposals'[id] = FlightMove(id, "ProgramDataVerified")
    OBVIOUS
  <2>1. proposals'[id] = FlightMove(id, "ProgramDataVerified")
        /\ proposals[id].state = "UpgradeExecuted"
    BY VerifyStep DEF Becomes
  <2> QED
    BY <2>1 DEF FinalizeVerification
<1>6. \A c : Poststate(id, c) =>
         /\ FrozenFor(id)
         /\ proposals[id].state = "ProgramDataVerified"
         /\ proposals'[id] = FlightMove(id, "PoststateAccepted")
  BY PoststateStep DEF Becomes
<1>7. \A seat \in Seats : ApproveUnfreeze(id, seat) =>
         /\ FrozenFor(id)
         /\ proposals[id].state \in {"PoststateAccepted", "UnfreezeApproved"}
         /\ proposals'[id].state \in {"PoststateAccepted", "UnfreezeApproved"}
         /\ SameFlight(proposals[id], proposals'[id])
  BY ApproveUnfreezeStep DEF Becomes, ApproveUnfreeze, UnfreezeEvidence
<1> QED
  BY <1>3, <1>4, <1>5, <1>6, <1>7

LEMMA StateSets ==
    /\ UpgradedStates = {"UpgradeExecuted", "SupersededByRollback", "ProgramDataVerified",
                         "PoststateAccepted", "UnfreezeApproved", "Completed"}
    /\ FrozenOrLater = {"Frozen", "Extended"} \cup UpgradedStates
BY DEF UpgradedStates, VerifiedStates, UnfreezeStates, FrozenOrLater

\* A proposal that was frozen, or upgraded, stays so.
LEMMA StatesKept ==
    ASSUME Types, Next, NEW id \in Ids
    PROVE  /\ proposals[id].state \in FrozenOrLater => proposals'[id].state \in FrozenOrLater
           /\ proposals[id].state \in UpgradedStates => proposals'[id].state \in UpgradedStates
<1> DEFINE Kept(p, q) ==
              /\ p.state \in FrozenOrLater => q.state \in FrozenOrLater
              /\ p.state \in UpgradedStates => q.state \in UpgradedStates
<1> SUFFICES Kept(proposals[id], proposals'[id])
  OBVIOUS
<1>1. ASSUME NEW i \in Ids, NEW q, Becomes(i, q), Kept(proposals[i], q)
      PROVE  Kept(proposals[id], proposals'[id])
  BY <1>1 DEF Becomes
<1>2. CASE UNCHANGED proposals
  BY <1>2
<1>3. CASE NewStep
  BY <1>3 DEF NewStep, Types, ProposalTypes, Ids
<1>4. CASE PendingStep
  <2> PICK i \in Ids, q \in ProposalRecord : proposals[i].state \in PreFreeze /\ Becomes(i, q)
    BY <1>4 DEF PendingStep
  <2>1. proposals[i].state \notin FrozenOrLater /\ proposals[i].state \notin UpgradedStates
    BY StateSets DEF PreFreeze
  <2> QED
    BY <1>1, <2>1
<1>5. ASSUME NEW i \in Ids, ExecuteUnfreeze(i)  PROVE Kept(proposals[id], proposals'[id])
  <2> PICK other \in Ids \ {i} : PairEnded(i, other)
    BY <1>5, UnfreezeStep
  <2> QED
    BY StateSets DEF PairEnded
<1>6. ASSUME NEW i \in Ids, FreezeProposal(i)  PROVE Kept(proposals[id], proposals'[id])
  <2>1. Kept(proposals[i], FrozenNow(i))
    BY <1>6, FreezeProposalStep, StateSets
  <2> QED
    BY <1>1, <1>6, <2>1, FreezeProposalStep
<1>7. ASSUME NEW i \in Ids, ActivateRollback(i)  PROVE Kept(proposals[id], proposals'[id])
  <2>1. Kept(proposals[proposals[i].rollback], FrozenNow(proposals[i].rollback))
    BY <1>7, ActivateStep, StateSets
  <2> QED
    BY <1>1, <1>7, <2>1, ActivateStep
<1>8. ASSUME NEW i \in Ids, NEW o, NEW payload, ExecuteUpgrade(i, o, payload)
      PROVE  Kept(proposals[id], proposals'[id])
  <2>1. Kept(proposals[i], UpgradedNow(i))
    BY <1>8, UpgradeStep, FlightRecords, StateSets DEF Becomes
  <2> QED
    BY <1>1, <1>8, <2>1, UpgradeStep
<1>9. ASSUME NEW i \in Ids, NEW state \in {"ProgramDataVerified", "PoststateAccepted"}
       PROVE  Kept(proposals[i], FlightMove(i, state))
  BY RecordLemma, StateSets DEF FlightMove, ProposalRecord
<1>10. ASSUME NEW i \in Ids, NEW seat \in Seats, ApproveUnfreeze(i, seat)
       PROVE  Kept(proposals[id], proposals'[id])
  <2>1. Kept(proposals[i], UnfrozenBy(i, seat))
    BY <1>10, ApproveUnfreezeStep, StateSets
  <2> QED
    BY <1>1, <1>10, <2>1, ApproveUnfreezeStep
<1> HIDE DEF Kept
<1> QED
  BY <1>1, <1>2, <1>3, <1>4, <1>5, <1>6, <1>7, <1>8, <1>9, <1>10, ProposalSteps,
     VerifyStep, PoststateStep
  DEF ProposalChange

\* Whoever else flies is the primary of the rollback that holds the gate.
LEMMA HolderLemma ==
    ASSUME Types, OneFlight, NEW id \in InFlight, id # gate.active
    PROVE  /\ gate.status = "FrozenForUpgrade"
           /\ gate.active \in Ids
           /\ proposals[gate.active].class = "EmergencyRollback"
           /\ proposals[gate.active].primary = id
           /\ proposals[id].class # "EmergencyRollback"
           /\ proposals[id].rollback = gate.active
<1>1. gate.status = "FrozenForUpgrade"
  BY DEF OneFlight
<1>2. /\ gate.active \in InFlight
      /\ proposals[gate.active].primary = id
      /\ proposals[id].rollback = gate.active
  BY <1>1 DEF OneFlight
<1>3. id \in Ids /\ gate.active \in Ids
  BY <1>2 DEF InFlight
<1> QED
  BY <1>1, <1>2, <1>3, LinkLemma

\* No handler of an open gate, or of another's, runs while a proposal is in flight.
LEMMA FlightAlone ==
    ASSUME Types, OneFlight, Next, InFlight # {}, InFlight' # {}
    PROVE  /\ gate.status = "FrozenForUpgrade"
           /\ UNCHANGED config.nonce
           /\ \A id \in Ids : ~FreezeProposal(id) /\ ~ExecuteUnfreeze(id)
           /\ ~GuardianFreeze
           /\ \A epoch : ~ExecuteEmergencyResolution(epoch)
<1>1. gate.status = "FrozenForUpgrade" /\ gate'.status = "FrozenForUpgrade"
  BY FlightLemma DEF OneFlight
<1>2. /\ \A id \in Ids : ~FreezeProposal(id) /\ ~ExecuteUnfreeze(id)
      /\ ~GuardianFreeze
      /\ \A epoch : ~ExecuteEmergencyResolution(epoch)
  BY <1>1, FreezeGateStep, UnfreezeGateStep, GuardianGateStep, ResolveGateStep
<1>3. ASSUME NEW v, RotateCouncil(v)  PROVE config'.nonce = config.nonce
  BY <1>3 DEF RotateCouncil, Types, ConfigTypes
<1> QED
  BY <1>1, <1>2, <1>3, ConfigSteps

\* The trusted payload changes only when the flight ends.
LEMMA TrustedKept ==
    ASSUME Types, OneFlight, Next, InFlight' # {}
    PROVE  deployment'.artifact = deployment.artifact
<1>1. gate'.status = "FrozenForUpgrade"
  BY FlightLemma DEF OneFlight
<1>2. ~ \E id \in Ids : ExecuteUnfreeze(id)
  BY <1>1, UnfreezeGateStep
<1>3. ~ \E epoch : ExecuteEmergencyResolution(epoch)
  BY <1>1, ResolveGateStep
<1> QED
  BY <1>2, <1>3, DeploymentSteps

-------------------------------------------------------------------------------
(* A rollback restores the trusted payload *)

\* The rollback a gate is handed to starts as a frozen proposal.
LEMMA HandedOver ==
    ASSUME Types, NEW primary \in Ids, ActivateRollback(primary)
    PROVE  LET r == proposals[primary].rollback IN
           /\ r \in Ids \ {primary}
           /\ proposals[r].state = "Timelocked"
           /\ proposals'[r].state = "Frozen"
           /\ proposals'[r].extendedAt = proposals[r].extendedAt
           /\ \A i \in Ids \ {r} : proposals'[i] = proposals[i]
<1> DEFINE r == proposals[primary].rollback
<1>1. /\ r \in Ids \ {primary}
      /\ Becomes(r, FrozenNow(r))
      /\ proposals[r].state = "Timelocked"
  BY ActivateStep
<1> HIDE DEF r
<1>2. FrozenNow(r).state = "Frozen" /\ FrozenNow(r).extendedAt = proposals[r].extendedAt
  BY <1>1, RecordLemma DEF FrozenNow, ProposalRecord
<1> QED
  BY <1>1, <1>2 DEF Becomes, r

PrestateKey(id) == <<ProposalSubject(id), "Prestate">>
PoststateKey(id) == <<ProposalSubject(id), "Poststate">>

LEMMA KeyLemma ==
    \A id : /\ PrestateKey(id)[1][2] = id /\ PrestateKey(id)[2] = "Prestate"
            /\ PoststateKey(id)[1][2] = id /\ PoststateKey(id)[2] = "Poststate"
BY DEF PrestateKey, PoststateKey, ProposalSubject

\* An accepted checkpoint stays as it was accepted, and a new one is accepted for a
\* proposal before or after its upgrade, or for a resolution.
LEMMA CheckpointChange ==
    ASSUME Types, Next
    PROVE  /\ \A k \in DOMAIN checkpoints :
                 k \in DOMAIN checkpoints' /\ checkpoints'[k] = checkpoints[k]
           /\ \A k \in DOMAIN checkpoints' :
                 \/ k \in DOMAIN checkpoints
                 \/ \E id \in Ids : \E c :
                       /\ Prestate(id, c)
                       /\ k = PrestateKey(id)
                       /\ checkpoints'[k] = AcceptedCheckpoint(c)
                 \/ k[2] \in {"Poststate", "Emergency"}
           /\ \A id \in Ids : \A c : Poststate(id, c) =>
                 /\ PoststateKey(id) \in DOMAIN checkpoints'
                 /\ checkpoints'[PoststateKey(id)] = AcceptedCheckpoint(c)
<1>1. ASSUME NEW s, NEW phase, NEW c, FinalizeCheckpoint(s, phase, c)
      PROVE  /\ \A k \in DOMAIN checkpoints :
                   k \in DOMAIN checkpoints' /\ checkpoints'[k] = checkpoints[k]
             /\ <<s, phase>> \in DOMAIN checkpoints'
             /\ checkpoints'[<<s, phase>>] = AcceptedCheckpoint(c)
             /\ \A k \in DOMAIN checkpoints' :
                   k \in DOMAIN checkpoints \/ (k = <<s, phase>> /\ k[2] = phase)
  BY <1>1 DEF FinalizeCheckpoint, Put
<1>2. ASSUME NEW id \in Ids, NEW c, Poststate(id, c)
      PROVE  /\ PoststateKey(id) \in DOMAIN checkpoints'
             /\ checkpoints'[PoststateKey(id)] = AcceptedCheckpoint(c)
  BY <1>1, <1>2 DEF Poststate, PoststateKey
<1>3. CASE UNCHANGED checkpoints
  BY <1>2, <1>3
<1>4. ASSUME NEW id \in Ids, NEW c, Prestate(id, c)
      PROVE  /\ \A k \in DOMAIN checkpoints :
                   k \in DOMAIN checkpoints' /\ checkpoints'[k] = checkpoints[k]
             /\ \A k \in DOMAIN checkpoints' :
                   \/ k \in DOMAIN checkpoints
                   \/ k = PrestateKey(id) /\ checkpoints'[k] = AcceptedCheckpoint(c)
  BY <1>1, <1>4 DEF Prestate, PrestateKey
<1>5. ASSUME NEW id \in Ids, NEW c, Poststate(id, c)
      PROVE  /\ \A k \in DOMAIN checkpoints :
                   k \in DOMAIN checkpoints' /\ checkpoints'[k] = checkpoints[k]
             /\ \A k \in DOMAIN checkpoints' : k \in DOMAIN checkpoints \/ k[2] = "Poststate"
  BY <1>1, <1>5 DEF Poststate
<1>6. ASSUME NEW j, NEW c, Resolved(j, c)
      PROVE  /\ \A k \in DOMAIN checkpoints :
                   k \in DOMAIN checkpoints' /\ checkpoints'[k] = checkpoints[k]
             /\ \A k \in DOMAIN checkpoints' : k \in DOMAIN checkpoints \/ k[2] = "Emergency"
  BY <1>1, <1>6 DEF Resolved
<1>7. CASE CheckpointNext
  BY <1>2, <1>3, <1>4, <1>5, <1>6, <1>7, CheckpointSteps
<1>8. ~CheckpointNext => UNCHANGED checkpoints
  BY ProposalFrame, EmergencyFrame, CustodyFrame, SurroundingsFrame DEF Next, evidence
<1> QED
  BY <1>3, <1>7, <1>8

\* The prestate of a primary in flight is of the trusted payload.
PrestateTrusted ==
    \A k \in DOMAIN checkpoints :
        k[2] = "Prestate" =>
            /\ k[1][2] \in Ids
            /\ proposals[k[1][2]].state \in FrozenOrLater
            /\ k[1][2] \in InFlight /\ proposals[k[1][2]].class # "EmergencyRollback" =>
                  checkpoints[k].candidate.observation.artifact = deployment.artifact

\* A rollback that was executed was of the trusted payload.
RollbackTarget ==
    \A id \in InFlight :
        proposals[id].class = "EmergencyRollback" /\ proposals[id].state \in UpgradedStates
        => proposals[id].artifact = deployment.artifact

RestoreInv == PrestateTrusted /\ RollbackTarget /\ RollbackRestores

LEMMA PrestateLemma ==
    ASSUME Types, OneFlight, PrestateTrusted, Next
    PROVE  PrestateTrusted'
<1> SUFFICES ASSUME NEW k \in DOMAIN checkpoints', k[2] = "Prestate"
             PROVE  /\ k[1][2] \in Ids'
                    /\ proposals'[k[1][2]].state \in FrozenOrLater
                    /\ k[1][2] \in InFlight'
                          /\ proposals'[k[1][2]].class # "EmergencyRollback" =>
                       checkpoints'[k].candidate.observation.artifact = deployment'.artifact
  BY DEF PrestateTrusted
<1> DEFINE id == k[1][2]
<1>1. CASE k \in DOMAIN checkpoints
  <2>1. /\ id \in Ids
        /\ proposals[id].state \in FrozenOrLater
        /\ id \in InFlight /\ proposals[id].class # "EmergencyRollback" =>
              checkpoints[k].candidate.observation.artifact = deployment.artifact
    BY <1>1 DEF PrestateTrusted
  <2> HIDE DEF id
  <2>2. id \in Ids' /\ proposals'[id].state \in FrozenOrLater
    BY <2>1, IdsGrow, StatesKept
  <2>3. checkpoints'[k] = checkpoints[k]
    BY <1>1, CheckpointChange
  <2>4. proposals'[id].class = proposals[id].class
    BY <2>1, ProposalsLemma DEF ProposalsKept, SameManifest
  <2>5. ASSUME id \in InFlight', proposals[id].class # "EmergencyRollback"  PROVE id \in InFlight
    <3>1. FlightChange(id)
      BY <2>5, FlightChangeLemma
    <3>2. ASSUME NEW primary \in Ids, ActivateRollback(primary), id = proposals[primary].rollback
          PROVE  FALSE
      BY <2>5, <3>2 DEF ActivateRollback, Linked
    <3>3. ~FreezeProposal(id)
      BY <2>1, FlightRecords, StateSets
    <3>4. proposals[id].state \in {"Frozen", "Extended", "UpgradeExecuted",
                                   "ProgramDataVerified", "PoststateAccepted",
                                   "UnfreezeApproved"} => id \in InFlight
      BY <2>1, FlyingDef
    <3> QED
      BY <2>1, <3>1, <3>2, <3>3, <3>4, FlightRecords DEF FlightChange
  <2>6. ASSUME id \in InFlight', proposals'[id].class # "EmergencyRollback"
        PROVE  checkpoints'[k].candidate.observation.artifact = deployment'.artifact
    BY <2>1, <2>3, <2>4, <2>5, <2>6, TrustedKept
  <2> QED
    BY <2>2, <2>6 DEF id
<1>2. ASSUME NEW i \in Ids, NEW c, Prestate(i, c), k = PrestateKey(i),
             checkpoints'[k] = AcceptedCheckpoint(c)
      PROVE  /\ id \in Ids'
             /\ proposals'[id].state \in FrozenOrLater
             /\ id \in InFlight' /\ proposals'[id].class # "EmergencyRollback" =>
                   checkpoints'[k].candidate.observation.artifact = deployment'.artifact
  <2>1. /\ id = i
        /\ UNCHANGED proposals
        /\ UNCHANGED deployment
        /\ proposals[i].state = "Frozen"
        /\ FreshObservation(c.observation, "ProposalPrestate", ProposalSubject(i),
                            PrestateExpectation(proposals[i]))
    BY <1>2, KeyLemma, PrestateStep DEF PrestateBinding, Prestate, FinalizeCheckpoint, controller
  <2>2. proposals[i].class # "EmergencyRollback" =>
           c.observation.artifact = deployment.artifact
    BY <2>1 DEF FreshObservation, ExpectationMet, PrestateExpectation, TrustedExpectation
  <2>3. checkpoints'[k].candidate.observation = c.observation
    BY <1>2 DEF AcceptedCheckpoint
  <2>4. Ids' = Ids
    BY <2>1 DEF Ids
  <2> QED
    BY <2>1, <2>2, <2>3, <2>4, StateSets
<1> QED
  BY <1>1, <1>2, CheckpointChange

LEMMA TargetLemma ==
    ASSUME Types, OneFlight, PrestateTrusted, RollbackTarget, Next
    PROVE  RollbackTarget'
<1> SUFFICES ASSUME NEW id \in InFlight', proposals'[id].class = "EmergencyRollback",
                    proposals'[id].state \in UpgradedStates
             PROVE  proposals'[id].artifact = deployment'.artifact
  BY DEF RollbackTarget
<1>1. id \in Ids /\ FlightChange(id)
  BY FlightChangeLemma
<1>2. /\ proposals[id].class = "EmergencyRollback"
      /\ proposals'[id].artifact = proposals[id].artifact
  BY <1>1, ProposalsLemma DEF ProposalsKept, SameManifest
<1>3. deployment'.artifact = deployment.artifact
  BY TrustedKept
<1>4. CASE proposals[id].state \in UpgradedStates /\ id \in InFlight
  BY <1>2, <1>3, <1>4 DEF RollbackTarget
<1>5. ASSUME NEW o, NEW payload, ExecuteUpgrade(id, o, payload)
      PROVE  proposals[id].artifact = deployment.artifact
  <2> DEFINE primary == proposals[id].primary
  <2>1. RollbackPrestate(id)
    BY <1>2, <1>5 DEF ExecuteUpgrade
  <2>2. /\ primary \in Ids
        /\ proposals[primary].class # "EmergencyRollback"
        /\ proposals[primary].state
              \in {"UpgradeExecuted", "ProgramDataVerified", "PoststateAccepted"}
        /\ PrestateKey(primary) \in DOMAIN checkpoints
        /\ checkpoints[PrestateKey(primary)].candidate.observation.artifact
              = proposals[id].artifact
    BY <2>1 DEF RollbackPrestate, PrimaryUpgraded, CustodyLoads, Proposed, Ids,
                AcceptedPrestate, PrestateObservation, PrestateKey
  <2> HIDE DEF primary
  <2>3. primary \in InFlight
    BY <2>2, FlyingDef
  <2> QED
    BY <2>2, <2>3, KeyLemma DEF PrestateTrusted
<1>6. ASSUME NEW primary \in Ids, ActivateRollback(primary), id = proposals[primary].rollback
      PROVE  proposals'[id].state = "Frozen"
  BY <1>6, HandedOver
<1>7. CASE id \in InFlight /\ proposals'[id] = proposals[id]
  BY <1>4, <1>7
<1>8. proposals[id].state \in {"UpgradeExecuted", "ProgramDataVerified", "PoststateAccepted",
                               "UnfreezeApproved"}
         => id \in InFlight /\ proposals[id].state \in UpgradedStates
  BY <1>1, FlyingDef, StateSets
<1> QED
  BY <1>1, <1>2, <1>3, <1>4, <1>5, <1>6, <1>7, <1>8, FlightRecords, StateSets DEF FlightChange

LEMMA RestoreLemma ==
    ASSUME Types, OneFlight, SlotInv, RestoreInv, Next
    PROVE  RollbackRestores'
<1> DEFINE Verified == {"ProgramDataVerified", "PoststateAccepted", "UnfreezeApproved"}
<1> SUFFICES ASSUME NEW id \in InFlight', proposals'[id].class = "EmergencyRollback",
                    proposals'[id].state \in Verified
             PROVE  runtime'.artifact = deployment'.artifact
  BY DEF RollbackRestores
<1>1. id \in Ids /\ FlightChange(id)
  BY FlightChangeLemma
<1>2. proposals[id].class = "EmergencyRollback"
  BY <1>1, ProposalsLemma DEF ProposalsKept, SameManifest
<1>3. deployment'.artifact = deployment.artifact
  BY TrustedKept
<1>4. CASE FinalizeVerification(id)
  <2>1. /\ runtime' = runtime
        /\ proposals[id].state = "UpgradeExecuted"
        /\ CustodyObservation(verifications[id].observation, PoststatePurpose(proposals[id]), id,
                              proposals[id].artifact, proposals[id].minCapacity)
    BY <1>4 DEF FinalizeVerification, custody
  <2>2. runtime.artifact = proposals[id].artifact
    BY <2>1, LiveObservation DEF CustodyObservation, Citable
  <2>3. id \in InFlight /\ proposals[id].state \in UpgradedStates
    BY <1>1, <2>1, FlyingDef, StateSets
  <2> QED
    BY <1>2, <1>3, <2>1, <2>2, <2>3 DEF RestoreInv, RollbackTarget
<1>5. CASE id \in InFlight /\ proposals[id].state \in Verified
  <2>1. runtime.artifact = deployment.artifact
    BY <1>2, <1>5 DEF RestoreInv, RollbackRestores
  <2>2. id = gate.active
    BY <1>2, <1>5, HolderLemma
  <2>3. ASSUME NEW i \in Ids, NEW o, NEW payload, ExecuteUpgrade(i, o, payload)  PROVE FALSE
    <3>1. i = gate.active /\ proposals[i].state \in {"Frozen", "Extended"}
      BY <2>3, FlightRecords DEF FrozenFor
    <3> QED
      BY <1>5, <2>2, <3>1
  <2>4. runtime'.artifact = runtime.artifact
    <3>1. GrowProgram => runtime'.artifact = runtime.artifact
      BY DEF GrowProgram, Types, RuntimeTypes
    <3> QED
      BY <2>3, <3>1, RuntimeSteps
  <2> QED
    BY <1>3, <2>1, <2>4
<1>6. ASSUME NEW primary \in Ids, ActivateRollback(primary), id = proposals[primary].rollback
      PROVE  proposals'[id].state = "Frozen"
  BY <1>6, HandedOver
<1>7. proposals[id].state \in Verified => id \in InFlight
  BY <1>1, FlyingDef
<1> QED
  BY <1>1, <1>4, <1>5, <1>6, <1>7, FlightRecords DEF FlightChange

LEMMA RestoreInit ==
    ASSUME Init, Types
    PROVE  RestoreInv
<1>1. \A id \in Ids : proposals[id].state \in PreFreeze \cup {"Cancelled", "Expired"}
  BY StartsAssumption DEF Init, StartValid, Ids, Types, ProposalTypes
<1>2. InFlight = {}
  BY <1>1, FlyingDef DEF PreFreeze
<1>3. DOMAIN checkpoints = {}
  BY DEF Init
<1> QED
  BY <1>2, <1>3 DEF RestoreInv, PrestateTrusted, RollbackTarget, RollbackRestores

LEMMA RestoreStutter ==
    ASSUME RestoreInv, UNCHANGED vars
    PROVE  RestoreInv'
BY DEF RestoreInv, PrestateTrusted, RollbackTarget, RollbackRestores, InFlight, Ids, vars,
       controller, evidence, custody

\* A rollback that has been executed and observed put back the payload the deployment
\* record still trusts: the council attested that payload before the primary ran.
THEOREM RestoreTheorem == Spec => []RollbackRestores
<1>1. Types /\ OneFlight /\ SlotInv /\ RestoreInv /\ [Next]_vars => RestoreInv'
  BY PrestateLemma, TargetLemma, RestoreLemma, RestoreStutter DEF RestoreInv
<1>2. Init => RestoreInv
  BY InitTypes, RestoreInit
<1>3. RestoreInv => RollbackRestores
  BY DEF RestoreInv
<1> QED
  BY <1>1, <1>2, <1>3, TypesInvariant, FlightTheorem, SlotInvariant, PTL DEF Spec

-------------------------------------------------------------------------------
(* Accepted evidence stays acceptable *)

\* An observation covers what it was asked to cover.
ObservationFits == \A o \in observations : o.minimum <= o.capacity

\* Evidence of an upgrade hangs on an upgraded proposal.
EvidenceOfUpgrade ==
    \A id \in DOMAIN verifications :
        /\ proposals[id].state \in UpgradedStates
        /\ id \in InFlight =>
              verifications[id].observation.deployed = proposals[id].upgradedAt

\* A proposal that was verified holds the gate, and its verification is current.
VerificationHolds ==
    \A id \in InFlight :
        proposals[id].state \in {"ProgramDataVerified", "PoststateAccepted", "UnfreezeApproved"}
        => /\ id = gate.active
           /\ id \in DOMAIN verifications
           /\ verifications[id].status = "Verified"
           /\ verifications[id].epoch = gate.epoch
           /\ verifications[id].nonce = config.nonce
           /\ verifications[id].generation = deployment.generation
           /\ verifications[id].observation.artifact = proposals[id].artifact
           /\ verifications[id].observation.deployed = proposals[id].upgradedAt
           /\ proposals[id].minCapacity <= verifications[id].observation.capacity

\* Its accepted poststate is of the present deployment.
PoststateHolds ==
    \A id \in InFlight :
        proposals[id].state \in {"PoststateAccepted", "UnfreezeApproved"}
        => /\ PoststateKey(id) \in DOMAIN checkpoints
           /\ checkpoints[PoststateKey(id)].generation = deployment.generation

\* A flight keeps to the deployment it began with, and its rollback does too.
GenerationHolds ==
    \A id \in InFlight :
        /\ proposals[id].generation = deployment.generation
        /\ proposals[id].class # "EmergencyRollback" =>
              /\ proposals[id].rollback \in Ids
              /\ proposals[proposals[id].rollback].generation = proposals[id].generation

EvidenceInv ==
    /\ ObservationFits
    /\ EvidenceOfUpgrade
    /\ VerificationHolds
    /\ PoststateHolds
    /\ GenerationHolds

\* Only a freeze and a hand-over put a proposal in flight.
LEMMA TakeOff ==
    ASSUME Types, Next, NEW id \in InFlight', id \notin InFlight
    PROVE  /\ id \in Ids
           /\ \/ FreezeProposal(id)
              \/ \E primary \in Ids : ActivateRollback(primary) /\ id = proposals[primary].rollback
<1>1. id \in Ids /\ FlightChange(id)
  BY FlightChangeLemma
<1>2. proposals[id].state \notin Flying
  BY <1>1, FlyingDef
<1> QED
  BY <1>1, <1>2, FlyingDef, FlightRecords DEF FlightChange

\* What a step keeps of a proposal that stays in flight.
LEMMA FlightFields ==
    ASSUME Types, Next, NEW id \in InFlight, id \in InFlight'
    PROVE  /\ SameManifest(proposals[id], proposals'[id])
           /\ proposals[id].state \in UpgradedStates =>
                 proposals'[id].upgradedAt = proposals[id].upgradedAt
<1>1. /\ id \in Ids
      /\ proposals[id].state \in Flying
      /\ FlightChange(id)
      /\ proposals[id] \in ProposalRecord
      /\ slot # 0
  BY FlyingDef, FlightChangeLemma, RecordLemma
<1>2. SameManifest(proposals[id], proposals'[id])
  BY <1>1, ProposalsLemma DEF ProposalsKept
<1>3. \A state : FlightMove(id, state).upgradedAt = proposals[id].upgradedAt
  BY <1>1 DEF FlightMove, ProposalRecord
<1>4. ~FreezeProposal(id)
  BY <1>1, FlightRecords, FlyingDef
<1>5. ASSUME NEW primary \in Ids, ActivateRollback(primary), id = proposals[primary].rollback
      PROVE  FALSE
  BY <1>1, <1>5, HandedOver, FlyingDef
<1>6. proposals[id].state \in {"Frozen", "Extended"} => proposals[id].state \notin UpgradedStates
  BY StateSets
<1> QED
  BY <1>1, <1>2, <1>3, <1>4, <1>5, <1>6, FlightRecords DEF FlightChange, SameFlight

\* The deployment record does not change during a flight.
LEMMA FlightDeployment ==
    ASSUME Types, OneFlight, Next, InFlight # {}, InFlight' # {}
    PROVE  UNCHANGED deployment
BY FlightAlone, DeploymentSteps

\* The gate changes during a flight only by a hand-over to the rollback.
LEMMA FlightGate ==
    ASSUME Types, OneFlight, Next, InFlight # {}, InFlight' # {}
    PROVE  \/ UNCHANGED gate
           \/ /\ gate.active \in Ids
              /\ ActivateRollback(gate.active)
              /\ UNCHANGED <<config, deployment, failures>>
              /\ proposals[gate.active].class # "EmergencyRollback"
              /\ proposals[gate.active].state = "UpgradeExecuted"
              /\ gate'.active = proposals[gate.active].rollback
<1>1. ASSUME NEW id \in Ids, ActivateRollback(id)
      PROVE  /\ gate.active = id
             /\ UNCHANGED <<config, deployment, failures>>
             /\ proposals[id].class # "EmergencyRollback"
             /\ proposals[id].state = "UpgradeExecuted"
             /\ gate'.active = proposals[id].rollback
  BY <1>1, ActivateGateStep
  DEF ActivateRollback, Linked, PrimaryClasses, FrozenFor, evidence
<1> QED
  BY <1>1, FlightAlone, GateSteps

\* A verification is bound, or finalized, while its proposal is to be verified.
LEMMA VerificationChange ==
    ASSUME Types, Next
    PROVE  /\ DOMAIN verifications \subseteq DOMAIN verifications'
           /\ \A id \in DOMAIN verifications' :
                 \/ id \in DOMAIN verifications /\ verifications'[id] = verifications[id]
                 \/ \E o : /\ BindVerification(id, o)
                           /\ verifications'[id] = BoundVerification(id, o)
                           /\ id \in Ids
                 \/ /\ FinalizeVerification(id)
                    /\ id \in DOMAIN verifications
                    /\ verifications'[id] = [verifications[id] EXCEPT !.status = "Verified"]
<1>1. ASSUME NEW i \in Ids, NEW o, BindVerification(i, o)
      PROVE  /\ DOMAIN verifications' = DOMAIN verifications \cup {i}
             /\ verifications'[i] = BoundVerification(i, o)
             /\ \A id \in DOMAIN verifications \ {i} : verifications'[id] = verifications[id]
  <2>1. verifications' = Put(verifications, i, BoundVerification(i, o))
    BY <1>1, BoundLemma
  <2> QED
    BY <2>1 DEF Put
<1>2. ASSUME NEW i \in Ids, FinalizeVerification(i)
      PROVE  /\ i \in DOMAIN verifications
             /\ DOMAIN verifications' = DOMAIN verifications
             /\ verifications'[i] = [verifications[i] EXCEPT !.status = "Verified"]
             /\ \A id \in DOMAIN verifications \ {i} : verifications'[id] = verifications[id]
  BY <1>2 DEF FinalizeVerification
<1> QED
  BY <1>1, <1>2, VerificationSteps

LEMMA FitsLemma ==
    ASSUME Types, ObservationFits, Next
    PROVE  ObservationFits'
<1>1. ASSUME NEW plan \in ObservationPlans, BeginObservation(plan)  PROVE ObservationFits'
  <2>1. /\ observations' = observations \cup {NewObservation(plan)}
        /\ plan.minimum <= runtime.capacity
    BY <1>1 DEF BeginObservation
  <2>2. NewObservation(plan).minimum <= NewObservation(plan).capacity
    BY <2>1 DEF NewObservation
  <2> QED
    BY <2>1, <2>2 DEF ObservationFits
<1>2. ASSUME NEW o \in observations, FinalizeObservation(o)  PROVE ObservationFits'
  <2>1. observations' = (observations \ {o}) \cup {Sealed(o)}
    BY <1>2 DEF FinalizeObservation, Sealed
  <2>2. Sealed(o).minimum = o.minimum /\ Sealed(o).capacity = o.capacity
    BY DEF Sealed, Types, ObservationTypes, Observed, ObservationFields
  <2> QED
    BY <2>1, <2>2 DEF ObservationFits
<1> QED
  BY <1>1, <1>2, ObservationSteps DEF ObservationFits

LEMMA UpgradeEvidenceLemma ==
    ASSUME Types, EvidenceOfUpgrade, Next
    PROVE  EvidenceOfUpgrade'
<1>1. ASSUME NEW id \in Ids, proposals[id].state \in UpgradedStates
      PROVE  /\ proposals'[id].state \in UpgradedStates
             /\ id \in InFlight' =>
                   /\ id \in InFlight
                   /\ proposals'[id].upgradedAt = proposals[id].upgradedAt
  <2>1. ASSUME id \in InFlight', id \notin InFlight  PROVE FALSE
    BY <1>1, <2>1, TakeOff, FlightRecords, HandedOver, StateSets
  <2> QED
    BY <1>1, <2>1, StatesKept, FlightFields
<1>2. ASSUME NEW id \in DOMAIN verifications'
      PROVE  /\ proposals'[id].state \in UpgradedStates
             /\ id \in InFlight' =>
                   verifications'[id].observation.deployed = proposals'[id].upgradedAt
  <2>1. ASSUME id \in DOMAIN verifications,
               verifications'[id].observation = verifications[id].observation
        PROVE  /\ proposals'[id].state \in UpgradedStates
               /\ id \in InFlight' =>
                     verifications'[id].observation.deployed = proposals'[id].upgradedAt
    BY <1>1, <2>1 DEF EvidenceOfUpgrade, Types, VerificationTypes
  <2>2. ASSUME NEW o, BindVerification(id, o), id \in Ids,
               verifications'[id] = BoundVerification(id, o)
        PROVE  /\ proposals'[id].state \in UpgradedStates
               /\ verifications'[id].observation.deployed = proposals'[id].upgradedAt
    BY <2>2, StateSets DEF BindVerification, BoundVerification
  <2>3. ASSUME id \in DOMAIN verifications
        PROVE  [verifications[id] EXCEPT !.status = "Verified"].observation
                  = verifications[id].observation
    BY <2>3 DEF Types, VerificationTypes, VerificationRecord
  <2> QED
    BY <1>2, <2>1, <2>2, <2>3, VerificationChange
<1> QED
  BY <1>2 DEF EvidenceOfUpgrade

\* A verified proposal: nothing it rests on changes while it is in flight.
LEMMA VerifiedQuiet ==
    ASSUME Types, OneFlight, VerificationHolds, Next,
           NEW id \in InFlight, id \in InFlight',
           proposals[id].state \in {"ProgramDataVerified", "PoststateAccepted", "UnfreezeApproved"}
    PROVE  /\ UNCHANGED <<gate, deployment>>
           /\ config'.nonce = config.nonce
           /\ id = gate.active
           /\ id \in DOMAIN verifications'
           /\ verifications'[id] = verifications[id]
<1>1. id = gate.active /\ id \in DOMAIN verifications
  BY DEF VerificationHolds
<1>2. UNCHANGED gate /\ UNCHANGED deployment
  BY <1>1, FlightGate, FlightDeployment
<1>3. config'.nonce = config.nonce
  BY FlightAlone
<1>4. /\ \A o : ~BindVerification(id, o)
      /\ ~FinalizeVerification(id)
  BY DEF BindVerification, FinalizeVerification
<1> QED
  BY <1>1, <1>2, <1>3, <1>4, VerificationChange

\* The verification that is made final holds.
LEMMA VerifiedFresh ==
    ASSUME Types, EvidenceInv, NEW id \in InFlight, FinalizeVerification(id),
           Next, id \in InFlight'
    PROVE  /\ id = gate'.active
           /\ id \in DOMAIN verifications'
           /\ verifications'[id].status = "Verified"
           /\ verifications'[id].epoch = gate'.epoch
           /\ verifications'[id].nonce = config'.nonce
           /\ verifications'[id].generation = deployment'.generation
           /\ verifications'[id].observation.artifact = proposals'[id].artifact
           /\ verifications'[id].observation.deployed = proposals'[id].upgradedAt
           /\ proposals'[id].minCapacity <= verifications'[id].observation.capacity
<1> DEFINE v == verifications[id]
           o == v.observation
<1>1. /\ id \in DOMAIN verifications
      /\ gate.active = id
      /\ proposals[id].state = "UpgradeExecuted"
      /\ v.epoch = gate.epoch
      /\ v.nonce = config.nonce
      /\ v.generation = deployment.generation
      /\ CustodyObservation(o, PoststatePurpose(proposals[id]), id, proposals[id].artifact,
                            proposals[id].minCapacity)
      /\ verifications' = [verifications EXCEPT ![id].status = "Verified"]
      /\ UNCHANGED <<gate, config, deployment>>
  BY DEF FinalizeVerification, controller
<1>2. v \in VerificationRecord(Citable)
  BY <1>1 DEF Types, VerificationTypes
<1> HIDE DEF v
<1>3. /\ id \in DOMAIN verifications'
      /\ verifications'[id] = [v EXCEPT !.status = "Verified"]
  BY <1>1 DEF v
<1>4. /\ verifications'[id].status = "Verified"
      /\ verifications'[id].epoch = v.epoch
      /\ verifications'[id].nonce = v.nonce
      /\ verifications'[id].generation = v.generation
      /\ verifications'[id].observation = o
  BY <1>2, <1>3 DEF VerificationRecord
<1>5. o.deployed = proposals[id].upgradedAt
  BY <1>1 DEF EvidenceInv, EvidenceOfUpgrade, v
<1>6. o.artifact = proposals[id].artifact /\ proposals[id].minCapacity <= o.capacity
  BY <1>1 DEF EvidenceInv, ObservationFits, CustodyObservation
<1>7. /\ proposals'[id].artifact = proposals[id].artifact
      /\ proposals'[id].minCapacity = proposals[id].minCapacity
      /\ proposals'[id].upgradedAt = proposals[id].upgradedAt
  BY <1>1, FlightFields, StateSets DEF SameManifest
<1> QED
  BY <1>1, <1>3, <1>4, <1>5, <1>6, <1>7

LEMMA VerificationLemma ==
    ASSUME Types, OneFlight, EvidenceInv, Next
    PROVE  VerificationHolds'
<1> DEFINE Verified == {"ProgramDataVerified", "PoststateAccepted", "UnfreezeApproved"}
<1> SUFFICES ASSUME NEW id \in InFlight', proposals'[id].state \in Verified
             PROVE  /\ id = gate'.active
                    /\ id \in DOMAIN verifications'
                    /\ verifications'[id].status = "Verified"
                    /\ verifications'[id].epoch = gate'.epoch
                    /\ verifications'[id].nonce = config'.nonce
                    /\ verifications'[id].generation = deployment'.generation
                    /\ verifications'[id].observation.artifact = proposals'[id].artifact
                    /\ verifications'[id].observation.deployed = proposals'[id].upgradedAt
                    /\ proposals'[id].minCapacity <= verifications'[id].observation.capacity
  BY DEF VerificationHolds
<1>1. id \in Ids /\ FlightChange(id)
  BY FlightChangeLemma
<1>2. id \in InFlight
  BY TakeOff, FlightRecords, HandedOver
<1>3. CASE FinalizeVerification(id)
  BY <1>2, <1>3, VerifiedFresh
<1>4. CASE proposals[id].state \in Verified
  <2>1. /\ UNCHANGED <<gate, deployment>>
        /\ config'.nonce = config.nonce
        /\ id \in DOMAIN verifications'
        /\ verifications'[id] = verifications[id]
    BY <1>2, <1>4, VerifiedQuiet DEF EvidenceInv
  <2>2. /\ proposals'[id].artifact = proposals[id].artifact
        /\ proposals'[id].minCapacity = proposals[id].minCapacity
        /\ proposals'[id].upgradedAt = proposals[id].upgradedAt
    BY <1>2, <1>4, FlightFields, StateSets DEF SameManifest
  <2>3. /\ id = gate.active
        /\ verifications[id].status = "Verified"
        /\ verifications[id].epoch = gate.epoch
        /\ verifications[id].nonce = config.nonce
        /\ verifications[id].generation = deployment.generation
        /\ verifications[id].observation.artifact = proposals[id].artifact
        /\ verifications[id].observation.deployed = proposals[id].upgradedAt
        /\ proposals[id].minCapacity <= verifications[id].observation.capacity
    BY <1>2, <1>4 DEF EvidenceInv, VerificationHolds
  <2> QED
    BY <2>1, <2>2, <2>3
<1>5. ~FreezeProposal(id)
  BY <1>1, FlightRecords
<1>6. ~ \E primary \in Ids : ActivateRollback(primary) /\ id = proposals[primary].rollback
  BY HandedOver
<1> QED
  BY <1>1, <1>3, <1>4, <1>5, <1>6, FlightRecords DEF FlightChange

LEMMA PoststateLemma ==
    ASSUME Types, OneFlight, EvidenceInv, Next
    PROVE  PoststateHolds'
<1> SUFFICES ASSUME NEW id \in InFlight',
                    proposals'[id].state \in {"PoststateAccepted", "UnfreezeApproved"}
             PROVE  /\ PoststateKey(id) \in DOMAIN checkpoints'
                    /\ checkpoints'[PoststateKey(id)].generation = deployment'.generation
  BY DEF PoststateHolds, PoststateKey, ProposalSubject
<1>1. id \in Ids /\ FlightChange(id)
  BY FlightChangeLemma
<1>2. id \in InFlight
  BY TakeOff, FlightRecords, HandedOver
<1>3. ASSUME NEW c, Poststate(id, c)
      PROVE  /\ PoststateKey(id) \in DOMAIN checkpoints'
             /\ checkpoints'[PoststateKey(id)].generation = deployment'.generation
  <2>1. deployment' = deployment
    BY <1>3 DEF Poststate, FinalizeCheckpoint, controller
  <2>2. AcceptedCheckpoint(c).generation = deployment.generation
    BY DEF AcceptedCheckpoint
  <2> QED
    BY <1>1, <1>3, <2>1, <2>2, CheckpointChange
<1>4. CASE proposals[id].state \in {"PoststateAccepted", "UnfreezeApproved"}
  <2>1. UNCHANGED deployment
    BY <1>2, <1>4, VerifiedQuiet DEF EvidenceInv
  <2>2. /\ PoststateKey(id) \in DOMAIN checkpoints
        /\ checkpoints[PoststateKey(id)].generation = deployment.generation
    BY <1>2, <1>4 DEF EvidenceInv, PoststateHolds
  <2> QED
    BY <2>1, <2>2, CheckpointChange
<1>5. FlightMove(id, "ProgramDataVerified").state = "ProgramDataVerified"
  BY <1>1, RecordLemma DEF FlightMove, ProposalRecord
<1>6. ~ \E primary \in Ids : ActivateRollback(primary) /\ id = proposals[primary].rollback
  BY HandedOver
<1> QED
  BY <1>1, <1>3, <1>4, <1>5, <1>6, FlightRecords DEF FlightChange

\* A primary that takes off does so from the present deployment, with its rollback.
LEMMA TakeOffGeneration ==
    ASSUME Types, NEW id \in Ids, FreezeProposal(id)
    PROVE  /\ proposals[id].rollback \in Ids
           /\ proposals[proposals[id].rollback].generation = proposals[id].generation
           /\ proposals[id].generation = deployment.generation
           /\ UNCHANGED deployment
<1>1. /\ FreezeDue(proposals[id])
      /\ RollbackPrepared(id)
      /\ UNCHANGED deployment
  BY DEF FreezeProposal, evidence
<1> QED
  BY <1>1 DEF RollbackPrepared, Linked, Proposed, Ids, FreezeDue, DeploymentCurrent

LEMMA DeploymentGeneration ==
    ASSUME Types, OneFlight, EvidenceInv, Next
    PROVE  GenerationHolds'
<1>1. \A i \in Ids : i \in Ids' /\ SameManifest(proposals[i], proposals'[i])
  BY IdsGrow, ProposalsLemma DEF ProposalsKept
<1> SUFFICES ASSUME NEW id \in InFlight'
             PROVE  /\ proposals'[id].generation = deployment'.generation
                    /\ proposals'[id].class # "EmergencyRollback" =>
                          /\ proposals'[id].rollback \in Ids'
                          /\ proposals'[proposals'[id].rollback].generation
                                = proposals'[id].generation
  BY DEF GenerationHolds
<1>2. id \in Ids
  BY FlightChangeLemma
<1>3. /\ proposals'[id].rollback = proposals[id].rollback
      /\ proposals'[id].generation = proposals[id].generation
      /\ proposals'[id].class = proposals[id].class
  BY <1>1, <1>2 DEF SameManifest
<1>4. CASE id \in InFlight
  <2>1. UNCHANGED deployment
    BY <1>4, FlightDeployment
  <2> QED
    BY <1>1, <1>3, <1>4, <2>1 DEF EvidenceInv, GenerationHolds, SameManifest
<1>5. CASE FreezeProposal(id)
  BY <1>1, <1>2, <1>3, <1>5, TakeOffGeneration DEF SameManifest
<1>6. ASSUME NEW primary \in Ids, ActivateRollback(primary), id = proposals[primary].rollback
      PROVE  /\ proposals'[id].generation = deployment'.generation
             /\ proposals[id].class = "EmergencyRollback"
  <2>1. /\ proposals[primary].state = "UpgradeExecuted"
        /\ proposals[primary].class # "EmergencyRollback"
        /\ proposals[id].class = "EmergencyRollback"
        /\ UNCHANGED deployment
    BY <1>6 DEF ActivateRollback, Linked, PrimaryClasses, evidence
  <2>2. primary \in InFlight
    BY <2>1, FlyingDef
  <2> QED
    BY <1>3, <1>6, <2>1, <2>2 DEF EvidenceInv, GenerationHolds
<1> QED
  BY <1>3, <1>4, <1>5, <1>6, TakeOff

LEMMA EvidenceInit ==
    ASSUME Init, Types
    PROVE  EvidenceInv
<1>1. \A id \in Ids : proposals[id].state \in PreFreeze \cup {"Cancelled", "Expired"}
  BY StartsAssumption DEF Init, StartValid, Ids, Types, ProposalTypes
<1>2. InFlight = {}
  BY <1>1, FlyingDef DEF PreFreeze
<1>3. observations = {} /\ DOMAIN verifications = {} /\ DOMAIN failures = {}
  BY DEF Init
<1> QED
  BY <1>2, <1>3 DEF EvidenceInv, ObservationFits, EvidenceOfUpgrade, VerificationHolds,
                    PoststateHolds, GenerationHolds

LEMMA EvidenceStutter ==
    ASSUME EvidenceInv, UNCHANGED vars
    PROVE  EvidenceInv'
BY DEF EvidenceInv, ObservationFits, EvidenceOfUpgrade, VerificationHolds, PoststateHolds,
       GenerationHolds, InFlight, Ids, PoststateKey, ProposalSubject, vars, controller,
       evidence, custody

\* What the votes on the evidence need of it.
LEMMA EvidenceImplies ==
    ASSUME Types, EvidenceInv
    PROVE  EvidenceStaysAcceptable
<1> SUFFICES ASSUME NEW id \in InFlight,
                    proposals[id].state \in {"PoststateAccepted", "UnfreezeApproved"},
                    checkpoints[PoststateKey(id)].candidate.observation
                       = verifications[id].observation
             PROVE  VerificationAccepted(id) /\ PoststateMatches(id)
  BY DEF EvidenceStaysAcceptable, PoststateKey
<1>1. /\ id = gate.active
      /\ id \in DOMAIN verifications
      /\ verifications[id].status = "Verified"
      /\ verifications[id].epoch = gate.epoch
      /\ verifications[id].nonce = config.nonce
      /\ verifications[id].generation = deployment.generation
      /\ verifications[id].observation.artifact = proposals[id].artifact
      /\ verifications[id].observation.deployed = proposals[id].upgradedAt
      /\ proposals[id].minCapacity <= verifications[id].observation.capacity
  BY DEF EvidenceInv, VerificationHolds
<1>2. proposals[id].generation = deployment.generation
  BY <1>1, StateSets DEF EvidenceInv, GenerationHolds
<1>3. PoststateMatches(id)
  BY DEF EvidenceInv, PoststateHolds, PoststateMatches, PoststateKey
<1> QED
  BY <1>1, <1>2, <1>3 DEF VerificationAccepted, DeploymentCurrent

\* Evidence the council accepted meets every later check of it, however the council,
\* the clock and the program's size change meanwhile.
THEOREM EvidenceTheorem == Spec => []EvidenceStaysAcceptable
<1>1. Types /\ OneFlight /\ EvidenceInv /\ [Next]_vars => EvidenceInv'
  <2>1. ASSUME Types, OneFlight, EvidenceInv, Next  PROVE EvidenceInv'
    BY <2>1, FitsLemma, UpgradeEvidenceLemma, VerificationLemma, PoststateLemma,
       DeploymentGeneration
    DEF EvidenceInv
  <2> QED
    BY <2>1, EvidenceStutter
<1>2. Init => EvidenceInv
  BY InitTypes, EvidenceInit
<1>3. Types /\ EvidenceInv => EvidenceStaysAcceptable
  BY EvidenceImplies
<1> QED
  BY <1>1, <1>2, <1>3, TypesInvariant, FlightTheorem, PTL DEF Spec
===============================================================================
