------------------------- MODULE Release1Controller -------------------------
(***************************************************************************)
(* The live Release 1 controller: the lifecycle and custody handlers, the  *)
(* clock, and what others do to the accounts it reads: an uploader writes  *)
(* its buffers, anybody may have the loader grow the target program, and   *)
(* governance V2 puts a later council set in force.                        *)
(***************************************************************************)
EXTENDS Release1Custody

CONSTANTS
    Genesis,       \* the payload deployed when the controller took over
    Starts,        \* proposals prepared before the first step, with their buffers
    FreezeSlots,   \* bound: the slots in which the guardian freezes
    CancelSlots    \* bound: the slots in which councils cancel

\* A protocol that has not frozen yet: the nonce is the initial one, and proposals are
\* at most queued, as the handlers leave them.
StartValid(start) ==
    /\ start.slot \in 1 .. MaxSlot
    /\ start.nonce = 1
    /\ start.council \in DOMAIN Councils
    /\ start.capacity \in Len(Genesis) .. MaxPayload
    /\ start.proposals \in Seq(ProposalRecord)
    /\ \A id \in DOMAIN start.proposals :
          /\ ProposalValid(start.proposals[id])
          /\ start.proposals[id].state \in PreFreeze \cup {"Cancelled", "Expired"}
          /\ Len(start.proposals[id].artifact) <= start.proposals[id].minCapacity
    /\ start.buffers \in [Buffers -> BufferRecord]
    /\ DOMAIN start.checks \subseteq DOMAIN start.proposals
    /\ start.checks \in [DOMAIN start.checks -> CheckRecord]
    /\ ChecksSound(start.proposals, start.buffers, start.checks)

ASSUME StartsAssumption == \A start \in Starts : StartValid(start)
ASSUME GenesisAssumption == Genesis \in Artifacts

-----------------------------------------------------------------------------
(* Surroundings *)

\* Clock::get.
Tick ==
    /\ slot < MaxSlot
    /\ slot' = slot + 1
    /\ UNCHANGED <<controller, proposals, evidence, custody, emergency>>

\* Before adoption the uploader may write what it likes to its buffer.
Upload(b, artifact) ==
    /\ buffers[b].authority = "uploader"
    /\ buffers[b].artifact # artifact
    /\ buffers' = [buffers EXCEPT ![b].artifact = artifact]
    /\ UNCHANGED <<slot, controller, proposals, evidence, runtime, checks, emergency>>

\* The loader's ExtendProgram needs no authority: it appends zeros and stamps
\* the account with the present slot.
GrowProgram ==
    /\ runtime.capacity < MaxPayload
    /\ LoaderReady
    /\ runtime' = [runtime EXCEPT !.capacity = @ + 1, !.deployed = slot]
    /\ UNCHANGED <<slot, controller, proposals, evidence, buffers, checks, emergency>>

\* A rotation that also consumes the target nonce.
RotateCouncilMutant(v) ==
    /\ config.council < v
    /\ Councils[v].until = 0
    /\ ActiveAt(v, slot)
    /\ \A seat \in DOMAIN Councils[v].term : TermCovers(v, seat, slot)
    /\ config' = [nonce |-> config.nonce + 1, council |-> v]
    /\ UNCHANGED <<slot, gate, deployment, proposals, evidence, custody, emergency>>

\* process_execute_council_rotation_proposal_v2: its effect on the configuration: a later set, open
\* ended, in force, with every seat inside its term.
RotateCouncil(v) ==
    /\ config.council < v
    /\ Councils[v].until = 0
    /\ ActiveAt(v, slot)
    /\ \A seat \in DOMAIN Councils[v].term : TermCovers(v, seat, slot)
    /\ config' = [config EXCEPT !.council = v]
    /\ UNCHANGED <<slot, gate, deployment, proposals, evidence, custody, emergency>>

-----------------------------------------------------------------------------
Init ==
    /\ gate = [status |-> "Active", epoch |-> 1, active |-> None, freezeSlot |-> 0,
               reason |-> "none", lastCompleted |-> None]
    /\ \E start \in Starts :
          /\ slot = start.slot
          /\ config = [nonce |-> start.nonce, council |-> start.council]
          /\ deployment = [artifact |-> Genesis, capacity |-> start.capacity, deployed |-> 1,
                           epoch |-> 1, completed |-> None, generation |-> 1]
          /\ runtime = [artifact |-> Genesis, deployed |-> 1, capacity |-> start.capacity]
          /\ proposals = start.proposals
          /\ buffers = start.buffers
          /\ checks = start.checks
    /\ observations = {}
    /\ attestations = <<>>
    /\ checkpoints = <<>>
    /\ verifications = <<>>
    /\ failures = <<>>
    /\ freezes = <<>>
    /\ resolutions = <<>>

Ids == 1 .. Len(proposals)

ProposalNext ==
    \/ \E seat \in Seats, m \in Plans : CreateProposal(seat, m)
    \/ \E id \in Ids, seat \in Seats : ApproveProposal(id, seat)
    \/ \E id \in Ids : FinalizeGovernance(id)
    \/ \E id \in Ids : QueueProposal(id)
    \/ \E id \in Ids : FreezeProposal(id)
    \/ slot \in CancelSlots /\ \E id \in Ids, seat \in Seats, reason \in Reasons :
          CancelProposal(id, seat, reason)
    \/ \E id \in Ids : ExpireProposal(id)
    \/ \E id \in Ids, seat \in Seats : ApproveUnfreeze(id, seat)
    \/ \E id \in Ids : ExecuteUnfreeze(id)

CheckpointNext ==
    \E c \in CheckpointSubjects :
        \/ \E seat \in Seats, o \in observations, view \in Views,
              previous \in {NoDigest} \cup
                  UNION {Attested(c[1], c[2], v) : v \in DOMAIN Councils} :
              CreateCheckpoint(c[1], c[2], seat, o, view, previous)
        \/ \E seat \in Seats, o \in observations, view \in Views :
              RecastCheckpoint(c[1], c[2], seat, o, view)
        \/ \E candidate \in Attested(c[1], c[2], config.council) :
              FinalizeCheckpoint(c[1], c[2], candidate)

EmergencyNext ==
    \/ slot \in FreezeSlots /\ GuardianFreeze
    \/ \E seat \in Seats, o \in observations : CreateEmergencyResolution(seat, o)
    \/ \E epoch \in DOMAIN freezes, seat \in Seats : ApproveEmergencyResolution(epoch, seat)
    \/ \E epoch \in DOMAIN freezes : QueueEmergencyResolution(epoch)
    \/ \E epoch \in DOMAIN freezes : ExecuteEmergencyResolution(epoch)
    \/ \E k \in DOMAIN resolutions : ExpireEmergencyResolution(k[1], k[2])

\* Every custody handler but process_extend_target_v2, which cannot succeed.
CustodyNext ==
    \/ \E id \in Ids : AdoptBuffer(id)
    \/ \E id \in Ids : \E chunk \in DOMAIN proposals[id].artifact :
          VerifyBufferChunk(id, chunk)
    \/ \E id \in Ids : FinalizeBuffer(id)
    \/ \E id \in Ids : CloseAbandonedBuffer(id)
    \/ \E plan \in ObservationPlans : BeginObservation(plan)
    \/ \E o \in observations : FinalizeObservation(o)
    \/ \E id \in Ids, o \in observations :
          \E payload \in {buffers[proposals[id].buffer].artifact} \cup Damage :
              ExecuteUpgrade(id, o, payload)
    \/ \E id \in Ids, o \in observations : BindVerification(id, o)
    \/ \E id \in Ids : FinalizeVerification(id)
    \/ \E id \in Ids : ObserveFailure(id)
    \/ \E id \in Ids : ActivateRollback(id)

Surroundings ==
    \/ Tick
    \/ \E b \in Buffers, artifact \in Artifacts : Upload(b, artifact)
    \/ GrowProgram
    \/ \E v \in DOMAIN Councils : RotateCouncil(v)

Next == ProposalNext \/ CheckpointNext \/ EmergencyNext \/ CustodyNext \/ Surroundings

Spec == Init /\ [][Next]_vars

-----------------------------------------------------------------------------
(* Properties *)

InFlight == {id \in Ids : proposals[id].state \in FrozenOrLater \ Terminal}

\* Types of the accounts, and the bounds the handlers keep.
TypeOK ==
    /\ slot \in 1 .. MaxSlot
    /\ config.nonce \in 1 .. MaxEpoch
    /\ config.council \in DOMAIN Councils
    /\ GateValid(gate)
    /\ gate \in GateRecord
    /\ deployment.generation \in 1 .. MaxGeneration
    /\ runtime.deployed \in 1 .. slot
    /\ Len(runtime.artifact) <= runtime.capacity
    /\ runtime.capacity <= MaxPayload
    /\ \A id \in Ids : proposals[id] \in ProposalRecord
    /\ \A id \in DOMAIN checks : id \in Ids /\ checks[id] \in CheckRecord
    /\ \A id \in DOMAIN verifications :
          id \in Ids /\ verifications[id] \in VerificationRecord(observations)
    /\ \A id \in DOMAIN failures :
          id \in Ids /\ failures[id] \in FailureRecord(Artifacts \cup Damage)
    /\ \A epoch \in DOMAIN freezes : freezes[epoch] \in FreezeRecord
    /\ \A o \in observations : o.purpose \in Purposes /\ o.generation >= 1

\* The gate is closed for an upgrade exactly while one is in flight: the proposal it
\* names, frozen under its epoch, alone or, once a rollback has taken over, with the
\* primary that rollback answers.  Freeze, activation and unfreeze write the gate and
\* the proposals in one transaction each.
OneFlight ==
    IF gate.status = "FrozenForUpgrade"
    THEN /\ gate.active \in InFlight
         /\ proposals[gate.active].freezeEpoch = gate.epoch
         /\ config.nonce = proposals[gate.active].nonce + 1
         /\ \A id \in InFlight \ {gate.active} :
               proposals[gate.active].primary = id /\ proposals[id].rollback = gate.active
    ELSE InFlight = {}

\* A buffer that was verified chunk by chunk keeps the committed bytes, out of its
\* uploader's reach, until it is used or closed.
SealedBufferIntact ==
    \A id \in DOMAIN checks :
        checks[id].status = "Verified" =>
            /\ buffers[proposals[id].buffer].authority = "controller"
            /\ buffers[proposals[id].buffer].artifact = proposals[id].artifact

\* A deployment slot names one payload and one capacity: evidence that carries the
\* live account's slot describes the live account (the controller compares slots and
\* capacities, and never reads the payload again).
SlotNamesProgram ==
    /\ deployment.deployed = runtime.deployed =>
          /\ deployment.artifact = runtime.artifact
          /\ deployment.capacity = runtime.capacity
    /\ \A o \in observations :
          o.deployed = runtime.deployed =>
              /\ o.capacity = runtime.capacity
              /\ o.status = "Finalized" => o.artifact = runtime.artifact

\* A rollback that has been executed put back the payload the deployment record
\* still trusts: the pair of one failed upgrade leaves the protocol where it was.
RollbackRestores ==
    \A id \in InFlight :
        /\ proposals[id].class = "EmergencyRollback"
        /\ proposals[id].state \in {"ProgramDataVerified", "PoststateAccepted",
                                   "UnfreezeApproved"}
        => runtime.artifact = deployment.artifact

\* Accepted evidence stays acceptable: a proposal whose poststate the council
\* accepted, on the observation that verified it, meets every later check of that
\* evidence however the council changes meanwhile.
EvidenceStaysAcceptable ==
    \A id \in InFlight :
        /\ proposals[id].state \in {"PoststateAccepted", "UnfreezeApproved"}
        /\ checkpoints[<<ProposalSubject(id), "Poststate">>].candidate.observation
              = verifications[id].observation
        => VerificationAccepted(id) /\ PoststateMatches(id)

\* process_extend_target_v2 "performs one exact ExtendProgramChecked CPI": a frozen
\* upgrade that was planned with an extension, and meets every condition of the
\* handler, can be extended, the deployment account passed either way.
PlannedExtensionRuns ==
    \A id \in Ids :
        ExtensionReady(id) =>
            \E deployment_writable \in BOOLEAN : ENABLED ExtendTarget(id, deployment_writable)

\* The payload changes only in an upgrade the council decided: a proposal the gate is
\* closed for, with a full quorum, inside its window; and a primary is executed only
\* while its rollback is queued, with a sealed buffer and slots enough before its
\* expiry to activate it, review the failure and call the loader.
PayloadChangesDecided ==
    [][runtime'.artifact # runtime.artifact =>
          LET p == proposals[gate.active] IN
          /\ gate.status = "FrozenForUpgrade"
          /\ Cardinality(p.approvals) = Threshold
          /\ p.notBefore <= slot /\ slot < p.expiry
          /\ p.class \in PrimaryClasses =>
                /\ proposals[p.rollback].state = "Timelocked"
                /\ slot + Timing.rollback + Timing.review + 1 < proposals[p.rollback].expiry
                /\ SealedBufferIntact]_vars

\* The gate reopens after an upgrade only by the votes of a quorum of the council in
\* force, every voter still inside its term, on a program that was observed whole.
ReopenedByCouncil ==
    [][gate.status = "FrozenForUpgrade" /\ gate'.status = "Active" =>
          LET p == proposals[gate.active] IN
          /\ p.unfreezeCouncil = config.council
          /\ Cardinality({seat \in p.unfreezeApprovals :
                             TermCovers(config.council, seat, slot)}) >= Threshold
          /\ runtime.artifact = p.artifact
          /\ runtime.capacity = deployment'.capacity]_vars

\* An emergency freeze ends only with the program it began with: the deployment
\* record names the same payload before and after, and a quorum of one council
\* attested and approved it.
EmergencyKeepsProgram ==
    [][gate.status = "EmergencyFrozen" /\ gate'.status = "Active" =>
          /\ deployment'.artifact = deployment.artifact
          /\ runtime.artifact = deployment.artifact
          /\ runtime.deployed = deployment'.deployed
          /\ runtime.capacity = deployment'.capacity
          /\ \E k \in DOMAIN resolutions :
                /\ k[1] = gate.epoch
                /\ Cardinality(resolutions[k].approvals) = Threshold
                /\ resolutions[k].state # "Executed"
                /\ resolutions'[k].state = "Executed"]_vars

\* What the gate promises of the program, as a specification of its own.
Gated == INSTANCE GatedProgram WITH
    open <- gate.status = "Active",
    epoch <- gate.epoch,
    running <- runtime.artifact,
    trusted <- deployment.artifact,
    Payloads <- Artifacts \cup Damage \cup {Genesis}

\* The controller implements it.
GatedSpec == Gated!Spec
=============================================================================
