-------------------------- MODULE Release1Custody --------------------------
(***************************************************************************)
(* release1_processor_v3_custody and release1_processor_observation: what  *)
(* the controller does to loader accounts (adopt, verify and close buffers,*)
(* extend and upgrade the target), the observations it makes of them, and  *)
(* the verification, failure and rollback records that follow.             *)
(*                                                                         *)
(* An observation reads the ProgramData account over several transactions. *)
(* Here it is begun and, if the header and the gate are still the ones it  *)
(* began with, finalized; ProgramDataObservation has the chunks between.   *)
(***************************************************************************)
EXTENDS Release1Lifecycle

-----------------------------------------------------------------------------
(* Guards *)

\* load_proposal of the custody processors.
CustodyLoads(id) == Proposed(id) /\ TimingExact(proposals[id])

\* validate_proposal_guard: a frozen proposal holds the gate, a pending one sees
\* the gate it was created under, a dead one is not asked.
CustodyGuard(id) ==
    LET p == proposals[id] IN
    CASE p.state \in FrozenOrLater \ Terminal -> FrozenFor(id) /\ gate.reason # "none"
      [] p.state \in {"Cancelled", "Expired", "Retired"} -> TRUE
      [] OTHER -> /\ p.nonce = config.nonce
                  /\ p.gateEpoch = gate.epoch
                  /\ p.gateStatus = gate.status

\* require_deployment_guard: the deployment record may have moved on.
DeploymentGuard(p) == p.generation <= deployment.generation

\* load_fresh_observation: finalized under this gate, for this artifact, and
\* still the header of the live account.
CustodyObservation(o, purpose, id, artifact, minimum) ==
    /\ o \in observations
    /\ o.status = "Finalized"
    /\ o.purpose = purpose
    /\ o.subject = ProposalSubject(id)
    /\ o.gate = GateSnapshot
    /\ o.artifact = artifact
    /\ o.minimum = minimum
    /\ o.deployed = runtime.deployed
    /\ o.capacity = runtime.capacity

\* load_accepted_prestate_at_epoch.
AcceptedPrestate(id, epoch) ==
    LET c == <<ProposalSubject(id), "Prestate">> IN
    /\ c \in DOMAIN checkpoints
    /\ checkpoints[c].generation = proposals[id].generation
    /\ checkpoints[c].candidate.observation.gate.epoch = epoch
    /\ DeploymentGuard(proposals[id])

PrestateObservation(id) ==
    checkpoints[<<ProposalSubject(id), "Prestate">>].candidate.observation

-----------------------------------------------------------------------------
(* Buffers *)

\* The verification record adoption creates.
AdoptedCheck(p) == [status |-> "Adopted", buffer |-> p.buffer, verified |-> {}]

\* process_adopt_buffer_v2: the uploader hands the buffer's authority over.
AdoptBuffer(id) ==
    /\ CustodyLoads(id)
    /\ CustodyGuard(id)
    /\ LET p == proposals[id] IN
       /\ p.state = "Draft"
       /\ DeploymentGuard(p)
       /\ slot < p.expiry
       /\ id \notin DOMAIN checks
       /\ buffers[p.buffer].authority = "uploader"
       /\ Len(buffers[p.buffer].artifact) = Len(p.artifact)
       /\ Store(id, [p EXCEPT !.state = "BufferAdopted"])
       /\ checks' = Put(checks, id, AdoptedCheck(p))
       /\ buffers' = [buffers EXCEPT ![p.buffer].authority = "controller"]
    /\ UNCHANGED <<slot, controller, evidence, runtime, emergency>>

\* The last chunk is never verified.
MarkedChunkMutant(check, chunk, count) ==
    LET verified == check.verified \cup {chunk} IN
    [check EXCEPT !.verified = verified,
                  !.status = IF Cardinality(verified) + 1 >= count
                             THEN "ReadyToFinalize" ELSE "Verifying"]

\* verify_and_mark_chunk: a chunk counts once, and must be the committed one.
MarkedChunk(check, chunk, count) ==
    LET verified == check.verified \cup {chunk} IN
    [check EXCEPT !.verified = verified,
                  !.status = IF Cardinality(verified) = count
                             THEN "ReadyToFinalize" ELSE "Verifying"]

\* process_verify_buffer_chunk_v2, by anyone.
VerifyBufferChunk(id, chunk) ==
    /\ CustodyLoads(id)
    /\ CustodyGuard(id)
    /\ LET p == proposals[id] IN
       /\ p.state = "BufferAdopted"
       /\ slot < p.expiry
       /\ BufferSealed(id)
       /\ checks[id].status \in {"Adopted", "Verifying"}
       /\ chunk \in DOMAIN p.artifact \ checks[id].verified
       /\ buffers[p.buffer].artifact[chunk] = p.artifact[chunk]
       /\ checks' = [checks EXCEPT ![id] = MarkedChunk(@, chunk, Len(p.artifact))]
    /\ UNCHANGED <<slot, controller, proposals, evidence, runtime, buffers, emergency>>

\* process_finalize_buffer_verification_v2, by anyone.
FinalizeBuffer(id) ==
    /\ CustodyLoads(id)
    /\ CustodyGuard(id)
    /\ proposals[id].state = "BufferAdopted"
    /\ slot < proposals[id].expiry
    /\ BufferSealed(id)
    /\ checks[id].status = "ReadyToFinalize"
    /\ checks' = [checks EXCEPT ![id].status = "Verified"]
    /\ Store(id, [proposals[id] EXCEPT !.state = "BufferVerified"])
    /\ UNCHANGED <<slot, controller, evidence, runtime, buffers, emergency>>

\* process_close_abandoned_buffer_v2, by anyone: the buffer of a proposal that
\* can no longer use it is closed.
CloseAbandonedBuffer(id) ==
    /\ CustodyLoads(id)
    /\ CustodyGuard(id)
    /\ proposals[id].state \in {"Cancelled", "Expired", "Retired"}
    /\ id \in DOMAIN checks
    /\ checks[id].status \notin {"ConsumedByUpgrade", "ClosedAbandoned"}
    /\ BufferSealed(id)
    /\ checks' = [checks EXCEPT ![id].status = "ClosedAbandoned"]
    /\ buffers' = [buffers EXCEPT ![proposals[id].buffer].authority = "closed"]
    /\ UNCHANGED <<slot, controller, proposals, evidence, runtime, emergency>>

-----------------------------------------------------------------------------
(* Observations *)

\* validate_observation_purpose_gate.
PurposeGate(purpose, subject) ==
    IF purpose = "EmergencyResolution"
    THEN gate.status = "EmergencyFrozen" /\ gate.active = None
    ELSE gate.status = "FrozenForUpgrade" /\ subject = ProposalSubject(gate.active)

\* The artifacts worth observing: another is refused by every consumer.
ObservationPlans ==
    {[purpose |-> "EmergencyResolution", subject |-> FreezeSubject(epoch),
      artifact |-> deployment.artifact, minimum |-> Len(deployment.artifact)] :
        epoch \in DOMAIN freezes}
    \cup
    {[purpose |-> "ProposalPrestate", subject |-> ProposalSubject(id),
      artifact |-> PrestateExpectation(proposals[id]).artifact,
      minimum |-> PrestateExpectation(proposals[id]).minimum] :
        id \in 1 .. Len(proposals)}
    \cup
    {[purpose |-> PoststatePurpose(proposals[id]), subject |-> ProposalSubject(id),
      artifact |-> proposals[id].artifact, minimum |-> proposals[id].minCapacity] :
        id \in 1 .. Len(proposals)}

\* The next unused generation of an observation of the same subject.
NextGeneration(plan) ==
    1 + Cardinality({o \in observations :
            o.purpose = plan.purpose /\ o.subject = plan.subject})

\* The record a new observation starts with.
NewObservation(plan) ==
    [purpose |-> plan.purpose, subject |-> plan.subject,
     artifact |-> plan.artifact, minimum |-> plan.minimum,
     gate |-> GateSnapshot, generation |-> NextGeneration(plan),
     deployed |-> runtime.deployed, capacity |-> runtime.capacity,
     status |-> "Accumulating"]

\* process_begin_programdata_observation_v1, by anyone, once the deployment slot
\* is past.
BeginObservation(plan) ==
    /\ PurposeGate(plan.purpose, plan.subject)
    /\ RuntimeReads
    /\ LoaderReady
    /\ Len(plan.artifact) <= runtime.capacity
    /\ plan.minimum <= runtime.capacity
    /\ NextGeneration(plan) <= MaxObservations[plan.purpose]
    /\ observations' = observations \cup {NewObservation(plan)}
    /\ UNCHANGED <<slot, controller, proposals, attestations, checkpoints,
                   verifications, failures, custody, emergency>>

\* The remaining steps of an observation, process_append_..., process_verify_...
\* and process_finalize_programdata_observation_v1: the header and the gate are
\* the recorded ones, the payload is the artifact followed by zeros.
FinalizeObservation(o) ==
    /\ o.status = "Accumulating"
    /\ o.gate = GateSnapshot
    /\ ObservationLive(o)
    /\ runtime.artifact = o.artifact
    /\ observations' = (observations \ {o})
          \cup {[o EXCEPT !.status = "Finalized"]}
    /\ UNCHANGED <<slot, controller, proposals, attestations, checkpoints,
                   verifications, failures, custody, emergency>>

-----------------------------------------------------------------------------
(* Extension and upgrade *)

\* The deployment record after the extension.
ExtendedDeployment(p) ==
    [deployment EXCEPT !.capacity = p.minCapacity, !.deployed = slot, !.generation = @ + 1]

\* What process_extend_target_v2 asks of the accounts before it calls the loader.
ExtensionReady(id) ==
    LET p == proposals[id]
        o == PrestateObservation(id)
    IN  /\ CustodyLoads(id)
        /\ CustodyGuard(id)
        /\ p.state = "Frozen"
        /\ AcceptedPrestate(id, gate.epoch)
        /\ CustodyObservation(o, "ProposalPrestate", id, deployment.artifact,
                              Len(deployment.artifact))
        /\ o.capacity = deployment.capacity
        /\ deployment.capacity < p.minCapacity
        /\ p.minCapacity <= MaxPayload
        /\ slot < p.expiry
        /\ LoaderReady
        /\ NextNumber(deployment.generation)

\* process_extend_target_v2: the loader grows the account to the proposal's
\* capacity, and the deployment record follows under a new generation.  The
\* deployment account must come read-only (validate_exact_privileges), and the
\* runtime refuses a transaction that writes an account it holds read-only: no call
\* succeeds, and no next-state relation has this step.
ExtendTarget(id, deployment_writable) ==
    /\ ~deployment_writable
    /\ ExtensionReady(id)
    /\ LET p == proposals[id] IN
       /\ Store(id, [p EXCEPT !.state = "Extended", !.extendedAt = slot])
       /\ deployment' = ExtendedDeployment(p)
       /\ runtime' = [runtime EXCEPT !.capacity = p.minCapacity, !.deployed = slot]
    /\ deployment' # deployment => deployment_writable
    /\ UNCHANGED <<slot, config, gate, evidence, buffers, checks, emergency>>

\* No review is reserved.
RollbackRunwayMutant(r) == slot + Timing.rollback + 1 < r.expiry

\* require_primary_execution_rollback_runway: activation, a review and a loader
\* slot fit before the rollback expires.
RollbackRunway(r) == slot + Timing.rollback + Timing.review + 1 < r.expiry

\* validate_counterpart, for a primary: its rollback is ready to be activated.
RollbackReady(id) ==
    LET p == proposals[id]
        r == proposals[p.rollback]
    IN  /\ Linked(id, p.rollback)
        /\ CustodyLoads(p.rollback)
        /\ r.state = "Timelocked"
        /\ r.notBefore <= slot
        /\ slot < r.expiry
        /\ BufferVerified(p.rollback)
        /\ RollbackRunway(r)

\* validate_counterpart, for a rollback: its primary was upgraded.
PrimaryUpgraded(id) ==
    LET primary == proposals[id].primary IN
    /\ CustodyLoads(primary)
    /\ proposals[primary].class # "EmergencyRollback"
    /\ proposals[primary].rollback = id
    /\ proposals[primary].nonce = proposals[id].nonce
    /\ proposals[primary].state
          \in {"UpgradeExecuted", "ProgramDataVerified", "PoststateAccepted"}
    /\ checks[primary].status = "ConsumedByUpgrade"

\* runtime_matches_failure_observation, and the payload still differs.
FailureLive(f) ==
    /\ runtime.deployed = f.deployed
    /\ runtime.capacity = f.capacity
    /\ runtime.artifact = f.payload

\* load_and_revalidate_rollback_failure.
FailureRevalidates(id) ==
    LET primary == proposals[id].primary IN
    /\ primary \in DOMAIN failures
    /\ LET f == failures[primary] IN
       /\ f.generation = proposals[primary].generation
       /\ f.epoch = proposals[primary].freezeEpoch
       /\ f.epoch + 1 = gate.epoch
       /\ f.deployed = proposals[primary].upgradedAt
       /\ f.capacity = deployment.capacity
       /\ FailureLive(f)

\* The prestate an upgrade starts from.  A primary observes the trusted program
\* again; a rollback restores what its primary's prestate recorded, and rests on
\* the failure evidence.
PrimaryPrestate(id, o) ==
    /\ AcceptedPrestate(id, gate.epoch)
    /\ CustodyObservation(o, "ProposalPrestate", id, deployment.artifact,
                          Len(deployment.artifact))
    /\ o # PrestateObservation(id)
    /\ o.capacity = deployment.capacity
    /\ PrestateObservation(id).artifact = deployment.artifact
    /\ PrestateObservation(id).minimum = Len(deployment.artifact)
    /\ RollbackReady(id)

\* The rollback's artifact is not compared with the prestate it restores.
RollbackPrestateMutant(id) ==
    LET p == proposals[id] IN
    /\ PrimaryUpgraded(id)
    /\ AcceptedPrestate(p.primary, proposals[p.primary].freezeEpoch)
    /\ FailureRevalidates(id)

RollbackPrestate(id) ==
    LET p == proposals[id] IN
    /\ PrimaryUpgraded(id)
    /\ AcceptedPrestate(p.primary, proposals[p.primary].freezeEpoch)
    /\ FailureRevalidates(id)
    /\ PrestateObservation(p.primary).artifact = p.artifact
    /\ PrestateObservation(p.primary).minimum = p.minCapacity

\* The capacity is not compared.
FitsRuntimeMutant(p) == TRUE

\* An upgrade needs the capacity its proposal committed to.
FitsRuntime(p) == p.minCapacity <= runtime.capacity

\* A frozen proposal in its window, and not in the slot of its extension.
ExecutionDue(p) ==
    /\ p.state = "Frozen" \/ (p.state = "Extended" /\ p.extendedAt < slot)
    /\ DeploymentGuard(p)
    /\ p.notBefore <= slot
    /\ slot < p.expiry

\* What the upgrade leaves: the proposal, its consumed buffer and the program.
Upgraded(id, payload) ==
    LET p == proposals[id] IN
    /\ Store(id, [p EXCEPT !.state = "UpgradeExecuted", !.upgradedAt = slot])
    /\ checks' = [checks EXCEPT ![id].status = "ConsumedByUpgrade"]
    /\ buffers' = [buffers EXCEPT ![p.buffer].authority = "closed"]
    /\ runtime' = [runtime EXCEPT !.artifact = payload, !.deployed = slot]

\* process_execute_upgrade_v2: the loader replaces the payload and consumes the
\* buffer.  The loader is external: it should leave the buffer's bytes, and what it
\* leaves fits the account.
ExecuteUpgrade(id, o, payload) ==
    /\ CustodyLoads(id)
    /\ CustodyGuard(id)
    /\ LET p == proposals[id] IN
       /\ ExecutionDue(p)
       /\ IF p.class = "EmergencyRollback" THEN RollbackPrestate(id)
                                            ELSE PrimaryPrestate(id, o)
       /\ FitsRuntime(p)
       /\ LoaderReady
       /\ BufferVerified(id)
       /\ BufferSealed(id)
       /\ payload \in {buffers[p.buffer].artifact}
                        \cup {left \in Damage : Len(left) <= runtime.capacity}
       /\ Upgraded(id, payload)
    /\ UNCHANGED <<slot, controller, evidence, emergency>>

-----------------------------------------------------------------------------
(* Verification, failure and rollback *)

\* The record a binding writes; each binding has a number of its own.
BoundVerification(id, o) ==
    [status |-> "ObservationBound", epoch |-> gate.epoch,
     nonce |-> config.nonce, generation |-> deployment.generation,
     number |-> (IF id \in DOMAIN verifications THEN verifications[id].number + 1 ELSE 1),
     observation |-> o]

\* process_bind_programdata_verification_v2, by anyone; binding again replaces an
\* observation that went stale.
BindVerification(id, o) ==
    /\ CustodyLoads(id)
    /\ CustodyGuard(id)
    /\ LET p == proposals[id] IN
       /\ p.state = "UpgradeExecuted"
       /\ DeploymentGuard(p)
       /\ CustodyObservation(o, PoststatePurpose(p), id, p.artifact, p.minCapacity)
       /\ o.deployed = p.upgradedAt
    /\ id \in DOMAIN verifications =>
          /\ verifications[id].status = "ObservationBound"
          /\ NextNumber(verifications[id].number)
    /\ verifications' = Put(verifications, id, BoundVerification(id, o))
    /\ UNCHANGED <<slot, controller, proposals, observations, attestations,
                   checkpoints, failures, custody, emergency>>

\* process_finalize_programdata_verification_v2, by anyone: the bound observation
\* is still that of the live account.
FinalizeVerification(id) ==
    /\ CustodyLoads(id)
    /\ id \in DOMAIN verifications
    /\ LET p == proposals[id]
           v == verifications[id]
       IN  /\ p.state = "UpgradeExecuted"
           /\ gate.status = "FrozenForUpgrade"
           /\ gate.active = id
           /\ gate.epoch = p.freezeEpoch
           /\ v.status = "ObservationBound"
           /\ v.epoch = gate.epoch
           /\ v.nonce = config.nonce
           /\ v.generation = deployment.generation
           /\ CustodyObservation(v.observation, PoststatePurpose(p), id, p.artifact,
                                 p.minCapacity)
           /\ Store(id, [p EXCEPT !.state = "ProgramDataVerified"])
           /\ verifications' = [verifications EXCEPT ![id].status = "Verified"]
    /\ UNCHANGED <<slot, controller, observations, attestations, checkpoints,
                   failures, custody, emergency>>

\* Some observation of the upgraded program was begun
\* (validate_failure_observation_binding), and is of the live header.
FailureObserved(id) ==
    \E o \in observations :
        /\ o.purpose = "PostUpgrade"
        /\ o.subject = ProposalSubject(id)
        /\ o.deployed = proposals[id].upgradedAt
        /\ o.deployed = runtime.deployed
        /\ o.capacity = runtime.capacity

\* The record of the failure: the live account as it was seen.
ObservedFailure ==
    [generation |-> deployment.generation, epoch |-> gate.epoch,
     deployed |-> runtime.deployed, capacity |-> runtime.capacity,
     payload |-> runtime.artifact]

\* validate_failure_witness: a chunk of the live payload is not the committed one.
WitnessOf(p) ==
    /\ runtime.artifact # p.artifact
    /\ p.minCapacity <= runtime.capacity

\* process_observe_programdata_failure_witness_v2, by anyone, with a chunk of the
\* live payload that is not the committed one.  Of the mismatch classes only those
\* of the payload can arise: the loader keeps the account's owner, header and
\* authority, and never shrinks it.
ObserveFailure(id) ==
    /\ CustodyLoads(id)
    /\ CustodyGuard(id)
    /\ LET p == proposals[id] IN
       /\ p.class # "EmergencyRollback"
       /\ p.state = "UpgradeExecuted"
       /\ DeploymentGuard(p)
       /\ id \in DOMAIN verifications => verifications[id].status # "Verified"
       /\ FailureObserved(id)
       /\ WitnessOf(p)
    /\ id \notin DOMAIN failures
    /\ failures' = Put(failures, id, ObservedFailure)
    /\ UNCHANGED <<slot, controller, proposals, observations, attestations,
                   checkpoints, verifications, custody, emergency>>

\* The rollback is frozen and the gate handed to it in one commit.
HandOverTo(rollback) ==
    /\ Store(rollback, [proposals[rollback] EXCEPT !.state = "Frozen",
                            !.freezeEpoch = gate.epoch + 1, !.frozenAt = slot])
    /\ gate' = FrozenGate(gate, "FrozenForUpgrade", gate.epoch + 1, rollback, "rollback")
    /\ GateValid(gate')

\* process_activate_rollback_v2, by anyone, once the rollback delay has passed
\* since the upgrade: the gate passes from the primary to its rollback under a new
\* epoch, and the nonce stays consumed.
ActivateRollback(id) ==
    /\ CustodyLoads(id)
    /\ CustodyGuard(id)
    /\ LET p == proposals[id]
           r == proposals[p.rollback]
       IN  /\ p.state = "UpgradeExecuted"
           /\ Linked(id, p.rollback)
           /\ CustodyLoads(p.rollback)
           /\ r.state = "Timelocked"
           /\ config.nonce = r.nonce + 1
           /\ r.notBefore <= slot
           /\ slot < r.expiry
           /\ p.upgradedAt + Timing.rollback <= slot
           /\ DeploymentGuard(r)
           /\ id \in DOMAIN verifications => verifications[id].status # "Verified"
           /\ id \in DOMAIN failures
           /\ failures[id].epoch = gate.epoch
           /\ FailureLive(failures[id])
           /\ BufferVerified(p.rollback)
           /\ NextEpoch(gate.epoch)
           /\ HandOverTo(p.rollback)
    /\ UNCHANGED <<slot, config, deployment, evidence, custody, emergency>>
=============================================================================
