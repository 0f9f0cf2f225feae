-------------------------- MODULE AuthorityCeremony --------------------------
(***************************************************************************)
(* The bootstrap of Release 1, from InitializeControllerV2 to the first    *)
(* opening of the gate. The controller is initialized with its gate        *)
(* closed; its own upgrade authority is given up and a receipt proves it;  *)
(* a council handoff takes the target's upgrade authority from the legacy  *)
(* holder; a council activation opens the gate. Each step rests on a       *)
(* finalized observation of the program concerned.                         *)
(*                                                                         *)
(* Until the controller holds the authority its holder can upgrade the     *)
(* target between any two steps, so each handler reads the observation     *)
(* again against the live header. FinalizeObservation stands for the whole *)
(* observation of ProgramDataObservation, which shows it to be a snapshot. *)
(***************************************************************************)
EXTENDS GovernanceV2

CONSTANTS
    ControllerArtifacts, \* what may be deployed as the controller
    TargetArtifacts,     \* what may be deployed as the target
    Holders,             \* keys an upgrade authority may be transferred to
    Pda,                 \* config.authority_pda
    NoKey,               \* Option::None
    MaxCapacity,         \* bound on the target's capacity
    MaxGeneration,       \* bound on the label a caller gives an observation
    MaxObservations,     \* bound on the observations of each purpose, by purpose
    LastLoaderSlot       \* bound on the slots at which the loader is called

ASSUME CeremonyAssumption ==
    /\ Pda \notin DOMAIN FirstTerms /\ Pda # NoKey /\ NoKey \notin Holders
    /\ MaxCapacity \in Nat /\ MaxGeneration \in Nat
    /\ LastLoaderSlot \in Nat

VARIABLES
    controller,   \* the controller's own Program and ProgramData
    target,       \* the target's
    gate,         \* ProtocolGateV1
    release,      \* ControllerReleaseCommitmentV1
    observations, \* finalized ProgramDataObservationV1 accounts
    immutability, \* ControllerImmutabilityReceiptV1
    handoff,      \* TargetAuthorityHandoffReceiptV1
    deployment    \* CurrentDeploymentStateV1, with BootstrapActivationReceiptV1

loaderVars == <<controller, target>>
receiptVars == <<gate, release, observations, immutability, handoff, deployment>>
ceremonyVars == <<govVars, loaderVars, receiptVars>>

Purposes == {"ControllerImmutability", "TargetHandoffBridge", "BootstrapActivation"}
NoRelease == [artifact |-> "no release"]
NoReceipt == [artifact |-> "no receipt"]
NoDeployment == [artifact |-> "no deployment"]
NoGate == [status |-> "Uninitialized", epoch |-> 0, last |-> None]

\* build_gate: closed until activation.
FirstGate == [status |-> "EmergencyFrozen", epoch |-> 1, last |-> None]

\* A Loader-v3 program. residue is the authority field's payload, which the loader
\* leaves in place when the authority is revoked.
Program(artifact, deployed, capacity, authority) ==
    [artifact |-> artifact, deployed |-> deployed, capacity |-> capacity,
     authority |-> authority, residue |-> authority]

Header(p) == [deployed |-> p.deployed, capacity |-> p.capacity,
              authority |-> p.authority, residue |-> p.residue]

-----------------------------------------------------------------------------
(* The loader, called by whoever holds the authority *)

Deployable(p) == slot <= LastLoaderSlot /\ p.authority # NoKey /\ p.deployed < slot

\* UpgradeV3: never twice in a slot.
LoaderUpgrade(p, artifact) == [p EXCEPT !.artifact = artifact, !.deployed = slot]

\* SetAuthority; None leaves the old key's bytes.
LoaderSetAuthority(p, key) ==
    [p EXCEPT !.authority = key, !.residue = IF key = NoKey THEN @ ELSE key]

UpgradeController(artifact) ==
    /\ Deployable(controller) /\ controller.authority # Pda
    /\ controller' = LoaderUpgrade(controller, artifact)
    /\ UNCHANGED <<govVars, target, receiptVars>>

SetControllerAuthority(key) ==
    /\ slot <= LastLoaderSlot
    /\ controller.authority \notin {NoKey, key}
    /\ controller' = LoaderSetAuthority(controller, key)
    /\ UNCHANGED <<govVars, target, receiptVars>>

\* The controller's own handlers deploy nothing before activation.
UpgradeTarget(artifact) ==
    /\ Deployable(target) /\ target.authority # Pda
    /\ target' = LoaderUpgrade(target, artifact)
    /\ UNCHANGED <<govVars, controller, receiptVars>>

\* The legacy holder may give the authority away at any time, also to the
\* controller's address and outside the ceremony.
SetTargetAuthority(key) ==
    /\ slot <= LastLoaderSlot
    /\ target.authority \notin {NoKey, Pda, key}
    /\ target' = LoaderSetAuthority(target, key)
    /\ UNCHANGED <<govVars, controller, receiptVars>>

\* ExtendProgram, which anyone may call, stamps the slot too.
ExtendTarget ==
    /\ Deployable(target) /\ target.capacity < MaxCapacity
    /\ target' = [target EXCEPT !.capacity = @ + 1, !.deployed = slot]
    /\ UNCHANGED <<govVars, controller, receiptVars>>

-----------------------------------------------------------------------------
(* Initialization *)

\* validate_loader_graph: both programs have a holder, and the target's is neither
\* the controller nor the guardian.
LoaderGraph ==
    /\ controller.authority # NoKey
    /\ target.authority \notin {NoKey, Pda, Guardian}

\* create_initial_accounts: none of the accounts exists yet.
Uninitialized == gate = NoGate

\* build_council: its terms were reviewed off chain.
FirstCouncil == Council(slot, FirstTerms)

\* build_controller_release: what the controller must be when its authority goes.
ControllerRelease(artifact) ==
    [artifact |-> artifact, authority |-> controller.authority,
     capacity |-> controller.capacity]

\* process_initialize_controller_v2: the holder of the controller's authority names
\* the council and the artifact the controller is to be, once per target.
InitializeController(artifact) ==
    /\ Uninitialized /\ LoaderGraph
    /\ gate' = FirstGate
    /\ councils' = [councils EXCEPT ![1] = FirstCouncil]
    /\ release' = ControllerRelease(artifact)
    /\ UNCHANGED <<slot, council, registry, profiles, proposals, loaderVars, observations,
                   immutability, handoff, deployment>>

\* process_initialize_governance_lifecycle_registry_v2: also the controller's
\* authority, so before it is given up.
InitializeRegistry ==
    /\ CouncilLoads /\ ~RegistryLoads
    /\ controller.authority # NoKey
    /\ gate = FirstGate
    /\ registry' = FirstRegistry
    /\ profiles' = <<Profile(None, NominalTiming)>>
    /\ UNCHANGED <<slot, council, councils, proposals, loaderVars, receiptVars>>

-----------------------------------------------------------------------------
(* Evidence *)

\* validate_bootstrap_gate.
BootstrapGate == gate = FirstGate

Subject == [purpose \in Purposes |->
    CASE purpose = "ControllerImmutability" -> release # NoRelease
      [] purpose = "TargetHandoffBridge" -> immutability # NoReceipt
      [] purpose = "BootstrapActivation" -> handoff # NoReceipt]

Observed == [purpose \in Purposes |->
    IF purpose = "ControllerImmutability" THEN controller ELSE target]

\* The account begins after the deployment slot and finalizes on an unchanged header
\* and a payload equal to the artifact it names.
FinalizeObservation(purpose, generation) ==
    /\ BootstrapGate /\ Subject[purpose]
    /\ Observed[purpose].deployed < slot
    /\ Cardinality({o \in observations : o.purpose = purpose}) < MaxObservations[purpose]
    /\ observations' = observations \cup
           {[purpose |-> purpose, generation |-> generation,
             artifact |-> Observed[purpose].artifact, header |-> Header(Observed[purpose])]}
    /\ UNCHANGED <<govVars, loaderVars, gate, release, immutability, handoff, deployment>>

\* require_live_observation.
LiveObservation(o, p) == o.header = Header(p)

\* The artifact the two observations share need not be the committed one.
ImmutabilityTransitionMutant(pre, post) ==
    /\ pre.generation < post.generation /\ pre.artifact = post.artifact
    /\ pre.header.authority = release.authority /\ post.header.authority = NoKey
    /\ post.header.residue = pre.header.residue
    /\ LiveObservation(post, controller)
\* validate_controller_immutability_transition and validate_some_to_none_header_delta.
ImmutabilityTransition(pre, post) ==
    /\ pre.generation < post.generation
    /\ pre.header.deployed <= post.header.deployed
    /\ release.capacity <= pre.header.capacity /\ pre.header.capacity <= post.header.capacity
    /\ pre.artifact = post.artifact /\ post.artifact = release.artifact
    /\ pre.header.authority = release.authority
    /\ post.header.authority = NoKey
    /\ post.header.residue = pre.header.residue
    /\ LiveObservation(post, controller)

\* process_record_controller_immutability_v1: one receipt, by anyone.
RecordControllerImmutability(pre, post) ==
    /\ immutability = NoReceipt /\ release # NoRelease
    /\ pre.purpose = "ControllerImmutability" /\ post.purpose = "ControllerImmutability"
    /\ ImmutabilityTransition(pre, post)
    /\ immutability' = [artifact |-> release.artifact, deployed |-> post.header.deployed,
                        capacity |-> post.header.capacity]
    /\ UNCHANGED <<govVars, loaderVars, gate, release, observations, handoff, deployment>>

\* load_immutability_receipt.
ImmutabilityRecorded == immutability # NoReceipt

\* load_handoff_receipt.
HandoffRecorded == handoff # NoReceipt

\* create_or_reuse_zero_fixed_pda: a receipt is written once.
Unwritten(account) == account \in {NoReceipt, NoDeployment}

\* validate_controller_still_immutable.
ControllerImmutable ==
    /\ ImmutabilityRecorded
    /\ controller.authority = NoKey
    /\ controller.deployed = immutability.deployed
    /\ controller.capacity = immutability.capacity

\* load_context.
ContextLoads == CouncilLoads /\ BootstrapGate /\ RegistryLoads

\* load_handoff_evidence: a live observation of the target in its holder's hands.
HandoffEvidence(o) ==
    /\ ContextLoads /\ ControllerImmutable
    /\ o.purpose = "TargetHandoffBridge"
    /\ target.authority \notin {NoKey, Pda}
    /\ LiveObservation(o, target)

\* load_activation_evidence: a live observation of the target in custody.
ActivationEvidence(o) ==
    /\ ContextLoads /\ ControllerImmutable
    /\ HandoffRecorded
    /\ o.purpose = "BootstrapActivation"
    /\ target.authority = Pda
    /\ LiveObservation(o, target)
    /\ o.artifact = handoff.artifact
    /\ o.header.deployed >= handoff.deployed /\ o.header.capacity >= handoff.capacity

\* What a handoff proposal pins: the observation it is created on, the gate and the
\* legacy holder.
HandoffBridge(o) == [observation |-> o, gate |-> gate, authority |-> target.authority]

\* An activation proposal takes the artifact from the handoff receipt.
ActivationBridge(o) ==
    [observation |-> [o EXCEPT !.artifact = handoff.artifact], gate |-> gate, authority |-> Pda]

\* A fresh observation may stand in for the pinned one, whatever it saw.
PinnedEvidenceMutant(p, o) ==
    o.generation >= p.bridge.observation.generation /\ p.bridge.authority = target.authority
\* validate_handoff_proposal_evidence, validate_activation_proposal_evidence: a later
\* observation may stand in for the pinned one if it saw the same artifact.
PinnedEvidence(p, o) ==
    LET pinned == p.bridge.observation IN
    /\ o.generation >= pinned.generation
    /\ o.generation = pinned.generation => o = pinned
    /\ o.artifact = pinned.artifact
    /\ p.bridge.authority = target.authority
    /\ pinned.header.deployed <= o.header.deployed
    /\ pinned.header.capacity <= o.header.capacity

\* TargetAuthorityHandoffProposalV2::validate_static.
TargetAuthorityHandoffValid(p) ==
    /\ p.bridge.observation.header.deployed # 0 /\ p.bridge.authority # NoKey
    /\ p.bridge.gate.status = "EmergencyFrozen" /\ p.bridge.gate.epoch # 0
    /\ BoundTimingValid(p) /\ LifecycleValid(p)

\* BootstrapActivationProposalV2::validate_static.
BootstrapActivationValid(p) ==
    /\ p.bridge.observation.header.deployed # 0
    /\ p.bridge.gate.status = "EmergencyFrozen" /\ p.bridge.gate.epoch # 0
    /\ BoundTimingValid(p) /\ LifecycleValid(p)

\* load_handoff_proposal, load_activation_proposal: a record is read if it is valid.
ProposalLoads(p) ==
    IF p.kind = "TargetAuthorityHandoff" THEN TargetAuthorityHandoffValid(p)
                                         ELSE BootstrapActivationValid(p)

\* validate_handoff_identity_graph, validate_activation_identity_graph: the windows are
\* derived again from the profile the proposal names.
CeremonyIdentity(p) ==
    LET t == DerivedTiming(profiles[p.profile].timing[ClassOf[p.kind]], p.created) IN
    /\ ProposalLoads(p)
    /\ p.durations = t.durations
    /\ p.reviewEnd = t.reviewEnd /\ p.notBefore = t.notBefore /\ p.expiry = t.expiry

\* validate_handoff_live_governors, validate_activation_live_governors.
LiveCeremonyGovernors(p) ==
    CeremonyIdentity(p) /\ p.council = council /\ p.bridge.gate = gate

\* require_exact_quorum.
ExactQuorum(p) == QuorumLive(p) /\ Cardinality(p.approvals) = Threshold

-----------------------------------------------------------------------------
(* The handoff of the target's authority *)

UnchangedCeremony == UNCHANGED <<loaderVars, receiptVars>>

CreateTargetAuthorityHandoff(a, o) ==
    /\ HandoffEvidence(o)
    /\ ActiveSeat(a)
    /\ target.authority # Guardian
    /\ CreateProposal("TargetAuthorityHandoff", None, None, HandoffBridge(o))
    /\ UnchangedExceptProposals /\ UnchangedCeremony

\* Unlike the council's own proposals, the earlier votes' terms are not looked at.
ApproveOnEvidence(i, a) ==
    /\ LiveCeremonyGovernors(proposals[i])
    /\ ActiveSeat(a)
    /\ CanApprove(proposals[i], a, slot)
    /\ Store(i, Approved(proposals[i], a, slot))
    /\ UnchangedExceptProposals /\ UnchangedCeremony

ApproveTargetAuthorityHandoff(i, a, o) ==
    HandoffEvidence(o) /\ PinnedEvidence(proposals[i], o) /\ ApproveOnEvidence(i, a)

\* Cancelling asks for no evidence.
CancelTargetAuthorityHandoff(i, a) ==
    /\ BootstrapGate /\ RegistryLoads
    /\ LiveCeremonyGovernors(proposals[i])
    /\ CancelProposal(i, a)
    /\ UnchangedCeremony

\* Nor does expiry ask for a council.
ExpireTargetAuthorityHandoff(i) ==
    /\ RegistryLoads /\ CeremonyIdentity(proposals[i])
    /\ Expirable(proposals[i], slot)
    /\ Store(i, Expired(proposals[i], slot))
    /\ UnchangedExceptProposals /\ UnchangedCeremony

QueueOnEvidence(i) ==
    /\ LiveCeremonyGovernors(proposals[i])
    /\ ExactQuorum(proposals[i])
    /\ QueueProposal(i)
    /\ UnchangedCeremony

QueueTargetAuthorityHandoff(i, o) ==
    HandoffEvidence(o) /\ PinnedEvidence(proposals[i], o) /\ QueueOnEvidence(i)

\* validate_some_to_some_header_delta, on the header read back after the CPI.
HandedOver(pre, post) == post = [pre EXCEPT !.authority = Pda, !.residue = Pda]

HandoffReceipt(i, o) ==
    [artifact |-> proposals[i].bridge.observation.artifact,
     deployed |-> o.header.deployed, capacity |-> o.header.capacity, proposal |-> i]

\* The holder signs; SetAuthorityChecked and the receipt are one step.
ExecuteTargetAuthorityHandoff(i, o) ==
    /\ HandoffEvidence(o) /\ PinnedEvidence(proposals[i], o)
    /\ LiveCeremonyGovernors(proposals[i])
    /\ target.authority # Guardian
    /\ ExactQuorum(proposals[i])
    /\ Unwritten(handoff)
    /\ ExecuteProposal(i)
    /\ target' = LoaderSetAuthority(target, Pda)
    /\ HandedOver(o.header, Header(target'))
    /\ handoff' = HandoffReceipt(i, o)
    /\ UnchangedExceptProposals
    /\ UNCHANGED <<controller, gate, release, observations, immutability, deployment>>

-----------------------------------------------------------------------------
(* Activation *)

CreateBootstrapActivation(a, o) ==
    /\ ActivationEvidence(o)
    /\ ActiveSeat(a)
    /\ CreateProposal("BootstrapActivation", None, None, ActivationBridge(o))
    /\ UnchangedExceptProposals /\ UnchangedCeremony

ApproveBootstrapActivation(i, a, o) ==
    ActivationEvidence(o) /\ PinnedEvidence(proposals[i], o) /\ ApproveOnEvidence(i, a)

CancelBootstrapActivation(i, a) ==
    /\ BootstrapGate /\ RegistryLoads
    /\ LiveCeremonyGovernors(proposals[i])
    /\ CancelProposal(i, a)
    /\ UnchangedCeremony

ExpireBootstrapActivation(i) ==
    /\ RegistryLoads /\ CeremonyIdentity(proposals[i])
    /\ Expirable(proposals[i], slot)
    /\ Store(i, Expired(proposals[i], slot))
    /\ UnchangedExceptProposals /\ UnchangedCeremony

QueueBootstrapActivation(i, o) ==
    ActivationEvidence(o) /\ PinnedEvidence(proposals[i], o) /\ QueueOnEvidence(i)

ActivatedGate(i) == [status |-> "Active", epoch |-> gate.epoch + 1, last |-> i]

\* The record takes the controller's release for the target's.
FirstDeploymentMutant(o) ==
    [artifact |-> release.artifact, deployed |-> o.header.deployed,
     capacity |-> o.header.capacity, generation |-> 1]

\* The CurrentDeploymentStateV1 that the activation writes.
FirstDeployment(o) ==
    [artifact |-> handoff.artifact, deployed |-> o.header.deployed,
     capacity |-> o.header.capacity, generation |-> 1]

\* The gate opens and the first deployment is recorded.
ExecuteBootstrapActivation(i, o) ==
    /\ ActivationEvidence(o) /\ PinnedEvidence(proposals[i], o)
    /\ LiveCeremonyGovernors(proposals[i])
    /\ ExactQuorum(proposals[i])
    /\ Unwritten(deployment)
    /\ ExecuteProposal(i)
    /\ gate' = ActivatedGate(i)
    /\ deployment' = FirstDeployment(o)
    /\ UnchangedExceptProposals
    /\ UNCHANGED <<loaderVars, release, observations, immutability, handoff>>

-----------------------------------------------------------------------------
(* The specification *)

\* Both programs were deployed by their holders in an earlier slot.
CeremonyInit ==
    /\ slot = 2
    /\ council = 1
    /\ councils = [v \in Versions |-> NoCouncil]
    /\ registry = NoRegistry
    /\ profiles = <<>>
    /\ proposals = <<>>
    /\ controller \in {Program(a, 1, 1, "initializer") : a \in ControllerArtifacts}
    /\ target \in {Program(a, 1, 1, "legacy") : a \in TargetArtifacts}
    /\ gate = NoGate
    /\ release = NoRelease
    /\ observations = {}
    /\ immutability = NoReceipt
    /\ handoff = NoReceipt
    /\ deployment = NoDeployment

Loader ==
    \/ \E a \in ControllerArtifacts : UpgradeController(a)
    \/ \E a \in TargetArtifacts : UpgradeTarget(a)
    \/ \E key \in Holders \cup {NoKey} : SetControllerAuthority(key)
    \/ \E key \in Holders \cup {Pda} : SetTargetAuthority(key)
    \/ ExtendTarget

Preparation ==
    \/ \E a \in ControllerArtifacts : InitializeController(a)
    \/ InitializeRegistry
    \/ \E purpose \in Purposes, g \in 1..MaxGeneration : FinalizeObservation(purpose, g)
    \/ \E pre, post \in observations : RecordControllerImmutability(pre, post)

Handoffs ==
    \/ \E a \in Authorities, o \in observations : CreateTargetAuthorityHandoff(a, o)
    \/ \E i \in OfKind("TargetAuthorityHandoff") :
           \/ \E a \in Authorities :
                  \/ \E o \in observations : ApproveTargetAuthorityHandoff(i, a, o)
                  \/ CancelTargetAuthorityHandoff(i, a)
           \/ ExpireTargetAuthorityHandoff(i)
           \/ \E o \in observations :
                  \/ QueueTargetAuthorityHandoff(i, o)
                  \/ ExecuteTargetAuthorityHandoff(i, o)

Activations ==
    \/ \E a \in Authorities, o \in observations : CreateBootstrapActivation(a, o)
    \/ \E i \in OfKind("BootstrapActivation") :
           \/ \E a \in Authorities :
                  \/ \E o \in observations : ApproveBootstrapActivation(i, a, o)
                  \/ CancelBootstrapActivation(i, a)
           \/ ExpireBootstrapActivation(i)
           \/ \E o \in observations :
                  \/ QueueBootstrapActivation(i, o)
                  \/ ExecuteBootstrapActivation(i, o)

Governance == GovNext /\ UnchangedCeremony

CeremonyNext == Loader \/ Preparation \/ Handoffs \/ Activations \/ Governance

CeremonySpec == CeremonyInit /\ [][CeremonyNext]_ceremonyVars

-----------------------------------------------------------------------------
(* Properties *)

\* Custody is taken only by a controller that nobody can change any more and that
\* runs the release its initializer committed to, although the initializer may
\* upgrade it, pass it on or revoke its authority between any two steps.
ControllerFrozenFirst ==
    handoff # NoReceipt =>
        /\ controller.authority = NoKey
        /\ controller.artifact = release.artifact
        /\ ControllerImmutable

\* What the council approved is what came into custody: from the handoff on the
\* target runs the artifact that the completed proposal and the receipt name, though
\* its holder could upgrade it while the proposal was voted on and queued.
CustodyKnowsProgram ==
    handoff # NoReceipt =>
        /\ target.authority = Pda
        /\ target.artifact = handoff.artifact
        /\ proposals[handoff.proposal].state = "Completed"

\* The gate first opens on a known program: the deployment record that later
\* upgrades are measured against names the running artifact, which is in custody.
ActivationOpensTrusted ==
    gate.status = "Active" =>
        /\ target.authority = Pda /\ target.artifact = deployment.artifact
        /\ handoff # NoReceipt /\ deployment.artifact = handoff.artifact
        /\ proposals[gate.last].kind = "BootstrapActivation"
=============================================================================
