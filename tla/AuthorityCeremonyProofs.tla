----------------------- MODULE AuthorityCeremonyProofs -----------------------
(***************************************************************************)
(* That the bootstrap takes custody of a known program, for any council,   *)
(* any artifacts and any interleaving with the holders of the two upgrade  *)
(* authorities. The argument rests on what an observation is worth later:  *)
(* the loader stamps the slot of every upgrade, an upgrade never shares a  *)
(* slot with the one before it, so a header that still matches vouches for *)
(* the artifact that was observed under it.                                *)
(***************************************************************************)
EXTENDS AuthorityCeremony, SequenceTheorems, TLAPS

AuthorityKeys == Holders \cup {"initializer", "legacy", NoKey, Pda}

LoaderProgram(artifacts) ==
    [artifact : artifacts, deployed : Nat, capacity : Nat,
     authority : AuthorityKeys, residue : AuthorityKeys]

Observation ==
    [purpose : Purposes, generation : Nat, artifact : ControllerArtifacts \cup TargetArtifacts,
     header : [deployed : Nat, capacity : Nat,
               authority : AuthorityKeys, residue : AuthorityKeys]]

\* The record of a proposal; V holds whatever its creation fixes for good.
Record(V) ==
    [kind : V, state : States, council : V, profile : V, candidate : V, nonce : V,
     bridge : V, durations : V, created : V, reviewEnd : V, notBefore : V, expiry : V,
     approvals : SUBSET Authorities, cancellations : SUBSET Authorities,
     firstApproval : Nat, approvedAt : Nat, queuedAt : Nat, executedAt : Nat,
     terminalAt : Nat]

RecordsStored == \E V : proposals \in Seq(Record(V))

CeremonyTypes ==
    /\ slot \in Nat
    /\ RecordsStored
    /\ controller \in LoaderProgram(ControllerArtifacts)
    /\ target \in LoaderProgram(TargetArtifacts)
    /\ observations \subseteq Observation

\* What an observation is worth against the program it was made of.
Vouches(o, p) ==
    /\ o.header.deployed <= p.deployed
    /\ o.header.deployed = p.deployed => o.artifact = p.artifact

ObservationsVouch ==
    \A o \in observations :
        IF o.purpose = "ControllerImmutability" THEN Vouches(o, controller) ELSE Vouches(o, target)

\* The controller with a receipt: nobody can change it, and it is what was promised.
Frozen ==
    /\ release # NoRelease => gate # NoGate
    /\ immutability # NoReceipt =>
           /\ gate # NoGate
           /\ controller.authority = NoKey
           /\ controller.artifact = release.artifact
           /\ controller.deployed = immutability.deployed
           /\ controller.capacity = immutability.capacity

\* The target with a receipt.
InCustody ==
    handoff # NoReceipt =>
        /\ immutability # NoReceipt
        /\ target.authority = Pda
        /\ target.artifact = handoff.artifact
        /\ handoff.proposal \in DOMAIN proposals
        /\ proposals[handoff.proposal].state = "Completed"

\* The open gate.
Opened ==
    gate.status = "Active" =>
        /\ handoff # NoReceipt
        /\ deployment.artifact = handoff.artifact
        /\ gate.last \in DOMAIN proposals
        /\ proposals[gate.last].kind = "BootstrapActivation"

CeremonyInv == CeremonyTypes /\ ObservationsVouch /\ Frozen /\ InCustody /\ Opened

-----------------------------------------------------------------------------
(* The proposals *)

\* What an instruction makes of a stored proposal.
Successor(p, q) ==
    \/ \E a \in Authorities : CanApprove(p, a, slot) /\ q = Approved(p, a, slot)
    \/ \E a \in Authorities : CanCancel(p, a, slot) /\ q = Cancelled(p, a, slot)
    \/ Queueable(p, slot) /\ q = Queued(p, slot)
    \/ Executable(p, slot) /\ q = Completed(p, slot)
    \/ Expirable(p, slot) /\ q = Expired(p, slot)

\* Proposals are never removed, keep their kind, and stay completed.
RecordsLast ==
    \A i \in DOMAIN proposals :
        /\ i \in DOMAIN proposals'
        /\ proposals'[i].kind = proposals[i].kind
        /\ proposals[i].state = "Completed" => proposals'[i].state = "Completed"

LEMMA SuccessorKeeps ==
    ASSUME NEW V, NEW p \in Record(V), NEW q, slot \in Nat, Successor(p, q)
    PROVE  q \in Record(V) /\ q.kind = p.kind /\ p.state # "Completed"
<1>1. ASSUME NEW a \in Authorities, CanApprove(p, a, slot), q = Approved(p, a, slot)
      PROVE  q \in Record(V) /\ q.kind = p.kind /\ p.state # "Completed"
  <2>1. p.approvals \cup {a} \in SUBSET Authorities
    BY DEF Record
  <2> QED
    BY <1>1, <2>1 DEF Record, Approved, CanApprove, States
<1>2. ASSUME NEW a \in Authorities, CanCancel(p, a, slot), q = Cancelled(p, a, slot)
      PROVE  q \in Record(V) /\ q.kind = p.kind /\ p.state # "Completed"
  <2>1. p.cancellations \cup {a} \in SUBSET Authorities
    BY DEF Record
  <2> QED
    BY <1>2, <2>1 DEF Record, Cancelled, CanCancel, States, TerminalStates
<1>3. CASE Queueable(p, slot) /\ q = Queued(p, slot)
  BY <1>3 DEF Record, Queueable, Queued, States
<1>4. CASE Executable(p, slot) /\ q = Completed(p, slot)
  BY <1>4 DEF Record, Executable, Completed, States
<1>5. CASE Expirable(p, slot) /\ q = Expired(p, slot)
  BY <1>5 DEF Record, Expirable, Expired, States, TerminalStates
<1> QED
  BY <1>1, <1>2, <1>3, <1>4, <1>5 DEF Successor

LEMMA StoreLasts ==
    ASSUME slot \in Nat, RecordsStored, NEW i \in DOMAIN proposals, NEW q,
           Successor(proposals[i], q), Store(i, q)
    PROVE  RecordsStored' /\ RecordsLast /\ proposals'[i] = q
<1> PICK V : proposals \in Seq(Record(V))
  BY DEF RecordsStored
<1>1. proposals[i] \in Record(V)
  OBVIOUS
<1>2. q \in Record(V) /\ q.kind = proposals[i].kind /\ proposals[i].state # "Completed"
  BY <1>1, SuccessorKeeps
<1>3. /\ proposals' \in Seq(Record(V)) /\ DOMAIN proposals' = DOMAIN proposals
      /\ proposals'[i] = q
      /\ \A j \in DOMAIN proposals : j # i => proposals'[j] = proposals[j]
  BY <1>2 DEF Store
<1> QED
  BY <1>2, <1>3 DEF RecordsStored, RecordsLast

LEMMA CreateLasts ==
    ASSUME RecordsStored, NEW kind, NEW candidate, NEW nonce, NEW bridge,
           CreateProposal(kind, candidate, nonce, bridge)
    PROVE  RecordsStored' /\ RecordsLast
<1> PICK V : proposals \in Seq(Record(V))
  BY DEF RecordsStored
<1> PICK p : p = NewProposal(kind, council, registry.profile, Governing.timing, slot,
                             candidate, nonce, bridge)
  OBVIOUS
<1> PICK W : W = V \cup {kind, council, registry.profile, candidate, nonce, bridge,
                         p.durations, slot, p.reviewEnd, p.notBefore, p.expiry}
  OBVIOUS
<1>1. p \in Record(W)
  BY DEF NewProposal, Record, States
<1>2. Record(V) \subseteq Record(W)
  BY DEF Record
<1>3. proposals \in Seq(Record(W))
  BY <1>2, SeqMonotonic
<1>4. proposals' = Append(proposals, p)
  BY DEF CreateProposal
<1>5. /\ proposals' \in Seq(Record(W))
      /\ \A i \in DOMAIN proposals : i \in DOMAIN proposals' /\ proposals'[i] = proposals[i]
  BY <1>1, <1>3, <1>4
<1> QED
  BY <1>5 DEF RecordsStored, RecordsLast

\* What a step does to the proposals, whichever action it is.
ProposalsMove ==
    \/ UNCHANGED proposals
    \/ \E kind, candidate, nonce, bridge : CreateProposal(kind, candidate, nonce, bridge)
    \/ \E i \in DOMAIN proposals : \E q : Successor(proposals[i], q) /\ Store(i, q)

\* The steps that leave the programs and the ceremony's accounts alone.
LEMMA QuietSteps ==
    ASSUME slot \in Nat, Handoffs \/ Activations \/ Governance
    PROVE  /\ slot' \in Nat
           /\ ProposalsMove
           /\ \/ UnchangedCeremony
              \/ \E i \in OfKind("TargetAuthorityHandoff"), o \in observations :
                    ExecuteTargetAuthorityHandoff(i, o)
              \/ \E i \in OfKind("BootstrapActivation"), o \in observations :
                    ExecuteBootstrapActivation(i, o)
<1> DEFINE Goal == /\ slot' \in Nat
                   /\ ProposalsMove
                   /\ \/ UnchangedCeremony
                      \/ \E i \in OfKind("TargetAuthorityHandoff"), o \in observations :
                            ExecuteTargetAuthorityHandoff(i, o)
                      \/ \E i \in OfKind("BootstrapActivation"), o \in observations :
                            ExecuteBootstrapActivation(i, o)
<1>a. \A kind : OfKind(kind) \subseteq DOMAIN proposals
  BY DEF OfKind
<1>1. ASSUME Handoffs
      PROVE  Goal
  <2>1. ASSUME NEW a \in Authorities, NEW o \in observations, CreateTargetAuthorityHandoff(a, o)
        PROVE  Goal
    BY <2>1 DEF CreateTargetAuthorityHandoff, UnchangedExceptProposals, ProposalsMove
  <2>2. ASSUME NEW i \in OfKind("TargetAuthorityHandoff"), NEW a \in Authorities,
               NEW o \in observations, ApproveTargetAuthorityHandoff(i, a, o)
        PROVE  Goal
    BY <1>a, <2>2 DEF ApproveTargetAuthorityHandoff, ApproveOnEvidence,
       UnchangedExceptProposals, ProposalsMove, Successor
  <2>3. ASSUME NEW i \in OfKind("TargetAuthorityHandoff"), NEW a \in Authorities,
               CancelTargetAuthorityHandoff(i, a)
        PROVE  Goal
    BY <1>a, <2>3 DEF CancelTargetAuthorityHandoff, CancelProposal,
       UnchangedExceptProposals, ProposalsMove, Successor
  <2>4. ASSUME NEW i \in OfKind("TargetAuthorityHandoff"), ExpireTargetAuthorityHandoff(i)
        PROVE  Goal
    BY <1>a, <2>4 DEF ExpireTargetAuthorityHandoff, UnchangedExceptProposals,
       ProposalsMove, Successor
  <2>5. ASSUME NEW i \in OfKind("TargetAuthorityHandoff"), NEW o \in observations,
               QueueTargetAuthorityHandoff(i, o)
        PROVE  Goal
    BY <1>a, <2>5 DEF QueueTargetAuthorityHandoff, QueueOnEvidence, QueueProposal,
       UnchangedExceptProposals, ProposalsMove, Successor
  <2>6. ASSUME NEW i \in OfKind("TargetAuthorityHandoff"), NEW o \in observations,
               ExecuteTargetAuthorityHandoff(i, o)
        PROVE  Goal
    BY <1>a, <2>6 DEF ExecuteTargetAuthorityHandoff, ExecuteProposal,
       UnchangedExceptProposals, ProposalsMove, Successor
  <2> QED
    BY <1>1, <2>1, <2>2, <2>3, <2>4, <2>5, <2>6 DEF Handoffs
<1>2. ASSUME Activations
      PROVE  Goal
  <2>1. ASSUME NEW a \in Authorities, NEW o \in observations, CreateBootstrapActivation(a, o)
        PROVE  Goal
    BY <2>1 DEF CreateBootstrapActivation, UnchangedExceptProposals, ProposalsMove
  <2>2. ASSUME NEW i \in OfKind("BootstrapActivation"), NEW a \in Authorities,
               NEW o \in observations, ApproveBootstrapActivation(i, a, o)
        PROVE  Goal
    BY <1>a, <2>2 DEF ApproveBootstrapActivation, ApproveOnEvidence,
       UnchangedExceptProposals, ProposalsMove, Successor
  <2>3. ASSUME NEW i \in OfKind("BootstrapActivation"), NEW a \in Authorities,
               CancelBootstrapActivation(i, a)
        PROVE  Goal
    BY <1>a, <2>3 DEF CancelBootstrapActivation, CancelProposal,
       UnchangedExceptProposals, ProposalsMove, Successor
  <2>4. ASSUME NEW i \in OfKind("BootstrapActivation"), ExpireBootstrapActivation(i)
        PROVE  Goal
    BY <1>a, <2>4 DEF ExpireBootstrapActivation, UnchangedExceptProposals,
       ProposalsMove, Successor
  <2>5. ASSUME NEW i \in OfKind("BootstrapActivation"), NEW o \in observations,
               QueueBootstrapActivation(i, o)
        PROVE  Goal
    BY <1>a, <2>5 DEF QueueBootstrapActivation, QueueOnEvidence, QueueProposal,
       UnchangedExceptProposals, ProposalsMove, Successor
  <2>6. ASSUME NEW i \in OfKind("BootstrapActivation"), NEW o \in observations,
               ExecuteBootstrapActivation(i, o)
        PROVE  Goal
    BY <1>a, <2>6 DEF ExecuteBootstrapActivation, ExecuteProposal,
       UnchangedExceptProposals, ProposalsMove, Successor
  <2> QED
    BY <1>2, <2>1, <2>2, <2>3, <2>4, <2>5, <2>6 DEF Activations
<1>3. ASSUME Governance
      PROVE  Goal
  <2>1. GovNext /\ UnchangedCeremony
    BY <1>3 DEF Governance
  <2>2. CASE Tick
    BY <2>1, <2>2 DEF Tick, ProposalsMove
  <2>3. CASE Candidates
    BY <2>1, <2>3 DEF Candidates, CreateCandidateCouncil, CreateTimingProfile, ProposalsMove
  <2>4. ASSUME NEW a \in Authorities, NEW c, CreateTimingPolicyChange(a, c)
        PROVE  Goal
    BY <2>1, <2>4 DEF CreateTimingPolicyChange, UnchangedExceptProposals, ProposalsMove
  <2>5. ASSUME NEW a \in Authorities, NEW v, CreateCouncilRotation(a, v)
        PROVE  Goal
    BY <2>1, <2>5 DEF CreateCouncilRotation, UnchangedExceptProposals, ProposalsMove
  <2>6. ASSUME NEW i \in DOMAIN proposals, NEW a \in Authorities,
               ApproveProposal(i, a) \/ CancelProposal(i, a)
        PROVE  Goal
    BY <2>1, <2>6 DEF ApproveProposal, CancelProposal, UnchangedExceptProposals,
       ProposalsMove, Successor
  <2>7. ASSUME NEW i \in DOMAIN proposals, ExpireProposal(i) \/ QueueProposal(i)
        PROVE  Goal
    BY <2>1, <2>7 DEF ExpireProposal, QueueProposal, UnchangedExceptProposals,
       ProposalsMove, Successor
  <2>8. ASSUME NEW i \in DOMAIN proposals, ExecuteProposal(i), slot' = slot
        PROVE  Goal
    BY <2>1, <2>8 DEF ExecuteProposal, ProposalsMove, Successor
  <2>9. CASE TimingPolicyChanges
    BY <1>a, <2>9, <2>4, <2>6, <2>7, <2>8
    DEF TimingPolicyChanges, ApproveTimingPolicyChange, CancelTimingPolicyChange,
        ExpireTimingPolicyChange, QueueTimingPolicyChange, ExecuteTimingPolicyChange
  <2>10. CASE CouncilRotations
    BY <1>a, <2>10, <2>5, <2>6, <2>7, <2>8
    DEF CouncilRotations, ApproveCouncilRotation, CancelCouncilRotation,
        ExpireCouncilRotation, QueueCouncilRotation, ExecuteCouncilRotation
  <2> QED
    BY <2>1, <2>2, <2>3, <2>9, <2>10 DEF GovNext
<1> QED
  BY <1>1, <1>2, <1>3

LEMMA RecordsMove ==
    ASSUME slot \in Nat, RecordsStored, ProposalsMove
    PROVE  RecordsStored' /\ RecordsLast
<1>1. CASE UNCHANGED proposals
  BY <1>1 DEF RecordsStored, RecordsLast
<1>2. CASE \E kind, candidate, nonce, bridge : CreateProposal(kind, candidate, nonce, bridge)
  BY <1>2, CreateLasts
<1>3. CASE \E i \in DOMAIN proposals : \E q : Successor(proposals[i], q) /\ Store(i, q)
  BY <1>3, StoreLasts
<1> QED
  BY <1>1, <1>2, <1>3 DEF ProposalsMove

-----------------------------------------------------------------------------
(* The programs and the ceremony's accounts *)

\* The loader's steps deploy at most once a slot, and move nothing else.
LEMMA LoaderKeeps ==
    ASSUME CeremonyInv, Loader
    PROVE  CeremonyInv'
<1> DEFINE Rest == UNCHANGED <<slot, proposals, gate, release, observations, immutability,
                               handoff, deployment>>
<1>a. /\ controller \in LoaderProgram(ControllerArtifacts)
      /\ target \in LoaderProgram(TargetArtifacts)
      /\ slot \in Nat /\ observations \subseteq Observation
      /\ \A o \in observations : o.header.deployed \in Nat
  BY DEF CeremonyInv, CeremonyTypes, Observation
\* What each loader step does to a program, and when.
<1> DEFINE Kept(p, q) == \A o \in observations : Vouches(o, p) => Vouches(o, q)
<1>1. ASSUME Rest, UNCHANGED target,
             controller' \in LoaderProgram(ControllerArtifacts),
             controller.authority # NoKey, Kept(controller, controller')
      PROVE  CeremonyInv'
  <2>1. CeremonyTypes'
    BY <1>1 DEF CeremonyInv, CeremonyTypes, RecordsStored
  <2>2. ObservationsVouch'
    BY <1>1 DEF CeremonyInv, ObservationsVouch
  <2>3. immutability = NoReceipt /\ handoff = NoReceipt
    BY <1>1 DEF CeremonyInv, Frozen, InCustody
  <2>4. Frozen' /\ InCustody' /\ Opened'
    BY <1>1, <2>3 DEF CeremonyInv, Frozen, InCustody, Opened
  <2> QED
    BY <2>1, <2>2, <2>4 DEF CeremonyInv
<1>2. ASSUME Rest, UNCHANGED controller,
             target' \in LoaderProgram(TargetArtifacts), Kept(target, target'),
             target.authority = Pda => target'.authority = Pda /\ target'.artifact = target.artifact
      PROVE  CeremonyInv'
  <2>1. CeremonyTypes'
    BY <1>2 DEF CeremonyInv, CeremonyTypes, RecordsStored
  <2>2. ObservationsVouch'
    BY <1>2 DEF CeremonyInv, ObservationsVouch
  <2>3. Frozen' /\ InCustody' /\ Opened'
    BY <1>2 DEF CeremonyInv, Frozen, InCustody, Opened
  <2> QED
    BY <2>1, <2>2, <2>3 DEF CeremonyInv
<1>3. ASSUME NEW a \in ControllerArtifacts, UpgradeController(a)
      PROVE  CeremonyInv'
  <2>1. /\ controller' = [controller EXCEPT !.artifact = a, !.deployed = slot]
        /\ controller.deployed < slot /\ controller.authority # NoKey
        /\ Rest /\ UNCHANGED target
    BY <1>3 DEF UpgradeController, Deployable, LoaderUpgrade, govVars, receiptVars
  <2>2. controller' \in LoaderProgram(ControllerArtifacts) /\ controller'.deployed = slot
    BY <1>a, <2>1 DEF LoaderProgram
  <2>3. controller.deployed \in Nat
    BY <1>a DEF LoaderProgram
  <2>4. Kept(controller, controller')
    BY <1>a, <2>1, <2>2, <2>3 DEF Vouches
  <2> QED
    BY <1>1, <2>1, <2>2, <2>4
<1>4. ASSUME NEW key \in Holders \cup {NoKey}, SetControllerAuthority(key)
      PROVE  CeremonyInv'
  <2>1. /\ controller' = LoaderSetAuthority(controller, key)
        /\ controller.authority # NoKey
        /\ Rest /\ UNCHANGED target
    BY <1>4 DEF SetControllerAuthority, govVars, receiptVars
  <2>2. /\ controller' \in LoaderProgram(ControllerArtifacts)
        /\ controller'.deployed = controller.deployed
        /\ controller'.artifact = controller.artifact
    BY <1>a, <2>1 DEF LoaderProgram, LoaderSetAuthority, AuthorityKeys
  <2>3. Kept(controller, controller')
    BY <2>2 DEF Vouches
  <2> QED
    BY <1>1, <2>1, <2>2, <2>3
<1>5. ASSUME NEW a \in TargetArtifacts, UpgradeTarget(a)
      PROVE  CeremonyInv'
  <2>1. /\ target' = [target EXCEPT !.artifact = a, !.deployed = slot]
        /\ target.deployed < slot /\ target.authority # Pda
        /\ Rest /\ UNCHANGED controller
    BY <1>5 DEF UpgradeTarget, Deployable, LoaderUpgrade, govVars, receiptVars
  <2>2. target' \in LoaderProgram(TargetArtifacts) /\ target'.deployed = slot
    BY <1>a, <2>1 DEF LoaderProgram
  <2>3. target.deployed \in Nat
    BY <1>a DEF LoaderProgram
  <2>4. Kept(target, target')
    BY <1>a, <2>1, <2>2, <2>3 DEF Vouches
  <2> QED
    BY <1>2, <2>1, <2>2, <2>4
<1>6. ASSUME NEW key \in Holders \cup {Pda}, SetTargetAuthority(key)
      PROVE  CeremonyInv'
  <2>1. /\ target' = LoaderSetAuthority(target, key)
        /\ target.authority # Pda
        /\ Rest /\ UNCHANGED controller
    BY <1>6 DEF SetTargetAuthority, govVars, receiptVars
  <2>2. /\ target' \in LoaderProgram(TargetArtifacts)
        /\ target'.deployed = target.deployed
        /\ target'.artifact = target.artifact
    BY <1>a, <2>1 DEF LoaderProgram, LoaderSetAuthority, AuthorityKeys
  <2>3. Kept(target, target')
    BY <2>2 DEF Vouches
  <2> QED
    BY <1>2, <2>1, <2>2, <2>3
<1>7. ASSUME ExtendTarget
      PROVE  CeremonyInv'
  <2>1. /\ target' = [target EXCEPT !.capacity = @ + 1, !.deployed = slot]
        /\ target.deployed < slot
        /\ Rest /\ UNCHANGED controller
    BY <1>7 DEF ExtendTarget, Deployable, govVars, receiptVars
  <2>2. /\ target' \in LoaderProgram(TargetArtifacts) /\ target'.deployed = slot
        /\ target'.authority = target.authority /\ target'.artifact = target.artifact
    <3>1. target.capacity + 1 \in Nat
      BY <1>a DEF LoaderProgram
    <3> QED
      BY <1>a, <2>1, <3>1 DEF LoaderProgram
  <2>3. target.deployed \in Nat
    BY <1>a DEF LoaderProgram
  <2>4. Kept(target, target')
    BY <1>a, <2>1, <2>2, <2>3 DEF Vouches
  <2> QED
    BY <1>2, <2>1, <2>2, <2>4
<1> QED
  BY <1>3, <1>4, <1>5, <1>6, <1>7 DEF Loader

\* Initialization and evidence. The receipt of immutability can only be written for
\* a controller that still has the header, hence the artifact, that was observed.
LEMMA PreparationKeeps ==
    ASSUME CeremonyInv, Preparation
    PROVE  CeremonyInv'
<1>a. /\ controller \in LoaderProgram(ControllerArtifacts)
      /\ target \in LoaderProgram(TargetArtifacts)
      /\ observations \subseteq Observation
  BY DEF CeremonyInv, CeremonyTypes
<1>1. ASSUME NEW a \in ControllerArtifacts, InitializeController(a)
      PROVE  CeremonyInv'
  <2>1. /\ gate = NoGate /\ gate' = FirstGate
        /\ UNCHANGED <<slot, proposals, controller, target, observations, immutability,
                       handoff, deployment>>
    BY <1>1 DEF InitializeController, Uninitialized, loaderVars
  <2>2. immutability = NoReceipt /\ handoff = NoReceipt
    BY <2>1 DEF CeremonyInv, Frozen, InCustody
  <2>3. gate' # NoGate /\ gate'.status # "Active"
    BY <2>1 DEF FirstGate, NoGate
  <2>4. CeremonyTypes' /\ ObservationsVouch'
    BY <2>1 DEF CeremonyInv, CeremonyTypes, RecordsStored, ObservationsVouch
  <2>5. Frozen' /\ InCustody' /\ Opened'
    BY <2>1, <2>2, <2>3 DEF Frozen, InCustody, Opened
  <2> QED
    BY <2>4, <2>5 DEF CeremonyInv
<1>2. ASSUME InitializeRegistry
      PROVE  CeremonyInv'
  BY <1>2 DEF InitializeRegistry, loaderVars, receiptVars, CeremonyInv, CeremonyTypes,
     RecordsStored, ObservationsVouch, Frozen, InCustody, Opened
<1>3. ASSUME NEW purpose \in Purposes, NEW g \in 1 .. MaxGeneration,
             FinalizeObservation(purpose, g)
      PROVE  CeremonyInv'
  <2> PICK p : p = Observed[purpose]
    OBVIOUS
  <2> PICK o : o = [purpose |-> purpose, generation |-> g,
                    artifact |-> p.artifact, header |-> Header(p)]
    OBVIOUS
  <2>1. /\ observations' = observations \cup {o}
        /\ UNCHANGED <<slot, proposals, controller, target, gate, release, immutability,
                       handoff, deployment>>
    BY <1>3 DEF FinalizeObservation, govVars, loaderVars
  <2>2. p = IF purpose = "ControllerImmutability" THEN controller ELSE target
    BY DEF Observed
  <2>3. o \in Observation
    BY <1>a, <2>2, CeremonyAssumption DEF Observation, Header, LoaderProgram
  <2>4. Vouches(o, p)
    BY <1>a, <2>2 DEF Vouches, Header, LoaderProgram
  <2>5. o.purpose = purpose
    OBVIOUS
  <2>6. CeremonyTypes'
    BY <2>1, <2>3 DEF CeremonyInv, CeremonyTypes, RecordsStored
  <2>7. ObservationsVouch'
    BY <2>1, <2>2, <2>4, <2>5 DEF CeremonyInv, ObservationsVouch
  <2>8. Frozen' /\ InCustody' /\ Opened'
    BY <2>1 DEF CeremonyInv, Frozen, InCustody, Opened
  <2> QED
    BY <2>6, <2>7, <2>8 DEF CeremonyInv
<1>4. ASSUME NEW pre \in observations, NEW post \in observations,
             RecordControllerImmutability(pre, post)
      PROVE  CeremonyInv'
  <2>1. /\ immutability = NoReceipt /\ release # NoRelease
        /\ post.purpose = "ControllerImmutability"
        /\ post.artifact = release.artifact /\ post.header.authority = NoKey
        /\ post.header = Header(controller)
        /\ immutability' = [artifact |-> release.artifact, deployed |-> post.header.deployed,
                            capacity |-> post.header.capacity]
        /\ UNCHANGED <<slot, proposals, controller, target, gate, release, observations,
                       handoff, deployment>>
    BY <1>4 DEF RecordControllerImmutability, ImmutabilityTransition, LiveObservation,
       govVars, loaderVars
  <2>2. /\ post.header.deployed = controller.deployed
        /\ post.header.capacity = controller.capacity
        /\ post.header.authority = controller.authority
    BY <2>1 DEF Header
  <2>3. Vouches(post, controller)
    BY <2>1 DEF CeremonyInv, ObservationsVouch
  <2>4. controller.artifact = release.artifact /\ controller.authority = NoKey
    BY <2>1, <2>2, <2>3 DEF Vouches
  <2>5. handoff = NoReceipt /\ gate # NoGate
    BY <2>1 DEF CeremonyInv, InCustody, Frozen
  <2>6. CeremonyTypes' /\ ObservationsVouch'
    BY <2>1 DEF CeremonyInv, CeremonyTypes, RecordsStored, ObservationsVouch
  <2>7. immutability'.deployed = controller.deployed /\ immutability'.capacity = controller.capacity
    BY <2>1, <2>2
  <2>8. Frozen'
    BY <2>1, <2>4, <2>5, <2>7 DEF Frozen
  <2>9. InCustody' /\ Opened'
    BY <2>1, <2>5 DEF CeremonyInv, InCustody, Opened
  <2> QED
    BY <2>6, <2>8, <2>9 DEF CeremonyInv
<1> QED
  BY <1>1, <1>2, <1>3, <1>4 DEF Preparation

\* The other steps: votes, the two executions, and the council's own affairs.
LEMMA QuietKeeps ==
    ASSUME CeremonyInv, Handoffs \/ Activations \/ Governance
    PROVE  CeremonyInv'
<1>a. /\ controller \in LoaderProgram(ControllerArtifacts)
      /\ target \in LoaderProgram(TargetArtifacts)
      /\ observations \subseteq Observation
      /\ slot \in Nat /\ RecordsStored
  BY DEF CeremonyInv, CeremonyTypes
<1>b. slot' \in Nat /\ RecordsStored' /\ RecordsLast
  BY <1>a, QuietSteps, RecordsMove
<1>1. CASE UnchangedCeremony
  <2>1. UNCHANGED <<controller, target, gate, release, observations, immutability, handoff,
                    deployment>>
    BY <1>1 DEF UnchangedCeremony, loaderVars, receiptVars
  <2>2. CeremonyTypes' /\ ObservationsVouch' /\ Frozen'
    BY <1>b, <2>1 DEF CeremonyInv, CeremonyTypes, ObservationsVouch, Frozen
  <2>3. InCustody'
    BY <1>b, <2>1 DEF CeremonyInv, InCustody, RecordsLast
  <2>4. Opened'
    BY <1>b, <2>1 DEF CeremonyInv, Opened, RecordsLast
  <2> QED
    BY <2>2, <2>3, <2>4 DEF CeremonyInv
<1>2. ASSUME NEW i \in OfKind("TargetAuthorityHandoff"), NEW o \in observations,
             ExecuteTargetAuthorityHandoff(i, o)
      PROVE  CeremonyInv'
  <2>1. /\ gate = FirstGate /\ immutability # NoReceipt
        /\ o.purpose = "TargetHandoffBridge" /\ o.header = Header(target)
        /\ o.artifact = proposals[i].bridge.observation.artifact
        /\ ExecuteProposal(i)
        /\ target' = LoaderSetAuthority(target, Pda)
        /\ handoff' = HandoffReceipt(i, o)
        /\ UNCHANGED <<controller, gate, release, observations, immutability, deployment>>
    BY <1>2 DEF ExecuteTargetAuthorityHandoff, HandoffEvidence, ContextLoads, BootstrapGate,
       ControllerImmutable, ImmutabilityRecorded, LiveObservation, PinnedEvidence
  <2>2. Vouches(o, target) /\ o.header.deployed = target.deployed
    BY <2>1 DEF CeremonyInv, ObservationsVouch, Header
  <2>3. handoff'.artifact = target.artifact /\ handoff'.proposal = i
    BY <2>1, <2>2 DEF Vouches, HandoffReceipt
  <2>4. /\ target' \in LoaderProgram(TargetArtifacts) /\ target'.authority = Pda
        /\ target'.artifact = target.artifact /\ target'.deployed = target.deployed
    BY <1>a, <2>1 DEF LoaderProgram, LoaderSetAuthority, AuthorityKeys
  <2>5. i \in DOMAIN proposals' /\ proposals'[i].state = "Completed"
    <3>1. i \in DOMAIN proposals
      BY DEF OfKind
    <3>2. Successor(proposals[i], Completed(proposals[i], slot))
          /\ Store(i, Completed(proposals[i], slot))
      BY <2>1 DEF ExecuteProposal, Successor
    <3>3. proposals'[i] = Completed(proposals[i], slot)
      BY <1>a, <3>1, <3>2, StoreLasts
    <3>4. Completed(proposals[i], slot).state = "Completed"
      <4> PICK V : proposals \in Seq(Record(V))
        BY <1>a DEF RecordsStored
      <4>1. proposals[i] \in Record(V)
        BY <3>1
      <4> QED
        BY <4>1 DEF Completed, Record
    <3> QED
      BY <1>b, <3>1, <3>3, <3>4 DEF RecordsLast
  <2>6. CeremonyTypes'
    BY <1>b, <2>1, <2>4 DEF CeremonyInv, CeremonyTypes
  <2>7. ObservationsVouch'
    BY <2>1, <2>4 DEF CeremonyInv, ObservationsVouch, Vouches
  <2>8. Frozen' /\ InCustody' /\ Opened'
    BY <2>1, <2>3, <2>4, <2>5 DEF CeremonyInv, Frozen, InCustody, Opened, FirstGate
  <2> QED
    BY <2>6, <2>7, <2>8 DEF CeremonyInv
<1>3. ASSUME NEW i \in OfKind("BootstrapActivation"), NEW o \in observations,
             ExecuteBootstrapActivation(i, o)
      PROVE  CeremonyInv'
  <2>1. /\ gate = FirstGate /\ handoff # NoReceipt
        /\ gate' = ActivatedGate(i) /\ deployment'.artifact = handoff.artifact
        /\ UNCHANGED <<controller, target, release, observations, immutability, handoff>>
    BY <1>3 DEF ExecuteBootstrapActivation, ActivationEvidence, ContextLoads, BootstrapGate,
       HandoffRecorded, FirstDeployment, loaderVars
  <2>2. gate' # NoGate /\ gate'.last = i
    BY <2>1 DEF ActivatedGate, NoGate
  <2>3. i \in DOMAIN proposals' /\ proposals'[i].kind = "BootstrapActivation"
    BY <1>b DEF OfKind, RecordsLast
  <2>4. CeremonyTypes' /\ ObservationsVouch'
    BY <1>b, <2>1 DEF CeremonyInv, CeremonyTypes, ObservationsVouch
  <2>5. Frozen'
    BY <2>1, <2>2 DEF CeremonyInv, Frozen
  <2>6. InCustody'
    BY <1>b, <2>1 DEF CeremonyInv, InCustody, RecordsLast
  <2>7. Opened'
    BY <2>1, <2>2, <2>3 DEF Opened
  <2> QED
    BY <2>4, <2>5, <2>6, <2>7 DEF CeremonyInv
<1> QED
  BY <1>a, <1>1, <1>2, <1>3, QuietSteps

LEMMA CeremonyInvariant == CeremonySpec => []CeremonyInv
<1>1. CeremonyInit => CeremonyInv
  <2> SUFFICES ASSUME CeremonyInit PROVE CeremonyInv
    OBVIOUS
  <2>1. RecordsStored
    <3>1. proposals \in Seq(Record({}))
      BY DEF CeremonyInit
    <3> QED
      BY <3>1 DEF RecordsStored
  <2>2. CeremonyTypes
    BY <2>1 DEF CeremonyInit, CeremonyTypes, LoaderProgram, Program, AuthorityKeys
  <2>3. ObservationsVouch /\ Frozen /\ InCustody
    BY DEF CeremonyInit, ObservationsVouch, Frozen, InCustody
  <2>4. Opened
    BY DEF CeremonyInit, Opened, NoGate
  <2> QED
    BY <2>2, <2>3, <2>4 DEF CeremonyInv
<1>2. CeremonyInv /\ [CeremonyNext]_ceremonyVars => CeremonyInv'
  <2> SUFFICES ASSUME CeremonyInv, [CeremonyNext]_ceremonyVars
               PROVE  CeremonyInv'
    OBVIOUS
  <2>1. CASE CeremonyNext
    BY <2>1, LoaderKeeps, PreparationKeeps, QuietKeeps DEF CeremonyNext
  <2>2. CASE UNCHANGED ceremonyVars
    BY <2>2 DEF ceremonyVars, govVars, loaderVars, receiptVars, CeremonyInv, CeremonyTypes,
       RecordsStored, ObservationsVouch, Frozen, InCustody, Opened
  <2> QED
    BY <2>1, <2>2
<1> QED
  BY <1>1, <1>2, PTL DEF CeremonySpec

-----------------------------------------------------------------------------
(* What the ceremony promises *)

\* Custody is taken only by a controller that nobody can change and that runs the
\* release its initializer committed to (load_handoff_evidence).
THEOREM FrozenFirstTheorem == CeremonySpec => []ControllerFrozenFirst
<1>1. CeremonyInv => ControllerFrozenFirst
  BY DEF CeremonyInv, Frozen, InCustody, ControllerFrozenFirst, ControllerImmutable,
     ImmutabilityRecorded
<1> QED
  BY <1>1, CeremonyInvariant, PTL

\* From the handoff on the target runs the artifact that the completed proposal and
\* the receipt name (process_execute_target_authority_handoff_v2).
THEOREM CustodyTheorem == CeremonySpec => []CustodyKnowsProgram
<1>1. CeremonyInv => CustodyKnowsProgram
  BY DEF CeremonyInv, InCustody, CustodyKnowsProgram
<1> QED
  BY <1>1, CeremonyInvariant, PTL

\* The gate first opens on a target in custody that runs the recorded artifact
\* (process_execute_bootstrap_activation_v2).
THEOREM ActivationTheorem == CeremonySpec => []ActivationOpensTrusted
<1>1. CeremonyInv => ActivationOpensTrusted
  BY DEF CeremonyInv, InCustody, Opened, ActivationOpensTrusted
<1> QED
  BY <1>1, CeremonyInvariant, PTL
==============================================================================
