-------------------------- MODULE ControllerV3Proofs --------------------------
(***************************************************************************)
(* Proofs about ControllerV3 for every council, threshold, timing policy,  *)
(* set of actions and bound: types, signatures and quorums, then the code  *)
(* that proposals install, the epochs of the gates, the policy that the    *)
(* decisions leave behind, and the refinement of CouncilDecisions.         *)
(***************************************************************************)
EXTENDS ControllerV3, TLAPS, FiniteSetTheorems

-------------------------------------------------------------------------------
(* Accounts *)

\* save_proposal stores a well-typed proposal under its id and leaves the others.
LEMMA SaveLemma ==
    ASSUME ProposalsOK, NEW id \in DOMAIN proposals, NEW p \in Proposal,
           SaveProposal(id, p)
    PROVE  /\ ProposalsOK'
           /\ DOMAIN proposals' = DOMAIN proposals
           /\ proposals'[id] = p
           /\ \A x \in DOMAIN proposals : x # id => proposals'[x] = proposals[x]
BY DEF ProposalsOK, SaveProposal

\* save_gate stores a well-typed gate.
LEMMA SaveGateLemma ==
    ASSUME GatesOK, NEW t \in Targets, NEW g \in Gate, SaveGate(t, g)
    PROVE  /\ GatesOK'
           /\ DOMAIN gates' = DOMAIN gates \cup {t}
           /\ gates'[t] = g
           /\ \A x \in DOMAIN gates : x # t => gates'[x] = gates[x]
BY DEF GatesOK, SaveGate, With

-------------------------------------------------------------------------------
(* Types *)

LEMMA SlotLemma ==
    ASSUME TypeOK
    PROVE  slot \in U64 /\ slot \in Nat /\ slot > 0
BY BoundsAssumption, TimingAssumption DEF TypeOK, U64

\* A u64 that checked_add can still increase.
LEMMA NextLemma ==
    ASSUME NEW n \in U64, AddFits(n, 1)
    PROVE  n + 1 \in U64
BY TimingAssumption DEF U64, AddFits

\* One epoch on, a gate is still a gate.
LEMMA RefrozenLemma ==
    ASSUME TypeOK, NEW g \in Gate, NEW id \in Ids, NEW reason \in 0 .. 4, AddFits(g.epoch, 1)
    PROVE  Refrozen(g, id, reason) \in Gate
<1>1. g.epoch + 1 \in U64
  BY NextLemma DEF Gate
<1> QED
  BY <1>1, SlotLemma DEF Refrozen, Gate

\* The record that Create stores: checked addition keeps its boundaries in range.
LEMMA NewProposalLemma ==
    ASSUME config \in Config, NEW a \in Offered, NEW now \in U64,
           BoundariesFit(config.timing, now)
    PROVE  NewProposal(config, a, now) \in Proposal
<1>1. config.timing \in Timing /\ config.council_epoch \in U64 /\ config.timing_version \in U64
  BY DEF Config
<1>2. /\ now + config.timing.review_slots \in U64
      /\ now + config.timing.delay_slots \in U64
      /\ now + config.timing.expiry_slots \in U64
  BY <1>1, TimingAssumption DEF Timing, U64, BoundariesFit, AddFits
<1>3. 0 \in U64
  BY TimingAssumption DEF U64
<1> QED
  BY <1>1, <1>2, <1>3 DEF NewProposal, Boundaries, Proposal, States

\* Both halves of an installation: the program keeps its type, the buffer goes.
LEMMA InstallLemma ==
    ASSUME TypeOK, NEW id \in DOMAIN proposals, NEW program \in Programs,
           proposals[id].action.buffer \in DOMAIN buffers, Install(id, program)
    PROVE  /\ ProposalsOK' /\ ProgramsOK' /\ BuffersOK'
           /\ DOMAIN proposals' = DOMAIN proposals
<1> DEFINE b == proposals[id].action.buffer
<1>1. slot \in U64
  BY SlotLemma
<1>2. proposals[id] \in Proposal
  BY DEF TypeOK, ProposalsOK
<1>3. Executed(proposals[id], slot) \in Proposal
  BY <1>1, <1>2 DEF Executed, Proposal, States
<1>4. ProposalsOK' /\ DOMAIN proposals' = DOMAIN proposals
  BY <1>3, SaveLemma DEF TypeOK, Install
<1>5. b \in DOMAIN buffers /\ buffers[b].data \in Contents
  BY DEF TypeOK, BuffersOK, Buffer
<1>6. /\ programs' = [programs EXCEPT ![program].image = buffers[b].data,
                                       ![program].deployed_slot = slot]
      /\ buffers' = Without(buffers, {b})
  BY DEF Install, LoaderUpgrade
<1>7. ProgramsOK'
  BY <1>1, <1>5, <1>6 DEF TypeOK, ProgramsOK, Program
<1>8. BuffersOK'
  BY <1>6 DEF TypeOK, BuffersOK, Without
<1> QED
  BY <1>4, <1>7, <1>8

\* An instruction of a proposal keeps every type.
LEMMA ProposalStepType ==
    ASSUME TypeOK, NEW id \in DOMAIN proposals, ProposalStep(id)
    PROVE  TypeOK'
<1> DEFINE p == proposals[id]
           a == p.action
<1>a. slot \in U64 /\ id \in Ids /\ id \in DOMAIN proposals
  BY SlotLemma DEF TypeOK, ProposalsOK
<1>b. p \in Proposal /\ a \in Offered
  BY DEF TypeOK, ProposalsOK, Proposal
<1>c. Executed(p, slot) \in Proposal /\ Expired(p) \in Proposal
  BY <1>a, <1>b DEF Executed, Expired, Proposal, States
<1>d. config \in Config /\ config.seats \in [Seats -> Keys] /\ config.initialized
  BY DEF TypeOK, ConfigOK
<1>e. config.council_epoch \in U64 /\ config.timing_version \in U64
  BY <1>d DEF Config
<1>1. CASE SealBuffer(id)
  <2>1. BuffersOK'
    BY <1>1, <1>a DEF SealBuffer, TypeOK, BuffersOK, Buffer
  <2> QED
    BY <1>1, <2>1 DEF SealBuffer, TypeOK, ConfigOK, ProposalsOK, GatesOK, ProgramsOK, RecordsOK
<1>2. ASSUME NEW index \in 1 .. MAX_CHUNKS, VerifyChunk(id, index)
      PROVE  TypeOK'
  <2>1. Marked(p, index) \in Proposal
    BY <1>b DEF Marked, Proposal
  <2>2. ProposalsOK' /\ DOMAIN proposals' = DOMAIN proposals
    BY <1>2, <2>1, SaveLemma DEF VerifyChunk, TypeOK
  <2> QED
    BY <1>2, <2>2 DEF VerifyChunk, TypeOK, ConfigOK, GatesOK, ProgramsOK, BuffersOK, RecordsOK
<1>3. ASSUME NEW index \in Seats, Approve(id, index)
      PROVE  TypeOK'
  <2>1. Approved(p, index) \in Proposal
    BY <1>b DEF Approved, Proposal
  <2>2. ProposalsOK' /\ DOMAIN proposals' = DOMAIN proposals
    BY <1>3, <2>1, SaveLemma DEF Approve, TypeOK
  <2> QED
    BY <1>3, <2>2 DEF Approve, TypeOK, ConfigOK, GatesOK, ProgramsOK, BuffersOK, RecordsOK
<1>4. ASSUME NEW index \in Seats, Cancel(id, index)
      PROVE  TypeOK'
  <2>1. Cancelled(p, index) \in Proposal
    BY <1>b DEF Cancelled, Proposal, States
  <2>2. ProposalsOK' /\ DOMAIN proposals' = DOMAIN proposals
    BY <1>4, <2>1, SaveLemma DEF Cancel, TypeOK
  <2> QED
    BY <1>4, <2>2 DEF Cancel, TypeOK, ConfigOK, GatesOK, ProgramsOK, BuffersOK, RecordsOK
<1>5. CASE Expire(id)
  <2>1. ProposalsOK' /\ DOMAIN proposals' = DOMAIN proposals
    BY <1>5, <1>c, SaveLemma DEF Expire, TypeOK
  <2> QED
    BY <1>5, <2>1 DEF Expire, TypeOK, ConfigOK, GatesOK, ProgramsOK, BuffersOK, RecordsOK
<1>6. CASE CloseBuffer(id)
  <2>1. BuffersOK'
    BY <1>6 DEF CloseBuffer, TypeOK, BuffersOK, Without
  <2> QED
    BY <1>6, <2>1 DEF CloseBuffer, TypeOK, ConfigOK, ProposalsOK, GatesOK, ProgramsOK, RecordsOK
<1>7. CASE ExecuteStep(id)
  <2>1. CASE ExecuteSetTiming(id)
    <3>1. ProposalsOK' /\ DOMAIN proposals' = DOMAIN proposals
      BY <2>1, <1>c, SaveLemma DEF ExecuteSetTiming, TypeOK
    <3>2. a.timing \in Timing
      BY <2>1, <1>b, OfferedAssumption DEF ExecuteSetTiming
    <3>3. config.timing_version + 1 \in U64
      BY <2>1, <1>e, TimingAssumption DEF ExecuteSetTiming, AddFits, U64
    <3>4. ConfigOK'
      BY <2>1, <1>d, <3>2, <3>3 DEF ExecuteSetTiming, ConfigOK, Config
    <3> QED
      BY <2>1, <3>1, <3>4
      DEF ExecuteSetTiming, TypeOK, GatesOK, ProgramsOK, BuffersOK, RecordsOK
  <2>2. CASE ExecuteRotateCouncil(id)
    <3>1. ProposalsOK' /\ DOMAIN proposals' = DOMAIN proposals
      BY <2>2, <1>c, SaveLemma DEF ExecuteRotateCouncil, TypeOK
    <3>2. a.seats \in [Seats -> Keys]
      BY <2>2, <1>b, OfferedAssumption DEF ExecuteRotateCouncil
    <3>3. config.council_epoch + 1 \in U64
      BY <2>2, <1>e, TimingAssumption DEF ExecuteRotateCouncil, AddFits, U64
    <3>4. ConfigOK'
      BY <2>2, <1>d, <3>2, <3>3 DEF ExecuteRotateCouncil, Rotated, ConfigOK, Config
    <3> QED
      BY <2>2, <3>1, <3>4
      DEF ExecuteRotateCouncil, TypeOK, GatesOK, ProgramsOK, BuffersOK, RecordsOK
  <2>3. CASE ExecuteControllerUpgrade(id)
    <3>1. a.buffer \in DOMAIN buffers /\ Controller \in Programs
      BY <2>3 DEF ExecuteControllerUpgrade, Install, InstallReady, Sealed, Programs
    <3>2. /\ ProposalsOK' /\ ProgramsOK' /\ BuffersOK'
          /\ DOMAIN proposals' = DOMAIN proposals
      BY <2>3, <3>1, InstallLemma DEF ExecuteControllerUpgrade
    <3> QED
      BY <2>3, <3>2 DEF ExecuteControllerUpgrade, TypeOK, ConfigOK, GatesOK, RecordsOK
  <2>4. CASE ExecuteTargetUpgrade(id)
    <3>1. a.buffer \in DOMAIN buffers /\ a.target \in DOMAIN gates
      BY <2>4 DEF ExecuteTargetUpgrade, GateScope, Install, InstallReady, Sealed
    <3>2. a.target \in Targets /\ a.target \in Programs /\ gates[a.target] \in Gate
      BY <3>1 DEF TypeOK, GatesOK, Programs
    <3>3. /\ ProposalsOK' /\ ProgramsOK' /\ BuffersOK'
          /\ DOMAIN proposals' = DOMAIN proposals
      BY <2>4, <3>1, <3>2, InstallLemma DEF ExecuteTargetUpgrade
    <3>4. Refrozen(gates[a.target], id, 2) \in Gate
      BY <2>4, <3>2, <1>a, RefrozenLemma DEF ExecuteTargetUpgrade
    <3>5. GatesOK'
      BY <2>4, <3>2, <3>4, SaveGateLemma DEF ExecuteTargetUpgrade, TypeOK
    <3> QED
      BY <2>4, <3>3, <3>5 DEF ExecuteTargetUpgrade, TypeOK, ConfigOK, RecordsOK
  <2>5. CASE ExecuteTargetGate(id)
    <3>1. a.target \in Targets /\ gates[a.target] \in Gate
      BY <2>5 DEF ExecuteTargetGate, TypeOK, GatesOK
    <3> DEFINE g == [ epoch |-> gates[a.target].epoch + 1,
                      status |-> IF a.active THEN "Active" ELSE "EmergencyFrozen",
                      freeze_slot |-> IF a.active THEN 0 ELSE slot,
                      freeze_reason_code |-> IF a.active THEN 0 ELSE 3,
                      last_completed_proposal |-> id ]
    <3>2. gates[a.target].epoch + 1 \in U64 /\ 0 \in U64
      BY <2>5, <3>1, TimingAssumption DEF ExecuteTargetGate, Gate, AddFits, U64
    <3>3. g \in Gate
      BY <3>2, <1>a DEF Gate
    <3>4. GatesOK'
      BY <2>5, <3>1, <3>3, SaveGateLemma DEF ExecuteTargetGate, TypeOK
    <3>5. ProposalsOK' /\ DOMAIN proposals' = DOMAIN proposals
      BY <2>5, <1>c, SaveLemma DEF ExecuteTargetGate, TypeOK
    <3> QED
      BY <2>5, <3>4, <3>5 DEF ExecuteTargetGate, TypeOK, ConfigOK, ProgramsOK, BuffersOK, RecordsOK
  <2>6. CASE ExecuteSpreadLightConfig(id)
    <3>1. a.target \in Programs
      BY <2>6 DEF ExecuteSpreadLightConfig, TypeOK, GatesOK, Programs
    <3>2. DOMAIN light' \subseteq Programs
      BY <2>6, <3>1 DEF ExecuteSpreadLightConfig, TypeOK, RecordsOK, With
    <3>3. ProposalsOK' /\ DOMAIN proposals' = DOMAIN proposals
      BY <2>6, <1>c, SaveLemma DEF ExecuteSpreadLightConfig, TypeOK
    <3> QED
      BY <2>6, <3>2, <3>3
      DEF ExecuteSpreadLightConfig, TypeOK, ConfigOK, GatesOK, ProgramsOK, BuffersOK, RecordsOK
  <2>7. CASE PublishVerification(id)
    <3>1. a.target \in Programs
      BY <2>7, <1>b, OfferedAssumption DEF PublishVerification, TargetKinds
    <3>2. DOMAIN metadata' \subseteq Programs
      BY <2>7, <3>1 DEF PublishVerification, TypeOK, RecordsOK, With
    <3>3. ProposalsOK' /\ DOMAIN proposals' = DOMAIN proposals
      BY <2>7, <1>c, SaveLemma DEF PublishVerification, TypeOK
    <3> QED
      BY <2>7, <3>2, <3>3
      DEF PublishVerification, TypeOK, ConfigOK, GatesOK, ProgramsOK, BuffersOK, RecordsOK
  <2>8. CASE RetireTarget(id)
    <3>1. a.target \in Targets /\ gates[a.target] \in Gate
      BY <2>8 DEF RetireTarget, TypeOK, GatesOK
    <3>2. Refrozen(gates[a.target], id, 4) \in Gate
      BY <2>8, <3>1, <1>a, RefrozenLemma DEF RetireTarget
    <3>3. GatesOK'
      BY <2>8, <3>1, <3>2, SaveGateLemma DEF RetireTarget, TypeOK
    <3>4. ProgramsOK'
      BY <2>8, <3>1 DEF RetireTarget, LoaderClose, TypeOK, ProgramsOK, Program, Programs
    <3>5. ProposalsOK' /\ DOMAIN proposals' = DOMAIN proposals
      BY <2>8, <1>c, SaveLemma DEF RetireTarget, TypeOK
    <3> QED
      BY <2>8, <3>3, <3>4, <3>5 DEF RetireTarget, TypeOK, ConfigOK, BuffersOK, RecordsOK
  <2> QED
    BY <1>7, <2>1, <2>2, <2>3, <2>4, <2>5, <2>6, <2>7, <2>8 DEF ExecuteStep
<1> QED
  BY <1>1, <1>2, <1>3, <1>4, <1>5, <1>6, <1>7 DEF ProposalStep

\* So does every other step.
LEMMA OtherStepType ==
    ASSUME TypeOK, [Next]_vars, \A id \in DOMAIN proposals : ~ ProposalStep(id)
    PROVE  TypeOK'
<1>a. 0 \in U64 /\ 1 \in U64 /\ slot \in U64
  BY SlotLemma, TimingAssumption DEF U64
<1>b. DefaultTiming \in Timing
  BY TimingAssumption DEF DefaultTiming, Timing
<1>1. ASSUME NEW seats \in Councils, Initialize(seats)
      PROVE  TypeOK'
  <2>1. seats \in [Seats -> Keys]
    BY BoundsAssumption
  <2>2. ConfigOK'
    BY <1>1, <1>a, <1>b, <2>1 DEF Initialize, ConfigOK, Config
  <2>3. ProgramsOK'
    BY <1>1 DEF Initialize, TypeOK, ProgramsOK, Program, Programs
  <2> QED
    BY <1>1, <2>2, <2>3 DEF Initialize, TypeOK, ProposalsOK, GatesOK, BuffersOK, RecordsOK
<1>2. ASSUME NEW t \in Targets, RegisterTarget(t)
      PROVE  TypeOK'
  <2>1. FirstGate \in Gate
    BY <1>a DEF FirstGate, Gate
  <2>2. GatesOK'
    BY <1>2, <2>1, SaveGateLemma DEF RegisterTarget, TypeOK
  <2>3. ProgramsOK'
    BY <1>2 DEF RegisterTarget, TypeOK, ProgramsOK, Program, Programs
  <2> QED
    BY <1>2, <2>2, <2>3 DEF RegisterTarget, TypeOK, ConfigOK, ProposalsOK, BuffersOK, RecordsOK
<1>3. ASSUME NEW a \in Offered, Create(a)
      PROVE  TypeOK'
  <2> DEFINE id == config.next_id
             p == NewProposal(config, a, slot)
  <2>1. config \in Config /\ id \in U64 /\ id \in Ids /\ AddFits(id, 1)
    BY <1>3 DEF Create, FreshId, TypeOK, ConfigOK, Config
  <2>2. id + 1 \in U64
    BY <2>1, NextLemma
  <2>3. p \in Proposal
    BY <1>3, <1>a, <2>1, NewProposalLemma DEF Create
  <2>4. /\ proposals' = With(proposals, id, p)
        /\ config' = [config EXCEPT !.next_id = id + 1]
        /\ config.initialized
    BY <1>3 DEF Create, FreshId
  <2>5. ProposalsOK'
    BY <2>1, <2>3, <2>4 DEF TypeOK, ProposalsOK, With
  <2>6. ConfigOK'
    BY <2>1, <2>2, <2>4 DEF TypeOK, ConfigOK, Config
  <2> QED
    BY <1>3, <2>5, <2>6 DEF Create, TypeOK, GatesOK, ProgramsOK, BuffersOK, RecordsOK
<1>4. ASSUME NEW t \in Targets, NEW ids \in SUBSET DOMAIN proposals,
             NEW withGate \in BOOLEAN, ReclaimRecords(t, ids, withGate)
      PROVE  TypeOK'
  <2>1. ProposalsOK' /\ DOMAIN proposals' \subseteq DOMAIN proposals
    BY <1>4 DEF ReclaimRecords, TypeOK, ProposalsOK, Without
  <2>2. GatesOK'
    BY <1>4 DEF ReclaimRecords, TypeOK, GatesOK, Without
  <2> QED
    BY <1>4, <2>1, <2>2
    DEF ReclaimRecords, TypeOK, ConfigOK, ProgramsOK, BuffersOK, RecordsOK
<1>5. ASSUME NEW t \in Targets, ReclaimVerification(t)
      PROVE  TypeOK'
  <2>1. RecordsOK'
    BY <1>5 DEF ReclaimVerification, TypeOK, RecordsOK, Without
  <2> QED
    BY <1>5, <2>1
    DEF ReclaimVerification, TypeOK, ConfigOK, ProposalsOK, GatesOK, ProgramsOK, BuffersOK
<1>6. CASE Tick
  <2>1. slot' \in 1 .. MaxSlot
    BY <1>6, BoundsAssumption, TimingAssumption DEF Tick, TypeOK, U64
  <2> QED
    BY <1>6, <2>1
    DEF Tick, TypeOK, ConfigOK, ProposalsOK, GatesOK, ProgramsOK, BuffersOK, RecordsOK
<1>7. ASSUME NEW b \in Buffers, NEW data \in Contents, Upload(b, data)
      PROVE  TypeOK'
  <2>1. BuffersOK'
    BY <1>7 DEF Upload, TypeOK, BuffersOK, Buffer, With
  <2> QED
    BY <1>7, <2>1 DEF Upload, TypeOK, ConfigOK, ProposalsOK, GatesOK, ProgramsOK, RecordsOK
<1>8. ASSUME NEW b \in DOMAIN buffers, NEW id \in Ids, HandOver(b, id)
      PROVE  TypeOK'
  <2>1. BuffersOK'
    BY <1>8 DEF HandOver, TypeOK, BuffersOK, Buffer
  <2> QED
    BY <1>8, <2>1 DEF HandOver, TypeOK, ConfigOK, ProposalsOK, GatesOK, ProgramsOK, RecordsOK
<1>9. ASSUME NEW b \in DOMAIN buffers, Withdraw(b)
      PROVE  TypeOK'
  <2>1. BuffersOK'
    BY <1>9 DEF Withdraw, TypeOK, BuffersOK, Without
  <2> QED
    BY <1>9, <2>1 DEF Withdraw, TypeOK, ConfigOK, ProposalsOK, GatesOK, ProgramsOK, RecordsOK
<1>10. ASSUME NEW q \in Programs, ExtendProgram(q)
       PROVE  TypeOK'
  <2>1. ProgramsOK'
    BY <1>10, <1>a DEF ExtendProgram, TypeOK, ProgramsOK, Program
  <2> QED
    BY <1>10, <2>1 DEF ExtendProgram, TypeOK, ConfigOK, ProposalsOK, GatesOK, BuffersOK, RecordsOK
<1>11. CASE UNCHANGED vars
  BY <1>11
  DEF vars, TypeOK, ConfigOK, ProposalsOK, GatesOK, ProgramsOK, BuffersOK, RecordsOK
<1> QED
  BY <1>1, <1>2, <1>3, <1>4, <1>5, <1>6, <1>7, <1>8, <1>9, <1>10, <1>11
  DEF Next, CouncilStep, CleanupStep, EnvironmentStep

\* The accounts the deployers leave behind.
LEMMA InitType == Init => TypeOK
<1> SUFFICES ASSUME Init PROVE TypeOK
  OBVIOUS
<1>a. 0 \in U64 /\ 1 \in U64
  BY TimingAssumption DEF U64
<1>b. DefaultTiming \in Timing
  BY TimingAssumption DEF DefaultTiming, Timing
<1>c. slot \in 1 .. MaxSlot
  BY BoundsAssumption, TimingAssumption DEF Init, U64
<1>1. ConfigOK
  BY <1>a, <1>b DEF Init, ConfigOK, Config
<1>2. ProposalsOK /\ GatesOK /\ BuffersOK /\ RecordsOK
  BY DEF Init, ProposalsOK, GatesOK, BuffersOK, RecordsOK
<1>3. ProgramsOK
  BY <1>a, BoundsAssumption DEF Init, ProgramsOK, Program
<1> QED
  BY <1>1, <1>2, <1>3, <1>c DEF Init, TypeOK

\* Every account of the controller keeps the layout its decoder expects, and
\* every slot, epoch, version and id its 64 bits, whatever is proposed.
THEOREM TypeCorrect == Spec => []TypeOK
<1>1. TypeOK /\ [Next]_vars => TypeOK'
  BY ProposalStepType, OtherStepType
<1> QED
  BY <1>1, InitType, PTL DEF Spec

-------------------------------------------------------------------------------
(* Council decisions *)

\* Instructions that touch neither the council nor the signatures.
KeepsCouncil == UNCHANGED <<config, signed>>

\* A step that replaces proposals by others of the same council, with the same
\* signatures, keeps the invariant; so does one that removes proposals.
LEMMA FrameCouncil ==
    ASSUME CouncilInv, TypeOK', KeepsCouncil,
           DOMAIN proposals' \subseteq DOMAIN proposals,
           \A id \in DOMAIN proposals' :
              /\ proposals'[id].council_epoch = proposals[id].council_epoch
              /\ proposals'[id].approvals = proposals[id].approvals
    PROVE  CouncilInv'
<1>1. BitmapIsSigners'
  BY DEF CouncilInv, BitmapIsSigners, KeepsCouncil
<1>2. CouncilSits'
  BY DEF CouncilInv, CouncilSits, KeepsCouncil, ConfigValid
<1> QED
  BY <1>1, <1>2 DEF CouncilInv, KeepsCouncil

\* What save_proposal does when neither the epoch nor the approvals change.
LEMMA SaveKeepsCouncil ==
    ASSUME CouncilInv, TypeOK', KeepsCouncil, NEW id \in DOMAIN proposals, NEW p \in Proposal,
           SaveProposal(id, p),
           p.council_epoch = proposals[id].council_epoch,
           p.approvals = proposals[id].approvals
    PROVE  CouncilInv'
<1>1. /\ DOMAIN proposals' = DOMAIN proposals
      /\ proposals'[id] = p
      /\ \A x \in DOMAIN proposals : x # id => proposals'[x] = proposals[x]
  BY SaveLemma DEF CouncilInv, TypeOK
<1> QED
  BY <1>1, FrameCouncil

\* An approval by a seat adds that seat's holder to the signers; every other
\* instruction of a proposal but a rotation leaves signatures and council alone.
LEMMA ProposalStepCouncil ==
    ASSUME CouncilInv, NEW id \in DOMAIN proposals, ProposalStep(id)
    PROVE  CouncilInv'
<1> DEFINE p == proposals[id]
<1>a. TypeOK /\ ProposalsOK /\ p \in Proposal /\ id \in Ids /\ slot \in U64
  BY SlotLemma DEF CouncilInv, TypeOK, ProposalsOK
<1>b. TypeOK'
  BY <1>a, ProposalStepType
<1>c. config \in Config /\ config.council_epoch \in Nat /\ config.next_id \in Nat
  BY <1>a, TimingAssumption DEF TypeOK, ConfigOK, Config, U64
<1>d. /\ Executed(p, slot) \in Proposal
      /\ Executed(p, slot).council_epoch = p.council_epoch
      /\ Executed(p, slot).approvals = p.approvals
      /\ Expired(p) \in Proposal
      /\ Expired(p).council_epoch = p.council_epoch
      /\ Expired(p).approvals = p.approvals
  BY <1>a DEF Executed, Expired, Proposal, States
<1>1. CASE SealBuffer(id) \/ CloseBuffer(id)
  <2>1. KeepsCouncil /\ UNCHANGED proposals
    BY <1>1 DEF SealBuffer, CloseBuffer, KeepsCouncil
  <2> QED
    BY <1>b, <2>1, FrameCouncil
<1>2. ASSUME NEW index \in 1 .. MAX_CHUNKS, VerifyChunk(id, index)
      PROVE  CouncilInv'
  <2>1. /\ Marked(p, index) \in Proposal
        /\ Marked(p, index).council_epoch = p.council_epoch
        /\ Marked(p, index).approvals = p.approvals
    BY <1>a DEF Marked, Proposal
  <2>2. SaveProposal(id, Marked(p, index)) /\ KeepsCouncil
    BY <1>2 DEF VerifyChunk, KeepsCouncil
  <2> QED
    BY <1>b, <2>1, <2>2, SaveKeepsCouncil
<1>3. ASSUME NEW index \in Seats, Approve(id, index)
      PROVE  CouncilInv'
  <2> DEFINE q == Approved(p, index)
  <2>1. /\ q \in Proposal
        /\ q.council_epoch = p.council_epoch
        /\ q.approvals = p.approvals \cup {index}
    BY <1>a DEF Approved, Proposal
  <2>2. /\ SaveProposal(id, q)
        /\ p.council_epoch = config.council_epoch
        /\ config' = config
        /\ signed' = [signed EXCEPT ![id] = @ \cup {config.seats[index]}]
    BY <1>3 DEF Approve, Current
  <2>3. /\ DOMAIN proposals' = DOMAIN proposals
        /\ proposals'[id] = q
        /\ \A x \in DOMAIN proposals : x # id => proposals'[x] = proposals[x]
    BY <1>a, <2>1, <2>2, SaveLemma
  <2>4. signed \in [Ids -> SUBSET Keys]
    BY <1>a DEF TypeOK
  <2>5. DOMAIN proposals \subseteq Ids
    BY <1>a DEF ProposalsOK
  <2>6. signed[id] = {config.seats[i] : i \in p.approvals}
    BY <2>2 DEF CouncilInv, BitmapIsSigners
  <2>7. signed'[id] = {config.seats[i] : i \in q.approvals}
    BY <1>a, <2>1, <2>2, <2>4, <2>6
  <2>8. BitmapIsSigners'
    BY <2>2, <2>3, <2>4, <2>5, <2>7 DEF CouncilInv, BitmapIsSigners
  <2>9. CouncilSits'
    BY <2>2 DEF CouncilInv, CouncilSits, ConfigValid
  <2>10. \A x \in DOMAIN proposals' :
            x < config'.next_id /\ proposals'[x].council_epoch <= config'.council_epoch
    BY <2>1, <2>2, <2>3 DEF CouncilInv
  <2>11. id < config.next_id
    BY DEF CouncilInv
  <2>12. \A x \in Ids : x >= config'.next_id => signed'[x] = {}
    BY <1>a, <1>c, <2>2, <2>4, <2>11 DEF CouncilInv, Ids
  <2> QED
    BY <1>b, <2>8, <2>9, <2>10, <2>12 DEF CouncilInv
<1>4. ASSUME NEW index \in Seats, Cancel(id, index)
      PROVE  CouncilInv'
  <2>1. /\ Cancelled(p, index) \in Proposal
        /\ Cancelled(p, index).council_epoch = p.council_epoch
        /\ Cancelled(p, index).approvals = p.approvals
    BY <1>a DEF Cancelled, Proposal, States
  <2>2. SaveProposal(id, Cancelled(p, index)) /\ KeepsCouncil
    BY <1>4 DEF Cancel, KeepsCouncil
  <2> QED
    BY <1>b, <2>1, <2>2, SaveKeepsCouncil
<1>5. CASE Expire(id)
  <2>1. SaveProposal(id, Expired(p)) /\ KeepsCouncil
    BY <1>5 DEF Expire, KeepsCouncil
  <2> QED
    BY <1>b, <1>d, <2>1, SaveKeepsCouncil
<1>6. CASE ExecuteStep(id)
  <2>1. SaveProposal(id, Executed(p, slot)) /\ UNCHANGED signed
    BY <1>6 DEF ExecuteStep, ExecuteSetTiming, ExecuteRotateCouncil, ExecuteControllerUpgrade,
                ExecuteTargetUpgrade, Install, ExecuteTargetGate, ExecuteSpreadLightConfig,
                PublishVerification, RetireTarget
  <2>2. /\ DOMAIN proposals' = DOMAIN proposals
        /\ proposals'[id] = Executed(p, slot)
        /\ \A x \in DOMAIN proposals : x # id => proposals'[x] = proposals[x]
    BY <1>a, <1>d, <2>1, SaveLemma
  <2>3. \A x \in DOMAIN proposals' :
           /\ proposals'[x].council_epoch = proposals[x].council_epoch
           /\ proposals'[x].approvals = proposals[x].approvals
    BY <1>d, <2>2
  <2>4. CASE ExecuteSetTiming(id)
    <3>1. /\ config'.seats = config.seats
          /\ config'.council_epoch = config.council_epoch
          /\ config'.next_id = config.next_id
          /\ ConfigValid(config)'
      BY <2>4, <1>c DEF ExecuteSetTiming, ConfigValid, Config
    <3>2. BitmapIsSigners'
      BY <2>1, <2>2, <2>3, <3>1 DEF CouncilInv, BitmapIsSigners
    <3>3. CouncilSits'
      BY <3>1 DEF CouncilSits, ConfigValid
    <3> QED
      BY <1>b, <2>1, <2>2, <2>3, <3>1, <3>2, <3>3 DEF CouncilInv
  <2>5. CASE ExecuteRotateCouncil(id)
    <3>1. /\ config'.council_epoch = config.council_epoch + 1
          /\ config'.next_id = config.next_id
          /\ ConfigValid(config)'
      BY <2>5, <1>c DEF ExecuteRotateCouncil, Rotated, ConfigValid, Config
    <3>2. \A x \in DOMAIN proposals' : proposals'[x].council_epoch < config'.council_epoch
      <4> SUFFICES ASSUME NEW x \in DOMAIN proposals'
                   PROVE  proposals'[x].council_epoch < config'.council_epoch
        OBVIOUS
      <4>1. proposals[x].council_epoch <= config.council_epoch
        BY <2>2 DEF CouncilInv
      <4>2. proposals[x].council_epoch \in Nat
        BY <1>a, <2>2, TimingAssumption DEF ProposalsOK, Proposal, U64
      <4> QED
        BY <1>c, <2>3, <3>1, <4>1, <4>2
    <3>3. config'.council_epoch \in Nat
      BY <1>c, <3>1
    <3>4. \A x \in DOMAIN proposals' : proposals'[x].council_epoch \in Nat
      BY <1>b, TimingAssumption DEF TypeOK, ProposalsOK, Proposal, U64
    <3>5. BitmapIsSigners'
      BY <3>2, <3>3, <3>4 DEF BitmapIsSigners
    <3>6. \A x \in DOMAIN proposals' : x < config'.next_id
      BY <2>2, <3>1 DEF CouncilInv
    <3>7. \A x \in Ids : x >= config'.next_id => signed'[x] = {}
      BY <2>1, <3>1 DEF CouncilInv
    <3>8. CouncilSits'
      BY <3>1 DEF CouncilSits, ConfigValid
    <3> QED
      BY <1>b, <3>2, <3>3, <3>4, <3>5, <3>6, <3>7, <3>8 DEF CouncilInv
  <2>6. CASE UNCHANGED config
    BY <1>b, <2>1, <2>2, <2>3, <2>6, FrameCouncil DEF KeepsCouncil
  <2>7. ExecuteSetTiming(id) \/ ExecuteRotateCouncil(id) \/ UNCHANGED config
    BY <1>6 DEF ExecuteStep, ExecuteControllerUpgrade, ExecuteTargetUpgrade, ExecuteTargetGate,
                ExecuteSpreadLightConfig, PublishVerification, RetireTarget
  <2> QED
    BY <2>4, <2>5, <2>6, <2>7
<1> QED
  BY <1>1, <1>2, <1>3, <1>4, <1>5, <1>6 DEF ProposalStep

\* The other steps: a new council starts without proposals, a new proposal
\* without signatures, and the rest leaves both alone.
LEMMA StepCouncil ==
    ASSUME CouncilInv, [Next]_vars
    PROVE  CouncilInv'
<1>a. TypeOK
  BY DEF CouncilInv
<1>b. TypeOK'
  BY <1>a, ProposalStepType, OtherStepType
<1>c. /\ config \in Config /\ config.next_id \in Nat
      /\ DOMAIN proposals \subseteq Ids
      /\ DOMAIN proposals # {} => config.initialized
  BY <1>a, TimingAssumption DEF TypeOK, ConfigOK, ProposalsOK, Config, U64
<1>1. ASSUME NEW seats \in Councils, Initialize(seats)
      PROVE  CouncilInv'
  <2>1. /\ ~ config.initialized /\ ConfigValid(config)' /\ config'.next_id = 1
        /\ UNCHANGED <<proposals, signed>>
    BY <1>1 DEF Initialize
  <2>2. DOMAIN proposals' = {}
    BY <1>c, <2>1
  <2>3. config.next_id = 0
    BY <2>1 DEF CouncilInv, CouncilSits
  <2>4. \A id \in Ids : signed'[id] = {}
    BY <2>1, <2>3 DEF CouncilInv, Ids
  <2>5. CouncilSits'
    BY <2>1 DEF CouncilSits, ConfigValid
  <2> QED
    BY <1>b, <2>2, <2>4, <2>5 DEF CouncilInv, BitmapIsSigners
<1>2. ASSUME NEW a \in Offered, Create(a)
      PROVE  CouncilInv'
  <2> DEFINE id == config.next_id
             p == NewProposal(config, a, slot)
  <2>1. /\ id \in Ids /\ id \notin DOMAIN proposals
        /\ proposals' = With(proposals, id, p)
        /\ config' = [config EXCEPT !.next_id = id + 1]
        /\ config.initialized
        /\ signed' = signed
    BY <1>2 DEF Create, FreshId
  <2>2. /\ config'.seats = config.seats /\ config'.council_epoch = config.council_epoch
        /\ config'.next_id = id + 1 /\ config'.initialized /\ ConfigValid(config)'
    BY <1>c, <2>1 DEF CouncilInv, CouncilSits, ConfigValid, Config
  <2>3. p.council_epoch = config.council_epoch /\ p.approvals = {}
    BY DEF NewProposal
  <2>4. /\ DOMAIN proposals' = DOMAIN proposals \cup {id}
        /\ proposals'[id] = p
        /\ \A x \in DOMAIN proposals : proposals'[x] = proposals[x]
    BY <2>1 DEF With
  <2>5. signed[id] = {}
    BY <1>c, <2>1 DEF CouncilInv
  <2>6. BitmapIsSigners'
    BY <2>1, <2>2, <2>3, <2>4, <2>5 DEF CouncilInv, BitmapIsSigners
  <2>7. config.council_epoch \in Nat
    BY <1>c, TimingAssumption DEF Config, U64
  <2>8. \A x \in DOMAIN proposals' :
           x < config'.next_id /\ proposals'[x].council_epoch <= config'.council_epoch
    <3>1. \A x \in DOMAIN proposals : x < id + 1
      BY <1>c DEF CouncilInv, Ids
    <3> QED
      BY <1>c, <2>2, <2>3, <2>4, <2>7, <3>1 DEF CouncilInv
  <2>9. \A x \in Ids : x >= config'.next_id => signed'[x] = {}
    BY <1>c, <2>1, <2>2 DEF CouncilInv, Ids
  <2> QED
    BY <1>b, <2>2, <2>6, <2>8, <2>9 DEF CouncilInv, CouncilSits
<1>3. ASSUME NEW t \in Targets, NEW ids \in SUBSET DOMAIN proposals,
             NEW withGate \in BOOLEAN, ReclaimRecords(t, ids, withGate)
      PROVE  CouncilInv'
  <2>1. /\ KeepsCouncil
        /\ DOMAIN proposals' \subseteq DOMAIN proposals
        /\ \A id \in DOMAIN proposals' : proposals'[id] = proposals[id]
    BY <1>3 DEF ReclaimRecords, KeepsCouncil, Without
  <2> QED
    BY <1>b, <2>1, FrameCouncil
<1>4. CASE KeepsCouncil /\ UNCHANGED proposals
  BY <1>4, <1>b, FrameCouncil
<1>5. \/ KeepsCouncil /\ UNCHANGED proposals
      \/ \E seats \in Councils : Initialize(seats)
      \/ \E a \in Offered : Create(a)
      \/ \E id \in DOMAIN proposals : ProposalStep(id)
      \/ \E t \in Targets, ids \in SUBSET DOMAIN proposals, withGate \in BOOLEAN :
            ReclaimRecords(t, ids, withGate)
  BY DEF Next, CouncilStep, CleanupStep, EnvironmentStep, vars, KeepsCouncil, RegisterTarget,
         ReclaimVerification, Tick, Upload, HandOver, Withdraw, ExtendProgram
<1> QED
  BY <1>1, <1>2, <1>3, <1>4, <1>5, ProposalStepCouncil

LEMMA CouncilInvariant == Spec => []CouncilInv
<1>1. Init => CouncilInv
  <2> SUFFICES ASSUME Init PROVE CouncilInv
    OBVIOUS
  <2>1. TypeOK
    BY InitType
  <2> QED
    BY <2>1 DEF Init, CouncilInv, CouncilSits, BitmapIsSigners
<1>2. CouncilInv /\ [Next]_vars => CouncilInv'
  BY StepCouncil
<1> QED
  BY <1>1, <1>2, PTL DEF Spec

\* The approval bitmap of a proposal of the sitting council is exactly the set
\* of its members who signed that proposal.
THEOREM SignersTheorem == Spec => []BitmapIsSigners
<1>1. CouncilInv => BitmapIsSigners
  BY DEF CouncilInv
<1> QED
  BY <1>1, CouncilInvariant, PTL

\* A proposal becomes executed only by one of the execute instructions, on it.
LEMMA ExecutesLemma ==
    ASSUME TypeOK, [Next]_vars, NEW id \in DOMAIN proposals, Executes(id)
    PROVE  ExecuteStep(id)
<1>a. proposals[id] \in Proposal /\ proposals[id].state = "PENDING" /\ proposals'[id].state = "EXECUTED"
  BY DEF TypeOK, ProposalsOK, Executes
<1>b. proposals' # proposals
  BY <1>a
<1>1. ASSUME NEW a \in Offered, Create(a)
      PROVE  FALSE
  <2>1. config.next_id \notin DOMAIN proposals /\ proposals' = With(proposals, config.next_id, NewProposal(config, a, slot))
    BY <1>1 DEF Create, FreshId
  <2> QED
    BY <1>a, <2>1 DEF With
<1>2. ASSUME NEW t \in Targets, NEW ids \in SUBSET DOMAIN proposals,
             NEW withGate \in BOOLEAN, ReclaimRecords(t, ids, withGate)
      PROVE  FALSE
  BY <1>2, <1>a DEF ReclaimRecords, Without, Executes
<1>3. ASSUME NEW other \in DOMAIN proposals, ProposalStep(other)
      PROVE  ExecuteStep(id)
  <2>1. CASE SealBuffer(other) \/ CloseBuffer(other)
    BY <2>1, <1>b DEF SealBuffer, CloseBuffer
  <2>2. ASSUME NEW p, SaveProposal(other, p)
        PROVE  other = id /\ p.state = "EXECUTED"
    BY <2>2, <1>a DEF TypeOK, ProposalsOK, SaveProposal
  <2>3. ASSUME NEW index \in 1 .. MAX_CHUNKS, VerifyChunk(other, index)
        PROVE  FALSE
    <3>1. other = id /\ Marked(proposals[other], index).state = "EXECUTED"
      BY <2>2, <2>3 DEF VerifyChunk
    <3> QED
      BY <3>1, <1>a DEF Marked, Proposal
  <2>4. ASSUME NEW index \in Seats, Approve(other, index)
        PROVE  FALSE
    <3>1. other = id /\ Approved(proposals[other], index).state = "EXECUTED"
      BY <2>2, <2>4 DEF Approve
    <3> QED
      BY <3>1, <1>a DEF Approved, Proposal
  <2>5. ASSUME NEW index \in Seats, Cancel(other, index)
        PROVE  FALSE
    <3>1. other = id /\ Cancelled(proposals[other], index).state = "EXECUTED"
      BY <2>2, <2>5 DEF Cancel
    <3> QED
      BY <3>1, <1>a DEF Cancelled, Proposal
  <2>6. CASE Expire(other)
    <3>1. other = id /\ Expired(proposals[other]).state = "EXECUTED"
      BY <2>2, <2>6 DEF Expire
    <3> QED
      BY <3>1, <1>a DEF Expired, Proposal
  <2>7. CASE ExecuteStep(other)
    <3>1. SaveProposal(other, Executed(proposals[other], slot))
      BY <2>7 DEF ExecuteStep, ExecuteSetTiming, ExecuteRotateCouncil, ExecuteControllerUpgrade,
                  ExecuteTargetUpgrade, Install, ExecuteTargetGate, ExecuteSpreadLightConfig,
                  PublishVerification, RetireTarget
    <3> QED
      BY <2>7, <2>2, <3>1
  <2> QED
    BY <1>3, <2>1, <2>3, <2>4, <2>5, <2>6, <2>7 DEF ProposalStep
<1>4. \/ UNCHANGED proposals
      \/ \E a \in Offered : Create(a)
      \/ \E other \in DOMAIN proposals : ProposalStep(other)
      \/ \E t \in Targets, ids \in SUBSET DOMAIN proposals, withGate \in BOOLEAN :
            ReclaimRecords(t, ids, withGate)
  BY DEF Next, CouncilStep, CleanupStep, EnvironmentStep, vars, Initialize, RegisterTarget,
         ReclaimVerification, Tick, Upload, HandOver, Withdraw, ExtendProgram
<1> QED
  BY <1>b, <1>1, <1>2, <1>3, <1>4

\* Distinct seats hold distinct keys, so a set of seats has as many holders.
LEMMA HoldersLemma ==
    ASSUME NEW seats, SeatsValid(seats), NEW A \in SUBSET Seats
    PROVE  /\ IsFiniteSet(A)
           /\ Cardinality({seats[i] : i \in A}) = Cardinality(A)
<1> DEFINE B == {seats[i] : i \in A}
           f == [i \in A |-> seats[i]]
<1>1. IsFiniteSet(A)
  BY SeatsAssumption, FS_Subset
<1>2. f \in Bijection(A, B)
  BY DEF SeatsValid, Bijection, Injection, Surjection, IsInjective
<1>3. Cardinality(A) = Cardinality(B)
  BY <1>1, <1>2, FS_Bijection DEF ExistsBijection
<1> QED
  BY <1>1, <1>3

\* The execution test counts the approvals of distinct people who sit now.
LEMMA ExecutableQuorum ==
    ASSUME CouncilInv, NEW id \in DOMAIN proposals, Executable(proposals[id], config, slot)
    PROVE  /\ signed[id] \subseteq Members(config.seats)
           /\ Cardinality(signed[id]) >= THRESHOLD
<1> DEFINE p == proposals[id]
<1>1. TypeOK
  BY DEF CouncilInv
<1>2. p.council_epoch = config.council_epoch /\ Cardinality(p.approvals) >= THRESHOLD
  BY DEF Executable, Current
<1>3. signed[id] = {config.seats[i] : i \in p.approvals}
  BY <1>2 DEF CouncilInv, BitmapIsSigners
<1>4. p.approvals \in SUBSET Seats
  BY <1>1 DEF TypeOK, ProposalsOK, Proposal
<1>5. SeatsValid(config.seats)
  BY <1>1 DEF CouncilInv, CouncilSits, ConfigValid, TypeOK, ConfigOK
<1>6. signed[id] \subseteq Members(config.seats)
  BY <1>3, <1>4 DEF Members
<1> QED
  BY <1>2, <1>3, <1>4, <1>5, <1>6, HoldersLemma

\* Every execute instruction begins with that test and ends by saving the
\* proposal as executed.
LEMMA ExecuteStepLemma ==
    ASSUME NEW id, ExecuteStep(id)
    PROVE  /\ Executable(proposals[id], config, slot)
           /\ SaveProposal(id, Executed(proposals[id], slot))
BY DEF ExecuteStep, ExecuteSetTiming, ExecuteRotateCouncil, ExecuteControllerUpgrade,
       ExecuteTargetUpgrade, Install, InstallReady, ExecuteTargetGate,
       ExecuteSpreadLightConfig, PublishVerification, RetireTarget

\* No proposal is executed without the signatures of a quorum of the people who
\* sit on the council at that moment, for every council and every threshold.
THEOREM QuorumTheorem == Spec => ExecutionHasQuorum
<1> DEFINE Quorate == \A id \in DOMAIN proposals :
                        Executes(id) =>
                           Cardinality(signed[id] \cap Members(config.seats)) >= THRESHOLD
<1>1. CouncilInv /\ [Next]_vars => Quorate
  <2> SUFFICES ASSUME CouncilInv, [Next]_vars, NEW id \in DOMAIN proposals, Executes(id)
               PROVE  Cardinality(signed[id] \cap Members(config.seats)) >= THRESHOLD
    OBVIOUS
  <2>1. Executable(proposals[id], config, slot)
    BY ExecutesLemma, ExecuteStepLemma DEF CouncilInv
  <2>2. signed[id] \subseteq Members(config.seats) /\ Cardinality(signed[id]) >= THRESHOLD
    BY <2>1, ExecutableQuorum
  <2>3. signed[id] \cap Members(config.seats) = signed[id]
    BY <2>2
  <2> QED
    BY <2>2, <2>3
<1>2. CouncilInv /\ [Next]_vars => [Quorate]_vars
  BY <1>1
<1> QED
  BY <1>2, CouncilInvariant, PTL DEF Spec, ExecutionHasQuorum

-------------------------------------------------------------------------------
(***************************************************************************)
(* Code.  What the council approved is what gets installed: the verified   *)
(* chunks of a pending proposal stay in its buffer, and the code of a      *)
(* program changes only to the artifact of the executed proposal.          *)
(***************************************************************************)

\* What VerifiedMatchesBuffer says of one proposal.
Guarded(id) ==
    LET p == proposals[id]
        b == p.action.buffer IN
    p.state = "PENDING" /\ p.verified # {} =>
        /\ IsUpgrade(p.action)
        /\ b \in DOMAIN buffers
        /\ buffers[b].authority = id
        /\ Len(buffers[b].data) = Len(p.action.artifact)
        /\ p.verified \subseteq 1 .. Len(p.action.artifact)
        /\ \A i \in p.verified : buffers[b].data[i] = p.action.artifact[i]

LEMMA GuardedLemma == VerifiedMatchesBuffer <=> \A id \in DOMAIN proposals : Guarded(id)
BY DEF VerifiedMatchesBuffer, Guarded

LEMMA GuardedLemmaPrime ==
    VerifiedMatchesBuffer' <=> \A id \in DOMAIN proposals' : Guarded(id)'
BY DEF VerifiedMatchesBuffer, Guarded

\* A step that leaves the buffers of the other proposals alone leaves what is
\* known of those proposals alone.
LEMMA GuardedFrame ==
    ASSUME NEW id \in DOMAIN proposals, Guarded(id),
           proposals'[id] = proposals[id],
           \A b \in DOMAIN buffers :
              buffers[b].authority = id => b \in DOMAIN buffers' /\ buffers'[b] = buffers[b]
    PROVE  Guarded(id)'
BY DEF Guarded

\* The same when the proposal moves on but keeps its action and its marks, or
\* is settled.
LEMMA GuardedMove ==
    ASSUME NEW id \in DOMAIN proposals, Guarded(id), UNCHANGED buffers,
           \/ proposals'[id].state # "PENDING"
           \/ /\ proposals[id].state = "PENDING"
              /\ proposals'[id].verified = proposals[id].verified
              /\ proposals'[id].action = proposals[id].action
    PROVE  Guarded(id)'
BY DEF Guarded

\* An uploader acts on a buffer of its own, never on one a proposal holds.
LEMMA UploaderKeeps ==
    ASSUME TypeOK, VerifiedMatchesBuffer, UNCHANGED proposals,
           NEW b,
           b \in DOMAIN buffers => buffers[b].authority = UPLOADER,
           \A x \in DOMAIN buffers : x # b => x \in DOMAIN buffers' /\ buffers'[x] = buffers[x]
    PROVE  VerifiedMatchesBuffer'
<1> SUFFICES ASSUME NEW id \in DOMAIN proposals
             PROVE  Guarded(id)'
  BY GuardedLemmaPrime
<1>1. Guarded(id)
  BY GuardedLemma
<1>2. id # UPLOADER
  BY DEF TypeOK, ProposalsOK, Ids, UPLOADER
<1> QED
  BY <1>1, <1>2, GuardedFrame

\* An instruction that saves one proposal and no buffer.
LEMMA SavedKeeps ==
    ASSUME TypeOK, VerifiedMatchesBuffer, UNCHANGED buffers,
           NEW id \in DOMAIN proposals, NEW q, SaveProposal(id, q),
           \/ q.state # "PENDING"
           \/ /\ proposals[id].state = "PENDING"
              /\ q.verified = proposals[id].verified
              /\ q.action = proposals[id].action
    PROVE  VerifiedMatchesBuffer'
<1>1. /\ DOMAIN proposals' = DOMAIN proposals /\ proposals'[id] = q
      /\ \A x \in DOMAIN proposals : x # id => proposals'[x] = proposals[x]
  BY DEF TypeOK, ProposalsOK, SaveProposal
<1>2. \A x \in DOMAIN proposals : Guarded(x)
  BY GuardedLemma
<1>3. Guarded(id)'
  BY <1>1, <1>2, GuardedMove
<1>4. \A x \in DOMAIN proposals : x # id => Guarded(x)'
  BY <1>1, <1>2, GuardedFrame
<1> QED
  BY <1>1, <1>3, <1>4, GuardedLemmaPrime

\* Installing proposal id consumes its own buffer and settles it.
LEMMA InstallKeeps ==
    ASSUME TypeOK, VerifiedMatchesBuffer, NEW id \in DOMAIN proposals, NEW program,
           Install(id, program)
    PROVE  VerifiedMatchesBuffer'
<1> DEFINE b == proposals[id].action.buffer
           q == Executed(proposals[id], slot)
<1>1. /\ buffers[b].authority = id /\ b \in DOMAIN buffers
      /\ buffers' = Without(buffers, {b})
      /\ SaveProposal(id, q)
  BY DEF Install, InstallReady, Sealed, LoaderUpgrade
<1>2. q.state # "PENDING"
  BY DEF Executed, TypeOK, ProposalsOK, Proposal
<1>3. /\ DOMAIN proposals' = DOMAIN proposals /\ proposals'[id] = q
      /\ \A x \in DOMAIN proposals : x # id => proposals'[x] = proposals[x]
  BY <1>1 DEF TypeOK, ProposalsOK, SaveProposal
<1>4. \A x \in DOMAIN proposals : Guarded(x)
  BY GuardedLemma
<1>5. Guarded(id)'
  BY <1>2, <1>3 DEF Guarded
<1>6. ASSUME NEW x \in DOMAIN proposals, x # id
      PROVE  Guarded(x)'
  <2>1. \A y \in DOMAIN buffers :
           buffers[y].authority = x => y \in DOMAIN buffers' /\ buffers'[y] = buffers[y]
    BY <1>1, <1>6 DEF Without
  <2> QED
    BY <1>3, <1>4, <1>6, <2>1, GuardedFrame
<1> QED
  BY <1>3, <1>5, <1>6, GuardedLemmaPrime

\* An instruction of a proposal: verify_chunk marks only what it has just read
\* from the sealed buffer; sealing and closing act on buffers nobody verified.
LEMMA ProposalStepCode ==
    ASSUME TypeOK, VerifiedMatchesBuffer, NEW id \in DOMAIN proposals, ProposalStep(id)
    PROVE  VerifiedMatchesBuffer'
<1> DEFINE p == proposals[id]
           b == p.action.buffer
<1>a. p \in Proposal /\ id \in Ids /\ id # UPLOADER
  BY DEF TypeOK, ProposalsOK, Ids, UPLOADER
<1>b. Executed(p, slot).state # "PENDING" /\ Expired(p).state # "PENDING"
  BY <1>a DEF Executed, Expired, Proposal
<1>1. CASE SealBuffer(id)
  <2>1. /\ UNCHANGED proposals /\ buffers[b].authority = UPLOADER /\ b \in DOMAIN buffers
        /\ buffers' = [buffers EXCEPT ![b].authority = id]
    BY <1>1 DEF SealBuffer
  <2> QED
    BY <2>1, UploaderKeeps DEF TypeOK, BuffersOK
<1>2. ASSUME NEW index \in 1 .. MAX_CHUNKS, VerifyChunk(id, index)
      PROVE  VerifiedMatchesBuffer'
  <2> DEFINE q == Marked(p, index)
  <2>1. /\ SaveProposal(id, q) /\ UNCHANGED buffers
        /\ IsUpgrade(p.action) /\ p.state = "PENDING"
        /\ index <= Len(p.action.artifact)
        /\ buffers[b].data[index] = p.action.artifact[index]
        /\ b \in DOMAIN buffers /\ buffers[b].authority = id
        /\ Len(buffers[b].data) = Len(p.action.artifact)
    BY <1>2 DEF VerifyChunk, Sealed, Current
  <2>2. /\ DOMAIN proposals' = DOMAIN proposals /\ proposals'[id] = q
        /\ \A x \in DOMAIN proposals : x # id => proposals'[x] = proposals[x]
    BY <2>1 DEF TypeOK, ProposalsOK, SaveProposal
  <2>3. /\ q.state = p.state /\ q.action = p.action
        /\ q.verified = p.verified \cup {index}
    BY <1>a DEF Marked, Proposal
  <2>4. \A x \in DOMAIN proposals : Guarded(x)
    BY GuardedLemma
  <2>5. p.action.artifact \in Seq(Chunks)
    BY <1>a, <2>1, OfferedAssumption, ContentsAssumption DEF Proposal
  <2>6. index \in 1 .. Len(p.action.artifact)
    BY <2>1, <2>5
  <2>7. p.verified \subseteq 1 .. Len(p.action.artifact)
    BY <2>1, <2>4 DEF Guarded
  <2>8. \A i \in q.verified : buffers[b].data[i] = p.action.artifact[i]
    BY <2>1, <2>3, <2>4 DEF Guarded
  <2>9. Guarded(id)'
    BY <2>1, <2>2, <2>3, <2>6, <2>7, <2>8 DEF Guarded
  <2>10. \A x \in DOMAIN proposals : x # id => Guarded(x)'
    BY <2>1, <2>2, <2>4, GuardedFrame
  <2> QED
    BY <2>2, <2>9, <2>10, GuardedLemmaPrime
<1>3. ASSUME NEW index \in Seats, Approve(id, index)
      PROVE  VerifiedMatchesBuffer'
  <2>1. SaveProposal(id, Approved(p, index)) /\ UNCHANGED buffers /\ p.state = "PENDING"
    BY <1>3 DEF Approve, Current
  <2>2. Approved(p, index).verified = p.verified /\ Approved(p, index).action = p.action
    BY <1>a DEF Approved, Proposal
  <2> QED
    BY <2>1, <2>2, SavedKeeps
<1>4. ASSUME NEW index \in Seats, Cancel(id, index)
      PROVE  VerifiedMatchesBuffer'
  <2>1. SaveProposal(id, Cancelled(p, index)) /\ UNCHANGED buffers /\ p.state = "PENDING"
    BY <1>4 DEF Cancel, Current
  <2>2. Cancelled(p, index).verified = p.verified /\ Cancelled(p, index).action = p.action
    BY <1>a DEF Cancelled, Proposal
  <2> QED
    BY <2>1, <2>2, SavedKeeps
<1>5. CASE Expire(id)
  BY <1>5, <1>b, SavedKeeps DEF Expire
<1>6. CASE CloseBuffer(id)
  <2>1. /\ UNCHANGED proposals /\ p.state # "PENDING"
        /\ buffers[b].authority = id
        /\ buffers' = Without(buffers, {b})
    BY <1>6 DEF CloseBuffer, Dead, Sealed
  <2>2. ASSUME NEW x \in DOMAIN proposals
        PROVE  Guarded(x)'
    <3>1. CASE x = id
      BY <2>1, <3>1 DEF Guarded
    <3>2. CASE x # id
      <4>1. \A y \in DOMAIN buffers :
               buffers[y].authority = x => y \in DOMAIN buffers' /\ buffers'[y] = buffers[y]
        BY <2>1, <3>2 DEF Without
      <4> QED
        BY <2>1, <4>1, GuardedFrame, GuardedLemma
    <3> QED
      BY <3>1, <3>2
  <2> QED
    BY <2>1, <2>2, GuardedLemmaPrime
<1>7. CASE ExecuteStep(id)
  <2>1. CASE \E program : Install(id, program)
    BY <2>1, InstallKeeps
  <2>2. CASE SaveProposal(id, Executed(p, slot)) /\ UNCHANGED buffers
    BY <2>2, <1>b, SavedKeeps
  <2> QED
    BY <1>7, <2>1, <2>2
    DEF ExecuteStep, ExecuteSetTiming, ExecuteRotateCouncil, ExecuteControllerUpgrade,
        ExecuteTargetUpgrade, ExecuteTargetGate, ExecuteSpreadLightConfig,
        PublishVerification, RetireTarget
<1> QED
  BY <1>1, <1>2, <1>3, <1>4, <1>5, <1>6, <1>7 DEF ProposalStep

LEMMA StepCode ==
    ASSUME TypeOK, VerifiedMatchesBuffer, [Next]_vars
    PROVE  VerifiedMatchesBuffer'
<1>1. ASSUME NEW a \in Offered, Create(a)
      PROVE  VerifiedMatchesBuffer'
  <2>a. PICK id : id = config.next_id
    OBVIOUS
  <2>1. /\ id \notin DOMAIN proposals /\ UNCHANGED buffers
        /\ proposals' = With(proposals, id, NewProposal(config, a, slot))
    BY <1>1, <2>a DEF Create, FreshId
  <2>2. /\ DOMAIN proposals' = DOMAIN proposals \cup {id}
        /\ proposals'[id].verified = {}
        /\ \A x \in DOMAIN proposals : proposals'[x] = proposals[x]
    BY <2>1 DEF With, NewProposal
  <2>3. Guarded(id)'
    BY <2>2 DEF Guarded
  <2>4. \A x \in DOMAIN proposals : Guarded(x)'
    BY <2>1, <2>2, GuardedFrame, GuardedLemma
  <2> QED
    BY <2>2, <2>3, <2>4, GuardedLemmaPrime
<1>2. ASSUME NEW t \in Targets, NEW ids \in SUBSET DOMAIN proposals,
             NEW withGate \in BOOLEAN, ReclaimRecords(t, ids, withGate)
      PROVE  VerifiedMatchesBuffer'
  <2>1. /\ UNCHANGED buffers /\ DOMAIN proposals' \subseteq DOMAIN proposals
        /\ \A x \in DOMAIN proposals' : proposals'[x] = proposals[x]
    BY <1>2 DEF ReclaimRecords, Without
  <2>2. \A x \in DOMAIN proposals' : Guarded(x)'
    BY <2>1, GuardedFrame, GuardedLemma
  <2> QED
    BY <2>2, GuardedLemmaPrime
<1>3. ASSUME NEW b \in Buffers, NEW data \in Contents, Upload(b, data)
      PROVE  VerifiedMatchesBuffer'
  BY <1>3, UploaderKeeps DEF Upload, With
<1>4. ASSUME NEW b \in DOMAIN buffers, NEW id \in Ids, HandOver(b, id)
      PROVE  VerifiedMatchesBuffer'
  BY <1>4, UploaderKeeps DEF HandOver, TypeOK, BuffersOK
<1>5. ASSUME NEW b \in DOMAIN buffers, Withdraw(b)
      PROVE  VerifiedMatchesBuffer'
  BY <1>5, UploaderKeeps DEF Withdraw, Without
<1>6. CASE UNCHANGED <<proposals, buffers>>
  BY <1>6 DEF VerifiedMatchesBuffer
<1>7. \/ UNCHANGED <<proposals, buffers>>
      \/ \E a \in Offered : Create(a)
      \/ \E id \in DOMAIN proposals : ProposalStep(id)
      \/ \E t \in Targets, ids \in SUBSET DOMAIN proposals, withGate \in BOOLEAN :
            ReclaimRecords(t, ids, withGate)
      \/ \E b \in Buffers, data \in Contents : Upload(b, data)
      \/ \E b \in DOMAIN buffers, id \in Ids : HandOver(b, id)
      \/ \E b \in DOMAIN buffers : Withdraw(b)
  BY DEF Next, CouncilStep, CleanupStep, EnvironmentStep, vars, Initialize, RegisterTarget,
         ReclaimVerification, Tick, ExtendProgram
<1> QED
  BY <1>1, <1>2, <1>3, <1>4, <1>5, <1>6, <1>7, ProposalStepCode

\* What a pending proposal has marked as verified stays in its buffer, whoever
\* uploads, hands over, seals or closes what in between.
THEOREM VerifiedTheorem == Spec => []VerifiedMatchesBuffer
<1>1. Init => VerifiedMatchesBuffer
  BY DEF Init, VerifiedMatchesBuffer
<1>2. TypeOK /\ VerifiedMatchesBuffer /\ [Next]_vars => VerifiedMatchesBuffer'
  BY StepCode
<1> QED
  BY <1>1, <1>2, TypeCorrect, PTL DEF Spec

\* A sealed buffer of a completely verified proposal holds its artifact.
LEMMA CompleteIsArtifact ==
    ASSUME TypeOK, VerifiedMatchesBuffer, NEW id \in DOMAIN proposals,
           proposals[id].state = "PENDING", IsUpgrade(proposals[id].action),
           Complete(proposals[id]), Sealed(id)
    PROVE  buffers[proposals[id].action.buffer].data = proposals[id].action.artifact
<1> DEFINE p == proposals[id]
           data == buffers[p.action.buffer].data
           artifact == p.action.artifact
<1>1. artifact \in Seq(Chunks)
  BY OfferedAssumption, ContentsAssumption DEF TypeOK, ProposalsOK, Proposal
<1>2. p.action.buffer \in DOMAIN buffers /\ Len(data) = Len(artifact)
  BY DEF Sealed
<1>3. data \in Seq(Chunks)
  BY <1>2, ContentsAssumption DEF TypeOK, BuffersOK, Buffer
<1>4. \A i \in 1 .. Len(artifact) : data[i] = artifact[i]
  BY DEF VerifiedMatchesBuffer, Complete
<1> QED
  BY <1>1, <1>2, <1>3, <1>4

\* What one step may install: each executed upgrade its own artifact, and nothing else.
Installs ==
    /\ \A id \in DOMAIN proposals :
         Executes(id) /\ IsUpgrade(proposals[id].action) =>
            programs'[UpgradedProgram(proposals[id].action)].image
               = proposals[id].action.artifact
    /\ \A t \in Programs :
         programs'[t].image # programs[t].image =>
            \E id \in DOMAIN proposals :
               /\ Executes(id)
               /\ IsUpgrade(proposals[id].action)
               /\ UpgradedProgram(proposals[id].action) = t

\* Only the two upgrade instructions reach a program's code, and InstallReady
\* makes sure that the buffer they copy is the approved artifact.
LEMMA StepInstalls ==
    ASSUME TypeOK, VerifiedMatchesBuffer, [Next]_vars
    PROVE  Installs
<1>a. programs \in [Programs -> Program]
  BY DEF TypeOK, ProgramsOK
<1>1. ASSUME NEW id \in DOMAIN proposals, NEW program \in Programs, Install(id, program),
             IsUpgrade(proposals[id].action)
      PROVE  /\ programs'[program].image = proposals[id].action.artifact
             /\ \A t \in Programs : t # program => programs'[t] = programs[t]
             /\ Executes(id)
  <2> DEFINE data == buffers[proposals[id].action.buffer].data
  <2>1. /\ programs' = [programs EXCEPT ![program].image = data, ![program].deployed_slot = slot]
        /\ proposals[id].state = "PENDING" /\ Complete(proposals[id]) /\ Sealed(id)
        /\ SaveProposal(id, Executed(proposals[id], slot))
    BY <1>1 DEF Install, InstallReady, Executable, Current, LoaderUpgrade
  <2>2. data = proposals[id].action.artifact
    BY <1>1, <2>1, CompleteIsArtifact
  <2>3. Executes(id)
    BY <2>1 DEF Executes, SaveProposal, Executed, TypeOK, ProposalsOK, Proposal
  <2> QED
    BY <1>a, <2>1, <2>2, <2>3 DEF Program
<1>2. ASSUME NEW id \in DOMAIN proposals, ExecuteControllerUpgrade(id)
      PROVE  /\ Install(id, Controller) /\ Controller \in Programs
             /\ IsUpgrade(proposals[id].action)
             /\ UpgradedProgram(proposals[id].action) = Controller
  BY <1>2 DEF ExecuteControllerUpgrade, ReleaseScope, IsUpgrade, UpgradeKinds,
              UpgradedProgram, Programs
<1>3. ASSUME NEW id \in DOMAIN proposals, ExecuteTargetUpgrade(id)
      PROVE  /\ Install(id, proposals[id].action.target)
             /\ proposals[id].action.target \in Programs
             /\ IsUpgrade(proposals[id].action)
             /\ UpgradedProgram(proposals[id].action) = proposals[id].action.target
  BY <1>3 DEF ExecuteTargetUpgrade, GateScope, IsUpgrade, UpgradeKinds, UpgradedProgram,
              Programs, TypeOK, GatesOK
<1>4. ASSUME NEW id \in DOMAIN proposals, Executes(id), IsUpgrade(proposals[id].action)
      PROVE  programs'[UpgradedProgram(proposals[id].action)].image
                = proposals[id].action.artifact
  <2>1. ExecuteStep(id)
    BY <1>4, ExecutesLemma
  <2>2. ExecuteControllerUpgrade(id) \/ ExecuteTargetUpgrade(id)
    BY <1>4, <2>1 DEF ExecuteStep, ExecuteSetTiming, ExecuteRotateCouncil, ExecuteTargetGate,
                      ExecuteSpreadLightConfig, PublishVerification, RetireTarget,
                      IsUpgrade, UpgradeKinds
  <2> QED
    BY <2>2, <1>1, <1>2, <1>3
<1>5. ASSUME NEW t \in Programs, programs'[t].image # programs[t].image
      PROVE  \E id \in DOMAIN proposals :
                /\ Executes(id)
                /\ IsUpgrade(proposals[id].action)
                /\ UpgradedProgram(proposals[id].action) = t
  <2>1. CASE \E id \in DOMAIN proposals : ExecuteControllerUpgrade(id) \/ ExecuteTargetUpgrade(id)
    BY <1>5, <2>1, <1>1, <1>2, <1>3
  <2>2. CASE \A x \in Programs : programs'[x].image = programs[x].image
    BY <1>5, <2>2
  <2>3. \/ \E id \in DOMAIN proposals : ExecuteControllerUpgrade(id) \/ ExecuteTargetUpgrade(id)
        \/ UNCHANGED programs
        \/ \E seats \in Councils : Initialize(seats)
        \/ \E x \in Targets : RegisterTarget(x)
        \/ \E id \in DOMAIN proposals : RetireTarget(id)
        \/ \E x \in Programs : ExtendProgram(x)
    BY DEF Next, CouncilStep, CleanupStep, EnvironmentStep, vars, Create, ProposalStep,
           SealBuffer, VerifyChunk, Approve, Cancel, Expire, CloseBuffer, ExecuteStep,
           ExecuteSetTiming, ExecuteRotateCouncil, ExecuteTargetGate,
           ExecuteSpreadLightConfig, PublishVerification, ReclaimRecords,
           ReclaimVerification, Tick, Upload, HandOver, Withdraw
  <2>4. ASSUME NEW seats \in Councils, Initialize(seats)
        PROVE  \A x \in Programs : programs'[x].image = programs[x].image
    BY <2>4, <1>a DEF Initialize, Program
  <2>5. ASSUME NEW y \in Targets, RegisterTarget(y)
        PROVE  \A x \in Programs : programs'[x].image = programs[x].image
    BY <2>5, <1>a DEF RegisterTarget, Program
  <2>6. ASSUME NEW id \in DOMAIN proposals, RetireTarget(id)
        PROVE  \A x \in Programs : programs'[x].image = programs[x].image
    BY <2>6, <1>a DEF RetireTarget, LoaderClose, Program
  <2>7. ASSUME NEW y \in Programs, ExtendProgram(y)
        PROVE  \A x \in Programs : programs'[x].image = programs[x].image
    BY <2>7, <1>a DEF ExtendProgram, Program
  <2> QED
    BY <2>1, <2>2, <2>3, <2>4, <2>5, <2>6, <2>7
<1> QED
  BY <1>4, <1>5 DEF Installs

\* The code of a program changes only when an upgrade proposal for it is
\* executed, and becomes exactly the artifact that proposal committed to.
THEOREM InstallTheorem == Spec => InstallsApprovedArtifact
<1>1. TypeOK /\ VerifiedMatchesBuffer /\ [Next]_vars => [Installs]_vars
  BY StepInstalls
<1> QED
  BY <1>1, TypeCorrect, VerifiedTheorem, PTL DEF Spec, InstallsApprovedArtifact, Installs

-------------------------------------------------------------------------------
(***************************************************************************)
(* Epochs.  An epoch pins the code of its target and is used up by the     *)
(* proposal that acts on it, beyond the target's retirement.               *)
(***************************************************************************)

\* How one step may change the gate and the code of a target: either the epoch
\* moves on by one, or both stay; a gate disappears only from a closed target
\* and appears only at one that is not.
GateMoves(t) ==
    /\ programs[t].closed => programs'[t].closed
    /\ t \in DOMAIN gates /\ t \in DOMAIN gates' =>
          \/ gates'[t].epoch = gates[t].epoch + 1
          \/ gates'[t] = gates[t] /\ programs'[t].image = programs[t].image
    /\ t \in DOMAIN gates /\ t \notin DOMAIN gates' => programs'[t].closed
    /\ t \notin DOMAIN gates /\ t \in DOMAIN gates' => ~ programs[t].closed

\* save_gate with the next epoch moves one gate and no other.
LEMMA NextEpochMoves ==
    ASSUME TypeOK, NEW s \in DOMAIN gates, NEW g \in Gate, SaveGate(s, g),
           g.epoch = gates[s].epoch + 1,
           \A x \in Programs : programs[x].closed => programs'[x].closed,
           \A x \in Targets : x # s => programs'[x].image = programs[x].image
    PROVE  \A t \in Targets : GateMoves(t)
<1>1. /\ DOMAIN gates' = DOMAIN gates
      /\ gates'[s] = g
      /\ \A x \in DOMAIN gates : x # s => gates'[x] = gates[x]
  <2>1. s \in Targets
    BY DEF TypeOK, GatesOK
  <2> QED
    BY <2>1, SaveGateLemma DEF TypeOK
<1> QED
  BY <1>1 DEF GateMoves, Programs

LEMMA GateSteps ==
    ASSUME TypeOK, [Next]_vars
    PROVE  \A t \in Targets : GateMoves(t)
<1>a. programs \in [Programs -> Program] /\ DOMAIN gates \subseteq Targets
      /\ gates \in [DOMAIN gates -> Gate]
  BY DEF TypeOK, ProgramsOK, GatesOK
<1>b. slot \in U64 /\ 0 \in U64
  BY SlotLemma, TimingAssumption DEF U64
<1>c. Targets \subseteq Programs /\ Controller \notin Targets
  BY BoundsAssumption DEF Programs
<1>1. CASE UNCHANGED <<gates, programs>>
  BY <1>1 DEF GateMoves
<1>2. ASSUME NEW seats \in Councils, Initialize(seats)
      PROVE  \A t \in Targets : GateMoves(t)
  BY <1>2, <1>a, <1>c DEF Initialize, GateMoves, Program
<1>3. ASSUME NEW s \in Targets, RegisterTarget(s)
      PROVE  \A t \in Targets : GateMoves(t)
  <2>1. /\ ~ programs[s].closed /\ s \notin DOMAIN gates
        /\ SaveGate(s, FirstGate)
        /\ programs' = [programs EXCEPT ![s].authority = "pda"]
    BY <1>3 DEF RegisterTarget, Deployed
  <2>2. gates' = With(gates, s, FirstGate)
    BY <2>1 DEF SaveGate
  <2>3. \A x \in Programs : programs'[x].closed = programs[x].closed /\ programs'[x].image = programs[x].image
    BY <2>1, <1>a DEF Program
  <2> QED
    BY <2>1, <2>2, <2>3, <1>c DEF With, GateMoves
<1>4. ASSUME NEW id \in DOMAIN proposals, ExecuteControllerUpgrade(id)
      PROVE  \A t \in Targets : GateMoves(t)
  <2>1. /\ UNCHANGED gates
        /\ \A t \in Targets : programs'[t] = programs[t]
    BY <1>4, <1>a, <1>c DEF ExecuteControllerUpgrade, Install, LoaderUpgrade
  <2> QED
    BY <2>1 DEF GateMoves
<1>5. ASSUME NEW id \in DOMAIN proposals, ExecuteTargetUpgrade(id)
      PROVE  \A t \in Targets : GateMoves(t)
  <2> DEFINE s == proposals[id].action.target
             g == Refrozen(gates[s], id, 2)
  <2>1. s \in DOMAIN gates /\ SaveGate(s, g) /\ AddFits(gates[s].epoch, 1) /\ Install(id, s)
    BY <1>5 DEF ExecuteTargetUpgrade, GateScope
  <2>2. gates[s] \in Gate /\ id \in Ids
    BY <1>a, <2>1 DEF TypeOK, ProposalsOK
  <2>3. g \in Gate
    BY <2>1, <2>2, RefrozenLemma
  <2>4. g.epoch = gates[s].epoch + 1
    BY <2>2 DEF Refrozen, Gate
  <2>5. programs' = [programs EXCEPT ![s].image = buffers[proposals[id].action.buffer].data,
                                     ![s].deployed_slot = slot]
    BY <2>1 DEF Install, LoaderUpgrade
  <2>6. \A x \in Programs : programs'[x].closed = programs[x].closed
    BY <1>a, <2>5 DEF Program
  <2>7. \A x \in Targets : x # s => programs'[x].image = programs[x].image
    BY <1>a, <1>c, <2>5
  <2> QED
    BY <2>1, <2>3, <2>4, <2>6, <2>7, NextEpochMoves
<1>6. ASSUME NEW id \in DOMAIN proposals, ExecuteTargetGate(id)
      PROVE  \A t \in Targets : GateMoves(t)
  <2> DEFINE a == proposals[id].action
             s == a.target
             g == [ epoch |-> gates[s].epoch + 1,
                    status |-> IF a.active THEN "Active" ELSE "EmergencyFrozen",
                    freeze_slot |-> IF a.active THEN 0 ELSE slot,
                    freeze_reason_code |-> IF a.active THEN 0 ELSE 3,
                    last_completed_proposal |-> id ]
  <2>1. /\ s \in DOMAIN gates /\ AddFits(gates[s].epoch, 1) /\ SaveGate(s, g)
        /\ UNCHANGED programs
    BY <1>6 DEF ExecuteTargetGate
  <2>2. gates[s] \in Gate /\ id \in Ids
    BY <1>a, <2>1 DEF TypeOK, ProposalsOK
  <2>3. gates[s].epoch + 1 \in U64
    BY <2>1, <2>2, NextLemma DEF Gate
  <2>4. g \in Gate /\ g.epoch = gates[s].epoch + 1
    BY <1>b, <2>2, <2>3 DEF Gate
  <2> QED
    BY <2>1, <2>4, NextEpochMoves
<1>7. ASSUME NEW id \in DOMAIN proposals, RetireTarget(id)
      PROVE  \A t \in Targets : GateMoves(t)
  <2> DEFINE s == proposals[id].action.target
             g == Refrozen(gates[s], id, 4)
  <2>1. /\ s \in DOMAIN gates /\ SaveGate(s, g) /\ AddFits(gates[s].epoch, 1)
        /\ programs' = [programs EXCEPT ![s].closed = TRUE]
    BY <1>7 DEF RetireTarget, LoaderClose
  <2>2. gates[s] \in Gate /\ id \in Ids
    BY <1>a, <2>1 DEF TypeOK, ProposalsOK
  <2>3. g \in Gate
    BY <2>1, <2>2, RefrozenLemma
  <2>4. g.epoch = gates[s].epoch + 1
    BY <2>2 DEF Refrozen, Gate
  <2>5. \A x \in Programs : programs[x].closed => programs'[x].closed
    BY <1>a, <2>1 DEF Program
  <2>6. \A x \in Targets : x # s => programs'[x].image = programs[x].image
    BY <1>a, <1>c, <2>1
  <2> QED
    BY <2>1, <2>3, <2>4, <2>5, <2>6, NextEpochMoves
<1>8. ASSUME NEW s \in Targets, NEW ids \in SUBSET DOMAIN proposals,
             NEW withGate \in BOOLEAN, ReclaimRecords(s, ids, withGate)
      PROVE  \A t \in Targets : GateMoves(t)
  BY <1>8 DEF ReclaimRecords, Without, GateMoves
<1>9. ASSUME NEW q \in Programs, ExtendProgram(q)
      PROVE  \A t \in Targets : GateMoves(t)
  <2>1. UNCHANGED gates
    BY <1>9 DEF ExtendProgram
  <2>2. \A x \in Programs : programs'[x].closed = programs[x].closed /\ programs'[x].image = programs[x].image
    BY <1>9, <1>a DEF ExtendProgram, Program
  <2> QED
    BY <2>1, <2>2, <1>c DEF GateMoves
<1>10. \/ UNCHANGED <<gates, programs>>
       \/ \E seats \in Councils : Initialize(seats)
       \/ \E s \in Targets : RegisterTarget(s)
       \/ \E id \in DOMAIN proposals :
             \/ ExecuteControllerUpgrade(id) \/ ExecuteTargetUpgrade(id)
             \/ ExecuteTargetGate(id) \/ RetireTarget(id)
       \/ \E s \in Targets, ids \in SUBSET DOMAIN proposals, withGate \in BOOLEAN :
             ReclaimRecords(s, ids, withGate)
       \/ \E q \in Programs : ExtendProgram(q)
  BY DEF Next, CouncilStep, CleanupStep, EnvironmentStep, vars, Create, ProposalStep,
         SealBuffer, VerifyChunk, Approve, Cancel, Expire, CloseBuffer, ExecuteStep,
         ExecuteSetTiming, ExecuteRotateCouncil, ExecuteSpreadLightConfig,
         PublishVerification, ReclaimVerification, Tick, Upload, HandOver, Withdraw
<1> QED
  BY <1>1, <1>2, <1>3, <1>4, <1>5, <1>6, <1>7, <1>8, <1>9, <1>10

\* A closed program stays closed: the loader has no way back.
LEMMA ClosedStays ==
    ASSUME TypeOK, [Next]_vars, NEW q \in Programs, programs[q].closed
    PROVE  programs'[q].closed
<1>a. programs \in [Programs -> Program]
  BY DEF TypeOK, ProgramsOK
<1>2. ASSUME NEW id \in DOMAIN proposals, NEW program, Install(id, program)
      PROVE  programs'[q].closed
  BY <1>2, <1>a DEF Install, LoaderUpgrade, Program
<1>3. ASSUME NEW x \in Programs, ExtendProgram(x)
      PROVE  programs'[q].closed
  BY <1>3, <1>a DEF ExtendProgram, Program
<1>4. ASSUME NEW id \in DOMAIN proposals, RetireTarget(id)
      PROVE  programs'[q].closed
  BY <1>4, <1>a DEF RetireTarget, LoaderClose, Program
<1>5. ASSUME NEW t \in Targets, RegisterTarget(t)
      PROVE  programs'[q].closed
  BY <1>5, <1>a DEF RegisterTarget, Program
<1>6. ASSUME NEW seats \in Councils, Initialize(seats)
      PROVE  programs'[q].closed
  BY <1>6, <1>a DEF Initialize, Program
<1>7. \/ UNCHANGED programs
      \/ \E seats \in Councils : Initialize(seats)
      \/ \E t \in Targets : RegisterTarget(t)
      \/ \E id \in DOMAIN proposals : RetireTarget(id) \/ \E program : Install(id, program)
      \/ \E x \in Programs : ExtendProgram(x)
  BY DEF Next, CouncilStep, CleanupStep, EnvironmentStep, vars, Create, ProposalStep,
         SealBuffer, VerifyChunk, Approve, Cancel, Expire, CloseBuffer, ExecuteStep,
         ExecuteSetTiming, ExecuteRotateCouncil, ExecuteControllerUpgrade,
         ExecuteTargetUpgrade, ExecuteTargetGate, ExecuteSpreadLightConfig,
         PublishVerification, ReclaimRecords, ReclaimVerification, Tick, Upload,
         HandOver, Withdraw
<1> QED
  BY <1>2, <1>3, <1>4, <1>5, <1>6, <1>7

\* As long as the epoch of a gate stands, so do its status and the code of its
\* target: an activation voted for an epoch releases the code of that epoch.
THEOREM EpochTheorem == Spec => EpochPinsCode
<1> DEFINE Pinned == \A t \in DOMAIN gates :
                        t \in DOMAIN gates' /\ gates'[t].epoch = gates[t].epoch =>
                           /\ programs'[t].image = programs[t].image
                           /\ gates'[t].status = gates[t].status
<1>1. TypeOK /\ [Next]_vars => Pinned
  <2> SUFFICES ASSUME TypeOK, [Next]_vars, NEW t \in DOMAIN gates, t \in DOMAIN gates',
                      gates'[t].epoch = gates[t].epoch
               PROVE  programs'[t].image = programs[t].image /\ gates'[t].status = gates[t].status
    OBVIOUS
  <2>1. t \in Targets /\ gates[t].epoch \in Nat
    BY TimingAssumption DEF TypeOK, GatesOK, Gate, U64
  <2>2. GateMoves(t)
    BY <2>1, GateSteps
  <2> QED
    BY <2>1, <2>2 DEF GateMoves
<1>2. TypeOK /\ [Next]_vars => [Pinned]_vars
  BY <1>1
<1> QED
  BY <1>2, TypeCorrect, PTL DEF Spec, EpochPinsCode

-------------------------------------------------------------------------------
(* Used-up epochs *)

\* A proposal that is settled never changes again, and none changes its action.
LEMMA SettledStays ==
    ASSUME TypeOK, [Next]_vars, NEW id \in DOMAIN proposals, id \in DOMAIN proposals'
    PROVE  \/ proposals'[id] = proposals[id]
           \/ /\ proposals[id].state = "PENDING"
              /\ proposals'[id].action = proposals[id].action
<1>a. proposals \in [DOMAIN proposals -> Proposal]
  BY DEF TypeOK, ProposalsOK
<1> DEFINE Kept == \/ proposals'[id] = proposals[id]
                   \/ /\ proposals[id].state = "PENDING"
                      /\ proposals'[id].action = proposals[id].action
<1>1. ASSUME NEW a \in Offered, Create(a)
      PROVE  Kept
  BY <1>1 DEF Create, FreshId, With
<1>2. ASSUME NEW t \in Targets, NEW ids \in SUBSET DOMAIN proposals,
             NEW withGate \in BOOLEAN, ReclaimRecords(t, ids, withGate)
      PROVE  Kept
  BY <1>2 DEF ReclaimRecords, Without
<1>3. ASSUME NEW other \in DOMAIN proposals, ProposalStep(other)
      PROVE  Kept
  <2> DEFINE p == proposals[other]
  <2>1. ASSUME NEW q, SaveProposal(other, q), p.state = "PENDING", q.action = p.action
        PROVE  Kept
    BY <2>1, <1>a DEF SaveProposal
  <2>2. CASE SealBuffer(other) \/ CloseBuffer(other)
    BY <2>2 DEF SealBuffer, CloseBuffer
  <2>3. ASSUME NEW index \in 1 .. MAX_CHUNKS, VerifyChunk(other, index)
        PROVE  Kept
    <3>1. Marked(p, index).action = p.action
      BY <1>a DEF Marked, Proposal
    <3> QED
      BY <2>1, <2>3, <3>1 DEF VerifyChunk, Current
  <2>4. ASSUME NEW index \in Seats, Approve(other, index)
        PROVE  Kept
    <3>1. Approved(p, index).action = p.action
      BY <1>a DEF Approved, Proposal
    <3> QED
      BY <2>1, <2>4, <3>1 DEF Approve, Current
  <2>5. ASSUME NEW index \in Seats, Cancel(other, index)
        PROVE  Kept
    <3>1. Cancelled(p, index).action = p.action
      BY <1>a DEF Cancelled, Proposal
    <3> QED
      BY <2>1, <2>5, <3>1 DEF Cancel, Current
  <2>6. CASE Expire(other)
    <3>1. Expired(p).action = p.action
      BY <1>a DEF Expired, Proposal
    <3> QED
      BY <2>1, <2>6, <3>1 DEF Expire, MayExpire
  <2>7. CASE ExecuteStep(other)
    <3>1. SaveProposal(other, Executed(p, slot)) /\ Executable(p, config, slot)
      BY <2>7 DEF ExecuteStep, ExecuteSetTiming, ExecuteRotateCouncil, ExecuteControllerUpgrade,
                  ExecuteTargetUpgrade, Install, InstallReady, ExecuteTargetGate,
                  ExecuteSpreadLightConfig, PublishVerification, RetireTarget
    <3>2. p.state = "PENDING"
      BY <3>1 DEF Executable, Current
    <3>3. Executed(p, slot).action = p.action
      BY <1>a DEF Executed, Proposal
    <3> QED
      BY <2>1, <3>1, <3>2, <3>3
  <2> QED
    BY <1>3, <2>2, <2>3, <2>4, <2>5, <2>6, <2>7 DEF ProposalStep
<1>4. \/ UNCHANGED proposals
      \/ \E a \in Offered : Create(a)
      \/ \E other \in DOMAIN proposals : ProposalStep(other)
      \/ \E t \in Targets, ids \in SUBSET DOMAIN proposals, withGate \in BOOLEAN :
            ReclaimRecords(t, ids, withGate)
  BY DEF Next, CouncilStep, CleanupStep, EnvironmentStep, vars, Initialize, RegisterTarget,
         ReclaimVerification, Tick, Upload, HandOver, Withdraw, ExtendProgram
<1> QED
  BY <1>1, <1>2, <1>3, <1>4

\* Only Create adds a proposal, a pending one, under the council's next id.
LEMMA NewIsPending ==
    ASSUME TypeOK, [Next]_vars, NEW id \in DOMAIN proposals', id \notin DOMAIN proposals
    PROVE  id = config.next_id /\ proposals'[id].state = "PENDING"
<1>1. ASSUME NEW a \in Offered, Create(a)
      PROVE  id = config.next_id /\ proposals'[id].state = "PENDING"
  BY <1>1 DEF Create, FreshId, With, NewProposal
<1>2. ASSUME NEW other \in DOMAIN proposals, ProposalStep(other)
      PROVE  FALSE
  <2>1. (\E q : SaveProposal(other, q)) \/ UNCHANGED proposals
    BY <1>2
    DEF ProposalStep, SealBuffer, VerifyChunk, Approve, Cancel, Expire, CloseBuffer, ExecuteStep,
        ExecuteSetTiming, ExecuteRotateCouncil, ExecuteControllerUpgrade, ExecuteTargetUpgrade,
        Install, ExecuteTargetGate, ExecuteSpreadLightConfig, PublishVerification, RetireTarget
  <2> QED
    BY <2>1 DEF SaveProposal
<1>3. \/ DOMAIN proposals' \subseteq DOMAIN proposals
      \/ \E a \in Offered : Create(a)
      \/ \E other \in DOMAIN proposals : ProposalStep(other)
  BY DEF Next, CouncilStep, CleanupStep, EnvironmentStep, vars, Initialize, RegisterTarget,
         ReclaimRecords, Without, ReclaimVerification, Tick, Upload, HandOver, Withdraw,
         ExtendProgram
<1> QED
  BY <1>1, <1>2, <1>3

\* The id of a reclaimed proposal is never handed out again.
THEOREM IdsTheorem == Spec => IdsNeverReused
<1> DEFINE Spent == \A id \in Ids :
                       id < config.next_id /\ id \notin DOMAIN proposals
                          => id \notin DOMAIN proposals'
<1>1. TypeOK /\ [Next]_vars => Spent
  <2> SUFFICES ASSUME TypeOK, [Next]_vars, NEW id \in Ids, id < config.next_id,
                      id \notin DOMAIN proposals, id \in DOMAIN proposals'
               PROVE  FALSE
    OBVIOUS
  <2>1. id = config.next_id
    BY NewIsPending
  <2> QED
    BY <2>1 DEF Ids
<1>2. TypeOK /\ [Next]_vars => [Spent]_vars
  BY <1>1
<1> QED
  BY <1>2, TypeCorrect, PTL DEF Spec, IdsNeverReused

\* What GateInv says of one proposal.
Past(id) ==
    LET p == proposals[id]
        t == p.action.target IN
    p.state = "EXECUTED" /\ p.action.kind \in EpochKinds =>
        IF t \in DOMAIN gates THEN p.action.gate_epoch < gates[t].epoch
        ELSE programs[t].closed

LEMMA PastLemma == GateInv <=> TypeOK /\ \A id \in DOMAIN proposals : Past(id)
BY DEF GateInv, ConsumedEpochIsPast, Past

LEMMA PastLemmaPrime == GateInv' <=> TypeOK' /\ \A id \in DOMAIN proposals' : Past(id)'
BY DEF GateInv, ConsumedEpochIsPast, Past

\* The proposal that acts on an epoch leaves the gate one epoch on.
LEMMA ActingMovesOn ==
    ASSUME TypeOK, NEW id \in DOMAIN proposals, ExecuteStep(id),
           proposals[id].action.kind \in EpochKinds
    PROVE  LET t == proposals[id].action.target IN
           /\ t \in DOMAIN gates'
           /\ gates'[t].epoch = proposals[id].action.gate_epoch + 1
<1> DEFINE a == proposals[id].action
           t == a.target
<1>1. CASE ExecuteTargetUpgrade(id)
  <2>1. /\ t \in DOMAIN gates /\ gates[t].epoch = a.gate_epoch
        /\ SaveGate(t, Refrozen(gates[t], id, 2))
    BY <1>1 DEF ExecuteTargetUpgrade, GateScope
  <2>2. gates[t] \in Gate
    BY <2>1 DEF TypeOK, GatesOK
  <2>3. Refrozen(gates[t], id, 2).epoch = a.gate_epoch + 1
    BY <2>1, <2>2 DEF Refrozen, Gate
  <2> QED
    BY <2>1, <2>3 DEF SaveGate, With
<1>2. CASE ExecuteTargetGate(id)
  <2>1. t \in DOMAIN gates /\ gates[t].epoch = a.gate_epoch
    BY <1>2 DEF ExecuteTargetGate
  <2>2. PICK g : SaveGate(t, g) /\ g.epoch = gates[t].epoch + 1
    BY <1>2 DEF ExecuteTargetGate
  <2> QED
    BY <2>1, <2>2 DEF SaveGate, With
<1>3. CASE RetireTarget(id)
  <2>1. /\ t \in DOMAIN gates /\ gates[t].epoch = a.gate_epoch
        /\ SaveGate(t, Refrozen(gates[t], id, 4))
    BY <1>3 DEF RetireTarget
  <2>2. gates[t] \in Gate
    BY <2>1 DEF TypeOK, GatesOK
  <2>3. Refrozen(gates[t], id, 4).epoch = a.gate_epoch + 1
    BY <2>1, <2>2 DEF Refrozen, Gate
  <2> QED
    BY <2>1, <2>3 DEF SaveGate, With
<1>4. ExecuteTargetUpgrade(id) \/ ExecuteTargetGate(id) \/ RetireTarget(id)
  BY DEF ExecuteStep, ExecuteSetTiming, ExecuteRotateCouncil, ExecuteControllerUpgrade,
         ReleaseScope, ExecuteSpreadLightConfig, PublishVerification, EpochKinds
<1> QED
  BY <1>1, <1>2, <1>3, <1>4

LEMMA StepGates ==
    ASSUME GateInv, [Next]_vars
    PROVE  GateInv'
<1>a. TypeOK /\ \A id \in DOMAIN proposals : Past(id)
  BY PastLemma
<1>b. TypeOK'
  BY <1>a, ProposalStepType, OtherStepType
<1> SUFFICES ASSUME NEW id \in DOMAIN proposals' PROVE Past(id)'
  BY <1>b, PastLemmaPrime
<1>1. CASE id \notin DOMAIN proposals
  <2>1. proposals'[id].state = "PENDING"
    BY <1>1, <1>a, NewIsPending
  <2> QED
    BY <2>1 DEF Past
<1>2. CASE id \in DOMAIN proposals /\ proposals'[id] = proposals[id]
  <2> DEFINE p == proposals[id]
             t == p.action.target
  <2> SUFFICES ASSUME p.state = "EXECUTED", p.action.kind \in EpochKinds
               PROVE  IF t \in DOMAIN gates' THEN p.action.gate_epoch < gates'[t].epoch
                      ELSE programs'[t].closed
    BY <1>2 DEF Past
  <2>1. p.action \in Offered
    BY <1>2, <1>a DEF TypeOK, ProposalsOK, Proposal
  <2>2. p.action.gate_epoch \in Nat /\ t \in Programs
    BY <2>1, OfferedAssumption DEF EpochKinds, TargetKinds
  <2>3. IF t \in DOMAIN gates THEN p.action.gate_epoch < gates[t].epoch
        ELSE programs[t].closed
    BY <1>2, <1>a DEF Past
  <2>4. CASE t \in Targets
    <3>1. GateMoves(t)
      BY <2>4, <1>a, GateSteps
    <3>2. t \in DOMAIN gates => gates[t].epoch \in Nat
      BY <1>a, TimingAssumption DEF TypeOK, GatesOK, Gate, U64
    <3> QED
      BY <2>2, <2>3, <3>1, <3>2 DEF GateMoves
  <2>5. CASE t \notin Targets
    <3>1. t = Controller /\ t \notin DOMAIN gates /\ t \notin DOMAIN gates'
      BY <2>2, <2>5, <1>a, <1>b DEF TypeOK, GatesOK, Programs
    <3>2. programs[t].closed => programs'[t].closed
      BY <2>2, <1>a, ClosedStays
    <3> QED
      BY <2>3, <3>1, <3>2
  <2> QED
    BY <2>4, <2>5
<1>3. CASE /\ id \in DOMAIN proposals
           /\ proposals[id].state = "PENDING"
           /\ proposals'[id].action = proposals[id].action
  <2> DEFINE a == proposals[id].action
             t == a.target
  <2> SUFFICES ASSUME proposals'[id].state = "EXECUTED", a.kind \in EpochKinds
               PROVE  IF t \in DOMAIN gates' THEN a.gate_epoch < gates'[t].epoch
                      ELSE programs'[t].closed
    BY <1>3 DEF Past
  <2>1. ExecuteStep(id)
    BY <1>3, <1>a, ExecutesLemma DEF Executes
  <2>2. t \in DOMAIN gates' /\ gates'[t].epoch = a.gate_epoch + 1
    BY <1>3, <1>a, <2>1, ActingMovesOn
  <2>3. a.gate_epoch \in Nat
    BY <1>3, <1>a, OfferedAssumption DEF TypeOK, ProposalsOK, Proposal, EpochKinds, TargetKinds
  <2> QED
    BY <2>2, <2>3
<1> QED
  BY <1>1, <1>2, <1>3, <1>a, SettledStays

\* No second proposal can act on a gate epoch that an executed one was voted
\* for, not even through a gate that was reclaimed.
THEOREM ConsumedTheorem == Spec => []ConsumedEpochIsPast
<1>1. Init => GateInv
  BY InitType DEF Init, GateInv, ConsumedEpochIsPast
<1>2. GateInv /\ [Next]_vars => GateInv'
  BY StepGates
<1>3. GateInv => ConsumedEpochIsPast
  BY DEF GateInv
<1> QED
  BY <1>1, <1>2, <1>3, PTL DEF Spec

-------------------------------------------------------------------------------
(* The policy in force *)

PolicyDone(id) == proposals[id].state = "EXECUTED" /\ proposals[id].action.kind \in PolicyKinds

\* An executed policy proposal is not about a target, so it is never reclaimed.
LEMMA PolicyStays ==
    ASSUME TypeOK, [Next]_vars, NEW id \in DOMAIN proposals, PolicyDone(id)
    PROVE  id \in DOMAIN proposals' /\ proposals'[id] = proposals[id]
<1>1. ASSUME NEW t \in Targets, NEW ids \in SUBSET DOMAIN proposals,
             NEW withGate \in BOOLEAN, ReclaimRecords(t, ids, withGate)
      PROVE  id \in DOMAIN proposals'
  BY <1>1 DEF ReclaimRecords, Without, HasExplicitTarget, PolicyDone, PolicyKinds, TargetKinds
<1>2. ASSUME NEW other \in DOMAIN proposals, ProposalStep(other)
      PROVE  id \in DOMAIN proposals'
  <2>1. (\E q : SaveProposal(other, q)) \/ UNCHANGED proposals
    BY <1>2
    DEF ProposalStep, SealBuffer, VerifyChunk, Approve, Cancel, Expire, CloseBuffer, ExecuteStep,
        ExecuteSetTiming, ExecuteRotateCouncil, ExecuteControllerUpgrade, ExecuteTargetUpgrade,
        Install, ExecuteTargetGate, ExecuteSpreadLightConfig, PublishVerification, RetireTarget
  <2> QED
    BY <2>1 DEF SaveProposal
<1>3. \/ DOMAIN proposals \subseteq DOMAIN proposals'
      \/ \E other \in DOMAIN proposals : ProposalStep(other)
      \/ \E t \in Targets, ids \in SUBSET DOMAIN proposals, withGate \in BOOLEAN :
            ReclaimRecords(t, ids, withGate)
  BY DEF Next, CouncilStep, CleanupStep, EnvironmentStep, vars, Initialize, RegisterTarget,
         Create, With, ReclaimVerification, Tick, Upload, HandOver, Withdraw, ExtendProgram
<1>4. id \in DOMAIN proposals'
  BY <1>1, <1>2, <1>3
<1> QED
  BY <1>4, SettledStays DEF PolicyDone

\* A policy proposal is executed only by its own instruction.
LEMMA PolicyComes ==
    ASSUME TypeOK, [Next]_vars, NEW id \in DOMAIN proposals', PolicyDone(id)'
    PROVE  /\ id \in DOMAIN proposals
           /\ \/ proposals'[id] = proposals[id]
              \/ ExecuteSetTiming(id)
              \/ ExecuteRotateCouncil(id)
<1>1. id \in DOMAIN proposals
  BY NewIsPending DEF PolicyDone
<1>2. CASE proposals[id].state = "PENDING" /\ proposals'[id].action = proposals[id].action
  <2>1. ExecuteStep(id)
    BY <1>1, <1>2, ExecutesLemma DEF Executes, PolicyDone
  <2>2. proposals[id].action.kind \in PolicyKinds
    BY <1>2 DEF PolicyDone
  <2> QED
    BY <1>1, <2>1, <2>2
    DEF ExecuteStep, ExecuteControllerUpgrade, ReleaseScope, ExecuteTargetUpgrade, GateScope,
        ExecuteTargetGate, ExecuteSpreadLightConfig, PublishVerification, RetireTarget, PolicyKinds
<1> QED
  BY <1>1, <1>2, SettledStays

\* The three parts of PolicyInForce.
TimingInForce ==
    \/ config.timing_version = 1 /\ config.timing = DefaultTiming
    \/ \E id \in DOMAIN proposals :
          /\ PolicyDone(id) /\ proposals[id].action.kind = "SET_TIMING"
          /\ proposals[id].timing_version = config.timing_version - 1
          /\ proposals[id].action.timing = config.timing

CouncilInForce ==
    \/ config.council_epoch = 1 /\ config.seats \in Councils
    \/ \E id \in DOMAIN proposals :
          /\ PolicyDone(id) /\ proposals[id].action.kind = "ROTATE_COUNCIL"
          /\ proposals[id].council_epoch = config.council_epoch - 1
          /\ proposals[id].action.seats = config.seats

Apart(id, other) ==
    (/\ PolicyDone(id) /\ PolicyDone(other)
     /\ proposals[id].action.kind = proposals[other].action.kind) =>
          IF proposals[id].action.kind = "SET_TIMING"
          THEN proposals[id].timing_version # proposals[other].timing_version
          ELSE proposals[id].council_epoch # proposals[other].council_epoch

PoliciesApart == \A id, other \in DOMAIN proposals : id # other => Apart(id, other)

\* A version or an epoch that a proposal was executed against is behind.
VersionPast(id) ==
    PolicyDone(id) =>
        IF proposals[id].action.kind = "SET_TIMING"
        THEN proposals[id].timing_version < config.timing_version
        ELSE proposals[id].council_epoch < config.council_epoch

VersionsPast == \A id \in DOMAIN proposals : VersionPast(id)

LEMMA PolicyParts ==
    (config.initialized => TimingInForce /\ CouncilInForce /\ PoliciesApart) => PolicyInForce
<1> SUFFICES ASSUME config.initialized, TimingInForce, CouncilInForce, PoliciesApart
             PROVE  PolicyInForce
  BY DEF PolicyInForce
<1>1. \/ config.timing_version = 1 /\ config.timing = DefaultTiming
      \/ \E id \in DOMAIN proposals :
            LET p == proposals[id] IN
            /\ p.state = "EXECUTED" /\ p.action.kind = "SET_TIMING"
            /\ p.timing_version = config.timing_version - 1
            /\ p.action.timing = config.timing
  BY DEF TimingInForce, PolicyDone
<1>2. \/ config.council_epoch = 1 /\ config.seats \in Councils
      \/ \E id \in DOMAIN proposals :
            LET p == proposals[id] IN
            /\ p.state = "EXECUTED" /\ p.action.kind = "ROTATE_COUNCIL"
            /\ p.council_epoch = config.council_epoch - 1
            /\ p.action.seats = config.seats
  BY DEF CouncilInForce, PolicyDone
<1>3. ASSUME NEW id \in DOMAIN proposals, NEW other \in DOMAIN proposals, id # other,
             proposals[id].state = "EXECUTED", proposals[other].state = "EXECUTED",
             proposals[id].action.kind = proposals[other].action.kind
      PROVE  /\ proposals[id].action.kind = "SET_TIMING" =>
                   proposals[id].timing_version # proposals[other].timing_version
             /\ proposals[id].action.kind = "ROTATE_COUNCIL" =>
                   proposals[id].council_epoch # proposals[other].council_epoch
  BY <1>3 DEF PoliciesApart, Apart, PolicyDone, PolicyKinds
<1> QED
  BY <1>1, <1>2, <1>3 DEF PolicyInForce

\* The inductive invariant: before Initialize there is nothing to explain, and
\* afterwards no executed policy proposal holds the version now in force.
PolicyInv ==
    /\ TypeOK
    /\ config.initialized => TimingInForce /\ CouncilInForce
    /\ PoliciesApart
    /\ VersionsPast

\* Carrying out one policy proposal: the others stay, and it joins them with
\* the version that was in force until now.
LEMMA PolicyExecuted ==
    ASSUME PolicyInv, TypeOK', NEW id \in DOMAIN proposals,
           ExecuteSetTiming(id) \/ ExecuteRotateCouncil(id)
    PROVE  PolicyInv'
<1> DEFINE p == proposals[id]
           q == Executed(p, slot)
<1>a. /\ TypeOK /\ ProposalsOK /\ p \in Proposal /\ slot \in U64
      /\ config \in Config /\ config.initialized
      /\ config.timing_version \in Nat /\ config.council_epoch \in Nat
  BY SlotLemma, TimingAssumption DEF PolicyInv, TypeOK, ProposalsOK, ConfigOK, Config, U64
<1>b. q \in Proposal /\ SaveProposal(id, q)
  BY <1>a DEF Executed, Proposal, States, ExecuteSetTiming, ExecuteRotateCouncil
<1>c. /\ DOMAIN proposals' = DOMAIN proposals
      /\ proposals'[id] = q
      /\ \A x \in DOMAIN proposals : x # id => proposals'[x] = proposals[x]
  BY <1>a, <1>b, SaveLemma
<1>d. /\ q.state = "EXECUTED" /\ q.action = p.action
      /\ q.timing_version = p.timing_version /\ q.council_epoch = p.council_epoch
      /\ p.state = "PENDING"
  BY <1>a DEF Executed, Proposal, ExecuteSetTiming, ExecuteRotateCouncil, Executable, Current
<1>e. PolicyDone(id)' /\ ~ PolicyDone(id)
  BY <1>c, <1>d DEF PolicyDone, PolicyKinds, ExecuteSetTiming, ExecuteRotateCouncil
<1>f. \A x \in DOMAIN proposals : x # id => (PolicyDone(x)' <=> PolicyDone(x))
  BY <1>c DEF PolicyDone
<1>g. \A x \in DOMAIN proposals :
         proposals[x].timing_version \in Nat /\ proposals[x].council_epoch \in Nat
  BY <1>a, TimingAssumption DEF ProposalsOK, Proposal, U64
<1>1. CASE ExecuteSetTiming(id)
  <2>1. /\ p.action.kind = "SET_TIMING" /\ p.timing_version = config.timing_version
        /\ config'.timing = p.action.timing
        /\ config'.timing_version = config.timing_version + 1
        /\ config'.seats = config.seats
        /\ config'.council_epoch = config.council_epoch
    BY <1>1, <1>a DEF ExecuteSetTiming, SameTimingVersion, Config
  <2>2. TimingInForce'
    BY <1>a, <1>c, <1>d, <1>e, <2>1 DEF TimingInForce
  <2>3. CouncilInForce'
    BY <1>a, <1>c, <1>e, <1>f, <2>1 DEF PolicyInv, CouncilInForce
  <2>4. PoliciesApart'
    BY <1>c, <1>d, <1>e, <1>f, <1>g, <2>1
    DEF PolicyInv, PoliciesApart, Apart, VersionsPast, VersionPast
  <2>5. VersionsPast'
    BY <1>a, <1>c, <1>d, <1>f, <1>g, <2>1 DEF PolicyInv, VersionsPast, VersionPast
  <2> QED
    BY <2>2, <2>3, <2>4, <2>5 DEF PolicyInv
<1>2. CASE ExecuteRotateCouncil(id)
  <2>1. /\ p.action.kind = "ROTATE_COUNCIL" /\ p.council_epoch = config.council_epoch
        /\ config'.seats = p.action.seats
        /\ config'.council_epoch = config.council_epoch + 1
        /\ config'.timing = config.timing
        /\ config'.timing_version = config.timing_version
    BY <1>2, <1>a DEF ExecuteRotateCouncil, Rotated, Executable, Current, Config
  <2>2. TimingInForce'
    BY <1>a, <1>c, <1>e, <1>f, <2>1 DEF PolicyInv, TimingInForce
  <2>3. CouncilInForce'
    BY <1>a, <1>c, <1>d, <1>e, <2>1 DEF CouncilInForce
  <2>4. PoliciesApart'
    BY <1>c, <1>d, <1>e, <1>f, <1>g, <2>1
    DEF PolicyInv, PoliciesApart, Apart, VersionsPast, VersionPast, PolicyDone, PolicyKinds
  <2>5. VersionsPast'
    BY <1>a, <1>c, <1>d, <1>f, <1>g, <2>1 DEF PolicyInv, VersionsPast, VersionPast
  <2> QED
    BY <2>2, <2>3, <2>4, <2>5 DEF PolicyInv
<1> QED
  BY <1>1, <1>2

\* Every other step leaves the policy and the executed policy proposals alone.
LEMMA StepPolicy ==
    ASSUME PolicyInv, [Next]_vars
    PROVE  PolicyInv'
<1>a. TypeOK /\ TypeOK' /\ config \in Config
  BY ProposalStepType, OtherStepType DEF PolicyInv, TypeOK, ConfigOK
<1>1. ASSUME NEW seats \in Councils, Initialize(seats)
      PROVE  PolicyInv'
  <2>1. /\ ~ config.initialized /\ UNCHANGED proposals
        /\ config'.timing_version = 1 /\ config'.timing = DefaultTiming
        /\ config'.council_epoch = 1 /\ config'.seats \in Councils
    BY <1>1 DEF Initialize
  <2>2. DOMAIN proposals' = {}
    BY <1>a, <2>1 DEF TypeOK, ConfigOK
  <2> QED
    BY <1>a, <2>1, <2>2
    DEF PolicyInv, TimingInForce, CouncilInForce, PoliciesApart, VersionsPast
<1>2. CASE \E id \in DOMAIN proposals : ExecuteSetTiming(id) \/ ExecuteRotateCouncil(id)
  BY <1>2, <1>a, PolicyExecuted
<1>3. CASE /\ \A id \in DOMAIN proposals : ~ ExecuteSetTiming(id) /\ ~ ExecuteRotateCouncil(id)
           /\ \A seats \in Councils : ~ Initialize(seats)
  <2>1. /\ config'.initialized = config.initialized
        /\ config'.timing_version = config.timing_version /\ config'.timing = config.timing
        /\ config'.council_epoch = config.council_epoch /\ config'.seats = config.seats
    <3>1. UNCHANGED config \/ \E a \in Offered : Create(a)
      BY <1>3
      DEF Next, CouncilStep, CleanupStep, EnvironmentStep, vars, RegisterTarget, ProposalStep,
          SealBuffer, VerifyChunk, Approve, Cancel, Expire, CloseBuffer, ExecuteStep,
          ExecuteControllerUpgrade, ExecuteTargetUpgrade, ExecuteTargetGate,
          ExecuteSpreadLightConfig, PublishVerification, RetireTarget, ReclaimRecords,
          ReclaimVerification, Tick, Upload, HandOver, Withdraw, ExtendProgram
    <3> QED
      BY <3>1, <1>a DEF Create, Config
  <2>2. \A id \in DOMAIN proposals :
           PolicyDone(id) => /\ id \in DOMAIN proposals' /\ proposals'[id] = proposals[id]
                             /\ PolicyDone(id)'
    BY <1>a, PolicyStays DEF PolicyDone
  <2>3. \A id \in DOMAIN proposals' :
           PolicyDone(id)' => /\ id \in DOMAIN proposals /\ proposals'[id] = proposals[id]
                              /\ PolicyDone(id)
    BY <1>3, <1>a, PolicyComes DEF PolicyDone
  <2>4. TimingInForce => TimingInForce'
    BY <2>1, <2>2 DEF TimingInForce
  <2>5. CouncilInForce => CouncilInForce'
    BY <2>1, <2>2 DEF CouncilInForce
  <2>6. PoliciesApart'
    BY <2>3 DEF PolicyInv, PoliciesApart, Apart
  <2>7. VersionsPast'
    BY <2>1, <2>3 DEF PolicyInv, VersionsPast, VersionPast
  <2> QED
    BY <1>a, <2>1, <2>4, <2>5, <2>6, <2>7 DEF PolicyInv
<1> QED
  BY <1>1, <1>2, <1>3

\* The timing and the council in force are those of the last executed policy
\* proposal, and no two were executed against the same version or epoch
\* (execute_policy), for every council and every agenda.
THEOREM PolicyTheorem == Spec => []PolicyInForce
<1>1. Init => PolicyInv
  BY InitType DEF Init, PolicyInv, PoliciesApart, VersionsPast
<1>2. PolicyInv /\ [Next]_vars => PolicyInv'
  BY StepPolicy
<1>3. PolicyInv => PolicyInForce
  BY PolicyParts DEF PolicyInv
<1> QED
  BY <1>1, <1>2, <1>3, PTL DEF Spec

-------------------------------------------------------------------------------
(* Self-upgrades and the release they are voted for *)

\* Every self-upgrade on an agenda installs a newer release than the one it is
\* voted under. The code does not ask for it: upgrade_scope compares releases
\* for equality only.
ForwardReleases ==
    /\ ReleaseOf \in [Contents -> Nat]
    /\ \A a \in Offered : a.kind = "UPGRADE_CONTROLLER" =>
          a.release \in Nat /\ a.release < ReleaseOf[a.artifact]

SelfUpgrade(id) == proposals[id].action.kind = "UPGRADE_CONTROLLER"

\* The running release changes only when a self-upgrade is executed, to that of
\* its artifact.
LEMMA RunningMoves ==
    ASSUME TypeOK, VerifiedMatchesBuffer, [Next]_vars
    PROVE  \/ RunningRelease' = RunningRelease
           \/ \E id \in DOMAIN proposals :
                 /\ ExecuteControllerUpgrade(id) /\ Executes(id) /\ SelfUpgrade(id)
                 /\ proposals[id].action.release = RunningRelease
                 /\ RunningRelease' = ReleaseOf[proposals[id].action.artifact]
<1>1. Controller \in Programs
  BY DEF Programs
<1>2. CASE programs'[Controller].image = programs[Controller].image
  BY <1>2 DEF RunningRelease
<1>3. CASE programs'[Controller].image # programs[Controller].image
  <2>1. Installs
    BY StepInstalls
  <2>2. PICK id \in DOMAIN proposals :
           /\ Executes(id) /\ IsUpgrade(proposals[id].action)
           /\ UpgradedProgram(proposals[id].action) = Controller
    BY <1>1, <1>3, <2>1 DEF Installs
  <2>3. programs'[Controller].image = proposals[id].action.artifact
    BY <2>1, <2>2 DEF Installs
  <2>4. ExecuteStep(id)
    BY <2>2, ExecutesLemma
  <2>5. ~ ExecuteTargetUpgrade(id)
    BY <2>2, BoundsAssumption
    DEF ExecuteTargetUpgrade, GateScope, UpgradedProgram, TypeOK, GatesOK
  <2>6. ExecuteControllerUpgrade(id)
    BY <2>2, <2>4, <2>5
    DEF ExecuteStep, ExecuteSetTiming, ExecuteRotateCouncil, ExecuteTargetGate,
        ExecuteSpreadLightConfig, PublishVerification, RetireTarget, IsUpgrade, UpgradeKinds
  <2> QED
    BY <2>2, <2>3, <2>6 DEF ExecuteControllerUpgrade, ReleaseScope, SelfUpgrade, RunningRelease
<1> QED
  BY <1>2, <1>3

\* With forward releases it never returns to an earlier one.
LEMMA RunningGrows ==
    ASSUME ForwardReleases, TypeOK, VerifiedMatchesBuffer, [Next]_vars
    PROVE  /\ RunningRelease \in Nat /\ RunningRelease' \in Nat
           /\ RunningRelease <= RunningRelease'
           /\ \/ RunningRelease' = RunningRelease
              \/ RunningRelease < RunningRelease'
<1>1. Controller \in Programs
  BY DEF Programs
<1>2. TypeOK'
  BY ProposalStepType, OtherStepType
<1>3. programs[Controller].image \in Contents /\ programs'[Controller].image \in Contents
  BY <1>1, <1>2 DEF TypeOK, ProgramsOK, Program
<1>4. RunningRelease \in Nat /\ RunningRelease' \in Nat
  BY <1>3 DEF RunningRelease, ForwardReleases
<1>5. ASSUME NEW id \in DOMAIN proposals, SelfUpgrade(id),
             proposals[id].action.release = RunningRelease,
             RunningRelease' = ReleaseOf[proposals[id].action.artifact]
      PROVE  RunningRelease < RunningRelease'
  <2>1. proposals[id].action \in Offered
    BY DEF TypeOK, ProposalsOK, Proposal
  <2> QED
    BY <1>5, <2>1 DEF ForwardReleases, SelfUpgrade
<1> QED
  BY <1>4, <1>5, RunningMoves

\* A new proposal is the record that Create writes.
LEMMA NewIsCreated ==
    ASSUME TypeOK, [Next]_vars, NEW id \in DOMAIN proposals', id \notin DOMAIN proposals
    PROVE  \E a \in Offered : Create(a) /\ proposals'[id] = NewProposal(config, a, slot)
<1>1. ASSUME NEW a \in Offered, Create(a)
      PROVE  proposals'[id] = NewProposal(config, a, slot)
  BY <1>1 DEF Create, FreshId, With
<1>2. ASSUME NEW other \in DOMAIN proposals, ProposalStep(other)
      PROVE  FALSE
  <2>1. (\E q : SaveProposal(other, q)) \/ UNCHANGED proposals
    BY <1>2
    DEF ProposalStep, SealBuffer, VerifyChunk, Approve, Cancel, Expire, CloseBuffer, ExecuteStep,
        ExecuteSetTiming, ExecuteRotateCouncil, ExecuteControllerUpgrade, ExecuteTargetUpgrade,
        Install, ExecuteTargetGate, ExecuteSpreadLightConfig, PublishVerification, RetireTarget
  <2> QED
    BY <2>1 DEF SaveProposal
<1>3. \/ DOMAIN proposals' \subseteq DOMAIN proposals
      \/ \E a \in Offered : Create(a)
      \/ \E other \in DOMAIN proposals : ProposalStep(other)
  BY DEF Next, CouncilStep, CleanupStep, EnvironmentStep, vars, Initialize, RegisterTarget,
         ReclaimRecords, Without, ReclaimVerification, Tick, Upload, HandOver, Withdraw,
         ExtendProgram
<1> QED
  BY <1>1, <1>2, <1>3

\* The slot a proposal was created in never changes; it is stamped with the
\* current slot when it is executed, and with no other.
LEMMA StampStays ==
    ASSUME TypeOK, [Next]_vars, NEW id \in DOMAIN proposals, id \in DOMAIN proposals'
    PROVE  /\ proposals'[id].created = proposals[id].created
           /\ \/ proposals'[id].executed_slot = proposals[id].executed_slot
              \/ proposals'[id].executed_slot = slot
<1>a. proposals \in [DOMAIN proposals -> Proposal]
  BY DEF TypeOK, ProposalsOK
<1> DEFINE Stamped(q, p) ==
             /\ q.created = p.created
             /\ q.executed_slot = p.executed_slot \/ q.executed_slot = slot
<1>1. ASSUME NEW other \in DOMAIN proposals, ProposalStep(other)
      PROVE  Stamped(proposals'[id], proposals[id])
  <2> DEFINE p == proposals[other]
  <2>a. p \in Proposal
    BY <1>a
  <2>1. ASSUME NEW q, SaveProposal(other, q), Stamped(q, p)
        PROVE  Stamped(proposals'[id], proposals[id])
    BY <2>1, <1>a DEF SaveProposal
  <2>2. CASE SealBuffer(other) \/ CloseBuffer(other)
    BY <2>2 DEF SealBuffer, CloseBuffer
  <2>3. ASSUME NEW index \in 1 .. MAX_CHUNKS, VerifyChunk(other, index)
        PROVE  Stamped(proposals'[id], proposals[id])
    <3>1. Stamped(Marked(p, index), p)
      BY <2>a DEF Marked, Proposal
    <3> QED
      BY <2>1, <2>3, <3>1 DEF VerifyChunk
  <2>4. ASSUME NEW index \in Seats, Approve(other, index)
        PROVE  Stamped(proposals'[id], proposals[id])
    <3>1. Stamped(Approved(p, index), p)
      BY <2>a DEF Approved, Proposal
    <3> QED
      BY <2>1, <2>4, <3>1 DEF Approve
  <2>5. ASSUME NEW index \in Seats, Cancel(other, index)
        PROVE  Stamped(proposals'[id], proposals[id])
    <3>1. Stamped(Cancelled(p, index), p)
      BY <2>a DEF Cancelled, Proposal
    <3> QED
      BY <2>1, <2>5, <3>1 DEF Cancel
  <2>6. CASE Expire(other)
    <3>1. Stamped(Expired(p), p)
      BY <2>a DEF Expired, Proposal
    <3> QED
      BY <2>1, <2>6, <3>1 DEF Expire
  <2>7. CASE ExecuteStep(other)
    <3>1. SaveProposal(other, Executed(p, slot))
      BY <2>7 DEF ExecuteStep, ExecuteSetTiming, ExecuteRotateCouncil, ExecuteControllerUpgrade,
                  ExecuteTargetUpgrade, Install, ExecuteTargetGate, ExecuteSpreadLightConfig,
                  PublishVerification, RetireTarget
    <3>2. Stamped(Executed(p, slot), p)
      BY <2>a DEF Executed, Proposal
    <3> QED
      BY <2>1, <3>1, <3>2
  <2> QED
    BY <1>1, <2>2, <2>3, <2>4, <2>5, <2>6, <2>7 DEF ProposalStep
<1>2. CASE proposals'[id] = proposals[id]
  BY <1>2
<1>3. \/ proposals'[id] = proposals[id]
      \/ \E other \in DOMAIN proposals : ProposalStep(other)
  <2>1. ASSUME NEW a \in Offered, Create(a)
        PROVE  proposals'[id] = proposals[id]
    BY <2>1 DEF Create, FreshId, With
  <2>2. ASSUME NEW t \in Targets, NEW ids \in SUBSET DOMAIN proposals,
               NEW withGate \in BOOLEAN, ReclaimRecords(t, ids, withGate)
        PROVE  proposals'[id] = proposals[id]
    BY <2>2 DEF ReclaimRecords, Without
  <2>3. \/ UNCHANGED proposals
        \/ \E a \in Offered : Create(a)
        \/ \E other \in DOMAIN proposals : ProposalStep(other)
        \/ \E t \in Targets, ids \in SUBSET DOMAIN proposals, withGate \in BOOLEAN :
              ReclaimRecords(t, ids, withGate)
    BY DEF Next, CouncilStep, CleanupStep, EnvironmentStep, vars, Initialize, RegisterTarget,
           ReclaimVerification, Tick, Upload, HandOver, Withdraw, ExtendProgram
  <2> QED
    BY <2>1, <2>2, <2>3
<1> QED
  BY <1>1, <1>2, <1>3

LEMMA SlotGrows ==
    ASSUME TypeOK, [Next]_vars
    PROVE  slot <= slot'
<1>1. slot \in Nat
  BY SlotLemma
<1>2. slot' = slot \/ slot' = slot + 1
  BY DEF Next, CouncilStep, CleanupStep, EnvironmentStep, vars, Initialize, RegisterTarget,
         Create, ProposalStep, SealBuffer, VerifyChunk, Approve, Cancel, Expire, CloseBuffer,
         ExecuteStep, ExecuteSetTiming, ExecuteRotateCouncil, ExecuteControllerUpgrade,
         ExecuteTargetUpgrade, ExecuteTargetGate, ExecuteSpreadLightConfig,
         PublishVerification, RetireTarget, ReclaimRecords, ReclaimVerification, Tick, Upload,
         HandOver, Withdraw, ExtendProgram
<1> QED
  BY <1>1, <1>2

\* A self-upgrade that is executed moves the running release past its own.
LEMMA SelfUpgradeMoves ==
    ASSUME ForwardReleases, TypeOK, VerifiedMatchesBuffer, [Next]_vars,
           NEW id \in DOMAIN proposals, Executes(id), SelfUpgrade(id)
    PROVE  /\ proposals[id].action.release = RunningRelease
           /\ RunningRelease < RunningRelease'
<1>1. proposals[id].action \in Offered
  BY DEF TypeOK, ProposalsOK, Proposal
<1>2. ExecuteControllerUpgrade(id)
  BY ExecutesLemma
  DEF SelfUpgrade, ExecuteStep, ExecuteSetTiming, ExecuteRotateCouncil, ExecuteTargetUpgrade,
      GateScope, ExecuteTargetGate, ExecuteSpreadLightConfig, PublishVerification, RetireTarget
<1>3. programs'[Controller].image = proposals[id].action.artifact
  BY StepInstalls DEF Installs, SelfUpgrade, IsUpgrade, UpgradeKinds, UpgradedProgram
<1> QED
  BY <1>1, <1>2, <1>3
  DEF ExecuteControllerUpgrade, ReleaseScope, ForwardReleases, SelfUpgrade, RunningRelease

\* Execution stamps never lie ahead.
StampsPast == \A id \in DOMAIN proposals : proposals[id].executed_slot <= slot

\* No self-upgrade was voted under a release that does not run yet.
ReleasesPast ==
    \A id \in DOMAIN proposals :
        SelfUpgrade(id) => proposals[id].action.release <= RunningRelease

\* One voted under the running release is younger than every executed one.
RunningIsYoung ==
    \A id, other \in DOMAIN proposals :
        (/\ SelfUpgrade(id) /\ proposals[id].action.release = RunningRelease
         /\ SelfUpgrade(other) /\ proposals[other].state = "EXECUTED")
              => proposals[other].executed_slot <= proposals[id].created

ReleaseInv == StampsPast /\ ReleasesPast /\ RunningIsYoung

LEMMA StepReleases ==
    ASSUME ForwardReleases, TypeOK, VerifiedMatchesBuffer, ReleaseInv, [Next]_vars
    PROVE  ReleaseInv'
<1>a. slot \in Nat /\ slot' \in Nat /\ slot <= slot' /\ TypeOK'
  <2>1. TypeOK'
    BY ProposalStepType, OtherStepType
  <2> QED
    BY <2>1, SlotGrows, BoundsAssumption, TimingAssumption DEF TypeOK, U64
<1>b. /\ \A id \in DOMAIN proposals :
            proposals[id].executed_slot \in Nat /\ proposals[id].created \in Nat
      /\ \A id \in DOMAIN proposals' :
            proposals'[id].executed_slot \in Nat /\ proposals'[id].created \in Nat
      /\ \A id \in DOMAIN proposals' : proposals'[id].action \in Offered
  BY <1>a, TimingAssumption DEF TypeOK, ProposalsOK, Proposal, U64
<1>c. /\ RunningRelease \in Nat /\ RunningRelease' \in Nat
      /\ RunningRelease <= RunningRelease'
  BY RunningGrows
<1>d. \A id \in DOMAIN proposals' : SelfUpgrade(id)' => proposals'[id].action.release \in Nat
  BY <1>b DEF SelfUpgrade, ForwardReleases
<1>e. ASSUME NEW id \in DOMAIN proposals', id \notin DOMAIN proposals
      PROVE  /\ proposals'[id].created = slot
             /\ proposals'[id].executed_slot = 0
             /\ proposals'[id].state = "PENDING"
             /\ SelfUpgrade(id)' => proposals'[id].action.release = RunningRelease
  <2>1. PICK a \in Offered : Create(a) /\ proposals'[id] = NewProposal(config, a, slot)
    BY <1>e, NewIsCreated
  <2> QED
    BY <2>1 DEF Create, NewProposal, SelfUpgrade
<1>f. ASSUME NEW id \in DOMAIN proposals', id \in DOMAIN proposals
      PROVE  /\ proposals'[id].created = proposals[id].created
             /\ proposals'[id].executed_slot <= slot
             /\ proposals'[id].action = proposals[id].action
  BY <1>a, <1>f, StampStays, SettledStays DEF ReleaseInv, StampsPast
<1>1. StampsPast'
  BY <1>a, <1>b, <1>e, <1>f DEF StampsPast
<1>2. ReleasesPast'
  <2> SUFFICES ASSUME NEW id \in DOMAIN proposals', SelfUpgrade(id)'
               PROVE  proposals'[id].action.release <= RunningRelease'
    BY DEF ReleasesPast
  <2>1. CASE id \notin DOMAIN proposals
    BY <2>1, <1>c, <1>e
  <2>2. CASE id \in DOMAIN proposals
    <3>1. proposals[id].action.release <= RunningRelease
      BY <2>2, <1>f DEF ReleaseInv, ReleasesPast, SelfUpgrade
    <3> QED
      BY <2>2, <3>1, <1>c, <1>d, <1>f
  <2> QED
    BY <2>1, <2>2
<1>3. RunningIsYoung'
  <2> SUFFICES ASSUME NEW id \in DOMAIN proposals', NEW other \in DOMAIN proposals',
                      SelfUpgrade(id)', proposals'[id].action.release = RunningRelease',
                      SelfUpgrade(other)', proposals'[other].state = "EXECUTED"
               PROVE  proposals'[other].executed_slot <= proposals'[id].created
    BY DEF RunningIsYoung
  <2>1. other \in DOMAIN proposals
    BY <1>e
  <2>2. CASE id \notin DOMAIN proposals
    BY <2>1, <2>2, <1>e, <1>f
  <2>3. CASE id \in DOMAIN proposals
    <3>1. proposals[id].action.release <= RunningRelease
      BY <2>3, <1>f DEF ReleaseInv, ReleasesPast, SelfUpgrade
    <3>2. RunningRelease' = RunningRelease
      BY <2>3, <3>1, <1>c, <1>d, <1>f
    <3>3. ~ Executes(other)
      BY <2>1, <3>2, <1>c, <1>f, SelfUpgradeMoves DEF SelfUpgrade
    <3>4. proposals'[other] = proposals[other]
      BY <2>1, <3>3, SettledStays DEF Executes
    <3> QED
      BY <2>1, <2>3, <3>2, <3>4, <1>f DEF ReleaseInv, RunningIsYoung, SelfUpgrade
  <2> QED
    BY <2>2, <2>3
<1> QED
  BY <1>1, <1>2, <1>3 DEF ReleaseInv

\* As long as every self-upgrade goes forward, comparing release numbers is
\* enough: between the creation of a self-upgrade and its execution no other
\* was installed (upgrade_scope).
THEOREM SelfUpgradeTheorem ==
    ASSUME ForwardReleases
    PROVE  Spec => NoInterveningSelfUpgrade
<1> DEFINE Inv == TypeOK /\ VerifiedMatchesBuffer /\ ReleaseInv
           Young == \A id \in DOMAIN proposals :
              Executes(id) /\ proposals[id].action.kind = "UPGRADE_CONTROLLER" =>
                 \A other \in DOMAIN proposals :
                    LET q == proposals[other] IN
                    q.state = "EXECUTED" /\ q.action.kind = "UPGRADE_CONTROLLER"
                       => q.executed_slot <= proposals[id].created
<1>1. Init => ReleaseInv
  BY DEF Init, ReleaseInv, StampsPast, ReleasesPast, RunningIsYoung
<1>2. TypeOK /\ VerifiedMatchesBuffer /\ ReleaseInv /\ [Next]_vars => ReleaseInv'
  BY StepReleases
<1>3. Inv /\ [Next]_vars => Young
  BY SelfUpgradeMoves DEF ReleaseInv, RunningIsYoung, SelfUpgrade
<1>4. Inv /\ [Next]_vars => [Young]_vars
  BY <1>3
<1> QED
  BY <1>1, <1>2, <1>4, TypeCorrect, VerifiedTheorem, PTL DEF Spec, NoInterveningSelfUpgrade

-------------------------------------------------------------------------------
(* Verification records *)

\* A release supports the programs of the one it replaces, and of each it either keeps the
\* recipe together with the older one it recognises, or changes the recipe and recognises the
\* one it replaces. Two releases further apart may have no recipe in common.
RecipesInherited ==
    \A a \in Offered, p \in Programs :
        LET r == a.release
            s == ReleaseOf[a.artifact] IN
        a.kind = "UPGRADE_CONTROLLER" /\ Recipe[r][p] # 0 =>
            /\ Recipe[s][p] # 0
            /\ IF Recipe[s][p] = Recipe[r][p]
               THEN PreviousRecipe[s][p] = PreviousRecipe[r][p]
               ELSE p # Controller /\ PreviousRecipe[s][p] = Recipe[r][p]

RecordsSupported == \A p \in DOMAIN metadata : Recipe[RunningRelease][p] # 0

RecordsAccepted == \A p \in DOMAIN metadata : RecordAccepted(p)

\* A record becomes unwritable only when the recipe changes while the record still is of an
\* older recipe than the running one.
StrandsOnlyOutdated ==
    \A p \in DOMAIN metadata \cap DOMAIN metadata' :
        RecordAccepted(p) /\ ~ RecordAccepted(p)' =>
            /\ Recipe[RunningRelease'][p] # Recipe[RunningRelease][p]
            /\ metadata[p].recipe # Recipe[RunningRelease][p]

\* Before a self-upgrade changes a recipe, the record was published under the running one.
PublishedBeforeChange ==
    \A p \in DOMAIN metadata :
        Recipe[RunningRelease'][p] # Recipe[RunningRelease][p] =>
            metadata[p].recipe = Recipe[RunningRelease][p]

\* Publication writes the running recipe; no other step writes a record.
LEMMA RecordMoves ==
    ASSUME TypeOK, [Next]_vars, NEW p \in DOMAIN metadata'
    PROVE  \/ p \in DOMAIN metadata /\ metadata'[p] = metadata[p]
           \/ /\ RunningRelease' = RunningRelease
              /\ Recipe[RunningRelease][p] # 0
              /\ metadata'[p].recipe = Recipe[RunningRelease][p]
<1>1. ASSUME NEW id \in DOMAIN proposals, PublishVerification(id)
      PROVE  \/ p \in DOMAIN metadata /\ metadata'[p] = metadata[p]
             \/ /\ RunningRelease' = RunningRelease
                /\ Recipe[RunningRelease][p] # 0
                /\ metadata'[p].recipe = Recipe[RunningRelease][p]
  <2> DEFINE t == proposals[id].action.target
  <2>1. PICK r : r.recipe = Recipe[RunningRelease][t] /\ metadata' = With(metadata, t, r)
    BY <1>1 DEF PublishVerification
  <2>2. Recipe[RunningRelease][t] # 0 /\ RunningRelease' = RunningRelease
    BY <1>1 DEF PublishVerification, RunningRelease
  <2>3. CASE p = t
    BY <2>1, <2>2, <2>3 DEF With
  <2>4. CASE p # t
    BY <2>1, <2>4 DEF With
  <2> QED
    BY <2>3, <2>4
<1>2. ASSUME NEW t \in Targets, ReclaimVerification(t)
      PROVE  p \in DOMAIN metadata /\ metadata'[p] = metadata[p]
  BY <1>2 DEF ReclaimVerification, Without
<1>3. \/ UNCHANGED metadata
      \/ \E id \in DOMAIN proposals : PublishVerification(id)
      \/ \E t \in Targets : ReclaimVerification(t)
  BY DEF Next, CouncilStep, CleanupStep, EnvironmentStep, vars, Initialize, RegisterTarget,
         Create, ProposalStep, SealBuffer, VerifyChunk, Approve, Cancel, Expire, CloseBuffer,
         ExecuteStep, ExecuteSetTiming, ExecuteRotateCouncil, ExecuteControllerUpgrade,
         ExecuteTargetUpgrade, ExecuteTargetGate, ExecuteSpreadLightConfig,
         RetireTarget, ReclaimRecords, Tick, Upload, HandOver, Withdraw, ExtendProgram
<1> QED
  BY <1>1, <1>2, <1>3

\* What a step makes of a recipe: only a self-upgrade changes it, to one that
\* the release it installs inherits.
LEMMA RecipeMoves ==
    ASSUME RecipesInherited, TypeOK, VerifiedMatchesBuffer, [Next]_vars,
           NEW p \in Programs, Recipe[RunningRelease][p] # 0
    PROVE  /\ Recipe[RunningRelease'][p] # 0
           /\ IF Recipe[RunningRelease'][p] = Recipe[RunningRelease][p]
              THEN PreviousRecipe[RunningRelease'][p] = PreviousRecipe[RunningRelease][p]
              ELSE p # Controller /\ PreviousRecipe[RunningRelease'][p] = Recipe[RunningRelease][p]
<1>1. CASE RunningRelease' = RunningRelease
  BY <1>1
<1>2. CASE \E id \in DOMAIN proposals :
             /\ SelfUpgrade(id)
             /\ proposals[id].action.release = RunningRelease
             /\ RunningRelease' = ReleaseOf[proposals[id].action.artifact]
  <2>1. PICK id \in DOMAIN proposals :
           /\ SelfUpgrade(id)
           /\ proposals[id].action.release = RunningRelease
           /\ RunningRelease' = ReleaseOf[proposals[id].action.artifact]
    BY <1>2
  <2>2. proposals[id].action \in Offered
    BY DEF TypeOK, ProposalsOK, Proposal
  <2> QED
    BY <2>1, <2>2 DEF RecipesInherited, SelfUpgrade
<1> QED
  BY <1>1, <1>2, RunningMoves

LEMMA StepSupported ==
    ASSUME RecipesInherited, TypeOK, VerifiedMatchesBuffer, RecordsSupported, [Next]_vars
    PROVE  RecordsSupported'
<1> SUFFICES ASSUME NEW p \in DOMAIN metadata'
             PROVE  Recipe[RunningRelease'][p] # 0
  BY DEF RecordsSupported
<1>1. CASE p \in DOMAIN metadata
  BY <1>1, RecipeMoves DEF RecordsSupported, TypeOK, RecordsOK
<1>2. CASE p \notin DOMAIN metadata
  BY <1>2, RecordMoves
<1> QED
  BY <1>1, <1>2

LEMMA StepStrands ==
    ASSUME RecipesInherited, TypeOK, VerifiedMatchesBuffer, RecordsSupported, [Next]_vars
    PROVE  StrandsOnlyOutdated
<1> SUFFICES ASSUME NEW p \in DOMAIN metadata, p \in DOMAIN metadata', RecordAccepted(p),
                    \/ Recipe[RunningRelease'][p] = Recipe[RunningRelease][p]
                    \/ metadata[p].recipe = Recipe[RunningRelease][p]
             PROVE  RecordAccepted(p)'
  BY DEF StrandsOnlyOutdated
<1>1. p \in Programs /\ Recipe[RunningRelease][p] # 0
  BY DEF TypeOK, RecordsOK, RecordsSupported
<1>2. CASE metadata'[p] = metadata[p]
  <2>1. CASE Recipe[RunningRelease'][p] = Recipe[RunningRelease][p]
    <3>1. PreviousRecipe[RunningRelease'][p] = PreviousRecipe[RunningRelease][p]
      BY <1>1, <2>1, RecipeMoves
    <3> QED
      BY <1>2, <2>1, <3>1 DEF RecordAccepted
  <2>2. CASE Recipe[RunningRelease'][p] # Recipe[RunningRelease][p]
    <3>1. p # Controller /\ PreviousRecipe[RunningRelease'][p] = Recipe[RunningRelease][p]
      BY <1>1, <2>2, RecipeMoves
    <3>2. metadata'[p].recipe = PreviousRecipe[RunningRelease'][p]
      BY <1>2, <2>2, <3>1
    <3> QED
      BY <1>1, <3>1, <3>2 DEF RecordAccepted
  <2> QED
    BY <2>1, <2>2
<1>3. CASE /\ RunningRelease' = RunningRelease
           /\ metadata'[p].recipe = Recipe[RunningRelease][p]
  BY <1>3 DEF RecordAccepted
<1> QED
  BY <1>2, <1>3, RecordMoves

LEMMA StepAccepted ==
    ASSUME TypeOK, RecordsAccepted, StrandsOnlyOutdated, PublishedBeforeChange, [Next]_vars
    PROVE  RecordsAccepted'
<1> SUFFICES ASSUME NEW p \in DOMAIN metadata'
             PROVE  RecordAccepted(p)'
  BY DEF RecordsAccepted
<1>1. CASE p \in DOMAIN metadata
  BY <1>1 DEF RecordsAccepted, StrandsOnlyOutdated, PublishedBeforeChange
<1>2. CASE p \notin DOMAIN metadata
  BY <1>2, RecordMoves DEF RecordAccepted
<1> QED
  BY <1>1, <1>2

\* publish_verification recognises the running release's recipe and one older one. However
\* many recipes a program has gone through, a record is lost to the controller only by a
\* self-upgrade that changes the recipe while the record still is of the one before; so
\* none is lost when each is published anew before its recipe changes again, which no code
\* asks for.
THEOREM RecordsWritableTheorem ==
    ASSUME RecipesInherited
    PROVE  Spec => /\ [][StrandsOnlyOutdated]_vars
                   /\ [][PublishedBeforeChange]_vars => []RecordsStayWritable
<1>1. Init => RecordsSupported /\ RecordsAccepted
  BY DEF Init, RecordsSupported, RecordsAccepted
<1>2. TypeOK /\ VerifiedMatchesBuffer /\ RecordsSupported /\ [Next]_vars => RecordsSupported'
  BY StepSupported
<1>3. TypeOK /\ VerifiedMatchesBuffer /\ RecordsSupported /\ [Next]_vars => StrandsOnlyOutdated
  BY StepStrands
<1>4. TypeOK /\ VerifiedMatchesBuffer /\ RecordsSupported /\ RecordsAccepted
         /\ [Next]_vars /\ [PublishedBeforeChange]_vars => RecordsAccepted'
  <2>1. UNCHANGED vars /\ RecordsAccepted => RecordsAccepted'
    BY DEF vars, RecordsAccepted, RecordAccepted, RunningRelease
  <2> QED
    BY <1>3, <2>1, StepAccepted
<1>5. RecordsAccepted => RecordsStayWritable
  BY DEF RecordsAccepted, RecordsStayWritable
<1>6. TypeOK /\ VerifiedMatchesBuffer /\ RecordsSupported /\ [Next]_vars
         => [StrandsOnlyOutdated]_vars
  BY <1>3
<1> QED
  BY <1>1, <1>2, <1>4, <1>5, <1>6, TypeCorrect, VerifiedTheorem, PTL DEF Spec

-------------------------------------------------------------------------------
(* Growth by a third party *)

\* Only ExtendProgram adds capacity; it leaves everything else about the
\* programs but their deployment slots alone.
LEMMA GrowthLemma ==
    ASSUME TypeOK, [Next]_vars, Grown
    PROVE  /\ UNCHANGED <<slot, config, proposals, gates, buffers>>
           /\ \A t \in Programs :
                 /\ programs'[t].image = programs[t].image
                 /\ programs'[t].closed = programs[t].closed
                 /\ programs'[t].authority = programs[t].authority
                 /\ programs'[t].capacity >= programs[t].capacity
<1>a. programs \in [Programs -> Program]
  BY DEF TypeOK, ProgramsOK
<1>b. \A t \in Programs : programs[t].capacity \in Nat
  BY <1>a DEF Program
<1> DEFINE Same == \A t \in Programs : programs'[t].capacity = programs[t].capacity
<1>1. ASSUME NEW id \in DOMAIN proposals, NEW program, Install(id, program)
      PROVE  Same
  BY <1>1, <1>a DEF Install, LoaderUpgrade, Program
<1>2. ASSUME NEW id \in DOMAIN proposals, RetireTarget(id)
      PROVE  Same
  BY <1>2, <1>a DEF RetireTarget, LoaderClose, Program
<1>3. ASSUME NEW t \in Targets, RegisterTarget(t)
      PROVE  Same
  BY <1>3, <1>a DEF RegisterTarget, Program
<1>4. ASSUME NEW seats \in Councils, Initialize(seats)
      PROVE  Same
  BY <1>4, <1>a DEF Initialize, Program
<1>5. ~ Same
  BY <1>b DEF Grown
<1>6. \/ UNCHANGED programs
      \/ \E seats \in Councils : Initialize(seats)
      \/ \E t \in Targets : RegisterTarget(t)
      \/ \E id \in DOMAIN proposals : RetireTarget(id) \/ \E program : Install(id, program)
      \/ \E x \in Programs : ExtendProgram(x)
  BY DEF Next, CouncilStep, CleanupStep, EnvironmentStep, vars, Create, ProposalStep,
         SealBuffer, VerifyChunk, Approve, Cancel, Expire, CloseBuffer, ExecuteStep,
         ExecuteSetTiming, ExecuteRotateCouncil, ExecuteControllerUpgrade,
         ExecuteTargetUpgrade, ExecuteTargetGate, ExecuteSpreadLightConfig,
         PublishVerification, ReclaimRecords, ReclaimVerification, Tick, Upload,
         HandOver, Withdraw
<1>7. PICK x \in Programs : ExtendProgram(x)
  BY <1>1, <1>2, <1>3, <1>4, <1>5, <1>6
<1>8. \A t \in Programs :
         /\ programs'[t].image = programs[t].image
         /\ programs'[t].closed = programs[t].closed
         /\ programs'[t].authority = programs[t].authority
         /\ programs'[t].capacity = programs[t].capacity
               \/ programs'[t].capacity = programs[t].capacity + 1
  BY <1>a, <1>7 DEF ExtendProgram, Program
<1>9. \A t \in Programs : programs'[t].capacity >= programs[t].capacity
  BY <1>b, <1>8
<1>10. UNCHANGED <<slot, config, proposals, gates, buffers>>
  BY <1>7 DEF ExtendProgram
<1> QED
  BY <1>8, <1>9, <1>10

\* The installation checks survive growth: they ask for enough capacity, not
\* for the capacity the proposal was written against.
LEMMA GrowthKeepsInstall ==
    ASSUME TypeOK, [Next]_vars, Grown, NEW id \in DOMAIN proposals, NEW program \in Programs,
           IsUpgrade(proposals[id].action), InstallReady(id, program)
    PROVE  InstallReady(id, program)'
<1>1. /\ UNCHANGED <<slot, config, proposals, gates, buffers>>
      /\ programs'[program].closed = programs[program].closed
      /\ programs'[program].authority = programs[program].authority
      /\ programs'[program].capacity >= programs[program].capacity
  BY GrowthLemma
<1>2. TypeOK'
  BY ProposalStepType, OtherStepType
<1>3. programs[program].capacity \in Nat /\ programs'[program].capacity \in Nat
  BY <1>2 DEF TypeOK, ProgramsOK, Program
<1>4. proposals[id].action.artifact \in Seq(Chunks)
  BY OfferedAssumption, ContentsAssumption DEF TypeOK, ProposalsOK, Proposal
<1>5. Len(proposals[id].action.artifact) \in Nat
  BY <1>4
<1>6. (programs[program].capacity >= Len(proposals[id].action.artifact))'
  BY <1>1, <1>3, <1>5 DEF InstallReady
<1>7. Executable(proposals[id], config, slot)'
  BY <1>1 DEF InstallReady, Executable, Current
<1>8. Complete(proposals[id])' /\ Deployed(program)' /\ Sealed(id)'
  BY <1>1 DEF InstallReady, Complete, Deployed, Sealed
<1> QED
  BY <1>1, <1>6, <1>7, <1>8 DEF InstallReady

\* Whoever extends a program, an upgrade, gate or policy proposal that could be
\* executed still can be (execute_upgrade checks the live capacity).
THEOREM GrowthTheorem == Spec => GrowthKeepsUpgrades
<1> DEFINE Kinds == UpgradeKinds \cup PolicyKinds \cup {"SET_TARGET_GATE"}
           Kept == \A id \in DOMAIN proposals :
                      (/\ Grown
                       /\ proposals[id].action.kind \in UpgradeKinds \cup PolicyKinds \cup {"SET_TARGET_GATE"}
                       /\ Ready(id)) => Ready(id)'
<1>1. TypeOK /\ [Next]_vars => Kept
  <2> SUFFICES ASSUME TypeOK, [Next]_vars, Grown, NEW id \in DOMAIN proposals,
                      proposals[id].action.kind \in Kinds, Ready(id)
               PROVE  Ready(id)'
    OBVIOUS
  <2> DEFINE a == proposals[id].action
  <2>1. UNCHANGED <<slot, config, proposals, gates, buffers>>
    BY GrowthLemma
  <2>2. CASE a.kind = "UPGRADE_CONTROLLER"
    <3>1. ReleaseScope(id) /\ InstallReady(id, Controller) /\ Controller \in Programs
      BY <2>2 DEF Ready, Programs
    <3>2. InstallReady(id, Controller)'
      BY <2>2, <3>1, GrowthKeepsInstall DEF IsUpgrade, UpgradeKinds
    <3>3. RunningRelease' = RunningRelease
      BY <3>1, GrowthLemma DEF RunningRelease
    <3>4. ReleaseScope(id)'
      BY <2>1, <3>1, <3>3 DEF ReleaseScope
    <3> QED
      BY <2>1, <2>2, <3>2, <3>4 DEF Ready
  <2>3. CASE a.kind = "UPGRADE_TARGET"
    <3>1. GateScope(id) /\ InstallReady(id, a.target) /\ a.target \in Programs
      BY <2>3 DEF Ready, GateScope, TypeOK, GatesOK, Programs
    <3>2. PICK t \in Programs : t = a.target
      BY <3>1
    <3>3. InstallReady(id, t)'
      BY <2>3, <3>1, <3>2, GrowthKeepsInstall DEF IsUpgrade, UpgradeKinds
    <3>4. GateScope(id)'
      BY <2>1, <3>1 DEF GateScope
    <3>5. a' = a
      BY <2>1
    <3> QED
      BY <2>3, <3>2, <3>3, <3>4, <3>5 DEF Ready
  <2>4. CASE a.kind \in PolicyKinds \cup {"SET_TARGET_GATE"}
    <3>1. Executable(proposals[id], config, slot)
      BY <2>4 DEF Ready, PolicyKinds
    <3>2. Executable(proposals[id], config, slot)'
      BY <2>1, <3>1 DEF Executable, Current
    <3> QED
      BY <2>1, <2>4, <3>2 DEF Ready, PolicyKinds
  <2> QED
    BY <2>2, <2>3, <2>4 DEF UpgradeKinds
<1>2. TypeOK /\ [Next]_vars => [Kept]_vars
  BY <1>1
<1> QED
  BY <1>2, TypeCorrect, PTL DEF Spec, GrowthKeepsUpgrades

-------------------------------------------------------------------------------
(* The controller implements CouncilDecisions *)

\* What an observer of decisions sees of one proposal.
View(id) ==
    [ status |-> DecisionStatus(id),
      signers |-> IF DecisionStatus(id) = "open" THEN signed[id] ELSE {} ]

LEMMA ViewLemma ==
    /\ DecisionView \in [Ids -> {View(id) : id \in Ids}]
    /\ \A id \in Ids : DecisionView[id] = View(id)
BY DEF DecisionView, View

LEMMA ViewLemmaPrime == DecisionView' = [id \in Ids |-> View(id)']
BY DEF DecisionView, View

\* One decision moves and the others stay.
LEMMA ViewMoves ==
    ASSUME NEW id \in Ids, NEW r, View(id)' = r, \A x \in Ids : x # id => View(x)' = View(x)
    PROVE  DecisionView' = [DecisionView EXCEPT ![id] = r]
<1>1. DecisionView = [x \in Ids |-> View(x)]
  BY DEF DecisionView, View
<1> QED
  BY <1>1, ViewLemmaPrime

LEMMA ViewStands ==
    ASSUME \A x \in Ids : View(x)' = View(x)
    PROVE  UNCHANGED DecisionView
<1>1. DecisionView = [x \in Ids |-> View(x)]
  BY DEF DecisionView, View
<1> QED
  BY <1>1, ViewLemmaPrime

\* What a decision looks like depends on these alone.
LEMMA ViewFrame ==
    ASSUME NEW x,
           x \in DOMAIN proposals' <=> x \in DOMAIN proposals,
           x < config'.next_id <=> x < config.next_id,
           x \in DOMAIN proposals =>
              /\ proposals'[x].state = proposals[x].state
              /\ proposals'[x].council_epoch = proposals[x].council_epoch,
           config'.council_epoch = config.council_epoch,
           signed'[x] = signed[x]
    PROVE  View(x)' = View(x)
BY DEF View, DecisionStatus

\* The members of a council that sits are some of the keys, and there are some.
LEMMA CouncilViewLemma ==
    ASSUME TypeOK
    PROVE  /\ CouncilView \subseteq Keys
           /\ config.initialized => CouncilView = Members(config.seats) /\ CouncilView # {}
<1>1. Seats # {}
  BY SeatsAssumption, FS_EmptySet
<1>2. config.initialized => Members(config.seats) \subseteq Keys /\ Members(config.seats) # {}
  BY <1>1 DEF TypeOK, ConfigOK, Members
<1> QED
  BY <1>2 DEF CouncilView

\* An open decision is a pending proposal of the sitting council.
LEMMA OpenLemma ==
    ASSUME NEW id \in DOMAIN proposals, Current(proposals[id], config, slot)
    PROVE  DecisionStatus(id) = "open" /\ View(id).signers = signed[id]
BY DEF DecisionStatus, Current, View

\* The observable steps of the proposals: signing, dropping, carrying out.
LEMMA ProposalStepDecides ==
    ASSUME CouncilInv, TypeOK', NEW id \in DOMAIN proposals, ProposalStep(id)
    PROVE  [Decisions!CDNext]_<<CouncilView, DecisionView>>
<1> DEFINE p == proposals[id]
<1>a. /\ TypeOK /\ ProposalsOK /\ p \in Proposal /\ id \in Ids /\ DOMAIN proposals \subseteq Ids
      /\ config \in Config /\ config.initialized /\ config.seats \in [Seats -> Keys]
      /\ slot \in U64 /\ signed \in [Ids -> SUBSET Keys]
  BY SlotLemma DEF CouncilInv, TypeOK, ProposalsOK, ConfigOK
<1>b. CouncilView = Members(config.seats) /\ CouncilView # {}
  BY <1>a, CouncilViewLemma
<1> DEFINE KeepsRest == /\ DOMAIN proposals' = DOMAIN proposals
                        /\ \A x \in DOMAIN proposals : x # id => proposals'[x] = proposals[x]
                        /\ UNCHANGED <<config, signed>>
           Stutter == UNCHANGED <<CouncilView, DecisionView>>
<1>c. ASSUME KeepsRest
      PROVE  /\ UNCHANGED CouncilView
             /\ \A x \in Ids : x # id => View(x)' = View(x)
  BY <1>c, ViewFrame DEF CouncilView
<1>d. ASSUME KeepsRest, proposals'[id].state = p.state,
             proposals'[id].council_epoch = p.council_epoch
      PROVE  Stutter
  <2>1. \A x \in Ids : View(x)' = View(x)
    BY <1>d, ViewFrame
  <2> QED
    BY <1>c, <1>d, <2>1, ViewStands
<1>1. CASE SealBuffer(id) \/ CloseBuffer(id)
  BY <1>1, <1>d DEF SealBuffer, CloseBuffer
<1>2. ASSUME NEW index \in 1 .. MAX_CHUNKS, VerifyChunk(id, index)
      PROVE  Stutter
  <2>1. /\ Marked(p, index) \in Proposal
        /\ Marked(p, index).state = p.state
        /\ Marked(p, index).council_epoch = p.council_epoch
    BY <1>a DEF Marked, Proposal
  <2> QED
    BY <1>2, <1>a, <1>d, <2>1, SaveLemma DEF VerifyChunk
<1>3. ASSUME NEW index \in Seats, Approve(id, index)
      PROVE  \E person \in Keys : Decisions!Sign(id, person)
  <2> DEFINE person == config.seats[index]
             q == Approved(p, index)
  <2>1. /\ q \in Proposal /\ q.state = p.state /\ q.council_epoch = p.council_epoch
    BY <1>a DEF Approved, Proposal
  <2>2. /\ SaveProposal(id, q) /\ Current(p, config, slot)
        /\ config' = config
        /\ signed' = [signed EXCEPT ![id] = @ \cup {person}]
    BY <1>3 DEF Approve
  <2>3. /\ DOMAIN proposals' = DOMAIN proposals
        /\ proposals'[id] = q
        /\ \A x \in DOMAIN proposals : x # id => proposals'[x] = proposals[x]
    BY <1>a, <2>1, <2>2, SaveLemma
  <2>4. DecisionStatus(id) = "open" /\ DecisionStatus(id)' = "open"
    BY <1>a, <2>1, <2>2, <2>3 DEF DecisionStatus, Current
  <2>5. View(id)' = [View(id) EXCEPT !.signers = @ \cup {person}]
    <3>1. View(id) = [status |-> "open", signers |-> signed[id]]
      BY <2>4 DEF View
    <3>2. View(id)' = [status |-> "open", signers |-> signed'[id]]
      BY <2>4 DEF View
    <3>3. signed'[id] = signed[id] \cup {person}
      BY <1>a, <2>2
    <3> HIDE DEF person
    <3> QED
      BY <3>1, <3>2, <3>3
  <2>6. \A x \in Ids : x # id => View(x)' = View(x)
    BY <1>a, <2>2, <2>3, ViewFrame
  <2>7. DecisionView' = [DecisionView EXCEPT ![id] = [View(id) EXCEPT !.signers = @ \cup {person}]]
    BY <1>a, <2>5, <2>6, ViewMoves
  <2>8. DecisionView' = [DecisionView EXCEPT ![id].signers = @ \cup {person}]
    BY <1>a, <2>7, ViewLemma
  <2>9. person \in CouncilView /\ person \in Keys /\ UNCHANGED CouncilView
    BY <1>a, <1>b, <2>2 DEF Members, CouncilView
  <2>10. DecisionView[id].status = "open"
    BY <1>a, <2>4, ViewLemma DEF View
  <2> QED
    BY <2>8, <2>9, <2>10 DEF Decisions!Sign
<1>4. ASSUME View(id).status = "open", View(id)' = [status |-> "void", signers |-> {}], KeepsRest
      PROVE  Decisions!Drop(id)
  <2>1. DecisionView' = [DecisionView EXCEPT ![id] = [status |-> "void", signers |-> {}]]
    BY <1>a, <1>c, <1>4, ViewMoves
  <2>2. DecisionView[id].status = "open"
    BY <1>a, <1>4, ViewLemma
  <2> QED
    BY <1>c, <1>4, <2>1, <2>2 DEF Decisions!Drop, Decisions!Mark
<1>5. ASSUME NEW index \in Seats, Cancel(id, index)
      PROVE  Decisions!Drop(id) \/ Stutter
  <2> DEFINE q == Cancelled(p, index)
  <2>1. /\ q \in Proposal /\ q.state \in {p.state, "CANCELLED"}
        /\ q.council_epoch = p.council_epoch
    BY <1>a DEF Cancelled, Proposal, States
  <2>2. /\ DOMAIN proposals' = DOMAIN proposals
        /\ proposals'[id] = q
        /\ \A x \in DOMAIN proposals : x # id => proposals'[x] = proposals[x]
    BY <1>5, <1>a, <2>1, SaveLemma DEF Cancel
  <2>3. KeepsRest /\ Current(p, config, slot)
    BY <1>5, <2>2 DEF Cancel
  <2>4. CASE q.state = p.state
    BY <1>d, <2>1, <2>2, <2>3, <2>4
  <2>5. CASE q.state = "CANCELLED"
    <3>1. View(id).status = "open"
      BY <2>3, OpenLemma DEF View
    <3>2. View(id)' = [status |-> "void", signers |-> {}]
      BY <2>2, <2>5 DEF View, DecisionStatus
    <3> QED
      BY <1>4, <2>3, <3>1, <3>2
  <2> QED
    BY <2>1, <2>4, <2>5
<1>6. CASE Expire(id)
  <2> DEFINE q == Expired(p)
  <2>1. q \in Proposal /\ q.state = "EXPIRED"
    BY <1>a DEF Expired, Proposal, States
  <2>2. /\ DOMAIN proposals' = DOMAIN proposals
        /\ proposals'[id] = q
        /\ \A x \in DOMAIN proposals : x # id => proposals'[x] = proposals[x]
    BY <1>6, <1>a, <2>1, SaveLemma DEF Expire
  <2>3. KeepsRest /\ p.state = "PENDING"
    BY <1>6, <2>2 DEF Expire, MayExpire
  <2>4. View(id)' = [status |-> "void", signers |-> {}]
    BY <2>1, <2>2 DEF View, DecisionStatus
  <2>5. CASE View(id).status = "open"
    <3>1. Decisions!Drop(id)
      BY <1>4, <2>3, <2>4, <2>5
    <3> QED
      BY <1>a, <3>1 DEF Decisions!CDNext
  <2>6. CASE View(id).status # "open"
    <3>1. View(id) = [status |-> "void", signers |-> {}]
      BY <2>3, <2>6 DEF View, DecisionStatus
    <3>2. \A x \in Ids : View(x)' = View(x)
      BY <1>c, <2>3, <2>4, <3>1
    <3> QED
      BY <1>c, <2>3, <3>2, ViewStands
  <2> QED
    BY <2>5, <2>6
<1>7. CASE ExecuteStep(id)
  <2> DEFINE q == Executed(p, slot)
  <2>1. Executable(p, config, slot) /\ SaveProposal(id, q) /\ UNCHANGED signed
    BY <1>7, ExecuteStepLemma
    DEF ExecuteStep, ExecuteSetTiming, ExecuteRotateCouncil, ExecuteControllerUpgrade,
        ExecuteTargetUpgrade, ExecuteTargetGate, ExecuteSpreadLightConfig,
        PublishVerification, RetireTarget
  <2>2. q \in Proposal /\ q.state = "EXECUTED"
    BY <1>a DEF Executed, Proposal, States
  <2>3. /\ DOMAIN proposals' = DOMAIN proposals
        /\ proposals'[id] = q
        /\ \A x \in DOMAIN proposals : x # id => proposals'[x] = proposals[x]
    BY <1>a, <2>1, <2>2, SaveLemma
  <2>4. View(id)' = [status |-> "done", signers |-> {}]
    BY <2>2, <2>3 DEF View, DecisionStatus
  <2>5. Decisions!HasQuorum(id)
    <3>1. DecisionStatus(id) = "open" /\ View(id).signers = signed[id]
      BY <2>1, OpenLemma DEF Executable
    <3>2. DecisionView[id].status = "open" /\ DecisionView[id].signers = signed[id]
      BY <1>a, <3>1, ViewLemma DEF View
    <3>3. signed[id] \subseteq Members(config.seats) /\ Cardinality(signed[id]) >= THRESHOLD
      BY <2>1, ExecutableQuorum
    <3> QED
      BY <1>b, <3>2, <3>3 DEF Decisions!HasQuorum, Decisions!Cardinality, Cardinality
  <2>6. CASE ExecuteRotateCouncil(id)
    <3>1. /\ config'.council_epoch = config.council_epoch + 1
          /\ config'.next_id = config.next_id
      BY <2>6, <1>a DEF ExecuteRotateCouncil, Rotated, Config
    <3>2. CouncilView' \subseteq Keys
      <4>1. config' \in Config /\ (config'.initialized => config'.seats \in [Seats -> Keys])
        BY DEF TypeOK, ConfigOK
      <4> QED
        BY <4>1 DEF CouncilView, Members
    <3>3. ASSUME NEW x \in Ids, x # id
          PROVE  View(x)' = IF View(x).status = "open"
                            THEN [status |-> "void", signers |-> {}] ELSE View(x)
      <4>1. x \in DOMAIN proposals' <=> x \in DOMAIN proposals
        BY <2>3
      <4>2. CASE x \notin DOMAIN proposals
        BY <3>1, <4>1, <4>2 DEF View, DecisionStatus
      <4>3. CASE x \in DOMAIN proposals
        <5>1. proposals'[x] = proposals[x]
          BY <2>3, <3>3, <4>3
        <5>2. proposals[x].council_epoch <= config.council_epoch
          BY <4>3 DEF CouncilInv
        <5>3. proposals[x].council_epoch \in Nat /\ config.council_epoch \in Nat
          BY <1>a, <4>3, TimingAssumption DEF ProposalsOK, Proposal, Config, U64
        <5>4. proposals[x].council_epoch # config'.council_epoch
          BY <3>1, <5>2, <5>3
        <5>5. DecisionStatus(x)' = IF DecisionStatus(x) = "open" THEN "void" ELSE DecisionStatus(x)
          BY <4>1, <4>3, <5>1, <5>4 DEF DecisionStatus
        <5> QED
          BY <5>5 DEF View
      <4> QED
        BY <4>2, <4>3
    <3>4. DecisionView' =
             [d \in Ids |->
                IF d = id THEN [status |-> "done", signers |-> {}]
                ELSE IF DecisionView[d].status = "open"
                     THEN [status |-> "void", signers |-> {}]
                     ELSE DecisionView[d]]
      BY <2>4, <3>3, ViewLemma, ViewLemmaPrime
    <3>5. Decisions!Replace(id)
      BY <2>5, <3>2, <3>4 DEF Decisions!Replace
    <3> QED
      BY <1>a, <3>5 DEF Decisions!CDNext
  <2>7. CASE ~ ExecuteRotateCouncil(id)
    <3>1. /\ config'.council_epoch = config.council_epoch
          /\ config'.next_id = config.next_id
          /\ config'.seats = config.seats
          /\ config'.initialized = config.initialized
      BY <1>7, <1>a, <2>7
      DEF ExecuteStep, ExecuteSetTiming, ExecuteControllerUpgrade,
          ExecuteTargetUpgrade, ExecuteTargetGate, ExecuteSpreadLightConfig,
          PublishVerification, RetireTarget, Config
    <3>2. \A x \in Ids : x # id => View(x)' = View(x)
      BY <2>1, <2>3, <3>1, ViewFrame
    <3>3. DecisionView' = [DecisionView EXCEPT ![id] = [status |-> "done", signers |-> {}]]
      BY <1>a, <2>4, <3>2, ViewMoves
    <3>4. UNCHANGED CouncilView
      BY <3>1 DEF CouncilView
    <3>5. Decisions!Decide(id)
      BY <2>5, <3>3, <3>4 DEF Decisions!Decide, Decisions!Mark
    <3> QED
      BY <1>a, <3>5 DEF Decisions!CDNext
  <2> QED
    BY <2>6, <2>7
<1> QED
  BY <1>a, <1>1, <1>2, <1>3, <1>5, <1>6, <1>7 DEF ProposalStep, Decisions!CDNext

\* Initialize seats a council over no decisions; Create opens the next one;
\* ReclaimRecords forgets some; the other instructions show nothing.
LEMMA OtherStepDecides ==
    ASSUME CouncilInv, TypeOK', [Next]_vars, \A id \in DOMAIN proposals : ~ ProposalStep(id)
    PROVE  [Decisions!CDNext]_<<CouncilView, DecisionView>>
<1> DEFINE Stutter == UNCHANGED <<CouncilView, DecisionView>>
<1>a. /\ TypeOK /\ DOMAIN proposals \subseteq Ids
      /\ config \in Config /\ config.next_id \in Nat
      /\ DOMAIN proposals # {} => config.initialized
      /\ \A id \in DOMAIN proposals : id < config.next_id
  BY TimingAssumption DEF CouncilInv, TypeOK, ConfigOK, ProposalsOK, Config, U64
<1>b. Ids \subseteq Nat \ {0}
  BY BoundsAssumption DEF Ids
<1>1. ASSUME NEW seats \in Councils, Initialize(seats)
      PROVE  Decisions!Found
  <2>1. /\ ~ config.initialized /\ config'.initialized /\ config'.next_id = 1
        /\ UNCHANGED <<proposals, signed>>
    BY <1>1 DEF Initialize
  <2>2. DOMAIN proposals = {} /\ config.next_id = 0
    BY <1>a, <2>1 DEF CouncilInv, CouncilSits
  <2>3. \A x \in Ids : DecisionStatus(x) = "none" /\ DecisionStatus(x)' = "none"
    BY <1>b, <2>1, <2>2 DEF DecisionStatus
  <2>4. \A x \in Ids : View(x)' = View(x)
    BY <2>3 DEF View
  <2>5. CouncilView = {}
    BY <2>1 DEF CouncilView
  <2>6. CouncilView' \subseteq Keys
    <3>1. config' \in Config /\ (config'.initialized => config'.seats \in [Seats -> Keys])
      BY DEF TypeOK, ConfigOK
    <3> QED
      BY <3>1 DEF CouncilView, Members
  <2> QED
    BY <2>4, <2>5, <2>6, ViewStands DEF Decisions!Found
<1>2. ASSUME NEW a \in Offered, Create(a)
      PROVE  \E id \in Ids : Decisions!Propose(id)
  <2> PICK id \in Ids : id = config.next_id
    BY <1>2 DEF Create, FreshId
  <2> PICK p : p = NewProposal(config, a, slot)
    OBVIOUS
  <2>1. /\ config.initialized /\ id \in Ids /\ id \notin DOMAIN proposals
        /\ proposals' = With(proposals, id, p)
        /\ config' = [config EXCEPT !.next_id = id + 1]
        /\ UNCHANGED signed
    BY <1>2 DEF Create, FreshId
  <2>2. id = config.next_id
    OBVIOUS
  <2>3. p.state = "PENDING" /\ p.council_epoch = config.council_epoch
    BY DEF NewProposal
  <2>4. /\ config'.next_id = id + 1
        /\ config'.council_epoch = config.council_epoch
        /\ config'.seats = config.seats
        /\ config'.initialized = config.initialized
    BY <1>a, <2>1 DEF Config
  <2>5. /\ DOMAIN proposals' = DOMAIN proposals \cup {id}
        /\ proposals'[id] = p
        /\ \A x \in DOMAIN proposals : proposals'[x] = proposals[x]
    BY <2>1 DEF With
  <2>6. ASSUME NEW x \in Ids, x # id
        PROVE  View(x)' = View(x)
    <3>1. x \in DOMAIN proposals' <=> x \in DOMAIN proposals
      BY <2>5, <2>6
    <3>2. x < config'.next_id <=> x < config.next_id
      BY <1>a, <1>b, <2>2, <2>4, <2>6
    <3> QED
      BY <2>1, <2>4, <2>5, <3>1, <3>2, ViewFrame
  <2>7. signed[id] = {} /\ signed'[id] = {}
    BY <1>a, <2>1, <2>2 DEF CouncilInv
  <2>8. View(id)' = [status |-> "open", signers |-> {}]
    <3>1. DecisionStatus(id)' = "open"
      BY <2>3, <2>4, <2>5 DEF DecisionStatus
    <3> QED
      BY <2>7, <3>1 DEF View
  <2>9. View(id) = [status |-> "none", signers |-> {}]
    BY <1>a, <2>1, <2>2 DEF View, DecisionStatus
  <2>10. DecisionView' = [DecisionView EXCEPT ![id] = [status |-> "open", signers |-> {}]]
    BY <2>1, <2>6, <2>8, ViewMoves
  <2>11. DecisionView[id].status = "none"
    BY <2>1, <2>9, ViewLemma
  <2>12. CouncilView # {} /\ UNCHANGED CouncilView
    BY <1>a, <2>1, <2>4, CouncilViewLemma DEF CouncilView
  <2> QED
    BY <2>1, <2>10, <2>11, <2>12 DEF Decisions!Propose, Decisions!Mark
<1>3. ASSUME NEW t \in Targets, NEW ids \in SUBSET DOMAIN proposals, NEW withGate \in BOOLEAN,
             ReclaimRecords(t, ids, withGate)
      PROVE  Decisions!Forget(ids) /\ ids \in SUBSET Ids
  <2>1. proposals' = Without(proposals, ids) /\ UNCHANGED <<config, signed>>
    BY <1>3 DEF ReclaimRecords
  <2>2. /\ DOMAIN proposals' = DOMAIN proposals \ ids
        /\ \A x \in DOMAIN proposals' : proposals'[x] = proposals[x]
    BY <2>1 DEF Without
  <2>3. \A x \in ids : DecisionStatus(x) # "none" /\ DecisionStatus(x)' = "gone"
    BY <1>a, <2>1, <2>2 DEF DecisionStatus
  <2>4. ASSUME NEW x \in Ids, x \notin ids
        PROVE  View(x)' = View(x)
    BY <2>1, <2>2, <2>4, ViewFrame
  <2>5. \A x \in ids : View(x)' = [status |-> "gone", signers |-> {}] /\ View(x).status # "none"
    BY <2>3 DEF View
  <2>6. DecisionView' = [d \in Ids |-> IF d \in ids THEN [status |-> "gone", signers |-> {}]
                                                    ELSE DecisionView[d]]
    BY <2>4, <2>5, ViewLemma, ViewLemmaPrime
  <2>7. \A x \in ids : x \in Ids /\ DecisionView[x].status # "none"
    BY <1>a, <2>5, ViewLemma
  <2>8. UNCHANGED CouncilView
    BY <2>1 DEF CouncilView
  <2> QED
    BY <2>6, <2>7, <2>8 DEF Decisions!Forget
<1>4. ASSUME UNCHANGED <<proposals, config, signed>>
      PROVE  Stutter
  <2>1. \A x \in Ids : View(x)' = View(x)
    BY <1>4, ViewFrame
  <2>2. UNCHANGED CouncilView
    BY <1>4 DEF CouncilView
  <2> QED
    BY <2>1, <2>2, ViewStands
<1>5. \/ \E seats \in Councils : Initialize(seats)
      \/ \E a \in Offered : Create(a)
      \/ \E t \in Targets, ids \in SUBSET DOMAIN proposals, withGate \in BOOLEAN :
            ReclaimRecords(t, ids, withGate)
      \/ UNCHANGED <<proposals, config, signed>>
  BY DEF Next, CouncilStep, CleanupStep, EnvironmentStep, vars, RegisterTarget,
         ReclaimVerification, Tick, Upload, HandOver, Withdraw, ExtendProgram
<1>6. CASE \E seats \in Councils : Initialize(seats)
  BY <1>1, <1>6 DEF Decisions!CDNext
<1>7. CASE \E a \in Offered : Create(a)
  BY <1>2, <1>7 DEF Decisions!CDNext
<1>8. CASE \E t \in Targets, ids \in SUBSET DOMAIN proposals, withGate \in BOOLEAN :
              ReclaimRecords(t, ids, withGate)
  BY <1>3, <1>8 DEF Decisions!CDNext
<1> QED
  BY <1>4, <1>5, <1>6, <1>7, <1>8

\* The controller implements CouncilDecisions: whatever it does to the decisions
\* is founding, proposing, signing, dropping, carrying out with a quorum of the
\* sitting council, replacing that council, or forgetting.
THEOREM DecisionsTheorem == Spec => ImplementsCouncilDecisions
<1>1. CouncilInv /\ [Next]_vars => [Decisions!CDNext]_<<CouncilView, DecisionView>>
  <2> SUFFICES ASSUME CouncilInv, [Next]_vars
               PROVE  [Decisions!CDNext]_<<CouncilView, DecisionView>>
    OBVIOUS
  <2>1. TypeOK'
    BY ProposalStepType, OtherStepType DEF CouncilInv
  <2>2. CASE \E id \in DOMAIN proposals : ProposalStep(id)
    BY <2>1, <2>2, ProposalStepDecides
  <2>3. CASE \A id \in DOMAIN proposals : ~ ProposalStep(id)
    BY <2>1, <2>3, OtherStepDecides
  <2> QED
    BY <2>2, <2>3
<1>2. Init => Decisions!CDInit
  <2> SUFFICES ASSUME Init PROVE Decisions!CDInit
    OBVIOUS
  <2>1. ~ config.initialized /\ config.next_id = 0 /\ DOMAIN proposals = {}
    BY DEF Init
  <2>2. \A x \in Ids : DecisionStatus(x) = "none"
    BY <2>1, BoundsAssumption DEF DecisionStatus, Ids
  <2>3. \A x \in Ids : View(x) = [status |-> "none", signers |-> {}]
    BY <2>2 DEF View
  <2>4. DecisionView = [x \in Ids |-> [status |-> "none", signers |-> {}]]
    BY <2>3, ViewLemma
  <2>5. CouncilView = {}
    BY <2>1 DEF CouncilView
  <2> QED
    BY <2>4, <2>5 DEF Decisions!CDInit
<1> QED
  BY <1>1, <1>2, CouncilInvariant, PTL
  DEF Spec, ImplementsCouncilDecisions, Decisions!CDSpec, Decisions!cdVars
===============================================================================
