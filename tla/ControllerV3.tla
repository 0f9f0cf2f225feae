----------------------------- MODULE ControllerV3 -----------------------------
(***************************************************************************)
(* The deployed council controller, governance_controller_v3: one action   *)
(* per instruction of processor.rs, processor/retirement.rs and            *)
(* processor/verification.rs, over the accounts those instructions read    *)
(* and write, together with what others may do to the same accounts        *)
(* between two instructions: the slot advances, an uploader writes, closes *)
(* or hands over a buffer, and anyone extends a program.                   *)
(*                                                                         *)
(* A Solana instruction is atomic and is rolled back when it fails, so one *)
(* instruction is one step and every failing check is a guard.  An account *)
(* that does not exist is outside the domain of its variable.  The two     *)
(* loader CPIs and the calls into Otter Verify and Spread are external.    *)
(***************************************************************************)
EXTENDS ProposalV3

CONSTANTS
    Controller,       \* the controller program itself
    Targets,          \* programs the council may take over
    Buffers,          \* addresses of loader buffers
    Contents,         \* what an uploader may write: sequences of chunks
    Agendas,          \* bound: the sets of actions that are submitted side by side
    Councils,         \* councils Initialize may install
    AuthorityKey,     \* the controller's own authority PDA
    ReleaseOf,        \* CONTROLLER_RELEASE compiled into each image
    Recipe,           \* Recipe[r][p]: the verification recipe of release r, 0 if none
    PreviousRecipe,   \* the older recipe release r still recognises, 0 if none
    InitialImage,     \* what the deployers installed
    InitialCapacity,  \* and the size of its ProgramData, in chunks
    MAX_CAPACITY,     \* the loader's limit on that size
    MaxSlot,          \* bound: the last slot explored
    MaxProposals      \* bound: the number of proposals explored

Programs == Targets \cup {Controller}
Ids == 1 .. MaxProposals

\* The actions the creators of proposals submit.
Offered == UNION Agendas

ASSUME BoundsAssumption ==
    /\ MaxSlot \in U64 \ {0}
    /\ MaxProposals \in Nat
    /\ InitialCapacity \in Nat
    /\ MAX_CAPACITY \in Nat
    /\ Controller \notin Targets
    /\ InitialImage \in [Programs -> Contents]
    /\ Councils \subseteq [Seats -> Keys]

\* A chunk is whatever the contents are made of.
Chunks == UNION {{c[i] : i \in DOMAIN c} : c \in Contents}

ASSUME ContentsAssumption == Contents \subseteq Seq(Chunks)

\* Each kind of action carries the fields its decoder reads.
ASSUME OfferedAssumption ==
    \A a \in Offered :
        /\ a.kind \in UpgradeKinds \cup TargetKinds \cup PolicyKinds
        /\ IsUpgrade(a) => a.buffer \in Buffers /\ a.artifact \in Contents
        /\ a.kind \in TargetKinds => a.target \in Programs
        /\ a.kind \in TargetKinds \ {"PUBLISH_VERIFICATION"} => a.gate_epoch \in Nat
        /\ a.kind = "SET_TIMING" => a.timing \in Timing
        /\ a.kind = "ROTATE_COUNCIL" => a.seats \in [Seats -> Keys]

VARIABLES
    slot,        \* the Clock sysvar
    config,      \* the council account
    proposals,   \* the proposal accounts, by id
    gates,       \* the gate accounts, by target
    programs,    \* program and ProgramData accounts
    buffers,     \* loader buffer accounts
    metadata,    \* Otter Verify records, by program
    light,       \* Spread's compressible config account
    signed       \* history: the keys that signed an approval of each proposal

vars == <<slot, config, proposals, gates, programs, buffers, metadata, light, signed>>

-------------------------------------------------------------------------------
(* Accounts *)

UPLOADER == 0   \* a buffer's authority is its uploader, or the PDA of a proposal id

\* A function with one more, or some fewer, accounts.
With(f, k, v) == [x \in DOMAIN f \cup {k} |-> IF x = k THEN v ELSE f[x]]
Without(f, K) == [x \in DOMAIN f \ K |-> f[x]]

ConfigValid(c) ==
    /\ c.initialized
    /\ c.council_epoch > 0
    /\ c.timing_version > 0
    /\ c.next_id > 0
    /\ SeatsValid(c.seats)
    /\ AuthorityKey \notin Members(c.seats)
    /\ TimingValid(c.timing)

\* FrozenForUpgrade belongs to Release 1 and is never written here; active_proposal
\* is the default key throughout.
GateValid(g) ==
    /\ g.epoch > 0
    /\ g.status = "Active" => g.freeze_slot = 0 /\ g.freeze_reason_code = 0
    /\ g.status = "EmergencyFrozen" => g.freeze_slot # 0 /\ g.freeze_reason_code # 0

\* The program account and its ProgramData are linked and parse.
Deployed(p) == ~ programs[p].closed

\* The release number compiled into the running controller.
RunningRelease == ReleaseOf[programs[Controller].image]

\* save_proposal validates again and fails the instruction otherwise.
SaveProposal(id, p) ==
    /\ ProposalValid(p)
    /\ proposals' = [proposals EXCEPT ![id] = p]

SaveGate(t, g) ==
    /\ GateValid(g)
    /\ gates' = With(gates, t, g)

\* Mutant: the epoch stays.
RefrozenMutant(g, id, reason) ==
    [g EXCEPT !.freeze_slot = slot, !.freeze_reason_code = reason,
              !.last_completed_proposal = id]

\* How an installation or a closure leaves the gate: frozen, one epoch on.
Refrozen(g, id, reason) ==
    [g EXCEPT !.epoch = @ + 1, !.freeze_slot = slot, !.freeze_reason_code = reason,
              !.last_completed_proposal = id]

\* Mutant: whoever holds the buffer.
SealedMutant(id) ==
    LET a == proposals[id].action IN
    /\ a.buffer \in DOMAIN buffers
    /\ Len(buffers[a.buffer].data) = Len(a.artifact)

\* The proposal's buffer is exactly the committed length and only its PDA may act on it.
Sealed(id) ==
    LET a == proposals[id].action IN
    /\ a.buffer \in DOMAIN buffers
    /\ buffers[a.buffer].authority = id
    /\ Len(buffers[a.buffer].data) = Len(a.artifact)

-------------------------------------------------------------------------------
(* Bootstrap *)

Init ==
    /\ slot = 1
    /\ config = [ initialized |-> FALSE, seats |-> [i \in Seats |-> DefaultKey],
                  council_epoch |-> 0, timing_version |-> 0,
                  timing |-> DefaultTiming, next_id |-> 0 ]
    /\ proposals = <<>>
    /\ gates = <<>>
    /\ programs = [p \in Programs |->
                     [ authority |-> "deployer", deployed_slot |-> 1, closed |-> FALSE,
                       capacity |-> InitialCapacity, image |-> InitialImage[p] ]]
    /\ buffers = <<>>
    /\ metadata = <<>>
    /\ light = <<>>
    /\ signed = [id \in Ids |-> {}]

\* THRESHOLD distinct seats of the council sign along.
Consent == \E signers \in SUBSET Seats : Cardinality(signers) = THRESHOLD

Initialize(seats) ==
    LET c == [ initialized |-> TRUE, seats |-> seats, council_epoch |-> 1,
               timing_version |-> 1, timing |-> DefaultTiming, next_id |-> 1 ] IN
    /\ ~ config.initialized
    /\ Deployed(Controller)
    /\ programs[Controller].authority = "deployer"
    /\ ConfigValid(c)
    /\ Consent
    /\ config' = c
    /\ programs' = [programs EXCEPT ![Controller].authority = "pda"]
    /\ UNCHANGED <<slot, proposals, gates, buffers, metadata, light, signed>>

\* The gate of a target that has just been taken over.
FirstGate ==
    [ status |-> "EmergencyFrozen", epoch |-> 1, freeze_slot |-> slot,
      freeze_reason_code |-> 1, last_completed_proposal |-> 0 ]

RegisterTarget(t) ==
    /\ config.initialized
    /\ Consent
    /\ Deployed(t)
    /\ programs[t].authority = "deployer"
    /\ t \notin DOMAIN gates
    /\ SaveGate(t, FirstGate)
    /\ programs' = [programs EXCEPT ![t].authority = "pda"]
    /\ UNCHANGED <<slot, config, proposals, buffers, metadata, light, signed>>

-------------------------------------------------------------------------------
(* The life of a proposal *)

\* Mutant: the lowest id without an account.
FreshIdMutant == CHOOSE id \in 1 .. MaxProposals + 1 :
    /\ id \notin DOMAIN proposals
    /\ \A lower \in 1 .. id - 1 : lower \in DOMAIN proposals

\* expected_id, which must be the council's next id.
FreshId == config.next_id

Create(a) ==
    LET id == FreshId
        p == NewProposal(config, a, slot) IN
    /\ config.initialized
    /\ id \in Ids
    /\ ActionValid(a)
    /\ a.kind = "UPGRADE_CONTROLLER" => a.release = RunningRelease
    /\ a.kind = "ROTATE_COUNCIL" => AuthorityKey \notin Members(a.seats)
    /\ AddFits(id, 1)
    /\ BoundariesFit(config.timing, slot)
    /\ ProposalValid(p)
    /\ id \notin DOMAIN proposals
    /\ proposals' = With(proposals, id, p)
    /\ config' = [config EXCEPT !.next_id = id + 1]
    /\ UNCHANGED <<slot, gates, programs, buffers, metadata, light, signed>>

SealBuffer(id) ==
    LET p == proposals[id]
        a == p.action IN
    /\ Current(p, config, slot)
    /\ IsUpgrade(a)
    /\ a.buffer \in DOMAIN buffers
    /\ buffers[a.buffer].authority = UPLOADER
    /\ Len(buffers[a.buffer].data) = Len(a.artifact)
    /\ p.approvals = {}
    /\ p.verified = {}
    /\ buffers' = [buffers EXCEPT ![a.buffer].authority = id]
    /\ UNCHANGED <<slot, config, proposals, gates, programs, metadata, light, signed>>

VerifyChunk(id, index) ==
    LET p == proposals[id]
        a == p.action IN
    /\ Current(p, config, slot)
    /\ IsUpgrade(a)
    /\ Sealed(id)
    /\ index <= Len(a.artifact)
    /\ MayMark(p, index)
    /\ buffers[a.buffer].data[index] = a.artifact[index]
    /\ SaveProposal(id, Marked(p, index))
    /\ UNCHANGED <<slot, config, gates, programs, buffers, metadata, light, signed>>

Approve(id, index) ==
    LET p == proposals[id] IN
    /\ Current(p, config, slot)
    /\ IsUpgrade(p.action) => Complete(p)
    /\ MayApprove(p, index, slot)
    /\ SaveProposal(id, Approved(p, index))
    /\ signed' = [signed EXCEPT ![id] = @ \cup {config.seats[index]}]
    /\ UNCHANGED <<slot, config, gates, programs, buffers, metadata, light>>

Cancel(id, index) ==
    LET p == proposals[id] IN
    /\ Current(p, config, slot)
    /\ MayCancel(p, index, slot)
    /\ SaveProposal(id, Cancelled(p, index))
    /\ UNCHANGED <<slot, config, gates, programs, buffers, metadata, light, signed>>

\* Mutant: only the council that created it.
ExpireMutant(id) ==
    LET p == proposals[id] IN
    /\ MayExpire(p, slot)
    /\ p.council_epoch = config.council_epoch
    /\ SaveProposal(id, Expired(p))
    /\ UNCHANGED <<slot, config, gates, programs, buffers, metadata, light, signed>>

\* Permissionless; reads neither the council nor its epoch.
Expire(id) ==
    LET p == proposals[id] IN
    /\ MayExpire(p, slot)
    /\ SaveProposal(id, Expired(p))
    /\ UNCHANGED <<slot, config, gates, programs, buffers, metadata, light, signed>>

\* Mutant: an expired proposal keeps its buffer.
DeadMutant(p) == p.state = "CANCELLED"

Dead(p) == p.state \in {"CANCELLED", "EXPIRED"}

\* Only a dead proposal gives up its buffer.
CloseBuffer(id) ==
    LET p == proposals[id] IN
    /\ Dead(p)
    /\ IsUpgrade(p.action)
    /\ Sealed(id)
    /\ buffers' = Without(buffers, {p.action.buffer})
    /\ UNCHANGED <<slot, config, proposals, gates, programs, metadata, light, signed>>

-------------------------------------------------------------------------------
(* Execution *)

\* Mutant: the policy it was voted against may be gone.
SameTimingVersionMutant(p) == TRUE

SameTimingVersion(p) == p.timing_version = config.timing_version

ExecuteSetTiming(id) ==
    LET p == proposals[id]
        c == [config EXCEPT !.timing = p.action.timing,
                            !.timing_version = @ + 1] IN
    /\ Executable(p, config, slot)
    /\ p.action.kind = "SET_TIMING"
    /\ SameTimingVersion(p)
    /\ AddFits(config.timing_version, 1)
    /\ ConfigValid(c)
    /\ config' = c
    /\ SaveProposal(id, Executed(p, slot))
    /\ UNCHANGED <<slot, gates, programs, buffers, metadata, light, signed>>

\* Mutant: a new council under the old epoch.
RotatedMutant(seats) == [config EXCEPT !.seats = seats]

Rotated(seats) == [config EXCEPT !.seats = seats, !.council_epoch = @ + 1]

ExecuteRotateCouncil(id) ==
    LET p == proposals[id]
        c == Rotated(p.action.seats) IN
    /\ Executable(p, config, slot)
    /\ p.action.kind = "ROTATE_COUNCIL"
    /\ AddFits(config.council_epoch, 1)
    /\ ConfigValid(c)
    /\ config' = c
    /\ SaveProposal(id, Executed(p, slot))
    /\ UNCHANGED <<slot, gates, programs, buffers, metadata, light, signed>>

\* Loader-v3 Upgrade: not in the slot of the last deployment; the buffer is
\* copied, the rest zero-filled, and the buffer account drained to the treasury.
LoaderUpgrade(p, b) ==
    /\ programs[p].deployed_slot # slot
    /\ Len(buffers[b].data) <= programs[p].capacity
    /\ programs' = [programs EXCEPT ![p].image = buffers[b].data,
                                    ![p].deployed_slot = slot]
    /\ buffers' = Without(buffers, {b})

\* Mutant: the capacity must be the one recorded in the action.
InstallReadyMutant(id, program) ==
    /\ Executable(proposals[id], config, slot)
    /\ Complete(proposals[id])
    /\ Deployed(program)
    /\ programs[program].authority = "pda"
    /\ programs[program].capacity = InitialCapacity
    /\ Sealed(id)

\* The installation checks: the live program, never the snapshot in the action.
InstallReady(id, program) ==
    /\ Executable(proposals[id], config, slot)
    /\ Complete(proposals[id])
    /\ Deployed(program)
    /\ programs[program].authority = "pda"
    /\ programs[program].capacity >= Len(proposals[id].action.artifact)
    /\ Sealed(id)

\* What both upgrade instructions share.
Install(id, program) ==
    /\ InstallReady(id, program)
    /\ LoaderUpgrade(program, proposals[id].action.buffer)
    /\ SaveProposal(id, Executed(proposals[id], slot))

\* Mutant: any release may install it.
ReleaseScopeMutant(id) == proposals[id].action.kind = "UPGRADE_CONTROLLER"

\* upgrade_scope: what orders an upgrade against the others of its program.
ReleaseScope(id) ==
    /\ proposals[id].action.kind = "UPGRADE_CONTROLLER"
    /\ proposals[id].action.release = RunningRelease

GateScope(id) ==
    LET a == proposals[id].action IN
    /\ a.kind = "UPGRADE_TARGET"
    /\ a.target \in DOMAIN gates
    /\ gates[a.target].epoch = a.gate_epoch
    /\ gates[a.target].status = "EmergencyFrozen"

ExecuteControllerUpgrade(id) ==
    /\ ReleaseScope(id)
    /\ Install(id, Controller)
    /\ UNCHANGED <<slot, config, gates, metadata, light, signed>>

ExecuteTargetUpgrade(id) ==
    LET t == proposals[id].action.target IN
    /\ GateScope(id)
    /\ AddFits(gates[t].epoch, 1)
    /\ Install(id, t)
    /\ SaveGate(t, Refrozen(gates[t], id, 2))
    /\ UNCHANGED <<slot, config, metadata, light, signed>>

ExecuteTargetGate(id) ==
    LET p == proposals[id]
        a == p.action
        t == a.target IN
    /\ Executable(p, config, slot)
    /\ a.kind = "SET_TARGET_GATE"
    /\ t \in DOMAIN gates
    /\ gates[t].epoch = a.gate_epoch
    /\ AddFits(gates[t].epoch, 1)
    /\ SaveGate(t, [ epoch |-> gates[t].epoch + 1,
                     status |-> IF a.active THEN "Active" ELSE "EmergencyFrozen",
                     freeze_slot |-> IF a.active THEN 0 ELSE slot,
                     freeze_reason_code |-> IF a.active THEN 0 ELSE 3,
                     last_completed_proposal |-> id ])
    /\ SaveProposal(id, Executed(p, slot))
    /\ UNCHANGED <<slot, config, programs, buffers, metadata, light, signed>>

\* The action names the deployment it is about.
SameDeployment(a) == programs[a.target].deployed_slot = a.deployed_slot

\* Create-once: Spread's handler fails when the account exists.
ExecuteSpreadLightConfig(id) ==
    LET p == proposals[id]
        a == p.action
        t == a.target IN
    /\ Executable(p, config, slot)
    /\ a.kind = "INITIALIZE_SPREAD_LIGHT_CONFIG"
    /\ t \in DOMAIN gates
    /\ Deployed(t)
    /\ gates[t].status = "Active"
    /\ gates[t].epoch = a.gate_epoch
    /\ SameDeployment(a)
    /\ programs[t].authority = "pda"
    /\ t \notin DOMAIN light
    /\ light' = With(light, t, a.policy)
    /\ SaveProposal(id, Executed(p, slot))
    /\ UNCHANGED <<slot, config, gates, programs, buffers, metadata, signed>>

\* Mutant: only the running release's own recipe.
RecordAcceptedMutant(program) ==
    program \in DOMAIN metadata =>
        metadata[program].recipe = Recipe[RunningRelease][program]

\* An existing record must come from the running release's recipe or, for a
\* target, from the older one it still recognises.
RecordAccepted(program) ==
    program \in DOMAIN metadata =>
        \/ metadata[program].recipe = Recipe[RunningRelease][program]
        \/ /\ program # Controller
           /\ PreviousRecipe[RunningRelease][program] # 0
           /\ metadata[program].recipe = PreviousRecipe[RunningRelease][program]

PublishVerification(id) ==
    LET p == proposals[id]
        a == p.action
        t == a.target IN
    /\ Executable(p, config, slot)
    /\ a.kind = "PUBLISH_VERIFICATION"
    /\ t # Controller => t \in DOMAIN gates
    /\ Deployed(t)
    /\ programs[t].authority = "pda"
    /\ SameDeployment(a)
    /\ Recipe[RunningRelease][t] # 0
    /\ RecordAccepted(t)
    /\ metadata' = With(metadata, t,
                        [ commit |-> a.commit, deployed_slot |-> a.deployed_slot,
                          recipe |-> Recipe[RunningRelease][t] ])
    /\ SaveProposal(id, Executed(p, slot))
    /\ UNCHANGED <<slot, config, gates, programs, buffers, light, signed>>

\* Loader-v3 Close of a ProgramData account, refused in its deployment slot.
LoaderClose(p) ==
    /\ programs[p].deployed_slot # slot
    /\ programs' = [programs EXCEPT ![p].closed = TRUE]

\* The payload hash covers the image and the zero padding up to the capacity.
RetireTarget(id) ==
    LET p == proposals[id]
        a == p.action
        t == a.target IN
    /\ Executable(p, config, slot)
    /\ a.kind = "RETIRE_TARGET"
    /\ t \in DOMAIN gates
    /\ Deployed(t)
    /\ programs[t].authority = "pda"
    /\ SameDeployment(a)
    /\ gates[t].epoch = a.gate_epoch
    /\ gates[t].status = "EmergencyFrozen"
    /\ programs[t].image = a.image
    /\ programs[t].capacity = a.capacity
    /\ AddFits(gates[t].epoch, 1)
    /\ LoaderClose(t)
    /\ SaveGate(t, Refrozen(gates[t], id, 4))
    /\ SaveProposal(id, Executed(p, slot))
    /\ UNCHANGED <<slot, config, buffers, metadata, light, signed>>

-------------------------------------------------------------------------------
(* Cleaning up after a retired target; both instructions are permissionless *)

ReclaimRecords(t, ids, withGate) ==
    /\ config.initialized
    /\ programs[t].closed
    /\ ids # {} \/ withGate
    /\ \A id \in ids : HasExplicitTarget(proposals[id].action, t)
    /\ withGate => t \in DOMAIN gates /\ gates[t].status = "EmergencyFrozen"
    /\ proposals' = Without(proposals, ids)
    /\ gates' = IF withGate THEN Without(gates, {t}) ELSE gates
    /\ UNCHANGED <<slot, config, programs, buffers, metadata, light, signed>>

ReclaimVerification(t) ==
    /\ config.initialized
    /\ programs[t].closed
    /\ t \in DOMAIN metadata
    /\ metadata' = Without(metadata, {t})
    /\ UNCHANGED <<slot, config, proposals, gates, programs, buffers, light, signed>>

-------------------------------------------------------------------------------
(* What others may do between two instructions *)

Tick ==
    /\ slot < MaxSlot
    /\ slot' = slot + 1
    /\ UNCHANGED <<config, proposals, gates, programs, buffers, metadata, light, signed>>

\* Creates the buffer or rewrites it; the loader asks for the authority's signature.
Upload(b, data) ==
    /\ b \in DOMAIN buffers => buffers[b].authority = UPLOADER /\ buffers[b].data # data
    /\ buffers' = With(buffers, b, [authority |-> UPLOADER, data |-> data])
    /\ UNCHANGED <<slot, config, proposals, gates, programs, metadata, light, signed>>

\* The loader's unchecked SetAuthority, aimed at any proposal's PDA, even a future one.
HandOver(b, id) ==
    /\ buffers[b].authority = UPLOADER
    /\ buffers' = [buffers EXCEPT ![b].authority = id]
    /\ UNCHANGED <<slot, config, proposals, gates, programs, metadata, light, signed>>

Withdraw(b) ==
    /\ buffers[b].authority = UPLOADER
    /\ buffers' = Without(buffers, {b})
    /\ UNCHANGED <<slot, config, proposals, gates, programs, metadata, light, signed>>

\* Permissionless growth of a program; it moves the deployment slot.
ExtendProgram(p) ==
    /\ Deployed(p)
    /\ programs[p].deployed_slot # slot
    /\ programs[p].capacity < MAX_CAPACITY
    /\ programs' = [programs EXCEPT ![p].capacity = @ + 1, ![p].deployed_slot = slot]
    /\ UNCHANGED <<slot, config, proposals, gates, buffers, metadata, light, signed>>

-------------------------------------------------------------------------------

ExecuteStep(id) ==
    \/ ExecuteSetTiming(id)
    \/ ExecuteRotateCouncil(id)
    \/ ExecuteControllerUpgrade(id)
    \/ ExecuteTargetUpgrade(id)
    \/ ExecuteTargetGate(id)
    \/ ExecuteSpreadLightConfig(id)
    \/ PublishVerification(id)
    \/ RetireTarget(id)

ProposalStep(id) ==
    \/ SealBuffer(id)
    \/ \E index \in 1 .. MAX_CHUNKS : VerifyChunk(id, index)
    \/ \E index \in Seats : Approve(id, index)
    \/ \E index \in Seats : Cancel(id, index)
    \/ Expire(id)
    \/ CloseBuffer(id)
    \/ ExecuteStep(id)

\* Bound: the accounts of one time come from one agenda.
OnAgenda(a) ==
    \E agenda \in Agendas :
        {a} \cup {proposals[id].action : id \in DOMAIN proposals} \subseteq agenda

CouncilStep ==
    \/ \E seats \in Councils : Initialize(seats)
    \/ \E t \in Targets : RegisterTarget(t)
    \/ \E a \in Offered : OnAgenda(a) /\ Create(a)
    \/ \E id \in DOMAIN proposals : ProposalStep(id)

CleanupStep ==
    \E t \in Targets :
        \/ \E ids \in SUBSET DOMAIN proposals, withGate \in BOOLEAN :
              ReclaimRecords(t, ids, withGate)
        \/ ReclaimVerification(t)

EnvironmentStep ==
    \/ Tick
    \/ \E b \in Buffers, data \in Contents : Upload(b, data)
    \/ \E b \in DOMAIN buffers, id \in Ids : HandOver(b, id)
    \/ \E b \in DOMAIN buffers : Withdraw(b)
    \/ \E p \in Programs : ExtendProgram(p)

Next == CouncilStep \/ CleanupStep \/ EnvironmentStep

Spec == Init /\ [][Next]_vars

\* What the code's permissionless instructions allow to be assumed: slots pass,
\* and somebody submits Expire and CloseBuffer once they succeed.
FairSpec ==
    /\ Spec
    /\ WF_vars(Tick)
    /\ \A id \in Ids :
          /\ WF_vars(id \in DOMAIN proposals /\ Expire(id))
          /\ WF_vars(id \in DOMAIN proposals /\ CloseBuffer(id))

-------------------------------------------------------------------------------
(* Types *)

Config ==
    [ initialized : BOOLEAN, seats : [Seats -> Keys \cup {DefaultKey}],
      council_epoch : U64, timing_version : U64, timing : Timing, next_id : U64 ]

Proposal ==
    [ council_epoch : U64, timing_version : U64, timing : Timing, created : U64,
      review_end : U64, not_before : U64, expires : U64, action : Offered,
      approvals : SUBSET Seats, cancellations : SUBSET Seats, state : States,
      verified : SUBSET (1 .. MAX_CHUNKS), executed_slot : U64 ]

Gate ==
    [ status : {"Active", "EmergencyFrozen"}, epoch : U64, freeze_slot : U64,
      freeze_reason_code : 0 .. 4, last_completed_proposal : {0} \cup Ids ]

Program ==
    [ authority : {"deployer", "pda"}, deployed_slot : U64, closed : BOOLEAN,
      capacity : Nat, image : Contents ]

Buffer == [authority : {UPLOADER} \cup Ids, data : Contents]

ConfigOK ==
    /\ config \in Config
    /\ config.initialized => config.seats \in [Seats -> Keys]
    /\ DOMAIN proposals # {} => config.initialized

ProposalsOK ==
    /\ proposals \in [DOMAIN proposals -> Proposal]
    /\ DOMAIN proposals \subseteq Ids

GatesOK ==
    /\ gates \in [DOMAIN gates -> Gate]
    /\ DOMAIN gates \subseteq Targets

ProgramsOK == programs \in [Programs -> Program]

BuffersOK ==
    /\ buffers \in [DOMAIN buffers -> Buffer]
    /\ DOMAIN buffers \subseteq Buffers

RecordsOK ==
    /\ DOMAIN metadata \subseteq Programs
    /\ DOMAIN light \subseteq Programs

\* Every account keeps the layout its decoder expects and every u64 its width.
\* checked_add (state.rs add) is what keeps boundaries, epochs and ids in range.
TypeOK ==
    /\ slot \in 1 .. MaxSlot
    /\ ConfigOK
    /\ ProposalsOK
    /\ GatesOK
    /\ ProgramsOK
    /\ BuffersOK
    /\ RecordsOK
    /\ signed \in [Ids -> SUBSET Keys]

-------------------------------------------------------------------------------
(* Council decisions *)

\* Proposal id goes from pending to executed in this step.
Executes(id) ==
    /\ proposals[id].state = "PENDING"
    /\ id \in DOMAIN proposals'
    /\ proposals'[id].state = "EXECUTED"

\* Whatever was signed, rotated, cancelled or expired before, a proposal is
\* executed only if a quorum of the people who sit on the council at that
\* moment signed an approval of that very proposal.  The bitmap names seats,
\* not people: only the council epoch keeps a successor in seat i from
\* inheriting the approval of its predecessor (Proposal::current).
ExecutionHasQuorum ==
    [][\A id \in DOMAIN proposals :
          Executes(id) =>
             Cardinality(signed[id] \cap Members(config.seats)) >= THRESHOLD]_vars

\* The bitmap of a proposal of the sitting council is the set of its members
\* who signed: the fact behind ExecutionHasQuorum (Proposal::approve, seat).
BitmapIsSigners ==
    \A id \in DOMAIN proposals :
        LET p == proposals[id] IN
        p.council_epoch = config.council_epoch =>
            signed[id] = {config.seats[i] : i \in p.approvals}

CouncilSits == IF config.initialized THEN ConfigValid(config) ELSE config.next_id = 0

\* The inductive invariant behind the decisions of the council: besides the
\* bitmaps, that the sitting council is always a valid one (no key holds two
\* seats), that no proposal is ahead of the council's epoch, and that ids not
\* yet handed out carry no signatures (ConfigValid on save, create).
CouncilInv ==
    /\ TypeOK
    /\ BitmapIsSigners
    /\ CouncilSits
    /\ \A id \in DOMAIN proposals :
          id < config.next_id /\ proposals[id].council_epoch <= config.council_epoch
    /\ \A id \in Ids : id >= config.next_id => signed[id] = {}

\* The council and the timing in force are those of the last executed policy
\* proposal, and each version was replaced exactly once: two policies voted on
\* against the same version can never both take effect (execute_policy).
PolicyInForce ==
    config.initialized =>
        /\ \/ config.timing_version = 1 /\ config.timing = DefaultTiming
           \/ \E id \in DOMAIN proposals :
                 LET p == proposals[id] IN
                 /\ p.state = "EXECUTED" /\ p.action.kind = "SET_TIMING"
                 /\ p.timing_version = config.timing_version - 1
                 /\ p.action.timing = config.timing
        /\ \/ config.council_epoch = 1 /\ config.seats \in Councils
           \/ \E id \in DOMAIN proposals :
                 LET p == proposals[id] IN
                 /\ p.state = "EXECUTED" /\ p.action.kind = "ROTATE_COUNCIL"
                 /\ p.council_epoch = config.council_epoch - 1
                 /\ p.action.seats = config.seats
        /\ \A id, other \in DOMAIN proposals :
              LET p == proposals[id]
                  q == proposals[other] IN
              (/\ id # other
               /\ p.state = "EXECUTED" /\ q.state = "EXECUTED"
               /\ p.action.kind = q.action.kind) =>
                    /\ p.action.kind = "SET_TIMING" => p.timing_version # q.timing_version
                    /\ p.action.kind = "ROTATE_COUNCIL" => p.council_epoch # q.council_epoch

\* An id is spent for ever: the account of a reclaimed proposal never comes
\* back, so neither do its PDA's rights over a buffer (create, reclaim_records).
IdsNeverReused ==
    [][\A id \in Ids :
          id < config.next_id /\ id \notin DOMAIN proposals
             => id \notin DOMAIN proposals']_vars

-------------------------------------------------------------------------------
(* Code *)

UpgradedProgram(a) == IF a.kind = "UPGRADE_CONTROLLER" THEN Controller ELSE a.target

\* What was marked as verified is still in the buffer, and only the proposal
\* can touch that buffer, however the uploader, a second proposal on the same
\* buffer, or a hand-over that bypasses the controller interleave with it.
VerifiedMatchesBuffer ==
    \A id \in DOMAIN proposals :
        LET p == proposals[id]
            b == p.action.buffer IN
        p.state = "PENDING" /\ p.verified # {} =>
            /\ IsUpgrade(p.action)
            /\ b \in DOMAIN buffers
            /\ buffers[b].authority = id
            /\ Len(buffers[b].data) = Len(p.action.artifact)
            /\ p.verified \subseteq 1 .. Len(p.action.artifact)
            /\ \A i \in p.verified : buffers[b].data[i] = p.action.artifact[i]

\* The code of a program changes only by executing an upgrade proposal, and what
\* is then installed is, chunk by chunk, the artifact that proposal committed to.
InstallsApprovedArtifact ==
    [][/\ \A id \in DOMAIN proposals :
            Executes(id) /\ IsUpgrade(proposals[id].action) =>
               programs'[UpgradedProgram(proposals[id].action)].image
                  = proposals[id].action.artifact
       /\ \A t \in Programs :
            programs'[t].image # programs[t].image =>
               \E id \in DOMAIN proposals :
                  /\ Executes(id)
                  /\ IsUpgrade(proposals[id].action)
                  /\ UpgradedProgram(proposals[id].action) = t]_vars

\* A gate epoch pins the code: as long as the epoch stands, so does the image.
\* An activation voted for epoch e therefore releases the code of epoch e.
EpochPinsCode ==
    [][\A t \in DOMAIN gates :
          t \in DOMAIN gates' /\ gates'[t].epoch = gates[t].epoch =>
             /\ programs'[t].image = programs[t].image
             /\ gates'[t].status = gates[t].status]_vars

EpochKinds == {"UPGRADE_TARGET", "SET_TARGET_GATE", "RETIRE_TARGET"}

\* An epoch is used up by the proposal that was executed against it, for the
\* life of the target and beyond its retirement: no second proposal voted for
\* that epoch can act, not even through a gate that was reclaimed and remade.
ConsumedEpochIsPast ==
    \A id \in DOMAIN proposals :
        LET p == proposals[id] IN
        (/\ p.state = "EXECUTED"
         /\ p.action.kind \in EpochKinds
         /\ p.action.target \in DOMAIN gates)
              => p.action.gate_epoch < gates[p.action.target].epoch

\* The inductive invariant behind it: a target whose gate was reclaimed after a
\* proposal acted on it is closed for good, so register_target refuses it.
GateInv ==
    /\ TypeOK
    /\ ConsumedEpochIsPast
    /\ \A id \in DOMAIN proposals :
          LET p == proposals[id] IN
          (/\ p.state = "EXECUTED"
           /\ p.action.kind \in EpochKinds
           /\ p.action.target \notin DOMAIN gates)
                => programs[p.action.target].closed

\* A self-upgrade is installed over the release it was created under: between
\* its creation and its execution no other self-upgrade was installed, in a history
\* where no earlier release returns (upgrade_scope compares release numbers).
NoInterveningSelfUpgrade ==
    [][\A id \in DOMAIN proposals :
          Executes(id) /\ proposals[id].action.kind = "UPGRADE_CONTROLLER" =>
             \A other \in DOMAIN proposals :
                LET q == proposals[other] IN
                q.state = "EXECUTED" /\ q.action.kind = "UPGRADE_CONTROLLER"
                   => q.executed_slot <= proposals[id].created]_vars

\* The program state an executable proposal still depends on, the loader's
\* rule about the slot of the last deployment apart.
Ready(id) ==
    LET p == proposals[id]
        a == p.action IN
    CASE a.kind = "UPGRADE_CONTROLLER" -> ReleaseScope(id) /\ InstallReady(id, Controller)
      [] a.kind = "UPGRADE_TARGET" -> GateScope(id) /\ InstallReady(id, a.target)
      [] a.kind \in {"INITIALIZE_SPREAD_LIGHT_CONFIG", "PUBLISH_VERIFICATION",
                     "RETIRE_TARGET"} -> Executable(p, config, slot) /\ SameDeployment(a)
      [] OTHER -> Executable(p, config, slot)

Grown == \E t \in Programs : programs'[t].capacity > programs[t].capacity

\* Third-party growth of a program takes nothing away from an upgrade, gate or
\* policy proposal that could have been executed.
GrowthKeepsUpgrades ==
    [][\A id \in DOMAIN proposals :
          (/\ Grown
           /\ proposals[id].action.kind \in UpgradeKinds \cup PolicyKinds \cup {"SET_TARGET_GATE"}
           /\ Ready(id)) => Ready(id)']_vars

\* The same, of every proposal.
GrowthKeepsProposals ==
    [][\A id \in DOMAIN proposals : Grown /\ Ready(id) => Ready(id)']_vars

\* The running release can still rewrite every verification record it finds.
RecordsStayWritable ==
    \A p \in DOMAIN metadata : Recipe[RunningRelease][p] # 0 => RecordAccepted(p)

-------------------------------------------------------------------------------
(* Progress *)

\* Every proposal is settled in the end, even one whose council was replaced
\* and which nobody can cancel any more (expire reads no council).
PendingSettles ==
    \A id \in Ids :
        (id \in DOMAIN proposals /\ proposals[id].state = "PENDING")
           ~> (id \notin DOMAIN proposals \/ proposals[id].state # "PENDING")

HoldsDeadBuffer(id) ==
    /\ id \in DOMAIN proposals
    /\ proposals[id].state \in {"CANCELLED", "EXPIRED"}
    /\ IsUpgrade(proposals[id].action)
    /\ Sealed(id)

\* The buffer that a cancelled or expired proposal holds sealed is given back.
DeadBuffersReturn ==
    \A id \in Ids :
        HoldsDeadBuffer(id) ~> ~ HoldsDeadBuffer(id)

-------------------------------------------------------------------------------
(* The promise *)

DecisionStatus(id) ==
    IF id \notin DOMAIN proposals
    THEN IF id < config.next_id THEN "gone" ELSE "none"
    ELSE CASE proposals[id].state = "EXECUTED" -> "done"
           [] /\ proposals[id].state = "PENDING"
              /\ proposals[id].council_epoch = config.council_epoch -> "open"
           [] OTHER -> "void"

\* A pending proposal of an earlier council is already void; only an open one
\* has signers.
DecisionView ==
    [id \in Ids |->
        [ status |-> DecisionStatus(id),
          signers |-> IF DecisionStatus(id) = "open" THEN signed[id] ELSE {} ]]

CouncilView == IF config.initialized THEN Members(config.seats) ELSE {}

Decisions == INSTANCE CouncilDecisions
    WITH Persons <- Keys, DecisionIds <- Ids, Quorum <- THRESHOLD,
         council <- CouncilView, decision <- DecisionView

\* The controller implements CouncilDecisions.
ImplementsCouncilDecisions == Decisions!CDSpec
===============================================================================
