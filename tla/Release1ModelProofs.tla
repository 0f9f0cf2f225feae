-------------------------- MODULE Release1ModelProofs --------------------------
(***************************************************************************)
(* Proofs about the reference state machine of Release 1: its records keep *)
(* their layout and their 64 bits, the window of a rollback is still open  *)
(* when its primary has replaced the code, and code is replaced only for a *)
(* proposal that was decided.                                              *)
(***************************************************************************)
EXTENDS Release1Model, TLAPS

-------------------------------------------------------------------------------
(* The layout of the records *)

Councils == {FirstCouncil} \cup Candidates

Contents == Images \cup {o.image : o \in Observations}
Keys == Authorities \cup {o.authority : o \in Observations}
ProgramDataRecord == [image : Contents, authority : Keys]
RuntimeRecord == [image : Contents \cup {NULL}, authority : Keys \cup {NULL}]

Bindings == {Binding(c) : c \in Councils} \cup {NoBinding}
Approvals == [binding : Bindings, bitset : SUBSET Seats]

AttestationRecord ==
    [binding : Bindings, seat : Seats, gate_epoch : U64, hard_state : HardStates,
     drift : {0, 1}, attested_slot : U64]
CheckpointRecord ==
    [gate_epoch : U64, hard_state : HardStates, drift : {0, 1}, approvals : Approvals,
     accepted : BOOLEAN, accepted_slot : U64]
FailureRecord == [gate_epoch : U64, observed_slot : U64, programdata : ProgramDataRecord]

GateStatus == {"Active", "FrozenForUpgrade", "EmergencyFrozen"}
GateRecord ==
    [status : GateStatus, epoch : U64, active_proposal : ProposalIds \cup {NULL},
     freeze_slot : U64, freeze_reason : FreezeReasons \cup {BOOTSTRAP, GOVERNED, NULL},
     last_completed : ProposalIds \cup {NULL}]
FreezeRecord ==
    [freeze_slot : U64, freeze_reason : FreezeReasons, programdata : RuntimeRecord]

TimingRecord ==
    [creation_slot : U64, review_start_slot : U64, review_end_slot : U64,
     not_before_slot : U64, expiry_slot : U64]

TerminalReasons ==
    CancelReasons \cup {NULL, "EXPIRED", "COMPLETED", "SUPERSEDED_BY_ROLLBACK",
                        "RETIRED_ROLLBACK"}

ProposalStates == PreFreeze \cup InFlight \cup Terminal

ProposalRecord ==
    [class : Classes, state : ProposalStates, target_nonce : U64,
     creation_gate_status : GateStatus, creation_gate_epoch : U64,
     creation_observation : FreezeRecord \cup {NULL},
     creation_programdata : ProgramDataRecord, freeze_gate_epoch : U64,
     creation_council : Bindings, timing : TimingRecord,
     extension_required : BOOLEAN,
     primary_proposal : U64 \cup {NULL}, rollback_proposal : U64 \cup {NULL},
     initial_approvals : Approvals, cancellation_approvals : Approvals,
     unfreeze_approvals : Approvals,
     prestate : CheckpointRecord \cup {NULL}, poststate : CheckpointRecord \cup {NULL},
     prestate_attestations : SUBSET AttestationRecord,
     poststate_attestations : SUBSET AttestationRecord,
     frozen_slot : U64, extended_slot : U64, upgraded_slot : U64, verified_slot : U64,
     programdata_failure : FailureRecord \cup {NULL},
     cancellation_reason : CancelReasons \cup {NULL}, terminal_slot : U64,
     terminal_reason : TerminalReasons]

ResolutionRecord ==
    [state : {"Draft", "CouncilApproved", "Timelocked", "Executed", "Expired"},
     freeze_slot : U64, freeze_reason : FreezeReasons \cup {BOOTSTRAP, GOVERNED, NULL},
     target_nonce : U64, not_before_slot : U64, expiry_slot : U64,
     observed_programdata : RuntimeRecord, approvals : Approvals,
     checkpoint : CheckpointRecord \cup {NULL}, attestations : SUBSET AttestationRecord,
     executed_slot : U64]

RotationRecord ==
    [state : {"Draft", "CouncilApproved", "Timelocked", "Activated", "Cancelled", "Expired"},
     current : Bindings, candidate : Councils, target_nonce : U64, creation_slot : U64,
     not_before_slot : U64, expiry_slot : U64, approvals : Approvals,
     cancellation_approvals : Approvals, cancellation_reason : CancelReasons \cup {NULL},
     terminal_slot : U64]

ScalarTypes ==
    /\ slot \in U64 /\ initialized \in BOOLEAN
    /\ next_proposal_id \in U64 /\ target_nonce \in U64
    /\ ~ initialized => next_proposal_id = 0
    /\ next_candidate_council_version \in U64
    /\ council \in Councils
    /\ \A v \in DOMAIN council_history : council_history[v] \in Councils

AccountTypes ==
    /\ programdata \in ProgramDataRecord
    /\ runtime \in RuntimeRecord
    /\ authority \in Keys \cup {NULL}

GateTypes ==
    /\ gate \in GateRecord
    /\ \A e \in DOMAIN freeze_observations :
          e \in U64 /\ freeze_observations[e] \in FreezeRecord

ProposalTypes ==
    \A id \in DOMAIN proposals :
        /\ id \in ProposalIds /\ id < next_proposal_id
        /\ proposals[id] \in ProposalRecord

ResolutionTypes ==
    \A e \in DOMAIN resolutions : e \in U64 /\ resolutions[e] \in ResolutionRecord

RotationTypes ==
    \A v \in DOMAIN rotations : v \in U64 /\ rotations[v] \in RotationRecord

\* The type invariant: release1_model.rs keeps every record in its struct.
ModelTypes ==
    /\ ScalarTypes
    /\ AccountTypes
    /\ GateTypes
    /\ ProposalTypes
    /\ ResolutionTypes
    /\ RotationTypes

-------------------------------------------------------------------------------
(* The invariants *)

\* What a proposal has gone through when it waits or flies.
Approved(p) == Quorum(p.initial_approvals.bitset)

Decided(p) ==
    /\ p.state \in {"CouncilApproved", "GovernanceSatisfied", "Timelocked"} \cup InFlight
          => Approved(p)
    /\ p.state \in InFlight => p.timing.not_before_slot <= p.frozen_slot

DecidedInv == \A id \in DOMAIN proposals : Decided(proposals[id])

\* The pinned votes acc bind the registered council that binding names, and each was cast by
\* a seat in office at a slot of the review window.
Signed(acc, binding, timing) ==
    LET c == council_history[binding.version] IN
    /\ binding.version \in DOMAIN council_history
    /\ binding = Binding(c)
    /\ acc.binding = binding
    /\ \A i \in acc.bitset :
          \E s \in timing.review_start_slot .. timing.review_end_slot : SeatActive(c, i, s)

SignedBy(p) == Signed(p.initial_approvals, p.creation_council, p.timing)

SignedInv == \A id \in DOMAIN proposals : SignedBy(proposals[id])

\* An executed primary names a rollback that exists, and that keeps its window.
Windowed(id) ==
    LET p == proposals[id]
        r == proposals[p.rollback_proposal] IN
    p.class # "EmergencyRollback" /\ p.upgraded_slot # 0 =>
        /\ p.rollback_proposal \in DOMAIN proposals
        /\ r.timing.not_before_slot <= p.upgraded_slot
        /\ p.upgraded_slot + Delays.rollback_slots + Delays.review_slots + 1
               < r.timing.expiry_slot

WindowInv == \A id \in DOMAIN proposals : Windowed(id)

-------------------------------------------------------------------------------
(* One proposal moves *)

\* What no step changes in a proposal, or undoes.
Fixed(p, q) ==
    /\ q.class = p.class /\ q.timing = p.timing
    /\ q.rollback_proposal = p.rollback_proposal
    /\ q.creation_council = p.creation_council
    /\ SignedBy(p) => SignedBy(q)

\* A step that is not the execution takes proposal p to q.
Moved(p, q) ==
    /\ q \in ProposalRecord
    /\ Fixed(p, q) /\ q.upgraded_slot = p.upgraded_slot
    /\ Decided(p) => Decided(q)

\* Only proposal id is written, and it becomes q.
Writes(id, q) ==
    /\ DOMAIN proposals' = DOMAIN proposals
    /\ proposals'[id] = q
    /\ \A other \in DOMAIN proposals : other # id => proposals'[other] = proposals[other]

\* Nothing but the proposals changes.
ProposalsOnly ==
    UNCHANGED <<slot, initialized, govVars, pdVars, idVars, gate, freeze_observations,
                resolutions>>

-------------------------------------------------------------------------------
(* The operators *)

LEMMA BindingType == \A c \in Councils : Binding(c) \in Bindings
BY DEF Bindings

LEMMA ApprovalTypes ==
    /\ EmptyApprovals \in Approvals
    /\ \A c \in Councils : Pinned(c) \in Approvals
    /\ \A acc \in Approvals, c \in Councils : Rebound(acc, c) \in Approvals
    /\ \A acc \in Approvals, i \in Seats :
          /\ Recorded(acc, i) \in Approvals
          /\ Recorded(acc, i).binding = acc.binding
          /\ Recorded(acc, i).bitset = acc.bitset \cup {i}
BY DEF Approvals, EmptyApprovals, Pinned, Rebound, Recorded, Bindings

\* Every slot of a timing fits its width, for the checked additions.
LEMMA TimingType ==
    ASSUME NEW created \in U64, NEW class \in Classes, TimingFits(created, class)
    PROVE  ProposalTiming(created, class) \in TimingRecord
<1>1. /\ U64_MAX \in Nat
      /\ Delays.review_slots \in Nat /\ Delays.proposal_expiry_slots \in Nat
      /\ ClassDelay(class) \in Nat
  BY ModelAssumption, DelaysAssumption DEF U64, DelayField, ClassDelay, Classes
<1>2. created \in Nat /\ created <= U64_MAX
  BY ModelAssumption DEF U64
<1>3. /\ created + 1 + Delays.review_slots + ClassDelay(class) <= U64_MAX
      /\ created + Delays.proposal_expiry_slots <= U64_MAX
  BY DEF TimingFits, Fits
<1> QED
  BY <1>1, <1>2, <1>3 DEF ProposalTiming, TimingRecord, U64

LEMMA AttestedType ==
    ASSUME ScalarTypes, NEW atts \in SUBSET AttestationRecord, NEW i \in Seats,
           NEW epoch \in U64, NEW h \in HardStates, NEW drift \in {0, 1}
    PROVE  Attested(atts, i, epoch, h, drift) \in SUBSET AttestationRecord
BY BindingType DEF Attested, AttestationRecord, ScalarTypes

LEMMA CheckpointType ==
    ASSUME ScalarTypes, GateTypes, NEW seats \in SUBSET Seats, NEW a \in AttestationRecord
    PROVE  Checkpoint(seats, a) \in CheckpointRecord
<1>1. 0 \in U64 /\ slot \in U64 /\ gate.epoch \in U64
  BY ModelAssumption DEF ScalarTypes, GateTypes, GateRecord, U64
<1>2. [binding |-> Binding(council), bitset |-> seats] \in Approvals
  BY BindingType DEF Approvals, ScalarTypes
<1>3. a.hard_state \in HardStates /\ a.drift \in {0, 1}
  BY DEF AttestationRecord
<1> QED
  BY <1>1, <1>2, <1>3 DEF Checkpoint, CheckpointRecord

-------------------------------------------------------------------------------
(* The steps of one proposal *)

LEMMA AdvanceStep ==
    ASSUME ProposalTypes, NEW id \in DOMAIN proposals,
           NEW to \in {"BufferAdopted", "BufferVerified", "GovernanceSatisfied", "Timelocked"},
           NEW from, Moves(id, from, to),
           from \in {"Draft", "BufferAdopted", "CouncilApproved", "GovernanceSatisfied"},
           to \in {"GovernanceSatisfied", "Timelocked"} =>
              from \in {"CouncilApproved", "GovernanceSatisfied"}
    PROVE  ProposalsOnly /\ \E q : Writes(id, q) /\ Moved(proposals[id], q)
<1> DEFINE p == proposals[id]
           q == [p EXCEPT !.state = to]
<1>1. p \in ProposalRecord
  BY DEF ProposalTypes
<1>2. ProposalsOnly /\ Writes(id, q)
  BY DEF Moves, OnlyProposals, ProposalsOnly, Writes
<1>3. q \in ProposalRecord
  <2>1. to \in ProposalStates
    BY DEF ProposalStates, PreFreeze
  <2> QED
    BY <1>1, <2>1 DEF ProposalRecord
<1>4. Fixed(p, q) /\ q.upgraded_slot = p.upgraded_slot
  BY <1>1 DEF ProposalRecord, Fixed, SignedBy
<1>5. Decided(p) => Decided(q)
  BY <1>1 DEF ProposalRecord, Decided, Approved, Moves, InFlight
<1> QED
  BY <1>2, <1>3, <1>4, <1>5 DEF Moved

\* The vote of a seat in office joins the pinned votes.
LEMMA VoteSigned ==
    ASSUME ProposalTypes, ScalarTypes, NEW id \in DOMAIN proposals, NEW i \in Seats,
           ApproveProposal(id, i), NEW acc,
           acc.binding = proposals[id].initial_approvals.binding,
           acc.bitset = proposals[id].initial_approvals.bitset \cup {i},
           Signed(proposals[id].initial_approvals, proposals[id].creation_council,
                  proposals[id].timing)
    PROVE  Signed(acc, proposals[id].creation_council, proposals[id].timing)
<1> DEFINE p == proposals[id]
           t == p.timing
           c == council_history[p.creation_council.version]
<1>1. p.creation_council = Binding(council) /\ SeatActive(council, i, slot)
      /\ t.review_start_slot <= slot /\ slot <= t.review_end_slot
  BY DEF ApproveProposal, MayRecordPinned
<1>2. council_history[council.version] = council
  BY DEF ApproveProposal, Ready, ValidateCore
<1>3. c = council
  BY <1>1, <1>2 DEF Binding
<1>4. slot \in t.review_start_slot .. t.review_end_slot
  <2>1. t \in TimingRecord
    BY DEF ProposalTypes, ProposalRecord
  <2>2. t.review_start_slot \in Nat /\ t.review_end_slot \in Nat /\ slot \in Nat
    BY <2>1, ModelAssumption DEF TimingRecord, ScalarTypes, U64
  <2> QED
    BY <1>1, <2>2
<1> QED
  BY <1>1, <1>3, <1>4 DEF Signed

LEMMA ApproveStep ==
    ASSUME ProposalTypes, ScalarTypes, NEW id \in DOMAIN proposals, NEW i \in Seats,
           ApproveProposal(id, i)
    PROVE  ProposalsOnly /\ \E q : Writes(id, q) /\ Moved(proposals[id], q)
<1> DEFINE p == proposals[id]
           acc == Recorded(p.initial_approvals, i)
           s == IF Crosses(p.initial_approvals, i) THEN "CouncilApproved" ELSE p.state
           q == [p EXCEPT !.initial_approvals = acc, !.state = s]
<1>1. p \in ProposalRecord
  BY DEF ProposalTypes
<1>2. p.initial_approvals \in Approvals /\ p.state \in ProposalStates
  BY <1>1 DEF ProposalRecord
<1>3. /\ acc \in Approvals /\ acc.binding = p.initial_approvals.binding
      /\ acc.bitset = p.initial_approvals.bitset \cup {i}
  BY <1>2, ApprovalTypes
<1>4. s \in ProposalStates
  BY <1>2 DEF ProposalStates, PreFreeze
<1>5. ProposalsOnly /\ Writes(id, q)
  BY <1>1 DEF ApproveProposal, OnlyProposals, ProposalsOnly, Writes, ProposalRecord
<1>6. p.state = "BufferVerified" /\ p.creation_council = Binding(council)
      /\ p.initial_approvals.binding = Binding(council)
  BY DEF ApproveProposal, MayRecordPinned
<1>7. s = "CouncilApproved" => Quorum(acc.bitset)
  BY <1>3, <1>6 DEF Crosses
<1>8. s \in {"CouncilApproved", "BufferVerified"}
  BY <1>6
<1> HIDE DEF acc, s
<1>9. q \in ProposalRecord
  BY <1>1, <1>3, <1>4 DEF ProposalRecord
<1>10. /\ q.class = p.class /\ q.timing = p.timing
       /\ q.rollback_proposal = p.rollback_proposal
       /\ q.upgraded_slot = p.upgraded_slot /\ q.state = s
       /\ q.initial_approvals = acc /\ q.creation_council = p.creation_council
  BY <1>1 DEF ProposalRecord
<1>11. Decided(q)
  BY <1>3, <1>6, <1>7, <1>8, <1>10 DEF Decided, Approved, InFlight
<1>12. SignedBy(p) => SignedBy(q)
  BY <1>3, <1>6, <1>10, VoteSigned DEF SignedBy
<1>13. Fixed(p, q)
  BY <1>10, <1>12 DEF Fixed
<1> QED
  BY <1>5, <1>9, <1>10, <1>11, <1>13 DEF Moved

LEMMA CancelStep ==
    ASSUME ProposalTypes, ScalarTypes, NEW id \in DOMAIN proposals, NEW i \in Seats,
           NEW reason \in CancelReasons, ApproveCancellation(id, i, reason)
    PROVE  ProposalsOnly /\ \E q : Writes(id, q) /\ Moved(proposals[id], q)
<1> DEFINE p == proposals[id]
           acc == Rebound(p.cancellation_approvals, council)
           now == Recorded(acc, i)
           voted == [p EXCEPT !.cancellation_approvals = now, !.cancellation_reason = reason]
           over == [p EXCEPT !.cancellation_approvals = now, !.cancellation_reason = reason,
                             !.state = "Cancelled", !.terminal_slot = slot,
                             !.terminal_reason = reason]
           q == IF Crosses(acc, i) THEN over ELSE voted
<1>1. p \in ProposalRecord
  BY DEF ProposalTypes
<1>2. p.cancellation_approvals \in Approvals /\ council \in Councils /\ slot \in U64
  BY <1>1 DEF ProposalRecord, ScalarTypes
<1>3. acc \in Approvals /\ now \in Approvals
  BY <1>2, ApprovalTypes
<1>4. ProposalsOnly /\ Writes(id, q)
  BY <1>1 DEF ApproveCancellation, OnlyProposals, ProposalsOnly, Writes
<1> HIDE DEF acc, now
<1>5. voted \in ProposalRecord /\ over \in ProposalRecord
  <2>1. "Cancelled" \in ProposalStates /\ reason \in TerminalReasons
    BY DEF ProposalStates, Terminal, TerminalReasons
  <2>2. voted \in ProposalRecord
    BY <1>1, <1>3 DEF ProposalRecord
  <2>3. over \in ProposalRecord
    BY <1>1, <1>2, <1>3, <2>1 DEF ProposalRecord
  <2> QED
    BY <2>2, <2>3
<1>6. /\ Fixed(p, voted) /\ voted.upgraded_slot = p.upgraded_slot
      /\ Fixed(p, over) /\ over.upgraded_slot = p.upgraded_slot
  BY <1>1 DEF ProposalRecord, Fixed, SignedBy
<1>7. (Decided(p) => Decided(voted)) /\ Decided(over)
  BY <1>1 DEF ProposalRecord, Decided, Approved, InFlight
<1> QED
  BY <1>4, <1>5, <1>6, <1>7 DEF Moved

LEMMA ExpireStep ==
    ASSUME ProposalTypes, ScalarTypes, NEW id \in DOMAIN proposals, ExpireProposal(id)
    PROVE  ProposalsOnly /\ \E q : Writes(id, q) /\ Moved(proposals[id], q)
<1> DEFINE p == proposals[id]
           q == [p EXCEPT !.state = "Expired", !.terminal_slot = slot,
                          !.terminal_reason = "EXPIRED"]
<1>1. p \in ProposalRecord /\ slot \in U64
  BY DEF ProposalTypes, ScalarTypes
<1>2. ProposalsOnly /\ Writes(id, q)
  BY <1>1 DEF ExpireProposal, OnlyProposals, ProposalsOnly, Writes, ProposalRecord
<1>3. q \in ProposalRecord
  <2>1. "Expired" \in ProposalStates /\ "EXPIRED" \in TerminalReasons
    BY DEF ProposalStates, Terminal, TerminalReasons
  <2> QED
    BY <1>1, <2>1 DEF ProposalRecord
<1>4. Fixed(p, q) /\ q.upgraded_slot = p.upgraded_slot /\ q.state = "Expired"
  BY <1>1 DEF ProposalRecord, Fixed, SignedBy
<1>5. Decided(q)
  BY <1>4 DEF Decided, InFlight
<1> QED
  BY <1>2, <1>3, <1>4, <1>5 DEF Moved

LEMMA AttestStep ==
    ASSUME ProposalTypes, ScalarTypes, GateTypes, NEW id \in DOMAIN proposals,
           NEW i \in Seats, NEW h \in HardStates, NEW drift \in {0, 1},
           NEW phase \in {"prestate", "poststate"}, AttestCheckpoint(id, phase, i, h, drift)
    PROVE  ProposalsOnly /\ \E q : Writes(id, q) /\ Moved(proposals[id], q)
<1> DEFINE p == proposals[id]
           pre == Attested(p.prestate_attestations, i, gate.epoch, h, drift)
           post == Attested(p.poststate_attestations, i, gate.epoch, h, drift)
           before == [p EXCEPT !.prestate_attestations = pre]
           after == [p EXCEPT !.poststate_attestations = post]
<1>1. p \in ProposalRecord /\ gate.epoch \in U64
  BY DEF ProposalTypes, GateTypes, GateRecord
<1>2. pre \in SUBSET AttestationRecord /\ post \in SUBSET AttestationRecord
  <2>1. /\ p.prestate_attestations \in SUBSET AttestationRecord
        /\ p.poststate_attestations \in SUBSET AttestationRecord
    BY <1>1 DEF ProposalRecord
  <2> QED
    BY <1>1, <2>1, AttestedType
<1>3. /\ ProposalsOnly
      /\ phase = "prestate" => Writes(id, before)
      /\ phase = "poststate" => Writes(id, after)
  BY <1>1 DEF AttestCheckpoint, Attestations, OnlyProposals, ProposalsOnly, Writes,
     ProposalRecord
<1> HIDE DEF pre, post
<1>4. before \in ProposalRecord /\ after \in ProposalRecord
  BY <1>1, <1>2 DEF ProposalRecord
<1>5. /\ Fixed(p, before) /\ before.upgraded_slot = p.upgraded_slot
      /\ Fixed(p, after) /\ after.upgraded_slot = p.upgraded_slot
  BY <1>1 DEF ProposalRecord, Fixed, SignedBy
<1>6. Decided(p) => Decided(before) /\ Decided(after)
  BY <1>1 DEF ProposalRecord, Decided, Approved, InFlight
<1> QED
  BY <1>3, <1>4, <1>5, <1>6 DEF Moved

LEMMA FinalizeStep ==
    ASSUME ProposalTypes, ScalarTypes, GateTypes, NEW id \in DOMAIN proposals,
           NEW phase \in {"prestate", "poststate"}, NEW seats \in SUBSET Seats,
           FinalizeCheckpoint(id, phase, seats)
    PROVE  ProposalsOnly /\ \E q : Writes(id, q) /\ Moved(proposals[id], q)
<1> DEFINE p == proposals[id]
<1>1. p \in ProposalRecord
  BY DEF ProposalTypes
<1>2. PICK a \in p[Attestations(phase)] :
         OnlyProposals([proposals EXCEPT
             ![id][phase] = Checkpoint(seats, a),
             ![id].state = IF phase = "poststate" /\ a.drift = 0
                           THEN "PoststateAccepted" ELSE @])
  BY DEF FinalizeCheckpoint
<1> DEFINE cp == Checkpoint(seats, a)
           s == IF a.drift = 0 THEN "PoststateAccepted" ELSE p.state
           before == [p EXCEPT !.prestate = cp]
           after == [p EXCEPT !.poststate = cp, !.state = s]
<1>3. a \in AttestationRecord
  BY <1>1, <1>2 DEF ProposalRecord, Attestations
<1>4. cp \in CheckpointRecord
  BY <1>3, CheckpointType
<1>5. p.state \in ProposalStates /\ s \in ProposalStates
  BY <1>1 DEF ProposalRecord, ProposalStates, InFlight
<1>6. p.state = PhaseState(phase)
  BY DEF FinalizeCheckpoint
<1>7. ProposalsOnly
  BY <1>2 DEF OnlyProposals, ProposalsOnly
<1>8. phase = "prestate" => Writes(id, before)
  BY <1>1, <1>2 DEF OnlyProposals, Writes, ProposalRecord
<1>9. phase = "poststate" => Writes(id, after)
  BY <1>1, <1>2 DEF OnlyProposals, Writes, ProposalRecord
<1> HIDE DEF cp, s
<1>10. before \in ProposalRecord /\ after \in ProposalRecord
  <2>1. before \in ProposalRecord
    BY <1>1, <1>4 DEF ProposalRecord
  <2>2. after \in ProposalRecord
    BY <1>1, <1>4, <1>5 DEF ProposalRecord
  <2> QED
    BY <2>1, <2>2
<1>11. /\ Fixed(p, before) /\ before.upgraded_slot = p.upgraded_slot
       /\ Fixed(p, after) /\ after.upgraded_slot = p.upgraded_slot
  BY <1>1 DEF ProposalRecord, Fixed, SignedBy
<1>12. Decided(p) => Decided(before)
  BY <1>1 DEF ProposalRecord, Decided, Approved
<1>13. phase = "poststate" /\ Decided(p) => Decided(after)
  BY <1>1, <1>6 DEF ProposalRecord, Decided, Approved, PhaseState, InFlight
<1> QED
  BY <1>7, <1>8, <1>9, <1>10, <1>11, <1>12, <1>13 DEF Moved

LEMMA ExtendStep ==
    ASSUME ProposalTypes, ScalarTypes, NEW id \in DOMAIN proposals, ExtendTarget(id)
    PROVE  ProposalsOnly /\ \E q : Writes(id, q) /\ Moved(proposals[id], q)
<1> DEFINE p == proposals[id]
           q == [p EXCEPT !.state = "Extended", !.extended_slot = slot]
<1>1. p \in ProposalRecord /\ slot \in U64
  BY DEF ProposalTypes, ScalarTypes
<1>2. ProposalsOnly /\ Writes(id, q)
  BY <1>1 DEF ExtendTarget, OnlyProposals, ProposalsOnly, Writes, ProposalRecord
<1>3. q \in ProposalRecord
  <2>1. "Extended" \in ProposalStates
    BY DEF ProposalStates, InFlight
  <2> QED
    BY <1>1, <2>1 DEF ProposalRecord
<1>4. Fixed(p, q) /\ q.upgraded_slot = p.upgraded_slot
  BY <1>1 DEF ProposalRecord, Fixed, SignedBy
<1>5. Decided(p) => Decided(q)
  BY <1>1 DEF ProposalRecord, Decided, Approved, ExtendTarget, InFlight
<1> QED
  BY <1>2, <1>3, <1>4, <1>5 DEF Moved

LEMMA VerifyStep ==
    ASSUME ProposalTypes, ScalarTypes, NEW id \in DOMAIN proposals, VerifyProgramData(id)
    PROVE  ProposalsOnly /\ \E q : Writes(id, q) /\ Moved(proposals[id], q)
<1> DEFINE p == proposals[id]
           q == [p EXCEPT !.state = "ProgramDataVerified", !.verified_slot = slot]
<1>1. p \in ProposalRecord /\ slot \in U64
  BY DEF ProposalTypes, ScalarTypes
<1>2. ProposalsOnly /\ Writes(id, q)
  BY <1>1 DEF VerifyProgramData, OnlyProposals, ProposalsOnly, Writes, ProposalRecord
<1>3. q \in ProposalRecord
  <2>1. "ProgramDataVerified" \in ProposalStates
    BY DEF ProposalStates, InFlight
  <2> QED
    BY <1>1, <2>1 DEF ProposalRecord
<1>4. Fixed(p, q) /\ q.upgraded_slot = p.upgraded_slot
  BY <1>1 DEF ProposalRecord, Fixed, SignedBy
<1>5. Decided(p) => Decided(q)
  BY <1>1 DEF ProposalRecord, Decided, Approved, VerifyProgramData, InFlight
<1> QED
  BY <1>2, <1>3, <1>4, <1>5 DEF Moved

LEMMA FailureStep ==
    ASSUME ProposalTypes, ScalarTypes, AccountTypes, GateTypes,
           NEW id \in DOMAIN proposals, RecordProgramDataFailure(id)
    PROVE  ProposalsOnly /\ \E q : Writes(id, q) /\ Moved(proposals[id], q)
<1> DEFINE p == proposals[id]
           failure == [gate_epoch |-> gate.epoch, observed_slot |-> slot,
                       programdata |-> programdata]
           q == [p EXCEPT !.programdata_failure = failure]
<1>1. p \in ProposalRecord
  BY DEF ProposalTypes
<1>2. failure \in FailureRecord
  BY DEF FailureRecord, ScalarTypes, AccountTypes, GateTypes, GateRecord
<1>3. ProposalsOnly /\ Writes(id, q)
  BY <1>1 DEF RecordProgramDataFailure, OnlyProposals, ProposalsOnly, Writes, ProposalRecord
<1> HIDE DEF failure
<1>4. q \in ProposalRecord
  BY <1>1, <1>2 DEF ProposalRecord
<1>5. Fixed(p, q) /\ q.upgraded_slot = p.upgraded_slot
  BY <1>1 DEF ProposalRecord, Fixed, SignedBy
<1>6. Decided(p) => Decided(q)
  BY <1>1 DEF ProposalRecord, Decided, Approved
<1> QED
  BY <1>3, <1>4, <1>5, <1>6 DEF Moved

LEMMA UnfreezeVoteStep ==
    ASSUME ProposalTypes, ScalarTypes, NEW id \in DOMAIN proposals, NEW i \in Seats,
           ApproveUnfreeze(id, i)
    PROVE  ProposalsOnly /\ \E q : Writes(id, q) /\ Moved(proposals[id], q)
<1> DEFINE p == proposals[id]
           acc == Rebound(p.unfreeze_approvals, council)
           now == Recorded(acc, i)
           s == IF Crosses(acc, i) THEN "UnfreezeApproved" ELSE "PoststateAccepted"
           q == [p EXCEPT !.unfreeze_approvals = now, !.state = s]
<1>1. p \in ProposalRecord
  BY DEF ProposalTypes
<1>2. p.unfreeze_approvals \in Approvals /\ council \in Councils
  BY <1>1 DEF ProposalRecord, ScalarTypes
<1>3. now \in Approvals
  BY <1>2, ApprovalTypes
<1>4. s \in ProposalStates /\ s \in InFlight
  BY DEF ProposalStates, InFlight
<1>5. p.state \in InFlight
  BY DEF ApproveUnfreeze, InFlight
<1>6. ProposalsOnly /\ Writes(id, q)
  BY <1>1 DEF ApproveUnfreeze, OnlyProposals, ProposalsOnly, Writes, ProposalRecord
<1> HIDE DEF now, s
<1>7. q \in ProposalRecord
  BY <1>1, <1>3, <1>4 DEF ProposalRecord
<1>8. Fixed(p, q) /\ q.upgraded_slot = p.upgraded_slot
  BY <1>1 DEF ProposalRecord, Fixed, SignedBy
<1>9. Decided(p) => Decided(q)
  BY <1>1, <1>4, <1>5 DEF ProposalRecord, Decided, Approved
<1> QED
  BY <1>6, <1>7, <1>8, <1>9 DEF Moved

\* The execution is the one step that moves upgraded_slot.
Executed(id, q) ==
    /\ q \in ProposalRecord
    /\ Fixed(proposals[id], q) /\ q.upgraded_slot = slot
    /\ Decided(proposals[id]) => Decided(q)

LEMMA ExecuteStep ==
    ASSUME ProposalTypes, ScalarTypes, NEW id \in DOMAIN proposals, ExecuteUpgrade(id)
    PROVE  ProposalsOnly /\ \E q : Writes(id, q) /\ Executed(id, q)
<1> DEFINE p == proposals[id]
           q == [p EXCEPT !.state = "UpgradeExecuted", !.upgraded_slot = slot]
<1>1. p \in ProposalRecord /\ slot \in U64
  BY DEF ProposalTypes, ScalarTypes
<1>2. ProposalsOnly /\ Writes(id, q)
  BY <1>1 DEF ExecuteUpgrade, OnlyProposals, ProposalsOnly, Writes, ProposalRecord
<1>3. q \in ProposalRecord
  <2>1. "UpgradeExecuted" \in ProposalStates
    BY DEF ProposalStates, InFlight
  <2> QED
    BY <1>1, <2>1 DEF ProposalRecord
<1>4. Fixed(p, q) /\ q.upgraded_slot = slot
  BY <1>1 DEF ProposalRecord, Fixed, SignedBy
<1>5. p.state \in {"Frozen", "Extended"}
  BY DEF ExecuteUpgrade
<1>6. Decided(p) => Decided(q)
  BY <1>1, <1>5 DEF ProposalRecord, Decided, Approved, InFlight
<1> QED
  BY <1>2, <1>3, <1>4, <1>6 DEF Executed

-------------------------------------------------------------------------------
(* The steps that move the gate with the proposals *)

ProposalsMove ==
    /\ DOMAIN proposals' = DOMAIN proposals
    /\ \A id \in DOMAIN proposals : Moved(proposals[id], proposals'[id])

LEMMA StaysMoved == \A p \in ProposalRecord : Moved(p, p)
BY DEF Moved, Fixed

LEMMA WritesMove ==
    ASSUME ProposalTypes, NEW id \in DOMAIN proposals, NEW q,
           Writes(id, q), Moved(proposals[id], q)
    PROVE  ProposalsMove
BY StaysMoved DEF ProposalTypes, Writes, ProposalsMove

LEMMA FreezeStep ==
    ASSUME ModelTypes, NEW id \in DOMAIN proposals, NEW status, FreezeFrom(id, status)
    PROVE  /\ ProposalsMove /\ gate' \in GateRecord /\ target_nonce' \in U64
           /\ UNCHANGED <<slot, initialized, govVars, pdVars, next_proposal_id,
                          freeze_observations, resolutions>>
<1> DEFINE p == proposals[id]
           q == [p EXCEPT !.state = "Frozen", !.frozen_slot = slot,
                          !.freeze_gate_epoch = gate.epoch + 1]
<1>1. /\ p \in ProposalRecord /\ slot \in U64 /\ gate \in GateRecord /\ target_nonce \in U64
      /\ id \in ProposalIds
  BY DEF ModelTypes, ProposalTypes, ScalarTypes, GateTypes
<1>2. gate.epoch + 1 \in U64 /\ target_nonce + 1 \in U64
  BY <1>1, ModelAssumption DEF FreezeFrom, Fits, U64, GateRecord
<1>3. Writes(id, q)
  BY <1>1 DEF FreezeFrom, Writes
<1>4. q \in ProposalRecord
  <2>1. "Frozen" \in ProposalStates
    BY DEF ProposalStates, InFlight
  <2> QED
    BY <1>1, <1>2, <2>1 DEF ProposalRecord
<1>5. Fixed(p, q) /\ q.upgraded_slot = p.upgraded_slot
  BY <1>1 DEF ProposalRecord, Fixed, SignedBy
<1>6. Decided(p) => Decided(q)
  <2>1. /\ q.initial_approvals = p.initial_approvals
        /\ q.creation_council = p.creation_council
        /\ q.frozen_slot = slot
    BY <1>1 DEF ProposalRecord
  <2>2. Approved(p) /\ p.timing.not_before_slot <= slot
    BY DEF FreezeFrom, PinnedQuorum, Approved, Due
  <2> QED
    BY <1>5, <2>1, <2>2 DEF Decided, Approved, Fixed
<1>7. ProposalsMove
  BY <1>3, <1>4, <1>5, <1>6, WritesMove DEF Moved, ModelTypes
<1>8. gate' \in GateRecord
  <2>1. gate' = [gate EXCEPT !.epoch = @ + 1, !.status = "FrozenForUpgrade",
                             !.active_proposal = id, !.freeze_slot = slot,
                             !.freeze_reason = GOVERNED]
    BY DEF FreezeFrom
  <2> QED
    BY <1>1, <1>2, <2>1 DEF GateRecord, GateStatus
<1>9. target_nonce' \in U64
  BY <1>2 DEF FreezeFrom
<1> QED
  BY <1>7, <1>8, <1>9 DEF FreezeFrom

LEMMA ActivateStep ==
    ASSUME ModelTypes, NEW id \in DOMAIN proposals, NEW rid \in DOMAIN proposals,
           ActivateRollback(id, rid)
    PROVE  /\ ProposalsMove /\ gate' \in GateRecord
           /\ UNCHANGED <<slot, initialized, govVars, pdVars, idVars, freeze_observations,
                          resolutions>>
<1> DEFINE p == proposals[rid]
           q == [p EXCEPT !.state = "Frozen", !.frozen_slot = slot,
                          !.freeze_gate_epoch = gate.epoch + 1]
<1>1. /\ p \in ProposalRecord /\ slot \in U64 /\ gate \in GateRecord
      /\ rid \in ProposalIds
  BY DEF ModelTypes, ProposalTypes, ScalarTypes, GateTypes
<1>2. gate.epoch + 1 \in U64
  BY <1>1, ModelAssumption DEF ActivateRollback, Fits, U64, GateRecord
<1>3. Writes(rid, q)
  BY <1>1 DEF ActivateRollback, Writes
<1>4. q \in ProposalRecord
  <2>1. "Frozen" \in ProposalStates
    BY DEF ProposalStates, InFlight
  <2> QED
    BY <1>1, <1>2, <2>1 DEF ProposalRecord
<1>5. Fixed(p, q) /\ q.upgraded_slot = p.upgraded_slot
  BY <1>1 DEF ProposalRecord, Fixed, SignedBy
<1>6. Decided(p) => Decided(q)
  <2>1. /\ q.initial_approvals = p.initial_approvals
        /\ q.creation_council = p.creation_council
        /\ q.frozen_slot = slot
    BY <1>1 DEF ProposalRecord
  <2>2. p.state = "Timelocked" /\ p.timing.not_before_slot <= slot
    <3>1. slot >= p.timing.not_before_slot
      BY DEF ActivateRollback
    <3>2. p.timing.not_before_slot \in U64
      BY <1>1 DEF ProposalRecord, TimingRecord
    <3> QED
      BY <1>1, <3>1, <3>2 DEF ActivateRollback, U64
  <2> QED
    BY <1>5, <2>1, <2>2 DEF Decided, Approved, Fixed
<1>7. ProposalsMove
  BY <1>3, <1>4, <1>5, <1>6, WritesMove DEF Moved, ModelTypes
<1>8. gate' \in GateRecord
  <2>1. gate' = [gate EXCEPT !.epoch = @ + 1, !.active_proposal = rid,
                             !.freeze_slot = slot, !.freeze_reason = GOVERNED]
    BY DEF ActivateRollback
  <2> QED
    BY <1>1, <1>2, <2>1 DEF GateRecord, GateStatus
<1> QED
  BY <1>7, <1>8 DEF ActivateRollback

LEMMA ReopenedType ==
    ASSUME GateTypes, Fits(gate.epoch + 1)
    PROVE  /\ ActiveGate(gate) \in GateRecord
           /\ \A id \in ProposalIds :
                 [ActiveGate(gate) EXCEPT !.last_completed = id] \in GateRecord
<1>1. gate \in GateRecord /\ gate.epoch + 1 \in U64 /\ 0 \in U64
  BY ModelAssumption DEF GateTypes, GateRecord, Fits, U64
<1> QED
  BY <1>1 DEF GateRecord, GateStatus, ActiveGate

LEMMA SettledMoves ==
    ASSUME ScalarTypes, NEW p \in ProposalRecord,
           NEW s \in {"Completed", "SupersededByRollback", "Retired"},
           NEW r \in {"COMPLETED", "SUPERSEDED_BY_ROLLBACK", "RETIRED_ROLLBACK"}
    PROVE  Moved(p, Settled(p, s, r))
<1> DEFINE q == [p EXCEPT !.state = s, !.terminal_slot = slot, !.terminal_reason = r]
<1>1. s \in ProposalStates /\ s \notin InFlight /\ r \in TerminalReasons /\ slot \in U64
      /\ s \notin {"CouncilApproved", "GovernanceSatisfied", "Timelocked"}
  BY DEF ProposalStates, Terminal, InFlight, TerminalReasons, ScalarTypes
<1>2. q \in ProposalRecord
  BY <1>1 DEF ProposalRecord
<1>3. Fixed(p, q) /\ q.upgraded_slot = p.upgraded_slot /\ q.state = s
  BY DEF ProposalRecord, Fixed, SignedBy
<1>4. Decided(q)
  BY <1>1, <1>3 DEF Decided
<1> QED
  BY <1>2, <1>3, <1>4 DEF Moved, Settled

LEMMA UnfreezeStep ==
    ASSUME ModelTypes, NEW id \in DOMAIN proposals, ExecuteUnfreeze(id)
    PROVE  /\ ProposalsMove /\ gate' \in GateRecord
           /\ UNCHANGED <<slot, initialized, govVars, pdVars, idVars, freeze_observations,
                          resolutions>>
<1> DEFINE p == proposals[id]
           other == IF p.class = "EmergencyRollback" THEN p.primary_proposal
                    ELSE p.rollback_proposal
           done(r) == Settled(r, "Completed", "COMPLETED")
           last(r) == IF p.class = "EmergencyRollback"
                      THEN Settled(r, "SupersededByRollback", "SUPERSEDED_BY_ROLLBACK")
                      ELSE Settled(r, "Retired", "RETIRED_ROLLBACK")
<1>1. \A o \in DOMAIN proposals : proposals[o] \in ProposalRecord /\ o \in ProposalIds
  BY DEF ModelTypes, ProposalTypes
<1>2. other \in DOMAIN proposals
  BY DEF ExecuteUnfreeze, Exists
<1>3. proposals' = [proposals EXCEPT ![id] = done(@), ![other] = last(@)]
  BY DEF ExecuteUnfreeze
<1>4. \A r \in ProposalRecord : Moved(r, done(r)) /\ Moved(r, last(r))
  BY SettledMoves DEF ModelTypes
<1> HIDE DEF done, last, other
<1>5. DOMAIN proposals' = DOMAIN proposals
  BY <1>3
<1>6. \A o \in DOMAIN proposals :
         \/ proposals'[o] = proposals[o]
         \/ proposals'[o] = done(proposals[o])
         \/ proposals'[o] = last(proposals[o])
         \/ proposals'[o] = last(done(proposals[o]))
  BY <1>2, <1>3
<1>7. \A r \in ProposalRecord : Moved(r, last(done(r)))
  BY <1>4 DEF Moved, Fixed
<1>8. ProposalsMove
  BY <1>1, <1>4, <1>5, <1>6, <1>7, StaysMoved DEF ProposalsMove
<1>9. Fits(gate.epoch + 1) /\ gate' = [ActiveGate(gate) EXCEPT !.last_completed = id]
  BY DEF ExecuteUnfreeze
<1>10. gate' \in GateRecord
  BY <1>1, <1>9, ReopenedType DEF ModelTypes
<1> QED
  BY <1>8, <1>10 DEF ExecuteUnfreeze

-------------------------------------------------------------------------------
(* Creation *)

LEMMA ProposalsTyped ==
    ASSUME ProposalTypes, ProposalsMove, UNCHANGED next_proposal_id
    PROVE  ProposalTypes'
BY DEF ProposalTypes, ProposalsMove, Moved

LEMMA CreateStep ==
    ASSUME ModelTypes, CreateProposal
    PROVE  /\ ProposalTypes' /\ next_proposal_id' \in U64
           /\ \A id \in DOMAIN proposals :
                 id \in DOMAIN proposals' /\ proposals'[id] = proposals[id]
           /\ \A id \in DOMAIN proposals' \ DOMAIN proposals :
                 /\ proposals'[id].upgraded_slot = 0
                 /\ proposals'[id].state = "Draft"
                 /\ proposals'[id].initial_approvals = Pinned(council)
                 /\ proposals'[id].creation_council = Binding(council)
           /\ initialized
           /\ UNCHANGED <<slot, initialized, govVars, pdVars, target_nonce, gate,
                          freeze_observations, resolutions>>
<1> DEFINE Fresh(r) ==
             [ class |-> r.class, state |-> "Draft", target_nonce |-> target_nonce,
               creation_gate_status |-> gate.status, creation_gate_epoch |-> gate.epoch,
               creation_observation |->
                   IF GuardianFrozen THEN freeze_observations[gate.epoch] ELSE NULL,
               creation_programdata |-> programdata, freeze_gate_epoch |-> 0,
               creation_council |-> Binding(council),
               timing |-> ProposalTiming(slot, r.class),
               extension_required |-> r.extension_required,
               primary_proposal |-> r.primary_proposal,
               rollback_proposal |-> r.rollback_proposal,
               initial_approvals |-> Pinned(council),
               cancellation_approvals |-> EmptyApprovals,
               unfreeze_approvals |-> EmptyApprovals,
               prestate |-> NULL, poststate |-> NULL,
               prestate_attestations |-> {}, poststate_attestations |-> {},
               frozen_slot |-> 0, extended_slot |-> 0, upgraded_slot |-> 0,
               verified_slot |-> 0, programdata_failure |-> NULL,
               cancellation_reason |-> NULL, terminal_slot |-> 0, terminal_reason |-> NULL ]
<1>1. PICK r \in Requests :
         /\ TimingFits(slot, r.class)
         /\ proposals' = [p \in DOMAIN proposals \cup {next_proposal_id} |->
                             IF p # next_proposal_id THEN proposals[p] ELSE Fresh(r)]
  BY DEF CreateProposal
<1>2. /\ next_proposal_id \in ProposalIds /\ next_proposal_id' = next_proposal_id + 1
      /\ Fits(next_proposal_id + 1)
      /\ UNCHANGED <<slot, initialized, govVars, pdVars, target_nonce, gate,
                     freeze_observations, resolutions>>
  BY DEF CreateProposal
<1>3. next_proposal_id \in Nat /\ next_proposal_id' \in U64
  BY <1>2, ModelAssumption DEF ProposalIds, U64, Fits
<1>4. Fresh(r) \in ProposalRecord
  <2>1. /\ r.class \in Classes /\ r.extension_required \in BOOLEAN
        /\ r.primary_proposal \in U64 \cup {NULL} /\ r.rollback_proposal \in U64 \cup {NULL}
    BY InputsAssumption
  <2>2. /\ "Draft" \in ProposalStates /\ target_nonce \in U64 /\ 0 \in U64
        /\ gate.status \in GateStatus /\ gate.epoch \in U64
        /\ programdata \in ProgramDataRecord /\ NULL \in TerminalReasons
    BY ModelAssumption DEF ModelTypes, ScalarTypes, AccountTypes, GateTypes, GateRecord,
       ProposalStates, PreFreeze, TerminalReasons, U64
  <2>3. (IF GuardianFrozen THEN freeze_observations[gate.epoch] ELSE NULL)
            \in FreezeRecord \cup {NULL}
    BY DEF CreateProposal, ObservationOfGate, ModelTypes, GateTypes
  <2>4. council \in Councils /\ slot \in U64
    BY DEF ModelTypes, ScalarTypes
  <2>5. Binding(council) \in Bindings /\ Pinned(council) \in Approvals
        /\ EmptyApprovals \in Approvals
    BY <2>4, BindingType, ApprovalTypes
  <2>6. ProposalTiming(slot, r.class) \in TimingRecord
    BY <1>1, <2>1, <2>4, TimingType
  <2>7. {} \in SUBSET AttestationRecord
    OBVIOUS
  <2> QED
    BY <2>1, <2>2, <2>3, <2>5, <2>6, <2>7 DEF ProposalRecord
<1>5. next_proposal_id \notin DOMAIN proposals
  BY <1>3 DEF ModelTypes, ProposalTypes, ProposalIds
<1>6. Fresh(r).upgraded_slot = 0 /\ Fresh(r).state = "Draft"
      /\ Fresh(r).initial_approvals = Pinned(council)
      /\ Fresh(r).creation_council = Binding(council)
  OBVIOUS
<1> HIDE DEF Fresh
<1>7. ProposalTypes'
  <2> SUFFICES ASSUME NEW id \in DOMAIN proposals'
               PROVE  /\ id \in ProposalIds /\ id < next_proposal_id'
                      /\ proposals'[id] \in ProposalRecord
    BY DEF ProposalTypes
  <2>1. CASE id = next_proposal_id
    BY <1>1, <1>2, <1>3, <1>4, <2>1
  <2>2. CASE id # next_proposal_id
    <3>1. id \in DOMAIN proposals /\ proposals'[id] = proposals[id]
      BY <1>1, <2>2
    <3>2. id \in ProposalIds /\ id < next_proposal_id /\ proposals[id] \in ProposalRecord
      BY <3>1 DEF ModelTypes, ProposalTypes
    <3> QED
      BY <1>2, <1>3, <3>1, <3>2 DEF ProposalIds
  <2> QED
    BY <2>1, <2>2
<1>8. \A id \in DOMAIN proposals : id \in DOMAIN proposals' /\ proposals'[id] = proposals[id]
  BY <1>1, <1>5
<1>9. \A id \in DOMAIN proposals' \ DOMAIN proposals : proposals'[id] = Fresh(r)
  BY <1>1
<1> QED
  BY <1>2, <1>3, <1>6, <1>7, <1>8, <1>9 DEF CreateProposal, Ready, ValidateCore

-------------------------------------------------------------------------------
(* The gate, the accounts and the resolutions *)

LEMMA InitializeTypes == ASSUME ModelTypes, Initialize  PROVE ModelTypes'
<1>1. /\ 0 \in U64 /\ 1 \in U64 /\ 2 \in U64 /\ slot \in U64
  <2>1. U64_MAX >= 2
    <3>1. /\ U64_MAX \in Nat
          /\ Delays.review_slots \in Nat /\ Delays.review_slots > 0
          /\ Delays.major_slots \in Nat /\ Delays.major_slots > 0
      BY ModelAssumption, DelaysAssumption DEF U64, DelayField, DelaysValid
    <3>2. 1 + Delays.review_slots + Delays.major_slots + Delays.review_slots + 2 <= U64_MAX
      BY DelaysAssumption DEF DelaysValid
    <3> QED
      BY <3>1, <3>2
  <2> QED
    BY <2>1, ModelAssumption DEF U64, ModelTypes, ScalarTypes
<1>2. ScalarTypes'
  BY <1>1 DEF Initialize, ModelTypes, ScalarTypes, Councils
<1>3. GateTypes'
  <2>1. gate' = [gate EXCEPT !.status = "EmergencyFrozen", !.epoch = 1,
                             !.freeze_slot = slot, !.freeze_reason = BOOTSTRAP]
        /\ freeze_observations' = freeze_observations
    BY DEF Initialize
  <2>2. gate' \in GateRecord
    BY <1>1, <2>1 DEF ModelTypes, GateTypes, GateRecord, GateStatus
  <2> QED
    BY <2>1, <2>2 DEF ModelTypes, GateTypes
<1>4. ProposalTypes'
  <2>1. DOMAIN proposals = {}
    <3>1. next_proposal_id = 0
      BY DEF Initialize, ModelTypes, ScalarTypes
    <3>2. \A id \in DOMAIN proposals : id \in 1 .. MaxProposals /\ id < 0
      BY <3>1 DEF ModelTypes, ProposalTypes, ProposalIds
    <3>3. MaxProposals \in Nat
      BY ModelAssumption DEF U64
    <3> QED
      BY <3>2, <3>3
  <2> QED
    BY <2>1 DEF Initialize, ProposalTypes
<1> QED
  BY <1>2, <1>3, <1>4 DEF Initialize, ModelTypes, AccountTypes, RotationTypes,
     ResolutionTypes, pdVars

LEMMA HandoffTypes == ASSUME ModelTypes, SimulatePostHandoffActivation  PROVE ModelTypes'
<1>1. gate' \in GateRecord
  BY ReopenedType DEF SimulatePostHandoffActivation, ModelTypes
<1> QED
  BY <1>1 DEF SimulatePostHandoffActivation, ModelTypes, ScalarTypes, AccountTypes,
     GateTypes, ProposalTypes, RotationTypes, ResolutionTypes, pdVars, govVars, idVars

LEMMA ObserveTypes ==
    ASSUME ModelTypes, ObserveProgramData \/ ObserveAuthority \/ ObserveMalformed
    PROVE  ModelTypes'
<1>1. PICK pd, r, a : Observed(pd, r, a) /\ pd \in ProgramDataRecord
                      /\ r \in RuntimeRecord /\ a \in Keys \cup {NULL}
  <2>1. programdata \in ProgramDataRecord
    BY DEF ModelTypes, AccountTypes
  <2>2. CASE ObserveProgramData
    <3>1. PICK o \in Observations :
             Observed([image |-> o.image, authority |-> o.authority],
                      Canonical(o.image, o.authority), o.authority)
      BY <2>2 DEF ObserveProgramData
    <3>2. o.image \in Contents /\ o.authority \in Keys
      BY DEF Contents, Keys
    <3> QED
      BY <3>1, <3>2 DEF ProgramDataRecord, RuntimeRecord, Canonical
  <2>3. CASE ObserveAuthority
    <3>1. PICK o \in Observations :
             Observed(programdata, Canonical(programdata.image, o.authority), o.authority)
      BY <2>3 DEF ObserveAuthority
    <3>2. programdata.image \in Contents /\ o.authority \in Keys
      BY <2>1 DEF Keys, ProgramDataRecord
    <3> QED
      BY <2>1, <3>1, <3>2 DEF RuntimeRecord, Canonical
  <2>4. CASE ObserveMalformed
    <3>1. Observed(programdata, MALFORMED, NULL)
      BY <2>4 DEF ObserveMalformed
    <3> QED
      BY <2>1, <3>1 DEF RuntimeRecord, MALFORMED
  <2> QED
    BY <2>2, <2>3, <2>4
<1>2. AccountTypes'
  BY <1>1 DEF Observed, AccountTypes
<1>3. UNCHANGED <<slot, initialized, govVars, idVars, gate, freeze_observations, proposals,
                  resolutions>>
  BY <1>1 DEF Observed
<1> QED
  BY <1>2, <1>3 DEF ModelTypes, ScalarTypes, GateTypes, ProposalTypes, RotationTypes,
     ResolutionTypes, govVars, idVars

LEMMA GuardianTypes ==
    ASSUME ModelTypes, NEW reason \in FreezeReasons, GuardianFreeze(reason)
    PROVE  ModelTypes'
<1>1. /\ slot \in U64 /\ gate \in GateRecord /\ runtime \in RuntimeRecord
      /\ gate.epoch + 1 \in U64
  BY ModelAssumption DEF GuardianFreeze, ModelTypes, ScalarTypes, AccountTypes, GateTypes,
     GateRecord, Fits, U64
<1>2. gate' \in GateRecord
  BY <1>1 DEF GuardianFreeze, GateRecord, GateStatus
<1>3. \A e \in DOMAIN freeze_observations' :
         e \in U64 /\ freeze_observations'[e] \in FreezeRecord
  <2>1. [freeze_slot |-> slot, freeze_reason |-> reason, programdata |-> runtime]
            \in FreezeRecord
    BY <1>1 DEF FreezeRecord
  <2>2. /\ DOMAIN freeze_observations' = DOMAIN freeze_observations \cup {gate.epoch + 1}
        /\ \A e \in DOMAIN freeze_observations' :
              freeze_observations'[e] =
                 IF e \in DOMAIN freeze_observations THEN freeze_observations[e]
                 ELSE [freeze_slot |-> slot, freeze_reason |-> reason, programdata |-> runtime]
    BY DEF GuardianFreeze
  <2> QED
    BY <1>1, <2>1, <2>2 DEF ModelTypes, GateTypes
<1> QED
  BY <1>2, <1>3 DEF GuardianFreeze, ModelTypes, ScalarTypes, AccountTypes,
     GateTypes, ProposalTypes, RotationTypes, ResolutionTypes, pdVars, govVars, idVars

WritesResolution(e, q) ==
    /\ DOMAIN resolutions' = DOMAIN resolutions
    /\ resolutions'[e] = q
    /\ \A other \in DOMAIN resolutions : other # e => resolutions'[other] = resolutions[other]

LEMMA ResolutionWritten ==
    ASSUME ModelTypes, NEW e \in DOMAIN resolutions, NEW q \in ResolutionRecord,
           WritesResolution(e, q)
    PROVE  ResolutionTypes'
BY DEF ModelTypes, ResolutionTypes, WritesResolution

LEMMA ResolutionFrame ==
    ASSUME ModelTypes, ResolutionTypes',
           UNCHANGED <<slot, initialized, govVars, pdVars, idVars, gate,
                       freeze_observations, proposals>>
    PROVE  ModelTypes'
BY DEF ModelTypes, ScalarTypes, AccountTypes, GateTypes, ProposalTypes, RotationTypes,
   pdVars, govVars, idVars

LEMMA CreateResolutionTypes == ASSUME ModelTypes, CreateEmergencyResolution  PROVE ModelTypes'
<1> DEFINE o == freeze_observations[gate.epoch]
           Fresh == [ state |-> "Draft", freeze_slot |-> gate.freeze_slot,
             freeze_reason |-> gate.freeze_reason, target_nonce |-> target_nonce,
             not_before_slot |-> o.freeze_slot + Delays.routine_slots,
             expiry_slot |-> o.freeze_slot + Delays.proposal_expiry_slots,
             observed_programdata |-> o.programdata, approvals |-> EmptyApprovals,
             checkpoint |-> NULL, attestations |-> {}, executed_slot |-> 0 ]
<1>1. gate.epoch \in U64 /\ o \in FreezeRecord /\ gate \in GateRecord /\ target_nonce \in U64
  BY DEF CreateEmergencyResolution, ObservationOfGate, ModelTypes, GateTypes, GateRecord,
     ScalarTypes
<1>2. /\ o.freeze_slot + Delays.routine_slots \in U64
      /\ o.freeze_slot + Delays.proposal_expiry_slots \in U64
      /\ 0 \in U64
  <2>1. o.freeze_slot \in U64 /\ Delays.routine_slots \in U64
        /\ Delays.proposal_expiry_slots \in U64
    BY <1>1, DelaysAssumption DEF FreezeRecord, DelayField
  <2>2. /\ o.freeze_slot + Delays.routine_slots < o.freeze_slot + Delays.proposal_expiry_slots
        /\ o.freeze_slot + Delays.proposal_expiry_slots <= U64_MAX
    BY DEF CreateEmergencyResolution, Fits
  <2> QED
    BY <2>1, <2>2, ModelAssumption DEF U64
<1>3. Fresh \in ResolutionRecord
  <2>1. gate.freeze_slot \in U64
        /\ gate.freeze_reason \in FreezeReasons \cup {BOOTSTRAP, GOVERNED, NULL}
        /\ o.programdata \in RuntimeRecord
    BY <1>1 DEF GateRecord, FreezeRecord
  <2> QED
    BY <1>1, <1>2, <2>1, ApprovalTypes DEF ResolutionRecord
<1>4. /\ DOMAIN resolutions' = DOMAIN resolutions \cup {gate.epoch}
      /\ \A e \in DOMAIN resolutions' :
            resolutions'[e] = IF e \in DOMAIN resolutions THEN resolutions[e] ELSE Fresh
  BY DEF CreateEmergencyResolution
<1> HIDE DEF Fresh
<1>5. ResolutionTypes'
  BY <1>1, <1>3, <1>4 DEF ModelTypes, ResolutionTypes
<1> QED
  BY <1>5, ResolutionFrame DEF CreateEmergencyResolution

LEMMA ApproveResolutionTypes ==
    ASSUME ModelTypes, NEW e \in DOMAIN resolutions, NEW i \in Seats,
           ApproveEmergencyResolution(e, i)
    PROVE  ModelTypes'
<1> DEFINE r == resolutions[e]
           acc == Rebound(r.approvals, council)
           now == Recorded(acc, i)
           s == IF Crosses(acc, i) THEN "CouncilApproved" ELSE "Draft"
           q == [r EXCEPT !.approvals = now, !.state = s]
<1>1. r \in ResolutionRecord /\ council \in Councils
  BY DEF ModelTypes, ResolutionTypes, ScalarTypes
<1>2. now \in Approvals
  <2>1. r.approvals \in Approvals
    BY <1>1 DEF ResolutionRecord
  <2> QED
    BY <1>1, <2>1, ApprovalTypes
<1>3. s \in {"Draft", "CouncilApproved"}
  OBVIOUS
<1>4. WritesResolution(e, q)
  BY <1>1 DEF ApproveEmergencyResolution, OnlyResolutions, WritesResolution, ResolutionRecord
<1> HIDE DEF now, s
<1>5. q \in ResolutionRecord
  BY <1>1, <1>2, <1>3 DEF ResolutionRecord
<1> QED
  BY <1>4, <1>5, ResolutionWritten, ResolutionFrame
     DEF ApproveEmergencyResolution, OnlyResolutions

LEMMA QueueResolutionTypes ==
    ASSUME ModelTypes, NEW e \in DOMAIN resolutions,
           QueueEmergencyResolution(e) \/ ExpireEmergencyResolution(e)
    PROVE  ModelTypes'
<1> DEFINE r == resolutions[e]
<1>1. r \in ResolutionRecord
  BY DEF ModelTypes, ResolutionTypes
<1>2. PICK s \in {"Timelocked", "Expired"} :
         OnlyResolutions([resolutions EXCEPT ![e].state = s])
  BY DEF QueueEmergencyResolution, ExpireEmergencyResolution
<1>3. WritesResolution(e, [r EXCEPT !.state = s])
  BY <1>1, <1>2 DEF OnlyResolutions, WritesResolution
<1>4. [r EXCEPT !.state = s] \in ResolutionRecord
  BY <1>1 DEF ResolutionRecord
<1> QED
  BY <1>2, <1>3, <1>4, ResolutionWritten, ResolutionFrame DEF OnlyResolutions

LEMMA AttestResolutionTypes ==
    ASSUME ModelTypes, NEW e \in DOMAIN resolutions, NEW i \in Seats, NEW h \in HardStates,
           NEW drift \in {0, 1}, AttestEmergencyCheckpoint(e, i, h, drift)
    PROVE  ModelTypes'
<1> DEFINE r == resolutions[e]
           atts == Attested(r.attestations, i, e, h, drift)
<1>1. r \in ResolutionRecord /\ e \in U64
  BY DEF ModelTypes, ResolutionTypes
<1>2. atts \in SUBSET AttestationRecord
  <2>1. r.attestations \in SUBSET AttestationRecord
    BY <1>1 DEF ResolutionRecord
  <2> QED
    BY <1>1, <2>1, AttestedType DEF ModelTypes
<1>3. WritesResolution(e, [r EXCEPT !.attestations = atts])
  BY <1>1 DEF AttestEmergencyCheckpoint, OnlyResolutions, WritesResolution, ResolutionRecord
<1> HIDE DEF atts
<1>4. [r EXCEPT !.attestations = atts] \in ResolutionRecord
  BY <1>1, <1>2 DEF ResolutionRecord
<1> QED
  BY <1>3, <1>4, ResolutionWritten, ResolutionFrame
     DEF AttestEmergencyCheckpoint, OnlyResolutions

LEMMA FinalizeResolutionTypes ==
    ASSUME ModelTypes, NEW e \in DOMAIN resolutions, NEW seats \in SUBSET Seats,
           FinalizeEmergencyCheckpoint(e, seats)
    PROVE  ModelTypes'
<1> DEFINE r == resolutions[e]
<1>1. r \in ResolutionRecord
  BY DEF ModelTypes, ResolutionTypes
<1>2. PICK a \in r.attestations :
         OnlyResolutions([resolutions EXCEPT ![e].checkpoint = Checkpoint(seats, a)])
  BY DEF FinalizeEmergencyCheckpoint
<1>3. a \in AttestationRecord
  BY <1>1 DEF ResolutionRecord
<1>4. Checkpoint(seats, a) \in CheckpointRecord
  BY <1>3, CheckpointType DEF ModelTypes
<1>5. WritesResolution(e, [r EXCEPT !.checkpoint = Checkpoint(seats, a)])
  BY <1>1, <1>2 DEF OnlyResolutions, WritesResolution
<1>6. [r EXCEPT !.checkpoint = Checkpoint(seats, a)] \in ResolutionRecord
  BY <1>1, <1>4 DEF ResolutionRecord
<1> QED
  BY <1>2, <1>5, <1>6, ResolutionWritten, ResolutionFrame DEF OnlyResolutions

LEMMA ResumeTypes ==
    ASSUME ModelTypes, NEW e \in DOMAIN resolutions, ExecuteEmergencyResume(e)
    PROVE  ModelTypes'
<1> DEFINE r == resolutions[e]
           q == [r EXCEPT !.state = "Executed", !.executed_slot = slot]
<1>1. r \in ResolutionRecord /\ slot \in U64
  BY DEF ModelTypes, ResolutionTypes, ScalarTypes
<1>2. WritesResolution(e, q)
  BY <1>1 DEF ExecuteEmergencyResume, WritesResolution, ResolutionRecord
<1>3. q \in ResolutionRecord
  BY <1>1 DEF ResolutionRecord
<1>4. gate' \in GateRecord
  BY ReopenedType DEF ExecuteEmergencyResume, ModelTypes
<1>5. ResolutionTypes'
  BY <1>2, <1>3, ResolutionWritten
<1> QED
  BY <1>4, <1>5 DEF ExecuteEmergencyResume, ModelTypes, ScalarTypes, AccountTypes, GateTypes,
     ProposalTypes, RotationTypes, pdVars, govVars, idVars

-------------------------------------------------------------------------------
(* Councils and the clock *)

WritesRotation(v, q) ==
    /\ DOMAIN rotations' = DOMAIN rotations
    /\ rotations'[v] = q
    /\ \A other \in DOMAIN rotations : other # v => rotations'[other] = rotations[other]

LEMMA RotationWritten ==
    ASSUME ModelTypes, NEW v \in DOMAIN rotations, NEW q \in RotationRecord,
           WritesRotation(v, q)
    PROVE  RotationTypes'
BY DEF ModelTypes, RotationTypes, WritesRotation

LEMMA RotationFrame ==
    ASSUME ModelTypes, ScalarTypes', RotationTypes', OnlyCouncil
    PROVE  ModelTypes'
BY DEF ModelTypes, AccountTypes, GateTypes, ProposalTypes, ResolutionTypes, OnlyCouncil,
   pdVars, idVars

LEMMA OnlyRotationsTypes ==
    ASSUME ModelTypes, NEW f, OnlyRotations(f), RotationTypes'
    PROVE  ModelTypes'
<1>1. ScalarTypes'
  BY DEF OnlyRotations, OnlyCouncil, ModelTypes, ScalarTypes, idVars
<1> QED
  BY <1>1, RotationFrame DEF OnlyRotations

LEMMA CandidateTypes ==
    ASSUME ModelTypes, NEW c \in Candidates, CreateCandidateCouncilSet(c)
    PROVE  ModelTypes'
<1>1. c \in Councils /\ c.version \in U64
  BY InputsAssumption DEF Councils
<1>2. next_candidate_council_version' \in U64
  <2>1. c.version + 1 \in U64
    BY <1>1, ModelAssumption DEF CreateCandidateCouncilSet, Fits, U64
  <2>2. next_candidate_council_version \in U64
    BY DEF ModelTypes, ScalarTypes
  <2> QED
    BY <2>1, <2>2 DEF CreateCandidateCouncilSet
<1>3. \A v \in DOMAIN council_history' : council_history'[v] \in Councils
  <2>1. /\ DOMAIN council_history' = DOMAIN council_history \cup {c.version}
        /\ \A v \in DOMAIN council_history' :
              council_history'[v] = IF v = c.version THEN c ELSE council_history[v]
    BY DEF CreateCandidateCouncilSet
  <2> QED
    BY <1>1, <2>1 DEF ModelTypes, ScalarTypes
<1>4. ScalarTypes'
  BY <1>2, <1>3 DEF CreateCandidateCouncilSet, OnlyCouncil, ModelTypes, ScalarTypes, idVars
<1>5. RotationTypes'
  BY DEF CreateCandidateCouncilSet, ModelTypes, RotationTypes
<1> QED
  BY <1>4, <1>5, RotationFrame DEF CreateCandidateCouncilSet

LEMMA CreateRotationTypes ==
    ASSUME ModelTypes, NEW v \in DOMAIN council_history, CreateCouncilRotation(v)
    PROVE  ModelTypes'
<1> DEFINE c == council_history[v]
           Fresh == [ state |-> "Draft", current |-> Binding(council), candidate |-> c,
             target_nonce |-> target_nonce, creation_slot |-> slot,
             not_before_slot |-> c.activation_slot,
             expiry_slot |-> slot + Delays.proposal_expiry_slots,
             approvals |-> Pinned(council), cancellation_approvals |-> EmptyApprovals,
             cancellation_reason |-> NULL, terminal_slot |-> 0 ]
<1>1. c \in Councils /\ council \in Councils /\ slot \in U64 /\ target_nonce \in U64
  BY DEF ModelTypes, ScalarTypes
<1>2. c.activation_slot \in U64 /\ c.version \in U64 /\ c.version = v
  BY <1>1, InputsAssumption DEF Councils, CreateCouncilRotation, Ready, ValidateCore
<1>3. slot + Delays.proposal_expiry_slots \in U64 /\ 0 \in U64
  <2>1. Delays.proposal_expiry_slots \in U64
    BY DelaysAssumption DEF DelayField
  <2> QED
    BY <1>1, <2>1, ModelAssumption DEF CreateCouncilRotation, Fits, U64
<1>4. Fresh \in RotationRecord
  BY <1>1, <1>2, <1>3, BindingType, ApprovalTypes DEF RotationRecord
<1>5. /\ DOMAIN rotations' = DOMAIN rotations \cup {v}
      /\ \A w \in DOMAIN rotations' :
            rotations'[w] = IF w # v THEN rotations[w] ELSE Fresh
  BY DEF CreateCouncilRotation
<1> HIDE DEF Fresh
<1>6. RotationTypes'
  BY <1>2, <1>4, <1>5 DEF ModelTypes, RotationTypes
<1>7. ScalarTypes'
  BY DEF CreateCouncilRotation, OnlyCouncil, ModelTypes, ScalarTypes, idVars
<1> QED
  BY <1>6, <1>7, RotationFrame DEF CreateCouncilRotation

LEMMA ApproveRotationTypes ==
    ASSUME ModelTypes, NEW v \in DOMAIN rotations, NEW i \in Seats,
           ApproveCouncilRotation(v, i)
    PROVE  ModelTypes'
<1> DEFINE r == rotations[v]
           now == Recorded(r.approvals, i)
           s == IF Crosses(r.approvals, i) THEN "CouncilApproved" ELSE r.state
           q == [r EXCEPT !.approvals = now, !.state = s]
<1>1. r \in RotationRecord
  BY DEF ModelTypes, RotationTypes
<1>2. now \in Approvals
  BY <1>1, ApprovalTypes DEF RotationRecord
<1>3. s \in {"Draft", "CouncilApproved"}
  BY DEF ApproveCouncilRotation
<1>4. WritesRotation(v, q)
  BY <1>1 DEF ApproveCouncilRotation, OnlyRotations, WritesRotation, RotationRecord
<1> HIDE DEF now, s
<1>5. q \in RotationRecord
  BY <1>1, <1>2, <1>3 DEF RotationRecord
<1> QED
  BY <1>4, <1>5, RotationWritten, OnlyRotationsTypes DEF ApproveCouncilRotation

LEMMA CancelRotationTypes ==
    ASSUME ModelTypes, NEW v \in DOMAIN rotations, NEW i \in Seats,
           NEW reason \in CancelReasons, ApproveCouncilRotationCancellation(v, i, reason)
    PROVE  ModelTypes'
<1> DEFINE r == rotations[v]
           acc == Rebound(r.cancellation_approvals, council)
           now == Recorded(acc, i)
           s == IF Crosses(acc, i) THEN "Cancelled" ELSE r.state
           t == IF Crosses(acc, i) THEN slot ELSE r.terminal_slot
           q == [r EXCEPT !.cancellation_approvals = now, !.cancellation_reason = reason,
                          !.state = s, !.terminal_slot = t]
<1>1. r \in RotationRecord /\ council \in Councils /\ slot \in U64
  BY DEF ModelTypes, RotationTypes, ScalarTypes
<1>2. now \in Approvals
  <2>1. r.cancellation_approvals \in Approvals
    BY <1>1 DEF RotationRecord
  <2> QED
    BY <1>1, <2>1, ApprovalTypes
<1>3. s \in {"Draft", "CouncilApproved", "Timelocked", "Cancelled"}
  BY DEF ApproveCouncilRotationCancellation, PendingRotation
<1>4. t \in U64
  BY <1>1 DEF RotationRecord
<1>5. WritesRotation(v, q)
  BY <1>1 DEF ApproveCouncilRotationCancellation, OnlyRotations, WritesRotation,
     RotationRecord
<1> HIDE DEF now, s, t
<1>6. q \in RotationRecord
  BY <1>1, <1>2, <1>3, <1>4 DEF RotationRecord
<1> QED
  BY <1>5, <1>6, RotationWritten, OnlyRotationsTypes DEF ApproveCouncilRotationCancellation

LEMMA QueueRotationTypes ==
    ASSUME ModelTypes, NEW v \in DOMAIN rotations,
           QueueCouncilRotation(v) \/ ExpireCouncilRotation(v)
    PROVE  ModelTypes'
<1> DEFINE r == rotations[v]
           queued == [r EXCEPT !.state = "Timelocked"]
           expired == [r EXCEPT !.state = "Expired", !.terminal_slot = slot]
<1>1. r \in RotationRecord /\ slot \in U64
  BY DEF ModelTypes, RotationTypes, ScalarTypes
<1>2. queued \in RotationRecord /\ expired \in RotationRecord
  BY <1>1 DEF RotationRecord
<1>3. CASE QueueCouncilRotation(v)
  <2>1. WritesRotation(v, queued)
    BY <1>1, <1>3 DEF QueueCouncilRotation, OnlyRotations, WritesRotation
  <2> QED
    BY <1>2, <1>3, <2>1, RotationWritten, OnlyRotationsTypes DEF QueueCouncilRotation
<1>4. CASE ExpireCouncilRotation(v)
  <2>1. WritesRotation(v, expired)
    BY <1>1, <1>4 DEF ExpireCouncilRotation, OnlyRotations, WritesRotation, RotationRecord
  <2> QED
    BY <1>2, <1>4, <2>1, RotationWritten, OnlyRotationsTypes DEF ExpireCouncilRotation
<1> QED
  BY <1>3, <1>4

LEMMA ActivateRotationTypes ==
    ASSUME ModelTypes, NEW v \in DOMAIN rotations, ActivateCouncilRotation(v)
    PROVE  ModelTypes'
<1> DEFINE r == rotations[v]
           q == [r EXCEPT !.state = "Activated", !.terminal_slot = slot]
<1>1. r \in RotationRecord /\ slot \in U64
  BY DEF ModelTypes, RotationTypes, ScalarTypes
<1>2. WritesRotation(v, q)
  BY <1>1 DEF ActivateCouncilRotation, WritesRotation, RotationRecord
<1>3. q \in RotationRecord
  BY <1>1 DEF RotationRecord
<1>4. r.candidate \in Councils
  BY <1>1 DEF RotationRecord
<1>5. ScalarTypes'
  BY <1>4 DEF ActivateCouncilRotation, OnlyCouncil, ModelTypes, ScalarTypes, idVars
<1> QED
  BY <1>2, <1>3, <1>5, RotationWritten, RotationFrame DEF ActivateCouncilRotation

LEMMA TickTypes == ASSUME ModelTypes, Tick  PROVE ModelTypes'
<1>1. slot' \in U64
  BY ModelAssumption DEF Tick, ModelTypes, ScalarTypes, U64
<1> QED
  BY <1>1 DEF Tick, ModelTypes, ScalarTypes, AccountTypes, GateTypes, ProposalTypes,
     RotationTypes, ResolutionTypes, pdVars, govVars, idVars

-------------------------------------------------------------------------------
(* Every step *)

LEMMA ProposalCases ==
    ASSUME ModelTypes, NEW id \in DOMAIN proposals, ProposalStep(id)
    PROVE  \/ ProposalsMove /\ ProposalsOnly
           \/ ExecuteUpgrade(id)
           \/ \E status : FreezeFrom(id, status)
           \/ \E rid \in DOMAIN proposals : ActivateRollback(id, rid)
           \/ ExecuteUnfreeze(id)
<1> DEFINE Goal == ProposalsMove /\ ProposalsOnly
<1>0. ProposalTypes /\ ScalarTypes /\ AccountTypes /\ GateTypes
  BY DEF ModelTypes
<1>1. ASSUME ProposalsOnly, NEW q, Writes(id, q), Moved(proposals[id], q)  PROVE Goal
  BY <1>0, <1>1, WritesMove
<1> HIDE DEF Goal
<1>2. ASSUME AdoptBuffer(id) \/ VerifyBuffer(id) \/ SatisfyGovernance(id) \/ QueueProposal(id)
      PROVE Goal
  <2>1. PICK from \in {"Draft", "BufferAdopted", "CouncilApproved", "GovernanceSatisfied"},
             to \in {"BufferAdopted", "BufferVerified", "GovernanceSatisfied", "Timelocked"} :
           /\ Moves(id, from, to)
           /\ to \in {"GovernanceSatisfied", "Timelocked"} =>
                 from \in {"CouncilApproved", "GovernanceSatisfied"}
    BY <1>2 DEF AdoptBuffer, VerifyBuffer, SatisfyGovernance, QueueProposal, Advance
  <2> QED
    BY <1>0, <1>1, <2>1, AdvanceStep
<1>3. ASSUME NEW i \in Seats, ApproveProposal(id, i)  PROVE Goal
  BY <1>0, <1>1, <1>3, ApproveStep
<1>4. ASSUME NEW i \in Seats, ApproveUnfreeze(id, i)  PROVE Goal
  BY <1>0, <1>1, <1>4, UnfreezeVoteStep
<1>5. ASSUME NEW i \in Seats, NEW reason \in CancelReasons, ApproveCancellation(id, i, reason)
      PROVE Goal
  BY <1>0, <1>1, <1>5, CancelStep
<1>6. ASSUME ExpireProposal(id)  PROVE Goal
  BY <1>0, <1>1, <1>6, ExpireStep
<1>7. ASSUME NEW phase \in {"prestate", "poststate"}, NEW i \in Seats, NEW h \in HardStates,
             NEW drift \in {0, 1}, AttestCheckpoint(id, phase, i, h, drift)
      PROVE Goal
  BY <1>0, <1>1, <1>7, AttestStep
<1>8. ASSUME NEW phase \in {"prestate", "poststate"}, NEW seats \in SUBSET Seats,
             FinalizeCheckpoint(id, phase, seats)
      PROVE Goal
  BY <1>0, <1>1, <1>8, FinalizeStep
<1>9. ASSUME ExtendTarget(id)  PROVE Goal
  BY <1>0, <1>1, <1>9, ExtendStep
<1>10. ASSUME VerifyProgramData(id)  PROVE Goal
  BY <1>0, <1>1, <1>10, VerifyStep
<1>11. ASSUME RecordProgramDataFailure(id)  PROVE Goal
  BY <1>0, <1>1, <1>11, FailureStep
<1>12. FreezeProposal(id) \/ ConvertEmergencyFreeze(id) => \E status : FreezeFrom(id, status)
  BY DEF FreezeProposal, ConvertEmergencyFreeze
<1>13. \/ Goal \/ ExecuteUpgrade(id)
       \/ FreezeProposal(id) \/ ConvertEmergencyFreeze(id)
       \/ \E rid \in DOMAIN proposals : ActivateRollback(id, rid)
       \/ ExecuteUnfreeze(id)
  <2>1. (\E i \in Seats : ApproveProposal(id, i) \/ ApproveUnfreeze(id, i)) => Goal
    BY <1>3, <1>4
  <2>2. (\E i \in Seats, reason \in CancelReasons : ApproveCancellation(id, i, reason)) => Goal
    BY <1>5
  <2>3. (\E phase \in {"prestate", "poststate"} :
            \/ \E i \in Seats, h \in HardStates, drift \in {0, 1} :
                  AttestCheckpoint(id, phase, i, h, drift)
            \/ \E seats \in SUBSET Seats : FinalizeCheckpoint(id, phase, seats)) => Goal
    BY <1>7, <1>8
  <2> QED
    BY <1>2, <1>6, <1>9, <1>10, <1>11, <2>1, <2>2, <2>3 DEF ProposalStep
<1> QED
  BY <1>12, <1>13 DEF Goal

\* What a step leaves of every proposal unless it executes an upgrade.
Keeps ==
    /\ \A id \in DOMAIN proposals :
          /\ id \in DOMAIN proposals'
          /\ Fixed(proposals[id], proposals'[id])
          /\ proposals'[id].upgraded_slot = proposals[id].upgraded_slot
    /\ \A id \in DOMAIN proposals' \ DOMAIN proposals : proposals'[id].upgraded_slot = 0

Installs ==
    \E id \in DOMAIN proposals :
        /\ ExecuteUpgrade(id) /\ ProposalsOnly
        /\ \E q : Writes(id, q) /\ Executed(id, q)

LEMMA MoveKeeps ==
    ASSUME ProposalsMove
    PROVE  Keeps /\ (DecidedInv => DecidedInv')
BY DEF ProposalsMove, Moved, Keeps, DecidedInv

LEMMA StillKeeps ==
    ASSUME UNCHANGED proposals
    PROVE  Keeps /\ (DecidedInv => DecidedInv')
BY DEF Keeps, DecidedInv, Fixed

LEMMA ProposalShape ==
    ASSUME ModelTypes, NEW id \in DOMAIN proposals, ProposalStep(id)
    PROVE  ModelTypes' /\ (Keeps \/ Installs) /\ (DecidedInv => DecidedInv')
<1>1. CASE ProposalsMove /\ ProposalsOnly
  <2>1. ProposalTypes'
    BY <1>1, ProposalsTyped DEF ProposalsOnly, ModelTypes, idVars
  <2>2. ModelTypes'
    BY <1>1, <2>1 DEF ProposalsOnly, ModelTypes, ScalarTypes, AccountTypes, GateTypes,
       RotationTypes, ResolutionTypes, pdVars, govVars, idVars
  <2> QED
    BY <1>1, <2>2, MoveKeeps
<1>2. CASE ExecuteUpgrade(id)
  <2>1. ProposalsOnly /\ \E q : Writes(id, q) /\ Executed(id, q)
    BY <1>2, ExecuteStep DEF ModelTypes
  <2>2. ProposalTypes'
    BY <2>1 DEF Writes, Executed, ProposalTypes, ProposalsOnly, ModelTypes, idVars
  <2>3. ModelTypes'
    BY <2>1, <2>2 DEF ProposalsOnly, ModelTypes, ScalarTypes, AccountTypes, GateTypes,
       RotationTypes, ResolutionTypes, pdVars, govVars, idVars
  <2>4. Installs
    BY <1>2, <2>1 DEF Installs
  <2>5. DecidedInv => DecidedInv'
    BY <2>1 DEF Writes, Executed, DecidedInv
  <2> QED
    BY <2>3, <2>4, <2>5
<1>3. CASE \E status : FreezeFrom(id, status)
  <2>1. /\ ProposalsMove /\ gate' \in GateRecord /\ target_nonce' \in U64
        /\ UNCHANGED <<slot, initialized, govVars, pdVars, next_proposal_id,
                       freeze_observations, resolutions>>
    BY <1>3, FreezeStep
  <2>2. ProposalTypes'
    BY <2>1, ProposalsTyped DEF ModelTypes
  <2>3. ModelTypes'
    BY <2>1, <2>2 DEF ModelTypes, ScalarTypes, AccountTypes, GateTypes,
       RotationTypes, ResolutionTypes, pdVars, govVars
  <2> QED
    BY <2>1, <2>3, MoveKeeps
<1>4. CASE (\E rid \in DOMAIN proposals : ActivateRollback(id, rid)) \/ ExecuteUnfreeze(id)
  <2>1. /\ ProposalsMove /\ gate' \in GateRecord
        /\ UNCHANGED <<slot, initialized, govVars, pdVars, idVars, freeze_observations,
                       resolutions>>
    BY <1>4, ActivateStep, UnfreezeStep
  <2>2. ProposalTypes'
    BY <2>1, ProposalsTyped DEF ModelTypes, idVars
  <2>3. ModelTypes'
    BY <2>1, <2>2 DEF ModelTypes, ScalarTypes, AccountTypes, GateTypes,
       RotationTypes, ResolutionTypes, pdVars, govVars, idVars
  <2> QED
    BY <2>1, <2>3, MoveKeeps
<1> QED
  BY <1>1, <1>2, <1>3, <1>4, ProposalCases

LEMMA CreateShape ==
    ASSUME ModelTypes, CreateProposal
    PROVE  ModelTypes' /\ Keeps /\ (DecidedInv => DecidedInv')
<1>1. ModelTypes'
  BY CreateStep DEF ModelTypes, ScalarTypes, AccountTypes, GateTypes,
     RotationTypes, ResolutionTypes, pdVars, govVars
<1>2. Keeps
  BY CreateStep DEF Keeps, Fixed
<1>3. DecidedInv => DecidedInv'
  <2>1. \A id \in DOMAIN proposals' \ DOMAIN proposals : Decided(proposals'[id])
    BY CreateStep DEF Decided, InFlight
  <2> QED
    BY <2>1, CreateStep DEF DecidedInv
<1> QED
  BY <1>1, <1>2, <1>3

LEMMA EmergencyShape ==
    ASSUME ModelTypes, EmergencyStep
    PROVE  ModelTypes' /\ UNCHANGED proposals
<1>1. ModelTypes'
  BY GuardianTypes, CreateResolutionTypes, ApproveResolutionTypes, QueueResolutionTypes,
     AttestResolutionTypes, FinalizeResolutionTypes, ResumeTypes DEF EmergencyStep
<1>2. UNCHANGED proposals
  BY DEF EmergencyStep, GuardianFreeze, CreateEmergencyResolution,
     ApproveEmergencyResolution, QueueEmergencyResolution, AttestEmergencyCheckpoint,
     FinalizeEmergencyCheckpoint, ExecuteEmergencyResume, ExpireEmergencyResolution,
     OnlyResolutions
<1> QED
  BY <1>1, <1>2

LEMMA CouncilShape ==
    ASSUME ModelTypes, CouncilStep
    PROVE  ModelTypes' /\ UNCHANGED proposals
<1>1. ModelTypes'
  BY CandidateTypes, CreateRotationTypes, ApproveRotationTypes, CancelRotationTypes,
     QueueRotationTypes, ActivateRotationTypes DEF CouncilStep
<1>2. OnlyCouncil
  <2>1. \A c : CreateCandidateCouncilSet(c) => OnlyCouncil
    BY DEF CreateCandidateCouncilSet
  <2>2. \A v : CreateCouncilRotation(v) => OnlyCouncil
    BY DEF CreateCouncilRotation
  <2>3. \A v, i : ApproveCouncilRotation(v, i) => OnlyCouncil
    BY DEF ApproveCouncilRotation, OnlyRotations
  <2>4. \A v, i, reason : ApproveCouncilRotationCancellation(v, i, reason) => OnlyCouncil
    BY DEF ApproveCouncilRotationCancellation, OnlyRotations
  <2>5. \A v : QueueCouncilRotation(v) \/ ExpireCouncilRotation(v) => OnlyCouncil
    BY DEF QueueCouncilRotation, ExpireCouncilRotation, OnlyRotations
  <2>6. \A v : ActivateCouncilRotation(v) => OnlyCouncil
    BY DEF ActivateCouncilRotation
  <2> QED
    BY <2>1, <2>2, <2>3, <2>4, <2>5, <2>6, Zenon DEF CouncilStep
<1> QED
  BY <1>1, <1>2 DEF OnlyCouncil, pdVars

LEMMA NextShape ==
    ASSUME ModelTypes, [Next]_vars
    PROVE  ModelTypes' /\ (Keeps \/ Installs) /\ (DecidedInv => DecidedInv')
<1>1. CASE Initialize
  BY <1>1, InitializeTypes, StillKeeps DEF Initialize
<1>2. CASE SimulatePostHandoffActivation
  BY <1>2, HandoffTypes, StillKeeps DEF SimulatePostHandoffActivation
<1>3. CASE ObserveProgramData \/ ObserveAuthority \/ ObserveMalformed
  <2>1. UNCHANGED proposals
    BY <1>3 DEF ObserveProgramData, ObserveAuthority, ObserveMalformed, Observed
  <2> QED
    BY <1>3, <2>1, ObserveTypes, StillKeeps
<1>4. CASE CreateProposal
  BY <1>4, CreateShape
<1>5. CASE \E id \in DOMAIN proposals : ProposalStep(id)
  BY <1>5, ProposalShape
<1>6. CASE EmergencyStep
  BY <1>6, EmergencyShape, StillKeeps
<1>7. CASE CouncilStep
  BY <1>7, CouncilShape, StillKeeps
<1>8. CASE Tick
  BY <1>8, TickTypes, StillKeeps DEF Tick
<1>9. CASE UNCHANGED vars
  <2>1. ModelTypes'
    BY <1>9 DEF vars, ModelTypes, ScalarTypes, AccountTypes, GateTypes, ProposalTypes,
       RotationTypes, ResolutionTypes, pdVars, govVars, idVars
  <2> QED
    BY <1>9, <2>1, StillKeeps DEF vars
<1> QED
  BY <1>1, <1>2, <1>3, <1>4, <1>5, <1>6, <1>7, <1>8, <1>9 DEF Next

-------------------------------------------------------------------------------
(* Initial states, and the type theorem *)

LEMMA InitTypes == Init => ModelTypes
<1> SUFFICES ASSUME Init  PROVE ModelTypes
  OBVIOUS
<1>1. 0 \in U64 /\ 1 \in U64
  <2>1. /\ U64_MAX \in Nat
        /\ Delays.review_slots \in Nat /\ Delays.review_slots > 0
        /\ Delays.major_slots \in Nat
        /\ 1 + Delays.review_slots + Delays.major_slots + Delays.review_slots + 2 <= U64_MAX
    BY ModelAssumption, DelaysAssumption DEF U64, DelayField, DelaysValid
  <2> QED
    BY <2>1 DEF U64
<1>2. ScalarTypes
  <2>1. \A v \in DOMAIN council_history : council_history[v] \in Councils
    BY DEF Init
  <2>2. council \in Councils
    BY DEF Init, Councils
  <2> QED
    BY <1>1, <2>1, <2>2 DEF Init, ScalarTypes
<1>3. AccountTypes
  <2>1. PICK i \in Images, a \in Authorities \ {Controller} :
           /\ programdata = [image |-> i, authority |-> a]
           /\ runtime = Canonical(i, a)
           /\ authority = a
    BY DEF Init
  <2> QED
    BY <2>1 DEF AccountTypes, Canonical, ProgramDataRecord, RuntimeRecord, Contents, Keys
<1>4. GateTypes
  <2>1. gate \in GateRecord
    BY <1>1 DEF Init, GateRecord, GateStatus
  <2> QED
    BY <2>1 DEF Init, GateTypes
<1>5. ProposalTypes /\ ResolutionTypes /\ RotationTypes
  BY DEF Init, ProposalTypes, ResolutionTypes, RotationTypes
<1> QED
  BY <1>2, <1>3, <1>4, <1>5 DEF ModelTypes

\* Every account and record of the reference state machine keeps the layout of its struct in
\* release1_model.rs: all slots, epochs, nonces and versions fit the 64 bits that the checked
\* additions guard, and every identifier was handed out by next_proposal_id.
THEOREM ModelTypeTheorem == Spec => []ModelTypes
<1>1. ModelTypes /\ [Next]_vars => ModelTypes'
  BY NextShape
<1> QED
  BY InitTypes, <1>1, PTL DEF Spec

-------------------------------------------------------------------------------
(* The window of the rollback *)

\* What the execution of a primary finds of its rollback.
LEMMA ExecutionWindow ==
    ASSUME ModelTypes, NEW id \in DOMAIN proposals, ExecuteUpgrade(id),
           proposals[id].class # "EmergencyRollback"
    PROVE  LET p == proposals[id]
               r == proposals[p.rollback_proposal] IN
           /\ p.rollback_proposal \in DOMAIN proposals
           /\ r.timing.not_before_slot <= slot
           /\ slot + Delays.rollback_slots + Delays.review_slots + 1 < r.timing.expiry_slot
<1> DEFINE p == proposals[id]
           r == proposals[p.rollback_proposal]
<1>1. PreparedRollback(id) /\ RollbackRunway(p)
  BY DEF ExecuteUpgrade
<1>2. p.rollback_proposal \in DOMAIN proposals
  BY <1>1 DEF PreparedRollback, Exists
<1>3. slot \in Nat /\ r.timing.not_before_slot \in Nat
  <2>1. r \in ProposalRecord
    BY <1>2 DEF ModelTypes, ProposalTypes
  <2>2. r.timing \in TimingRecord
    BY <2>1 DEF ProposalRecord
  <2> QED
    BY <2>2, ModelAssumption DEF TimingRecord, U64, ModelTypes, ScalarTypes
<1>4. /\ slot >= r.timing.not_before_slot
      /\ slot + Delays.rollback_slots + Delays.review_slots + 1 < r.timing.expiry_slot
  BY <1>1 DEF RollbackRunway
<1> QED
  BY <1>2, <1>3, <1>4

LEMMA WindowStep ==
    ASSUME ModelTypes, WindowInv, Keeps \/ Installs
    PROVE  WindowInv'
<1>1. CASE Keeps
  <2> SUFFICES ASSUME NEW id \in DOMAIN proposals',
                      proposals'[id].class # "EmergencyRollback",
                      proposals'[id].upgraded_slot # 0
               PROVE  /\ proposals'[id].rollback_proposal \in DOMAIN proposals'
                      /\ proposals'[proposals'[id].rollback_proposal].timing.not_before_slot
                            <= proposals'[id].upgraded_slot
                      /\ proposals'[id].upgraded_slot + Delays.rollback_slots
                            + Delays.review_slots + 1
                         < proposals'[proposals'[id].rollback_proposal].timing.expiry_slot
    BY DEF WindowInv, Windowed
  <2>1. id \in DOMAIN proposals
    BY <1>1 DEF Keeps
  <2>2. /\ proposals'[id].class = proposals[id].class
        /\ proposals'[id].rollback_proposal = proposals[id].rollback_proposal
        /\ proposals'[id].upgraded_slot = proposals[id].upgraded_slot
    BY <1>1, <2>1 DEF Keeps, Fixed
  <2> DEFINE rid == proposals[id].rollback_proposal
  <2>3. /\ rid \in DOMAIN proposals
        /\ proposals[rid].timing.not_before_slot <= proposals[id].upgraded_slot
        /\ proposals[id].upgraded_slot + Delays.rollback_slots + Delays.review_slots + 1
              < proposals[rid].timing.expiry_slot
    BY <2>1, <2>2 DEF WindowInv, Windowed
  <2>4. rid \in DOMAIN proposals' /\ proposals'[rid].timing = proposals[rid].timing
    BY <1>1, <2>3 DEF Keeps, Fixed
  <2> QED
    BY <2>2, <2>3, <2>4
<1>2. CASE Installs
  <2>0. PICK id \in DOMAIN proposals :
           ExecuteUpgrade(id) /\ ProposalsOnly /\ \E q : Writes(id, q) /\ Executed(id, q)
    BY <1>2 DEF Installs
  <2>1. PICK q : Writes(id, q) /\ Executed(id, q)
    BY <2>0
  <2>2. \A other \in DOMAIN proposals :
           /\ other \in DOMAIN proposals'
           /\ Fixed(proposals[other], proposals'[other])
           /\ proposals'[other].upgraded_slot =
                 IF other = id THEN slot ELSE proposals[other].upgraded_slot
    BY <2>1 DEF Writes, Executed, Fixed
  <2>3. DOMAIN proposals' = DOMAIN proposals
    BY <2>1 DEF Writes
  <2> SUFFICES ASSUME NEW o \in DOMAIN proposals,
                      proposals'[o].class # "EmergencyRollback",
                      proposals'[o].upgraded_slot # 0
               PROVE  /\ proposals'[o].rollback_proposal \in DOMAIN proposals'
                      /\ proposals'[proposals'[o].rollback_proposal].timing.not_before_slot
                            <= proposals'[o].upgraded_slot
                      /\ proposals'[o].upgraded_slot + Delays.rollback_slots
                            + Delays.review_slots + 1
                         < proposals'[proposals'[o].rollback_proposal].timing.expiry_slot
    BY <2>3 DEF WindowInv, Windowed
  <2> DEFINE rid == proposals[o].rollback_proposal
             when == proposals'[o].upgraded_slot
  <2>4. /\ proposals'[o].rollback_proposal = rid
        /\ proposals[o].class # "EmergencyRollback"
    BY <2>2 DEF Fixed
  <2>5. /\ rid \in DOMAIN proposals
        /\ proposals[rid].timing.not_before_slot <= when
        /\ when + Delays.rollback_slots + Delays.review_slots + 1
              < proposals[rid].timing.expiry_slot
    <3>1. CASE o = id
      BY <2>0, <2>2, <2>4, <3>1, ExecutionWindow
    <3>2. CASE o # id
      <4>1. when = proposals[o].upgraded_slot
        BY <2>2, <3>2
      <4> QED
        BY <2>4, <4>1 DEF WindowInv, Windowed
    <3> QED
      BY <3>1, <3>2
  <2>6. rid \in DOMAIN proposals' /\ proposals'[rid].timing = proposals[rid].timing
    BY <2>2, <2>5 DEF Fixed
  <2> QED
    BY <2>4, <2>5, <2>6
<1> QED
  BY <1>1, <1>2

\* require_primary_execution_rollback_runway leaves room: after a primary's code is
\* installed, its rollback can still be activated with a whole checkpoint window before it
\* expires, whatever happens in between.
THEOREM WindowTheorem == Spec => []RollbackWindowOpen
<1>1. Init => WindowInv
  BY DEF Init, WindowInv
<1>2. ModelTypes /\ WindowInv /\ [Next]_vars => WindowInv'
  BY NextShape, WindowStep
<1>3. ModelTypes /\ WindowInv => RollbackWindowOpen
  <2> SUFFICES ASSUME ModelTypes, WindowInv, NEW id \in DOMAIN proposals,
                      proposals[id].class # "EmergencyRollback",
                      proposals[id].upgraded_slot # 0
               PROVE  LET p == proposals[id]
                          r == proposals[p.rollback_proposal]
                          first == IF r.timing.not_before_slot
                                         > p.upgraded_slot + Delays.rollback_slots
                                   THEN r.timing.not_before_slot
                                   ELSE p.upgraded_slot + Delays.rollback_slots IN
                      first + Delays.review_slots + 1 < r.timing.expiry_slot
    BY DEF RollbackWindowOpen
  <2> DEFINE p == proposals[id]
             r == proposals[p.rollback_proposal]
             notBefore == r.timing.not_before_slot
             expiry == r.timing.expiry_slot
             upgraded == p.upgraded_slot
  <2>1. /\ p.rollback_proposal \in DOMAIN proposals
        /\ notBefore <= upgraded
        /\ upgraded + Delays.rollback_slots + Delays.review_slots + 1 < expiry
    BY DEF WindowInv, Windowed
  <2>2. notBefore \in Nat /\ expiry \in Nat /\ upgraded \in Nat
    <3>1. p \in ProposalRecord /\ r \in ProposalRecord
      BY <2>1 DEF ModelTypes, ProposalTypes
    <3>2. p.upgraded_slot \in U64 /\ r.timing \in TimingRecord
      BY <3>1 DEF ProposalRecord
    <3>3. r.timing.not_before_slot \in U64 /\ r.timing.expiry_slot \in U64
      BY <3>2 DEF TimingRecord
    <3> QED
      BY <3>2, <3>3, ModelAssumption DEF U64
  <2>3. Delays.rollback_slots \in Nat /\ Delays.review_slots \in Nat
    BY ModelAssumption, DelaysAssumption DEF U64, DelayField
  <2> HIDE DEF notBefore, expiry, upgraded
  <2>4. ~ (notBefore > upgraded + Delays.rollback_slots)
    BY <2>1, <2>2, <2>3
  <2>5. upgraded + Delays.rollback_slots + Delays.review_slots + 1 < expiry
    BY <2>1
  <2> QED
    BY <2>4, <2>5 DEF notBefore, expiry, upgraded
<1> QED
  BY ModelTypeTheorem, <1>1, <1>2, <1>3, PTL DEF Spec

-------------------------------------------------------------------------------
(* The decision behind an upgrade *)

\* Councils, once registered, are never written again.
HistoryGrows ==
    \A v \in DOMAIN council_history :
        v \in DOMAIN council_history' /\ council_history'[v] = council_history[v]

LEMMA HistoryStep ==
    ASSUME ModelTypes, [Next]_vars
    PROVE  HistoryGrows \/ DOMAIN proposals = {}
<1>1. CASE Initialize
  <2>1. \A id \in DOMAIN proposals : id \in ProposalIds /\ id < next_proposal_id
    BY DEF ModelTypes, ProposalTypes
  <2>2. next_proposal_id = 0
    BY <1>1 DEF Initialize, ModelTypes, ScalarTypes
  <2> QED
    BY <2>1, <2>2, ModelAssumption DEF ProposalIds, U64
<1>2. CASE \E c \in Candidates : CreateCandidateCouncilSet(c)
  BY <1>2 DEF CreateCandidateCouncilSet, HistoryGrows
<1>3. CASE UNCHANGED council_history
  BY <1>3 DEF HistoryGrows
<1>4. CASE CouncilStep
  <2>1. \A v : CreateCouncilRotation(v) => UNCHANGED council_history
    BY DEF CreateCouncilRotation
  <2>2. \A v, i : ApproveCouncilRotation(v, i) => UNCHANGED council_history
    BY DEF ApproveCouncilRotation, OnlyRotations
  <2>3. \A v, i, reason :
           ApproveCouncilRotationCancellation(v, i, reason) => UNCHANGED council_history
    BY DEF ApproveCouncilRotationCancellation, OnlyRotations
  <2>4. \A v : QueueCouncilRotation(v) \/ ExpireCouncilRotation(v) => UNCHANGED council_history
    BY DEF QueueCouncilRotation, ExpireCouncilRotation, OnlyRotations
  <2>5. \A v : ActivateCouncilRotation(v) => UNCHANGED council_history
    BY DEF ActivateCouncilRotation
  <2> QED
    BY <1>2, <1>3, <1>4, <2>1, <2>2, <2>3, <2>4, <2>5, Zenon DEF CouncilStep
<1>5. CASE EmergencyStep
  <2>1. \A reason : GuardianFreeze(reason) => UNCHANGED council_history
    BY DEF GuardianFreeze, govVars
  <2>2. CreateEmergencyResolution => UNCHANGED council_history
    BY DEF CreateEmergencyResolution, govVars
  <2>3. \A f : OnlyResolutions(f) => UNCHANGED council_history
    BY DEF OnlyResolutions, govVars
  <2>4. \A e, i : ApproveEmergencyResolution(e, i) => UNCHANGED council_history
    BY <2>3 DEF ApproveEmergencyResolution
  <2>5. \A e : QueueEmergencyResolution(e) \/ ExpireEmergencyResolution(e)
                  => UNCHANGED council_history
    BY <2>3 DEF QueueEmergencyResolution, ExpireEmergencyResolution
  <2>6. \A e, i, h, drift :
           AttestEmergencyCheckpoint(e, i, h, drift) => UNCHANGED council_history
    BY <2>3 DEF AttestEmergencyCheckpoint
  <2>7. \A e, seats : FinalizeEmergencyCheckpoint(e, seats) => UNCHANGED council_history
    BY <2>3 DEF FinalizeEmergencyCheckpoint
  <2>8. \A e : ExecuteEmergencyResume(e) => UNCHANGED council_history
    BY DEF ExecuteEmergencyResume, govVars
  <2> QED
    BY <1>3, <1>5, <2>1, <2>2, <2>4, <2>5, <2>6, <2>7, <2>8, Zenon DEF EmergencyStep
<1>6. CASE \E id \in DOMAIN proposals : ProposalStep(id)
  <2>1. PICK id \in DOMAIN proposals : ProposalStep(id)
    BY <1>6
  <2>2. \/ ProposalsMove /\ ProposalsOnly
        \/ ExecuteUpgrade(id)
        \/ \E status : FreezeFrom(id, status)
        \/ \E rid \in DOMAIN proposals : ActivateRollback(id, rid)
        \/ ExecuteUnfreeze(id)
    BY <2>1, ProposalCases
  <2> QED
    BY <1>3, <2>2 DEF ProposalsOnly, ExecuteUpgrade, OnlyProposals, FreezeFrom,
       ActivateRollback, ExecuteUnfreeze, govVars
<1>7. CASE SimulatePostHandoffActivation \/ CreateProposal \/ Tick
  BY <1>3, <1>7 DEF SimulatePostHandoffActivation, CreateProposal, Tick, govVars
<1>8. CASE ObserveProgramData \/ ObserveAuthority \/ ObserveMalformed
  BY <1>3, <1>8 DEF ObserveProgramData, ObserveAuthority, ObserveMalformed, Observed, govVars
<1>9. CASE UNCHANGED vars
  BY <1>3, <1>9 DEF vars, govVars
<1> QED
  BY <1>1, <1>4, <1>5, <1>6, <1>7, <1>8, <1>9 DEF Next

LEMMA FixedStep ==
    ASSUME Keeps \/ Installs, NEW id \in DOMAIN proposals, id \in DOMAIN proposals'
    PROVE  Fixed(proposals[id], proposals'[id])
<1>1. CASE Keeps
  BY <1>1 DEF Keeps
<1>2. CASE Installs
  BY <1>2 DEF Installs, Writes, Executed, Fixed
<1> QED
  BY <1>1, <1>2

\* Only CreateProposal brings a proposal.
LEMMA DomainStep ==
    ASSUME ModelTypes, [Next]_vars
    PROVE  CreateProposal \/ DOMAIN proposals' = DOMAIN proposals
<1>1. CASE \E id \in DOMAIN proposals : ProposalStep(id)
  <2>1. PICK id \in DOMAIN proposals : ProposalStep(id)
    BY <1>1
  <2>2. \/ ProposalsMove
        \/ ExecuteUpgrade(id)
        \/ \E status : FreezeFrom(id, status)
        \/ \E rid \in DOMAIN proposals : ActivateRollback(id, rid)
        \/ ExecuteUnfreeze(id)
    BY <2>1, ProposalCases
  <2> QED
    BY <2>2 DEF ProposalsMove, ExecuteUpgrade, OnlyProposals, FreezeFrom, ActivateRollback,
       ExecuteUnfreeze
<1>2. CASE EmergencyStep
  BY <1>2, EmergencyShape
<1>3. CASE CouncilStep
  BY <1>3, CouncilShape
<1>4. CASE Initialize \/ SimulatePostHandoffActivation \/ Tick \/ UNCHANGED vars
  BY <1>4 DEF Initialize, SimulatePostHandoffActivation, Tick, vars
<1>5. CASE ObserveProgramData \/ ObserveAuthority \/ ObserveMalformed
  BY <1>5 DEF ObserveProgramData, ObserveAuthority, ObserveMalformed, Observed
<1> QED
  BY <1>1, <1>2, <1>3, <1>4, <1>5 DEF Next

LEMMA SignedStep ==
    ASSUME ModelTypes, SignedInv, [Next]_vars
    PROVE  SignedInv'
<1> SUFFICES ASSUME NEW id \in DOMAIN proposals'
             PROVE  SignedBy(proposals[id])'
  BY DEF SignedInv
<1>1. CASE id \in DOMAIN proposals
  <2>1. SignedBy(proposals'[id])
    BY <1>1, FixedStep, NextShape DEF Fixed, SignedInv
  <2>2. HistoryGrows
    BY <1>1, HistoryStep
  <2> QED
    BY <2>1, <2>2 DEF SignedBy, Signed, HistoryGrows
<1>2. CASE id \notin DOMAIN proposals
  <2>1. CreateProposal
    BY <1>2, DomainStep
  <2>2. /\ proposals'[id].initial_approvals = Pinned(council)
        /\ proposals'[id].creation_council = Binding(council)
        /\ council_history' = council_history
    BY <1>2, <2>1, CreateStep DEF govVars
  <2>3. council.version \in DOMAIN council_history
        /\ council_history[council.version] = council
    BY <2>1 DEF CreateProposal, Ready, ValidateCore
  <2> QED
    BY <2>2, <2>3 DEF SignedBy, Signed, Pinned, Binding
<1> QED
  BY <1>1, <1>2

LEMMA InstallDecided ==
    ASSUME ModelTypes, DecidedInv, SignedInv, [Next]_vars,
           NEW id \in DOMAIN proposals,
           proposals'[id].upgraded_slot # proposals[id].upgraded_slot
    PROVE  LET p == proposals[id] IN
           /\ SignedBy(p)
           /\ Quorum(p.initial_approvals.bitset)
           /\ p.timing.not_before_slot <= p.frozen_slot
           /\ p.target_nonce + 1 = target_nonce
<1>1. Installs
  BY NextShape DEF Keeps
<1>2. ExecuteUpgrade(id)
  <2>1. PICK o \in DOMAIN proposals :
           ExecuteUpgrade(o) /\ ProposalsOnly /\ \E q : Writes(o, q) /\ Executed(o, q)
    BY <1>1 DEF Installs
  <2> QED
    BY <2>1 DEF Writes
<1>3. proposals[id].state \in {"Frozen", "Extended"}
  BY <1>2 DEF ExecuteUpgrade
<1>4. proposals[id].target_nonce + 1 = target_nonce
  BY <1>2 DEF ExecuteUpgrade, FrozenFor
<1>5. Decided(proposals[id])
  BY DEF DecidedInv
<1>6. SignedBy(proposals[id])
  BY DEF SignedInv
<1> QED
  BY <1>3, <1>4, <1>5, <1>6 DEF Decided, Approved, InFlight

\* execute_upgrade replaces code only for a proposal that a quorum of the registered council
\* of its creation approved, each seat in office in the review window, whose delay was waited
\* out before its freeze, and whose freeze consumed the nonce it was created under: whatever
\* a harness reports of the accounts, whoever sits in the council later, and although
\* neither the queue nor the freeze nor the execution looks at the seats again.
THEOREM UpgradeTheorem == Spec => UpgradeWasDecided
<1>1. Init => DecidedInv /\ SignedInv
  BY DEF Init, DecidedInv, SignedInv
<1>2. ModelTypes /\ DecidedInv /\ SignedInv /\ [Next]_vars => DecidedInv' /\ SignedInv'
  BY NextShape, SignedStep
<1>3. ModelTypes /\ DecidedInv /\ SignedInv /\ [Next]_vars =>
      [ \A id \in DOMAIN proposals :
          proposals'[id].upgraded_slot # proposals[id].upgraded_slot =>
            LET p == proposals[id]
                c == council_history[p.creation_council.version]
                t == p.timing IN
            /\ p.creation_council.version \in DOMAIN council_history
            /\ p.creation_council = Binding(c)
            /\ p.initial_approvals.binding = p.creation_council
            /\ Quorum(p.initial_approvals.bitset)
            /\ \A i \in p.initial_approvals.bitset :
                  \E s \in t.review_start_slot .. t.review_end_slot : SeatActive(c, i, s)
            /\ t.not_before_slot <= p.frozen_slot
            /\ p.target_nonce + 1 = target_nonce ]_vars
  BY InstallDecided DEF SignedBy, Signed
<1> QED
  BY ModelTypeTheorem, <1>1, <1>2, <1>3, PTL DEF Spec, UpgradeWasDecided
================================================================================
