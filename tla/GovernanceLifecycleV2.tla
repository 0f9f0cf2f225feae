----------------------- MODULE GovernanceLifecycleV2 -----------------------
(***************************************************************************)
(* release1_governance_v2: the lifecycle that all four kinds of governance *)
(* V2 proposal share. A proposal is reviewed by the council it was created *)
(* under, approved by equal seats, queued, and executed between its        *)
(* not-before slot and its expiry; as many seats can cancel it before then,*)
(* and anyone can expire it afterwards. Its windows all count from its     *)
(* creation and come from the timing profile then in force.                *)
(***************************************************************************)
EXTENDS Integers, FiniteSets, Sequences

CONSTANTS
    Threshold,       \* EQUAL_SEAT_THRESHOLD_V2, 3 of 5
    MinimumReview,   \* MINIMUM_REVIEW_SLOTS_V1
    MinimumDelay,    \* MINIMUM_DELAY_SLOTS_V1
    MinimumMargin    \* MINIMUM_EXECUTION_MARGIN_SLOTS_V1

ASSUME ThresholdAssumption == Threshold \in Nat \ {0}
ASSUME MinimumAssumption ==
    MinimumReview \in Nat \ {0} /\ MinimumDelay \in Nat \ {0} /\ MinimumMargin \in Nat

None == 0

TimingClasses == {"EmergencyRollback", "Routine", "Major", "Constitutional"}
Kinds == {"TimingPolicyChange", "CouncilRotation",
          "TargetAuthorityHandoff", "BootstrapActivation"}
States == {"Draft", "CouncilApproved", "Timelocked", "Completed", "Cancelled", "Expired"}
TerminalStates == {"Completed", "Cancelled", "Expired"}

\* The class whose windows a kind of proposal takes.
ClassOf == [kind \in Kinds |->
    CASE kind = "TargetAuthorityHandoff" -> "Constitutional"
      [] kind = "BootstrapActivation" -> "Routine"
      [] OTHER -> "Major"]

Larger(m, n) == IF m >= n THEN m ELSE n

-----------------------------------------------------------------------------
(* Timing *)

\* GovernanceClassTimingV1::validate: the margin is strict.
ClassTimingValid(t) ==
    /\ t.review >= MinimumReview
    /\ t.delay >= MinimumDelay
    /\ t.expiry > Larger(t.review, t.delay) + MinimumMargin

\* GovernanceTimingProfileV1::validate_static, all four classes.
ProfileTimingValid(timing) == \A c \in TimingClasses : ClassTimingValid(timing[c])

\* derive_proposal_timing_v2: review and delay both run from the creation slot.
DerivedTiming(t, created) ==
    [durations |-> t,
     reviewEnd |-> created + t.review,
     notBefore |-> created + t.delay,
     expiry |-> created + t.expiry]

\* validate_bound_timing, on every load and every store.
BoundTimingValid(p) ==
    /\ ClassTimingValid(p.durations)
    /\ p.created > 0
    /\ p.reviewEnd = p.created + p.durations.review
    /\ p.notBefore = p.created + p.durations.delay
    /\ p.expiry = p.created + p.durations.expiry

-----------------------------------------------------------------------------
(* The record *)

\* The four proposal accounts. A timing change and a rotation name a candidate,
\* a rotation the registry's nonce, and a handoff and an activation the bridge
\* program that was observed.
NoBridge == "no bridge"
NewProposal(kind, council, profile, timing, created, candidate, nonce, bridge) ==
    LET t == DerivedTiming(timing[ClassOf[kind]], created) IN
    [kind |-> kind, state |-> "Draft", council |-> council, profile |-> profile,
     candidate |-> candidate, nonce |-> nonce, bridge |-> bridge,
     durations |-> t.durations, created |-> created, reviewEnd |-> t.reviewEnd,
     notBefore |-> t.notBefore, expiry |-> t.expiry,
     approvals |-> {}, cancellations |-> {},
     firstApproval |-> 0, approvedAt |-> 0, queuedAt |-> 0, executedAt |-> 0,
     terminalAt |-> 0]

\* validate_lifecycle_fields: what each state requires of the others.
LifecycleValid(p) ==
    /\ p.created < p.reviewEnd /\ p.reviewEnd < p.expiry
    /\ p.created < p.notBefore /\ p.notBefore < p.expiry
    /\ IF p.approvals = {} THEN p.firstApproval = 0
                           ELSE p.firstApproval \in p.created..p.reviewEnd
    /\ LET approved == Cardinality(p.approvals) >= Threshold
           cancelled == Cardinality(p.cancellations) >= Threshold
           running == p.executedAt = 0 /\ p.terminalAt = 0 IN
       CASE p.state = "Draft" ->
              ~approved /\ ~cancelled /\ running /\ p.approvedAt = 0 /\ p.queuedAt = 0
         [] p.state = "CouncilApproved" ->
              /\ approved /\ ~cancelled /\ running /\ p.queuedAt = 0
              /\ p.approvedAt \in p.firstApproval..p.reviewEnd
         [] p.state = "Timelocked" ->
              /\ approved /\ ~cancelled /\ running
              /\ p.firstApproval <= p.approvedAt /\ p.approvedAt <= p.queuedAt
              /\ p.queuedAt < p.expiry
         [] p.state = "Completed" ->
              /\ approved /\ p.queuedAt # 0 /\ p.terminalAt = p.executedAt
              /\ p.notBefore <= p.executedAt /\ p.executedAt < p.expiry
         [] p.state = "Cancelled" ->
              cancelled /\ p.executedAt = 0 /\ p.terminalAt > 0 /\ p.terminalAt < p.expiry
         [] p.state = "Expired" -> p.executedAt = 0 /\ p.terminalAt >= p.expiry

\* TimingPolicyChangeProposalV1::validate_static.
TimingPolicyChangeValid(p) ==
    /\ p.candidate > p.profile /\ p.profile # None
    /\ BoundTimingValid(p) /\ LifecycleValid(p)

\* CouncilRotationProposalV2::validate_static.
CouncilRotationValid(p) ==
    /\ p.candidate > p.council /\ p.council # None /\ p.profile # None
    /\ BoundTimingValid(p) /\ LifecycleValid(p)

-----------------------------------------------------------------------------
(* Votes and steps. Each operator takes the slot the clock sysvar reports. *)

\* Votes count until the proposal expires, not only while it is reviewed.
CanApproveMutant(p, seat, now) ==
    p.state = "Draft" /\ now >= p.created /\ now < p.expiry /\ seat \notin p.approvals
\* record_governance_approval_v2 and record_equal_seat_vote.
CanApprove(p, seat, now) ==
    /\ p.state = "Draft"
    /\ now >= p.created /\ now <= p.reviewEnd /\ now < p.expiry
    /\ seat \notin p.approvals

\* The handlers' use of it: the vote that reaches the threshold approves.
Approved(p, seat, now) ==
    LET votes == p.approvals \cup {seat}
        crossed == Cardinality(votes) >= Threshold IN
    [p EXCEPT !.approvals = votes,
              !.firstApproval = IF p.approvals = {} THEN now ELSE @,
              !.state = IF crossed THEN "CouncilApproved" ELSE @,
              !.approvedAt = IF crossed THEN now ELSE @]

\* record_governance_cancellation_v2: until expiry, also after approval.
CanCancel(p, seat, now) ==
    /\ p.state \notin TerminalStates
    /\ now < p.expiry
    /\ seat \notin p.cancellations

Cancelled(p, seat, now) ==
    LET votes == p.cancellations \cup {seat}
        crossed == Cardinality(votes) >= Threshold IN
    [p EXCEPT !.cancellations = votes,
              !.state = IF crossed THEN "Cancelled" ELSE @,
              !.terminalAt = IF crossed THEN now ELSE @]

\* require_governance_queueable_v2.
Queueable(p, now) == p.state = "CouncilApproved" /\ now < p.expiry

Queued(p, now) == [p EXCEPT !.state = "Timelocked", !.queuedAt = now]

\* require_governance_executable_v2.
Executable(p, now) == p.state = "Timelocked" /\ p.notBefore <= now /\ now < p.expiry

Completed(p, now) ==
    [p EXCEPT !.state = "Completed", !.executedAt = now, !.terminalAt = now]

\* require_governance_expirable_v2.
Expirable(p, now) == p.state \notin TerminalStates /\ now >= p.expiry

Expired(p, now) == [p EXCEPT !.state = "Expired", !.terminalAt = now]
=============================================================================
