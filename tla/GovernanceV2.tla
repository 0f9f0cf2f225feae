---------------------------- MODULE GovernanceV2 ----------------------------
(***************************************************************************)
(* release1_governance_v2_processor: the council governs its own timing    *)
(* policy and its own succession. Candidate councils and timing profiles   *)
(* are immutable accounts that any seat in term may create; a proposal     *)
(* names one of them, and executing it makes it the one in force.          *)
(*                                                                         *)
(* Every instruction is one atomic step. A profile's version and a         *)
(* proposal's identifier are its positions in the sequences below: the     *)
(* registry hands out both in order (next_timing_profile_version,          *)
(* next_proposal_id). A council's version is chosen by its creator.        *)
(***************************************************************************)
EXTENDS GovernanceLifecycleV2

CONSTANTS
    Authorities,    \* the keys that may hold a seat
    Guardian,       \* config.guardian, who may not
    Versions,       \* council versions; the first council has version 1
    FirstTerms,     \* the first council's seats
    CandidateTerms, \* the seats a candidate council may be created with
    NominalTiming,  \* nominal_governance_timing_profile_v1
    ProfileTimings, \* the timings a candidate profile may be created with
    MajorDelay,     \* config.major_delay_slots
    MaxSlot,        \* bound on the clock
    LastActivation, \* bound on a candidate council's activation slot
    LastCreation,   \* bound on the slots at which accounts are created
    MaxProfiles,    \* bound on the number of profiles
    Quotas,         \* bounds on each kind's proposals and candidates, and on the votes to
                    \* cancel; a behaviour keeps to one
    MaxProposals    \* bound on the proposals of all kinds

ASSUME GovernanceAssumption ==
    /\ Versions \subseteq Nat \ {0} /\ 1 \in Versions
    /\ MajorDelay \in Nat \ {0}
    /\ MaxSlot \in Nat /\ LastActivation \in Nat /\ LastCreation \in Nat
    /\ MaxSlot >= 1 /\ MaxProfiles \in Nat \ {0} /\ MaxProposals \in Nat
    /\ \A quota \in Quotas : quota \in [Kinds \cup {"Cancellation"} -> Nat]
    /\ \A term \in CandidateTerms \cup {FirstTerms} :
           \E S \in SUBSET Authorities : term \in [S -> [start : Nat, end : Nat]]
    /\ Guardian \notin DOMAIN FirstTerms

ASSUME TimingAssumption ==
    \A timing \in ProfileTimings \cup {NominalTiming} :
        timing \in [TimingClasses -> [review : Nat, delay : Nat, expiry : Nat]]

ASSUME NominalAssumption == ProfileTimingValid(NominalTiming)

VARIABLES
    slot,       \* the clock sysvar
    council,    \* config.current_council_version
    councils,   \* GovernanceCouncilSetV1, by version
    registry,   \* GovernanceLifecycleRegistryV2
    profiles,   \* GovernanceTimingProfileV1, by version
    proposals   \* TimingPolicyChangeProposalV1, CouncilRotationProposalV2, by identifier

govVars == <<slot, council, councils, registry, profiles, proposals>>

NoCouncil == [from |-> 0, term |-> <<>>]
Council(from, term) == [from |-> from, term |-> term]

\* A candidate is bound to the profile in force when it was created.
Profile(predecessor, timing) == [predecessor |-> predecessor, timing |-> timing]

\* The registry before and after process_initialize_governance_lifecycle_registry_v2.
NoRegistry == [profile |-> None, rotationNonce |-> None, lastChange |-> None]
FirstRegistry == [profile |-> 1, rotationNonce |-> 1, lastChange |-> None]

-----------------------------------------------------------------------------
(* Loading *)

ActiveAt(c, now) == c # NoCouncil /\ c.from <= now
TermCovers(c, seat, now) ==
    seat \in DOMAIN c.term /\ c.term[seat].start <= now /\ now < c.term[seat].end

Current == councils[council]

\* load_current_council: every handler fails while the council in force is not active.
CouncilLoads == ActiveAt(Current, slot)

\* require_active_seat and reject_guardian: the signer holds a seat in term.
ActiveSeat(a) == CouncilLoads /\ a # Guardian /\ TermCovers(Current, a, slot)

\* require_mask_active: every seat that voted is still in term.
MaskActive(votes) == \A seat \in votes : TermCovers(Current, seat, slot)

\* load_registry and require_registry_profile.
RegistryLoads == registry # NoRegistry
Governing == profiles[registry.profile]

\* require_candidate_council_active.
CandidateActive(c, now) ==
    ActiveAt(c, now) /\ \A seat \in DOMAIN c.term : TermCovers(c, seat, now)

\* validate_profile_predecessor.
Succeeds(candidate, governing) ==
    candidate > governing /\ profiles[candidate].predecessor = governing

\* load_timing_policy_context.
TimingContext(p) == CouncilLoads /\ RegistryLoads /\ Succeeds(p.candidate, p.profile)

\* load_rotation_context_v2.
RotationContext(p) == CouncilLoads /\ RegistryLoads /\ councils[p.candidate] # NoCouncil

\* validate_timing_policy_graph with require_live_governors.
LiveTimingGovernorsMutant(p) ==
    TimingContext(p) /\ p.council = council
LiveTimingGovernors(p) ==
    /\ TimingContext(p)
    /\ p.council = council
    /\ p.profile = registry.profile

\* validate_rotation_graph with require_live_governors, and load_candidate_council.
\* The profile is the one the proposal was created under, in force or not.
LiveRotationGovernorsMutant(p) == RotationContext(p)
LiveRotationGovernors(p) ==
    /\ RotationContext(p)
    /\ p.council = council
    /\ p.nonce = registry.rotationNonce
    /\ p.candidate > council

-----------------------------------------------------------------------------
(* What the handlers of every kind do *)

OfKind(kind) == {i \in DOMAIN proposals : proposals[i].kind = kind}

\* Bound: the accounts that a behaviour may hold, proposed and made more than now.
Made(kind) ==
    CASE kind = "TimingPolicyChange" -> Len(profiles) - 1
      [] kind = "CouncilRotation" -> Cardinality({v \in Versions : councils[v] # NoCouncil}) - 1
      [] OTHER -> 0

Proposed(kind) ==
    IF kind \in Kinds THEN Cardinality(OfKind(kind))
    ELSE Cardinality({vote \in (DOMAIN proposals) \X Authorities :
                          vote[2] \in proposals[vote[1]].cancellations})

RoomFor(kind, proposed, made) ==
    \E quota \in Quotas : \A k \in DOMAIN quota :
        /\ Proposed(k) + (IF k = kind THEN proposed ELSE 0) <= quota[k]
        /\ Made(k) + (IF k = kind THEN made ELSE 0) <= quota[k]

\* process_create_*: consume the next identifier and store a Draft.
CreateProposal(kind, candidate, nonce, bridge) ==
    /\ RegistryLoads
    /\ slot <= LastCreation /\ Len(proposals) < MaxProposals /\ RoomFor(kind, 1, 0)
    /\ proposals' = Append(proposals,
           NewProposal(kind, council, registry.profile, Governing.timing, slot,
                       candidate, nonce, bridge))

Store(i, p) == proposals' = [proposals EXCEPT ![i] = p]

UnchangedExceptProposals == UNCHANGED <<slot, council, councils, registry, profiles>>

ApproveProposal(i, a) ==
    /\ ActiveSeat(a)
    /\ CanApprove(proposals[i], a, slot)
    /\ MaskActive(proposals[i].approvals)
    /\ Store(i, Approved(proposals[i], a, slot))
    /\ UnchangedExceptProposals

CancelProposal(i, a) ==
    /\ ActiveSeat(a) /\ RoomFor("Cancellation", 1, 0)
    /\ CanCancel(proposals[i], a, slot)
    /\ MaskActive(proposals[i].cancellations)
    /\ Store(i, Cancelled(proposals[i], a, slot))
    /\ UnchangedExceptProposals

\* Expiry needs no seat and no governor of the proposal, only a council that loads.
ExpireProposal(i) ==
    /\ CouncilLoads /\ RegistryLoads
    /\ Expirable(proposals[i], slot)
    /\ Store(i, Expired(proposals[i], slot))
    /\ UnchangedExceptProposals

QuorumLive(p) == MaskActive(p.approvals) /\ Cardinality(p.approvals) >= Threshold

QueueProposal(i) ==
    /\ Queueable(proposals[i], slot)
    /\ QuorumLive(proposals[i])
    /\ Store(i, Queued(proposals[i], slot))
    /\ UnchangedExceptProposals

ExecuteProposal(i) ==
    /\ Executable(proposals[i], slot)
    /\ QuorumLive(proposals[i])
    /\ Store(i, Completed(proposals[i], slot))

-----------------------------------------------------------------------------
(* Candidates *)

\* process_create_candidate_council_set_v1: the creator chooses the version, so
\* versions may be skipped; the account of a version is created once.
CreateCandidateCouncil(a, v, from, term) ==
    /\ ActiveSeat(a)
    /\ v > council /\ councils[v] = NoCouncil
    /\ slot <= LastCreation /\ RoomFor("CouncilRotation", 0, 1)
    /\ from >= slot + MajorDelay
    /\ Guardian \notin DOMAIN term
    /\ \A seat \in DOMAIN term : term[seat].start <= from /\ from < term[seat].end
    /\ councils' = [councils EXCEPT ![v] = Council(from, term)]
    /\ UNCHANGED <<slot, council, registry, profiles, proposals>>

\* process_create_governance_timing_profile_v1.
CreateTimingProfile(a, timing) ==
    /\ ActiveSeat(a) /\ RegistryLoads
    /\ slot <= LastCreation /\ Len(profiles) < MaxProfiles
    /\ RoomFor("TimingPolicyChange", 0, 1)
    /\ ProfileTimingValid(timing)
    /\ profiles' = Append(profiles, Profile(registry.profile, timing))
    /\ UNCHANGED <<slot, council, councils, registry, proposals>>

-----------------------------------------------------------------------------
(* Timing policy changes *)

CreateTimingPolicyChange(a, candidate) ==
    /\ ActiveSeat(a)
    /\ Succeeds(candidate, registry.profile)
    /\ CreateProposal("TimingPolicyChange", candidate, None, NoBridge)
    /\ UnchangedExceptProposals

ApproveTimingPolicyChange(i, a) == LiveTimingGovernors(proposals[i]) /\ ApproveProposal(i, a)

CancelTimingPolicyChange(i, a) == LiveTimingGovernors(proposals[i]) /\ CancelProposal(i, a)

\* Expiry asks for the proposal's own governors, as the other steps do.
ExpireTimingPolicyChangeMutant(i) == LiveTimingGovernors(proposals[i]) /\ ExpireProposal(i)
ExpireTimingPolicyChange(i) == TimingContext(proposals[i]) /\ ExpireProposal(i)

QueueTimingPolicyChange(i) == LiveTimingGovernors(proposals[i]) /\ QueueProposal(i)

ExecuteTimingPolicyChange(i) ==
    /\ LiveTimingGovernors(proposals[i])
    /\ ExecuteProposal(i)
    /\ registry' = [registry EXCEPT !.profile = proposals[i].candidate, !.lastChange = i]
    /\ UNCHANGED <<slot, council, councils, profiles>>

-----------------------------------------------------------------------------
(* Council rotations *)

\* The seats cover the first slot at which the rotation can run; its last slot is
\* forgotten.
SeatedThroughoutMutant(c, t) ==
    LET earliest == Larger(c.from, t.notBefore) IN
    earliest < t.expiry /\ CandidateActive(c, earliest)
\* The candidate is active, and each seat in term, at the first and at the last
\* slot at which the rotation can run.
SeatedThroughout(c, t) ==
    LET earliest == Larger(c.from, t.notBefore) IN
    /\ earliest < t.expiry
    /\ CandidateActive(c, earliest)
    /\ \A seat \in DOMAIN c.term : TermCovers(c, seat, t.expiry - 1)

CreateCouncilRotation(a, v) ==
    /\ ActiveSeat(a)
    /\ v > council /\ councils[v] # NoCouncil
    /\ RegistryLoads
    /\ SeatedThroughout(councils[v], DerivedTiming(Governing.timing["Major"], slot))
    /\ CreateProposal("CouncilRotation", v, registry.rotationNonce, NoBridge)
    /\ UnchangedExceptProposals

ApproveCouncilRotation(i, a) == LiveRotationGovernors(proposals[i]) /\ ApproveProposal(i, a)

CancelCouncilRotation(i, a) == LiveRotationGovernors(proposals[i]) /\ CancelProposal(i, a)

ExpireCouncilRotation(i) == RotationContext(proposals[i]) /\ ExpireProposal(i)

QueueCouncilRotation(i) == LiveRotationGovernors(proposals[i]) /\ QueueProposal(i)

ExecuteCouncilRotation(i) ==
    /\ LiveRotationGovernors(proposals[i])
    /\ ExecuteProposal(i)
    /\ CandidateActive(councils[proposals[i].candidate], slot)
    /\ council' = proposals[i].candidate
    /\ registry' = [registry EXCEPT !.rotationNonce = @ + 1]
    /\ UNCHANGED <<slot, councils, profiles>>

-----------------------------------------------------------------------------
(* The specification *)

\* The state the bootstrap leaves: one council, its registry and the nominal profile.
GovInit ==
    /\ slot = 1
    /\ council = 1
    /\ councils = [v \in Versions |-> IF v = 1 THEN Council(1, FirstTerms) ELSE NoCouncil]
    /\ registry = FirstRegistry
    /\ profiles = <<Profile(None, NominalTiming)>>
    /\ proposals = <<>>

Tick ==
    /\ slot < MaxSlot
    /\ slot' = slot + 1
    /\ UNCHANGED <<council, councils, registry, profiles, proposals>>

Candidates ==
    \E a \in Authorities :
        \/ \E v \in Versions, from \in 0..LastActivation, term \in CandidateTerms :
               CreateCandidateCouncil(a, v, from, term)
        \/ \E timing \in ProfileTimings : CreateTimingProfile(a, timing)

TimingPolicyChanges ==
    \/ \E a \in Authorities, c \in DOMAIN profiles : CreateTimingPolicyChange(a, c)
    \/ \E i \in OfKind("TimingPolicyChange") :
           \/ \E a \in Authorities :
                  ApproveTimingPolicyChange(i, a) \/ CancelTimingPolicyChange(i, a)
           \/ ExpireTimingPolicyChange(i)
           \/ QueueTimingPolicyChange(i)
           \/ ExecuteTimingPolicyChange(i)

CouncilRotations ==
    \/ \E a \in Authorities, v \in Versions : CreateCouncilRotation(a, v)
    \/ \E i \in OfKind("CouncilRotation") :
           \/ \E a \in Authorities : ApproveCouncilRotation(i, a) \/ CancelCouncilRotation(i, a)
           \/ ExpireCouncilRotation(i)
           \/ QueueCouncilRotation(i)
           \/ ExecuteCouncilRotation(i)

GovNext == Tick \/ Candidates \/ TimingPolicyChanges \/ CouncilRotations

GovSpec == GovInit /\ [][GovNext]_govVars

\* The clock advances, and someone calls the permissionless expiry of a proposal
\* that stays open to it.
GovFairness ==
    /\ WF_govVars(Tick)
    /\ \A i \in 1..MaxProposals :
           /\ WF_govVars(i \in OfKind("TimingPolicyChange") /\ ExpireTimingPolicyChange(i))
           /\ WF_govVars(i \in OfKind("CouncilRotation") /\ ExpireCouncilRotation(i))

GovFairSpec == GovSpec /\ GovFairness

-----------------------------------------------------------------------------
(* Properties *)

Proposal ==
    [kind : Kinds, state : States, council : Versions, profile : 1..MaxProfiles,
     candidate : Nat, nonce : Nat, bridge : {NoBridge},
     durations : [review : Nat, delay : Nat, expiry : Nat], created : Nat,
     reviewEnd : Nat, notBefore : Nat, expiry : Nat,
     approvals : SUBSET Authorities, cancellations : SUBSET Authorities,
     firstApproval : Nat, approvedAt : Nat, queuedAt : Nat, executedAt : Nat,
     terminalAt : Nat]

\* The types of the governance accounts.
GovTypeOK ==
    /\ slot \in 1..MaxSlot
    /\ council \in Versions /\ councils[council] # NoCouncil
    /\ DOMAIN councils = Versions
    /\ registry \in [profile : DOMAIN profiles, rotationNonce : Nat \ {0}, lastChange : Nat]
    /\ \A v \in DOMAIN profiles : profiles[v].predecessor < v
    /\ \A i \in DOMAIN proposals : proposals[i] \in Proposal

\* Whatever the order of votes, cancellations, queueing and expiry, every stored
\* proposal passes validate_static, which each later instruction applies when it
\* loads the account: no sequence of accepted instructions wedges a proposal.
RecordsValid ==
    /\ \A i \in OfKind("TimingPolicyChange") : TimingPolicyChangeValid(proposals[i])
    /\ \A i \in OfKind("CouncilRotation") : CouncilRotationValid(proposals[i])

\* The profiles in force form one chain: of the changes that compete to succeed a
\* profile at most one completes, the last one installed the profile in force, and
\* that profile was made to succeed the one it replaced.
ProfileChain ==
    LET done == {i \in OfKind("TimingPolicyChange") : proposals[i].state = "Completed"} IN
    /\ \A i, j \in done : proposals[i].profile = proposals[j].profile => i = j
    /\ IF registry.lastChange = None
       THEN done = {} /\ registry.profile = 1
       ELSE /\ registry.lastChange \in done
            /\ proposals[registry.lastChange].candidate = registry.profile
            /\ proposals[registry.lastChange].profile = Governing.predecessor

\* A rotation takes every decision out of its predecessor's hands: a proposal of a
\* council that is no longer in force changes only by expiring, and what it has
\* collected so far counts for nothing under the next council.
OldCouncilPowerless ==
    [][\A i \in DOMAIN proposals :
         proposals[i].council # council /\ proposals'[i] # proposals[i]
             => proposals'[i] = Expired(proposals[i], slot)]_govVars

\* A council is succeeded once, by a newer one, and is active when it takes over:
\* governance never falls to a council whose account no handler would load.
CouncilSuccession ==
    /\ CouncilLoads
    /\ LET done == {i \in OfKind("CouncilRotation") : proposals[i].state = "Completed"} IN
       /\ Cardinality(done) = registry.rotationNonce - 1
       /\ \A i, j \in done : proposals[i].council = proposals[j].council => i = j
       /\ \A i \in done : proposals[i].candidate > proposals[i].council
                         /\ proposals[i].candidate <= council

\* A queued rotation cannot be stranded by its candidate: from the candidate's
\* activation to the proposal's expiry every one of its seats is in term, so the
\* check that execution repeats succeeds at each slot of the window.
QueuedRotationRuns ==
    \A i \in OfKind("CouncilRotation") :
        LET p == proposals[i] c == councils[p.candidate] IN
        LiveRotationGovernors(p) /\ Executable(p, slot) /\ ActiveAt(c, slot)
            => CandidateActive(c, slot)

\* Every proposal ends: what is not executed or cancelled is expired, also when a
\* competing change or rotation has made it void.
EveryProposalEnds ==
    \A i \in 1..MaxProposals :
        (i \in DOMAIN proposals) ~>
            (i \in DOMAIN proposals /\ proposals[i].state \in TerminalStates)
=============================================================================
