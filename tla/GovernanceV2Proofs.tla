------------------------- MODULE GovernanceV2Proofs -------------------------
(***************************************************************************)
(* What governance V2 keeps for every council, timing, quota and bound.    *)
(* The proof follows a proposal's record: Advance lists what an            *)
(* instruction other than execution does to it, StepCases reduces every    *)
(* step to one of eight, and the invariant GovInv is carried over each.    *)
(***************************************************************************)
EXTENDS GovernanceV2, FiniteSetTheorems, TLAPS

Timings == [TimingClasses -> [review : Nat, delay : Nat, expiry : Nat]]

ProfileRecord == [predecessor : Nat, timing : Timings]

Councils ==
    {NoCouncil} \cup [from : Nat \ {0}, term : CandidateTerms \cup {FirstTerms}]

\* GovTypeOK as an inductive invariant: sequences with their lengths.
GovTypes ==
    /\ slot \in 1..MaxSlot
    /\ council \in Versions
    /\ councils \in [Versions -> Councils]
    /\ profiles \in Seq(ProfileRecord) /\ Len(profiles) <= MaxProfiles
    /\ \A v \in 1..Len(profiles) : profiles[v].predecessor < v
    /\ registry \in [profile : 1..Len(profiles), rotationNonce : Nat \ {0}, lastChange : Nat]
    /\ proposals \in Seq(Proposal)

\* A stored record is valid, and nothing in it lies in the future.
Sound(p, now) ==
    /\ BoundTimingValid(p) /\ LifecycleValid(p)
    /\ p.created <= now /\ p.firstApproval <= now /\ p.approvedAt <= now

Succession(p) ==
    /\ p.kind \in {"TimingPolicyChange", "CouncilRotation"}
    /\ p.kind = "TimingPolicyChange" => p.candidate > p.profile
    /\ p.kind = "CouncilRotation" => p.candidate > p.council

RecordsSound ==
    /\ \A v \in 1..Len(profiles) : ProfileTimingValid(profiles[v].timing)
    /\ \A i \in 1..Len(proposals) : Sound(proposals[i], slot) /\ Succession(proposals[i])

\* The candidate's account exists; a council is seated over the rotation's window.
CandidateStored(p) ==
    /\ p.kind = "TimingPolicyChange" => p.candidate \in 1..Len(profiles)
    /\ p.kind = "CouncilRotation" =>
           /\ p.candidate \in Versions /\ councils[p.candidate] # NoCouncil
           /\ SeatedThroughout(councils[p.candidate], p)

CandidatesStored == \A i \in 1..Len(proposals) : CandidateStored(proposals[i])

Done(kind) ==
    {i \in 1..Len(proposals) : proposals[i].kind = kind /\ proposals[i].state = "Completed"}

\* A completed change started from a profile older than the one in force.
Chained ==
    /\ \A i \in Done("TimingPolicyChange") : proposals[i].profile < registry.profile
    /\ \A i, j \in Done("TimingPolicyChange") : proposals[i].profile = proposals[j].profile => i = j
    /\ registry.lastChange = None => Done("TimingPolicyChange") = {} /\ registry.profile = 1
    /\ registry.lastChange # None =>
           /\ registry.lastChange \in Done("TimingPolicyChange")
           /\ proposals[registry.lastChange].candidate = registry.profile
           /\ proposals[registry.lastChange].profile = profiles[registry.profile].predecessor

\* A completed rotation led away from a council older than the one in force.
Succeeded ==
    /\ CouncilLoads
    /\ Cardinality(Done("CouncilRotation")) = registry.rotationNonce - 1
    /\ \A i \in Done("CouncilRotation") :
           proposals[i].council < proposals[i].candidate /\ proposals[i].candidate <= council
    /\ \A i, j \in Done("CouncilRotation") : proposals[i].council = proposals[j].council => i = j

GovInv == GovTypes /\ RecordsSound /\ CandidatesStored /\ Chained /\ Succeeded

-----------------------------------------------------------------------------
(* Steps *)

\* What an instruction other than execution does to a proposal's record.
Advance(p, q) ==
    \/ \E a \in Authorities : CanApprove(p, a, slot) /\ q = Approved(p, a, slot)
    \/ \E a \in Authorities : CanCancel(p, a, slot) /\ q = Cancelled(p, a, slot)
    \/ Queueable(p, slot) /\ q = Queued(p, slot)
    \/ Expirable(p, slot) /\ q = Expired(p, slot)

Moves(i) ==
    /\ \E q : /\ Advance(proposals[i], q) /\ Store(i, q)
              /\ proposals[i].council = council \/ q = Expired(proposals[i], slot)
    /\ UnchangedExceptProposals

Adds(p) == proposals' = Append(proposals, p)

\* Every step of governance is one of eight: the clock, one of four creations, a
\* step on one proposal's record, or one of two executions.
LEMMA StepCases ==
    ASSUME GovNext, GovTypes
    PROVE  \/ Tick
           \/ \E a \in Authorities, v \in Versions, from \in 0..LastActivation,
                 term \in CandidateTerms : CreateCandidateCouncil(a, v, from, term)
           \/ \E a \in Authorities, timing \in ProfileTimings : CreateTimingProfile(a, timing)
           \/ \E a \in Authorities, c \in 1..Len(profiles) : CreateTimingPolicyChange(a, c)
           \/ \E a \in Authorities, v \in Versions : CreateCouncilRotation(a, v)
           \/ \E i \in 1..Len(proposals) : Moves(i)
           \/ \E i \in OfKind("TimingPolicyChange") : ExecuteTimingPolicyChange(i)
           \/ \E i \in OfKind("CouncilRotation") : ExecuteCouncilRotation(i)
<1> DOMAIN profiles = 1..Len(profiles) /\ DOMAIN proposals = 1..Len(proposals)
  BY DEF GovTypes
<1>1. ASSUME NEW i \in OfKind("TimingPolicyChange"),
             \/ \E a \in Authorities :
                    ApproveTimingPolicyChange(i, a) \/ CancelTimingPolicyChange(i, a)
             \/ ExpireTimingPolicyChange(i) \/ QueueTimingPolicyChange(i)
      PROVE  Moves(i) /\ i \in 1..Len(proposals)
  BY <1>1 DEF OfKind, ApproveTimingPolicyChange, CancelTimingPolicyChange,
     ExpireTimingPolicyChange, QueueTimingPolicyChange, LiveTimingGovernors,
     ApproveProposal, CancelProposal, ExpireProposal, QueueProposal, Moves, Advance
<1>2. ASSUME NEW i \in OfKind("CouncilRotation"),
             \/ \E a \in Authorities :
                    ApproveCouncilRotation(i, a) \/ CancelCouncilRotation(i, a)
             \/ ExpireCouncilRotation(i) \/ QueueCouncilRotation(i)
      PROVE  Moves(i) /\ i \in 1..Len(proposals)
  BY <1>2 DEF OfKind, ApproveCouncilRotation, CancelCouncilRotation,
     ExpireCouncilRotation, QueueCouncilRotation, LiveRotationGovernors,
     ApproveProposal, CancelProposal, ExpireProposal, QueueProposal, Moves, Advance
<1> QED
  BY <1>1, <1>2 DEF GovNext, Candidates, TimingPolicyChanges, CouncilRotations

-----------------------------------------------------------------------------
(* One record *)

Identity(p, q) ==
    /\ q.kind = p.kind /\ q.council = p.council /\ q.profile = p.profile
    /\ q.candidate = p.candidate /\ q.nonce = p.nonce
    /\ q.created = p.created /\ q.durations = p.durations
    /\ q.reviewEnd = p.reviewEnd /\ q.notBefore = p.notBefore /\ q.expiry = p.expiry

\* An instruction on a proposal that is still open keeps its record valid, and what
\* the proposal is about.
LEMMA AdvanceKeeps ==
    ASSUME NEW p \in Proposal, NEW q, slot \in Nat, Sound(p, slot), Advance(p, q)
    PROVE  /\ q \in Proposal /\ Identity(p, q) /\ Sound(q, slot)
           /\ p.state \notin TerminalStates /\ q.state # "Completed"
<1> USE ThresholdAssumption, MinimumAssumption
<1>1. CASE \E a \in Authorities : CanApprove(p, a, slot) /\ q = Approved(p, a, slot)
  <2> PICK a \in Authorities : CanApprove(p, a, slot) /\ q = Approved(p, a, slot)
    BY <1>1
  <2> DEFINE votes == p.approvals \cup {a}
             crossed == Cardinality(votes) >= Threshold
  <2>1. /\ q.approvals = votes
        /\ q.firstApproval = IF p.approvals = {} THEN slot ELSE p.firstApproval
        /\ q.state = IF crossed THEN "CouncilApproved" ELSE "Draft"
        /\ q.approvedAt = IF crossed THEN slot ELSE p.approvedAt
        /\ q.cancellations = p.cancellations /\ q.queuedAt = p.queuedAt
        /\ q.executedAt = p.executedAt /\ q.terminalAt = p.terminalAt
        /\ p.state = "Draft"
    BY DEF Approved, CanApprove, Proposal
  <2>2. Identity(p, q)
    BY DEF Identity, Approved, Proposal
  <2>3. q \in Proposal
    <3>1. /\ q.approvals \in SUBSET Authorities /\ q.firstApproval \in Nat
          /\ q.state \in States /\ q.approvedAt \in Nat
      BY <2>1 DEF Proposal, States
    <3>2. q = [p EXCEPT !.approvals = q.approvals, !.firstApproval = q.firstApproval,
                        !.state = q.state, !.approvedAt = q.approvedAt]
      BY DEF Approved, Proposal
    <3> QED
      BY <3>1, <3>2 DEF Proposal
  <2>4. BoundTimingValid(q)
    BY <2>2 DEF Identity, Sound, BoundTimingValid
  <2>5. q.firstApproval \in p.created..p.reviewEnd /\ q.firstApproval <= slot
    BY <2>1 DEF Sound, LifecycleValid, CanApprove, Proposal
  <2>6. LifecycleValid(q)
    <3>1. /\ p.created < p.reviewEnd /\ p.reviewEnd < p.expiry
          /\ p.created < p.notBefore /\ p.notBefore < p.expiry
          /\ ~(Cardinality(p.cancellations) >= Threshold)
          /\ p.executedAt = 0 /\ p.terminalAt = 0 /\ p.queuedAt = 0 /\ p.approvedAt = 0
          /\ slot <= p.reviewEnd
      BY <2>1 DEF Sound, LifecycleValid, CanApprove
    <3>2. q.approvals # {} /\ slot \in Int
      BY <2>1
    <3>3. CASE crossed
      BY <2>1, <2>2, <2>5, <3>1, <3>2, <3>3 DEF Identity, LifecycleValid, Proposal
    <3>4. CASE ~crossed
      BY <2>1, <2>2, <2>5, <3>1, <3>2, <3>4 DEF Identity, LifecycleValid, Proposal
    <3> QED
      BY <3>3, <3>4
  <2>7. q.created <= slot /\ q.approvedAt <= slot
    BY <2>1, <2>2 DEF Identity, Sound, Proposal
  <2> QED
    BY <2>1, <2>2, <2>3, <2>4, <2>5, <2>6, <2>7 DEF Sound, TerminalStates
<1>2. CASE \E a \in Authorities : CanCancel(p, a, slot) /\ q = Cancelled(p, a, slot)
  <2> PICK a \in Authorities : CanCancel(p, a, slot) /\ q = Cancelled(p, a, slot)
    BY <1>2
  <2> DEFINE votes == p.cancellations \cup {a}
             crossed == Cardinality(votes) >= Threshold
  <2>1. /\ q.cancellations = votes
        /\ q.state = IF crossed THEN "Cancelled" ELSE p.state
        /\ q.terminalAt = IF crossed THEN slot ELSE p.terminalAt
        /\ q.approvals = p.approvals /\ q.firstApproval = p.firstApproval
        /\ q.approvedAt = p.approvedAt /\ q.queuedAt = p.queuedAt
        /\ q.executedAt = p.executedAt
    BY DEF Cancelled, Proposal
  <2>2. Identity(p, q)
    BY DEF Identity, Cancelled, Proposal
  <2>3. q \in Proposal
    <3>1. /\ q.cancellations \in SUBSET Authorities
          /\ q.state \in States /\ q.terminalAt \in Nat
      BY <2>1 DEF Proposal, States
    <3>2. q = [p EXCEPT !.cancellations = q.cancellations,
                        !.state = q.state, !.terminalAt = q.terminalAt]
      BY DEF Cancelled, Proposal
    <3> QED
      BY <3>1, <3>2 DEF Proposal
  <2>4. BoundTimingValid(q)
    BY <2>2 DEF Identity, Sound, BoundTimingValid
  <2>5. /\ p.state \in {"Draft", "CouncilApproved", "Timelocked"}
        /\ slot > 0 /\ slot < p.expiry
    BY DEF CanCancel, TerminalStates, Proposal, States, Sound, BoundTimingValid
  <2>6. LifecycleValid(q)
    BY <2>1, <2>2, <2>5 DEF Identity, Sound, LifecycleValid, Proposal
  <2>7. Sound(q, slot)
    BY <2>1, <2>2, <2>4, <2>6 DEF Identity, Sound
  <2> QED
    BY <2>1, <2>2, <2>3, <2>5, <2>7 DEF TerminalStates
<1>3. CASE Queueable(p, slot) /\ q = Queued(p, slot)
  <2>1. /\ q.state = "Timelocked" /\ q.queuedAt = slot
        /\ q.approvals = p.approvals /\ q.firstApproval = p.firstApproval
        /\ q.approvedAt = p.approvedAt /\ q.cancellations = p.cancellations
        /\ q.executedAt = p.executedAt /\ q.terminalAt = p.terminalAt
        /\ p.state = "CouncilApproved" /\ slot < p.expiry
    BY <1>3 DEF Queued, Queueable, Proposal
  <2>2. Identity(p, q)
    BY <1>3 DEF Identity, Queued, Proposal
  <2>3. q \in Proposal
    BY <1>3 DEF Queued, Proposal, States
  <2>4. BoundTimingValid(q)
    BY <2>2 DEF Identity, Sound, BoundTimingValid
  <2>5. LifecycleValid(q)
    BY <2>1, <2>2 DEF Identity, Sound, LifecycleValid, Proposal
  <2> QED
    BY <2>1, <2>2, <2>3, <2>4, <2>5 DEF Identity, Sound, TerminalStates
<1>4. CASE Expirable(p, slot) /\ q = Expired(p, slot)
  <2>1. /\ q.state = "Expired" /\ q.terminalAt = slot
        /\ q.approvals = p.approvals /\ q.firstApproval = p.firstApproval
        /\ q.approvedAt = p.approvedAt /\ q.cancellations = p.cancellations
        /\ q.executedAt = p.executedAt /\ q.queuedAt = p.queuedAt
        /\ p.state \in {"Draft", "CouncilApproved", "Timelocked"} /\ slot >= p.expiry
    BY <1>4 DEF Expired, Expirable, Proposal, States, TerminalStates
  <2>2. Identity(p, q)
    BY <1>4 DEF Identity, Expired, Proposal
  <2>3. q \in Proposal
    BY <1>4 DEF Expired, Proposal, States
  <2>4. BoundTimingValid(q)
    BY <2>2 DEF Identity, Sound, BoundTimingValid
  <2>5. LifecycleValid(q)
    BY <2>1, <2>2 DEF Identity, Sound, LifecycleValid, Proposal
  <2> QED
    BY <2>1, <2>2, <2>3, <2>4, <2>5 DEF Identity, Sound, TerminalStates
<1> QED
  BY <1>1, <1>2, <1>3, <1>4 DEF Advance

\* Execution in its window keeps the record valid.
LEMMA CompletedKeeps ==
    ASSUME NEW p \in Proposal, slot \in Nat, Sound(p, slot), Executable(p, slot)
    PROVE  /\ Completed(p, slot) \in Proposal /\ Identity(p, Completed(p, slot))
           /\ Sound(Completed(p, slot), slot)
           /\ p.state = "Timelocked" /\ Completed(p, slot).state = "Completed"
<1> DEFINE q == Completed(p, slot)
<1>1. /\ q.state = "Completed" /\ q.executedAt = slot /\ q.terminalAt = slot
      /\ q.approvals = p.approvals /\ q.firstApproval = p.firstApproval
      /\ q.approvedAt = p.approvedAt /\ q.cancellations = p.cancellations
      /\ q.queuedAt = p.queuedAt
      /\ p.state = "Timelocked" /\ p.notBefore <= slot /\ slot < p.expiry
  BY DEF Completed, Executable, Proposal
<1>2. Identity(p, q)
  BY DEF Identity, Completed, Proposal
<1>3. q \in Proposal
  BY DEF Completed, Proposal, States
<1>4. BoundTimingValid(q)
  BY <1>2 DEF Identity, Sound, BoundTimingValid
<1>5. q.queuedAt # 0
  <2>1. p.approvals # {}
    <3>1. Cardinality(p.approvals) >= Threshold
      BY <1>1 DEF Sound, LifecycleValid
    <3> QED
      BY <3>1, FS_EmptySet, ThresholdAssumption
  <2>2. p.firstApproval > 0
    BY <2>1 DEF Sound, LifecycleValid, BoundTimingValid, Proposal
  <2> QED
    BY <1>1, <2>2 DEF Sound, LifecycleValid, Proposal
<1>6. LifecycleValid(q)
  BY <1>1, <1>2, <1>5 DEF Identity, Sound, LifecycleValid, Proposal
<1> QED
  BY <1>1, <1>2, <1>3, <1>4, <1>6 DEF Identity, Sound

\* A new proposal's record is valid under any valid timing profile.
LEMMA NewProposalSound ==
    ASSUME NEW kind \in {"TimingPolicyChange", "CouncilRotation"},
           NEW c \in Versions, NEW v \in 1..MaxProfiles,
           NEW timing \in Timings,
           ProfileTimingValid(timing), slot \in Nat \ {0},
           NEW candidate \in Nat, NEW nonce \in Nat,
           NEW p, p = NewProposal(kind, c, v, timing, slot, candidate, nonce, NoBridge)
    PROVE  /\ p \in Proposal /\ Sound(p, slot)
           /\ p.kind = kind /\ p.council = c /\ p.profile = v /\ p.candidate = candidate
           /\ p.state = "Draft"
           /\ p.notBefore = DerivedTiming(timing["Major"], slot).notBefore
           /\ p.expiry = DerivedTiming(timing["Major"], slot).expiry
<1> DEFINE t == timing["Major"]
<1>1. t \in [review : Nat, delay : Nat, expiry : Nat] /\ ClassTimingValid(t)
  BY DEF Timings, TimingClasses, ProfileTimingValid
<1>2. timing[ClassOf[kind]] = t
  BY DEF ClassOf, Kinds
<1>3. p = [kind |-> kind, state |-> "Draft", council |-> c, profile |-> v,
           candidate |-> candidate, nonce |-> nonce, bridge |-> NoBridge,
           durations |-> t, created |-> slot, reviewEnd |-> slot + t.review,
           notBefore |-> slot + t.delay, expiry |-> slot + t.expiry,
           approvals |-> {}, cancellations |-> {},
           firstApproval |-> 0, approvedAt |-> 0, queuedAt |-> 0, executedAt |-> 0,
           terminalAt |-> 0]
  BY <1>2 DEF NewProposal, DerivedTiming
<1> HIDE DEF t
<1>4. p \in Proposal
  BY <1>1, <1>3 DEF Proposal, Kinds, States
<1>5. BoundTimingValid(p)
  BY <1>1, <1>3 DEF BoundTimingValid
<1>6. Cardinality(p.approvals) = 0 /\ Cardinality(p.cancellations) = 0
  BY <1>3, FS_EmptySet
<1>7. t.review >= 1 /\ t.delay >= 1 /\ t.review < t.expiry /\ t.delay < t.expiry
  BY <1>1, MinimumAssumption DEF ClassTimingValid, Larger
<1>8. LifecycleValid(p)
  BY <1>1, <1>3, <1>6, <1>7, ThresholdAssumption DEF LifecycleValid
<1>9. Sound(p, slot)
  BY <1>3, <1>5, <1>8 DEF Sound
<1> QED
  BY <1>3, <1>4, <1>9 DEF t, DerivedTiming

-----------------------------------------------------------------------------
(* The invariant, step by step *)

\* The bootstrap's state satisfies the invariant.
LEMMA InitInv ==
    ASSUME GovInit
    PROVE  GovInv
<1> USE GovernanceAssumption DEF GovInit
<1>1. GovTypes
  <2>1. profiles \in Seq(ProfileRecord) /\ Len(profiles) = 1
        /\ profiles[1] = Profile(None, NominalTiming)
    <3>1. Profile(None, NominalTiming) \in ProfileRecord
      BY TimingAssumption DEF Profile, None, ProfileRecord, Timings
    <3> QED
      BY <3>1
  <2>2. councils \in [Versions -> Councils]
    BY DEF Councils, Council, NoCouncil
  <2>3. /\ registry \in [profile : 1..Len(profiles), rotationNonce : Nat \ {0}, lastChange : Nat]
        /\ proposals \in Seq(Proposal) /\ slot \in 1..MaxSlot /\ council \in Versions
    BY <2>1 DEF FirstRegistry, None
  <2> QED
    BY <2>1, <2>2, <2>3 DEF GovTypes, Profile, None
<1>2. RecordsSound
  BY NominalAssumption DEF RecordsSound, Profile
<1>3. \A kind : Done(kind) = {}
  BY DEF Done
<1>4. Chained
  BY <1>3 DEF Chained, FirstRegistry, None
<1>5. Succeeded
  <2>1. CouncilLoads
    BY DEF CouncilLoads, ActiveAt, Current, Council, NoCouncil
  <2>2. Cardinality(Done("CouncilRotation")) = registry.rotationNonce - 1
    <3>1. Cardinality(Done("CouncilRotation")) = 0
      BY <1>3, FS_EmptySet
    <3>2. registry.rotationNonce = 1
      BY DEF FirstRegistry
    <3> QED
      BY <3>1, <3>2
  <2> QED
    BY <1>3, <2>1, <2>2 DEF Succeeded
<1> QED
  BY <1>1, <1>2, <1>4, <1>5 DEF GovInv, CandidatesStored

\* Done and the other facts about proposals do not change when their sequence does not.
LEMMA TickInv ==
    ASSUME GovInv, Tick
    PROVE  GovInv'
<1> USE DEF Tick, GovInv
<1>1. slot \in Nat /\ slot' \in Nat /\ slot < slot'
  BY GovernanceAssumption DEF GovTypes
<1>2. GovTypes'
  BY <1>1, GovernanceAssumption DEF GovTypes
<1>3. RecordsSound'
  <2>1. ASSUME NEW i \in 1..Len(proposals)
        PROVE  Sound(proposals[i], slot')
    <3>1. proposals[i] \in Proposal /\ Sound(proposals[i], slot)
      BY DEF GovTypes, RecordsSound
    <3>2. /\ proposals[i].created \in Nat /\ proposals[i].firstApproval \in Nat
          /\ proposals[i].approvedAt \in Nat
      BY <3>1 DEF Proposal
    <3>3. \A time \in Nat : time <= slot => time <= slot'
      BY <1>1
    <3> QED
      BY <3>1, <3>2, <3>3 DEF Sound
  <2> QED
    BY <2>1 DEF RecordsSound
<1>4. CandidatesStored'
  BY DEF CandidatesStored, CandidateStored
<1>5. Done("TimingPolicyChange")' = Done("TimingPolicyChange")
      /\ Done("CouncilRotation")' = Done("CouncilRotation")
  BY DEF Done
<1>6. Chained'
  BY <1>5 DEF Chained
<1>7. Succeeded'
  <2>1. Current' = Current /\ Current \in Councils
    BY DEF Current, GovTypes
  <2>2. CouncilLoads'
    BY <1>1, <2>1 DEF Succeeded, CouncilLoads, ActiveAt, Councils, NoCouncil
  <2> QED
    BY <1>5, <2>2 DEF Succeeded
<1> QED
  BY <1>2, <1>3, <1>4, <1>6, <1>7

\* A candidate council takes a version no council has.
LEMMA CandidateCouncilInv ==
    ASSUME GovInv, NEW a \in Authorities, NEW v \in Versions, NEW from \in 0..LastActivation,
           NEW term \in CandidateTerms, CreateCandidateCouncil(a, v, from, term)
    PROVE  GovInv'
<1> USE DEF CreateCandidateCouncil, GovInv
<1>1. /\ councils[v] = NoCouncil /\ Council(from, term) \in Councils
      /\ councils' = [councils EXCEPT ![v] = Council(from, term)]
  BY GovernanceAssumption DEF Council, Councils, GovTypes
<1>2. GovTypes'
  BY <1>1 DEF GovTypes
<1>3. RecordsSound'
  BY DEF RecordsSound
<1>4. \A w \in Versions : councils[w] # NoCouncil => councils'[w] = councils[w]
  BY <1>1 DEF GovTypes
<1>5. CandidatesStored'
  BY <1>4 DEF CandidatesStored, CandidateStored
<1>6. Done("TimingPolicyChange")' = Done("TimingPolicyChange")
      /\ Done("CouncilRotation")' = Done("CouncilRotation")
  BY DEF Done
<1>7. Chained'
  BY <1>6 DEF Chained
<1>8. Succeeded'
  <2>1. Current' = Current
    BY <1>4 DEF Current, GovTypes, Succeeded, CouncilLoads, ActiveAt
  <2> QED
    BY <1>6, <2>1 DEF Succeeded, CouncilLoads
<1> QED
  BY <1>2, <1>3, <1>5, <1>7, <1>8

\* A new profile goes behind the existing ones, with the profile in force before it.
LEMMA TimingProfileInv ==
    ASSUME GovInv, NEW a \in Authorities, NEW timing \in ProfileTimings,
           CreateTimingProfile(a, timing)
    PROVE  GovInv'
<1> USE DEF CreateTimingProfile, GovInv
<1> DEFINE new == Profile(registry.profile, timing)
<1>1. new \in ProfileRecord /\ new.predecessor = registry.profile /\ new.timing = timing
  BY TimingAssumption DEF Profile, ProfileRecord, Timings, GovTypes
<1>2. profiles' = Append(profiles, new) /\ ProfileTimingValid(timing)
      /\ Len(profiles) < MaxProfiles
  OBVIOUS
<1> HIDE DEF new
<1>3. /\ profiles' \in Seq(ProfileRecord) /\ Len(profiles') = Len(profiles) + 1
      /\ profiles'[Len(profiles')] = new
      /\ \A v \in 1..Len(profiles) : profiles'[v] = profiles[v]
  BY <1>1, <1>2 DEF GovTypes
<1>4. GovTypes'
  BY <1>1, <1>2, <1>3, GovernanceAssumption DEF GovTypes
<1>5. RecordsSound'
  <2>1. ASSUME NEW v \in 1..Len(profiles')
        PROVE  ProfileTimingValid(profiles'[v].timing)
    <3>1. CASE v \in 1..Len(profiles)
      BY <1>3, <3>1 DEF RecordsSound
    <3>2. CASE v = Len(profiles')
      BY <1>1, <1>2, <1>3, <3>2
    <3> QED
      BY <1>3, <3>1, <3>2 DEF GovTypes
  <2> QED
    BY <2>1 DEF RecordsSound
<1>6. Done("TimingPolicyChange")' = Done("TimingPolicyChange")
      /\ Done("CouncilRotation")' = Done("CouncilRotation")
  BY DEF Done
<1>7. Chained'
  BY <1>3, <1>6 DEF Chained, GovTypes
<1>8. Succeeded'
  BY <1>6 DEF Succeeded, CouncilLoads, Current
<1>9. CandidatesStored'
  BY <1>3 DEF CandidatesStored, CandidateStored, GovTypes
<1> QED
  BY <1>4, <1>5, <1>7, <1>8, <1>9

\* A new proposal goes behind the existing ones and is not completed.
LEMMA NewProposalInv ==
    ASSUME GovInv, NEW p \in Proposal, Sound(p, slot), Succession(p), p.state = "Draft",
           Adds(p), UnchangedExceptProposals,
           CandidateStored(p)
    PROVE  GovInv'
<1> USE DEF UnchangedExceptProposals, GovInv
<1>1. /\ proposals' \in Seq(Proposal) /\ Len(proposals') = Len(proposals) + 1
      /\ proposals'[Len(proposals')] = p
      /\ \A i \in 1..Len(proposals) : proposals'[i] = proposals[i]
      /\ Len(proposals) \in Nat
  BY DEF GovTypes, Adds
<1>2. \A i \in 1..Len(proposals') : i \in 1..Len(proposals) \/ i = Len(proposals')
  BY <1>1
<1>3. GovTypes'
  BY <1>1 DEF GovTypes
<1>4. RecordsSound'
  BY <1>1, <1>2 DEF RecordsSound
<1>5. CandidatesStored'
  BY <1>1, <1>2 DEF CandidatesStored, CandidateStored
<1>6. /\ Done("TimingPolicyChange")' = Done("TimingPolicyChange")
      /\ Done("CouncilRotation")' = Done("CouncilRotation")
  BY <1>1, <1>2 DEF Done
<1>7. \A i \in Done("TimingPolicyChange") \cup Done("CouncilRotation") :
          proposals'[i] = proposals[i]
  BY <1>1 DEF Done
<1>8. Chained'
  BY <1>6, <1>7 DEF Chained
<1>9. Succeeded'
  BY <1>6, <1>7 DEF Succeeded, CouncilLoads, Current
<1> QED
  BY <1>3, <1>4, <1>5, <1>8, <1>9

\* What CreateProposal stores is sound.
LEMMA CreateProposalInv ==
    ASSUME GovInv, NEW kind \in {"TimingPolicyChange", "CouncilRotation"},
           NEW candidate \in Nat, NEW nonce \in Nat,
           CreateProposal(kind, candidate, nonce, NoBridge), UnchangedExceptProposals,
           kind = "TimingPolicyChange" =>
               candidate > registry.profile /\ candidate \in 1..Len(profiles),
           kind = "CouncilRotation" =>
               /\ candidate \in Versions /\ candidate > council
               /\ councils[candidate] # NoCouncil
               /\ SeatedThroughout(councils[candidate],
                                   DerivedTiming(Governing.timing["Major"], slot))
    PROVE  GovInv'
<1> PICK p : p = NewProposal(kind, council, registry.profile, Governing.timing, slot,
                             candidate, nonce, NoBridge)
  OBVIOUS
<1>1. /\ Governing \in ProfileRecord /\ ProfileTimingValid(Governing.timing)
      /\ slot \in Nat \ {0} /\ council \in Versions /\ registry.profile \in 1..MaxProfiles
  BY GovernanceAssumption DEF GovInv, GovTypes, RecordsSound, Governing
<1>2. Governing.timing \in Timings
  BY <1>1 DEF ProfileRecord
<1>3. /\ p \in Proposal /\ Sound(p, slot)
      /\ p.kind = kind /\ p.council = council /\ p.profile = registry.profile
      /\ p.candidate = candidate /\ p.state = "Draft"
      /\ p.notBefore = DerivedTiming(Governing.timing["Major"], slot).notBefore
      /\ p.expiry = DerivedTiming(Governing.timing["Major"], slot).expiry
  BY <1>1, <1>2, NewProposalSound
<1>4. Adds(p)
  BY DEF CreateProposal, Adds
<1>5. Succession(p)
  BY <1>3 DEF Succession
<1>6. CandidateStored(p)
  BY <1>3 DEF CandidateStored, SeatedThroughout
<1> QED
  BY <1>3, <1>4, <1>5, <1>6, NewProposalInv

\* An instruction other than execution keeps the invariant.
LEMMA MovesInv ==
    ASSUME GovInv, NEW i \in 1..Len(proposals), Moves(i)
    PROVE  GovInv'
<1> USE DEF GovInv
<1> PICK q : Advance(proposals[i], q) /\ Store(i, q)
  BY DEF Moves
<1> UnchangedExceptProposals
  BY DEF Moves
<1> USE DEF UnchangedExceptProposals
<1>1. proposals[i] \in Proposal /\ slot \in Nat /\ Sound(proposals[i], slot)
  BY GovernanceAssumption DEF GovTypes, RecordsSound
<1>2. /\ q \in Proposal /\ Identity(proposals[i], q) /\ Sound(q, slot)
      /\ proposals[i].state # "Completed" /\ q.state # "Completed"
  BY <1>1, AdvanceKeeps DEF TerminalStates
<1>3. /\ proposals' \in Seq(Proposal) /\ Len(proposals') = Len(proposals)
      /\ proposals'[i] = q
      /\ \A j \in 1..Len(proposals) : j # i => proposals'[j] = proposals[j]
  BY <1>2 DEF GovTypes, Store
<1>4. \A j \in 1..Len(proposals) : Identity(proposals[j], proposals'[j])
  BY <1>2, <1>3 DEF Identity
<1>5. GovTypes'
  BY <1>3 DEF GovTypes
<1>6. RecordsSound'
  BY <1>2, <1>3, <1>4 DEF RecordsSound, Succession, Identity
<1>7. CandidatesStored'
  <2>1. ASSUME NEW j \in 1..Len(proposals)
        PROVE  CandidateStored(proposals[j])'
    BY <1>4 DEF Identity, CandidatesStored, CandidateStored, SeatedThroughout
  <2> QED
    BY <1>3, <2>1 DEF CandidatesStored
<1>8. /\ Done("TimingPolicyChange")' = Done("TimingPolicyChange")
      /\ Done("CouncilRotation")' = Done("CouncilRotation")
  BY <1>2, <1>3 DEF Done
<1>9. \A j \in Done("TimingPolicyChange") \cup Done("CouncilRotation") :
          proposals'[j] = proposals[j]
  BY <1>2, <1>3 DEF Done
<1>10. Chained'
  BY <1>8, <1>9 DEF Chained
<1>11. Succeeded'
  BY <1>8, <1>9 DEF Succeeded, CouncilLoads, Current
<1> QED
  BY <1>5, <1>6, <1>7, <1>10, <1>11

\* Execution completes one proposal and leaves the others' records alone.
LEMMA ExecuteEffect ==
    ASSUME GovInv, NEW i \in 1..Len(proposals), ExecuteProposal(i)
    PROVE  /\ proposals' \in Seq(Proposal) /\ Len(proposals') = Len(proposals)
           /\ \A j \in 1..Len(proposals) : j # i => proposals'[j] = proposals[j]
           /\ \A j \in 1..Len(proposals) : Identity(proposals[j], proposals'[j])
           /\ Sound(proposals'[i], slot) /\ proposals'[i].state = "Completed"
           /\ proposals[i].state # "Completed"
<1>1. proposals[i] \in Proposal /\ slot \in Nat /\ Sound(proposals[i], slot)
  BY GovernanceAssumption DEF GovInv, GovTypes, RecordsSound
<1> PICK q : q = Completed(proposals[i], slot)
  OBVIOUS
<1>2. /\ q \in Proposal /\ Identity(proposals[i], q) /\ Sound(q, slot)
      /\ q.state = "Completed" /\ proposals[i].state = "Timelocked"
  BY <1>1, CompletedKeeps DEF ExecuteProposal
<1>3. /\ proposals' \in Seq(Proposal) /\ Len(proposals') = Len(proposals)
      /\ proposals'[i] = q
      /\ \A j \in 1..Len(proposals) : j # i => proposals'[j] = proposals[j]
  BY <1>2 DEF GovInv, GovTypes, ExecuteProposal, Store
<1>4. \A j \in 1..Len(proposals) : Identity(proposals[j], proposals'[j])
  BY <1>2, <1>3 DEF Identity
<1> QED
  BY <1>2, <1>3, <1>4

\* Under execution too, records stay sound and candidates seated.
LEMMA ExecuteRecords ==
    ASSUME GovInv, NEW i \in 1..Len(proposals), ExecuteProposal(i),
           UNCHANGED <<slot, councils, profiles>>
    PROVE  RecordsSound' /\ CandidatesStored'
<1> USE DEF GovInv
<1>1. /\ Len(proposals') = Len(proposals)
      /\ \A j \in 1..Len(proposals) : j # i => proposals'[j] = proposals[j]
      /\ \A j \in 1..Len(proposals) : Identity(proposals[j], proposals'[j])
      /\ Sound(proposals'[i], slot)
  BY ExecuteEffect
<1>2. RecordsSound'
  BY <1>1 DEF RecordsSound, Succession, Identity
<1>3. ASSUME NEW j \in 1..Len(proposals)
      PROVE  CandidateStored(proposals[j])'
  BY <1>1 DEF Identity, CandidatesStored, CandidateStored, SeatedThroughout
<1> QED
  BY <1>1, <1>2, <1>3 DEF CandidatesStored

\* A timing change succeeds the profile in force, which no completed change did before.
LEMMA ExecuteTimingInv ==
    ASSUME GovInv, NEW i \in OfKind("TimingPolicyChange"), ExecuteTimingPolicyChange(i)
    PROVE  GovInv'
<1> USE DEF GovInv
<1>1. /\ i \in 1..Len(proposals) /\ proposals[i].kind = "TimingPolicyChange"
      /\ proposals[i] \in Proposal
  BY DEF OfKind, GovTypes
<1>2. /\ ExecuteProposal(i)
      /\ registry' = [registry EXCEPT !.profile = proposals[i].candidate, !.lastChange = i]
      /\ UNCHANGED <<slot, council, councils, profiles>>
      /\ proposals[i].profile = registry.profile
      /\ Succeeds(proposals[i].candidate, registry.profile)
  BY DEF ExecuteTimingPolicyChange, LiveTimingGovernors, TimingContext
<1>3. /\ proposals' \in Seq(Proposal) /\ Len(proposals') = Len(proposals)
      /\ \A j \in 1..Len(proposals) : j # i => proposals'[j] = proposals[j]
      /\ \A j \in 1..Len(proposals) : Identity(proposals[j], proposals'[j])
      /\ proposals'[i].state = "Completed"
  BY <1>1, <1>2, ExecuteEffect
<1>4. RecordsSound' /\ CandidatesStored'
  BY <1>1, <1>2, ExecuteRecords
<1>5. /\ registry'.profile = proposals[i].candidate /\ registry'.lastChange = i
      /\ registry'.rotationNonce = registry.rotationNonce
      /\ registry.profile < registry'.profile
      /\ profiles[registry'.profile].predecessor = registry.profile
  BY <1>1, <1>2 DEF GovTypes, Succeeds, Proposal
<1>6. proposals[i].candidate \in 1..Len(profiles)
  BY <1>1 DEF CandidatesStored, CandidateStored
<1>7. GovTypes'
  <2>1. registry' \in [profile : 1..Len(profiles), rotationNonce : Nat \ {0}, lastChange : Nat]
    <3>1. i \in Nat /\ registry \in [profile : 1..Len(profiles), rotationNonce : Nat \ {0},
                                     lastChange : Nat]
      BY <1>1 DEF GovTypes
    <3> QED
      BY <1>2, <1>6, <3>1
  <2> QED
    BY <1>2, <1>3, <2>1 DEF GovTypes
<1>8. /\ Done("TimingPolicyChange")' = Done("TimingPolicyChange") \cup {i}
      /\ Done("CouncilRotation")' = Done("CouncilRotation")
  BY <1>1, <1>3 DEF Done, Identity
<1>9. Chained'
  <2>1. \A j \in Done("TimingPolicyChange") : proposals'[j] = proposals[j] /\ j # i
    BY <1>1, <1>3, ExecuteEffect, <1>2 DEF Done
  <2>2. proposals'[i].profile = registry.profile /\ proposals'[i].candidate = registry'.profile
    BY <1>1, <1>2, <1>3, <1>5 DEF Identity
  <2>3. \A j \in Done("TimingPolicyChange") : proposals[j].profile < registry.profile
    BY DEF Chained
  <2>4. \A j \in Done("TimingPolicyChange") :
            proposals[j].profile \in Nat /\ proposals[j].profile < registry'.profile
    <3>1. ASSUME NEW j \in Done("TimingPolicyChange")
          PROVE  proposals[j].profile \in Nat
      <4>1. j \in 1..Len(proposals)
        BY DEF Done
      <4>2. proposals[j] \in Proposal
        BY <4>1 DEF GovTypes
      <4> QED
        BY <4>2, GovernanceAssumption DEF Proposal
    <3>2. registry.profile \in Nat /\ registry'.profile \in Nat
      BY <1>5, <1>6 DEF GovTypes
    <3> QED
      BY <1>5, <2>3, <3>1, <3>2
  <2>5. registry'.lastChange # None
    BY <1>1, <1>5 DEF None
  <2>6. \A j \in Done("TimingPolicyChange") : proposals[j].profile # registry.profile
    BY <2>3, <2>4 DEF GovTypes
  <2> QED
    BY <1>2, <1>5, <1>8, <2>1, <2>2, <2>4, <2>5, <2>6 DEF Chained
<1>10. \A j \in Done("CouncilRotation") : proposals'[j] = proposals[j]
  BY <1>1, <1>3 DEF Done
<1>11. Succeeded'
  BY <1>2, <1>5, <1>8, <1>10 DEF Succeeded, CouncilLoads, Current
<1> QED
  BY <1>4, <1>7, <1>9, <1>11

\* A rotation succeeds the council in force, which no completed rotation did before.
LEMMA ExecuteRotationInv ==
    ASSUME GovInv, NEW i \in OfKind("CouncilRotation"), ExecuteCouncilRotation(i)
    PROVE  GovInv'
<1> USE DEF GovInv
<1>1. /\ i \in 1..Len(proposals) /\ proposals[i].kind = "CouncilRotation"
      /\ proposals[i] \in Proposal
  BY DEF OfKind, GovTypes
<1>2. /\ ExecuteProposal(i)
      /\ council' = proposals[i].candidate
      /\ registry' = [registry EXCEPT !.rotationNonce = @ + 1]
      /\ UNCHANGED <<slot, councils, profiles>>
      /\ proposals[i].council = council /\ proposals[i].candidate > council
      /\ CandidateActive(councils[proposals[i].candidate], slot)
  BY DEF ExecuteCouncilRotation, LiveRotationGovernors
<1>3. /\ proposals' \in Seq(Proposal) /\ Len(proposals') = Len(proposals)
      /\ \A j \in 1..Len(proposals) : j # i => proposals'[j] = proposals[j]
      /\ \A j \in 1..Len(proposals) : Identity(proposals[j], proposals'[j])
      /\ proposals'[i].state = "Completed" /\ proposals[i].state # "Completed"
  BY <1>1, <1>2, ExecuteEffect
<1>4. RecordsSound' /\ CandidatesStored'
  BY <1>1, <1>2, ExecuteRecords
<1>5. proposals[i].candidate \in Versions
  BY <1>1 DEF CandidatesStored, CandidateStored
<1>6. /\ registry'.profile = registry.profile /\ registry'.lastChange = registry.lastChange
      /\ registry'.rotationNonce = registry.rotationNonce + 1
      /\ registry' \in [profile : 1..Len(profiles), rotationNonce : Nat \ {0}, lastChange : Nat]
  <2>1. registry \in [profile : 1..Len(profiles), rotationNonce : Nat \ {0}, lastChange : Nat]
    BY DEF GovTypes
  <2> QED
    BY <1>2, <2>1
<1>7. GovTypes'
  BY <1>2, <1>3, <1>5, <1>6 DEF GovTypes
<1>8. /\ Done("TimingPolicyChange")' = Done("TimingPolicyChange")
      /\ Done("CouncilRotation")' = Done("CouncilRotation") \cup {i}
      /\ i \notin Done("CouncilRotation")
  BY <1>1, <1>3 DEF Done, Identity
<1>9. \A j \in Done("TimingPolicyChange") \cup Done("CouncilRotation") :
          proposals'[j] = proposals[j]
  BY <1>3 DEF Done
<1>10. Chained'
  BY <1>2, <1>6, <1>8, <1>9 DEF Chained
<1>11. Succeeded'
  <2>1. CouncilLoads'
    BY <1>2 DEF CouncilLoads, Current, CandidateActive, ActiveAt
  <2>2. Cardinality(Done("CouncilRotation"))' = registry'.rotationNonce - 1
    <3>1. IsFiniteSet(Done("CouncilRotation"))
      <4>1. Len(proposals) \in Nat /\ Done("CouncilRotation") \subseteq 1..Len(proposals)
        BY DEF Done, GovTypes
      <4>2. IsFiniteSet(1..Len(proposals))
        BY <4>1, FS_Interval
      <4> QED
        BY <4>1, <4>2, FS_Subset
    <3>2. Cardinality(Done("CouncilRotation") \cup {i}) = Cardinality(Done("CouncilRotation")) + 1
      BY <1>8, <3>1, FS_AddElement
    <3>3. /\ Cardinality(Done("CouncilRotation")) = registry.rotationNonce - 1
          /\ registry.rotationNonce \in Nat
      BY DEF Succeeded, GovTypes
    <3>4. Cardinality(Done("CouncilRotation")') = Cardinality(Done("CouncilRotation")) + 1
      BY <1>8, <3>2
    <3>5. Cardinality(Done("CouncilRotation")') = registry'.rotationNonce - 1
      BY <1>6, <3>3, <3>4
    <3> QED
      BY <3>5
  <2>3. ASSUME NEW j \in Done("CouncilRotation")
        PROVE  /\ proposals[j].council < proposals[j].candidate
               /\ proposals[j].candidate <= council'
               /\ proposals[j].council # council
    <3>1. proposals[j].council < proposals[j].candidate /\ proposals[j].candidate <= council
      BY DEF Succeeded
    <3>2. proposals[j] \in Proposal
      BY DEF Done, GovTypes
    <3>3. /\ proposals[j].council \in Nat /\ proposals[j].candidate \in Nat
          /\ council \in Nat /\ council' \in Nat
      BY <1>2, <1>5, <3>2, GovernanceAssumption DEF GovTypes, Proposal
    <3> QED
      BY <1>2, <3>1, <3>3
  <2>4. /\ proposals'[i].council = council /\ proposals'[i].candidate = council'
        /\ council < council' /\ council' <= council'
    <3>1. council \in Nat /\ council' \in Nat
      BY <1>2, <1>5, GovernanceAssumption DEF GovTypes
    <3> QED
      BY <1>1, <1>2, <1>3, <3>1 DEF Identity
  <2>5. \A j \in Done("CouncilRotation")' :
            proposals'[j].council < proposals'[j].candidate /\ proposals'[j].candidate <= council'
    BY <1>8, <1>9, <2>3, <2>4
  <2>6. \A j, k \in Done("CouncilRotation")' :
            proposals'[j].council = proposals'[k].council => j = k
    <3>1. \A j, k \in Done("CouncilRotation") : proposals[j].council = proposals[k].council => j = k
      BY DEF Succeeded
    <3> QED
      BY <1>8, <1>9, <2>3, <2>4, <3>1
  <2> QED
    BY <2>1, <2>2, <2>5, <2>6 DEF Succeeded
<1> QED
  BY <1>4, <1>7, <1>10, <1>11

\* GovInv is inductive.
LEMMA StepInv ==
    ASSUME GovInv, [GovNext]_govVars
    PROVE  GovInv'
<1>1. CASE GovNext
  <2>1. ASSUME NEW a \in Authorities, NEW c \in 1..Len(profiles),
               CreateTimingPolicyChange(a, c)
        PROVE  GovInv'
    <3>1. /\ CreateProposal("TimingPolicyChange", c, None, NoBridge)
          /\ UnchangedExceptProposals /\ c > registry.profile /\ c \in Nat /\ None \in Nat
      BY <2>1 DEF CreateTimingPolicyChange, Succeeds, None
    <3> QED
      BY <3>1, CreateProposalInv
  <2>2. ASSUME NEW a \in Authorities, NEW v \in Versions, CreateCouncilRotation(a, v)
        PROVE  GovInv'
    <3>1. /\ CreateProposal("CouncilRotation", v, registry.rotationNonce, NoBridge)
          /\ UnchangedExceptProposals /\ v > council /\ councils[v] # NoCouncil
          /\ SeatedThroughout(councils[v], DerivedTiming(Governing.timing["Major"], slot))
      BY <2>2 DEF CreateCouncilRotation
    <3>2. v \in Nat /\ registry.rotationNonce \in Nat
      BY GovernanceAssumption DEF GovInv, GovTypes
    <3> QED
      BY <3>1, <3>2, CreateProposalInv
  <2>3. GovTypes
    BY DEF GovInv
  <2> QED
    BY <1>1, <2>1, <2>2, <2>3, StepCases, TickInv, CandidateCouncilInv, TimingProfileInv,
       MovesInv, ExecuteTimingInv, ExecuteRotationInv
<1>2. CASE UNCHANGED govVars
  <2>1. GovTypes' /\ RecordsSound'
    BY <1>2 DEF govVars, GovInv, GovTypes, RecordsSound
  <2>2. CandidatesStored'
    BY <1>2 DEF govVars, GovInv, CandidatesStored, CandidateStored
  <2>3. /\ Done("TimingPolicyChange")' = Done("TimingPolicyChange")
        /\ Done("CouncilRotation")' = Done("CouncilRotation")
    BY <1>2 DEF govVars, Done
  <2>4. Chained' /\ Succeeded'
    BY <1>2, <2>3 DEF govVars, GovInv, Chained, Succeeded, CouncilLoads, Current
  <2> QED
    BY <2>1, <2>2, <2>4 DEF GovInv
<1> QED
  BY <1>1, <1>2

LEMMA Invariance == GovSpec => []GovInv
<1>1. GovInit => GovInv
  BY InitInv
<1>2. GovInv /\ [GovNext]_govVars => GovInv'
  BY StepInv
<1> QED
  BY <1>1, <1>2, PTL DEF GovSpec

-----------------------------------------------------------------------------
(* Theorems *)

\* Every governance account keeps its layout: the registry names a stored profile,
\* profiles precede their successors, and the council in force exists.
THEOREM GovTypeCorrect == GovSpec => []GovTypeOK
<1>1. ASSUME GovInv PROVE GovTypeOK
  <2>1. GovTypes /\ CouncilLoads
    BY <1>1 DEF GovInv, Succeeded
  <2>2. DOMAIN profiles = 1..Len(profiles) /\ DOMAIN proposals = 1..Len(proposals)
    BY <2>1 DEF GovTypes
  <2>3. \A i \in 1..Len(proposals) : proposals[i] \in Proposal
    BY <2>1 DEF GovTypes
  <2> QED
    BY <2>1, <2>2, <2>3 DEF GovTypeOK, GovTypes, CouncilLoads, ActiveAt, Current
<1> QED
  BY <1>1, Invariance, PTL

\* No sequence of votes, queueing, execution and expiry stores a record that
\* validate_static refuses, so no proposal is wedged.
THEOREM RecordsTheorem == GovSpec => []RecordsValid
<1>1. ASSUME GovInv PROVE RecordsValid
  <2>1. ASSUME NEW i \in 1..Len(proposals)
        PROVE  /\ BoundTimingValid(proposals[i]) /\ LifecycleValid(proposals[i])
               /\ proposals[i].profile # None /\ proposals[i].council # None
               /\ proposals[i].kind = "TimingPolicyChange" =>
                      proposals[i].candidate > proposals[i].profile
               /\ proposals[i].kind = "CouncilRotation" =>
                      proposals[i].candidate > proposals[i].council
    <3>1. proposals[i] \in Proposal /\ Sound(proposals[i], slot) /\ Succession(proposals[i])
      BY <1>1 DEF GovInv, GovTypes, RecordsSound
    <3>2. proposals[i].profile # 0 /\ proposals[i].council # 0
      <4>1. proposals[i].profile \in 1..MaxProfiles /\ proposals[i].council \in Versions
        BY <3>1 DEF Proposal
      <4>2. 0 \notin Versions /\ MaxProfiles \in Nat
        BY GovernanceAssumption
      <4> QED
        BY <4>1, <4>2
    <3> QED
      BY <3>1, <3>2 DEF Sound, Succession, None
  <2>2. \A kind : OfKind(kind) = {i \in 1..Len(proposals) : proposals[i].kind = kind}
    BY <1>1 DEF GovInv, GovTypes, OfKind
  <2> QED
    BY <2>1, <2>2 DEF RecordsValid, TimingPolicyChangeValid, CouncilRotationValid
<1> QED
  BY <1>1, Invariance, PTL

\* Competing timing changes cannot both succeed one profile.
THEOREM ProfileTheorem == GovSpec => []ProfileChain
<1>1. ASSUME GovInv PROVE ProfileChain
  <2>1. {i \in OfKind("TimingPolicyChange") : proposals[i].state = "Completed"}
            = Done("TimingPolicyChange")
    BY <1>1 DEF GovInv, GovTypes, OfKind, Done
  <2> QED
    BY <1>1, <2>1 DEF GovInv, Chained, ProfileChain, Governing
<1> QED
  BY <1>1, Invariance, PTL

\* Competing rotations cannot both succeed one council, and the one that does
\* leaves an active council.
THEOREM SuccessionTheorem == GovSpec => []CouncilSuccession
<1>1. ASSUME GovInv PROVE CouncilSuccession
  <2>1. {i \in OfKind("CouncilRotation") : proposals[i].state = "Completed"}
            = Done("CouncilRotation")
    BY <1>1 DEF GovInv, GovTypes, OfKind, Done
  <2>2. \A i \in Done("CouncilRotation") :
            proposals[i].candidate \in Nat /\ proposals[i].council \in Nat
    <3>1. \A i \in 1..Len(proposals) : proposals[i] \in Proposal
      BY <1>1 DEF GovInv, GovTypes
    <3> QED
      BY <3>1, GovernanceAssumption DEF Done, Proposal
  <2>3. \A i \in Done("CouncilRotation") :
            /\ proposals[i].candidate > proposals[i].council
            /\ proposals[i].candidate <= council
    BY <1>1, <2>2 DEF GovInv, Succeeded
  <2> QED
    BY <1>1, <2>1, <2>3 DEF GovInv, Succeeded, CouncilSuccession
<1> QED
  BY <1>1, Invariance, PTL

\* Terms that create_council_rotation checked at the two ends of the execution
\* window cover every slot between, whatever happens meanwhile.
THEOREM RotationTheorem == GovSpec => []QueuedRotationRuns
<1>1. ASSUME GovInv PROVE QueuedRotationRuns
  <2> SUFFICES ASSUME NEW i \in OfKind("CouncilRotation"),
                      Executable(proposals[i], slot),
                      ActiveAt(councils[proposals[i].candidate], slot)
               PROVE  CandidateActive(councils[proposals[i].candidate], slot)
    BY DEF QueuedRotationRuns
  <2> PICK p, c : p = proposals[i] /\ c = councils[p.candidate]
    OBVIOUS
  <2>1. /\ p \in Proposal /\ p.kind = "CouncilRotation" /\ CandidateStored(p)
        /\ i \in 1..Len(proposals)
    BY <1>1 DEF OfKind, GovInv, GovTypes, CandidatesStored
  <2>2. c \in Councils /\ SeatedThroughout(c, p) /\ c # NoCouncil
    BY <1>1, <2>1 DEF GovInv, GovTypes, CandidateStored
  <2>3. PICK S : c.from \in Nat /\ c.term \in [S -> [start : Nat, end : Nat]]
    BY <2>2, GovernanceAssumption DEF Councils
  <2>4. /\ slot \in Nat /\ p.notBefore \in Nat /\ p.expiry \in Nat
        /\ p.notBefore <= slot /\ slot < p.expiry /\ c.from <= slot
    <3>1. slot \in Nat
      BY <1>1, GovernanceAssumption DEF GovInv, GovTypes
    <3>2. p.notBefore \in Nat /\ p.expiry \in Nat
      BY <2>1 DEF Proposal
    <3> QED
      BY <3>1, <3>2 DEF Executable, ActiveAt
  <2>5. ASSUME NEW seat \in DOMAIN c.term
        PROVE  TermCovers(c, seat, slot)
    <3>1. /\ c.term[seat].start \in Nat /\ c.term[seat].end \in Nat
      BY <2>3
    <3>2. /\ c.term[seat].start <= Larger(c.from, p.notBefore)
          /\ p.expiry - 1 < c.term[seat].end
      BY <2>2 DEF SeatedThroughout, CandidateActive, TermCovers
    <3>3. Larger(c.from, p.notBefore) \in Nat /\ Larger(c.from, p.notBefore) <= slot
      BY <2>3, <2>4 DEF Larger
    <3> QED
      BY <2>4, <3>1, <3>2, <3>3 DEF TermCovers
  <2> QED
    BY <2>2, <2>5 DEF CandidateActive
<1> QED
  BY <1>1, Invariance, PTL

\* What a council proposed and voted dies with its term of office: only expiry still
\* touches it.
THEOREM PowerlessTheorem == GovSpec => OldCouncilPowerless
<1> DEFINE Powerless ==
        \A i \in DOMAIN proposals :
            proposals[i].council # council /\ proposals'[i] # proposals[i]
                => proposals'[i] = Expired(proposals[i], slot)
<1>1. ASSUME GovInv, [GovNext]_govVars PROVE Powerless
  <2> SUFFICES ASSUME NEW i \in 1..Len(proposals), proposals[i].council # council,
                      proposals'[i] # proposals[i]
               PROVE  proposals'[i] = Expired(proposals[i], slot)
    BY <1>1 DEF GovInv, GovTypes
  <2>1. GovNext /\ GovTypes
    BY <1>1 DEF govVars, GovInv
  <2>2. ASSUME NEW j \in 1..Len(proposals), Moves(j)
        PROVE  proposals'[i] = Expired(proposals[i], slot)
    BY <2>1, <2>2 DEF Moves, Store, GovTypes
  <2>3. ASSUME NEW p, proposals' = Append(proposals, p) PROVE FALSE
    BY <2>1, <2>3 DEF GovTypes
  <2>4. ASSUME NEW j \in 1..Len(proposals), ExecuteProposal(j), proposals[j].council = council
        PROVE  FALSE
    BY <2>1, <2>4 DEF ExecuteProposal, Store, GovTypes
  <2>5. \A kind : OfKind(kind) \subseteq 1..Len(proposals)
    BY <2>1 DEF GovTypes, OfKind
  <2>6. ASSUME NEW a, NEW c, CreateTimingPolicyChange(a, c) PROVE FALSE
    BY <2>3, <2>6 DEF CreateTimingPolicyChange, CreateProposal
  <2>7. ASSUME NEW a, NEW v, CreateCouncilRotation(a, v) PROVE FALSE
    BY <2>3, <2>7 DEF CreateCouncilRotation, CreateProposal
  <2>8. ASSUME NEW j \in OfKind("TimingPolicyChange"), ExecuteTimingPolicyChange(j) PROVE FALSE
    BY <2>4, <2>5, <2>8 DEF ExecuteTimingPolicyChange, LiveTimingGovernors
  <2>9. ASSUME NEW j \in OfKind("CouncilRotation"), ExecuteCouncilRotation(j) PROVE FALSE
    BY <2>4, <2>5, <2>9 DEF ExecuteCouncilRotation, LiveRotationGovernors
  <2>10. ~Tick /\ \A a, v, from, term : ~CreateCandidateCouncil(a, v, from, term)
    BY DEF Tick, CreateCandidateCouncil
  <2>11. \A a, timing : ~CreateTimingProfile(a, timing)
    BY DEF CreateTimingProfile
  <2> QED
    BY <2>1, <2>2, <2>6, <2>7, <2>8, <2>9, <2>10, <2>11, StepCases
<1> QED
  BY <1>1, Invariance, PTL DEF GovSpec, OldCouncilPowerless
=============================================================================
