------------------------------ MODULE ProposalV3 ------------------------------
(***************************************************************************)
(* The records of governance_controller_v3/src/state.rs and the pure       *)
(* operations on them: the council's timing policy, the closed set of      *)
(* actions, and the proposal with its validation, its currency test, its   *)
(* two kinds of signature and its execution test.                          *)
(*                                                                         *)
(* A public key, an address and a 32-byte commitment are opaque values.  A *)
(* proposal address is determined by its id and the digest by the fields   *)
(* that never change, so neither is a field.  approval_count and the other *)
(* counts are the cardinalities of the bitmaps they accompany.  The two    *)
(* extension fields are zero in every proposal this program creates.       *)
(***************************************************************************)
EXTENDS Integers, FiniteSets, Sequences

CONSTANTS
    Seats,                    \* the seat indices (five in the code)
    THRESHOLD,                \* signatures that make a quorum (three)
    WEEK_SLOTS,               \* least review window
    MIN_DELAY_SLOTS,          \* least execution delay
    EXECUTION_MARGIN_SLOTS,   \* least room between the last approval and expiry
    DEFAULT_EXPIRY_SLOTS,     \* expiry window of Timing::default
    U64_MAX,                  \* the largest u64
    MAX_CHUNKS,               \* chunks of the largest artifact
    Keys,                     \* public keys that may hold a seat
    DefaultKey,               \* Pubkey::default()
    Spread                    \* DEVNET_SPREAD, the one target of action 5

ASSUME SeatsAssumption ==
    /\ IsFiniteSet(Seats)
    /\ THRESHOLD \in Nat \ {0}
    /\ THRESHOLD <= Cardinality(Seats)

U64 == 0 .. U64_MAX

ASSUME TimingAssumption ==
    /\ U64_MAX \in Nat \ {0}
    /\ WEEK_SLOTS \in U64 \ {0}
    /\ MIN_DELAY_SLOTS \in U64
    /\ EXECUTION_MARGIN_SLOTS \in U64
    /\ DEFAULT_EXPIRY_SLOTS \in U64
    /\ MAX_CHUNKS \in Nat

-------------------------------------------------------------------------------
(* Timing *)

Timing == [review_slots : U64, delay_slots : U64, expiry_slots : U64]

DefaultTiming ==
    [ review_slots |-> WEEK_SLOTS,
      delay_slots  |-> MIN_DELAY_SLOTS,
      expiry_slots |-> DEFAULT_EXPIRY_SLOTS ]

\* Mutant: the addition wraps.
AddFitsMutant(a, b) == TRUE

\* checked_add succeeds.
AddFits(a, b) == a + b <= U64_MAX

Later(a, b) == IF a >= b THEN a ELSE b

TimingValid(t) ==
    LET last == Later(t.review_slots, t.delay_slots) IN
    /\ t.review_slots >= WEEK_SLOTS
    /\ t.delay_slots >= MIN_DELAY_SLOTS
    /\ AddFits(last, EXECUTION_MARGIN_SLOTS)
    /\ t.expiry_slots > last + EXECUTION_MARGIN_SLOTS

\* Timing::boundaries returns Ok.
BoundariesFit(t, created) ==
    /\ TimingValid(t)
    /\ created > 0
    /\ AddFits(created, t.review_slots)
    /\ AddFits(created, t.delay_slots)
    /\ AddFits(created, t.expiry_slots)

\* The boundaries it returns: last approval slot, first and past-last execution slot.
Boundaries(t, created) ==
    [ review_end |-> created + t.review_slots,
      not_before |-> created + t.delay_slots,
      expires    |-> created + t.expiry_slots ]

-------------------------------------------------------------------------------
(* The council *)

SeatsValid(seats) ==
    /\ \A i \in Seats : seats[i] # DefaultKey
    /\ \A i, j \in Seats : i # j => seats[i] # seats[j]

\* The keys that sit on a council.
Members(seats) == {seats[i] : i \in Seats}

-------------------------------------------------------------------------------
(* Actions *)

UpgradeKinds == {"UPGRADE_CONTROLLER", "UPGRADE_TARGET"}

TargetKinds == {"UPGRADE_TARGET", "SET_TARGET_GATE",
                "INITIALIZE_SPREAD_LIGHT_CONFIG", "PUBLISH_VERIFICATION",
                "RETIRE_TARGET"}

PolicyKinds == {"SET_TIMING", "ROTATE_COUNCIL"}

IsUpgrade(a) == a.kind \in UpgradeKinds

\* Action::explicit_target returns Ok(t).
HasExplicitTarget(a, t) == a.kind \in TargetKinds /\ a.target = t

\* An artifact is the sequence of its chunks; its length and its Merkle root
\* determine it (module ArtifactMerkle checks that claim).
ActionValid(a) ==
    CASE a.kind = "UPGRADE_CONTROLLER" ->
            Len(a.artifact) > 0 /\ Len(a.artifact) <= MAX_CHUNKS
      [] a.kind = "UPGRADE_TARGET" ->
            Len(a.artifact) > 0 /\ Len(a.artifact) <= MAX_CHUNKS /\ a.gate_epoch > 0
      [] a.kind = "SET_TIMING" -> TimingValid(a.timing)
      [] a.kind = "ROTATE_COUNCIL" -> SeatsValid(a.seats)
      [] a.kind = "SET_TARGET_GATE" -> a.gate_epoch > 0
      [] a.kind = "INITIALIZE_SPREAD_LIGHT_CONFIG" ->
            a.target = Spread /\ a.gate_epoch > 0
      [] a.kind = "PUBLISH_VERIFICATION" -> a.commit # 0
      [] a.kind = "RETIRE_TARGET" -> a.gate_epoch > 0 /\ a.deployed_slot > 0

-------------------------------------------------------------------------------
(* Proposals *)

States == {"PENDING", "EXECUTED", "CANCELLED", "EXPIRED"}

\* The record the Create instruction writes.
NewProposal(cfg, action, created) ==
    LET b == Boundaries(cfg.timing, created) IN
    [ council_epoch  |-> cfg.council_epoch,
      timing_version |-> cfg.timing_version,
      timing         |-> cfg.timing,
      created        |-> created,
      review_end     |-> b.review_end,
      not_before     |-> b.not_before,
      expires        |-> b.expires,
      action         |-> action,
      approvals      |-> {},
      cancellations  |-> {},
      state          |-> "PENDING",
      verified       |-> {},
      executed_slot  |-> 0 ]

\* Proposal::validate, run on every load and every save.
ProposalValid(p) ==
    /\ p.council_epoch > 0
    /\ p.timing_version > 0
    /\ BoundariesFit(p.timing, p.created)
    /\ [review_end |-> p.review_end, not_before |-> p.not_before, expires |-> p.expires]
          = Boundaries(p.timing, p.created)
    /\ ActionValid(p.action)
    /\ ~ IsUpgrade(p.action) => p.verified = {}
    /\ (p.state = "EXECUTED") <=> (p.executed_slot # 0)
    /\ p.state = "EXECUTED" =>
          /\ Cardinality(p.approvals) >= THRESHOLD
          /\ p.executed_slot >= p.not_before
          /\ p.executed_slot < p.expires
    /\ (p.state = "CANCELLED") <=> (Cardinality(p.cancellations) >= THRESHOLD)

\* Mutant: a proposal of an earlier council stays current.
CurrentMutant(p, cfg, now) == p.state = "PENDING" /\ now < p.expires

Current(p, cfg, now) ==
    /\ p.state = "PENDING"
    /\ now < p.expires
    /\ p.council_epoch = cfg.council_epoch

Executable(p, cfg, now) ==
    /\ Current(p, cfg, now)
    /\ Cardinality(p.approvals) >= THRESHOLD
    /\ now >= p.not_before

\* Proposal::approve with cancel = false: the guard and the effect.
MayApprove(p, index, now) ==
    /\ p.state = "PENDING"
    /\ now >= p.created
    /\ now < p.expires
    /\ now <= p.review_end
    /\ index \notin p.approvals

Approved(p, index) == [p EXCEPT !.approvals = @ \cup {index}]

\* Proposal::approve with cancel = true.
MayCancel(p, index, now) ==
    /\ p.state = "PENDING"
    /\ now >= p.created
    /\ now < p.expires
    /\ index \notin p.cancellations

Cancelled(p, index) ==
    LET signed == p.cancellations \cup {index} IN
    [p EXCEPT !.cancellations = signed,
              !.state = IF Cardinality(signed) >= THRESHOLD THEN "CANCELLED" ELSE @]

\* The last two assignments of every execution.
Executed(p, now) == [p EXCEPT !.state = "EXECUTED", !.executed_slot = now]

MayExpire(p, now) == p.state = "PENDING" /\ now >= p.expires

Expired(p) == [p EXCEPT !.state = "EXPIRED"]

\* Proposal::mark_chunk_verified; chunks are numbered from one.
MayMark(p, index) == index <= MAX_CHUNKS /\ index \notin p.verified

Marked(p, index) == [p EXCEPT !.verified = @ \cup {index}]

\* Mutant: any verified chunk will do.
CompleteMutant(p) == p.verified # {}

\* Every chunk of the committed artifact and no other is marked.
Complete(p) == p.verified = 1 .. Len(p.action.artifact)
===============================================================================
