--------------------------- MODULE MCGovernanceV2 ---------------------------
(***************************************************************************)
(* Two seats, both of which decide. A behaviour holds two competing timing *)
(* changes, two competing rotations, one of each, or one and the votes to  *)
(* cancel it.                                                              *)
(***************************************************************************)
EXTENDS GovernanceV2

Timing(review, delay, expiry) ==
    [c \in TimingClasses |-> [review |-> review, delay |-> delay, expiry |-> expiry]]

MCNominal == Timing(1, 1, 3)
MCTimings == {Timing(1, 1, 3)}

Seats(S, end) == [s \in S |-> [start |-> 1, end |-> end]]

\* A seat of the first council goes out of term in the run's last slot.
MCFirstTerms ==
    [s \in {"a", "b"} |-> [start |-> 1, end |-> IF s = "a" THEN MaxSlot ELSE MaxSlot + 1]]

\* One candidate's terms end before a proposal's window does.
MCCandidateTerms == {Seats({"b", "d"}, 4), Seats({"b", "d"}, MaxSlot + 1)}

Quota(changes, rotations, votes) ==
    [k \in Kinds \cup {"Cancellation"} |->
        CASE k = "TimingPolicyChange" -> changes
          [] k = "CouncilRotation" -> rotations
          [] k = "Cancellation" -> votes
          [] OTHER -> 0]
MCQuotas == {Quota(2, 0, 0), Quota(0, 2, 0), Quota(1, 1, 0), Quota(1, 0, 2), Quota(0, 1, 2)}
=============================================================================
