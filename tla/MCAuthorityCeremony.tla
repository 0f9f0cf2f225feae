------------------------- MODULE MCAuthorityCeremony -------------------------
(***************************************************************************)
(* Two seats, both of which decide, one handoff, one activation and the    *)
(* votes to cancel one of them. The observations of a purpose are two, as  *)
(* the controller's before and after its authority is given up.            *)
(***************************************************************************)
EXTENDS AuthorityCeremony, TLC

CONSTANTS seatA, seatB, ctlOne, ctlTwo, tgtOne, tgtTwo

MCNominal ==
    [c \in TimingClasses |-> [review |-> 1, delay |-> 1, expiry |-> 3]]
NoTimings == {}
MCFirstTerms == [s \in {seatA, seatB} |-> [start |-> 1, end |-> MaxSlot + 1]]
MCCandidateTerms == {MCFirstTerms}

Bootstrap == [k \in Kinds \cup {"Cancellation"} |->
    CASE k \in {"TargetAuthorityHandoff", "BootstrapActivation"} -> 1
      [] k = "Cancellation" -> 2
      [] OTHER -> 0]
OneQuota == {Bootstrap}

Observing == [purpose \in Purposes |-> 2]

\* Neither the seats, nor the artifacts of a program differ but in their names.
Alike == Permutations({seatA, seatB}) \cup Permutations({ctlOne, ctlTwo}) \cup Permutations({tgtOne, tgtTwo})
=============================================================================
