--------------------------- MODULE CouncilDecisions ---------------------------
(***************************************************************************)
(* What the council controller promises about decisions, with no slots, no *)
(* bitmaps and no epochs: a decision is carried out only with a quorum of  *)
(* the members sitting at that moment, a replaced council leaves no open   *)
(* decision behind, and a settled decision never moves again.              *)
(***************************************************************************)
EXTENDS Naturals, FiniteSets

CONSTANTS Persons, DecisionIds, Quorum

VARIABLES council, decision

cdVars == <<council, decision>>

Mark(id, status) == [decision EXCEPT ![id] = [status |-> status, signers |-> {}]]

CDInit ==
    /\ council = {}
    /\ decision = [id \in DecisionIds |-> [status |-> "none", signers |-> {}]]

Found ==
    /\ council = {}
    /\ council' \subseteq Persons
    /\ UNCHANGED decision

Propose(id) ==
    /\ council # {}
    /\ decision[id].status = "none"
    /\ decision' = Mark(id, "open")
    /\ UNCHANGED council

Sign(id, person) ==
    /\ decision[id].status = "open"
    /\ person \in council
    /\ decision' = [decision EXCEPT ![id].signers = @ \cup {person}]
    /\ UNCHANGED council

HasQuorum(id) ==
    /\ decision[id].status = "open"
    /\ decision[id].signers \subseteq council
    /\ Cardinality(decision[id].signers) >= Quorum

Decide(id) ==
    /\ HasQuorum(id)
    /\ decision' = Mark(id, "done")
    /\ UNCHANGED council

\* Carrying out a rotation voids, in the same step, whatever else was open.
Replace(id) ==
    /\ HasQuorum(id)
    /\ council' \subseteq Persons
    /\ decision' = [d \in DecisionIds |->
                      IF d = id THEN [status |-> "done", signers |-> {}]
                      ELSE IF decision[d].status = "open"
                           THEN [status |-> "void", signers |-> {}]
                           ELSE decision[d]]

Drop(id) ==
    /\ decision[id].status = "open"
    /\ decision' = Mark(id, "void")
    /\ UNCHANGED council

Forget(ids) ==
    /\ \A id \in ids : decision[id].status # "none"
    /\ decision' = [d \in DecisionIds |->
                      IF d \in ids THEN [status |-> "gone", signers |-> {}] ELSE decision[d]]
    /\ UNCHANGED council

CDNext ==
    \/ Found
    \/ \E id \in DecisionIds :
          \/ Propose(id)
          \/ \E person \in Persons : Sign(id, person)
          \/ Decide(id)
          \/ Replace(id)
          \/ Drop(id)
    \/ \E ids \in SUBSET DecisionIds : Forget(ids)

CDSpec == CDInit /\ [][CDNext]_cdVars
===============================================================================
