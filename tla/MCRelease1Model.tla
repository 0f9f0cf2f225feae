--------------------------- MODULE MCRelease1Model ---------------------------
(* Instances of Release1Model for TLC. *)
EXTENDS Release1Model, TLC

CONSTANTS i1, h1, controller, upgrader

\* An ordinary upgrade waits longer than its rollback.
UnevenDelays ==
    [ review_slots |-> 1, rollback_slots |-> 1, routine_slots |-> 2, major_slots |-> 2,
      terminal_slots |-> 2, proposal_expiry_slots |-> 8 ]

Council(v, from, start, end) ==
    [ version |-> v, activation_slot |-> from, hash |-> v,
      terms |-> [i \in Seats |-> [start_slot |-> start, end_slot |-> end]] ]
\* Seat 2 leaves office in the middle of the first review window, and again right after
\* the next council is in force.
OriginalCouncil ==
    [Council(1, 1, 1, MaxSlot + 1) EXCEPT !.terms[2].end_slot = 3]
ShortCouncils == {[Council(2, 4, 1, 6) EXCEPT !.terms[2].end_slot = 5]}

\* A primary that must extend the program, and the rollback it names.
ExtendedPair ==
    { [class |-> "RoutineUpgrade", extension_required |-> TRUE,
       primary_proposal |-> NULL, rollback_proposal |-> 2],
      [class |-> "EmergencyRollback", extension_required |-> FALSE,
       primary_proposal |-> 1, rollback_proposal |-> NULL] }

\* The hand-over of the program, and what may go wrong with its accounts later.
Sights == {[kind |-> "programdata", image |-> i1, authority |-> controller],
           [kind |-> "authority", image |-> i1, authority |-> upgrader],
           [kind |-> "malformed", image |-> NULL, authority |-> NULL]}

\* A pair of proposals to its end; its cancellation; a freeze and its resolution, while
\* the accounts change; the conversion of a freeze into an upgrade; a rotation; a pair
\* of proposals while the council is replaced.
Side(kinds, last) == [kinds |-> kinds, last |-> last]
SixMixes ==
    {Side({"proposals"}, 9), Side({"proposals", "cancellations"}, 6),
     Side({"freezes", "drift"}, 9), Side({"freezes", "proposals"}, 3),
     Side({"councils", "cancellations"}, 10), Side({"councils", "proposals"}, 7)}
=============================================================================
