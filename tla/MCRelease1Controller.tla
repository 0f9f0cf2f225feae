----------------------- MODULE MCRelease1Controller -----------------------
(* Instances of the live Release 1 controller for TLC. *)
EXTENDS Release1Controller, TLC

(* Councils: each is replaced by the next, some terms end within a run. *)
Member(from, until) == [from |-> from, until |-> 0, term |-> until]
Replaced ==
    <<Member(0, [s \in {"s1"} |-> 99]), Member(0, [s \in {"s2"} |-> 99])>>
Reelected ==
    <<Member(0, [s \in {"s1", "s2"} |-> 99]), Member(3, "s2" :> 99 @@ "s3" :> 8)>>

TightDelays == [review |-> 1, rollback |-> 1, routine |-> 1, major |-> 1, expiry |-> 7]

(* Payloads: the program, its successor, a larger one, and others. *)
Old == <<"g">>
New == <<"n">>
Other == <<"o">>
Bad == <<"x">>
NewTwo == <<"n", "m">>
OldTwo == <<"n", "g">>
OldNewOther == {Old, New, Other, NewTwo}
AnyTwo == {Old, NewTwo, OldTwo}
BadOnly == {Bad}
Nothing == {}

(* Manifests: a primary that is proposal 1 and a rollback that is proposal 2. *)
Primary(artifact, capacity, back) ==
    [class |-> "RoutineUpgrade", buffer |-> 11, artifact |-> artifact,
     minCapacity |-> capacity, primary |-> None, rollback |-> 2,
     rollbackBuffer |-> 12, rollbackArtifact |-> back]
Rollback(back) ==
    [class |-> "EmergencyRollback", buffer |-> 12, artifact |-> back,
     minCapacity |-> 1, primary |-> 1, rollback |-> None,
     rollbackBuffer |-> None, rollbackArtifact |-> NoDigest]
Pair == {Primary(NewTwo, 2, Old), Rollback(Old)}

(* A record as the handlers leave it when the pair has been queued: the primary
   created in slot 1 and approved in slot 2, its rollback created in slot 3 and
   approved in slot 4. *)
Queued(m, council, created) ==
    [class |-> m.class, state |-> "Timelocked", nonce |-> 1, council |-> council,
     gateStatus |-> "Active", gateEpoch |-> 1, generation |-> 1,
     created |-> created, reviewEnd |-> ReviewEnd(Timing, created),
     notBefore |-> NotBefore(Timing, m.class, created),
     expiry |-> Expiry(Timing, created),
     buffer |-> m.buffer, artifact |-> m.artifact, minCapacity |-> m.minCapacity,
     primary |-> m.primary, rollback |-> m.rollback,
     rollbackBuffer |-> m.rollbackBuffer, rollbackArtifact |-> m.rollbackArtifact,
     approvals |-> DOMAIN Councils[council].term, approvedAt |-> created + 1,
     cancelCouncil |-> None, cancelApprovals |-> {}, cancelReason |-> "none",
     unfreezeCouncil |-> None, unfreezeApprovals |-> {},
     freezeEpoch |-> 0, frozenAt |-> 0, extendedAt |-> 0, upgradedAt |-> 0,
     terminalAt |-> 0]
Verified(b, artifact) ==
    [status |-> "Verified", buffer |-> b, verified |-> DOMAIN artifact]
Prepared(council, capacity, artifact, least, back) ==
    [slot |-> 4, nonce |-> 1, council |-> council, capacity |-> capacity,
     proposals |-> <<Queued(Primary(artifact, least, back), council, 1),
                     Queued(Rollback(back), council, 3)>>,
     buffers |-> [b \in {11, 12} |->
                    [authority |-> "controller",
                     artifact |-> IF b = 11 THEN artifact ELSE back]],
     checks |-> <<Verified(11, artifact), Verified(12, back)>>]

(* Observations: an upgrade needs two of its prestate and one of its result. *)
Sparse == [ProposalPrestate |-> 2, PostUpgrade |-> 1, Rollback |-> 1,
           EmergencyResolution |-> 1]

(* Nothing proposed yet, and a quiet protocol whose last pair was never used. *)
Uploaded(b) == IF b = 11 THEN NewTwo ELSE Old
Empty == [slot |-> 5, nonce |-> 1, council |-> 2, capacity |-> 2, proposals |-> <<>>,
          buffers |-> [b \in Buffers |-> [authority |-> "uploader", artifact |-> Uploaded(b)]],
          checks |-> <<>>]
Withdrawn(p) ==
    [p EXCEPT !.state = "Cancelled", !.approvals = {}, !.approvedAt = 0,
              !.cancelCouncil = 1, !.cancelApprovals = DOMAIN Councils[1].term,
              !.cancelReason = "withdrawn", !.terminalAt = 1]
Quiet ==
    [slot |-> 1, nonce |-> 1, council |-> 1, capacity |-> 1,
     proposals |-> <<Withdrawn(Queued(Primary(NewTwo, 2, Old), 1, 1)),
                     Withdrawn(Queued(Rollback(Old), 1, 1))>>,
     buffers |-> [b \in Buffers |-> [authority |-> "closed", artifact |-> Uploaded(b)]],
     checks |-> <<>>]
EmptyOrQuiet == {Empty, Quiet}

(* A pair queued by a council that is about to be replaced, in an account with room
   to grow; a larger program, planned with an extension that somebody else's growth
   has to stand in for; and, in an account that is full, a rollback to another
   program than the one in place. *)
PreparedPairs ==
    {Prepared(1, 2, New, 1, Old), Prepared(2, 1, New, 1, Old), Prepared(2, 1, NewTwo, 2, Old),
     Prepared(2, 2, New, 1, Other)}
=============================================================================
