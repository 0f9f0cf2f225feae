---------------------------- MODULE GatedProgram ----------------------------
(***************************************************************************)
(* What an upgrade controller promises of the program it governs.  Users   *)
(* run the program while the gate is open.  It is then the trusted one;    *)
(* the payload is replaced only behind a closed gate; and the gate opens   *)
(* again only on a program that has become the trusted one.  Each period   *)
(* of the gate has an epoch of its own.                                    *)
(***************************************************************************)
EXTENDS Naturals

CONSTANT Payloads      \* payloads the program account may hold

VARIABLES open, epoch, running, trusted

gated == <<open, epoch, running, trusted>>

Init ==
    /\ open = TRUE
    /\ epoch = 1
    /\ running \in Payloads
    /\ trusted = running

Close ==
    /\ open
    /\ open' = FALSE
    /\ epoch' = epoch + 1
    /\ UNCHANGED <<running, trusted>>

\* Another decision takes over a closed gate.
HandOver ==
    /\ ~open
    /\ epoch' = epoch + 1
    /\ UNCHANGED <<open, running, trusted>>

Replace ==
    /\ ~open
    /\ running' \in Payloads
    /\ UNCHANGED <<open, epoch, trusted>>

Reopen ==
    /\ ~open
    /\ open' = TRUE
    /\ epoch' = epoch + 1
    /\ trusted' = running
    /\ UNCHANGED running

Next == Close \/ HandOver \/ Replace \/ Reopen

Spec == Init /\ [][Next]_gated
=============================================================================
