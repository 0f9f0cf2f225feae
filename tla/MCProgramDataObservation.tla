---------------------- MODULE MCProgramDataObservation ----------------------
(***************************************************************************)
(* A header of one cell, raw chunks of two and artifact chunks of one: the *)
(* tail of an artifact begins inside a chunk or at its edge, an account of *)
(* four or five cells has two or three chunks, the last short or padded.   *)
(***************************************************************************)
EXTENDS ProgramDataObservation

CONSTANTS Code, Other   \* two cells that are not zero

\* The longest fills a program of three cells, so that no tail is left to verify.
ThreeArtifacts == {<<Code>>, <<Code, Other>>, <<Code, Zero, Other>>}

\* The artifacts, padded; the last differs from the first in its last cell.
LongImages == {<<Code, Zero, Zero>>, <<Code, Other, Zero>>, <<Code, Zero, Other>>}

GateOf(status, epoch, reason, active) ==
    [status |-> status, epoch |-> epoch, reason |-> reason, active |-> active]

UpgradeGates == {GateOf("FrozenForUpgrade", 1, "upgrade", "proposal"),
                 GateOf("Active", 2, "none", "none")}
=============================================================================
