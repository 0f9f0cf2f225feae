------------------------------ MODULE TreeWidths ------------------------------
(***************************************************************************)
(* The shape shared by the two Merkle trees of the system, that of the     *)
(* artifact (artifact.rs) and that of the raw ProgramData account          *)
(* (programdata_observation_merkle.rs): a power of two of leaves, hashed   *)
(* in pairs; a hash of level l stands for Width[l] neighbouring leaves.    *)
(***************************************************************************)
EXTENDS Integers

CONSTANT TreeDepth   \* levels above the leaves of the widest tree

ASSUME TreeDepthAssumption == TreeDepth \in Nat

Levels == 0 .. TreeDepth

\* The leaves under a hash of level l: 1 << l.
Width[l \in Levels] == IF l = 0 THEN 1 ELSE 2 * Width[l - 1]

MaxPadded == Width[TreeDepth]

\* next_power_of_two, as the level of a root over that many leaves
PaddedLevel(count) ==
    CHOOSE l \in Levels : Width[l] >= count /\ \A k \in 0 .. l - 1 : Width[k] < count
PaddedCount(count) == Width[PaddedLevel(count)]
===============================================================================
