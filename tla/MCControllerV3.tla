---------------------------- MODULE MCControllerV3 ----------------------------
(***************************************************************************)
(* Small instances of ControllerV3.  A slot stands for a long stretch of   *)
(* real slots: the review window is two, the delay and the margin one.     *)
(***************************************************************************)
EXTENDS ControllerV3, TLC

CONSTANTS ctl, tgt, k1, k2, k3, j1, j2, j3, s1, s2, s3, none, pda, b1

\* Councils of three; seat i of the second council is held by somebody else.
Seats3 == {s1, s2, s3}
FirstThree == s1 :> k1 @@ s2 :> k2 @@ s3 :> k3
SecondThree == s1 :> j1 @@ s2 :> j2 @@ s3 :> j3
Keys3 == {k1, k2, k3, j1, j2, j3}
Councils3 == {FirstThree}

\* A single seat where only the accounts matter.
Seats1 == {s1}
Keys1 == {k1}
Councils1 == {s1 :> k1}
TwoKeys == {k1, j1}

\* Renumbering the seats together with the people in them changes nothing.
Symmetry3 ==
    { q @@ [x \in {k1, k2, k3} |-> FirstThree[q[CHOOSE i \in Seats3 : FirstThree[i] = x]]]
        @@ [x \in {j1, j2, j3} |-> SecondThree[q[CHOOSE i \in Seats3 : SecondThree[i] = x]]]
      : q \in Permutations(Seats3) }

NoTargets == {}
OneTarget == {tgt}
OneBuffer == {b1}

\* Artifacts of two chunks that agree on the first.
Old == <<"o">>
XY == <<"x", "y">>
XZ == <<"x", "z">>
OldXYXZ == {Old, XY, XZ}
OldImage == [p \in Programs |-> Old]

\* Three releases of the controller, one chunk each; the second changes the
\* target's recipe and still recognises the first release's.
X == <<"x">>
Y == <<"y">>
ThreeImages == {Old, X, Y}
OldAndX == {Old, X}
Releases == [c \in Contents |-> IF c = Old THEN 1 ELSE IF c \in {X, XY} THEN 2 ELSE 3]
Recipes == [r \in 1 .. 3 |-> [p \in Programs |-> IF p = tgt /\ r > 1 THEN 2 ELSE 1]]
OlderRecipes == [r \in 1 .. 3 |-> [p \in Programs |-> IF p = tgt /\ r > 1 THEN 1 ELSE 0]]

SetTiming(review, delay, expiry) ==
    [ kind |-> "SET_TIMING",
      timing |-> [review_slots |-> review, delay_slots |-> delay, expiry_slots |-> expiry] ]
Rotate(seats) == [kind |-> "ROTATE_COUNCIL", seats |-> seats]
UpgradeTarget(b, artifact, epoch) ==
    [ kind |-> "UPGRADE_TARGET", target |-> tgt, buffer |-> b, artifact |-> artifact,
      gate_epoch |-> epoch ]
UpgradeController(b, artifact, release) ==
    [kind |-> "UPGRADE_CONTROLLER", buffer |-> b, artifact |-> artifact, release |-> release]
SetGate(active, epoch) ==
    [kind |-> "SET_TARGET_GATE", target |-> tgt, gate_epoch |-> epoch, active |-> active]
Retire(epoch, deployed, image, capacity) ==
    [ kind |-> "RETIRE_TARGET", target |-> tgt, gate_epoch |-> epoch,
      deployed_slot |-> deployed, image |-> image, capacity |-> capacity ]
LightConfig(epoch, deployed) ==
    [ kind |-> "INITIALIZE_SPREAD_LIGHT_CONFIG", target |-> tgt, gate_epoch |-> epoch,
      deployed_slot |-> deployed, policy |-> "rent" ]
Publish(p, deployed, commit) ==
    [kind |-> "PUBLISH_VERIFICATION", target |-> p, deployed_slot |-> deployed, commit |-> commit]

-------------------------------------------------------------------------------
(* Agendas *)

\* Council policy: two timings against each other, one without a margin,
\* and a rotation.
Policies == {SetTiming(2, 1, 4), SetTiming(3, 1, 5), SetTiming(2, 1, 3), Rotate(SecondThree)}

\* Decisions of every fate: carried out, void after a rotation, and forgotten
\* with their target.
Fates == {Rotate(SecondThree), SetGate(TRUE, 1), Retire(1, 1, Old, 1)}

PolicyAgendas == {Policies, Fates}

\* Two upgrades that share a buffer and an epoch, and the activations around them.
Upgrades ==
    {UpgradeTarget(b1, XY, 1), UpgradeTarget(b1, XZ, 1), SetGate(TRUE, 1), SetGate(TRUE, 2)}

\* Self-upgrades created under the first and the second release.
SelfUpgrades ==
    {UpgradeController(b1, XY, 1), UpgradeController(b1, XZ, 1), UpgradeController(b1, XZ, 2)}

\* A target's end: closure, a late upgrade and activation, and its records.
Closures ==
    {Retire(1, 1, Old, 2), Retire(2, 1, Old, 2), UpgradeTarget(b1, XY, 1), SetGate(TRUE, 1)}

\* Records of a target: its light config and its verification metadata,
\* across a controller release.
Records ==
    {SetGate(TRUE, 1), LightConfig(2, 1), Publish(tgt, 1, 7), Publish(ctl, 1, 7),
     UpgradeController(b1, XY, 1), Retire(1, 1, Old, 2)}

AccountAgendas == {Upgrades, SelfUpgrades, Closures, Records}

\* A rotation that strands proposals, some with a sealed buffer.
StrandingAgendas == {{Rotate(s1 :> j1), UpgradeController(b1, X, 1)}}

\* Records whose program a third party grows.
GrowthAgendas == {{Retire(1, 1, Old, 1), Publish(tgt, 1, 7), Publish(ctl, 1, 7)}}
===============================================================================
