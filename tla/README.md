# Verification of the council controllers

This directory holds TLA+ modules that model the two upgrade controllers of this
repository, TLC configurations that check them on small instances, and TLAPS proofs
about them for every value of the constants. Source paths are relative to the
repository root; `v3/` abbreviates `programs/governance_controller_v3/src/` and `r1/`
`programs/upgrade_controller/src/`.

## 1. Inventory

### 1.1 What the system is

A council of five seats decides, three signatures at a time, what code runs in a set of
Solana programs. Two programs do this:

- **V3** (`v3/`): one record per *proposal*, which commits to one action: upgrade the
  controller itself, upgrade a target, freeze or activate a target's gate, change the
  timing policy, rotate the council, publish verification metadata, initialise Spread's
  light config, or retire a target. It is approved during a review window, executable
  between a delay and an expiry, and may be cancelled by three seats.
- **Release 1** (`r1/`): one target, and for every upgrade a *pair* of proposals, the
  primary and the rollback that answers it. A primary closes the gate, has its prestate
  attested, installs its buffer, is observed and verified, has
  its poststate attested, and reopens the gate by a second quorum; a recorded failure
  hands the closed gate over to the rollback. A guardian may freeze the gate, and the
  council resolves it. The council governs its own timing and succession, and the whole
  is bootstrapped by a ceremony that takes custody of the target.

Everything that needs no decision (expiry, buffer return, observation, reclamation) is
permissionless.

Instructions are atomic: one that fails changes nothing. Concurrency is therefore
interleaving of whole instructions of different people, plus what the loader lets
anyone do to the same accounts in between.

### 1.2 Components

| Component | State it keeps | Operations | Modelled by |
|---|---|---|---|
| V3 records and policy, `v3/state.rs` | council (seats, epoch, timing, version, next id), proposal | validate, boundaries, current, approve/cancel, executable, mark chunk | `ProposalV3` |
| V3 processor, `v3/processor.rs` | council, proposal and gate accounts; acts on program, ProgramData and buffer accounts | initialize, register target, create, seal, verify, approve, cancel, expire, execute (policy, upgrade, gate, light config), close buffer | `ControllerV3` |
| V3 retirement, `v3/processor/retirement.rs` | closes ProgramData; deletes gates, proposals, verification records | retire, reclaim records, reclaim verification | `ControllerV3` |
| V3 verification metadata, `v3/processor/verification.rs`, `v3/verification.rs` | an Otter Verify record per program | publish | `ControllerV3` (acceptance and content; not the bytes) |
| V3 artifact commitment, `v3/artifact.rs` | none | Merkle root, proof, chunk check | `ArtifactMerkle` |
| Loader accounts and gate record, `r1/release1_loader_accounts.rs`, `r1/state.rs` | none of their own | parse, link, validate | as types and guards of `ControllerV3` |
| Release 1 reference model, `r1/release1_model.rs` | the whole controller as one Rust struct, with which the tests compare | every `Release1ModelAction` | `Release1Model` |
| Release 1 V3 lifecycle, `r1/release1_processor_v3_lifecycle/` | proposals, checkpoints, attestations, freezes, resolutions, gate, deployment record | create to queue, freeze, cancel, expire, checkpoints, guardian freeze and resolution, unfreeze | `Release1Records`, `Release1Lifecycle` |
| Release 1 custody, `r1/release1_processor_v3_custody/` | buffer checks, verifications, failure records | adopt, check and close buffers, extend (never succeeds, see 4.1), execute, verify, witness failure, activate rollback | `Release1Custody` |
| Release 1 governance V2, `r1/release1_governance_v2*.rs` | registry, timing profiles, council sets, four kinds of proposal | candidates, timing changes, rotations, handoff, activation | `GovernanceLifecycleV2`, `GovernanceV2`, `AuthorityCeremony` |
| Release 1 observation, `r1/release1_processor_observation.rs` | an observation record and its Merkle frontier | begin, append raw chunk, verify artifact chunk, finalize | `ObservationMerkle`, `ProgramDataObservation` |
| Release 1 initialization and ceremony, `r1/release1_processor_initialize_v2.rs`, `r1/release1_processor_authority/` | release commitment, receipts, first deployment record | initialize, registry, immutability, handoff, activation | `AuthorityCeremony` |
| Protocol gate ABI, superseded V1 processors, codecs and digests | none that is live | | not modelled (section 7) |
| TypeScript client, tools, benchmarks, fixtures | none on chain | | not modelled |

How they interact: a handler loads a record, checks it against the council, the clock,
the gate and the loader's accounts, changes it, validates it again and saves it.
Authority over programs and buffers is held by program-derived addresses. A controller
may replace its own code, so the binary that executes a proposal need not be the one
that created it. Release 1 never reads a payload twice: observations are finalized
certificates, and later handlers compare only headers with them. Gated programs only
read the gate account.

### 1.3 What is hard

- signatures are bits of seat *numbers*, and people change seats;
- artifacts and whole accounts are read chunk by chunk over many transactions, while
  others may write, extend, close or hand over what is being read;
- proposals outlive the council, the timing policy, the controller release, the
  target's code, and the target itself;
- anyone may grow a program at any time, which changes the deployment slot and the
  capacity that proposals and evidence have recorded;
- an upgrade must leave its rollback enough slots, and evidence accepted in one
  transaction must still be accepted in a later one, though the council has changed;
- signatures stay counted after the seat that gave them has left office, and the council
  that gave them may be replaced before what it decided is executed;
- records are validated again on every load, so an unforeseen combination would be
  stuck for ever;
- u64 arithmetic on values the council chooses.

`PROJECT.json` lists these hazards at their lines, with the properties aimed at them.

### 1.4 What makes each component correct

- *Decisions*: nothing is executed without a quorum of the people it needs; the policy,
  profile and council in force are the last executed ones and are replaced once; every
  proposal ends.
- *Code*: what is installed is what was committed to; an epoch pins the code of a
  target; code moves only behind a closed gate, and a gate reopens only on a known
  program; a used epoch never acts again.
- *Evidence*: a deployment slot names one payload; an observation of many transactions
  is worth one that reads the account at once; accepted evidence stays acceptable.
- *Rollback*: when code is replaced its rollback still has the slots it needs, and a
  verified rollback has put back what was there.
- *Custody*: the target is handed over to a controller nobody can change, with a
  program that is the one observed.
- *Accounts*: ids are never reused; layouts and widths are kept; buffers of dead
  proposals come back.

## 2. Modules

| Module | Contents | Proofs |
|---|---|---|
| `ProposalV3` | records of `v3/state.rs` and the operations on them | |
| `ControllerV3` | the accounts of V3, one action per instruction, the environment, the properties | `ControllerV3Proofs` |
| `CouncilDecisions` | abstract: what a council's decision is | refined in `ControllerV3Proofs` |
| `TreeWidths` | the shape that the two Merkle trees share | `TreeWidthsProofs` |
| `ArtifactMerkle` | the commitment scheme | `ArtifactMerkleProofs` |
| `Release1Model` | the reference state machine of Release 1 | `Release1ModelProofs` |
| `Release1Records`, `Release1Lifecycle`, `Release1Custody`, `Release1Controller` | the live handlers, in layers; the last adds the clock and what others do | `Release1ControllerProofs` |
| `GatedProgram` | abstract: what a gate promises its users | refined in `Release1ControllerProofs` |
| `GovernanceLifecycleV2`, `GovernanceV2` | the shared lifecycle; timing changes and rotations | `GovernanceV2Proofs` |
| `AuthorityCeremony` | the bootstrap, on top of `GovernanceV2` | `AuthorityCeremonyProofs` |
| `ObservationMerkle`, `ProgramDataObservation` | the frontier; the chunked observation | `ProgramDataObservationProofs` |
| `AtomicObservation` | abstract: an observation that reads the account at once | refined in `ProgramDataObservationProofs` |
| `MC...` | the instances TLC checks | |

Each layer `EXTENDS` the one before it. `CouncilDecisions`, `GatedProgram` and
`AtomicObservation` are instantiated with a mapping, and the detailed specification is
checked to imply them. `FinalizeObservation` of `Release1Custody` and
`AuthorityCeremony` takes an observation in one step: `ProgramDataObservation`
implements `AtomicObservation`, which is what justifies it.

An operator whose name ends in `Mutant` is a plausible mistake in the code it stands
beside. No specification uses it; `PROJECT.json` pairs it with a property that fails
when it replaces the definition of that name.

## 3. Modules and code

### 3.1 `ProposalV3`

| Definition | Code |
|---|---|
| `TimingValid`, `BoundariesFit`, `Boundaries` | `Timing::validate`, `Timing::boundaries` |
| `SeatsValid`, `ActionValid`, `HasExplicitTarget` | `validate_seats`, `Action::validate`, `Action::explicit_target` |
| `NewProposal`, `ProposalValid` | the literal in `create`, `Proposal::validate` |
| `Current`, `Executable` | `Proposal::current`, `Proposal::executable` |
| `MayApprove`/`Approved`, `MayCancel`/`Cancelled` | the two modes of `Proposal::approve` |
| `MayMark`/`Marked`, `Complete` | `mark_chunk_verified`, `complete` |

Bitmaps are sets, and the counts beside them are their cardinalities. Keys, addresses
and digests are opaque. An artifact is the sequence of its chunks, standing for its
length and Merkle root: `RootDeterminesArtifact` and `OnlyTheChunkVerifies` of
`ArtifactMerkleProofs` justify that. `checked_add` is the guard `AddFits`, with the real
maximum replaced by the constant `U64_MAX`.

### 3.2 `ControllerV3` and `CouncilDecisions`

The variables are the accounts: `config` (the council), `proposals`, `gates`,
`programs` (program and ProgramData), `buffers`, `metadata` (verification records),
`light` (Spread's config), and the clock `slot`. `signed` is a history variable: the
keys that signed an approval of each proposal, which the program does not store.

| Action | Instruction |
|---|---|
| `Initialize`, `RegisterTarget` | `initialize`, `register_target` |
| `Create`, `SealBuffer`, `VerifyChunk` | `create`, `seal`, `verify` |
| `Approve`, `Cancel` | `approve` with `cancel` false or true |
| `Expire`, `CloseBuffer` | `expire`, `close_buffer` |
| `ExecuteSetTiming`, `ExecuteRotateCouncil` | `execute_policy` |
| `ExecuteControllerUpgrade`, `ExecuteTargetUpgrade` | `execute_upgrade` without and with a gate |
| `ExecuteTargetGate`, `ExecuteSpreadLightConfig` | `execute_target_gate`, `execute_spread_light_config` |
| `PublishVerification`, `RetireTarget` | `publish`, `retire` |
| `ReclaimRecords`, `ReclaimVerification` | `reclaim_records`, `reclaim_verification` |
| `Tick`, `Upload`, `HandOver`, `Withdraw`, `ExtendProgram` | environment: the clock and the loader |

`LoaderUpgrade` and `LoaderClose` are the loader's side of the CPIs, modelled from how
the code uses them. The release number and the recipes compiled into a binary are
functions of the installed image (`ReleaseOf`, `Recipe`, `PreviousRecipe`), so that a
self-upgrade changes the program that executes later instructions.

`CouncilDecisions` has a set of members and, per decision, a status and the people who
signed: no slots, epochs or bitmaps. `ControllerV3` implements it
(`ImplementsCouncilDecisions`) under the mapping `CouncilView`, `DecisionView`: a
pending proposal of an earlier council is already void, and a reclaimed one is gone.

### 3.3 `TreeWidths`, `ArtifactMerkle`

`chunk_count`, `leaf_hash`, `reduce`, `padding_hash`, `leaves`, `merkle_root`,
`merkle_proof` and `verify_chunk` as in `v3/artifact.rs`, with hashes as free
constructors. The code shifts indices and halves vectors in place; here a level of the
tree is a function of the position (`Rounds`), `index >> d` is `Node`, `1 << d` is
`Width[d]`, and the depth of a tree stands for its width. `TreeDepth` is
`MAX_PROOF_DEPTH`. The state is a sealed buffer, a committed root, which may be *any* tree
of hashes, and the chunks marked so far.

### 3.4 `Release1Model`

`r1/release1_model.rs` is the executable reference the Rust tests compare the handlers
with. Its `apply` works on a clone and keeps it on success, so an action here is the
guard and the assignments of the successful path, in the order of `apply_in_place`;
`Ready` is the validation each action runs first. `ObserveProgramData`,
`ObserveAuthority` and `ObserveMalformed` are the setters by which a harness reports the
chain. A hard state stands for its seven commitments, a council's hash for its terms.

### 3.5 `Release1Records` to `Release1Controller`

The variables are the accounts: `config` (nonce, council), `gate`, `deployment` (the
trusted record), `proposals`, `observations`, `attestations`, `checkpoints`,
`verifications`, `failures`, `freezes`, `resolutions`, `runtime` (the ProgramData
account), `buffers` and `checks` (their verification), and the clock.

- `Release1Records`: loaders and validators (`ProposalValid`, `TimingExact`,
  `GateValid`, `RuntimeTrusted`, `FreshObservation`, `ObservationLive`, ...).
- `Release1Lifecycle`: the handlers of `release1_processor_v3_lifecycle/`, from
  `CreateProposal` to `ExecuteUnfreeze`, with guardian freeze and resolution.
- `Release1Custody`: the handlers of `release1_processor_v3_custody/`. The loader is
  external: `ExecuteUpgrade` may install what the buffer holds or anything in `Damage`.
  `ExtendTarget` carries the privilege it demands of the deployment account and the
  runtime's rule that a read-only account is not written; together they are never
  satisfied (4.1), so it is a step of no specification. A proposal planned with an
  extension goes on only if somebody else grows the account (`ExtendProgram`).
- `Release1Controller`: the clock, an uploader that rewrites buffers before adoption,
  anybody growing the program, and a later council set put in force by governance V2
  (`RotateCouncil`, the effect of `GovernanceV2`'s execution on the configuration).

A digest is the record it covers. The "expected" fields of an instruction pin what the
sender read; a mismatch changes nothing, so an action is the instruction that pins the
present state. `GatedProgram` has four variables, `open`, `epoch`, `running`, `trusted`.

### 3.6 `GovernanceLifecycleV2`, `GovernanceV2`, `AuthorityCeremony`

`GovernanceLifecycleV2` is the record all four kinds of governance proposal share, with
its validation. `GovernanceV2` adds candidate councils, timing profiles, and the
handlers of timing changes and rotations. `AuthorityCeremony` adds initialization, the
registry, `RecordControllerImmutability`, and the handlers of handoff and activation,
while the holders of the two upgrade authorities redeploy, extend and pass them on
between any two steps.

### 3.7 `ObservationMerkle`, `ProgramDataObservation`

The frontier of `programdata_observation_merkle.rs`, and `begin`, `append`, `verify` and
`finalize` of `release1_processor_observation.rs`. Raw chunks and artifact chunks are
two traversals that advance in any order. Between two transactions the loader may
upgrade, extend or pass on the program, and the gate may move. Verification of an
artifact chunk compares it with the artifact's own chunk, which is what a Merkle proof
against its root amounts to: `r1/artifact_merkle.rs` checks as `v3/artifact.rs` does, with
other domains and constants, and `OnlyTheChunkVerifies` is proved of that check.

## 4. Runs

All runs but two pass. "States" are distinct states.

| Run | Instance | Properties | States |
|---|---|---|---|
| `v3_policy` | 3 seats, threshold 2, 2 proposals, `U64_MAX` 7: competing timings and a rotation; a rotation, an activation and a retirement | `TypeOK`, `PolicyInForce`, `ExecutionHasQuorum`, `ImplementsCouncilDecisions` | 525,000 |
| `v3_accounts` | 1 seat: two upgrades on one buffer and epoch; three self-upgrades; retirement and reclamation; records across a release | `VerifiedMatchesBuffer`, `ConsumedEpochIsPast`, `RecordsStayWritable`, `InstallsApprovedArtifact`, `EpochPinsCode`, `IdsNeverReused`, `NoInterveningSelfUpgrade` | 606,000 |
| `v3_settle` | a rotation strands proposals and sealed buffers; fairness | `PendingSettles`, `DeadBuffersReturn`, `GrowthKeepsUpgrades` | 94,000 |
| `v3_growth_records` | retirement and verification proposals, a third party who grows the program | `GrowthKeepsProposals` (violated) | |
| `merkle` | chunks of two bytes, one to four chunks, all trees over five kinds of leaf | `CompleteIsCanonical`, `HonestProofAccepted` | 22,000 |
| `r1_model` | a primary that extends and its rollback, with a seat that leaves office; the pair while the council is replaced; a freeze and resolution while the accounts drift; a converted freeze; a rotation | `RollbackWindowOpen`, `UpgradeWasDecided` | 277,000 |
| `r1_upgrade` | four queued pairs to their ends, a council replaced on the way, growth, a loader that damages | `TypeOK`, `OneFlight`, `EvidenceStaysAcceptable`, `RollbackRestores`, `SlotNamesProgram`, `ReopenedByCouncil`, `PayloadChangesDecided`, `GatedSpec` | 97,000 |
| `r1_prepare` | a pair from creation to its freeze, with rewritten buffers; guardian freezes | `SealedBufferIntact`, `EmergencyKeepsProgram` | 331,000 |
| `r1_extension` | the pairs of `r1_upgrade` | `PlannedExtensionRuns` (violated) | |
| `governance` | two seats; competing changes and rotations, cancellations, terms that end; fairness | `RecordsValid`, `ProfileChain`, `CouncilSuccession`, `QueuedRotationRuns`, `OldCouncilPowerless`, `EveryProposalEnds` | 300,000 |
| `boot` | two seats, two artifacts of either program, five slots | `ControllerFrozenFirst`, `CustodyKnowsProgram`, `ActivationOpensTrusted` | 215,000 |
| `observation` | one observation, two or three raw chunks, three artifacts, one of which fills the account | `HeaderVouchesForPayload`, `ObservationIsAtomic`, `CorrectIsCertified` | 7,400 |

### 4.1 Where code and documents disagree

- `v3_growth_records`: `docs/CONTROLLER_2MIB_CAP.md:106` says that growth by a third
  party cannot stale a proposal. Retirement, publication and light-config proposals
  record the deployment slot, which growth moves. `GrowthKeepsUpgrades` is the part that
  holds, for upgrade, gate and policy proposals.
- `r1_extension`: `r1/release1_processor_v3_custody/execution.rs:3-6` says that
  `process_extend_target_v2` "performs one exact `ExtendProgramChecked` CPI" and "advances
  the deployment evidence generation". Line 30 demands the deployment account read-only,
  lines 245-253 write it, and the builder
  (`r1/release1_v3_custody_instruction.rs:439`) passes it writable, which line 30 refuses:
  no call succeeds. The run shows a frozen upgrade planned with an extension that meets
  every other condition of the handler and cannot be extended. With the privilege check
  turned round the property holds. Behind it waits a second obstacle, out of reach as
  long as the first stands: the extension raises the deployment's generation (`:188`) and
  not the proposal's, and unfreeze
  (`r1/release1_processor_v3_lifecycle/unfreeze_evidence.rs:56`) and rollback activation
  compare the two.
- Without a run: `docs/CONTROLLER_2MIB_CAP.md:117` says that installing another release
  retires every older self-upgrade proposal. `v3/processor.rs:187` compares releases for
  equality, so reinstalling an old binary revives them. `NoInterveningSelfUpgrade` is
  proved for releases that only move forward.
- Without a run: `r1/release1_processor_v3_custody/failure.rs:430-432` says that a benign
  extension is handled by a fresh observation; `verification.rs:109` requires the
  deployment slot to be the slot of the upgrade, so a fresh observation is refused too.

A queued rollback stays open to expiry and cancellation while its primary holds the gate
(`r1/release1_processor_v3_lifecycle/lifecycle.rs:386`); the instance of `r1_upgrade`
reaches the state in which neither can end. Nothing in the repository promises
otherwise, so this is listed as a hazard and not as a finding.

### 4.2 Bounds

Slots and identifiers are bounded by `MaxSlot`, `MaxProposals` and their like; `U64_MAX`
replaces 2^64 - 1 and is small where an overflow is of interest (`v3_policy`). Windows
shrink from weeks to one or two slots; what matters to the code is the order of creation,
review end, delay and expiry, and all orders occur. Two concurrent proposals suffice for
every pairwise race. One seat suffices where who signs is not the question; thresholds
of two of two or three seats occur wherever it is.

What is explored side by side is bounded by name:

- `Agendas` (`ControllerV3`): the actions proposed in one behaviour come from one agenda;
- `Mixes` (`Release1Model`): pairs, freezes, drifting accounts, rotations and
  cancellations in the combinations and up to the slots that `SixMixes` lists, through
  `Explored` and `Drifts`; among them a pair that is executed after the council which
  decided it was replaced, and one seat of that council is out of office;
- `Starts`, `Plans` (`Release1Controller`): `r1_upgrade` starts from pairs that are
  already queued, in the state `StartValid` describes, and `r1_prepare` from nothing to a
  queued pair; `FreezeSlots` and `CancelSlots` say when guardian and councils act,
  `MaxObservations`, `MaxCandidates` and `MaxGeneration` how many records there are of
  each kind;
- `Quotas`, `MaxProfiles`, `LastCreation`, `LastActivation` (`GovernanceV2`): how many
  proposals and cancellations of each kind, and until when;
- in `boot` there is one council (`Versions`), rotation being `governance`'s subject;
  `Holders` is empty, since a key other than the two holders behaves as they do;
  `LastLoaderSlot` bounds what the holders do;
- `observation` follows one observation; several share nothing but the ledger.

Symmetry (`Symmetry3`: renumbering seats with the people in them; `Alike`: names of seats
and artifacts) is used only in runs without liveness. In `merkle` a proof is built from
hashes of the committed tree, since with free constructors nothing else leads to its
root. Deadlock checking is off: the bounds end every instance, and a controller nobody
uses may stand still.

### 4.3 Fairness

Nothing is assumed of a council, an uploader, an authority's holder or a third party.

- `FairSpec` of `ControllerV3`: slots pass, and somebody submits `Expire` and
  `CloseBuffer` once they succeed. Both are permissionless, and `close_buffer` returns
  rent to the treasury.
- `GovFairness`: slots pass, and somebody submits the permissionless expiries.
- `Fairness` of `ProgramDataObservation`: each step of an observation names no signer, so
  whoever wants the certificate may send it. `CorrectIsCertified` says so only where the
  account and the gate stand still.

## 5. Proofs

Every theorem holds for every value of the constants that meets the named `ASSUME`s,
which TLC evaluates on each run:

- V3 (`ProposalV3`, `ControllerV3`): seats are finite and the threshold is between one
  and their number, constants of type u64 fit, contents are sequences, and each offered
  action has the fields its decoder reads;
- `Release1Model`: the same of seats and bounds, delays that pass
  `ModelDelays::validate`, and inputs of the types of `ModelCouncil` and
  `ModelProposalRequest` (`InputsAssumption`);
- `Release1Records`, `Release1Controller`: the delays meet
  `ControllerConfigV1::validate_static`, no artifact is empty, and the first state is one
  the handlers leave (`StartValid`: queued proposals that are valid, with sound buffers);
- `GovernanceLifecycleV2`, `GovernanceV2`, `AuthorityCeremony`: positive minima, a nominal
  timing that the profile validation accepts, and a first council without the guardian
  or the controller's own address;
- `TreeWidths`, `ArtifactMerkle`: the depth is a natural, the chunk size is positive, and
  artifacts are strings of 1 to `MAX_CHUNKS * CHUNK` bytes, the lengths `validate`
  accepts;
- `ObservationMerkle`, `ProgramDataObservation`: sizes are positive, artifacts are not
  empty, and a header with the policy's capacity behind it is an account length the
  observation accepts.

Bounds such as `MaxSlot` are arbitrary naturals there.

### 5.1 V3

- `TypeCorrect`: `TypeOK` is inductive by itself; checked additions carry it.
- `SignersTheorem`, `QuorumTheorem`: that bits are signers is not inductive: a rotation
  needs that no proposal is ahead of the council's epoch, a creation that a new id
  carries no signatures. Distinct seats hold distinct keys, so THRESHOLD bits are
  THRESHOLD people.
- `VerifiedTheorem`, `InstallTheorem`: whoever may touch a buffer is its uploader or the
  proposal that holds it; completeness then makes buffer and artifact equal.
- `EpochTheorem`, `IdsTheorem`: `GateMoves` says how a step may change a gate and the
  code behind it; only `Create` adds a proposal, under the next id.
- `ConsumedTheorem`: the property is silent while a gate account is gone; the invariant
  adds that a target whose gate was reclaimed is closed, and closed programs stay closed.
- `PolicyTheorem`: `PolicyInv` adds that two executed policy proposals have different
  versions (`PoliciesApart`) and that versions of executed proposals are past
  (`VersionsPast`), without which a second winner of a race could not be excluded.
- `SelfUpgradeTheorem`: under `ForwardReleases` (an offered self-upgrade names a release
  earlier than its artifact's). `ReleaseInv` orders execution stamps, releases and the
  running binary. Without the hypothesis the statement is false, see 4.1.
- `RecordsWritableTheorem`: the code compiles one previous recipe per target into a
  release, so a record two recipes old is lost. The hypothesis `RecipesInherited` speaks
  of adjacent releases only, the one a self-upgrade is created under and the one it
  installs: a recipe is kept with its predecessor, or replaced by one that names it as
  predecessor. Any number of recipes may follow one another. Under it a record becomes
  unwritable only in a self-upgrade that changes its recipe while the record is still of
  an earlier one (`StrandsOnlyOutdated`), which is proved of every behaviour, and
  `RecordsStayWritable` holds of the behaviours in which each change of a recipe follows
  a publication under the recipe it replaces (`PublishedBeforeChange`). No code enforces
  that: it is the operators' discipline, and with three recipes in a row
  `RecordsStayWritable` fails without it.
- `GrowthTheorem`: from the types alone; growth changes nothing that the executability of
  an upgrade, gate or policy proposal reads.
- `DecisionsTheorem`: every step of the controller is a step of `CouncilDecisions` or a
  stutter, instruction by instruction.

### 5.2 Governance V2 and the ceremony

- `GovernanceV2Proofs`: `Advance` lists what an instruction other than execution does to
  a record, and every step is one of eight cases. `GovInv` is the types, sound records,
  stored candidates, and the two chains (`Chained`, `Succeeded`). From it follow
  `RecordsTheorem`, `ProfileTheorem`, `SuccessionTheorem`, `RotationTheorem` and
  `PowerlessTheorem`.
- `AuthorityCeremonyProofs`: what an observation is worth later. The loader stamps every
  upgrade with its slot, and an upgrade never shares a slot with the one before, so a
  header that still matches vouches for the artifact observed under it
  (`ObservationsVouch`). `CeremonyInv` adds the three phases: `Frozen` (the controller is
  immutable), `InCustody`, `Opened`. `FrozenFirstTheorem`, `CustodyTheorem` and
  `ActivationTheorem` follow.

### 5.3 The live Release 1 controller

- `TypesInvariant`, `TypeTheorem`, `SealedTheorem`: the types are inductive together with
  `BuffersSealed`, because a check record says something of a buffer only while the
  controller holds its authority.
- `FlightTheorem`: `OneFlight` is inductive with the types.
- `SlotTheorem`: `SlotNamesProgram` needs `SlotOrder`: no evidence is later than the live
  deployment, and the live deployment is not later than the clock. Then a new deployment,
  which needs an earlier slot than the present one, cannot reuse a slot.
- `GatedTheorem`: the refinement of `GatedProgram`. Each step leaves the four abstract
  variables alone or is one of its actions.
- `DecidedTheorem`, `ReopenTheorem`, `EmergencyTheorem`: action properties, read off the
  one handler that can make the change, from the types and the slot invariant.
- `RestoreTheorem`: a rollback may only be prepared for a payload that the council
  attested while it was still trusted. `RestoreInv` therefore carries three facts: the
  attested prestate of a flight is the trusted payload (`PrestateTrusted`), a rollback in
  flight aims at it (`RollbackTarget`), and a verified one has installed it.
- `EvidenceTheorem`: acceptance and use of evidence are transactions apart. `EvidenceInv`
  follows it through five records: `ObservationFits`, `EvidenceOfUpgrade`,
  `VerificationHolds`, `PoststateHolds`, `GenerationHolds`.

### 5.4 The reference model

- `ModelTypeTheorem`: `ModelTypes` is inductive by itself. Checked additions keep slots
  within 64 bits; `InputsAssumption` types what callers hand over.
- `WindowTheorem`: `WindowInv` records, for an executed primary, that its rollback exists,
  was already due, and expires after the whole window. The property compares the later of
  two slots with the expiry; the invariant says which is later. `NextShape` shows that
  every step but the execution leaves timing, class and link of a proposal alone.
- `UpgradeTheorem`, without hypotheses: `DecidedInv` says what a proposal has gone through
  in each state that can still execute (quorum, delay, nonce). `SignedInv` says of every
  proposal that its council is in `council_history` under the hash it was created with and
  that each seat in its bitset was in office on a slot of the review, which its timing
  still names. It is carried by two facts about every step: the history only grows and
  rewrites no council (`HistoryStep`), and a signature is added only by
  `ApproveProposal`, inside the window and by a seat in office (`VoteSigned`).

### 5.5 The artifact's tree

The prover has no induction over data, so these proofs argue by the least natural at
which something fails (`LeastNatural`, `UpTo` of `TreeWidthsProofs`, the second from the
first, and that one from the well-foundedness of the naturals). `TreeWidthsProofs` has
what both trees need: `Widths` (the levels double), `WidestIsMaxPadded`, `HalfPosition`,
`PaddedLevelLemma` (the root's level is the least that is wide enough).

- `OnlyTheChunkVerifies`: under the root of an artifact, some proof is accepted for a
  chunk at an index exactly when it is that artifact's chunk. One way, `OnlyTheChunk`:
  constructors are injective, so from the root downwards the climb of an accepted proof
  agrees with the tree (`NodesInject`). The other way, `HonestClimb`: the path that
  `merkle_proof` reads off the tree climbs to its root, and its siblings pass the padding
  rule, because a block of the tree that starts at or beyond the count is canonical
  padding (`BlockInside`, `PaddingLemma`).
- `RootDeterminesArtifact`: byte strings of one length with one root are equal, chunk by
  chunk (by the theorem before) and byte by byte (`ChunkBytes`).
- `CompleteTheorem`: the committed root is any hash. `MerkleInv` says that each mark has
  an accepted proof. `CompleteLemma` goes down and then up. From the root downwards, climbs that
  pass one node have one hash there, so the sibling in one proof is what the climb from
  the other half carries. From the leaves upwards, each climb is then the canonical
  tree: the other half holds a marked chunk too, or is padding, which the check pins.
- `HonestTheorem`: an honest commitment can always be completed.

### 5.6 The observation

- `FinalRootTheorem`: `Accumulates` says that the frontier holds, at each level that is a
  bit of the number of chunks read, the root of the block of that width which ends there.
  Appending carries like a binary counter, and so does the padding at the end; one hash
  is left, the root of the whole tree.
- `HeaderTheorem`: `HeaderVouchesForPayload` is not inductive, because a header can come
  back: the authority is passed on and returned, and while it is away the property says
  nothing. A deployment slot never comes back. `ObservationInv` therefore goes by the
  slot alone: no observation is of a later deployment than the live one, and while the
  slot is the same, what the frontier has read and the artifact chunks have matched is
  true of the payload (`Read`).
- `AtomicTheorem`: `Certificates` change only when an observation is finalized, for every
  other step stores a record that is not (`StoreCertifiesNothing`) or touches none. At
  that step the invariant, completeness of both traversals and `FinalRootTheorem` make
  the root what one reading of the account would give (`FinalizeCertifies`).

### 5.7 What only TLC checks

The four liveness properties, which are beyond the prover: `PendingSettles`,
`DeadBuffersReturn`, `EveryProposalEnds`, `CorrectIsCertified`. Every invariant, action
property and refinement of the passing runs is stated by a theorem.

## 6. Plan

1. An accounting module for V3: lamports of publish, reclaim and close, with donations
   from outside, so that "every lamport to the treasury" can be stated.
2. `v3/verification.rs`: the comparison of verification records field by field.

## 7. Not modelled

- Byte layouts, digests, address derivation and instruction decoding (`r1/instruction.rs`,
  `r1/release1_v3_instruction.rs`, the digest and PDA modules): pure conversions with
  tests and pinned vectors of their own.
- The protocol gate ABI (`r1/gate_abi.rs`): a layout that gated programs read.
- The superseded V1 processors of Release 1, which the dispatcher decodes and refuses.
- The transaction envelope, and account privileges where they agree with what the handler
  writes: then a caller who passes the accounts as the builder does meets them, and they
  restrict nothing else. The one handler whose privileges contradict its writes,
  `process_extend_target_v2`, is modelled with them (4.1). The extension fields of V3, which are zero in every proposal it writes.
- Lamports and rent; the bytes of verification metadata and the CPI that writes them.
- The TypeScript client, tools, benchmarks and recorded evidence.
