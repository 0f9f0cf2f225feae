------------------------- MODULE AtomicObservation -------------------------
(***************************************************************************)
(* What an observation promises: although it reads the ProgramData account *)
(* in many transactions, its certificate is one that a single instruction  *)
(* reading the whole account could have issued at the moment of the        *)
(* finalization.  The ledger around it is free to change at every step.    *)
(***************************************************************************)
EXTENDS ObservationMerkle

CONSTANTS
    Zero,             \* the zero cell
    MetadataLength    \* cells of the ProgramData header

VARIABLES
    accounts,      \* for each observed program: payload, deployed slot, authority
    gate,          \* the protocol gate
    certificates   \* the roots certified so far, by subject digest

atomicVars == <<accounts, gate, certificates>>

HeaderCells(account) ==
    [i \in 1 .. MetadataLength |->
        [cell |-> i, deployed |-> account.deployed, authority |-> account.authority]]

RawData(account) == HeaderCells(account) \o account.payload

\* The payload is the artifact, and zero from its end on.
Holds(account, artifact) ==
    /\ Len(artifact) <= Len(account.payload)
    /\ \A i \in 1 .. Len(account.payload) :
           account.payload[i] = IF i <= Len(artifact) THEN artifact[i] ELSE Zero

Certify(digest, program) ==
    /\ digest \notin DOMAIN certificates
    /\ digest.gate = gate
    /\ Len(accounts[program].payload) >= digest.minimum
    /\ Holds(accounts[program], digest.artifact)
    /\ certificates' =
           [d \in DOMAIN certificates \cup {digest} |->
               IF d = digest THEN TreeRoot(digest, RawData(accounts[program]))
                             ELSE certificates[d]]
    /\ UNCHANGED <<accounts, gate>>

LedgerMoves == UNCHANGED certificates

AtomicInit == certificates = <<>>

AtomicNext ==
    \/ LedgerMoves
    \/ \E digest \in DOMAIN certificates' : Certify(digest, digest.program)

AtomicSpec == AtomicInit /\ [][AtomicNext]_atomicVars
=============================================================================
