------------------------- MODULE ObligationRecords --------------------------
(***************************************************************************)
(* What the host keeps of its storage obligations: the records in the      *)
(* database, the locks with the copies their holders work on, the sectors, *)
(* the metrics, and what the blockchain and the transaction pool have of   *)
(* them.  StorageObligations has the RPCs, action items and consensus      *)
(* changes that work on it.  Amounts are counted in contracts: an          *)
(* obligation locks one unit of collateral, and a fee is one unit.         *)
(***************************************************************************)
EXTENDS Integers, FiniteSets

CONSTANTS
    Obligation,     \* ids of file contracts
    Sector,         \* sector roots
    WindowEnd,      \* obligation -> height of the proof deadline
    BlocksPerDay,   \* also storageObligationAuditInteval
    MaxHeight       \* highest block (bound)

ASSUME ObligationAssumption ==
    /\ IsFiniteSet(Obligation)
    /\ BlocksPerDay \in Nat \ {0} /\ MaxHeight \in Nat
    /\ \A o \in Obligation : WindowEnd[o] \in Nat

VARIABLES
    db,         \* bucketStorageObligations: id -> storageObligation
    hold,       \* id -> who holds its lock, with the copy of the record it works on
    height,     \* the block height of the host
    audit,      \* scheduledAuditBlockheight
    metrics,    \* financialMetrics: contracts, locked collateral, fees
    saved,      \* the fee metric in the last saved host.json
    refs,       \* the contract manager: sector -> virtual sectors
    pool,       \* transactions the host gave to the transaction pool
    chain,      \* the transactions of obligations in the blockchain
    env,        \* what the environment did: ids formed and agreed on, disturbances
    hist        \* history: ids damaged, and why; renewals with the contract they share sectors with

-----------------------------------------------------------------------------

Nobody == [pc |-> "free"]

\* The stages of an action item that resolves an obligation or submits for it.
Handling == {"origin", "revision", "proof", "save", "finish"}

\* A new obligation whose record may be in the database but is not counted yet.
Adding == {"put", "submit", "count"}

Unresolved(o) == o \in DOMAIN db /\ db[o].status = "unresolved"
Open == {o \in DOMAIN db : Unresolved(o)}

MinusWrapping(a, b) == a - b
Minus(a, b) == IF a < b THEN 0 ELSE a - b      \* Currency.Sub

\* The contract manager: RemoveSectorBatch ignores sectors it does not have.
Added(r, S) == [s \in Sector |-> IF s \in S THEN r[s] + 1 ELSE r[s]]
Removed(r, S) == [s \in Sector |-> IF s \in S THEN Minus(r[s], 1) ELSE r[s]]

\* The sectors of a renewal that clears the old contract are not counted again.
AddNoSectors(r, h) == r
AddSectors(r, h) == IF h.clear THEN r ELSE Added(r, h.so.roots)

\* A record is written from a copy that a consensus change has made out of date.
Stale(o) == IF hold[o].dirty THEN [hist EXCEPT !.stale = @ \cup {o}] ELSE hist

\* Transactions, and those of an obligation that the blockchain confirms.
Tx(kind, o, n) == [kind |-> kind, id |-> o, number |-> n]
Confirmed(c, kind, o) == {t \in c.all : t.kind = kind /\ t.id = o}

-----------------------------------------------------------------------------
FlagsRight(o) ==
    /\ db[o].origin <=> Confirmed(chain, "origin", o) # {}
    /\ db[o].proof <=> Confirmed(chain, "proof", o) # {}
    /\ db[o].revision => Confirmed(chain, "revision", o) # {}

\* The record of an obligation says what the blockchain says: ProcessConsensusChange
\* sets and clears OriginConfirmed and ProofConfirmed with the blocks, through
\* reorganisations and restarts, and RevisionConfirmed is only set when a revision
\* is confirmed; unless an action item or an RPC wrote the record back from a copy
\* that it read before a consensus change.
FlagsFollowChain == \A o \in DOMAIN db \ hist.stale : FlagsRight(o)

=============================================================================
