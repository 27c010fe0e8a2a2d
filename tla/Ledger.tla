------------------------------- MODULE Ledger -------------------------------
(***************************************************************************)
(* What the blocks of the consensus set do to its database: transactions   *)
(* are validated and applied, block maintenance pays miners, matures       *)
(* delayed outputs and expires file contracts, and every change is a diff  *)
(* that a reorganisation reverts and applies again.  Which chain wins is   *)
(* the matter of ForkChoice: here all blocks have one difficulty, so a     *)
(* block is heavier than the current one when it is higher.                *)
(***************************************************************************)
EXTENDS Integers, Sequences, FiniteSets, TLC, SequencesExt, FiniteSetsExt

CONSTANTS
    Bodies,          \* the lists of transactions that blocks hold (bound)
    MaxBlocks,       \* most blocks besides the genesis block (bound)
    GenesisCoins,    \* siacoin outputs of the genesis block: id -> value
    GenesisFunds,    \* siafund outputs of the genesis block: id -> value
    Coinbase,        \* coins a block creates
    MaturityDelay,   \* blocks before a delayed output can be spent
    SiafundCount,    \* number of siafunds that share the pool
    TaxMul, TaxDiv,  \* the part of a contract's payout that goes to the pool
    SegmentOf,       \* block id -> the segment its hash asks a proof of
    SpfAirdropHeight, ForkedFunds,           \* the airdrop and its outputs
    SpfHardforkHeight, SpfSecondHardforkHeight, HardforkFunds

ASSUME LedgerAssumption ==
    /\ MaxBlocks \in Nat /\ Coinbase \in Nat
    /\ MaturityDelay \in Nat \ {0}
    /\ SiafundCount \in Nat \ {0}
    /\ TaxMul \in Nat /\ TaxDiv \in Nat \ {0}

VARIABLES
    db,      \* the buckets of the consensus database
    blocks,  \* the block map: id -> processed block
    view     \* outputs and contracts as a subscriber has them from the diffs

vars == <<db, blocks, view>>

Genesis == 0
Kinds == {"sc", "fc", "sf", "dsco", "pool"}

-----------------------------------------------------------------------------
Put(f, k, v) == [x \in DOMAIN f \cup {k} |-> IF x = k THEN v ELSE f[x]]
Del(f, k) == [x \in DOMAIN f \ {k} |-> f[x]]
SumSeq(s) == FoldLeft(LAMBDA acc, x : acc + x, 0, s)
SumOver(f) == MapThenSumSet(LAMBDA k : f[k], DOMAIN f)
NoRepeat(s) == Cardinality(ToSet(s)) = Len(s)
Field(s, F(_)) == [i \in DOMAIN s |-> F(s[i])]

\* An output or contract is stored under a fresh id and removed from where it
\* is; the debug builds panic otherwise.
Fresh(d, f, id) == [d EXCEPT !.sane = @ /\ id \notin DOMAIN f]
Known(d, f, id) == [d EXCEPT !.sane = @ /\ id \in DOMAIN f]

blockHeight(d) == Len(d.path) - 1
currentBlockID(d) == d.path[Len(d.path)]
Flip(dir) == IF dir = "apply" THEN "revert" ELSE "apply"

-----------------------------------------------------------------------------
(* consensusdb.go: the buckets *)

addSiacoinOutput(d, id, v) == [Fresh(d, d.sco, id) EXCEPT !.sco = Put(@, id, v)]
removeSiacoinOutput(d, id) == [Known(d, d.sco, id) EXCEPT !.sco = Del(@, id)]

\* Expirations are kept per window end; an emptied bucket stays.
addFileContract(d, id, fc) ==
    LET bucket == IF fc.end \in DOMAIN d.fcex THEN d.fcex[fc.end] ELSE {}
    IN  [Fresh(d, d.fc, id) EXCEPT !.sane = @ /\ fc.payout > 0, !.fc = Put(@, id, fc),
                                   !.fcex = Put(@, fc.end, bucket \cup {id})]

removeFileContract(d, id) ==
    LET end == d.fc[id].end
    IN  [Known(d, d.fc, id) EXCEPT !.sane = @ /\ id \in d.fcex[end],
                                   !.fc = Del(@, id), !.fcex[end] = @ \ {id}]

addSiafundOutput(d, id, sfo) ==
    [Fresh(d, d.sfo, id) EXCEPT !.sfo = Put(@, id, sfo), !.sane = @ /\ sfo.value > 0]
removeSiafundOutput(d, id) == [Known(d, d.sfo, id) EXCEPT !.sfo = Del(@, id)]

addDSCO(d, h, id, v) ==
    [d EXCEPT !.sane = @ /\ id \notin DOMAIN d.sco /\ id \notin DOMAIN d.dsco[h],
              !.dsco[h] = Put(@, id, v)]
removeDSCO(d, h, id) ==
    [d EXCEPT !.sane = @ /\ id \in DOMAIN d.dsco[h], !.dsco[h] = Del(@, id)]

createDSCOBucket(d, h) ==
    [Fresh(d, d.dsco, h) EXCEPT !.dsco = IF h \in DOMAIN @ THEN @ ELSE Put(@, h, << >>)]
deleteDSCOBucket(d, h) == [Known(d, d.dsco, h) EXCEPT !.dsco = Del(@, h)]

setSiafundHardforkPool(d, v, h) == [d EXCEPT !.hfpool = Put(@, h, v)]
getSiafundHardforkPool(d, h) == IF h \in DOMAIN d.hfpool THEN d.hfpool[h] ELSE 0

claimPerFundInRange(claimStart, startPool, endPool) ==
    IF claimStart >= endPool THEN 0
    ELSE (endPool - Max({claimStart, startPool})) \div SiafundCount

\* Variant: the claim ignores when the output was created.
siafundClaimWholePool(d, sfo) == (d.pool \div SiafundCount) * sfo.value

\* claimPerFund; the three siafund counts of the code are equal.
siafundClaim(d, sfo) ==
    LET start == sfo.claimStart
        first == getSiafundHardforkPool(d, SpfHardforkHeight)
        second == getSiafundHardforkPool(d, SpfSecondHardforkHeight)
        perFund ==
            IF blockHeight(d) <= SpfHardforkHeight
            THEN claimPerFundInRange(start, start, d.pool)
            ELSE claimPerFundInRange(start, start, first)
                 + IF blockHeight(d) <= SpfSecondHardforkHeight
                   THEN claimPerFundInRange(start, first, d.pool)
                   ELSE claimPerFundInRange(start, first, second)
                        + claimPerFundInRange(start, second, d.pool)
    IN  perFund * sfo.value

Tax(payout) ==
    LET portion == (payout * TaxMul) \div TaxDiv
    IN  portion - (portion % SiafundCount)

-----------------------------------------------------------------------------
(* diffs.go: committing diffs *)

commitSiacoinOutputDiff(d, diff, dir) ==
    IF diff.dir = dir THEN addSiacoinOutput(d, diff.id, diff.val)
                      ELSE removeSiacoinOutput(d, diff.id)

commitFileContractDiff(d, diff, dir) ==
    IF diff.dir = dir THEN addFileContract(d, diff.id, diff.val)
                      ELSE removeFileContract(d, diff.id)

commitSiafundOutputDiff(d, diff, dir) ==
    IF diff.dir = dir THEN addSiafundOutput(d, diff.id, diff.val)
                      ELSE removeSiafundOutput(d, diff.id)

commitDelayedSiacoinOutputDiff(d, diff, dir) ==
    IF diff.dir = dir THEN addDSCO(d, diff.height, diff.id, diff.val)
                      ELSE removeDSCO(d, diff.height, diff.id)

\* A pool diff expects the pool to be where it starts from.
commitSiafundPoolDiff(d, diff, dir) ==
    LET from == IF dir = "apply" THEN diff.previous ELSE diff.adjusted
        to == IF dir = "apply" THEN diff.adjusted ELSE diff.previous
    IN  [d EXCEPT !.pool = to,
                  !.sane = @ /\ d.pool = from /\ diff.previous <= diff.adjusted]

commit(kind, d, diff, dir) ==
    CASE kind = "sc" -> commitSiacoinOutputDiff(d, diff, dir)
      [] kind = "fc" -> commitFileContractDiff(d, diff, dir)
      [] kind = "sf" -> commitSiafundOutputDiff(d, diff, dir)
      [] kind = "dsco" -> commitDelayedSiacoinOutputDiff(d, diff, dir)
      [] kind = "pool" -> commitSiafundPoolDiff(d, diff, dir)

commitAll(d, diffs, dir, Order(_)) ==
    FoldLeft(LAMBDA acc, kind :
                FoldLeft(LAMBDA acc2, diff : commit(kind, acc2, diff, dir),
                         acc, Order(diffs[kind])),
             d, <<"sc", "fc", "sf", "dsco", "pool">>)

\* Variant: a block is reverted in the order in which it was applied.
commitNodeDiffsForward(d, pb, dir) == commitAll(d, pb.diffs, dir, LAMBDA s : s)

commitNodeDiffs(d, pb, dir) ==
    commitAll(d, pb.diffs, dir, LAMBDA s : IF dir = "apply" THEN s ELSE Reverse(s))

createUpcomingDelayedOutputMaps(d, pb, dir) ==
    IF dir = "apply" THEN createDSCOBucket(d, pb.height + MaturityDelay)
    ELSE IF pb.height >= MaturityDelay THEN createDSCOBucket(d, pb.height)
    ELSE d

\* Variant: reverting a block keeps the bucket it created.
deleteObsoleteDelayedOutputMapsOnApply(d, pb, dir) ==
    IF dir = "apply" /\ pb.height >= MaturityDelay THEN deleteDSCOBucket(d, pb.height) ELSE d

deleteObsoleteDelayedOutputMaps(d, pb, dir) ==
    IF dir = "revert" THEN deleteDSCOBucket(d, pb.height + MaturityDelay)
    ELSE IF pb.height >= MaturityDelay THEN deleteDSCOBucket(d, pb.height)
    ELSE d

updateCurrentPath(d, pb, dir) ==
    [d EXCEPT !.path = IF dir = "apply" THEN Append(@, pb.id) ELSE Front(@)]

commitDiffSet(d, pb, dir) ==
    updateCurrentPath(
        deleteObsoleteDelayedOutputMaps(
            commitNodeDiffs(createUpcomingDelayedOutputMaps(d, pb, dir), pb, dir), pb, dir),
        pb, dir)

-----------------------------------------------------------------------------
(* types/validtransaction.go and validtransaction.go.  Sizes, signatures,  *)
(* unlock conditions and time locks are left out: a transaction of Txns    *)
(* satisfies them.                                                         *)

followsStorageProofRules(t) ==
    t.proofs # << >> => t.scOut = << >> /\ t.fcs = << >> /\ t.revs = << >> /\ t.sfOut = << >>

noRepeats(t) ==
    /\ NoRepeat(t.scIn) /\ NoRepeat(t.sfIn)
    /\ NoRepeat(Field(t.proofs, LAMBDA sp : sp.parent) \o Field(t.revs, LAMBDA r : r.parent))

followsMinimumValues(t) ==
    /\ \A v \in ToSet(t.scOut) \cup ToSet(t.sfOut) \cup ToSet(t.fees) : v > 0
    /\ \A fc \in ToSet(t.fcs) : fc.payout > 0

ContractBalanced(fc) ==
    /\ SumSeq(fc.valid) = fc.payout - Tax(fc.payout)
    /\ SumSeq(fc.missed) = fc.payout - Tax(fc.payout)

\* Variant: a contract may be formed with a window that is already over.
correctFileContractsAnyWindow(t, h) ==
    \A fc \in ToSet(t.fcs) : fc.end > fc.start /\ ContractBalanced(fc)

correctFileContracts(t, h) ==
    \A fc \in ToSet(t.fcs) : fc.start > h /\ fc.end > fc.start /\ ContractBalanced(fc)

correctFileContractRevisions(t, h) ==
    \A r \in ToSet(t.revs) :
        r.start > h /\ r.end > r.start /\ SumSeq(r.valid) = SumSeq(r.missed)

StandaloneValid(t, h) ==
    /\ followsStorageProofRules(t) /\ noRepeats(t) /\ followsMinimumValues(t)
    /\ correctFileContracts(t, h) /\ correctFileContractRevisions(t, h)

SiacoinOutputSum(t) ==
    SumSeq(t.scOut) + SumSeq(Field(t.fcs, LAMBDA fc : fc.payout)) + SumSeq(t.fees)

validSiacoins(d, t) ==
    /\ ToSet(t.scIn) \subseteq DOMAIN d.sco
    /\ SumSeq(Field(t.scIn, LAMBDA id : d.sco[id])) = SiacoinOutputSum(t)

\* The segment is drawn by the block before the window; an empty file needs none.
validStorageProofs(d, t) ==
    \A sp \in ToSet(t.proofs) :
        /\ sp.parent \in DOMAIN d.fc
        /\ LET fc == d.fc[sp.parent]
           IN  /\ fc.start - 1 <= blockHeight(d)
               /\ fc.size > 0 => sp.segment = SegmentOf[d.path[fc.start]]

\* Variant: any revision number is taken.
validFileContractRevisionsAnyNumber(d, t) ==
    \A r \in ToSet(t.revs) :
        /\ r.parent \in DOMAIN d.fc
        /\ LET fc == d.fc[r.parent]
           IN  /\ blockHeight(d) <= fc.start
               /\ SumSeq(r.valid) = SumSeq(fc.valid) /\ SumSeq(r.missed) = SumSeq(fc.valid)

validFileContractRevisions(d, t) ==
    \A r \in ToSet(t.revs) :
        /\ r.parent \in DOMAIN d.fc
        /\ LET fc == d.fc[r.parent]
           IN  /\ blockHeight(d) <= fc.start
               /\ fc.number < r.number
               /\ SumSeq(r.valid) = SumSeq(fc.valid) /\ SumSeq(r.missed) = SumSeq(fc.valid)

validSiafunds(d, t) ==
    /\ ToSet(t.sfIn) \subseteq DOMAIN d.sfo
    /\ SumSeq(Field(t.sfIn, LAMBDA id : d.sfo[id].value)) = SumSeq(t.sfOut)

validTransaction(d, t) ==
    /\ StandaloneValid(t, blockHeight(d))
    /\ validSiacoins(d, t) /\ validStorageProofs(d, t)
    /\ validFileContractRevisions(d, t) /\ validSiafunds(d, t)

-----------------------------------------------------------------------------
(* applytransaction.go.  w is the work on a block: the database, the diffs *)
(* recorded so far, the height of the block and whether it is still valid. *)

Record(w, kind, diff) ==
    [w EXCEPT !.db = commit(kind, @, diff, "apply"), !.diffs[kind] = Append(@, diff)]

RecordAll(w, kind, diffs) == FoldLeft(LAMBDA acc, diff : Record(acc, kind, diff), w, diffs)

Diff(dir, id, val) == [dir |-> dir, id |-> id, val |-> val]

\* Outputs that can be spent MaturityDelay blocks later.
Delayed(w, id, v) ==
    [dir |-> "apply", id |-> id, val |-> v, height |-> w.height + MaturityDelay]

applySiacoinInputs(w, t) ==
    RecordAll(w, "sc", Field(t.scIn, LAMBDA id : Diff("revert", id, w.db.sco[id])))

applySiacoinOutputs(w, t) ==
    RecordAll(w, "sc", [i \in DOMAIN t.scOut |-> Diff("apply", <<t.name, i>>, t.scOut[i])])

applyFileContracts(w, t) ==
    FoldLeftDomain(
        LAMBDA acc, i :
            LET pool == acc.db.pool
            IN  Record(Record(acc, "fc", Diff("apply", <<t.name, i>>, t.fcs[i])), "pool",
                       [dir |-> "apply", previous |-> pool,
                        adjusted |-> pool + Tax(t.fcs[i].payout)]),
        w, t.fcs)

\* A revision replaces everything but the payout.
Revised(fc, r) ==
    [payout |-> fc.payout, valid |-> r.valid, missed |-> r.missed, start |-> r.start,
     end |-> r.end, number |-> r.number, size |-> r.size]

applyFileContractRevisions(w, t) ==
    FoldLeft(LAMBDA acc, r :
                LET fc == acc.db.fc[r.parent]
                IN  RecordAll(acc, "fc", <<Diff("revert", r.parent, fc),
                                           Diff("apply", r.parent, Revised(fc, r))>>),
             w, t.revs)

applyMissedStorageProof(w, id) ==
    LET fc == w.db.fc[id]
    IN  [i \in DOMAIN fc.missed |-> Delayed(w, <<"missed">> \o id \o <<i>>, fc.missed[i])]

ValidProofOutputs(w, id) ==
    LET fc == w.db.fc[id]
    IN  [i \in DOMAIN fc.valid |-> Delayed(w, <<"valid">> \o id \o <<i>>, fc.valid[i])]

\* Variant: a proof also pays the outputs of a missed proof.
applyStorageProofsPayingBoth(w, t) ==
    FoldLeft(LAMBDA acc, sp :
                Record(RecordAll(acc, "dsco", ValidProofOutputs(acc, sp.parent)
                                              \o applyMissedStorageProof(acc, sp.parent)),
                       "fc", Diff("revert", sp.parent, acc.db.fc[sp.parent])),
             w, t.proofs)

applyStorageProofs(w, t) ==
    FoldLeft(LAMBDA acc, sp :
                Record(RecordAll(acc, "dsco", ValidProofOutputs(acc, sp.parent)),
                       "fc", Diff("revert", sp.parent, acc.db.fc[sp.parent])),
             w, t.proofs)

\* Variant: the claim is paid and the output stays.
applySiafundInputsKeeping(w, t) ==
    RecordAll(w, "dsco", Field(t.sfIn, LAMBDA id :
        Delayed(w, <<"claim">> \o id, siafundClaim(w.db, w.db.sfo[id]))))

applySiafundInputs(w, t) ==
    FoldLeft(LAMBDA acc, id :
                LET sfo == acc.db.sfo[id]
                IN  Record(Record(acc, "dsco", Delayed(acc, <<"claim">> \o id,
                                                       siafundClaim(acc.db, sfo))),
                           "sf", Diff("revert", id, sfo)),
             w, t.sfIn)

\* Variant: the taxes of the transaction, already in the pool, are added again.
applySiafundOutputsTaxAgain(w, t) ==
    LET taxes == SumSeq(Field(t.fcs, LAMBDA fc : Tax(fc.payout)))
    IN  RecordAll(w, "sf", [i \in DOMAIN t.sfOut |->
            Diff("apply", <<t.name, i>>, [value |-> t.sfOut[i], claimStart |-> w.db.pool + taxes])])

applySiafundOutputs(w, t) ==
    RecordAll(w, "sf", [i \in DOMAIN t.sfOut |->
        Diff("apply", <<t.name, i>>, [value |-> t.sfOut[i], claimStart |-> w.db.pool])])

applyTransaction(w, t) ==
    applySiafundOutputs(applySiafundInputs(applyStorageProofs(applyFileContractRevisions(
        applyFileContracts(applySiacoinOutputs(applySiacoinInputs(w, t), t), t), t), t), t), t)

\* Validate and apply one transaction after the other, up to an invalid one.
applyTransactions(w, txns) ==
    FoldLeft(LAMBDA acc, t :
                IF acc.valid /\ validTransaction(acc.db, t) THEN applyTransaction(acc, t)
                ELSE [acc EXCEPT !.valid = FALSE],
             w, txns)

-----------------------------------------------------------------------------
(* maintenance.go *)

\* The payout of a block is the coinbase and the fees of its transactions.
applyMinerPayouts(w, pb) ==
    LET fees == SumSeq(Field(pb.txns, LAMBDA t : SumSeq(t.fees)))
    IN  Record(w, "dsco", Delayed(w, <<"payout", pb.id>>, Coinbase + fees))

\* The delayed outputs of a height become outputs, and their bucket goes.
Mature(w, bucket, ids) ==
    [RecordAll(RecordAll(w, "sc", Field(ids, LAMBDA id : Diff("apply", id, bucket[id]))),
               "dsco", Field(ids, LAMBDA id :
                   [dir |-> "revert", id |-> id, val |-> bucket[id], height |-> w.height]))
        EXCEPT !.db = deleteDSCOBucket(@, w.height)]

\* Variant: the first outputs to mature are skipped.
applyMaturedSiacoinOutputsLate(w) ==
    IF w.height <= MaturityDelay THEN w
    ELSE Mature(w, w.db.dsco[w.height], SetToSeq(DOMAIN w.db.dsco[w.height]))

applyMaturedSiacoinOutputs(w) ==
    IF w.height < MaturityDelay THEN w
    ELSE Mature(w, w.db.dsco[w.height], SetToSeq(DOMAIN w.db.dsco[w.height]))

applyFileContractMaintenance(w) ==
    IF w.height \notin DOMAIN w.db.fcex THEN w
    ELSE LET ids == SetToSeq(w.db.fcex[w.height])
             paid == FlattenSeq(Field(ids, LAMBDA id : applyMissedStorageProof(w, id)))
             gone == Field(ids, LAMBDA id : Diff("revert", id, w.db.fc[id]))
         IN  [RecordAll(RecordAll(w, "dsco", paid), "fc", gone)
                 EXCEPT !.db.fcex = Del(@, w.height)]

applyMaintenance(w, pb) ==
    FoldLeft(LAMBDA acc, step :
                CASE step = "payouts" -> applyMinerPayouts(acc, pb)
                  [] step = "matured outputs" -> applyMaturedSiacoinOutputs(acc)
                  [] step = "expired contracts" -> applyFileContractMaintenance(acc),
             w, <<"payouts", "matured outputs", "expired contracts">>)

-----------------------------------------------------------------------------
(* diffs.go: generateAndApplyDiff *)

\* All elements of the consensus buckets; bucket names do not count.
consensusChecksum(d) ==
    [path |-> d.path, sco |-> d.sco, fc |-> d.fc, sfo |-> d.sfo, pool |-> d.pool,
     dsco |-> UNION {{<<h, id, d.dsco[h][id]>> : id \in DOMAIN d.dsco[h]} : h \in DOMAIN d.dsco},
     fcex |-> UNION {{<<h, id>> : id \in d.fcex[h]} : h \in DOMAIN d.fcex}]

\* The airdrop replaces the siafunds of the genesis block.
Airdrop(w) ==
    IF w.height # SpfAirdropHeight THEN w
    ELSE LET fund(id, v) == [value |-> v, claimStart |-> 0]
             removed == Field(SetToSeq(DOMAIN GenesisFunds),
                              LAMBDA id : Diff("revert", id, fund(id, 0)))
             added == Field(SetToSeq(DOMAIN ForkedFunds),
                            LAMBDA id : Diff("apply", id, fund(id, ForkedFunds[id])))
         IN  RecordAll(w, "sf", removed \o added)

\* A hardfork saves the pool and creates siafunds.
Hardfork(w) ==
    IF w.height \notin {SpfHardforkHeight, SpfSecondHardforkHeight} THEN w
    ELSE LET saved == [w EXCEPT !.db = setSiafundHardforkPool(@, @.pool, w.height)]
             funds == HardforkFunds[w.height]
         IN  RecordAll(saved, "sf", Field(SetToSeq(DOMAIN funds), LAMBDA id :
                 Diff("apply", id, [value |-> funds[id], claimStart |-> w.db.pool])))

\* The processed block that is stored, with its diffs, and the database.
Processed(pb, w) ==
    [db |-> w.db, valid |-> TRUE,
     pb |-> [pb EXCEPT !.generated = TRUE, !.diffs = w.diffs, !.checksum = consensusChecksum(w.db)]]

Maintained(pb, w) ==
    FoldLeft(LAMBDA acc, step :
                CASE step = "maintenance" -> applyMaintenance(acc, pb)
                  [] step = "airdrop" -> Airdrop(acc)
                  [] step = "hardfork" -> Hardfork(acc)
                  [] step = "path" -> [acc EXCEPT !.db = updateCurrentPath(@, pb, "apply")],
             w, <<"maintenance", "airdrop", "hardfork", "path">>)

\* valid says whether every transaction of the block was.
generateAndApplyDiff(d, pb) ==
    LET start == [db |-> createDSCOBucket(d, pb.height + MaturityDelay), height |-> pb.height,
                  diffs |-> [k \in Kinds |-> << >>], valid |-> TRUE]
        finish(w) == IF w.valid THEN Processed(pb, Maintained(pb, w))
                     ELSE [db |-> d, pb |-> pb, valid |-> FALSE]
    IN  finish(applyTransactions(start, pb.txns))

-----------------------------------------------------------------------------
(* fork.go, on the database and the block map at once *)

Chain(bm, b) ==
    LET up[x \in DOMAIN bm] == IF x = Genesis THEN <<x>> ELSE Append(up[bm[x].parent], x)
    IN  up[b]

backtrackToCurrentPath(d, bm, b) ==
    SelectSeq(Chain(bm, b), LAMBDA x : x \notin ToSet(d.path))

revertToBlock(d, bm, reverted) ==
    FoldLeft(LAMBDA acc, x :
                LET h == blockHeight(acc)
                    reset == IF h \in {SpfHardforkHeight, SpfSecondHardforkHeight}
                             THEN setSiafundHardforkPool(acc, 0, h) ELSE acc
                IN  commitDiffSet(reset, bm[x], "revert"),
             d, reverted)

applyUntilBlock(d, bm, applied) ==
    LET store(acc, r) == [db |-> r.db, bm |-> Put(acc.bm, r.pb.id, r.pb), valid |-> r.valid]
    IN  FoldLeft(LAMBDA acc, x :
                    IF ~acc.valid THEN acc
                    ELSE IF acc.bm[x].generated
                    THEN [acc EXCEPT !.db = commitDiffSet(@, acc.bm[x], "apply")]
                    ELSE store(acc, generateAndApplyDiff(acc.db, acc.bm[x])),
                 [db |-> d, bm |-> bm, valid |-> TRUE], applied)

forkBlockchain(d, bm, b) ==
    LET applied == backtrackToCurrentPath(d, bm, b)
        reverted == Reverse(SelectSeq(d.path, LAMBDA x : x \notin ToSet(Chain(bm, b))))
    IN  applyUntilBlock(revertToBlock(d, bm, reverted), bm, applied)
            @@ [reverted |-> reverted, applied |-> applied]

\* Variant: every transaction is validated against the database as it is.
tryTransactionSetAtOnce(d, txns) ==
    [db |-> d, valid |-> \A t \in ToSet(txns) : validTransaction(d, t)]

\* tryTransactionSet: the work on a block at the current height, rolled back.
tryTransactionSet(d, txns) ==
    applyTransactions([db |-> d, height |-> blockHeight(d), valid |-> TRUE,
                       diffs |-> [k \in Kinds |-> << >>]], txns)

-----------------------------------------------------------------------------
(* subscribe.go: the content of a consensus change *)

\* Variant: the diffs of a reverted block are flipped and keep their order.
computeConsensusChangeDiffsInOrder(pb, apply) ==
    IF apply THEN pb.diffs
    ELSE [k \in Kinds |-> Field(pb.diffs[k], LAMBDA x : [x EXCEPT !.dir = Flip(@)])]

computeConsensusChangeDiffs(pb, apply) ==
    IF apply THEN pb.diffs
    ELSE [k \in Kinds |-> Reverse(Field(pb.diffs[k], LAMBDA x : [x EXCEPT !.dir = Flip(@)]))]

computeConsensusChange(bm, reverted, applied) ==
    LET all == Field(reverted, LAMBDA b : computeConsensusChangeDiffs(bm[b], FALSE))
               \o Field(applied, LAMBDA b : computeConsensusChangeDiffs(bm[b], TRUE))
        top == Max({0} \cup {bm[b].height : b \in ToSet(reverted)})
    IN  [diffs |-> [k \in Kinds |-> FlattenSeq(Field(all, LAMBDA x : x[k]))],
         oldHeight |-> IF top = 0 THEN bm[Head(applied)].height - 1 ELSE top,
         newHeight |-> bm[Last(applied)].height]

\* A subscriber that keeps the sets by adding and removing what the diffs say.
Process(v, cc) ==
    LET key(k, x) == IF k = "dsco" THEN <<x.height, x.id>> ELSE x.id
        step(k, acc, x) == IF x.dir = "apply" THEN Put(acc, key(k, x), x.val)
                                              ELSE Del(acc, key(k, x))
        replay(k) == FoldLeft(LAMBDA acc, x : step(k, acc, x), v[k], cc.diffs[k])
    IN  [sc |-> replay("sc"), fc |-> replay("fc"), sf |-> replay("sf"),
         dsco |-> replay("dsco"),
         pool |-> FoldLeft(LAMBDA acc, x : IF x.dir = "apply" THEN x.adjusted ELSE x.previous,
                           v.pool, cc.diffs["pool"]),
         height |-> cc.newHeight]

-----------------------------------------------------------------------------
newBlock(parent, txns) ==
    [id |-> Cardinality(DOMAIN blocks), parent |-> parent, txns |-> txns,
     height |-> blocks[parent].height + 1, generated |-> FALSE,
     diffs |-> [k \in Kinds |-> << >>], checksum |-> << >>]

\* createConsensusDB: the database with the genesis block.
createConsensusDB ==
    [sco |-> GenesisCoins,
     sfo |-> [id \in DOMAIN GenesisFunds |-> [value |-> GenesisFunds[id], claimStart |-> 0]],
     fc |-> << >>, fcex |-> << >>, pool |-> 0, hfpool |-> << >>, path |-> <<Genesis>>,
     dsco |-> (MaturityDelay :> (<<"payout", Genesis>> :> Coinbase)), sane |-> TRUE]

Init ==
    /\ db = createConsensusDB
    /\ blocks = (Genesis :> [id |-> Genesis, parent |-> Genesis, txns |-> << >>, height |-> 0,
                             generated |-> TRUE, diffs |-> [k \in Kinds |-> << >>],
                             checksum |-> consensusChecksum(createConsensusDB)])
    /\ view = [sc |-> createConsensusDB.sco, sf |-> createConsensusDB.sfo, fc |-> << >>,
               dsco |-> << >>, pool |-> 0, height |-> 0]

\* A block that is not heavier than the current one waits in the block map.
AcceptSideBlock(parent, txns) ==
    LET pb == newBlock(parent, txns)
    IN  /\ pb.id <= MaxBlocks
        /\ pb.height <= blockHeight(db)
        /\ blocks' = Put(blocks, pb.id, pb)
        /\ UNCHANGED <<db, view>>

\* A heavier block becomes the current one, unless its branch has an invalid
\* block: then the bolt transaction is rolled back.
AcceptHeavierBlock(parent, txns) ==
    LET pb == newBlock(parent, txns)
    IN  /\ pb.id <= MaxBlocks
        /\ pb.height > blockHeight(db)
        /\ \E fork \in {forkBlockchain(db, Put(blocks, pb.id, pb), pb.id)} :
              /\ fork.valid
              /\ db' = fork.db
              /\ blocks' = fork.bm
              /\ view' = Process(view, computeConsensusChange(fork.bm, fork.reverted, fork.applied))

Next ==
    \E parent \in DOMAIN blocks, txns \in Bodies :
        AcceptSideBlock(parent, txns) \/ AcceptHeavierBlock(parent, txns)

Spec == Init /\ [][Next]_vars

-----------------------------------------------------------------------------
\* Type invariant: heights, values and ids are what the buckets are made of.
TypeOK ==
    /\ db.pool \in Nat
    /\ \A id \in DOMAIN db.sco : db.sco[id] \in Nat
    /\ \A id \in DOMAIN db.sfo : db.sfo[id].value \in Nat /\ db.sfo[id].claimStart \in 0..db.pool
    /\ \A id \in DOMAIN db.fc : SumSeq(db.fc[id].valid) = SumSeq(db.fc[id].missed)
    /\ ToSet(db.path) \subseteq DOMAIN blocks

Claims == MapThenSumSet(LAMBDA id : siafundClaim(db, db.sfo[id]), DOMAIN db.sfo)
DelayedCoins == MapThenSumSet(LAMBDA h : SumOver(db.dsco[h]), DOMAIN db.dsco)
ContractCoins == MapThenSumSet(LAMBDA id : SumSeq(db.fc[id].valid), DOMAIN db.fc)

(***************************************************************************)
(* checkSiacoinCount: outputs, delayed outputs, contracts and unclaimed    *)
(* taxes add up to the genesis coins and one coinbase per block, through   *)
(* every fork, revision, proof, expiration and claim.                      *)
(***************************************************************************)
SiacoinsConserved ==
    SumOver(db.sco) + DelayedCoins + ContractCoins + Claims
        = SumOver(GenesisCoins) + (blockHeight(db) + 1) * Coinbase

(***************************************************************************)
(* checkSiafundCount: the siafund outputs add up to the number of siafunds *)
(* that share the pool.                                                    *)
(***************************************************************************)
SiafundsConserved == MapThenSumSet(LAMBDA id : db.sfo[id].value, DOMAIN db.sfo) = SiafundCount

(***************************************************************************)
(* checkDSCOs: there is one bucket of delayed outputs for each of the next *)
(* MaturityDelay heights that can have one, each with at least a coinbase, *)
(* and no output is delayed twice.                                         *)
(***************************************************************************)
DelayedBuckets ==
    /\ DOMAIN db.dsco = {h \in blockHeight(db) + 1 .. blockHeight(db) + MaturityDelay :
                            h >= MaturityDelay}
    /\ \A h \in DOMAIN db.dsco : SumOver(db.dsco[h]) >= Coinbase
    /\ \A g, h \in DOMAIN db.dsco : g # h => DOMAIN db.dsco[g] \cap DOMAIN db.dsco[h] = {}

(***************************************************************************)
(* Every contract has its expiration, every expiration has its contract,   *)
(* and no contract is left behind by its window: what the TODO at the end  *)
(* of consistency.go asks for.                                             *)
(***************************************************************************)
ExpirationsMatch ==
    /\ \A id \in DOMAIN db.fc :
          /\ db.fc[id].end > blockHeight(db)
          /\ db.fc[id].end \in DOMAIN db.fcex /\ id \in db.fcex[db.fc[id].end]
    /\ \A h \in DOMAIN db.fcex : \A id \in db.fcex[h] :
          id \in DOMAIN db.fc /\ db.fc[id].end = h

(***************************************************************************)
(* checkRevertApply: the database is the one that was recorded when the    *)
(* current block was first applied, however it was reached, and reverting  *)
(* that block leads to the database recorded for its parent.               *)
(***************************************************************************)
HistoryIndependent ==
    LET pb == blocks[currentBlockID(db)]
    IN  /\ consensusChecksum(db) = pb.checksum
        /\ pb.id # Genesis =>
              consensusChecksum(revertToBlock(db, blocks, <<pb.id>>)) = blocks[pb.parent].checksum

(***************************************************************************)
(* No step runs into the panics of the debug build: no output is added     *)
(* twice or removed when absent, no bucket is created twice, and the pool  *)
(* is where each of its diffs expects it; nor does trying a set of         *)
(* transactions, which adds to the bucket of the current block.            *)
(***************************************************************************)
NoSanityPanic == db.sane /\ \A txns \in Bodies : tryTransactionSet(db, txns).db.sane

\* Delayed outputs created by the blocks of the current path, with repetition.
PathDelayed ==
    FlattenSeq(Field(Tail(db.path), LAMBDA b :
        SelectSeq(blocks[b].diffs["dsco"], LAMBDA x : x.dir = "apply")))

(***************************************************************************)
(* A contract is paid out once on a chain: by a proof or by its            *)
(* expiration, and never both, also when the proof is in the block at      *)
(* whose height the window ends.                                           *)
(***************************************************************************)
ContractPaidOnce ==
    LET delayed == SelectSeq(PathDelayed, LAMBDA d : d.id[1] \in {"valid", "missed"})
    IN  \A i, j \in DOMAIN delayed :
        LET x == delayed[i].id
            y == delayed[j].id
        IN  SubSeq(x, 2, 3) = SubSeq(y, 2, 3) =>
                x[1] = y[1] /\ (x[4] = y[4] => i = j)

(***************************************************************************)
(* A revision only ever replaces a contract of a lower revision number:    *)
(* along the current path the numbers of a contract grow.                  *)
(***************************************************************************)
RevisionsGrow ==
    \A b \in ToSet(db.path) :
        LET fcds == blocks[b].diffs["fc"]
        IN  \A i \in 1..Len(fcds) - 1 :
               fcds[i].dir = "revert" /\ fcds[i + 1] = Diff("apply", fcds[i].id, fcds[i + 1].val) =>
                   fcds[i].val.number < fcds[i + 1].val.number

(***************************************************************************)
(* "An error is returned IFF they are not a valid set": tryTransactionSet  *)
(* accepts a set exactly when a block with it could follow the current     *)
(* one.                                                                    *)
(***************************************************************************)
TryAgreesWithBlock ==
    \A txns \in Bodies :
        tryTransactionSet(db, txns).valid
            <=> generateAndApplyDiff(db, newBlock(currentBlockID(db), txns)).valid

(***************************************************************************)
(* A subscriber that replays the diffs of the consensus changes has the    *)
(* outputs, contracts and pool of the database, also after a fork.  The    *)
(* genesis payout is in no diff.                                           *)
(***************************************************************************)
SubscriberHasDatabase ==
    LET delayed == UNION {{<<h, id>> : id \in DOMAIN db.dsco[h]} : h \in DOMAIN db.dsco}
                   \ {<<MaturityDelay, <<"payout", Genesis>>>>}
    IN  /\ view.sc = db.sco /\ view.fc = db.fc /\ view.sf = db.sfo /\ view.pool = db.pool
        /\ view.dsco = [k \in delayed |-> db.dsco[k[1]][k[2]]]
        /\ view.height = blockHeight(db)

(***************************************************************************)
(* The checks of consistency.go hold after every block and every           *)
(* reorganisation: coins and siafunds are conserved, the delayed outputs   *)
(* and the expirations are where maintenance looks for them, and no diff   *)
(* is applied to a database that does not expect it.                       *)
(***************************************************************************)
Consistent ==
    /\ TypeOK /\ NoSanityPanic
    /\ DelayedBuckets /\ ExpirationsMatch
    /\ SiacoinsConserved /\ SiafundsConserved

(***************************************************************************)
(* The life of a contract on one chain: each revision has a higher number  *)
(* than the one it replaces, and one payout, by a proof or by expiration,  *)
(* ends it.                                                                *)
(***************************************************************************)
ContractsSettled == RevisionsGrow /\ ContractPaidOnce
=============================================================================
