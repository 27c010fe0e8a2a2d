--------------------------- MODULE TransactionPool ---------------------------
(***************************************************************************)
(* The pool of unconfirmed transactions: sets of dependent transactions,   *)
(* the objects they touch, the notices to subscribers, and the database of *)
(* confirmed transactions that follows the consensus changes.  Every entry *)
(* point holds the pool's lock from its first read to its last write, so   *)
(* each is one action.  A set's id is its hash, here the sequence itself;  *)
(* a block's id is the path from the first block to it; every transaction  *)
(* has size one.  The order in which Go ranges over a map is arbitrary:    *)
(* operators whose result depends on it return the set of results.         *)
(***************************************************************************)
EXTENDS Integers, Sequences, FiniteSets, SequencesExt, FiniteSetsExt

CONSTANTS
    TxnOf,          \* transaction -> what it spends, creates, revises and pays
    Coins,          \* outputs that exist from the first block on
    Sets,           \* transaction sets users and peers submit
    BlockTxns,      \* the transactions of a block
    Subscriber,     \* subscribers of the pool
    FeeAt(_),       \* requiredFeesToExtendTpoolAtSize
    SizeForFee,     \* TransactionPoolSizeForFee
    SetSizeLimit,   \* TransactionSetSizeLimit
    BlockLimit,     \* BlockSizeLimit
    MaxAge,         \* MaxTransactionAge
    FeeDepth,       \* blockFeeEstimationDepth
    Branches,       \* reorganisations: blocks reverted and blocks applied (bound)
    Budgets         \* how many changes, submissions and faults happen (bound)

Txn == DOMAIN TxnOf

ASSUME PoolAssumption ==
    /\ SizeForFee \in Nat /\ SetSizeLimit \in Nat \ {0} /\ BlockLimit \in Nat \ {0}
    /\ MaxAge \in Nat \ {0} /\ FeeDepth \in Nat \ {0}
    /\ \A t \in Txn : DOMAIN TxnOf[t] = {"ins", "outs", "forms", "revises", "number", "fee"}

VARIABLES
    tp,         \* the pool's memory
    db,         \* the open database transaction (tp.dbTx)
    disk,       \* the last committed database
    path,       \* the consensus set's current path
    log,        \* its consensus changes
    epoch,      \* how often it has started over with a new database
    feed,       \* how the pool follows it: "catchup", "subscribed" or "down"
    view,       \* subscriber -> the sets it has been told of
    sent,       \* what the last step accepted and relayed
    hist,       \* history: the height at which a transaction entered the pool,
                \* and whether the pool was purged without a notice
    left        \* how many changes, submissions and faults remain (bound)

vars == <<tp, db, disk, path, log, epoch, feed, view, sent, hist, left>>

-----------------------------------------------------------------------------
\* Transactions and the ledger they are valid on.

Outputs(t) == TxnOf[t].outs \cup TxnOf[t].forms
Inputs(t) == TxnOf[t].ins \cup TxnOf[t].revises
relatedObjectIDs(ts) == UNION {Inputs(t) \cup Outputs(t) : t \in ToSet(ts)}
FeesOf(ts) == MapThenSumSet(LAMBDA i : TxnOf[ts[i]].fee, DOMAIN ts)
With(f, S, v) == [x \in DOMAIN f \cup S |-> IF x \in S THEN v ELSE f[x]]
Without(f, S) == [x \in DOMAIN f \ S |-> f[x]]
Except(ts, S) == SelectSeq(ts, LAMBDA t : t \notin S)

Genesis == << <<>> >>

\* Of the consensus set: a transaction is valid after the transactions of
\* before, the mined ones and those tried in front of it.
validTransaction(before, t) ==
    /\ TxnOf[t].ins \subseteq (Coins \cup UNION {TxnOf[u].outs : u \in before}) \ UNION {TxnOf[u].ins : u \in before}
    /\ TxnOf[t].revises \subseteq UNION {TxnOf[u].forms : u \in before}
    /\ \A u \in before : TxnOf[u].revises \cap TxnOf[t].revises # {} => TxnOf[u].number < TxnOf[t].number

tryTransactionSet(L, ts) ==
    \A i \in DOMAIN ts : validTransaction(L \cup {ts[j] : j \in 1 .. i - 1}, ts[i])

Mined(p) == UNION {ToSet(p[i]) : i \in DOMAIN p}

-----------------------------------------------------------------------------
\* Accepting a transaction set into the pool m, on the ledger L.

Refused(m) == [tp |-> m, superset |-> <<>>]

requiredFeesToExtendTpool(m) == IF m.size < SizeForFee THEN 0 ELSE FeeAt(m.size)
EnoughFees(m, ts) == requiredFeesToExtendTpool(m) * Len(ts) <= FeesOf(ts)
checkTransactionSetComposition(m, ts) == ts \notin m.sets /\ Len(ts) <= SetSizeLimit
Conflicts(m, ts) == {m.objects[o] : o \in relatedObjectIDs(ts) \cap DOMAIN m.objects}
SizeOf(sets) == MapThenSumSet(Len, sets)


AddSetOldObjects(m, ts, replaced) ==
    [m EXCEPT
       !.sets = (@ \ replaced) \cup {ts},
       !.diffs = With(Without(@, replaced), {ts}, relatedObjectIDs(ts)),
       !.objects = With(@, relatedObjectIDs(ts) \ DOMAIN @, ts),
       !.size = @ - SizeOf(replaced) + Len(ts),
       !.heights = With(@, ToSet(ts) \ DOMAIN @, m.height)]

\* What both ways of accepting a set do to the maps.
AddSet(m, ts, replaced) ==
    [m EXCEPT
       !.sets = (@ \ replaced) \cup {ts},
       !.diffs = With(Without(@, replaced), {ts}, relatedObjectIDs(ts)),
       !.objects = With(@, relatedObjectIDs(ts), ts),
       !.size = @ - SizeOf(replaced) + Len(ts),
       !.heights = With(@, ToSet(ts) \ DOMAIN @, m.height)]

RECURSIVE handleConflictsUntried(_, _, _, _)
handleConflictsUntried(m, ts, conflicts, L) ==
    LET dedup == Except(ts, UNION {ToSet(c) : c \in conflicts})
        Add(superset) ==
            IF checkTransactionSetComposition(m, superset) /\ EnoughFees(m, superset)
            THEN [tp |-> AddSet(m, superset, conflicts), superset |-> superset]
            ELSE Refused(m)
    IN  IF dedup = <<>> THEN {Refused(m)}
        ELSE IF Len(dedup) < Len(ts) THEN handleConflictsUntried(m, dedup, Conflicts(m, dedup), L)
        ELSE {Add(FlattenSeq(order) \o dedup) : order \in SetToSeqs(conflicts)}

RECURSIVE handleConflicts(_, _, _, _)
handleConflicts(m, ts, conflicts, L) ==
    LET dedup == Except(ts, UNION {ToSet(c) : c \in conflicts})
        Add(superset) ==
            IF /\ checkTransactionSetComposition(m, superset)
               /\ EnoughFees(m, superset)
               /\ tryTransactionSet(L, superset)
            THEN [tp |-> AddSet(m, superset, conflicts), superset |-> superset]
            ELSE Refused(m)
    IN  IF dedup = <<>> THEN {Refused(m)}
        ELSE IF Len(dedup) < Len(ts) THEN handleConflicts(m, dedup, Conflicts(m, dedup), L)
        ELSE {Add(FlattenSeq(order) \o dedup) : order \in SetToSeqs(conflicts)}
acceptTransactionSet(m, confirmed, submitted, L) ==
    LET ts == Except(submitted, confirmed)
    IN  IF ts = <<>> \/ ~checkTransactionSetComposition(m, ts) \/ ~EnoughFees(m, ts)
        THEN {Refused(m)}
        ELSE IF Conflicts(m, ts) # {} THEN handleConflicts(m, ts, Conflicts(m, ts), L)
        ELSE IF ~tryTransactionSet(L, ts) THEN {Refused(m)}
        ELSE {[tp |-> AddSet(m, ts, {}), superset |-> ts]}

\* The set that is relayed for an accepted one: its unconfirmed parents, found
\* generation by generation and put before it in the opposite order.
RECURSIVE RequiredParents(_, _, _, _, _)
RequiredParents(inputs, visited, parents, required, related) ==
    LET created == [o \in UNION {Outputs(t) : t \in ToSet(related)} |->
                       CHOOSE t \in ToSet(related) : o \in Outputs(t)]
        found == {o \in (inputs \ visited) \cap DOMAIN created : created[o] \notin ToSet(required)}
        next == UNION {Inputs(created[o]) : o \in found}
    IN  IF inputs = {} THEN {parents}
        ELSE UNION {RequiredParents(next, visited \cup inputs,
                                    parents \o [i \in DOMAIN order |-> created[order[i]]],
                                    required, related) : order \in SetToSeqs(found)}
FirstGeneration(required, related) ==
    {SetToSeq({t \in ToSet(related) : \E u \in ToSet(required) : Outputs(t) \cap Inputs(u) # {}}) \o required}

MinimumTransactionSet(required, related) ==
    {Reverse(parents) \o required :
        parents \in RequiredParents(UNION {Inputs(t) : t \in ToSet(required)}, {}, <<>>, required, related)}

-----------------------------------------------------------------------------
\* The fee medians of the recent blocks.

RECURSIVE Forward(_, _)
Forward(forwards, i) == IF i \in DOMAIN forwards THEN Forward(forwards, forwards[i]) ELSE i


FindSetsByInputs(ts, acc, i) ==
    LET t == ts[i]
        parents == {Forward(acc.forwards, acc.txMap[acc.objMap[o]]) : o \in TxnOf[t].ins \cap DOMAIN acc.objMap}
        base == IF parents = {} THEN i ELSE CHOOSE p \in parents : TRUE
        rest == parents \ {base}
        merged == FlattenSeq([j \in 1 .. Cardinality(parents) |->
                                 acc.setMap[(<<base>> \o SetToSeq(rest))[j]]])
    IN  [txMap |-> With(acc.txMap, {t}, base),
         setMap |-> With(Without(acc.setMap, rest), {base}, Append(merged, t)),
         objMap |-> With(acc.objMap, Outputs(t) \cup TxnOf[t].revises, t),
         forwards |-> With(acc.forwards, rest, base)]

\* One iteration of findSets.  Which parent set is the base is arbitrary and
\* does not change which transactions end up together.
FindSetsStep(ts, acc, i) ==
    LET t == ts[i]
        parents == {Forward(acc.forwards, acc.txMap[acc.objMap[o]]) : o \in Inputs(t) \cap DOMAIN acc.objMap}
        base == IF parents = {} THEN i ELSE CHOOSE p \in parents : TRUE
        rest == parents \ {base}
        merged == FlattenSeq([j \in 1 .. Cardinality(parents) |->
                                 acc.setMap[(<<base>> \o SetToSeq(rest))[j]]])
    IN  [txMap |-> With(acc.txMap, {t}, base),
         setMap |-> With(Without(acc.setMap, rest), {base}, Append(merged, t)),
         objMap |-> With(acc.objMap, Outputs(t) \cup TxnOf[t].revises, t),
         forwards |-> With(acc.forwards, rest, base)]

findSets(ts) ==
    LET none == [x \in {} |-> x]
        Step(acc, i) == FindSetsStep(ts, acc, i)
        final == FoldLeftDomain(Step, [txMap |-> none, setMap |-> none, objMap |-> none, forwards |-> none], ts)
    IN  final.setMap

\* The fee at the cheapest quarter of a block made of these sets, unused
\* space counting as a transaction without fees.
QuarterFee(setMap) ==
    LET free == BlockLimit - MapThenSumSet(LAMBDA i : Len(setMap[i]), DOMAIN setMap)
        Fee(i) == FeesOf(setMap[i]) \div Len(setMap[i])
        UpTo(fee) == free + MapThenSumSet(LAMBDA i : IF Fee(i) <= fee THEN Len(setMap[i]) ELSE 0, DOMAIN setMap)
    IN  Min({fee \in {0} \cup {Fee(i) : i \in DOMAIN setMap} : UpTo(fee) > BlockLimit \div 4})

MedianOf(medians) == SortSeq(medians, <)[Len(medians) \div 2 + 1]
LastN(s, n) == SubSeq(s, IF Len(s) > n THEN Len(s) - n + 1 ELSE 1, Len(s))

-----------------------------------------------------------------------------
\* Following the consensus changes.

Purged(m) ==
    [m EXCEPT !.sets = {}, !.diffs = [x \in {} |-> x], !.objects = [x \in {} |-> x],
              !.heights = [x \in {} |-> x], !.size = 0]

Word == 65536      \* the width of a height, shortened
Age(height, seen) == (height - seen) % Word
IsOld(m, ts, heights) ==
    \A t \in ToSet(ts) : t \in DOMAIN heights /\ Age(m.height, heights[t]) >= MaxAge

\* A state s of the loops of ProcessConsensusChange: memory, database, the
\* most recent block and whether every block so far fitted the one before.
RevertBlock(s, block) ==
    [s EXCEPT !.ok = @ /\ (s.unchecked \/ block = s.recent),
              !.recent = Front(block),
              !.tp.height = IF @ > 0 \/ block # Genesis THEN @ - 1 ELSE @,
              !.tp.medians = IF @ = <<>> THEN @ ELSE Front(@),
              !.db.confirmed = @ \ ToSet(Last(block))]

ApplyBlock(s, block) ==
    [s EXCEPT !.ok = @ /\ (s.unchecked \/ Front(block) = s.recent),
              !.recent = block,
              !.tp.height = IF @ > 0 \/ block # Genesis THEN @ + 1 ELSE @,
              !.tp.medians = LastN(Append(@, QuarterFee(findSets(Last(block)))), FeeDepth),
              !.db.confirmed = @ \cup ToSet(Last(block))]

FollowBlocks(m, d, cc) ==
    LET start == [tp |-> m, db |-> d, recent |-> d.recentBlock, ok |-> TRUE, unchecked |-> d.recentBlock = <<>>]
    IN  FoldLeft(ApplyBlock, FoldLeft(RevertBlock, start, cc.reverted), cc.applied)

TxnsOf(blocks) == UNION {ToSet(Last(blocks[i])) : i \in DOMAIN blocks}

\* Try every transaction of ts by itself, on every pool of pools; a transaction
\* in the domain of old gets the height that old gives it.
ReAdd(pools, confirmed, ts, L, old) ==
    LET Restored(pool, t) ==
            IF t \in DOMAIN old THEN [pool EXCEPT !.heights = With(@, {t}, old[t])] ELSE pool
        Try(ms, t) == UNION {{Restored(r.tp, t) : r \in acceptTransactionSet(m, confirmed, <<t>>, L)} : m \in ms}
    IN  FoldLeft(Try, pools, ts)

\* The heights that the pool m has for the transactions ts, 0 where it has none.
OldHeights(m, ts) == [t \in ToSet(ts) |-> IF t \in DOMAIN m.heights THEN m.heights[t] ELSE 0]

\* The transactions of the sets of the pool m that are neither mined nor too old.
Unconfirmed(m, order, mined) ==
    FlattenSeq([i \in DOMAIN order |-> LET ts == Except(order[i], mined)
                                       IN  IF IsOld(m, ts, m.heights) THEN <<>> ELSE ts])

RefillNewHeights(m, confirmed, cc, L) ==
    LET mined == TxnsOf(cc.applied)
        reverted == FlattenSeq([i \in DOMAIN cc.reverted |-> Except(Last(Reverse(cc.reverted)[i]), mined)])
        first == ReAdd({Purged(m)}, confirmed, reverted, L, <<>>)
    IN  UNION {ReAdd(first, confirmed, Except(FlattenSeq(order), mined), L, <<>>) : order \in SetToSeqs(m.sets)}

RefillNewestFirst(m, confirmed, cc, L) ==
    LET mined == TxnsOf(cc.applied)
        reverted == FlattenSeq([i \in DOMAIN cc.reverted |-> Except(Last(cc.reverted[i]), mined)])
        first == ReAdd({Purged(m)}, confirmed, reverted, L, <<>>)
    IN  UNION {LET ts == Unconfirmed(m, order, mined)
               IN  ReAdd(first, confirmed, ts, L, OldHeights(m, ts)) : order \in SetToSeqs(m.sets)}

\* The pools that can result from purging m and filling it again.
Refill(m, confirmed, cc, L) ==
    LET mined == TxnsOf(cc.applied)
        reverted == FlattenSeq([i \in DOMAIN cc.reverted |-> Except(Last(Reverse(cc.reverted)[i]), mined)])
        first == ReAdd({Purged(m)}, confirmed, reverted, L, <<>>)
    IN  UNION {LET ts == Unconfirmed(m, order, mined)
               IN  ReAdd(first, confirmed, ts, L, OldHeights(m, ts)) : order \in SetToSeqs(m.sets)}

NotifiedAdditions(v, m) == v \cup (m.sets \ m.told)

\* updateSubscribersTransactions: what a subscriber with view v knows next.
Notified(v, m) == (v \ (m.told \ m.sets)) \cup (m.sets \ m.told)
Told(m) == [m EXCEPT !.told = m.sets]

PoolTxns(m) == UNION {ToSet(ts) : ts \in m.sets}
Born(m) == [t \in PoolTxns(m) |-> IF t \in PoolTxns(tp) THEN hist.born[t] ELSE m.height]

\* ProcessConsensusChange of the change number n, which may be the one that
\* the same step appends to the log.
ProcessConsensusChange(n, cc, L) ==
    \E s \in {FollowBlocks(tp, db, cc)} :
    \E m \in {[s.tp EXCEPT !.medianFee = MedianOf(s.tp.medians)]} :
       \/ /\ ~s.ok
          /\ feed' = "panic"
          /\ UNCHANGED <<tp, db, view, hist>>
       \/ /\ s.ok
          /\ db' = [s.db EXCEPT !.recentCC = [epoch |-> epoch, n |-> n], !.recentBlock = s.recent,
                                !.height = m.height, !.medians = m.medians, !.medianFee = m.medianFee]
          /\ \E filled \in Refill(m, s.db.confirmed, cc, L) :
                /\ tp' = Told(filled)
                /\ view' = [v \in DOMAIN view |-> Notified(view[v], filled)]
                /\ hist' = [hist EXCEPT !.born = Born(filled), !.silent = FALSE]
          /\ UNCHANGED feed

NothingSent == [required |-> <<>>, pool |-> <<>>, relayed |-> <<>>]
Running == feed \in {"catchup", "subscribed"}

\* The consensus set extends its path or reorganises it, and tells the pool.
ConsensusChange(revert, blocks) ==
    LET kept == SubSeq(path, 1, Len(path) - revert)
        new == kept \o blocks
        cc == [reverted |-> [i \in 1 .. revert |-> SubSeq(path, 1, Len(path) - i + 1)],
               applied |-> [i \in DOMAIN blocks |-> SubSeq(new, 1, Len(kept) + i)]]
    IN  /\ Running
        /\ Len(path) > revert
        /\ tryTransactionSet(Mined(kept), FlattenSeq(blocks))
        /\ left.changes > 0
        /\ left' = [left EXCEPT !.changes = @ - 1]
        /\ path' = new
        /\ log' = Append(log, cc)
        /\ IF feed = "subscribed"
           THEN ProcessConsensusChange(Len(log) + 1, cc, Mined(new))
           ELSE UNCHANGED <<tp, db, feed, view, hist>>
        /\ sent' = NothingSent
        /\ UNCHANGED <<disk, epoch>>

\* ConsensusSetSubscribe: replay the changes after the recorded one, then join.
CatchUp ==
    /\ feed = "catchup"
    /\ db.recentCC.n = 0 \/ db.recentCC.epoch = epoch
    /\ db.recentCC.n < Len(log)
    /\ ProcessConsensusChange(db.recentCC.n + 1, log[db.recentCC.n + 1], Mined(path))
    /\ sent' = NothingSent
    /\ UNCHANGED <<disk, path, log, epoch, left>>

Join ==
    /\ feed = "catchup"
    /\ db.recentCC = [epoch |-> epoch, n |-> Len(log)]
    /\ feed' = "subscribed"
    /\ sent' = NothingSent
    /\ UNCHANGED <<tp, db, disk, path, log, epoch, view, hist, left>>


ResetMemoryKept ==
    /\ feed = "catchup"
    /\ db.recentCC.n > 0 /\ db.recentCC.epoch # epoch
    /\ db' = [db EXCEPT !.confirmed = {}, !.recentBlock = <<>>, !.recentCC.n = 0, !.height = 0]
    /\ sent' = NothingSent
    /\ UNCHANGED <<tp, disk, path, log, epoch, feed, view, hist, left>>

ResetBlockKept ==
    /\ feed = "catchup"
    /\ db.recentCC.n > 0 /\ db.recentCC.epoch # epoch
    /\ db' = [db EXCEPT !.confirmed = {}, !.recentCC.n = 0, !.height = 0]
    /\ tp' = [tp EXCEPT !.height = 0]
    /\ sent' = NothingSent
    /\ UNCHANGED <<disk, path, log, epoch, feed, view, hist, left>>

\* The consensus set does not know the recorded change: resetDB.
Reset ==
    /\ feed = "catchup"
    /\ db.recentCC.n > 0 /\ db.recentCC.epoch # epoch
    /\ db' = [db EXCEPT !.confirmed = {}, !.recentBlock = <<>>, !.recentCC.n = 0, !.height = 0]
    /\ tp' = [tp EXCEPT !.height = 0]
    /\ sent' = NothingSent
    /\ UNCHANGED <<disk, path, log, epoch, feed, view, hist, left>>

\* submitTransactionSet.  A refused set changes nothing.
Submit(ts) ==
    /\ Running
    /\ left.submits > 0
    /\ \E r \in acceptTransactionSet(tp, db.confirmed, ts, Mined(path)) :
          /\ r.superset # <<>>
          /\ tp' = Told(r.tp)
          /\ view' = [v \in DOMAIN view |-> Notified(view[v], r.tp)]
          /\ hist' = [hist EXCEPT !.born = Born(r.tp), !.silent = FALSE]
          /\ \E relayed \in MinimumTransactionSet(ts, r.superset) :
                sent' = [required |-> ts, pool |-> r.superset, relayed |-> relayed]
    /\ left' = [left EXCEPT !.submits = @ - 1]
    /\ UNCHANGED <<db, disk, path, log, epoch, feed>>

\* threadedRegularSync, and the commit of a clean shutdown.  It is left out
\* when no restart can follow that would read the disk.
SyncDB ==
    /\ Running
    /\ left.faults > 0
    /\ disk' = db
    /\ sent' = NothingSent
    /\ UNCHANGED <<tp, db, path, log, epoch, feed, view, hist, left>>

\* The process stops and starts again, initPersist included.  The consensus
\* set may come back with a new database and so with other change ids.
Load(d) ==
    [sets |-> {}, diffs |-> [x \in {} |-> x], objects |-> [x \in {} |-> x], heights |-> [x \in {} |-> x],
     size |-> 0, told |-> {}, height |-> d.height, medians |-> d.medians, medianFee |-> d.medianFee]

FreshLog == [i \in DOMAIN path |-> [reverted |-> <<>>, applied |-> <<SubSeq(path, 1, i)>>]]

Restart ==
    /\ left.faults > 0
    /\ db' = disk
    /\ tp' = Load(disk)
    /\ feed' = "catchup"
    /\ view' = [v \in {} |-> {}]
    /\ hist' = [born |-> [t \in {} |-> 0], silent |-> FALSE]
    /\ left' = [left EXCEPT !.faults = @ - 1]
    /\ \/ UNCHANGED <<log, epoch>>
       \/ log' = FreshLog /\ epoch' = epoch + 1
    /\ sent' = NothingSent
    /\ UNCHANGED <<disk, path>>

PurgeTransactionPool ==
    /\ Running
    /\ left.faults > 0
    /\ tp.sets # {}
    /\ tp' = Purged(tp)
    /\ hist' = [born |-> [t \in {} |-> 0], silent |-> TRUE]
    /\ left' = [left EXCEPT !.faults = @ - 1]
    /\ sent' = NothingSent
    /\ UNCHANGED <<db, disk, path, log, epoch, feed, view>>

TransactionPoolSubscribe(v) ==
    /\ Running
    /\ v \notin DOMAIN view
    /\ view' = With(view, {v}, tp.told)
    /\ sent' = NothingSent
    /\ UNCHANGED <<tp, db, disk, path, log, epoch, feed, hist, left>>

Unsubscribe(v) ==
    /\ v \in DOMAIN view
    /\ view' = Without(view, {v})
    /\ sent' = NothingSent
    /\ UNCHANGED <<tp, db, disk, path, log, epoch, feed, hist, left>>

\* The database of a pool that has processed the first block.
FirstDB ==
    [confirmed |-> {}, recentBlock |-> Genesis, recentCC |-> [epoch |-> 1, n |-> 1], height |-> 0,
     medians |-> <<0>>, medianFee |-> 0]

Init ==
    /\ path = Genesis
    /\ log = FreshLog
    /\ epoch = 1
    /\ db = FirstDB
    /\ disk = FirstDB
    /\ tp = Load(FirstDB)
    /\ feed = "subscribed"
    /\ view = [v \in {} |-> {}]
    /\ sent = NothingSent
    /\ hist = [born |-> [t \in {} |-> 0], silent |-> FALSE]
    /\ left \in Budgets

Next ==
    \/ \E b \in BlockTxns : ConsensusChange(0, <<b>>)
    \/ \E branch \in Branches : ConsensusChange(branch.revert, branch.blocks)
    \/ CatchUp
    \/ Join
    \/ Reset
    \/ \E ts \in Sets : Submit(ts)
    \/ SyncDB
    \/ Restart
    \/ PurgeTransactionPool
    \/ \E v \in Subscriber : TransactionPoolSubscribe(v) \/ Unsubscribe(v)

Spec == Init /\ [][Next]_vars

-----------------------------------------------------------------------------
\* Properties.

\* The variables have their types: heights do not wrap below zero, and the
\* pool never meets a change that does not fit the block it recorded.
TypeOK ==
    /\ tp.sets \subseteq Seq(Txn) /\ tp.told \subseteq Seq(Txn)
    /\ DOMAIN tp.heights \subseteq Txn
    /\ tp.size \in Nat /\ tp.height \in Nat /\ db.height = tp.height
    /\ db.confirmed \subseteq Txn /\ disk.confirmed \subseteq Txn
    /\ feed \in {"catchup", "subscribed", "panic"}
    /\ DOMAIN view \subseteq Subscriber

\* However restarts, resets and reorganisations follow each other, every block
\* of every change fits the block the pool recorded before it: neither panic
\* of ProcessConsensusChange is ever reached.
NoPanic == feed # "panic"

\* A pool that is up to date can be put into the next block as it is, its sets
\* in any order: TransactionList gives "an order that can acceptably be put
\* into a block".
UpToDate == db.recentCC = [epoch |-> epoch, n |-> Len(log)]
PoolValid ==
    UpToDate => \A order \in SetToSeqs(tp.sets) : tryTransactionSet(Mined(path), FlattenSeq(order))

\* The index that finds conflicts is exact: it names the objects of the sets
\* in the pool, all of them and no others, and the set that has each; so no
\* object is in two sets, and every set has its diff for the subscribers.
ObjectsIndexed ==
    /\ DOMAIN tp.diffs = tp.sets
    /\ DOMAIN tp.objects = UNION {relatedObjectIDs(ts) : ts \in tp.sets}
    /\ \A o \in DOMAIN tp.objects : {ts \in tp.sets : o \in relatedObjectIDs(ts)} = {tp.objects[o]}

\* The size that sets the price of entry is the size of what is in the pool,
\* and the height at which each transaction was first seen is on record and
\* never later than the height at which it came into the pool, so that no
\* transaction outlives MaxTransactionAge by being added again and again.
Bookkept ==
    /\ tp.size = SizeOf(tp.sets)
    /\ \A t \in PoolTxns(tp) : t \in DOMAIN tp.heights /\ tp.heights[t] <= hist.born[t]

\* Every subscriber, whenever it joined, has been told of exactly the sets in
\* the pool, unless PurgeTransactionPool emptied it since the last notice.
SubscribersSee ==
    ~hist.silent => /\ tp.told = tp.sets
                    /\ \A v \in DOMAIN view : view[v] = tp.sets

\* The database follows the path it recorded through crashes and resets: the
\* confirmed transactions, the height and the newest medians are those of the
\* blocks up to the recorded one, the sets within a block being its connected
\* parts (findSets).  A transaction without objects can be mined twice and is
\* left out.
Linked(ts, i, j) == i < j /\ (Outputs(ts[i]) \cup TxnOf[ts[i]].revises) \cap Inputs(ts[j]) # {}
RECURSIVE Reach(_, _)
Reach(ts, S) ==
    LET more == S \cup {j \in DOMAIN ts : \E i \in S : Linked(ts, i, j) \/ Linked(ts, j, i)}
    IN  IF more = S THEN S ELSE Reach(ts, more)
Parts(ts) == {Reach(ts, {i}) : i \in DOMAIN ts}
PartMap(ts) == [part \in Parts(ts) |-> [i \in 1 .. Cardinality(part) |-> ts[SetToSortSeq(part, <)[i]]]]
FollowsChain ==
    LET block == db.recentBlock
        mined == {t \in Mined(block) : Inputs(t) # {}}
        known == Min({Len(tp.medians), Len(block)})
    IN  /\ {t \in db.confirmed : Inputs(t) # {}} = mined
        /\ Len(block) > 0 => tp.height = Len(block) - 1
        /\ \A i \in 0 .. known - 1 :
              tp.medians[Len(tp.medians) - i] = QuarterFee(PartMap(block[Len(block) - i]))

\* When a change is processed, a transaction that was in the pool or in a
\* reverted block is confirmed, is in the pool again, was too old, cannot
\* follow the rest of the pool in a block, or does not pay for its place.
Processed ==
    /\ left'.faults = left.faults /\ epoch' = epoch
    /\ db'.recentCC.n = db.recentCC.n + 1
Expired(t) ==
    \E ts \in tp.sets :
       /\ t \in ToSet(ts)
       /\ \A u \in ToSet(ts) \ db'.confirmed : Age(tp'.height, tp.heights[u]) >= MaxAge
Invalid(m, L, t) ==
    LET all == FlattenSeq(SetToSeq(m.sets)) IN ~tryTransactionSet(L, Append(all, t))
Unaffordable(m, t) ==
    LET joined == Append(FlattenSeq(SetToSeq(Conflicts(m, <<t>>))), t)
    IN  ~EnoughFees(m, <<t>>) \/ ~EnoughFees(m, joined) \/ Len(joined) > SetSizeLimit
NothingLost ==
    [][Processed =>
         LET cc == log'[db'.recentCC.n]
             gone == (PoolTxns(tp) \cup TxnsOf(cc.reverted)) \ (db'.confirmed \cup PoolTxns(tp'))
         IN  {t \in gone : ~(Expired(t) \/ Invalid(tp', Mined(path'), t) \/ Unaffordable(tp', t))} = {}]_vars

\* What is relayed for an accepted set is that set and every transaction of
\* the pool it needs, and no other (MinimumTransactionSet).
RECURSIVE Ancestors(_, _)
Ancestors(S, related) ==
    LET more == S \cup {t \in ToSet(related) : \E u \in S : Outputs(t) \cap Inputs(u) # {}}
    IN  IF more = S THEN S ELSE Ancestors(more, related)
RelaysAncestors == ToSet(sent.relayed) = Ancestors(ToSet(sent.required), sent.pool)

\* The pool can be mined as it is, and the maps behind it (transactionSets,
\* knownObjects, transactionSetDiffs, transactionHeights, transactionListSize)
\* describe exactly what is in it, whichever sets were merged, replaced, purged
\* and added back.
PoolSound == TypeOK /\ PoolValid /\ ObjectsIndexed /\ Bookkept

\* The pool follows the consensus set through reorganisations, crashes and
\* resets: no change ever meets a recorded block it does not fit, and the
\* database is that of the blocks up to the recorded one.
FollowsConsensus == NoPanic /\ FollowsChain

\* What others hear of the pool is what it holds: subscribers of its sets, peers
\* of an accepted set with all it needs.
OthersTold == SubscribersSee /\ RelaysAncestors
=============================================================================
