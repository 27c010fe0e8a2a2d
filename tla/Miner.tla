------------------------------- MODULE Miner -------------------------------
(***************************************************************************)
(* The block the miner works on: the transaction sets of the pool that fit *)
(* into it, the ones that wait, the headers handed out to external miners, *)
(* and what the settings file brings back after a restart.  Every entry    *)
(* point holds the miner's lock, so each is one action; a solved block is  *)
(* submitted outside the lock, in a step of its own, and the consensus set *)
(* tells the miner and the pool of a change in either order before it goes *)
(* on.  A pool set's id is the set itself, a block's id the path from the  *)
(* first block to it, a header the contents it commits to.                 *)
(***************************************************************************)
EXTENDS Integers, Sequences, FiniteSets, SequencesExt, TLC

CONSTANTS
    TxnOf,          \* transaction -> its size, fee and the transaction it spends
    PoolSets,       \* the sets the pool may hold
    Branches,       \* changes of the path: blocks reverted, transactions of each new one
    BlockSizeLimit, Reserve,        \* types.BlockSizeLimit and the 5e3 kept free
    HeaderMemory, BlockMemory,
    Budgets         \* changes, pool updates, headers, submissions and faults left (bound)

ASSUME MinerAssumption ==
    /\ BlockSizeLimit \in Nat /\ Reserve \in 0 .. BlockSizeLimit
    /\ BlockMemory \in Nat \ {0} /\ HeaderMemory \in Nat \ {0} /\ HeaderMemory % BlockMemory = 0
    /\ \A t \in DOMAIN TxnOf : TxnOf[t].size \in Nat \ {0} /\ TxnOf[t].fee \in Nat

VARIABLES
    tmpl,       \* the unsolved block's transactions and the maps and heaps behind them
    ring,       \* the headers that can still be submitted and the source block
    base,       \* the other persisted fields: parent, height, recent change, blocks found
    disk,       \* the settings file
    phase,      \* "down", "scan" (inside New) or "up"
    log,        \* the consensus changes so far
    pool,       \* the pool: its sets, those its subscribers know, the changes it has seen
    work,       \* the solved block on its way to the consensus set
    hist,       \* history: why the process panicked, what it loaded, recent headers
    left        \* the remaining budget (bound)

vars == <<tmpl, ring, base, disk, phase, log, pool, work, hist, left>>

Txn == DOMAIN TxnOf
Room == BlockSizeLimit - Reserve
Without(f, x) == [y \in DOMAIN f \ {x} |-> f[y]]

-----------------------------------------------------------------------------
\* splitsetheap.go.  An element is a set with its id; pos is its index.

Sum(f(_), ts) == FoldLeft(LAMBDA n, t : n + f(t), 0, ts)
SizeOf(e) == Sum(LAMBDA t : TxnOf[t].size, e.txns)
averageFee(e) == Sum(LAMBDA t : TxnOf[t].fee, e.txns) \div SizeOf(e)

EmptyHeap(min) == [data |-> <<>>, pos |-> <<>>, size |-> 0, minHeap |-> min]

less(h, i, j) ==
    IF h.minHeap THEN averageFee(h.data[i]) < averageFee(h.data[j])
                 ELSE averageFee(h.data[i]) > averageFee(h.data[j])

swap(h, i, j) ==
    [h EXCEPT !.data = [@ EXCEPT ![i] = h.data[j], ![j] = h.data[i]],
              !.pos = [@ EXCEPT ![h.data[i].id] = j, ![h.data[j].id] = i]]

RECURSIVE up(_, _)
up(h, j) ==
    LET i == j \div 2
    IN  IF j = 1 \/ ~less(h, j, i) THEN h ELSE up(swap(h, i, j), i)

RECURSIVE down(_, _, _)
down(h, i, n) ==
    LET j1 == 2 * i
        j == IF j1 + 1 <= n /\ ~less(h, j1, j1 + 1) THEN j1 + 1 ELSE j1
    IN  IF j1 > n \/ ~less(h, j, i) THEN h ELSE down(swap(h, i, j), j, n)

push(h, e) ==
    LET n == Len(h.data) + 1
    IN  up([h EXCEPT !.data = Append(@, e), !.pos = (e.id :> n) @@ @, !.size = @ + SizeOf(e)], n)

Shrink(h) ==
    [h EXCEPT !.data = Front(@), !.pos = Without(@, Last(h.data).id), !.size = @ - SizeOf(Last(h.data))]

pop(h) ==
    LET n == Len(h.data)
    IN  Shrink(down(swap(h, 1, n), 1, n - 1))

removeUnsifted(h, i) == Shrink(swap(h, i, Len(h.data)))

remove(h, i) ==
    LET n == Len(h.data)
    IN  Shrink(IF i = n THEN h ELSE up(down(swap(h, i, n), i, n - 1), i))

-----------------------------------------------------------------------------
\* update.go: the unsolved block.

FreshTemplate(block) ==
    [block |-> block, index |-> <<>>, bheap |-> EmptyHeap(TRUE), oheap |-> EmptyHeap(FALSE),
     sets |-> <<>>, setOf |-> <<>>, full |-> <<>>, counter |-> 0, panic |-> "none"]

Panic(m, why) == [m EXCEPT !.panic = IF @ = "none" THEN why ELSE @]

pushToBlockLastIndex(m, e) ==
    [m EXCEPT !.bheap = push(@, e),
              !.block = @ \o e.txns,
              !.index = [t \in ToSet(e.txns) |-> Len(m.block \o e.txns)] @@ @]

pushToBlock(m, e) ==
    [m EXCEPT !.bheap = push(@, e),
              !.block = @ \o e.txns,
              !.index = [t \in ToSet(e.txns) |-> Len(m.block) + CHOOSE i \in DOMAIN e.txns : e.txns[i] = t] @@ @]

pushToOverflow(m, e) == [m EXCEPT !.oheap = push(@, e)]

\* One transaction leaves; the last one takes its place.  A missing index reads
\* as the first position.
removeTxFromUnsolvedBlock(r, t) ==
    LET m == r.m
        n == Len(m.block)
        i == IF t \in DOMAIN m.index THEN m.index[t] ELSE 1
        rest == Without(m.index, t)
    IN  IF i = n THEN [m |-> [m EXCEPT !.block = Front(@), !.index = rest], swapped |-> r.swapped \cup {t}]
        ELSE IF i > n THEN [r EXCEPT !.m = Panic(m, "block index")]
        ELSE [m |-> [m EXCEPT !.block = Front([@ EXCEPT ![i] = Last(m.block)]), !.index = (Last(m.block) :> i) @@ rest],
              swapped |-> r.swapped \cup {Last(m.block)}]

fixNothing(m, id) == m

fixSplitSetOrdering(m, id) ==
    IF id \notin DOMAIN m.sets THEN Panic(m, "no split set")
    ELSE LET txns == m.sets[id]
             At(t) == IF t \in DOMAIN m.index THEN m.index[t] ELSE 1
             places == SortSeq([i \in DOMAIN txns |-> At(txns[i])], <)
             Place(k, i) == IF At(txns[i]) = places[i] THEN k
                            ELSE [k EXCEPT !.block[places[i]] = txns[i], !.index = (txns[i] :> places[i]) @@ @]
         IN  IF Len(txns) < 2 THEN m ELSE FoldLeft(Place, m, [i \in DOMAIN txns |-> i])

removeSplitSetFromUnsolvedBlock(m, id) ==
    IF id \notin DOMAIN m.sets THEN Panic(m, "no split set")
    ELSE LET r == FoldLeft(removeTxFromUnsolvedBlock, [m |-> m, swapped |-> {}], m.sets[id])
             SetOf(t) == IF t \in DOMAIN m.setOf THEN m.setOf[t] ELSE 0
         IN  FoldLeft(fixSplitSetOrdering, r.m, SetToSeq({SetOf(t) : t \in r.swapped} \ {id}))

popFromBlock(m) == removeSplitSetFromUnsolvedBlock([m EXCEPT !.bheap = pop(@)], m.bheap.data[1].id)

\* The loop of addMapElementTxns: the sets taken out so far and their size.  The
\* average of an earlier round is lost, and sizes are unsigned.
RECURSIVE Evict(_, _, _, _)
Evict(m, e, bottom, size) ==
    LET need == m.bheap.size - size + SizeOf(e)
        next == m.bheap.data[1]
        out == Append(bottom, next)
        total == size + SizeOf(next)
    IN  IF need \in 0 .. Room - 1 THEN FoldLeft(pushToOverflow, pushToBlock(m, e), bottom)
        ELSE IF m.bheap.data = <<>> THEN FoldLeft(pushToBlock, pushToOverflow(m, e), bottom)
        ELSE IF (averageFee(next) * SizeOf(next)) \div total > averageFee(e)
             THEN FoldLeft(pushToBlock, pushToOverflow(popFromBlock(m), e), out)
             ELSE Evict(popFromBlock(m), e, out, total)

addMapElementTxns(m, e) ==
    IF m.bheap.size + SizeOf(e) < Room THEN pushToBlock(m, e) ELSE Evict(m, e, <<>>, 0)

\* The condition looks at the set that was on top when the loop began.
RECURSIVE Promote(_, _)
Promote(m, first) ==
    IF m.bheap.size + SizeOf(first) >= Room THEN m
    ELSE IF m.oheap.data = <<>> THEN Panic(m, "promotion")
    ELSE Promote(pushToBlock([m EXCEPT !.oheap = pop(@)], m.oheap.data[1]), first)

deleteMapElementTxns(m, id) ==
    IF id \in DOMAIN m.oheap.pos THEN [m EXCEPT !.oheap = remove(@, @.pos[id])]
    ELSE IF id \notin DOMAIN m.bheap.pos THEN m
    ELSE LET k == removeSplitSetFromUnsolvedBlock([m EXCEPT !.bheap = remove(@, @.pos[id])], id)
         IN  IF k.oheap.data = <<>> THEN k ELSE Promote(k, k.oheap.data[1])

DeleteRevertSplitFirst(m, set) ==
    IF set \notin DOMAIN m.full THEN m
    ELSE [deleteMapElementTxns([m EXCEPT !.sets = Without(@, m.full[set])], m.full[set]) EXCEPT !.full = Without(@, set)]

\* One reverted set of deleteReverts.
DeleteRevert(m, set) ==
    IF set \notin DOMAIN m.full THEN m
    ELSE LET k == deleteMapElementTxns(m, m.full[set])
         IN  [k EXCEPT !.sets = Without(@, m.full[set]), !.full = Without(@, set)]

\* getNewSplitSets numbers all the new sets before addNewTxns places the first.
getNewSplitSets(m, sets) ==
    [m EXCEPT !.counter = @ + Len(sets),
              !.full = [s \in ToSet(sets) |-> m.counter + CHOOSE i \in DOMAIN sets : sets[i] = s] @@ @]

AddNew(m, set) ==
    LET e == [id |-> m.full[set], txns |-> set]
    IN  addMapElementTxns([m EXCEPT !.sets = (e.id :> set) @@ @,
                                    !.setOf = [t \in ToSet(set) |-> e.id] @@ @], e)

ReceiveUpdatedUnconfirmedTransactions(m, reverted, applied) ==
    FoldLeft(AddNew, getNewSplitSets(FoldLeft(DeleteRevert, m, reverted), applied), applied)

-----------------------------------------------------------------------------
\* blockmanager.go: source blocks and the ring of headers.

Group == HeaderMemory \div BlockMemory
FreshRing ==
    [headers |-> [i \in 0 .. HeaderMemory - 1 |-> <<>>], blockMem |-> <<>>, arbDataMem |-> <<>>,
     progress |-> 0, source |-> <<>>, fresh |-> TRUE, arb |-> 1]

Forget(r, hs) ==
    [r EXCEPT !.blockMem = [h \in DOMAIN @ \ hs |-> @[h]], !.arbDataMem = [h \in DOMAIN @ \ hs |-> @[h]]]

\* The contents of blockForWork: the copy of the unsolved block.
blockForWork(m, b) == [parent |-> b.parent, txns |-> m.block]

newSourceBlockNextGroup(r, block) ==
    LET start == (r.progress \div Group + 1) * Group
    IN  [Forget(r, {r.headers[i] : i \in r.progress .. start - 1})
           EXCEPT !.progress = start % HeaderMemory, !.source = [arb |-> r.arb] @@ block, !.fresh = TRUE]

newSourceBlockInPlace(r, block) == [r EXCEPT !.source = [arb |-> r.arb] @@ block, !.fresh = TRUE]

\* The headers in the rest of the current group are forgotten.
newSourceBlock(r, block) ==
    LET start == ((r.progress + Group - 1) \div Group) * Group
    IN  [Forget(r, {r.headers[i] : i \in r.progress .. start - 1})
           EXCEPT !.progress = start % HeaderMemory, !.source = [arb |-> r.arb] @@ block, !.fresh = TRUE]

\* The next header of the source block, in the place of the one HeaderMemory ago.
Header(r) == [parent |-> r.source.parent, txns |-> r.source.txns, arb |-> r.arb]

GiveHeaderNoWrap(r) ==
    [Forget(r, {r.headers[r.progress]})
       EXCEPT !.blockMem = (Header(r) :> r.source) @@ @, !.arbDataMem = (Header(r) :> r.arb) @@ @,
              !.headers[r.progress] = Header(r), !.progress = @ + 1, !.fresh = FALSE, !.arb = @ + 1]

GiveHeader(r) ==
    LET h == Header(r)
    IN  [Forget(r, {r.headers[r.progress]})
           EXCEPT !.blockMem = (h :> r.source) @@ @, !.arbDataMem = (h :> r.arb) @@ @,
                  !.headers[r.progress] = h, !.progress = (@ + 1) % HeaderMemory,
                  !.fresh = FALSE, !.arb = @ + 1]

\* What SubmitHeader rebuilds from a header.
Rebuilt(r, h) == [parent |-> r.blockMem[h].parent, txns |-> r.blockMem[h].txns, arb |-> r.arbDataMem[h]]

-----------------------------------------------------------------------------
\* The consensus set and the pool, as far as the miner sees them.

Genesis == << [txns |-> <<>>, arb |-> 0] >>
Path == Last(log).path
Mined(p) == UNION {ToSet(p[i].txns) : i \in DOMAIN p}
Size(ts) == Sum(LAMBDA t : TxnOf[t].size, ts)

\* The transactions can be mined in this order on top of the path.
Applies(p, ts) ==
    /\ IsInjective(ts) /\ ToSet(ts) \cap Mined(p) = {}
    /\ \A i \in DOMAIN ts : TxnOf[ts[i]].spends \subseteq Mined(p) \cup {ts[j] : j \in 1 .. i - 1}

\* The pool holds sets that share nothing and that can each be mined.
Families(p) ==
    {F \in SUBSET {s \in PoolSets : Applies(p, s)} : \A s, u \in F : s # u => ToSet(s) \cap ToSet(u) = {}}
Held(F) == UNION {ToSet(s) : s \in F}

Change(p, reverted, applied) == [path |-> p, reverted |-> reverted, applied |-> applied]
Delivered == base.recent = Len(log) /\ pool.seen = Len(log)

\* The height after change i; the first block does not count at height 0.
HeightAfter(h, i) ==
    LET back == h - log[i].reverted
    IN  back + log[i].applied - (IF i = 1 /\ back = 0 THEN 1 ELSE 0)

Persist(m, b) == [block |-> m.block] @@ b
Spend(k) == left[k] > 0 /\ left' = [left EXCEPT ![k] = @ - 1]
Down(why) ==
    /\ phase' = "down" /\ tmpl' = FreshTemplate(<<>>) /\ ring' = FreshRing /\ work' = <<>>
    /\ base' = [parent |-> <<>>, height |-> 0, recent |-> 0, found |-> {}]
    /\ pool' = [sets |-> {}, told |-> {}, seen |-> Len(log)]
    /\ hist' = [panic |-> why, loaded |-> <<>>, given |-> <<>>]

\* The miner gets the diff and goes on, or panics, which ends the process.
Tell(F, seen, reverted, applied) ==
    \E m \in {ReceiveUpdatedUnconfirmedTransactions(tmpl, reverted, applied)} :
       IF m.panic # "none" THEN Down(m.panic)
       ELSE /\ tmpl' = m
            /\ pool' = [sets |-> F, told |-> F, seen |-> seen]
            /\ UNCHANGED <<ring, base, phase, work, hist>>

PoolUpdate(F, seen) ==
    IF phase = "up"
    THEN \E reverted \in SetToSeqs(pool.told \ F), applied \in SetToSeqs(F \ pool.told) :
            Tell(F, seen, reverted, applied)
    ELSE pool' = [sets |-> F, told |-> F, seen |-> seen] /\ UNCHANGED <<tmpl, ring, base, phase, work, hist>>

-----------------------------------------------------------------------------
Init ==
    /\ log = << Change(Genesis, 0, 1) >>
    /\ disk = [block |-> <<>>, parent |-> <<>>, height |-> 0, recent |-> 0, found |-> {}]
    /\ tmpl = FreshTemplate(<<>>) /\ ring = FreshRing /\ work = <<>>
    /\ base = [parent |-> <<>>, height |-> 0, recent |-> 0, found |-> {}]
    /\ phase = "scan"
    /\ pool = [sets |-> {}, told |-> {}, seen |-> 1]
    /\ hist = [panic |-> "none", loaded |-> <<>>, given |-> <<>>]
    /\ left \in Budgets

\* Other miners extend or replace the path.
NewPath ==
    /\ phase = "up" /\ Delivered /\ Spend("changes")
    /\ \E br \in Branches :
         LET keep == Len(Path) - br.revert
             new == [i \in DOMAIN br.blocks |-> [txns |-> br.blocks[i], arb |-> 0]]
         IN  /\ keep >= 1
             /\ \A i \in DOMAIN new : Applies(SubSeq(Path, 1, keep) \o SubSeq(new, 1, i - 1), new[i].txns)
             /\ log' = Append(log, Change(SubSeq(Path, 1, keep) \o new, br.revert, Len(new)))
    /\ UNCHANGED <<tmpl, ring, base, disk, phase, pool, work, hist>>

ProcessConsensusChange ==
    /\ phase # "down" /\ base.recent < Len(log)
    /\ \E synced \in BOOLEAN, i \in {base.recent + 1} :
         \E b \in {[base EXCEPT !.height = HeightAfter(@, i), !.parent = log[i].path, !.recent = i]} :
            /\ base' = b
            /\ ring' = IF synced THEN newSourceBlock(ring, blockForWork(tmpl, b)) ELSE ring
    /\ UNCHANGED <<tmpl, disk, phase, log, pool, work, hist, left>>

\* The pool follows the change: it keeps or takes back what still can be mined.
PoolFollows ==
    /\ phase # "down" /\ pool.seen < Len(log)
    /\ \E F \in Families(Path) :
         /\ Held(F) \subseteq Held(pool.sets) \cup Mined(log[Len(log) - 1].path)
         /\ PoolUpdate(F, Len(log))
    /\ UNCHANGED <<disk, log, left>>

\* A set enters the pool, alone or merged with those it belongs to.
PoolAccepts ==
    /\ phase # "down" /\ pool.seen = Len(log) /\ (phase = "up" => Delivered) /\ Spend("submits")
    /\ \E F \in Families(Path) :
         /\ Cardinality(F \ pool.sets) = 1 /\ Held(pool.sets) \subseteq Held(F)
         /\ PoolUpdate(F, pool.seen)
    /\ UNCHANGED <<disk, log>>

HeaderForWork ==
    /\ phase = "up" /\ Spend("headers")
    /\ \E expired \in BOOLEAN :
         \E r \in {IF expired \/ ring.progress % Group = 0 THEN newSourceBlock(ring, blockForWork(tmpl, base)) ELSE ring} :
            /\ ring' = GiveHeader(r)
            /\ hist' = [hist EXCEPT !.given =
                 LET old == IF r.fresh THEN @ ELSE Front(@)
                     now == IF r.fresh THEN {} ELSE Last(@)
                     all == Append(old, now \cup {Header(r)})
                 IN  SubSeq(all, IF Len(all) > BlockMemory THEN 2 ELSE 1, Len(all))]
    /\ UNCHANGED <<tmpl, base, disk, phase, log, pool, work>>

\* A solved header comes back; one that is forgotten is refused and nothing happens.
SubmitHeader ==
    /\ phase = "up" /\ work = <<>> /\ Spend("solved")
    /\ \E h \in DOMAIN ring.blockMem \cap DOMAIN ring.arbDataMem : work' = [stage |-> "solved", block |-> Rebuilt(ring, h)]
    /\ UNCHANGED <<tmpl, ring, base, disk, phase, log, pool, hist>>

\* The CPU miner solves the block it took under the lock.
threadedMine ==
    /\ phase = "up" /\ work = <<>> /\ Spend("solved")
    /\ work' = [stage |-> "solved", block |-> [arb |-> ring.arb] @@ blockForWork(tmpl, base)]
    /\ ring' = [ring EXCEPT !.arb = @ + 1]
    /\ UNCHANGED <<tmpl, base, disk, phase, log, pool, hist>>

Solved == [txns |-> work.block.txns, arb |-> work.block.arb]
SolvedPath == Append(work.block.parent, Solved)
Known(p) == \E i \in DOMAIN log : IsPrefix(p, log[i].path)
FitsTheRules == Applies(work.block.parent, work.block.txns) /\ Size(work.block.txns) <= BlockSizeLimit

\* The consensus set's verdict on the solved block.
AcceptBlock ==
    /\ work # <<>> /\ work.stage = "solved" /\ Delivered
    /\ ~Known(SolvedPath) /\ work.block.parent = Path /\ FitsTheRules
    /\ log' = Append(log, Change(SolvedPath, 0, 1))
    /\ work' = [work EXCEPT !.stage = "accepted"]
    /\ UNCHANGED <<tmpl, ring, base, disk, phase, pool, hist, left>>

StaleBlock ==
    /\ work # <<>> /\ work.stage = "solved" /\ Delivered
    /\ ~Known(SolvedPath) /\ work.block.parent # Path
    /\ base' = [base EXCEPT !.found = @ \cup {SolvedPath}] /\ work' = <<>>
    /\ UNCHANGED <<tmpl, ring, disk, phase, log, pool, hist, left>>

\* Any other refusal empties the pool, and its subscribers hear nothing.
InvalidBlock ==
    /\ work # <<>> /\ work.stage = "solved" /\ Delivered
    /\ Known(SolvedPath) \/ (work.block.parent = Path /\ ~FitsTheRules)
    /\ pool' = [pool EXCEPT !.sets = {}] /\ work' = <<>>
    /\ UNCHANGED <<tmpl, ring, base, disk, phase, log, hist, left>>

\* The rest of managedSubmitBlock; without a new address nothing is saved.
BlockFound ==
    /\ work # <<>> /\ work.stage = "accepted" /\ Delivered
    /\ base' = [base EXCEPT !.found = @ \cup {SolvedPath}] /\ work' = <<>>
    /\ \E address \in BOOLEAN : disk' = IF address THEN Persist(tmpl, base') ELSE disk
    /\ UNCHANGED <<tmpl, ring, phase, log, pool, hist, left>>

\* Stop saves, a crash does not.
Stop ==
    /\ phase # "down" /\ Spend("faults")
    /\ \E save \in BOOLEAN : disk' = IF save THEN Persist(tmpl, base) ELSE disk
    /\ Down("none")
    /\ UNCHANGED log

\* New loads the settings file and subscribes from the recent change.
New ==
    /\ phase = "down" /\ phase' = "scan"
    /\ tmpl' = FreshTemplate(disk.block)
    /\ base' = [f \in DOMAIN base |-> disk[f]]
    /\ hist' = [hist EXCEPT !.loaded = disk.block]
    /\ UNCHANGED <<ring, disk, log, pool, work, left>>

startupRescanOldHeight ==
    /\ phase = "down" /\ phase' = "scan" /\ Spend("faults")
    /\ log' = [i \in DOMAIN Path |-> Change(SubSeq(Path, 1, i), 0, 1)]
    /\ pool' = [pool EXCEPT !.seen = Len(Path)]
    /\ tmpl' = FreshTemplate(disk.block)
    /\ base' = [parent |-> disk.parent, height |-> disk.height, recent |-> 0, found |-> disk.found]
    /\ disk' = [disk EXCEPT !.recent = 0]
    /\ hist' = [hist EXCEPT !.loaded = disk.block]
    /\ UNCHANGED <<ring, work>>

\* The consensus set does not know the recent change: its database is a new one.
startupRescan ==
    /\ phase = "down" /\ phase' = "scan" /\ Spend("faults")
    /\ log' = [i \in DOMAIN Path |-> Change(SubSeq(Path, 1, i), 0, 1)]
    /\ pool' = [pool EXCEPT !.seen = Len(Path)]
    /\ tmpl' = FreshTemplate(disk.block)
    /\ base' = [parent |-> disk.parent, height |-> 0, recent |-> 0, found |-> disk.found]
    /\ disk' = [disk EXCEPT !.height = 0, !.recent = 0]
    /\ hist' = [hist EXCEPT !.loaded = disk.block]
    /\ UNCHANGED <<ring, work>>

\* The rest of New: the pool's sets arrive and the settings are saved.
Subscribed ==
    /\ phase = "scan" /\ Delivered /\ phase' = "up"
    /\ \E applied \in SetToSeqs(pool.told) : tmpl' = ReceiveUpdatedUnconfirmedTransactions(tmpl, <<>>, applied)
    /\ disk' = Persist(tmpl', base)
    /\ UNCHANGED <<ring, base, log, pool, work, hist, left>>

Next ==
    \/ NewPath \/ ProcessConsensusChange \/ PoolFollows \/ PoolAccepts
    \/ HeaderForWork \/ SubmitHeader \/ threadedMine
    \/ AcceptBlock \/ StaleBlock \/ InvalidBlock \/ BlockFound
    \/ Stop \/ New \/ startupRescan \/ Subscribed

Spec == Init /\ [][Next]_vars

-----------------------------------------------------------------------------
\* Properties.

\* The state has the shape the code gives it.
TypeOK ==
    /\ phase \in {"down", "scan", "up"}
    /\ ToSet(tmpl.block) \subseteq Txn /\ DOMAIN tmpl.index \subseteq Txn
    /\ DOMAIN tmpl.full \subseteq PoolSets /\ DOMAIN tmpl.sets \subseteq 1 .. tmpl.counter
    /\ ring.progress \in 0 .. HeaderMemory - 1 /\ DOMAIN ring.blockMem = DOMAIN ring.arbDataMem
    /\ base.recent \in 0 .. Len(log) /\ base.height \in Nat
    /\ pool.told \subseteq PoolSets /\ pool.sets \subseteq pool.told

\* The only panic of a pool update is the known one of the promotion loop, which
\* pops an empty overflow heap: the lookups of split sets and the positions in
\* the block that the removals use always exist.
OnlyPromotionPanics == hist.panic \in {"none", "promotion"}

HeapOrdered(h) ==
    /\ \A i \in DOMAIN h.data : i > 1 => ~less(h, i, i \div 2)
    /\ h.pos = [id \in {h.data[i].id : i \in DOMAIN h.data} |-> CHOOSE i \in DOMAIN h.data : h.data[i].id = id]
    /\ h.size = FoldLeft(LAMBDA n, e : n + SizeOf(e), 0, h.data)

\* Every set the pool has told the miner of is in exactly one of the two heaps
\* (addMapElementTxns, deleteMapElementTxns), each heap keeps its order, its
\* index and its size through every push, pop and remove, and the splits and
\* full sets agree with the heaps.
SetsPlaced ==
    /\ HeapOrdered(tmpl.bheap) /\ HeapOrdered(tmpl.oheap)
    /\ DOMAIN tmpl.bheap.pos \cap DOMAIN tmpl.oheap.pos = {}
    /\ DOMAIN tmpl.sets = DOMAIN tmpl.bheap.pos \cup DOMAIN tmpl.oheap.pos
    /\ phase = "up" => DOMAIN tmpl.full = pool.told
    /\ tmpl.sets = [id \in {tmpl.full[s] : s \in DOMAIN tmpl.full} |-> CHOOSE s \in DOMAIN tmpl.full : tmpl.full[s] = id]

\* The unsolved block holds what it was loaded with, in front, and then exactly
\* the transactions of the sets in the block heap, each at its index: the swaps
\* of removeTxFromUnsolvedBlock lose and double nothing.
BlockHoldsHeap ==
    LET n == Len(hist.loaded)
        chosen == UNION {ToSet(tmpl.sets[id]) : id \in DOMAIN tmpl.bheap.pos}
    IN  /\ SubSeq(tmpl.block, 1, n) = hist.loaded
        /\ DOMAIN tmpl.index = chosen
        /\ {tmpl.index[t] : t \in chosen} = n + 1 .. Len(tmpl.block)
        /\ \A t \in chosen : tmpl.block[tmpl.index[t]] = t

\* Once the miner and the pool have seen the same path, a block that was not
\* loaded from disk can be mined on its parent as it stands: parents before
\* children in spite of the swaps (fixSplitSetOrdering), nothing twice and
\* nothing that is confirmed.
TemplateApplies ==
    phase = "up" /\ Delivered /\ hist.loaded = <<>> =>
       base.parent = Path /\ Applies(base.parent, tmpl.block)

\* The headers of the last BlockMemory source blocks that gave any can still be
\* submitted, and SubmitHeader rebuilds from each the very block it commits to:
\* newSourceBlock forgets only older ones.
HeadersRemembered ==
    \A k \in DOMAIN hist.given : \A h \in hist.given[k] :
       h \in DOMAIN ring.blockMem \cap DOMAIN ring.arbDataMem /\ Rebuilt(ring, h) = h

\* At most BlockMemory source blocks and the one whose group is being replaced
\* are kept alive by the headers, however early each source block is given up.
MemoryBounded == Cardinality({ring.blockMem[h] : h \in DOMAIN ring.blockMem}) <= BlockMemory + 1

\* The miner's height is that of its parent block, through reorganisations,
\* restarts from an older settings file and rescans.
HeightFollows ==
    base.recent > 0 => base.parent = log[base.recent].path /\ base.height = Len(base.parent) - 1

\* The heaps, the maps and the unsolved block describe the same choice of sets
\* after every pool update, with merges, evictions, promotions and removals, and
\* the removals find what they look for.
TemplateSound == TypeOK /\ OnlyPromotionPanics /\ SetsPlaced /\ BlockHoldsHeap

\* The template is for the block the miner says it is on, and can be mined there.
TemplateMinable == HeightFollows /\ TemplateApplies

\* The ring keeps the headers it owes to external miners, and no more blocks than
\* it may.
HeadersKept == HeadersRemembered /\ MemoryBounded
=============================================================================
