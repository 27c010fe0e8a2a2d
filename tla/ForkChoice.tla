----------------------------- MODULE ForkChoice -----------------------------
(***************************************************************************)
(* The block tree of the consensus set: managedAcceptBlocks with the tree, *)
(* fork and changelog operations it calls.  cs.mu serialises the calls and *)
(* one bolt transaction holds all the blocks of a call, so the loops are   *)
(* micro-steps that nothing but a crash can interrupt.                     *)
(* The consensus rules themselves are the constant Valid; module Ledger    *)
(* models them.                                                            *)
(***************************************************************************)
EXTENDS Integers, Sequences, FiniteSets

CONSTANTS
    Block,        \* block ids
    Genesis,      \* the genesis block, types.GenesisBlock
    Parent,       \* Block.ParentID
    Height,       \* processedBlock.Height
    Difficulty,   \* the difficulty of processedBlock.ChildTarget
    Depth,        \* the difficulty of processedBlock.Depth
    HeaderOK,     \* blocks that ValidateBlock accepts, but for near future timestamps
    Early,        \* blocks with a timestamp beyond the future threshold when first seen
    Valid,        \* blocks that generateAndApplyDiff accepts on top of their parent
    FullyValid,   \* blocks that are valid together with all their ancestors
    Batches       \* the argument lists of managedAcceptBlocks

ASSUME TreeAssumption ==
    /\ Genesis \in Block
    /\ Parent \in [Block \ {Genesis} -> Block]
    /\ Height \in [Block -> Nat]
    /\ Height[Genesis] = 0
    /\ \A b \in Block \ {Genesis} : Height[b] = Height[Parent[b]] + 1

ASSUME WorkAssumption ==
    /\ Difficulty \in [Block -> Nat \ {0}]
    /\ Depth \in [Block -> Nat]
    /\ \A b \in Block \ {Genesis} : Depth[b] = Depth[Parent[b]] + Difficulty[Parent[b]]

ASSUME RulesAssumption ==
    /\ HeaderOK \subseteq Block
    /\ Early \subseteq Block
    /\ Valid \subseteq Block
    /\ FullyValid \subseteq Block
    /\ Genesis \in FullyValid
    /\ \A b \in Block \ {Genesis} :
          b \in FullyValid <=> b \in Valid /\ Parent[b] \in FullyValid

ASSUME BatchAssumption == Batches \subseteq Seq(Block)

Entry == [reverted : Seq(Block), applied : Seq(Block)]

GenesisEntry == [reverted |-> << >>, applied |-> <<Genesis>>]

\* The empty id that ends the linked list of the changelog.
NoEntry == [reverted |-> << >>, applied |-> << >>]

VARIABLES
    blockMap,     \* keys of the BlockMap bucket
    generated,    \* blocks stored with DiffsGenerated set
    path,         \* the BlockPath bucket: path[h + 1] is the block at height h
    nextEntry,    \* the ChangeLog bucket: entry |-> entry after it
    tail,         \* ChangeLogTailID
    dosBlocks,    \* cs.dosBlocks, in memory only
    future,       \* blocks a threadedSleepOnFutureBlock goroutine waits for
    arrived,      \* blocks whose timestamp the clock has reached
    mu,           \* what the holder of cs.mu does
    disk,         \* the database as the last committed bolt transaction left it
    blocks,       \* blocks of the running call not looked at yet
    branch,       \* backtrackToCurrentPath: from the common parent to the new block
    reverted,     \* blocks reverted for the block being added
    applied       \* blocks applied for the block being added

db == <<blockMap, generated, path, nextEntry, tail>>
clock == <<future, arrived>>
fork == <<branch, reverted, applied>>
vars == <<db, disk, dosBlocks, clock, mu, blocks, fork>>

-----------------------------------------------------------------------------
LastOf(s) == s[Len(s)]
FrontOf(s) == SubSeq(s, 1, Len(s) - 1)

Tip == LastOf(path)

\* SurpassThreshold is 20/100 of the difficulty of the current block.
heavierThan(b, cmp) == 5 * Depth[b] > 5 * Depth[cmp] + Difficulty[cmp]

\* getPath(tx, pb.Height) == pb.Block.ID()
InPath(b) == Height[b] < Len(path) /\ path[Height[b] + 1] = b

Database == [blockMap |-> blockMap, generated |-> generated, path |-> path,
             nextEntry |-> nextEntry, tail |-> tail]

\* The call returns an error: bolt discards the transaction.
Rollback ==
    /\ blockMap' = disk.blockMap
    /\ generated' = disk.generated
    /\ path' = disk.path
    /\ nextEntry' = disk.nextEntry
    /\ tail' = disk.tail
    /\ mu' = "free"
    /\ blocks' = << >>
    /\ branch' = << >>
    /\ reverted' = << >>
    /\ applied' = << >>
    /\ UNCHANGED disk

Contiguous(bs) ==
    \A i \in 1..Len(bs) - 1 : bs[i + 1] # Genesis /\ Parent[bs[i + 1]] = bs[i]

Lock(bs) ==
    /\ mu = "free"
    /\ Contiguous(bs)
    /\ mu' = "batch"
    /\ blocks' = bs
    /\ UNCHANGED <<db, disk, dosBlocks, arrived, fork>>

\* managedAcceptBlocks up to the start of the bolt transaction.
AcceptBlocks(bs) == Lock(bs) /\ UNCHANGED future

\* The sleeping goroutine wakes up and hands in its block again.
SleepOnFutureBlock(b) ==
    /\ b \in future \cap arrived
    /\ Lock(<<b>>)
    /\ future' = future \ {b}

ClockReaches(b) ==
    /\ b \in Early \ arrived
    /\ arrived' = arrived \cup {b}
    /\ UNCHANGED <<db, dosBlocks, future, mu, disk, blocks, fork>>

\* What validateHeaderAndBlock answers, in the order of its checks.
validateHeaderAndBlock(b) ==
    IF b \in dosBlocks THEN "DoS"
    ELSE IF b \in blockMap THEN "known"
    ELSE IF Parent[b] \notin blockMap THEN "orphan"
    ELSE IF b \notin HeaderOK THEN "invalid"
    ELSE IF b \in Early \ arrived THEN "future"
    ELSE "ok"

Checking(answers) ==
    /\ mu = "batch"
    /\ blocks # << >>
    /\ validateHeaderAndBlock(Head(blocks)) \in answers

\* Variant: every refused block is queued, not only the early ones.
RefuseBlockQueueing ==
    /\ Checking({"DoS", "orphan", "invalid"})
    /\ Rollback
    /\ future' = future \cup {Head(blocks)}
    /\ UNCHANGED <<dosBlocks, arrived>>

RefuseBlock ==
    /\ Checking({"DoS", "orphan", "invalid"})
    /\ Rollback
    /\ UNCHANGED <<dosBlocks, clock>>

PostponeBlock ==
    /\ Checking({"future"})
    /\ Rollback
    /\ future' = future \cup {Head(blocks)}
    /\ UNCHANGED <<dosBlocks, arrived>>

SkipKnownBlock ==
    /\ Checking({"known"})
    /\ blocks' = Tail(blocks)
    /\ UNCHANGED <<db, disk, dosBlocks, clock, mu, fork>>

\* Variants: the new block is compared with its parent instead of the current
\* block; a fork is only considered for a child of the current block.
addBlockToTreeIf(wanted) ==
    /\ Checking({"ok"})
    /\ blockMap' = blockMap \cup {Head(blocks)}
    /\ blocks' = Tail(blocks)
    /\ IF wanted
       THEN mu' = "backtrack" /\ branch' = <<Head(blocks)>>
       ELSE UNCHANGED <<mu, branch>>
    /\ UNCHANGED <<generated, path, nextEntry, tail, disk, dosBlocks, clock,
                   reverted, applied>>

addBlockToTreeComparingParent ==
    addBlockToTreeIf(heavierThan(Head(blocks), Parent[Head(blocks)]))

addBlockToTreeExtendingOnly ==
    addBlockToTreeIf(Parent[Head(blocks)] = Tip)

\* addBlockToTree: newChild stores the block, heavierThan decides on a fork.
addBlockToTree ==
    /\ Checking({"ok"})
    /\ blockMap' = blockMap \cup {Head(blocks)}
    /\ blocks' = Tail(blocks)
    /\ IF heavierThan(Head(blocks), Tip)
       THEN mu' = "backtrack" /\ branch' = <<Head(blocks)>>
       ELSE UNCHANGED <<mu, branch>>
    /\ UNCHANGED <<generated, path, nextEntry, tail, disk, dosBlocks, clock,
                   reverted, applied>>

backtrackToCurrentPath ==
    /\ mu = "backtrack"
    /\ IF InPath(Head(branch))
       THEN mu' = "revert" /\ UNCHANGED branch
       ELSE branch' = <<Parent[Head(branch)]>> \o branch /\ UNCHANGED mu
    /\ UNCHANGED <<db, dosBlocks, clock, disk, blocks, reverted, applied>>

\* Variant: the last block above the common parent is not reverted.
revertToBlockTooShort ==
    /\ mu = "revert"
    /\ IF Len(path) > Height[Head(branch)] + 2
       THEN /\ path' = FrontOf(path)
            /\ reverted' = Append(reverted, Tip)
            /\ UNCHANGED <<mu, branch>>
       ELSE /\ mu' = "apply"
            /\ branch' = Tail(branch)
            /\ UNCHANGED <<path, reverted>>
    /\ UNCHANGED <<blockMap, generated, nextEntry, tail, dosBlocks, clock, disk,
                   blocks, applied>>

revertToBlock ==
    /\ mu = "revert"
    /\ IF Tip # Head(branch)
       THEN /\ path' = FrontOf(path)
            /\ reverted' = Append(reverted, Tip)
            /\ UNCHANGED <<mu, branch>>
       ELSE /\ mu' = "apply"
            /\ branch' = Tail(branch)
            /\ UNCHANGED <<path, reverted>>
    /\ UNCHANGED <<blockMap, generated, nextEntry, tail, dosBlocks, clock, disk,
                   blocks, applied>>

\* Variant: the flag of the parent is looked at.
ApplicableByParent(b) == Parent[b] \in generated \/ b \in Valid

\* Blocks with DiffsGenerated set are applied without validating them again.
Applicable(b) == b \in generated \/ b \in Valid

ApplyBlock ==
    /\ mu = "apply"
    /\ branch # << >>
    /\ Applicable(Head(branch))
    /\ path' = Append(path, Head(branch))
    /\ generated' = generated \cup {Head(branch)}
    /\ applied' = Append(applied, Head(branch))
    /\ branch' = Tail(branch)
    /\ UNCHANGED <<blockMap, nextEntry, tail, dosBlocks, clock, mu, disk, blocks,
                   reverted>>

\* Variants: the blocks above the invalid one, or its parent, are marked.
ApplyInvalidBlockMarking(marked) ==
    /\ mu = "apply"
    /\ branch # << >>
    /\ ~Applicable(Head(branch))
    /\ Rollback
    /\ dosBlocks' = dosBlocks \cup marked
    /\ UNCHANGED clock

ApplyInvalidBlockMarkingBranch ==
    ApplyInvalidBlockMarking({branch[i] : i \in 1..Len(branch)})

ApplyInvalidBlockMarkingParent == ApplyInvalidBlockMarking({Tip})

ApplyInvalidBlock ==
    /\ mu = "apply"
    /\ branch # << >>
    /\ ~Applicable(Head(branch))
    /\ Rollback
    /\ dosBlocks' = dosBlocks \cup {Head(branch)}
    /\ UNCHANGED clock

NewEntry == [reverted |-> reverted, applied |-> applied]

\* Variant: the old tail is not pointed at the new entry.
appendChangeLogUnlinked ==
    /\ nextEntry' = [e \in DOMAIN nextEntry \cup {NewEntry} |->
                        IF e = NewEntry THEN NoEntry ELSE nextEntry[e]]
    /\ tail' = NewEntry

\* The Put of the new node, then the Put of the old tail with Next set.
appendChangeLog ==
    /\ nextEntry' = [e \in DOMAIN nextEntry \cup {NewEntry} |->
                        IF e = tail THEN NewEntry
                        ELSE IF e = NewEntry THEN NoEntry ELSE nextEntry[e]]
    /\ tail' = NewEntry

\* The sanity check of managedAcceptBlocks that returns an error.
FewerApplied == Len(applied) < Len(reverted)

FinishBlock ==
    /\ mu = "apply"
    /\ branch = << >>
    /\ ~FewerApplied
    /\ appendChangeLog
    /\ mu' = "batch"
    /\ reverted' = << >>
    /\ applied' = << >>
    /\ UNCHANGED <<blockMap, generated, path, dosBlocks, clock, disk, blocks, branch>>

FailSanityCheck ==
    /\ mu = "apply"
    /\ branch = << >>
    /\ FewerApplied
    /\ Rollback
    /\ UNCHANGED <<dosBlocks, clock>>

\* The bolt transaction commits and cs.mu is released.
Commit ==
    /\ mu = "batch"
    /\ blocks = << >>
    /\ mu' = "free"
    /\ disk' = Database
    /\ UNCHANGED <<db, dosBlocks, clock, blocks, fork>>

\* The process dies or is stopped, and is restarted on what bolt has committed.
Crash ==
    /\ Rollback
    /\ dosBlocks' = {}
    /\ future' = {}
    /\ UNCHANGED arrived

Init ==
    /\ blockMap = {Genesis}
    /\ generated = {Genesis}
    /\ path = <<Genesis>>
    /\ nextEntry = [e \in {GenesisEntry} |-> NoEntry]
    /\ tail = GenesisEntry
    /\ dosBlocks = {}
    /\ future = {}
    /\ arrived = {}
    /\ mu = "free"
    /\ disk = Database
    /\ blocks = << >>
    /\ branch = << >>
    /\ reverted = << >>
    /\ applied = << >>

AddBlocks ==
    \/ RefuseBlock
    \/ PostponeBlock
    \/ SkipKnownBlock
    \/ addBlockToTree
    \/ backtrackToCurrentPath
    \/ revertToBlock
    \/ ApplyBlock
    \/ ApplyInvalidBlock
    \/ FinishBlock
    \/ FailSanityCheck
    \/ Commit

\* What a running process does; Crash ends it.
Run ==
    \/ \E bs \in Batches : AcceptBlocks(bs)
    \/ \E b \in Block : SleepOnFutureBlock(b)
    \/ \E b \in Block : ClockReaches(b)
    \/ AddBlocks

Next == Run \/ Crash

Spec == Init /\ [][Next]_vars

(***************************************************************************)
(* The loop under cs.mu runs to its end, the clock goes on, a sleeping     *)
(* goroutine gets the mutex, and every single block of Batches is offered  *)
(* again and again: peers send the blocks that a node asks for each time   *)
(* it synchronizes.  Strong fairness because the mutex is handed over in   *)
(* turn but is not free all the time.                                      *)
(***************************************************************************)
Fairness ==
    /\ WF_vars(AddBlocks)
    /\ \A b \in Block : /\ WF_vars(ClockReaches(b))
                        /\ SF_vars(SleepOnFutureBlock(b))
                        /\ SF_vars(<<b>> \in Batches /\ AcceptBlocks(<<b>>))

\* The process is killed as often as it may be, but not for ever.
LiveSpec == Spec /\ Fairness /\ <>[][Run]_vars

-----------------------------------------------------------------------------
DatabaseOK(d) ==
    /\ d.blockMap \subseteq Block
    /\ d.generated \subseteq Block
    /\ d.path \in Seq(Block)
    /\ \A e \in DOMAIN d.nextEntry : e \in Entry /\ d.nextEntry[e] \in Entry
    /\ d.tail \in Entry

\* Type invariant.
TypeOK ==
    /\ DatabaseOK(Database)
    /\ DatabaseOK(disk)
    /\ dosBlocks \subseteq Block
    /\ future \subseteq Early
    /\ arrived \subseteq Early
    /\ mu \in {"free", "batch", "backtrack", "revert", "apply"}
    /\ blocks \in Seq(Block)
    /\ branch \in Seq(Block)
    /\ reverted \in Seq(Block)
    /\ applied \in Seq(Block)

\* The tip is settled: no fork is in progress.
Settled == mu \in {"free", "batch"}

(***************************************************************************)
(* BlockPath is one chain from the genesis block, each block at its own    *)
(* height, at every point of revertToBlock and applyUntilBlock and after   *)
(* every rollback.                                                         *)
(***************************************************************************)
PathIsChain ==
    /\ path # << >> /\ path[1] = Genesis
    /\ \A i \in 1..Len(path) : Height[path[i]] = i - 1
    /\ \A i \in 2..Len(path) : path[i] # Genesis /\ Parent[path[i]] = path[i - 1]

(***************************************************************************)
(* Every block of the current path, and every block whose diffs are        *)
(* trusted without validation by applyUntilBlock (DiffsGenerated), is      *)
(* valid together with all its ancestors, although invalid blocks that did *)
(* not extend the chain are kept in the block map.                         *)
(***************************************************************************)
OnlyValidBlocks ==
    /\ \A i \in 1..Len(path) : path[i] \in generated
    /\ generated \subseteq FullyValid \cap blockMap

(***************************************************************************)
(* addBlockToTree compares only the newly added block with the tip.  That  *)
(* is enough: at the end of each block no known block, however it got      *)
(* there, is sufficiently heavier than the tip.                            *)
(***************************************************************************)
HeaviestTip == Settled => \A b \in blockMap : ~heavierThan(b, Tip)

(***************************************************************************)
(* A block marked as DoS is invalid on top of its parent: the mark, which  *)
(* survives the rollback of the transaction that set it, never shuts out a *)
(* block that could be applied.                                            *)
(***************************************************************************)
OnlyInvalidMarked == dosBlocks \cap Valid = {}

(***************************************************************************)
(* The changelog is a map keyed by the hash of the entry, with a pointer   *)
(* to the next entry.  appendChangeLog never adds an entry that is already *)
(* there, which would close the list into a cycle.                         *)
(***************************************************************************)
FreshEntries == [][FinishBlock => NewEntry \notin DOMAIN nextEntry]_vars

LogLength == Cardinality(DOMAIN nextEntry)

\* The n-th entry of the changelog, following the pointers from the genesis entry.
EntryAt[n \in 1..LogLength] ==
    IF n = 1 THEN GenesisEntry ELSE nextEntry[EntryAt[n - 1]]

\* What a subscriber with path p has once it processed entry e.
Replay(p, e) == SubSeq(p, 1, Len(p) - Len(e.reverted)) \o e.applied

\* What a subscriber that processes the first n entries takes for the path.
Replayed[n \in 0..LogLength] ==
    IF n = 0 THEN << >> ELSE Replay(Replayed[n - 1], EntryAt[n])

(***************************************************************************)
(* A subscriber that starts at the genesis entry and follows NextEntry     *)
(* passes every entry, ends at the tail, and has then reverted and applied *)
(* exactly what leads to the current path.                                 *)
(***************************************************************************)
LogReplaysToPath ==
    Settled =>
        /\ EntryAt[LogLength] = tail
        /\ nextEntry[tail] = NoEntry
        /\ Replayed[LogLength] = path

Abstract == INSTANCE HeaviestChain
    WITH Heavier <- heavierThan, tip <- LastOf(disk.path)

(***************************************************************************)
(* The tip that survives a crash only moves to fully valid blocks that are *)
(* sufficiently heavier than it, however many blocks a call adds, reverts  *)
(* or rolls back on the way.                                               *)
(***************************************************************************)
ImplementsHeaviestChain == Abstract!Spec

(***************************************************************************)
(* If blocks keep being offered, the node ends up on a chain that no fully *)
(* valid chain is sufficiently heavier than: rollbacks, DoS marks, blocks  *)
(* known before and postponed blocks do not keep it away for ever.         *)
(***************************************************************************)
Convergence == <>[](\A b \in FullyValid : ~heavierThan(b, LastOf(disk.path)))

(***************************************************************************)
(* At every step of managedAcceptBlocks, after every rollback and crash:   *)
(* the path is a chain of valid blocks from the genesis block, no known    *)
(* block is sufficiently heavier than a settled tip, and no block that     *)
(* could be applied is marked as DoS.                                      *)
(***************************************************************************)
ChainSound == TypeOK /\ PathIsChain /\ OnlyValidBlocks /\ HeaviestTip /\ OnlyInvalidMarked
=============================================================================
