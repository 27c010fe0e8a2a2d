-------------------------- MODULE ForkChoiceProofs --------------------------
(***************************************************************************)
(* Proofs about ForkChoice, for every block tree, every assignment of work *)
(* and validity and every set of batches.                                  *)
(***************************************************************************)
EXTENDS ForkChoice, SequenceTheorems, FiniteSetTheorems, TLAPS

\* Some leaves take the SMT solver, with its preparation, longer than the default 5 seconds.
USE SMTT(30)

-----------------------------------------------------------------------------
(* The inductive invariant *)

\* Ancestors of known blocks are known; what was validated is fully valid.
TreeInv(known, validated) ==
    /\ Genesis \in known
    /\ \A b \in known \ {Genesis} : Parent[b] \in known
    /\ validated \subseteq FullyValid
    /\ validated \subseteq known

\* A path is a chain of validated blocks from the genesis block.
PathInv(p, validated) ==
    /\ Len(p) >= 1
    /\ p[1] = Genesis
    /\ \A i \in 1..Len(p) : p[i] \in validated /\ Height[p[i]] = i - 1
    /\ \A i \in 2..Len(p) : p[i] # Genesis /\ Parent[p[i]] = p[i - 1]

\* Every entry of the changelog led to a tip that is at most as deep as b.
LogUpTo(log, b) ==
    \A e \in DOMAIN log : e.applied # << >> /\ Depth[LastOf(e.applied)] <= Depth[b]

\* No known block is sufficiently heavier than b.
Heaviest(known, b) == \A c \in known : ~heavierThan(c, b)

\* The block for which a fork is in progress.
Target == IF branch = << >> THEN Tip ELSE LastOf(branch)

DatabaseInv ==
    /\ TreeInv(blockMap, generated)
    /\ PathInv(path, generated)

DiskInv ==
    /\ TreeInv(disk.blockMap, disk.generated)
    /\ PathInv(disk.path, disk.generated)
    /\ Heaviest(disk.blockMap, LastOf(disk.path))
    /\ LogUpTo(disk.nextEntry, LastOf(disk.path))

SettledInv ==
    /\ branch = << >> /\ reverted = << >> /\ applied = << >>
    /\ Heaviest(blockMap, Tip)
    /\ LogUpTo(nextEntry, Tip)
    /\ Tip = LastOf(disk.path) \/ heavierThan(Tip, LastOf(disk.path))

BranchInv ==
    /\ \A i \in 1..Len(branch) : branch[i] \in blockMap
    /\ \A i \in 2..Len(branch) : branch[i] # Genesis /\ Parent[branch[i]] = branch[i - 1]

\* The target is deeper than whatever was current before.
TargetInv ==
    /\ Target \in blockMap
    /\ \A b \in blockMap : Depth[b] <= Depth[Target]
    /\ \A e \in DOMAIN nextEntry :
          e.applied # << >> /\ Depth[LastOf(e.applied)] < Depth[Target]
    /\ heavierThan(Target, LastOf(disk.path))

\* Until the common parent is reached, the target is ahead of the path.
AheadInv ==
    /\ Len(branch) >= 1
    /\ \A i \in 1..Len(path) : path[i] # Target
    /\ applied = << >>

ApplyInv ==
    /\ branch # << >> => branch[1] # Genesis /\ Parent[branch[1]] = Tip
    /\ branch = << >> => applied # << >> /\ LastOf(applied) = Tip

ForkInv ==
    /\ BranchInv
    /\ TargetInv
    /\ mu \in {"backtrack", "revert"} => AheadInv
    /\ mu = "revert" => InPath(branch[1])
    /\ mu = "apply" => ApplyInv

IInv ==
    /\ TypeOK
    /\ DatabaseInv
    /\ DiskInv
    /\ OnlyInvalidMarked
    /\ Settled => SettledInv
    /\ ~Settled => ForkInv

-----------------------------------------------------------------------------
(* Sequences *)

\* The last element of a nonempty sequence.
LEMMA LastIn ==
  ASSUME NEW S, NEW s \in Seq(S), s # << >>
  PROVE  /\ Len(s) \in Nat /\ Len(s) >= 1
         /\ LastOf(s) \in S /\ LastOf(s) = s[Len(s)]
         /\ Head(s) = s[1] /\ s[1] \in S
BY DEF LastOf

\* Appending leaves the old elements where they are.
LEMMA AppendFacts ==
  ASSUME NEW S, NEW s \in Seq(S), NEW x \in S
  PROVE  /\ Append(s, x) \in Seq(S)
         /\ Len(Append(s, x)) = Len(s) + 1
         /\ \A i \in 1..Len(s) : Append(s, x)[i] = s[i]
         /\ Append(s, x)[Len(s) + 1] = x
         /\ LastOf(Append(s, x)) = x
         /\ Append(s, x) # << >>
<1>1. Append(s, x) \in Seq(S) /\ Len(Append(s, x)) = Len(s) + 1
  OBVIOUS
<1>2. /\ \A i \in 1..Len(s) : Append(s, x)[i] = s[i]
      /\ Append(s, x)[Len(s) + 1] = x
  OBVIOUS
<1>3. Append(s, x) # << >>
  <2>1. Len(s) + 1 # 0
    OBVIOUS
  <2>2. Len(Append(s, x)) # Len(<< >>)
    BY <1>1, <2>1, EmptySeq, Zenon
  <2> QED BY <2>2, Zenon
<1> QED BY <1>1, <1>2, <1>3, Zenon DEF LastOf

\* What is left when the last element is removed.
LEMMA FrontFacts ==
  ASSUME NEW S, NEW s \in Seq(S), Len(s) >= 1
  PROVE  /\ FrontOf(s) \in Seq(S)
         /\ Len(FrontOf(s)) = Len(s) - 1
         /\ \A i \in 1..Len(s) - 1 : FrontOf(s)[i] = s[i]
<1>1. Len(s) \in Nat /\ Len(s) - 1 \in 0..Len(s)
  OBVIOUS
<1>2. \A i \in 1..Len(s) - 1 : s[i] \in S
  BY <1>1
<1> DEFINE n == Len(s) - 1
           f == SubSeq(s, 1, n)
<1>3. /\ f \in Seq(S)
      /\ Len(f) = IF 1 <= n THEN n - 1 + 1 ELSE 0
      /\ \A i \in 1..n - 1 + 1 : f[i] = s[1 + i - 1]
  <2>1. n \in Int /\ 1 \in Int /\ \A i \in 1..n : s[i] \in S
    BY <1>1, <1>2
  <2> HIDE DEF n
  <2> QED BY <2>1, SubSeqProperties, SMT, Zenon
<1> HIDE DEF f
<1>4. Len(f) = n
  <2>1. n \in Nat
    BY <1>1
  <2> HIDE DEF n
  <2>2. Len(f) = IF 1 <= n THEN n - 1 + 1 ELSE 0
    BY <1>3, Zenon
  <2> QED BY <2>1, <2>2
<1>5. \A i \in 1..n : f[i] = s[i]
  <2> TAKE i \in 1..n
  <2>1. i \in 1..n - 1 + 1 /\ 1 + i - 1 = i
    BY <1>1
  <2> QED BY <1>3, <2>1, Zenon
<1> QED BY <1>3, <1>4, <1>5, Zenon DEF FrontOf, f

\* What is left when the first element is removed.
LEMMA TailFacts ==
  ASSUME NEW S, NEW s \in Seq(S), s # << >>
  PROVE  /\ Tail(s) \in Seq(S)
         /\ Len(Tail(s)) = Len(s) - 1
         /\ \A i \in 1..Len(s) - 1 : Tail(s)[i] = s[i + 1]
         /\ Tail(s) # << >> => LastOf(Tail(s)) = LastOf(s)
         /\ Tail(s) = << >> => LastOf(s) = s[1]
<1>1. Len(s) \in Nat /\ Len(s) >= 1
  OBVIOUS
<1>2. /\ Tail(s) \in Seq(S)
      /\ Len(Tail(s)) = Len(s) - 1
      /\ \A i \in 1..Len(s) - 1 : Tail(s)[i] = s[i + 1]
  OBVIOUS
<1>3. Tail(s) # << >> => LastOf(Tail(s)) = LastOf(s)
  <2>1. Tail(s) # << >> => Len(Tail(s)) \in Nat /\ Len(Tail(s)) >= 1
    BY <1>2
  <2> QED BY <1>1, <1>2, <2>1 DEF LastOf
<1>4. Tail(s) = << >> => LastOf(s) = s[1]
  <2>1. Tail(s) = << >> => Len(Tail(s)) = 0
    BY EmptySeq, Zenon
  <2> QED BY <1>1, <1>2, <2>1 DEF LastOf
<1> QED BY <1>2, <1>3, <1>4, Zenon

\* Prepending an element.
LEMMA PrependFacts ==
  ASSUME NEW S, NEW s \in Seq(S), NEW x \in S, Len(s) >= 1
  PROVE  /\ <<x>> \o s \in Seq(S)
         /\ Len(<<x>> \o s) = Len(s) + 1
         /\ (<<x>> \o s)[1] = x
         /\ \A i \in 2..Len(s) + 1 : (<<x>> \o s)[i] = s[i - 1]
         /\ LastOf(<<x>> \o s) = LastOf(s)
         /\ <<x>> \o s # << >>
<1>1. Len(s) \in Nat /\ <<x>> \in Seq(S) /\ Len(<<x>>) = 1
  OBVIOUS
<1>2. <<x>> \o s \in Seq(S) /\ Len(<<x>> \o s) = Len(s) + 1
  BY <1>1
<1>3. /\ (<<x>> \o s)[1] = x
      /\ \A i \in 2..Len(s) + 1 : (<<x>> \o s)[i] = s[i - 1]
  BY <1>1
<1>4. <<x>> \o s # << >>
  <2>1. Len(<<x>> \o s) # 0
    BY <1>1, <1>2
  <2> QED BY <2>1
<1> QED BY <1>1, <1>2, <1>3, <1>4 DEF LastOf

-----------------------------------------------------------------------------
(* Work *)

\* Being sufficiently heavier is transitive.
LEMMA HeavierTransitive ==
  ASSUME NEW x \in Block, NEW y \in Block, NEW z \in Block,
         heavierThan(x, y), y = z \/ heavierThan(y, z)
  PROVE  heavierThan(x, z)
<1>1. /\ Depth[x] \in Nat /\ Depth[y] \in Nat /\ Depth[z] \in Nat
      /\ Difficulty[y] \in Nat /\ Difficulty[z] \in Nat
  BY WorkAssumption, Zenon
<1> QED BY <1>1 DEF heavierThan

\* A block that surpasses y is deeper than y and than all that do not.
LEMMA HeavierDeeper ==
  ASSUME NEW x \in Block, NEW y \in Block, heavierThan(x, y)
  PROVE  /\ Depth[y] < Depth[x]
         /\ \A c \in Block : ~heavierThan(c, y) => Depth[c] <= Depth[x]
<1>1. /\ Depth[x] \in Nat /\ Depth[y] \in Nat /\ Difficulty[y] \in Nat
      /\ \A c \in Block : Depth[c] \in Nat
  BY WorkAssumption, Zenon
<1> QED BY <1>1 DEF heavierThan

\* Nothing surpasses a block that is at least as deep as everything known.
LEMMA DeepestIsHeaviest ==
  ASSUME NEW K \in SUBSET Block, NEW x \in Block,
         \A c \in K : Depth[c] <= Depth[x]
  PROVE  Heaviest(K, x)
<1>1. /\ Depth[x] \in Nat /\ Difficulty[x] \in Nat
      /\ \A c \in K : Depth[c] \in Nat
  BY WorkAssumption, Zenon
<1> QED BY <1>1 DEF Heaviest, heavierThan

-----------------------------------------------------------------------------
(* The invariant holds initially and every action preserves it *)

\* The database that createConsensusDB makes satisfies the invariant.
LEMMA InitIInv == Init => IInv
<1> SUFFICES ASSUME Init PROVE IInv
  BY Zenon
<1> USE TreeAssumption, WorkAssumption, RulesAssumption
<1>1. /\ blockMap = {Genesis} /\ generated = {Genesis} /\ path = <<Genesis>>
      /\ DOMAIN nextEntry = {GenesisEntry} /\ nextEntry[GenesisEntry] = NoEntry
      /\ tail = GenesisEntry
  BY Zenon DEF Init
<1>2. /\ disk.blockMap = blockMap /\ disk.generated = generated /\ disk.path = path
      /\ disk.nextEntry = nextEntry /\ disk.tail = tail
  BY Zenon DEF Init, Database
<1>3. /\ Len(path) = 1 /\ path[1] = Genesis /\ Tip = Genesis
      /\ LastOf(GenesisEntry.applied) = Genesis /\ GenesisEntry.applied # << >>
  BY <1>1, Zenon DEF Tip, LastOf, GenesisEntry
<1>4. TypeOK
  <2>1. GenesisEntry \in Entry /\ NoEntry \in Entry /\ path \in Seq(Block)
    BY <1>1 DEF GenesisEntry, NoEntry, Entry
  <2>2. DatabaseOK(Database)
    BY <1>1, <2>1, Zenon DEF DatabaseOK, Database
  <2>3. DatabaseOK(disk)
    BY <1>1, <1>2, <2>1 DEF DatabaseOK
  <2> QED BY <2>2, <2>3 DEF Init, TypeOK
<1>5. TreeInv(blockMap, generated) /\ PathInv(path, generated)
  BY <1>1, <1>3 DEF TreeInv, PathInv
<1>6. Heaviest(blockMap, Tip) /\ LogUpTo(nextEntry, Tip)
  BY <1>1, <1>3 DEF Heaviest, heavierThan, LogUpTo
<1>7. DiskInv
  BY <1>2, <1>5, <1>6, Zenon DEF DiskInv, Tip
<1>8. Settled /\ SettledInv /\ OnlyInvalidMarked
  BY <1>2, <1>6, Zenon DEF Init, Settled, SettledInv, Tip, OnlyInvalidMarked
<1> QED BY <1>4, <1>5, <1>7, <1>8, Zenon DEF IInv, DatabaseInv

\* What the type invariant says of the parts of the database.
LEMMA Types ==
  ASSUME TypeOK
  PROVE  /\ blockMap \subseteq Block /\ generated \subseteq Block
         /\ path \in Seq(Block) /\ tail \in Entry
         /\ \A e \in DOMAIN nextEntry : e \in Entry /\ nextEntry[e] \in Entry
         /\ disk.blockMap \subseteq Block /\ disk.generated \subseteq Block
         /\ disk.path \in Seq(Block) /\ disk.tail \in Entry
         /\ \A e \in DOMAIN disk.nextEntry :
               e \in Entry /\ disk.nextEntry[e] \in Entry
BY Zenon DEF TypeOK, DatabaseOK, Database

\* The tip is a known, validated block at the height of the path.
LEMMA TipFacts ==
  ASSUME IInv
  PROVE  /\ Tip \in Block /\ Tip \in generated /\ Tip \in blockMap
         /\ Tip = path[Len(path)] /\ Len(path) \in Nat /\ Len(path) >= 1
         /\ Height[Tip] = Len(path) - 1
         /\ LastOf(disk.path) \in Block
<1>1. /\ path \in Seq(Block) /\ generated \subseteq Block
      /\ disk.path \in Seq(Block) /\ disk.generated \subseteq Block
  BY Types, Zenon DEF IInv
<1>2. PathInv(path, generated) /\ TreeInv(blockMap, generated)
  BY Zenon DEF IInv, DatabaseInv
<1>3. PathInv(disk.path, disk.generated)
  BY Zenon DEF IInv, DiskInv
<1>4. Len(path) \in Nat /\ Len(disk.path) \in Nat
  BY <1>1
<1>5. /\ path[Len(path)] \in generated /\ Height[path[Len(path)]] = Len(path) - 1
      /\ Len(path) >= 1
  BY <1>2, <1>4 DEF PathInv
<1>6. disk.path[Len(disk.path)] \in disk.generated
  BY <1>3, <1>4 DEF PathInv
<1> QED BY <1>1, <1>2, <1>4, <1>5, <1>6, Zenon DEF Tip, LastOf, TreeInv

\* A rollback leads back to the state the disk holds, which is settled.
LEMMA RollbackIInv ==
  ASSUME IInv, Rollback, future' \subseteq Early, arrived' \subseteq Early,
         dosBlocks' \subseteq Block, dosBlocks' \cap Valid = {}
  PROVE  IInv'
<1>1. /\ blockMap' = disk.blockMap /\ generated' = disk.generated
      /\ path' = disk.path /\ nextEntry' = disk.nextEntry /\ tail' = disk.tail
      /\ disk' = disk /\ mu' = "free"
      /\ blocks' = << >> /\ branch' = << >> /\ reverted' = << >> /\ applied' = << >>
  BY Zenon DEF Rollback
<1>2. TypeOK'
  <2>1. DatabaseOK(disk)
    BY Zenon DEF IInv, TypeOK
  <2>2. DatabaseOK(disk)'
    BY <1>1, <2>1, Zenon DEF DatabaseOK
  <2>3. DatabaseOK(Database)'
    BY <1>1, <2>1, Zenon DEF DatabaseOK, Database
  <2> QED BY <1>1, <2>2, <2>3 DEF TypeOK
<1>3. DiskInv /\ DiskInv'
  BY <1>1, Zenon DEF IInv, DiskInv
<1>4. DatabaseInv'
  BY <1>1, <1>3, Zenon DEF DatabaseInv, DiskInv
<1>5. OnlyInvalidMarked'
  BY Zenon DEF OnlyInvalidMarked
<1>6. Settled' /\ SettledInv'
  BY <1>1, <1>3, Zenon DEF Settled, SettledInv, DiskInv, Tip
<1> QED BY <1>2, <1>3, <1>4, <1>5, <1>6, Zenon DEF IInv

\* A step that only changes the clock, the mutex and the blocks of the call.
LEMMA LockIInv ==
  ASSUME IInv, UNCHANGED <<db, disk, dosBlocks, fork>>, Settled, Settled',
         future' \subseteq Early, arrived' \subseteq Early, blocks' \in Seq(Block)
  PROVE  IInv'
<1>1. /\ blockMap' = blockMap /\ generated' = generated /\ path' = path
      /\ nextEntry' = nextEntry /\ tail' = tail /\ disk' = disk
      /\ dosBlocks' = dosBlocks
      /\ branch' = branch /\ reverted' = reverted /\ applied' = applied
  BY Zenon DEF db, fork
<1>2. TypeOK'
  <2>1. DatabaseOK(disk)' /\ DatabaseOK(Database)'
    BY <1>1, Zenon DEF IInv, TypeOK, DatabaseOK, Database
  <2>2. mu' \in {"free", "batch"}
    BY Zenon DEF Settled
  <2> QED BY <1>1, <2>1, <2>2, Zenon DEF IInv, TypeOK
<1>3. DiskInv' /\ DatabaseInv' /\ OnlyInvalidMarked'
  BY <1>1, Zenon DEF IInv, DiskInv, DatabaseInv, OnlyInvalidMarked
<1>4. SettledInv'
  BY <1>1, Zenon DEF IInv, SettledInv, Tip
<1> QED BY <1>2, <1>3, <1>4, Zenon DEF IInv

\* The first block of the call is a block, and so are the others.
LEMMA HeadBlock ==
  ASSUME TypeOK, blocks # << >>
  PROVE  Head(blocks) \in Block /\ Tail(blocks) \in Seq(Block)
BY LastIn, TailFacts, Zenon DEF TypeOK

\* What the answer "ok" of validateHeaderAndBlock says.
LEMMA NewBlock ==
  ASSUME IInv, Checking({"ok"})
  PROVE  /\ Head(blocks) \in Block /\ Head(blocks) \notin blockMap
         /\ Head(blocks) # Genesis /\ Parent[Head(blocks)] \in blockMap
<1>1. Head(blocks) \in Block
  BY HeadBlock, Zenon DEF IInv, Checking
<1>2. Head(blocks) \notin blockMap /\ Parent[Head(blocks)] \in blockMap
  BY Zenon DEF Checking, validateHeaderAndBlock
<1>3. Genesis \in blockMap
  BY Zenon DEF IInv, DatabaseInv, TreeInv
<1> QED BY <1>1, <1>2, <1>3, Zenon

\* newChild stores a block whose parent is known; a fork starts only for a
\* block that is sufficiently heavier than the tip.
LEMMA addBlockToTreeIInv ==
  ASSUME IInv, addBlockToTree
  PROVE  IInv'
<1> USE TreeAssumption, WorkAssumption
<1> DEFINE b == Head(blocks)
<1>1. /\ Checking({"ok"}) /\ mu = "batch" /\ blocks # << >>
      /\ blockMap' = blockMap \cup {b}
      /\ blocks' = Tail(blocks)
      /\ generated' = generated /\ path' = path /\ nextEntry' = nextEntry
      /\ tail' = tail /\ disk' = disk /\ dosBlocks' = dosBlocks
      /\ future' = future /\ arrived' = arrived
      /\ reverted' = reverted /\ applied' = applied
  BY Zenon DEF addBlockToTree, Checking, clock
<1>2. /\ heavierThan(b, Tip) => mu' = "backtrack" /\ branch' = <<b>>
      /\ ~heavierThan(b, Tip) => mu' = mu /\ branch' = branch
  BY Zenon DEF addBlockToTree
<1>3. /\ b \in Block /\ b \notin blockMap
      /\ b # Genesis /\ Parent[b] \in blockMap
  BY <1>1, NewBlock, Zenon
<1>4. Settled /\ SettledInv
  BY <1>1, Zenon DEF Settled, IInv
<1>5. blocks' \in Seq(Block)
  BY <1>1, HeadBlock, Zenon DEF IInv
<1> HIDE DEF b
<1>6. TypeOK'
  <2>1. DatabaseOK(disk)' /\ DatabaseOK(Database)'
    BY <1>1, <1>3, Zenon DEF IInv, TypeOK, DatabaseOK, Database
  <2>2. branch' \in Seq(Block) /\ mu' \in {"batch", "backtrack"}
    <3>1. branch \in Seq(Block) /\ <<b>> \in Seq(Block)
      BY <1>3 DEF IInv, TypeOK
    <3> QED BY <1>1, <1>2, <3>1, Zenon
  <2> QED BY <1>1, <1>5, <2>1, <2>2, Zenon DEF IInv, TypeOK
<1>7. DatabaseInv' /\ DiskInv' /\ OnlyInvalidMarked'
  BY <1>1, <1>3, Zenon DEF IInv, DatabaseInv, DiskInv, OnlyInvalidMarked, TreeInv
<1>8. /\ Tip' = Tip /\ Tip \in Block /\ LastOf(disk.path) \in Block
      /\ blockMap \subseteq Block
  BY <1>1, TipFacts, Types, Zenon DEF Tip, IInv
<1>9. CASE ~heavierThan(b, Tip)
  <2>1. Settled' /\ SettledInv'
    BY <1>1, <1>2, <1>4, <1>8, <1>9, Zenon DEF Settled, SettledInv, Heaviest
  <2> QED BY <1>6, <1>7, <2>1, Zenon DEF IInv
<1>10. CASE heavierThan(b, Tip)
  <2>1. /\ mu' = "backtrack" /\ branch' = <<b>> /\ Target' = b
        /\ Len(branch') = 1 /\ branch'[1] = b
    <3>1. mu' = "backtrack" /\ branch' = <<b>>
      BY <1>2, <1>10, Zenon
    <3>2. branch' # << >> /\ Len(branch') = 1 /\ branch'[1] = b
      BY <3>1, Zenon
    <3> QED BY <3>1, <3>2, Zenon DEF Target, LastOf
  <2>2. BranchInv'
    BY <1>1, <2>1 DEF BranchInv
  <2>3. \A c \in blockMap' : Depth[c] <= Depth[b]
    <3>1. \A c \in blockMap : Depth[c] <= Depth[b]
      BY <1>3, <1>4, <1>8, <1>10, HeavierDeeper, Zenon DEF SettledInv, Heaviest
    <3>2. Depth[b] <= Depth[b]
      BY <1>3
    <3> QED BY <1>1, <3>1, <3>2, Zenon
  <2>4. \A e \in DOMAIN nextEntry :
            e.applied # << >> /\ Depth[LastOf(e.applied)] < Depth[b]
    <3> TAKE e \in DOMAIN nextEntry
    <3>1. e.applied # << >> /\ Depth[LastOf(e.applied)] <= Depth[Tip]
      BY <1>4, Zenon DEF SettledInv, LogUpTo
    <3>2. LastOf(e.applied) \in Block
      <4>1. e.applied \in Seq(Block)
        BY Types, Zenon DEF IInv, Entry
      <4> QED BY <3>1, <4>1, LastIn, Zenon
    <3>3. Depth[Tip] < Depth[b]
      BY <1>3, <1>8, <1>10, HeavierDeeper, Zenon
    <3>4. Depth[LastOf(e.applied)] \in Nat /\ Depth[Tip] \in Nat /\ Depth[b] \in Nat
      BY <1>3, <1>8, <3>2, WorkAssumption, Zenon
    <3>5. Depth[LastOf(e.applied)] <= Depth[Tip]
      BY <3>1, Zenon
    <3>6. Depth[LastOf(e.applied)] < Depth[b]
      BY <3>3, <3>4, <3>5
    <3> QED BY <3>1, <3>6, Zenon
  <2>5. heavierThan(b, LastOf(disk.path))
    BY <1>3, <1>4, <1>8, <1>10, HeavierTransitive, Zenon DEF SettledInv
  <2>6. TargetInv'
    BY <1>1, <2>1, <2>3, <2>4, <2>5, Zenon DEF TargetInv, heavierThan
  <2>7. AheadInv'
    <3>1. \A i \in 1..Len(path) : path[i] # b
      BY <1>3, Zenon DEF IInv, DatabaseInv, PathInv, TreeInv
    <3> QED BY <1>1, <1>4, <2>1, <3>1 DEF AheadInv, SettledInv
  <2> QED BY <1>6, <1>7, <2>1, <2>2, <2>6, <2>7, Zenon DEF IInv, ForkInv, Settled
<1> QED BY <1>9, <1>10, Zenon

\* The type invariant after a step of a fork that leaves blockMap, the log and
\* the disk alone.
LEMMA ForkTypes ==
  ASSUME TypeOK, generated' \subseteq Block, path' \in Seq(Block),
         branch' \in Seq(Block), reverted' \in Seq(Block), applied' \in Seq(Block),
         mu' \in {"backtrack", "revert", "apply"},
         UNCHANGED <<blockMap, nextEntry, tail, disk, dosBlocks, clock, blocks>>
  PROVE  TypeOK'
<1>1. DatabaseOK(disk)' /\ DatabaseOK(Database)'
  BY Zenon DEF TypeOK, DatabaseOK, Database
<1> QED BY <1>1, Zenon DEF TypeOK, clock

\* While a fork is in progress.
LEMMA InFork ==
  ASSUME IInv, mu \in {"backtrack", "revert", "apply"}
  PROVE  ForkInv
BY Zenon DEF IInv, Settled

\* backtrackToCurrentPath stays among known blocks and stops at the path.
LEMMA backtrackIInv ==
  ASSUME IInv, backtrackToCurrentPath
  PROVE  IInv'
<1> USE TreeAssumption
<1>1. /\ mu = "backtrack"
      /\ blockMap' = blockMap /\ generated' = generated /\ path' = path
      /\ nextEntry' = nextEntry /\ tail' = tail /\ disk' = disk
      /\ dosBlocks' = dosBlocks /\ future' = future /\ arrived' = arrived
      /\ blocks' = blocks /\ reverted' = reverted /\ applied' = applied
  BY Zenon DEF backtrackToCurrentPath, db, clock
<1>2. BranchInv /\ TargetInv /\ AheadInv
  BY <1>1, InFork, Zenon DEF ForkInv
<1>3. /\ branch \in Seq(Block) /\ Len(branch) \in Nat /\ branch # << >>
      /\ Head(branch) = branch[1] /\ branch[1] \in blockMap /\ branch[1] \in Block
      /\ Target = LastOf(branch)
  <2>1. branch \in Seq(Block) /\ Len(branch) >= 1
    BY <1>2, Zenon DEF IInv, TypeOK, AheadInv
  <2>2. branch # << >> /\ Len(branch) \in Nat
    BY <2>1
  <2>3. branch[1] \in blockMap
    BY <1>2, <2>1, <2>2 DEF BranchInv
  <2> QED BY <2>1, <2>2, <2>3, LastIn, Zenon DEF Target
<1>4. DatabaseInv' /\ DiskInv' /\ OnlyInvalidMarked'
  BY <1>1, Zenon DEF IInv, DatabaseInv, DiskInv, OnlyInvalidMarked
<1>5. CASE InPath(branch[1])
  <2>1. mu' = "revert" /\ branch' = branch
    BY <1>3, <1>5, Zenon DEF backtrackToCurrentPath
  <2>2. TypeOK'
    BY <1>1, <2>1, ForkTypes, Zenon DEF IInv, TypeOK, DatabaseOK, Database, clock
  <2>3. BranchInv' /\ TargetInv' /\ AheadInv' /\ InPath(branch[1])'
    BY <1>1, <1>2, <1>5, <2>1, Zenon
       DEF BranchInv, TargetInv, AheadInv, Target, Tip, InPath, heavierThan
  <2> QED BY <1>4, <2>1, <2>2, <2>3, Zenon DEF IInv, Settled, ForkInv
<1>6. CASE ~InPath(branch[1])
  <2> DEFINE a == Parent[branch[1]]
  <2>1. mu' = "backtrack" /\ branch' = <<a>> \o branch
    BY <1>1, <1>3, <1>6, Zenon DEF backtrackToCurrentPath
  <2>2. branch[1] # Genesis
    <3>1. /\ path[1] = Genesis /\ Len(path) >= 1 /\ Len(path) \in Nat
      BY TipFacts, Zenon DEF IInv, DatabaseInv, PathInv
    <3> QED BY <1>6, <3>1 DEF InPath
  <2>3. a \in blockMap /\ a \in Block
    BY <1>3, <2>2, Types, Zenon DEF IInv, DatabaseInv, TreeInv
  <2> HIDE DEF a
  <2>4. /\ branch' \in Seq(Block) /\ Len(branch') = Len(branch) + 1
        /\ branch'[1] = a /\ branch' # << >>
        /\ \A i \in 2..Len(branch) + 1 : branch'[i] = branch[i - 1]
        /\ LastOf(branch') = LastOf(branch)
    BY <1>2, <1>3, <2>1, <2>3, PrependFacts DEF AheadInv
  <2>5. TypeOK'
    BY <1>1, <2>1, <2>4, ForkTypes, Zenon DEF IInv, TypeOK, DatabaseOK, Database, clock
  <2>6. BranchInv'
    <3>1. \A i \in 1..Len(branch) + 1 : branch'[i] \in blockMap
      <4> TAKE i \in 1..Len(branch) + 1
      <4>1. CASE i = 1
        BY <2>3, <2>4, <4>1, Zenon
      <4>2. CASE i # 1
        <5>1. i \in 2..Len(branch) + 1 /\ i - 1 \in 1..Len(branch)
          BY <1>3, <4>2
        <5> QED BY <1>2, <2>4, <5>1, Zenon DEF BranchInv
      <4> QED BY <4>1, <4>2, Zenon
    <3>2. \A i \in 2..Len(branch) + 1 :
             branch'[i] # Genesis /\ Parent[branch'[i]] = branch'[i - 1]
      <4> TAKE i \in 2..Len(branch) + 1
      <4>1. branch'[i] = branch[i - 1]
        BY <2>4, Zenon
      <4>2. CASE i = 2
        <5>1. i - 1 = 1
          BY <4>2
        <5> QED BY <2>2, <2>4, <4>1, <5>1, Zenon DEF a
      <4>3. CASE i # 2
        <5>1. i - 1 \in 2..Len(branch) /\ i - 1 \in 2..Len(branch) + 1
          BY <1>3, <4>3
        <5>2. branch'[i - 1] = branch[(i - 1) - 1]
          BY <2>4, <5>1, Zenon
        <5> QED BY <1>2, <4>1, <5>1, <5>2, Zenon DEF BranchInv
      <4> QED BY <4>2, <4>3, Zenon
    <3> QED BY <1>1, <2>4, <3>1, <3>2, Zenon DEF BranchInv
  <2>7. Target' = Target
    BY <1>3, <2>4, Zenon DEF Target
  <2>8. TargetInv' /\ AheadInv'
    BY <1>1, <1>2, <1>3, <2>4, <2>7 DEF TargetInv, AheadInv, heavierThan
  <2> QED BY <1>4, <2>1, <2>5, <2>6, <2>8, Zenon DEF IInv, Settled, ForkInv
<1> QED BY <1>5, <1>6, Zenon

\* revertToBlock shortens the path down to the common parent, never below it.
LEMMA revertIInv ==
  ASSUME IInv, revertToBlock
  PROVE  IInv'
<1> USE TreeAssumption
<1>1. /\ mu = "revert"
      /\ blockMap' = blockMap /\ generated' = generated
      /\ nextEntry' = nextEntry /\ tail' = tail /\ disk' = disk
      /\ dosBlocks' = dosBlocks /\ future' = future /\ arrived' = arrived
      /\ blocks' = blocks /\ applied' = applied
  BY Zenon DEF revertToBlock, clock
<1>2. BranchInv /\ TargetInv /\ AheadInv /\ InPath(branch[1])
  BY <1>1, InFork, Zenon DEF ForkInv
<1>3. /\ branch \in Seq(Block) /\ Len(branch) \in Nat /\ branch # << >>
      /\ Head(branch) = branch[1] /\ branch[1] \in Block
      /\ Target = LastOf(branch)
  <2>1. branch \in Seq(Block) /\ Len(branch) >= 1
    BY <1>2, Zenon DEF IInv, TypeOK, AheadInv
  <2>2. branch # << >> /\ Len(branch) \in Nat
    BY <2>1
  <2> QED BY <2>1, <2>2, LastIn, Zenon DEF Target
<1>4. /\ path \in Seq(Block) /\ Len(path) \in Nat /\ Len(path) >= 1
      /\ Tip = path[Len(path)] /\ Tip \in Block
      /\ generated \subseteq Block /\ reverted \in Seq(Block) /\ applied \in Seq(Block)
  BY TipFacts, Types, Zenon DEF IInv, TypeOK
<1>5. DiskInv' /\ OnlyInvalidMarked' /\ TreeInv(blockMap, generated)
  BY <1>1, Zenon DEF IInv, DiskInv, OnlyInvalidMarked, DatabaseInv
<1>6. CASE Tip # branch[1]
  <2>1. /\ path' = FrontOf(path) /\ reverted' = Append(reverted, Tip)
        /\ mu' = mu /\ branch' = branch
    BY <1>3, <1>6, Zenon DEF revertToBlock
  <2>2. /\ path' \in Seq(Block) /\ Len(path') = Len(path) - 1
        /\ \A i \in 1..Len(path) - 1 : path'[i] = path[i]
    BY <1>4, <2>1, FrontFacts, Zenon
  <2>3. Height[branch[1]] \in Nat /\ Height[branch[1]] < Len(path) - 1
    <3>1. Height[branch[1]] \in Nat
      BY <1>3, Zenon
    <3>2. Height[branch[1]] < Len(path) /\ path[Height[branch[1]] + 1] = branch[1]
      BY <1>2, Zenon DEF InPath
    <3>3. Height[branch[1]] + 1 # Len(path)
      BY <1>4, <1>6, <3>2, Zenon
    <3> QED BY <1>4, <3>1, <3>2, <3>3
  <2>4. reverted' \in Seq(Block)
    BY <1>4, <2>1, AppendFacts, Zenon
  <2>5. TypeOK'
    BY <1>1, <1>3, <1>4, <2>1, <2>2, <2>4, ForkTypes, Zenon DEF IInv, clock
  <2>6. PathInv(path, generated)'
    <3>1. PathInv(path, generated)
      BY Zenon DEF IInv, DatabaseInv
    <3>2. Len(path') >= 1 /\ path'[1] = Genesis
      <4>1. 1 \in 1..Len(path) - 1
        BY <1>4, <2>3
      <4> QED BY <1>4, <2>2, <3>1, <4>1 DEF PathInv
    <3>3. \A i \in 1..Len(path') : path'[i] \in generated /\ Height[path'[i]] = i - 1
      <4> TAKE i \in 1..Len(path')
      <4>1. i \in 1..Len(path) /\ i \in 1..Len(path) - 1
        BY <1>4, <2>2
      <4>2. path'[i] = path[i]
        BY <2>2, <4>1, Zenon
      <4> QED BY <3>1, <4>1, <4>2, Zenon DEF PathInv
    <3>4. \A i \in 2..Len(path') : path'[i] # Genesis /\ Parent[path'[i]] = path'[i - 1]
      <4> TAKE i \in 2..Len(path')
      <4>1. i \in 2..Len(path) /\ i \in 1..Len(path) - 1 /\ i - 1 \in 1..Len(path) - 1
        BY <1>4, <2>2
      <4> QED BY <2>2, <3>1, <4>1, Zenon DEF PathInv
    <3> QED BY <1>1, <3>2, <3>3, <3>4, Zenon DEF PathInv
  <2>7. Target' = Target
    BY <1>3, <2>1, Zenon DEF Target
  <2>8. BranchInv' /\ TargetInv'
    BY <1>1, <1>2, <2>1, <2>7, Zenon DEF BranchInv, TargetInv, heavierThan
  <2>9. AheadInv'
    <3>1. Len(branch') >= 1 /\ applied' = << >>
      BY <1>1, <1>2, <2>1, Zenon DEF AheadInv
    <3>2. ASSUME NEW i \in 1..Len(path') PROVE path'[i] # Target'
      <4>1. i \in 1..Len(path) - 1 /\ i \in 1..Len(path)
        BY <1>4, <2>2
      <4>2. path'[i] = path[i] /\ path[i] # Target
        BY <1>2, <2>2, <4>1, Zenon DEF AheadInv
      <4> QED BY <2>7, <4>2, Zenon
    <3> QED BY <3>1, <3>2, Zenon DEF AheadInv
  <2>10. InPath(branch[1])'
    <3>1. Height[branch[1]] + 1 \in 1..Len(path) - 1
      BY <1>4, <2>3
    <3> QED BY <1>2, <2>1, <2>2, <2>3, <3>1, Zenon DEF InPath
  <2>11. DatabaseInv'
    BY <1>1, <1>5, <2>6, Zenon DEF DatabaseInv
  <2> QED BY <1>1, <1>5, <2>1, <2>5, <2>8, <2>9, <2>10, <2>11, Zenon DEF IInv, Settled, ForkInv
<1>7. CASE Tip = branch[1]
  <2>1. /\ path' = path /\ reverted' = reverted
        /\ mu' = "apply" /\ branch' = Tail(branch)
    BY <1>3, <1>7, Zenon DEF revertToBlock
  <2>2. /\ branch' \in Seq(Block) /\ Len(branch') = Len(branch) - 1
        /\ \A i \in 1..Len(branch) - 1 : branch'[i] = branch[i + 1]
        /\ branch' # << >> => LastOf(branch') = LastOf(branch)
        /\ branch' = << >> => LastOf(branch) = branch[1]
    BY <1>3, <2>1, TailFacts, Zenon
  <2>3. branch' # << >>
    <3>1. path[Len(path)] # Target
      BY <1>2, <1>4 DEF AheadInv
    <3> QED BY <1>3, <1>4, <1>7, <2>2, <3>1, Zenon
  <2>4. Len(branch) >= 2
    BY <1>3, <2>2, <2>3
  <2>5. TypeOK'
    BY <1>1, <1>4, <2>1, <2>2, ForkTypes, Zenon DEF IInv, clock
  <2>6. DatabaseInv'
    BY <1>1, <2>1, Zenon DEF IInv, DatabaseInv
  <2>7. Target' = Target /\ Tip' = Tip
    BY <1>3, <2>1, <2>2, <2>3, Zenon DEF Target, Tip
  <2>8. BranchInv'
    <3>1. \A i \in 1..Len(branch') : branch'[i] \in blockMap
      <4> TAKE i \in 1..Len(branch')
      <4>1. i \in 1..Len(branch) - 1 /\ i + 1 \in 1..Len(branch)
        BY <1>3, <2>2
      <4> QED BY <1>2, <2>2, <4>1, Zenon DEF BranchInv
    <3>2. \A i \in 2..Len(branch') :
             branch'[i] # Genesis /\ Parent[branch'[i]] = branch'[i - 1]
      <4> TAKE i \in 2..Len(branch')
      <4>1. /\ i \in 1..Len(branch) - 1 /\ i - 1 \in 1..Len(branch) - 1
            /\ i + 1 \in 2..Len(branch) /\ (i + 1) - 1 = i /\ (i - 1) + 1 = i
        BY <1>3, <2>2
      <4>2. branch'[i] = branch[i + 1] /\ branch'[i - 1] = branch[i]
        BY <2>2, <4>1, Zenon
      <4> QED BY <1>2, <4>1, <4>2, Zenon DEF BranchInv
    <3> QED BY <1>1, <3>1, <3>2, Zenon DEF BranchInv
  <2>9. TargetInv'
    BY <1>1, <1>2, <2>7, Zenon DEF TargetInv, heavierThan
  <2>10. ApplyInv'
    <3>1. branch'[1] = branch[2]
      BY <1>3, <2>2, <2>4
    <3>2. 2 \in 2..Len(branch) /\ 2 - 1 = 1
      BY <1>3, <2>4
    <3>3. branch[2] # Genesis /\ Parent[branch[2]] = branch[1]
      BY <1>2, <3>2, Zenon DEF BranchInv
    <3> QED BY <1>7, <2>3, <2>7, <3>1, <3>3, Zenon DEF ApplyInv
  <2> QED BY <1>5, <2>1, <2>5, <2>6, <2>8, <2>9, <2>10, Zenon DEF IInv, Settled, ForkInv
<1> QED BY <1>6, <1>7, Zenon

\* A block is applied on top of its parent, so it is valid with its ancestors.
LEMMA ApplyIInv ==
  ASSUME IInv, ApplyBlock
  PROVE  IInv'
<1> USE TreeAssumption
<1> DEFINE b == branch[1]
<1>1. /\ mu = "apply" /\ mu' = mu /\ branch # << >>
      /\ blockMap' = blockMap
      /\ nextEntry' = nextEntry /\ tail' = tail /\ disk' = disk
      /\ dosBlocks' = dosBlocks /\ future' = future /\ arrived' = arrived
      /\ blocks' = blocks /\ reverted' = reverted /\ branch' = Tail(branch)
  BY Zenon DEF ApplyBlock, clock
<1>2. BranchInv /\ TargetInv /\ ApplyInv
  BY <1>1, InFork, Zenon DEF ForkInv
<1>3. /\ branch \in Seq(Block) /\ Len(branch) \in Nat /\ Len(branch) >= 1
      /\ Head(branch) = b /\ b \in Block /\ Target = LastOf(branch)
  BY <1>1, LastIn, Zenon DEF IInv, TypeOK, Target
<1>4. /\ Applicable(b) /\ path' = Append(path, b)
      /\ generated' = generated \cup {b} /\ applied' = Append(applied, b)
  BY <1>3, Zenon DEF ApplyBlock
<1>5. /\ path \in Seq(Block) /\ Len(path) \in Nat /\ Len(path) >= 1
      /\ Tip = path[Len(path)] /\ Tip \in generated /\ Height[Tip] = Len(path) - 1
      /\ generated \subseteq Block /\ reverted \in Seq(Block) /\ applied \in Seq(Block)
  BY TipFacts, Types, Zenon DEF IInv, TypeOK
<1>6. b \in blockMap /\ b # Genesis /\ Parent[b] = Tip
  BY <1>1, <1>2, <1>3 DEF BranchInv, ApplyInv
<1> HIDE DEF b
<1>7. TreeInv(blockMap, generated)'
  <2>1. TreeInv(blockMap, generated)
    BY Zenon DEF IInv, DatabaseInv
  <2>2. b \in FullyValid
    BY <1>3, <1>4, <1>5, <1>6, <2>1, RulesAssumption, Zenon DEF Applicable, TreeInv
  <2> QED BY <1>1, <1>4, <1>6, <2>1, <2>2, Zenon DEF TreeInv
<1>8. /\ path' \in Seq(Block) /\ Len(path') = Len(path) + 1
      /\ \A i \in 1..Len(path) : path'[i] = path[i]
      /\ path'[Len(path) + 1] = b /\ Tip' = b
  BY <1>3, <1>4, <1>5, AppendFacts DEF Tip
<1>9. PathInv(path, generated)'
  <2>1. PathInv(path, generated)
    BY Zenon DEF IInv, DatabaseInv
  <2>2. Len(path') >= 1 /\ path'[1] = Genesis
    BY <1>5, <1>8, <2>1 DEF PathInv
  <2>3. \A i \in 1..Len(path') : path'[i] \in generated' /\ Height[path'[i]] = i - 1
    <3> TAKE i \in 1..Len(path')
    <3>1. CASE i \in 1..Len(path)
      BY <1>4, <1>8, <2>1, <3>1, Zenon DEF PathInv
    <3>2. CASE i = Len(path) + 1
      <4>1. Height[b] = Height[Tip] + 1
        BY <1>3, <1>6, Zenon
      <4> QED BY <1>4, <1>5, <1>8, <3>2, <4>1
    <3> QED BY <1>5, <1>8, <3>1, <3>2
  <2>4. \A i \in 2..Len(path') : path'[i] # Genesis /\ Parent[path'[i]] = path'[i - 1]
    <3> TAKE i \in 2..Len(path')
    <3>1. CASE i \in 2..Len(path)
      <4>1. i \in 1..Len(path) /\ i - 1 \in 1..Len(path)
        BY <1>5, <3>1
      <4> QED BY <1>8, <2>1, <3>1, <4>1, Zenon DEF PathInv
    <3>2. CASE i = Len(path) + 1
      <4>1. i - 1 = Len(path) /\ Len(path) \in 1..Len(path)
        BY <1>5, <3>2
      <4> QED BY <1>5, <1>6, <1>8, <3>2, <4>1, Zenon
    <3> QED BY <1>5, <1>8, <3>1, <3>2
  <2> QED BY <2>2, <2>3, <2>4, Zenon DEF PathInv
<1>10. DiskInv' /\ OnlyInvalidMarked'
  BY <1>1, Zenon DEF IInv, DiskInv, OnlyInvalidMarked
<1>11. /\ branch' \in Seq(Block) /\ Len(branch') = Len(branch) - 1
       /\ \A i \in 1..Len(branch) - 1 : branch'[i] = branch[i + 1]
       /\ branch' # << >> => LastOf(branch') = LastOf(branch)
       /\ branch' = << >> => LastOf(branch) = b
  BY <1>1, <1>3, TailFacts, Zenon DEF b
<1>12. applied' \in Seq(Block) /\ applied' # << >> /\ LastOf(applied') = b
  <2>1. applied \in Seq(Block) /\ b \in Block
    BY <1>3, <1>5, Zenon
  <2>2. Append(applied, b) \in Seq(Block) /\ LastOf(Append(applied, b)) = b
    BY <2>1, AppendFacts
  <2>3. Append(applied, b) # << >>
    <3>1. Len(Append(applied, b)) = Len(applied) + 1 /\ Len(applied) \in Nat
      BY <2>1
    <3>2. Len(Append(applied, b)) # 0
      BY <3>1
    <3> QED BY <3>2, EmptySeq, Zenon
  <2> QED BY <1>4, <2>2, <2>3, Zenon
<1>13. TypeOK'
  <2>1. generated' \subseteq Block
    BY <1>3, <1>4, <1>5, Zenon
  <2> QED BY <1>1, <1>5, <1>8, <1>11, <1>12, <2>1, ForkTypes, Zenon DEF IInv, clock
<1>14. Target' = Target
  <2>1. CASE branch' = << >>
    BY <1>3, <1>8, <1>11, <2>1, Zenon DEF Target
  <2>2. CASE branch' # << >>
    BY <1>3, <1>11, <2>2, Zenon DEF Target
  <2> QED BY <2>1, <2>2, Zenon
<1>15. TargetInv'
  BY <1>1, <1>2, <1>14, Zenon DEF TargetInv, heavierThan
<1>16. BranchInv'
  <2>1. \A i \in 1..Len(branch') : branch'[i] \in blockMap
    <3> TAKE i \in 1..Len(branch')
    <3>1. i \in 1..Len(branch) - 1 /\ i + 1 \in 1..Len(branch)
      BY <1>3, <1>11
    <3> QED BY <1>2, <1>11, <3>1, Zenon DEF BranchInv
  <2>2. \A i \in 2..Len(branch') :
           branch'[i] # Genesis /\ Parent[branch'[i]] = branch'[i - 1]
    <3> TAKE i \in 2..Len(branch')
    <3>1. /\ i \in 1..Len(branch) - 1 /\ i - 1 \in 1..Len(branch) - 1
          /\ i + 1 \in 2..Len(branch) /\ (i + 1) - 1 = i /\ (i - 1) + 1 = i
      BY <1>3, <1>11
    <3>2. branch'[i] = branch[i + 1] /\ branch'[i - 1] = branch[i]
      BY <1>11, <3>1, Zenon
    <3> QED BY <1>2, <3>1, <3>2, Zenon DEF BranchInv
  <2> QED BY <1>1, <2>1, <2>2, Zenon DEF BranchInv
<1>17. ApplyInv'
  <2>1. ASSUME branch' # << >>
        PROVE  branch'[1] # Genesis /\ Parent[branch'[1]] = b
    <3>1. Len(branch) >= 2
      BY <1>3, <1>11, <2>1
    <3>2. branch'[1] = branch[2] /\ 2 \in 2..Len(branch) /\ 2 - 1 = 1
      BY <1>3, <1>11, <3>1
    <3> QED BY <1>2, <3>2, Zenon DEF BranchInv, b
  <2> QED BY <1>8, <1>12, <2>1, Zenon DEF ApplyInv
<1> QED BY <1>1, <1>7, <1>9, <1>10, <1>13, <1>15, <1>16, <1>17, Zenon
        DEF IInv, DatabaseInv, Settled, ForkInv

\* The entry of a finished fork ends at a tip deeper than all before it.
LEMMA NewEntryFacts ==
  ASSUME IInv, mu = "apply", branch = << >>
  PROVE  /\ applied # << >> /\ LastOf(applied) = Tip
         /\ NewEntry \in Entry /\ NewEntry.applied = applied
         /\ NewEntry \notin DOMAIN nextEntry
<1>1. TargetInv /\ ApplyInv /\ Target = Tip
  BY InFork, Zenon DEF ForkInv, Target
<1>2. applied # << >> /\ LastOf(applied) = Tip
  BY <1>1, Zenon DEF ApplyInv
<1>3. NewEntry \in Entry /\ NewEntry.applied = applied
  BY Zenon DEF NewEntry, Entry, IInv, TypeOK
<1>4. NewEntry \notin DOMAIN nextEntry
  <2> SUFFICES ASSUME NewEntry \in DOMAIN nextEntry PROVE FALSE
    BY Zenon
  <2>1. Depth[LastOf(NewEntry.applied)] < Depth[Target]
    BY <1>1, Zenon DEF TargetInv
  <2>2. Depth[Tip] \in Nat
    BY TipFacts, WorkAssumption, Zenon
  <2> QED BY <1>1, <1>2, <1>3, <2>1, <2>2
<1> QED BY <1>2, <1>3, <1>4, Zenon

\* A finished fork is settled again: its target is the deepest known block.
LEMMA FinishIInv ==
  ASSUME IInv, FinishBlock
  PROVE  IInv'
<1>1. /\ mu = "apply" /\ branch = << >> /\ mu' = "batch"
      /\ blockMap' = blockMap /\ generated' = generated /\ path' = path
      /\ disk' = disk /\ dosBlocks' = dosBlocks
      /\ future' = future /\ arrived' = arrived /\ blocks' = blocks
      /\ branch' = << >> /\ reverted' = << >> /\ applied' = << >>
  BY Zenon DEF FinishBlock, clock
<1>2. TargetInv /\ ApplyInv /\ Target = Tip
  BY <1>1, InFork, Zenon DEF ForkInv, Target
<1>3. /\ applied # << >> /\ LastOf(applied) = Tip
      /\ NewEntry \in Entry /\ NewEntry.applied = applied
  BY <1>1, NewEntryFacts, Zenon
<1>4. /\ DOMAIN nextEntry' = DOMAIN nextEntry \cup {NewEntry}
      /\ tail' = NewEntry
      /\ \A e \in DOMAIN nextEntry \cup {NewEntry} :
            nextEntry'[e] \in {NewEntry, NoEntry, nextEntry[e]}
            /\ (e \notin DOMAIN nextEntry => nextEntry'[e] \in {NewEntry, NoEntry})
  BY Zenon DEF FinishBlock, appendChangeLog
<1>5. TypeOK'
  <2>1. NoEntry \in Entry
    BY DEF NoEntry, Entry
  <2>2. \A e \in DOMAIN nextEntry' : e \in Entry /\ nextEntry'[e] \in Entry
    BY <1>3, <1>4, <2>1, Types, Zenon DEF IInv
  <2>3. DatabaseOK(disk)' /\ DatabaseOK(Database)'
    BY <1>1, <1>3, <1>4, <2>2, Zenon DEF IInv, TypeOK, DatabaseOK, Database
  <2> QED BY <1>1, <2>3, Zenon DEF IInv, TypeOK
<1>6. DatabaseInv' /\ DiskInv' /\ OnlyInvalidMarked'
  BY <1>1, Zenon DEF IInv, DatabaseInv, DiskInv, OnlyInvalidMarked
<1>7. Tip' = Tip /\ Tip \in Block /\ blockMap \subseteq Block
  BY <1>1, TipFacts, Types, Zenon DEF Tip, IInv
<1>8. Heaviest(blockMap, Tip)
  BY <1>2, <1>7, DeepestIsHeaviest, Zenon DEF TargetInv
<1>9. LogUpTo(nextEntry, Tip)'
  <2>1. \A e \in DOMAIN nextEntry :
           e.applied # << >> /\ Depth[LastOf(e.applied)] <= Depth[Tip]
    <3> TAKE e \in DOMAIN nextEntry
    <3>1. e.applied # << >> /\ Depth[LastOf(e.applied)] < Depth[Tip]
      BY <1>2, Zenon DEF TargetInv
    <3>2. LastOf(e.applied) \in Block
      <4>1. e.applied \in Seq(Block)
        BY Types, Zenon DEF IInv, Entry
      <4> QED BY <3>1, <4>1, LastIn, Zenon
    <3>3. Depth[LastOf(e.applied)] \in Nat /\ Depth[Tip] \in Nat
      BY <1>7, <3>2, WorkAssumption, Zenon
    <3> QED BY <3>1, <3>3
  <2>2. NewEntry.applied # << >> /\ Depth[LastOf(NewEntry.applied)] <= Depth[Tip]
    <3>1. Depth[Tip] \in Nat
      BY <1>7, WorkAssumption, Zenon
    <3> QED BY <1>3, <3>1
  <2> QED BY <1>4, <1>7, <2>1, <2>2, Zenon DEF LogUpTo
<1>10. Settled' /\ SettledInv'
  BY <1>1, <1>2, <1>7, <1>8, <1>9, Zenon
     DEF Settled, SettledInv, TargetInv, Heaviest, heavierThan
<1> QED BY <1>5, <1>6, <1>10, Zenon DEF IInv

\* What is committed is settled.
LEMMA CommitIInv ==
  ASSUME IInv, Commit
  PROVE  IInv'
<1>1. /\ mu = "batch" /\ mu' = "free" /\ disk' = Database
      /\ blockMap' = blockMap /\ generated' = generated /\ path' = path
      /\ nextEntry' = nextEntry /\ tail' = tail
      /\ dosBlocks' = dosBlocks /\ future' = future /\ arrived' = arrived
      /\ blocks' = blocks /\ branch' = branch
      /\ reverted' = reverted /\ applied' = applied
  BY Zenon DEF Commit, db, clock, fork
<1>2. /\ disk'.blockMap = blockMap /\ disk'.generated = generated
      /\ disk'.path = path /\ disk'.nextEntry = nextEntry /\ disk'.tail = tail
  BY <1>1, Zenon DEF Database
<1>3. SettledInv /\ DatabaseInv
  BY <1>1, Zenon DEF IInv, Settled
<1>4. TypeOK'
  <2>1. DatabaseOK(Database)' /\ DatabaseOK(disk)'
    BY <1>1, <1>2, Types, Zenon DEF IInv, DatabaseOK, Database
  <2> QED BY <1>1, <2>1, Zenon DEF IInv, TypeOK
<1>5. DatabaseInv' /\ OnlyInvalidMarked'
  BY <1>1, Zenon DEF IInv, DatabaseInv, OnlyInvalidMarked
<1>6. DiskInv'
  BY <1>2, <1>3, Zenon DEF DiskInv, DatabaseInv, SettledInv, Tip, Heaviest, LogUpTo, heavierThan
<1>7. Settled' /\ SettledInv'
  BY <1>1, <1>2, <1>3, Zenon DEF Settled, SettledInv, Tip, Heaviest, LogUpTo, heavierThan
<1> QED BY <1>4, <1>5, <1>6, <1>7, Zenon DEF IInv

\* Every step preserves the invariant.
LEMMA NextIInv == IInv /\ [Next]_vars => IInv'
<1> SUFFICES ASSUME IInv, [Next]_vars PROVE IInv'
  BY Zenon
<1>0. /\ dosBlocks \subseteq Block /\ dosBlocks \cap Valid = {}
      /\ future \subseteq Early /\ arrived \subseteq Early
  BY Zenon DEF IInv, TypeOK, OnlyInvalidMarked
<1>1. ASSUME NEW bs \in Batches, AcceptBlocks(bs) PROVE IInv'
  <2>1. /\ UNCHANGED <<db, disk, dosBlocks, fork>> /\ Settled /\ Settled'
        /\ future' = future /\ arrived' = arrived /\ blocks' = bs
    BY <1>1, Zenon DEF AcceptBlocks, Lock, Settled
  <2>2. bs \in Seq(Block)
    BY BatchAssumption, Zenon
  <2> QED BY <1>0, <2>1, <2>2, LockIInv, Zenon
<1>2. ASSUME NEW b \in Block, SleepOnFutureBlock(b) PROVE IInv'
  <2>1. /\ UNCHANGED <<db, disk, dosBlocks, fork>> /\ Settled /\ Settled'
        /\ future' = future \ {b} /\ arrived' = arrived /\ blocks' = <<b>>
    BY <1>2, Zenon DEF SleepOnFutureBlock, Lock, Settled
  <2>2. <<b>> \in Seq(Block)
    OBVIOUS
  <2> QED BY <1>0, <2>1, <2>2, LockIInv, Zenon
<1>3. ASSUME NEW b \in Block, ClockReaches(b) PROVE IInv'
  <2>1. /\ arrived' = arrived \cup {b} /\ b \in Early
        /\ blockMap' = blockMap /\ generated' = generated /\ path' = path
        /\ nextEntry' = nextEntry /\ tail' = tail /\ disk' = disk
        /\ dosBlocks' = dosBlocks /\ future' = future /\ mu' = mu
        /\ blocks' = blocks /\ branch' = branch
        /\ reverted' = reverted /\ applied' = applied
    BY <1>3, Zenon DEF ClockReaches, db, fork
  <2>2. TypeOK'
    BY <1>0, <2>1, Zenon DEF IInv, TypeOK, DatabaseOK, Database
  <2>3. DatabaseInv' /\ DiskInv' /\ OnlyInvalidMarked'
    BY <2>1, Zenon DEF IInv, DatabaseInv, DiskInv, OnlyInvalidMarked
  <2>4. (Settled => SettledInv)'
    BY <2>1, Zenon DEF IInv, Settled, SettledInv, Tip
  <2>5. (~Settled => ForkInv)'
    BY <2>1, Zenon DEF IInv, Settled, ForkInv, BranchInv, TargetInv, AheadInv, ApplyInv,
                Target, Tip, InPath
  <2> QED BY <2>2, <2>3, <2>4, <2>5, Zenon DEF IInv
<1>4. CASE RefuseBlock
  BY <1>0, <1>4, RollbackIInv, Zenon DEF RefuseBlock, clock
<1>5. CASE PostponeBlock
  <2>1. Rollback /\ future' = future \cup {Head(blocks)}
        /\ arrived' = arrived /\ dosBlocks' = dosBlocks
    BY <1>5, Zenon DEF PostponeBlock
  <2>2. Head(blocks) \in Early
    BY <1>5, Zenon DEF PostponeBlock, Checking, validateHeaderAndBlock
  <2> QED BY <1>0, <2>1, <2>2, RollbackIInv, Zenon
<1>6. CASE SkipKnownBlock
  <2>1. /\ UNCHANGED <<db, disk, dosBlocks, fork>> /\ Settled /\ Settled'
        /\ future' = future /\ arrived' = arrived
        /\ blocks # << >> /\ blocks' = Tail(blocks)
    BY <1>6, Zenon DEF SkipKnownBlock, Checking, Settled, clock
  <2> QED BY <1>0, <2>1, HeadBlock, LockIInv, Zenon DEF IInv
<1>7. CASE addBlockToTree
  BY <1>7, addBlockToTreeIInv, Zenon
<1>8. CASE backtrackToCurrentPath
  BY <1>8, backtrackIInv, Zenon
<1>9. CASE revertToBlock
  BY <1>9, revertIInv, Zenon
<1>10. CASE ApplyBlock
  BY <1>10, ApplyIInv, Zenon
<1>11. CASE ApplyInvalidBlock
  <2>1. /\ Rollback /\ dosBlocks' = dosBlocks \cup {Head(branch)}
        /\ future' = future /\ arrived' = arrived /\ branch # << >>
        /\ Head(branch) \notin Valid
    BY <1>11, Zenon DEF ApplyInvalidBlock, Applicable, clock
  <2>2. Head(branch) \in Block
    BY <2>1, LastIn, Zenon DEF IInv, TypeOK
  <2> QED BY <1>0, <2>1, <2>2, RollbackIInv, Zenon
<1>12. CASE FinishBlock
  BY <1>12, FinishIInv, Zenon
<1>13. CASE FailSanityCheck
  BY <1>0, <1>13, RollbackIInv, Zenon DEF FailSanityCheck, clock
<1>14. CASE Commit
  BY <1>14, CommitIInv, Zenon
<1>15. CASE Crash
  <2>1. Rollback /\ dosBlocks' = {} /\ future' = {} /\ arrived' = arrived
    BY <1>15, Zenon DEF Crash
  <2> QED BY <1>0, <2>1, RollbackIInv, Zenon
<1>16. CASE UNCHANGED vars
  BY <1>16, Zenon DEF vars, db, clock, fork, IInv, TypeOK, DatabaseOK, Database,
       DatabaseInv, DiskInv, OnlyInvalidMarked, Settled, SettledInv, ForkInv,
       BranchInv, TargetInv, AheadInv, ApplyInv, Target, Tip, InPath
<1> QED BY <1>1, <1>2, <1>3, <1>4, <1>5, <1>6, <1>7, <1>8, <1>9, <1>10, <1>11,
           <1>12, <1>13, <1>14, <1>15, <1>16, Zenon DEF Next, Run, AddBlocks

-----------------------------------------------------------------------------
(* Theorems *)

\* The inductive invariant holds of every reachable state.
THEOREM Invariance == Spec => []IInv
BY InitIInv, NextIInv, PTL DEF Spec

\* The state keeps its types.
THEOREM TypeCorrect == Spec => []TypeOK
<1>1. IInv => TypeOK
  BY Zenon DEF IInv
<1> QED BY Invariance, <1>1, PTL

\* BlockPath is a chain from the genesis block at every point of a fork.
THEOREM PathAlwaysChain == Spec => []PathIsChain
<1>1. IInv => PathIsChain
  <2> SUFFICES ASSUME IInv PROVE PathIsChain
    BY Zenon
  <2>1. path \in Seq(Block) /\ PathInv(path, generated)
    BY Types, Zenon DEF IInv, DatabaseInv
  <2>2. path # << >>
    BY <2>1, EmptySeq DEF PathInv
  <2> QED BY <2>1, <2>2, Zenon DEF PathInv, PathIsChain
<1> QED BY Invariance, <1>1, PTL

\* Only blocks that are valid with all their ancestors are current or trusted.
THEOREM OnlyValidApplied == Spec => []OnlyValidBlocks
<1>1. IInv => OnlyValidBlocks
  BY Zenon DEF IInv, DatabaseInv, TreeInv, PathInv, OnlyValidBlocks
<1> QED BY Invariance, <1>1, PTL

\* Between blocks, no known block is sufficiently heavier than the tip.
THEOREM TipHeaviest == Spec => []HeaviestTip
<1>1. IInv => HeaviestTip
  BY Zenon DEF IInv, SettledInv, Heaviest, HeaviestTip
<1> QED BY Invariance, <1>1, PTL

\* The DoS mark never shuts out a block that could be applied.
THEOREM MarkedInvalid == Spec => []OnlyInvalidMarked
<1>1. IInv => OnlyInvalidMarked
  BY Zenon DEF IInv
<1> QED BY Invariance, <1>1, PTL

\* All of it together, for every tree, every assignment of work and validity
\* and every order of calls, rollbacks and crashes.
THEOREM ChainAlwaysSound == Spec => []ChainSound
<1>1. TypeOK /\ PathIsChain /\ OnlyValidBlocks /\ HeaviestTip /\ OnlyInvalidMarked => ChainSound
  BY Zenon DEF ChainSound
<1> QED BY <1>1, TypeCorrect, PathAlwaysChain, OnlyValidApplied, TipHeaviest, MarkedInvalid, PTL

\* No change entry enters the changelog twice.
THEOREM EntriesFresh == Spec => FreshEntries
<1>1. IInv /\ [Next]_vars => [FinishBlock => NewEntry \notin DOMAIN nextEntry]_vars
  BY NewEntryFacts, Zenon DEF FinishBlock
<1> QED BY Invariance, <1>1, PTL DEF Spec, FreshEntries

\* Only a commit moves the tip on disk, and only to a heavier valid block.
LEMMA DiskStep ==
  ASSUME IInv, [Next]_vars
  PROVE  \/ LastOf(disk.path)' = LastOf(disk.path)
         \/ /\ LastOf(disk.path)' \in FullyValid
            /\ heavierThan(LastOf(disk.path)', LastOf(disk.path))
<1>1. CASE Commit
  <2>1. mu = "batch" /\ disk'.path = path
    BY <1>1, Zenon DEF Commit, Database
  <2>2. LastOf(disk.path)' = Tip
    BY <2>1, Zenon DEF Tip
  <2>3. Tip \in FullyValid
    BY TipFacts, Zenon DEF IInv, DatabaseInv, TreeInv
  <2>4. Tip = LastOf(disk.path) \/ heavierThan(Tip, LastOf(disk.path))
    BY <2>1, Zenon DEF IInv, Settled, SettledInv
  <2> QED BY <2>2, <2>3, <2>4, Zenon
<1>2. CASE ~Commit
  <2>1. disk' = disk
    BY <1>2, Zenon DEF Next, Run, AddBlocks, AcceptBlocks, SleepOnFutureBlock, Lock,
         ClockReaches, RefuseBlock, PostponeBlock, SkipKnownBlock, addBlockToTree,
         backtrackToCurrentPath, revertToBlock, ApplyBlock, ApplyInvalidBlock,
         FinishBlock, FailSanityCheck, Crash, Rollback, vars
  <2> QED BY <2>1, Zenon
<1> QED BY <1>1, <1>2, Zenon

\* The node implements the abstract specification of its committed tip.
THEOREM Refinement == Spec => ImplementsHeaviestChain
<1>1. Init => Abstract!Init
  BY DEF Init, Database, Abstract!Init, LastOf
<1>2. IInv /\ [Next]_vars => [Abstract!Next]_(LastOf(disk.path))
  BY DiskStep, Zenon DEF Abstract!Next, Abstract!Extend
<1> QED BY Invariance, <1>1, <1>2, PTL DEF Spec, ImplementsHeaviestChain, Abstract!Spec

-----------------------------------------------------------------------------
(* The changelog.  Its entries in order and the path after each of them are *)
(* the witnesses es and rs; that EntryAt and Replayed compute them is an     *)
(* induction over the positions of the log.                                 *)

LogIs(log, tl, n, es, rs) ==
    /\ n \in Nat \ {0}
    /\ es \in [1..n -> Entry]
    /\ rs \in [1..n -> Seq(Block)]
    /\ IsFiniteSet(DOMAIN log) /\ Cardinality(DOMAIN log) = n
    /\ es[1] = GenesisEntry /\ es[n] = tl
    /\ \A i \in 1..n : es[i] \in DOMAIN log
    /\ log[tl] = NoEntry
    /\ \A i \in 1..n - 1 : es[i] # tl /\ log[es[i]] = es[i + 1]
    /\ rs[1] = <<Genesis>>
    /\ \A i \in 1..n - 1 : rs[i + 1] = Replay(rs[i], es[i + 1])

\* Replaying the log and then the entry e, which is not in it yet, leads to p.
LogTracks(log, tl, p, e) ==
    \E n, es, rs :
        /\ LogIs(log, tl, n, es, rs)
        /\ Len(e.reverted) <= Len(rs[n])
        /\ p = Replay(rs[n], e)

LogInv ==
    /\ LogTracks(nextEntry, tail, path, NewEntry)
    /\ LogTracks(disk.nextEntry, disk.tail, disk.path, NoEntry)

\* A nonempty set of natural numbers has a least element.
LEMMA LeastNatural ==
  ASSUME NEW T, T \subseteq Nat, T # {}
  PROVE  \E m \in T : \A k \in T : m <= k
<1> DEFINE R == OpToRel(<, Nat)
<1>1. IsWellFoundedOn(R, Nat)
  BY NatLessThanWellFounded, Zenon
<1>2. \A k, m \in Nat : k < m => <<k, m>> \in R
  BY SMT, Zenon DEF OpToRel
<1> HIDE DEF R
<1>3. PICK m \in T : \A k \in T : ~ (<<k, m>> \in R)
  BY <1>1, WFMin, Zenon
<1>4. \A k \in T : ~ k < m
  BY <1>2, <1>3, Zenon
<1>5. \A k \in T : m <= k
  BY <1>4, SMT, Zenon
<1> QED BY <1>5, Zenon

\* Two sequences that start alike and go on alike are alike.
LEMMA SameSequence ==
  ASSUME NEW n \in Nat \ {0}, NEW f, NEW g,
         f[1] = g[1],
         \A i \in 1..n - 1 : f[i] = g[i] => f[i + 1] = g[i + 1]
  PROVE  \A i \in 1..n : f[i] = g[i]
<1> DEFINE T == {i \in 1..n : f[i] # g[i]}
<1> SUFFICES ASSUME T # {} PROVE FALSE
  BY Zenon
<1>1. T \subseteq Nat
  OBVIOUS
<1>2. PICK m \in T : \A k \in T : m <= k
  <2> HIDE DEF T
  <2> QED BY <1>1, LeastNatural, Zenon
<1>3. m \in 1..n /\ f[m] # g[m] /\ m # 1
  BY Zenon
<1>4. m - 1 \in 1..n - 1 /\ (m - 1) + 1 = m /\ ~(m <= m - 1)
  BY <1>3
<1>5. m - 1 \notin T
  BY <1>2, <1>4, Zenon
<1>6. f[m - 1] = g[m - 1]
  BY <1>4, <1>5
<1>7. f[(m - 1) + 1] = g[(m - 1) + 1]
  BY <1>4, <1>6, Zenon
<1> QED BY <1>3, <1>4, <1>7, Zenon

\* The elements of a replayed path.
LEMMA ReplayFacts ==
  ASSUME NEW p \in Seq(Block), NEW e \in Entry, Len(e.reverted) <= Len(p)
  PROVE  LET k == Len(p) - Len(e.reverted)
         IN  /\ Replay(p, e) \in Seq(Block)
             /\ k \in Nat
             /\ Len(Replay(p, e)) = k + Len(e.applied)
             /\ \A i \in 1..k : Replay(p, e)[i] = p[i]
             /\ \A i \in 1..Len(e.applied) : Replay(p, e)[k + i] = e.applied[i]
<1> DEFINE k == Len(p) - Len(e.reverted)
           f == SubSeq(p, 1, k)
<1>1. e.reverted \in Seq(Block) /\ e.applied \in Seq(Block)
  BY Zenon DEF Entry
<1>2. Len(p) \in Nat /\ Len(e.reverted) \in Nat /\ k \in Nat /\ k <= Len(p)
  BY <1>1
<1>3. f \in Seq(Block) /\ Len(f) = k /\ \A i \in 1..k : f[i] = p[i]
  <2>1. k \in Int /\ 1 \in Int /\ \A i \in 1..k : p[i] \in Block
    BY <1>2
  <2> HIDE DEF k
  <2>2. /\ f \in Seq(Block)
        /\ Len(f) = IF 1 <= k THEN k - 1 + 1 ELSE 0
        /\ \A i \in 1..k - 1 + 1 : f[i] = p[1 + i - 1]
    BY <2>1, SubSeqProperties, SMT, Zenon
  <2> HIDE DEF f
  <2> QED BY <1>2, <2>2
<1>4. Replay(p, e) = f \o e.applied
  BY Zenon DEF Replay
<1> HIDE DEF f
<1>5. /\ Replay(p, e) \in Seq(Block)
      /\ Len(Replay(p, e)) = Len(f) + Len(e.applied)
      /\ \A i \in 1..Len(f) : Replay(p, e)[i] = f[i]
      /\ \A i \in 1..Len(e.applied) : Replay(p, e)[Len(f) + i] = e.applied[i]
  <2> DEFINE a == e.applied
  <2> HIDE DEF a, k
  <2>1. a \in Seq(Block) /\ Len(a) \in Nat /\ Len(f) \in Nat
    BY <1>1, <1>3 DEF a
  <2>2. /\ f \o a \in Seq(Block) /\ Len(f \o a) = Len(f) + Len(a)
        /\ \A i \in 1..Len(f) + Len(a) :
              (f \o a)[i] = IF i <= Len(f) THEN f[i] ELSE a[i - Len(f)]
    BY <1>3, <2>1, ConcatProperties, Zenon
  <2>3. \A i \in 1..Len(f) : (f \o a)[i] = f[i]
    BY <2>1, <2>2
  <2>4. ASSUME NEW i \in 1..Len(a) PROVE (f \o a)[Len(f) + i] = a[i]
    <3>1. /\ Len(f) + i \in 1..Len(f) + Len(a) /\ ~(Len(f) + i <= Len(f))
          /\ (Len(f) + i) - Len(f) = i
      BY <2>1
    <3> QED BY <2>2, <3>1, Zenon
  <2> QED BY <1>4, <2>2, <2>3, <2>4, Zenon DEF a
<1> HIDE DEF k
<1>6. /\ Len(Replay(p, e)) = k + Len(e.applied)
      /\ \A i \in 1..k : Replay(p, e)[i] = p[i]
      /\ \A i \in 1..Len(e.applied) : Replay(p, e)[k + i] = e.applied[i]
  BY <1>3, <1>5, Zenon
<1> QED BY <1>2, <1>5, <1>6, Zenon DEF k

\* An entry without blocks leaves the path as it is.
LEMMA ReplayNothing ==
  ASSUME NEW p \in Seq(Block)
  PROVE  Replay(p, NoEntry) = p
<1>1. NoEntry \in Entry /\ Len(NoEntry.reverted) = 0 /\ Len(NoEntry.applied) = 0
  BY DEF NoEntry, Entry
<1>2. Len(p) \in Nat /\ Len(p) - 0 = Len(p) /\ Len(p) + 0 = Len(p) /\ 0 <= Len(p)
  OBVIOUS
<1>3. /\ Replay(p, NoEntry) \in Seq(Block) /\ Len(Replay(p, NoEntry)) = Len(p)
      /\ \A i \in 1..Len(p) : Replay(p, NoEntry)[i] = p[i]
  <2> DEFINE k == Len(p) - Len(NoEntry.reverted)
             q == Replay(p, NoEntry)
  <2>1. q \in Seq(Block) /\ Len(q) = k + Len(NoEntry.applied) /\ \A i \in 1..k : q[i] = p[i]
    BY <1>1, <1>2, ReplayFacts, Zenon
  <2>2. k = Len(p)
    BY <1>1, <1>2, Zenon
  <2> HIDE DEF k, q
  <2>3. Len(q) = Len(p)
    BY <1>1, <1>2, <2>1, <2>2, Zenon
  <2> QED BY <2>1, <2>2, <2>3, Zenon DEF q
<1> QED BY <1>3, SeqEqual, Zenon

\* Reverting the tip is replaying an entry that reverts one block more.
LEMMA ReplayRevert ==
  ASSUME NEW p \in Seq(Block), NEW e \in Entry, NEW b \in Block,
         e.applied = << >>, Len(e.reverted) < Len(p)
  PROVE  LET f == [reverted |-> Append(e.reverted, b), applied |-> << >>]
         IN  /\ Len(f.reverted) <= Len(p)
             /\ FrontOf(Replay(p, e)) = Replay(p, f)
<1> DEFINE f == [reverted |-> Append(e.reverted, b), applied |-> << >>]
           q == Replay(p, e)
           r == Replay(p, f)
<1>1. e.reverted \in Seq(Block) /\ Len(e.reverted) \in Nat /\ Len(p) \in Nat
  BY DEF Entry
<1>2. /\ f \in Entry /\ f.applied = << >> /\ Len(f.applied) = 0
      /\ Len(f.reverted) = Len(e.reverted) + 1
  BY <1>1, AppendFacts DEF Entry
<1>3. Len(e.applied) = 0 /\ Len(f.reverted) <= Len(p) /\ Len(e.reverted) <= Len(p)
  BY <1>1, <1>2
<1> HIDE DEF f
<1>4. /\ q \in Seq(Block) /\ Len(q) = Len(p) - Len(e.reverted)
      /\ \A i \in 1..Len(q) : q[i] = p[i]
  <2> DEFINE k == Len(p) - Len(e.reverted)
  <2>1. q \in Seq(Block) /\ Len(q) = k + Len(e.applied) /\ \A i \in 1..k : q[i] = p[i]
    BY <1>3, ReplayFacts, Zenon
  <2>2. k \in Nat
    BY <1>1, <1>3
  <2> HIDE DEF k, q
  <2>3. Len(q) = k
    BY <1>3, <2>1, <2>2
  <2> QED BY <2>1, <2>3, Zenon DEF k
<1>5. /\ r \in Seq(Block) /\ Len(r) = Len(p) - Len(f.reverted)
      /\ \A i \in 1..Len(r) : r[i] = p[i]
  <2> DEFINE k == Len(p) - Len(f.reverted)
  <2>1. r \in Seq(Block) /\ Len(r) = k + Len(f.applied) /\ \A i \in 1..k : r[i] = p[i]
    BY <1>2, <1>3, ReplayFacts, Zenon
  <2>2. k \in Nat
    BY <1>1, <1>2, <1>3
  <2> HIDE DEF k, r
  <2>3. Len(r) = k
    BY <1>2, <2>1, <2>2
  <2> QED BY <2>1, <2>3, Zenon DEF k
<1> HIDE DEF q, r
<1>6. /\ FrontOf(q) \in Seq(Block) /\ Len(FrontOf(q)) = Len(q) - 1
      /\ \A i \in 1..Len(q) - 1 : FrontOf(q)[i] = q[i]
  <2>1. Len(q) >= 1
    BY <1>1, <1>4
  <2> QED BY <1>4, <2>1, FrontFacts, Zenon
<1>7. Len(r) = Len(q) - 1 /\ Len(r) \in Nat /\ Len(q) \in Nat
  BY <1>1, <1>2, <1>3, <1>4, <1>5
<1>8. ASSUME NEW i \in 1..Len(r) PROVE FrontOf(q)[i] = r[i]
  <2>1. i \in 1..Len(q) - 1 /\ i \in 1..Len(q)
    BY <1>7
  <2>2. FrontOf(q)[i] = q[i] /\ q[i] = p[i] /\ r[i] = p[i]
    BY <1>4, <1>5, <1>6, <2>1, Zenon
  <2> QED BY <2>2, Zenon
<1>9. FrontOf(q) = r
  BY <1>5, <1>6, <1>7, <1>8, SeqEqual, Zenon
<1> QED BY <1>3, <1>9, Zenon DEF f, q, r

\* Applying a block is replaying an entry that applies one block more.
LEMMA ReplayApply ==
  ASSUME NEW p \in Seq(Block), NEW e \in Entry, NEW b \in Block,
         Len(e.reverted) <= Len(p)
  PROVE  Append(Replay(p, e), b)
            = Replay(p, [reverted |-> e.reverted, applied |-> Append(e.applied, b)])
<1> DEFINE f == [reverted |-> e.reverted, applied |-> Append(e.applied, b)]
           q == Replay(p, e)
           r == Replay(p, f)
           k == Len(p) - Len(e.reverted)
<1>1. /\ e.reverted \in Seq(Block) /\ e.applied \in Seq(Block)
      /\ Len(e.reverted) \in Nat /\ Len(p) \in Nat /\ Len(e.applied) \in Nat /\ k \in Nat
  BY DEF Entry
<1>2. /\ f \in Entry /\ f.reverted = e.reverted /\ f.applied = Append(e.applied, b)
      /\ Len(f.applied) = Len(e.applied) + 1
      /\ \A i \in 1..Len(e.applied) : f.applied[i] = e.applied[i]
      /\ f.applied[Len(e.applied) + 1] = b
  BY <1>1, AppendFacts DEF Entry
<1> HIDE DEF f
<1>3. /\ q \in Seq(Block) /\ Len(q) = k + Len(e.applied)
      /\ \A i \in 1..k : q[i] = p[i]
      /\ \A i \in 1..Len(e.applied) : q[k + i] = e.applied[i]
  BY <1>1, ReplayFacts, Zenon
<1>4. /\ r \in Seq(Block) /\ Len(r) = k + Len(f.applied)
      /\ \A i \in 1..k : r[i] = p[i]
      /\ \A i \in 1..Len(f.applied) : r[k + i] = f.applied[i]
  <2>1. Len(f.reverted) <= Len(p) /\ k = Len(p) - Len(f.reverted)
    BY <1>2, Zenon
  <2> HIDE DEF k
  <2> QED BY <1>2, <2>1, ReplayFacts, Zenon
<1> HIDE DEF q, r, k
<1>5. /\ Append(q, b) \in Seq(Block) /\ Len(Append(q, b)) = Len(q) + 1
      /\ \A i \in 1..Len(q) : Append(q, b)[i] = q[i]
      /\ Append(q, b)[Len(q) + 1] = b
  BY <1>3, AppendFacts
<1>6. ASSUME NEW i \in 1..Len(q) + 1 PROVE Append(q, b)[i] = r[i]
  <2>1. CASE i \in 1..k
    BY <1>1, <1>3, <1>4, <1>5, <2>1
  <2>2. CASE i \in k + 1..k + Len(e.applied)
    <3>1. PICK j \in 1..Len(e.applied) : i = k + j
      <4>1. i - k \in 1..Len(e.applied) /\ i = k + (i - k)
        BY <1>1, <2>2
      <4> QED BY <4>1, Zenon
    <3>2. i \in 1..Len(q) /\ j \in 1..Len(f.applied)
      BY <1>1, <1>2, <1>3, <3>1
    <3> QED BY <1>2, <1>3, <1>4, <1>5, <3>1, <3>2, Zenon
  <2>3. CASE i = k + (Len(e.applied) + 1)
    <3>1. Len(e.applied) + 1 \in 1..Len(f.applied) /\ i = Len(q) + 1
      BY <1>1, <1>2, <1>3, <2>3
    <3> QED BY <1>2, <1>4, <1>5, <2>3, <3>1, Zenon
  <2> QED BY <1>1, <1>3, <2>1, <2>2, <2>3
<1>7. Len(r) = Len(q) + 1
  BY <1>1, <1>2, <1>3, <1>4
<1>8. Append(q, b) = r
  BY <1>4, <1>5, <1>6, <1>7, SeqEqual, Zenon
<1> QED BY <1>8, Zenon DEF f, q, r

\* appendChangeLog with a fresh entry: the log replays to the path after it.
LEMMA LogAppend ==
  ASSUME NEW log, NEW tl, NEW n, NEW es, NEW rs, NEW e \in Entry,
         LogIs(log, tl, n, es, rs),
         e \notin DOMAIN log, Len(e.reverted) <= Len(rs[n]),
         NEW log2, DOMAIN log2 = DOMAIN log \cup {e},
         log2[tl] = e, log2[e] = NoEntry,
         \A x \in DOMAIN log \ {tl} : log2[x] = log[x]
  PROVE  LogTracks(log2, e, Replay(rs[n], e), NoEntry)
<1> DEFINE m == n + 1
           p == Replay(rs[n], e)
           fs == [i \in 1..m |-> IF i = m THEN e ELSE es[i]]
           ss == [i \in 1..m |-> IF i = m THEN p ELSE rs[i]]
<1>1. /\ n \in Nat \ {0} /\ es \in [1..n -> Entry] /\ rs \in [1..n -> Seq(Block)]
      /\ IsFiniteSet(DOMAIN log) /\ Cardinality(DOMAIN log) = n
      /\ es[1] = GenesisEntry /\ es[n] = tl
      /\ \A i \in 1..n : es[i] \in DOMAIN log
      /\ \A i \in 1..n - 1 : es[i] # tl /\ log[es[i]] = es[i + 1]
      /\ rs[1] = <<Genesis>>
      /\ \A i \in 1..n - 1 : rs[i + 1] = Replay(rs[i], es[i + 1])
  BY Zenon DEF LogIs
<1>2. /\ m \in Nat \ {0} /\ 1 \in 1..n /\ n \in 1..n /\ n \in 1..m /\ m \in 1..m
      /\ m - 1 = n /\ m # 1 /\ n # m
      /\ \A i \in 1..n : i \in 1..m /\ i # m
  BY <1>1
<1>3. rs[n] \in Seq(Block) /\ p \in Seq(Block)
  BY <1>1, <1>2, ReplayFacts, Zenon
<1>4. /\ DOMAIN log2 = DOMAIN log \cup {e}
      /\ log2[tl] = e /\ log2[e] = NoEntry
      /\ \A i \in 1..n - 1 : log2[es[i]] = es[i + 1]
  <2>1. ASSUME NEW i \in 1..n - 1 PROVE log2[es[i]] = es[i + 1]
    <3>1. i \in 1..n
      BY <1>1
    <3>2. es[i] \in DOMAIN log /\ es[i] # tl /\ log[es[i]] = es[i + 1]
      BY <1>1, <3>1, Zenon
    <3> QED BY <3>2, Zenon
  <2> QED BY <2>1, Zenon
<1>5. IsFiniteSet(DOMAIN log2) /\ Cardinality(DOMAIN log2) = m
  <2>1. PICK D : D = DOMAIN log
    BY Zenon
  <2>2. IsFiniteSet(D) /\ e \notin D /\ Cardinality(D) = n
    BY <1>1, <2>1, Zenon
  <2>3. IsFiniteSet(D \cup {e}) /\ Cardinality(D \cup {e}) = n + 1
    BY <2>2, FS_AddElement, Zenon
  <2> QED BY <1>4, <2>1, <2>3, Zenon
<1>6. /\ fs \in [1..m -> Entry] /\ fs[m] = e /\ \A i \in 1..n : fs[i] = es[i]
      /\ ss \in [1..m -> Seq(Block)] /\ ss[m] = p /\ \A i \in 1..n : ss[i] = rs[i]
  <2>1. \A i \in 1..m : i # m => i \in 1..n
    BY <1>1
  <2> HIDE DEF m, p
  <2> QED BY <1>1, <1>2, <1>3, <2>1, Zenon
<1> HIDE DEF fs, ss, p
<1>7. ASSUME NEW i \in 1..m PROVE fs[i] \in DOMAIN log2
  <2>1. i = m \/ i \in 1..n
    BY <1>1
  <2> QED BY <1>1, <1>4, <1>6, <2>1
<1>8. ASSUME NEW i \in 1..m - 1
      PROVE  /\ fs[i] # e /\ log2[fs[i]] = fs[i + 1]
             /\ ss[i + 1] = Replay(ss[i], fs[i + 1])
  <2>1. CASE i = n
    <3>1. /\ fs[i] = tl /\ fs[i + 1] = e /\ ss[i] = rs[n] /\ ss[i + 1] = p
          /\ tl \in DOMAIN log
      BY <1>1, <1>2, <1>6, <2>1, Zenon
    <3> QED BY <1>4, <3>1, Zenon DEF p
  <2>2. CASE i # n
    <3>1. i \in 1..n - 1 /\ i \in 1..n /\ i + 1 \in 1..n
      BY <1>1, <2>2
    <3>2. /\ fs[i] = es[i] /\ fs[i + 1] = es[i + 1]
          /\ ss[i] = rs[i] /\ ss[i + 1] = rs[i + 1]
      BY <1>6, <3>1, Zenon
    <3>3. es[i] \in DOMAIN log
      BY <1>1, <3>1, Zenon
    <3> QED BY <1>1, <1>4, <3>1, <3>2, <3>3, Zenon
  <2> QED BY <2>1, <2>2, Zenon
<1>9. fs[1] = GenesisEntry /\ ss[1] = <<Genesis>>
  BY <1>1, <1>2, <1>6, Zenon
<1>10. LogIs(log2, e, m, fs, ss)
  <2> HIDE DEF m
  <2> QED BY <1>2, <1>4, <1>5, <1>6, <1>7, <1>8, <1>9, Zenon DEF LogIs
<1>11. Len(NoEntry.reverted) <= Len(ss[m]) /\ p = Replay(ss[m], NoEntry)
  <2>1. Len(NoEntry.reverted) = 0
    BY Zenon DEF NoEntry
  <2> QED BY <1>3, <1>6, <2>1, ReplayNothing
<1> HIDE DEF m
<1>12. LogTracks(log2, e, p, NoEntry)
  BY <1>10, <1>11, Zenon DEF LogTracks
<1> QED BY <1>12, Zenon DEF p

\* The log of a new database holds the genesis entry.
LEMMA InitLog == Init => LogInv
<1> SUFFICES ASSUME Init PROVE LogInv
  BY Zenon
<1> DEFINE es == [i \in 1..1 |-> GenesisEntry]
           rs == [i \in 1..1 |-> <<Genesis>>]
<1>1. /\ DOMAIN nextEntry = {GenesisEntry} /\ nextEntry[GenesisEntry] = NoEntry
      /\ tail = GenesisEntry /\ path = <<Genesis>>
      /\ disk.nextEntry = nextEntry /\ disk.tail = tail /\ disk.path = path
      /\ NewEntry = NoEntry
  BY Zenon DEF Init, Database, NewEntry, NoEntry
<1>2. GenesisEntry \in Entry /\ <<Genesis>> \in Seq(Block)
  BY TreeAssumption DEF GenesisEntry, Entry
<1>3. /\ es \in [1..1 -> Entry] /\ es[1] = GenesisEntry
      /\ rs \in [1..1 -> Seq(Block)] /\ rs[1] = <<Genesis>>
  BY <1>2
<1> HIDE DEF es, rs
<1>4. IsFiniteSet({GenesisEntry}) /\ Cardinality({GenesisEntry}) = 1
  BY FS_Singleton, Zenon
<1>5. LogIs(nextEntry, tail, 1, es, rs)
  <2>1. 1 \in Nat \ {0} /\ 1..1 - 1 = {} /\ \A i \in 1..1 : i = 1
    OBVIOUS
  <2> QED BY <1>1, <1>3, <1>4, <2>1, Zenon DEF LogIs
<1>6. Len(NoEntry.reverted) <= Len(rs[1]) /\ path = Replay(rs[1], NoEntry)
  <2>1. Len(NoEntry.reverted) = 0
    BY Zenon DEF NoEntry
  <2> QED BY <1>1, <1>2, <1>3, <2>1, ReplayNothing
<1>7. LogTracks(nextEntry, tail, path, NoEntry)
  BY <1>5, <1>6, Zenon DEF LogTracks
<1> QED BY <1>1, <1>7, Zenon DEF LogInv

\* What the fork in progress has in common with the changelog.
LEMMA EntryTypes ==
  ASSUME TypeOK
  PROVE  /\ NewEntry \in Entry /\ NewEntry.reverted = reverted /\ NewEntry.applied = applied
         /\ NoEntry \in Entry /\ NoEntry.reverted = << >> /\ NoEntry.applied = << >>
BY DEF TypeOK, NewEntry, NoEntry, Entry

\* Between blocks there is nothing left to log.
LEMMA SettledEntry ==
  ASSUME IInv, Settled
  PROVE  NewEntry = NoEntry
BY Zenon DEF IInv, SettledInv, NewEntry, NoEntry

\* A rollback restores the log with the path.
LEMMA RollbackLog ==
  ASSUME LogInv, Rollback
  PROVE  LogInv'
<1>1. /\ path' = disk.path /\ nextEntry' = disk.nextEntry /\ tail' = disk.tail
      /\ disk' = disk /\ NewEntry' = NoEntry
  BY Zenon DEF Rollback, NewEntry, NoEntry
<1> QED BY <1>1, Zenon DEF LogInv

\* revertToBlock removes from the path what the entry will revert.
LEMMA RevertLog ==
  ASSUME IInv, LogInv, revertToBlock
  PROVE  LogInv'
<1>1. /\ mu = "revert" /\ nextEntry' = nextEntry /\ tail' = tail /\ disk' = disk
      /\ applied' = applied
  BY Zenon DEF revertToBlock
<1>2. applied = << >>
  BY <1>1, InFork, Zenon DEF ForkInv, AheadInv
<1>3. CASE Tip # Head(branch)
  <2>1. path' = FrontOf(path) /\ reverted' = Append(reverted, Tip)
    BY <1>3, Zenon DEF revertToBlock
  <2>2. PICK n, es, rs :
           /\ LogIs(nextEntry, tail, n, es, rs)
           /\ Len(NewEntry.reverted) <= Len(rs[n])
           /\ path = Replay(rs[n], NewEntry)
    BY Zenon DEF LogInv, LogTracks
  <2>3. /\ NewEntry \in Entry /\ NewEntry.applied = << >> /\ NewEntry.reverted = reverted
        /\ Tip \in Block /\ Len(path) >= 1 /\ Len(path) \in Nat
    BY <1>2, EntryTypes, TipFacts, Types, Zenon DEF IInv, DatabaseInv, PathInv
  <2>4. rs[n] \in Seq(Block) /\ Len(rs[n]) \in Nat /\ Len(reverted) \in Nat
    <3>1. n \in 1..n
      BY <2>2 DEF LogIs
    <3>2. rs[n] \in Seq(Block)
      BY <2>2, <3>1, Zenon DEF LogIs
    <3>3. reverted \in Seq(Block)
      BY Zenon DEF IInv, TypeOK
    <3> QED BY <3>2, <3>3
  <2>5. Len(path) = (Len(rs[n]) - Len(reverted)) + 0
    BY <2>2, <2>3, <2>4, ReplayFacts, Zenon
  <2>6. Len(NewEntry.reverted) < Len(rs[n])
    BY <2>3, <2>4, <2>5
  <2>7. NewEntry' = [reverted |-> Append(NewEntry.reverted, Tip), applied |-> << >>]
    BY <1>1, <1>2, <2>1, <2>3, Zenon DEF NewEntry
  <2>8. /\ Len(NewEntry'.reverted) <= Len(rs[n])
        /\ path' = Replay(rs[n], NewEntry')
    BY <2>1, <2>2, <2>3, <2>4, <2>6, <2>7, ReplayRevert, Zenon
  <2>9. LogTracks(nextEntry', tail', path', NewEntry')
    BY <1>1, <2>2, <2>8, Zenon DEF LogTracks
  <2> QED BY <1>1, <2>9, Zenon DEF LogInv
<1>4. CASE Tip = Head(branch)
  <2>1. path' = path /\ reverted' = reverted
    BY <1>4, Zenon DEF revertToBlock
  <2> QED BY <1>1, <2>1, Zenon DEF LogInv, NewEntry
<1> QED BY <1>3, <1>4, Zenon

\* applyUntilBlock adds to the path what the entry will apply.
LEMMA ApplyLog ==
  ASSUME IInv, LogInv, ApplyBlock
  PROVE  LogInv'
<1>1. /\ branch # << >> /\ path' = Append(path, Head(branch))
      /\ applied' = Append(applied, Head(branch)) /\ reverted' = reverted
      /\ nextEntry' = nextEntry /\ tail' = tail /\ disk' = disk
  BY Zenon DEF ApplyBlock
<1>2. PICK n, es, rs :
         /\ LogIs(nextEntry, tail, n, es, rs)
         /\ Len(NewEntry.reverted) <= Len(rs[n])
         /\ path = Replay(rs[n], NewEntry)
  BY Zenon DEF LogInv, LogTracks
<1>3. /\ NewEntry \in Entry /\ NewEntry.applied = applied /\ NewEntry.reverted = reverted
      /\ Head(branch) \in Block
  BY <1>1, EntryTypes, LastIn, Zenon DEF IInv, TypeOK
<1>4. rs[n] \in Seq(Block)
  <2>1. n \in 1..n
    BY <1>2 DEF LogIs
  <2> QED BY <1>2, <2>1, Zenon DEF LogIs
<1>5. NewEntry' = [reverted |-> NewEntry.reverted,
                   applied |-> Append(NewEntry.applied, Head(branch))]
  BY <1>1, <1>3, Zenon DEF NewEntry
<1>6. NewEntry'.reverted = NewEntry.reverted
  BY <1>5, Zenon
<1>7. path' = Replay(rs[n], NewEntry')
  BY <1>1, <1>2, <1>3, <1>4, <1>5, ReplayApply, Zenon
<1>8. LogTracks(nextEntry', tail', path', NewEntry')
  BY <1>1, <1>2, <1>6, <1>7, Zenon DEF LogTracks
<1> QED BY <1>1, <1>8, Zenon DEF LogInv

\* appendChangeLog logs what the fork did.
LEMMA FinishLog ==
  ASSUME IInv, LogInv, FinishBlock
  PROVE  LogInv'
<1>1. /\ mu = "apply" /\ branch = << >> /\ path' = path /\ disk' = disk
      /\ tail' = NewEntry /\ NewEntry' = NoEntry
      /\ nextEntry' = [e \in DOMAIN nextEntry \cup {NewEntry} |->
                          IF e = tail THEN NewEntry
                          ELSE IF e = NewEntry THEN NoEntry ELSE nextEntry[e]]
  BY Zenon DEF FinishBlock, appendChangeLog, NewEntry, NoEntry
<1>2. PICK n, es, rs :
         /\ LogIs(nextEntry, tail, n, es, rs)
         /\ Len(NewEntry.reverted) <= Len(rs[n])
         /\ path = Replay(rs[n], NewEntry)
  BY Zenon DEF LogInv, LogTracks
<1>3. NewEntry \in Entry /\ NewEntry \notin DOMAIN nextEntry
  BY <1>1, NewEntryFacts, Zenon
<1>4. LogTracks(nextEntry', NewEntry, path, NoEntry)
  <2>1. PICK log, tl, log2, e :
           log = nextEntry /\ tl = tail /\ log2 = nextEntry' /\ e = NewEntry
    BY Zenon
  <2>2. /\ LogIs(log, tl, n, es, rs) /\ e \in Entry /\ e \notin DOMAIN log
        /\ Len(e.reverted) <= Len(rs[n])
    BY <1>2, <1>3, <2>1, Zenon
  <2>3. tl \in DOMAIN log
    <3>1. n \in 1..n
      BY <2>2 DEF LogIs
    <3> QED BY <2>2, <3>1, Zenon DEF LogIs
  <2>4. /\ DOMAIN log2 = DOMAIN log \cup {e} /\ log2[tl] = e /\ log2[e] = NoEntry
        /\ \A x \in DOMAIN log \ {tl} : log2[x] = log[x]
    BY <1>1, <2>1, <2>2, <2>3, Zenon
  <2>5. LogTracks(log2, e, Replay(rs[n], e), NoEntry)
    BY <2>2, <2>4, LogAppend, Zenon
  <2> QED BY <1>2, <2>1, <2>5, Zenon
<1> QED BY <1>1, <1>4, Zenon DEF LogInv

\* Every step keeps the log in line with the path.
LEMMA NextLog ==
  ASSUME IInv, LogInv, [Next]_vars
  PROVE  LogInv'
<1>1. CASE UNCHANGED <<path, nextEntry, tail, disk, reverted, applied>>
  BY <1>1, Zenon DEF LogInv, NewEntry
<1>2. ASSUME NEW bs \in Batches, AcceptBlocks(bs) PROVE LogInv'
  BY <1>1, <1>2, Zenon DEF AcceptBlocks, Lock, db, fork
<1>3. ASSUME NEW b \in Block, SleepOnFutureBlock(b) PROVE LogInv'
  BY <1>1, <1>3, Zenon DEF SleepOnFutureBlock, Lock, db, fork
<1>4. ASSUME NEW b \in Block, ClockReaches(b) PROVE LogInv'
  BY <1>1, <1>4, Zenon DEF ClockReaches, db, fork
<1>5. CASE RefuseBlock \/ PostponeBlock \/ ApplyInvalidBlock \/ FailSanityCheck \/ Crash
  BY <1>5, RollbackLog, Zenon
     DEF RefuseBlock, PostponeBlock, ApplyInvalidBlock, FailSanityCheck, Crash
<1>6. CASE SkipKnownBlock \/ addBlockToTree \/ backtrackToCurrentPath
  BY <1>1, <1>6, Zenon DEF SkipKnownBlock, addBlockToTree, backtrackToCurrentPath, db, fork
<1>7. CASE revertToBlock
  BY <1>7, RevertLog, Zenon
<1>8. CASE ApplyBlock
  BY <1>8, ApplyLog, Zenon
<1>9. CASE FinishBlock
  BY <1>9, FinishLog, Zenon
<1>10. CASE Commit
  <2>1. /\ mu = "batch" /\ disk' = Database /\ path' = path /\ nextEntry' = nextEntry
        /\ tail' = tail /\ NewEntry' = NewEntry
    BY <1>10, Zenon DEF Commit, db, fork, NewEntry
  <2>2. /\ disk'.path = path /\ disk'.nextEntry = nextEntry /\ disk'.tail = tail
        /\ NewEntry = NoEntry
    BY <2>1, SettledEntry, Zenon DEF Database, Settled
  <2> QED BY <2>1, <2>2, Zenon DEF LogInv
<1>11. CASE UNCHANGED vars
  BY <1>1, <1>11, Zenon DEF vars, db, fork
<1> QED BY <1>2, <1>3, <1>4, <1>5, <1>6, <1>7, <1>8, <1>9, <1>10, <1>11, Zenon
           DEF Next, Run, AddBlocks

\* Following the pointers yields the entries in order: EntryAt is well defined.
LEMMA EntryAtFacts ==
  ASSUME NEW n, NEW es, NEW rs, LogIs(nextEntry, tail, n, es, rs)
  PROVE  \A i \in 1..n : EntryAt[i] = es[i]
<1> DEFINE Rec(f) == [i \in 1..LogLength |-> IF i = 1 THEN GenesisEntry ELSE nextEntry[f[i - 1]]]
<1>1. /\ n \in Nat \ {0} /\ LogLength = n /\ es \in [1..n -> Entry] /\ es[1] = GenesisEntry
      /\ \A i \in 1..n - 1 : nextEntry[es[i]] = es[i + 1]
  BY Zenon DEF LogIs, LogLength
<1>2. es = Rec(es)
  <2>1. ASSUME NEW i \in 1..n
        PROVE  es[i] = IF i = 1 THEN GenesisEntry ELSE nextEntry[es[i - 1]]
    <3>1. i # 1 => i - 1 \in 1..n - 1 /\ (i - 1) + 1 = i
      BY <1>1
    <3> QED BY <1>1, <3>1, Zenon
  <2> QED BY <1>1, <2>1, Zenon
<1>3. EntryAt = CHOOSE f : f = Rec(f)
  BY Zenon DEF EntryAt
<1>4. EntryAt = Rec(EntryAt)
  <2> HIDE DEF Rec
  <2> QED BY <1>2, <1>3, Zenon
<1>5. PICK f : f = EntryAt
  BY Zenon
<1>6. f = [i \in 1..n |-> IF i = 1 THEN GenesisEntry ELSE nextEntry[f[i - 1]]]
  BY <1>1, <1>4, <1>5, Zenon
<1>7. f[1] = es[1]
  <2>1. 1 \in 1..n
    BY <1>1
  <2> QED BY <1>1, <1>6, <2>1, Zenon
<1>8. ASSUME NEW i \in 1..n - 1, f[i] = es[i] PROVE f[i + 1] = es[i + 1]
  <2>1. i + 1 \in 1..n /\ i + 1 # 1 /\ (i + 1) - 1 = i
    BY <1>1
  <2>2. f[i + 1] = nextEntry[f[(i + 1) - 1]]
    BY <1>6, <2>1, Zenon
  <2> QED BY <1>1, <1>8, <2>1, <2>2, Zenon
<1>9. \A i \in 1..n : f[i] = es[i]
  <2>1. n \in Nat \ {0} /\ \A i \in 1..n - 1 : f[i] = es[i] => f[i + 1] = es[i + 1]
    BY <1>1, <1>8, Zenon
  <2> QED BY <1>7, <2>1, SameSequence
<1> QED BY <1>5, <1>9, Zenon

\* Replaying the entries in order yields the path after each: Replayed is well defined.
LEMMA ReplayedFacts ==
  ASSUME NEW n, NEW es, NEW rs, LogIs(nextEntry, tail, n, es, rs)
  PROVE  \A i \in 1..n : Replayed[i] = rs[i]
<1> DEFINE Rec(f) == [i \in 0..LogLength |->
                         IF i = 0 THEN << >> ELSE Replay(f[i - 1], EntryAt[i])]
           ss == [i \in 0..n |-> IF i = 0 THEN << >> ELSE rs[i]]
<1>1. /\ n \in Nat \ {0} /\ LogLength = n /\ es[1] = GenesisEntry /\ rs[1] = <<Genesis>>
      /\ \A i \in 1..n - 1 : rs[i + 1] = Replay(rs[i], es[i + 1])
  BY Zenon DEF LogIs, LogLength
<1>2. \A i \in 1..n : EntryAt[i] = es[i]
  BY EntryAtFacts, Zenon
<1>3. Replay(<< >>, GenesisEntry) = <<Genesis>>
  <2>1. PICK p : p = << >>
    BY Zenon
  <2>2. p \in Seq(Block) /\ Len(p) = 0
    BY <2>1
  <2>3. /\ GenesisEntry \in Entry /\ GenesisEntry.applied = <<Genesis>>
        /\ Len(GenesisEntry.reverted) = 0 /\ Genesis \in Block
    BY TreeAssumption DEF GenesisEntry, Entry
  <2>4. /\ Replay(p, GenesisEntry) \in Seq(Block)
        /\ Len(Replay(p, GenesisEntry)) = 1
        /\ Replay(p, GenesisEntry)[1] = Genesis
    <3> DEFINE k == Len(p) - Len(GenesisEntry.reverted)
               a == GenesisEntry.applied
    <3>1. a = <<Genesis>> /\ Len(a) = 1 /\ a[1] = Genesis
      BY <2>3
    <3>2. k = 0 /\ Len(GenesisEntry.reverted) <= Len(p)
      BY <2>2, <2>3
    <3>3. /\ Replay(p, GenesisEntry) \in Seq(Block)
          /\ Len(Replay(p, GenesisEntry)) = k + Len(a)
          /\ \A i \in 1..Len(a) : Replay(p, GenesisEntry)[k + i] = a[i]
      BY <2>2, <2>3, <3>2, ReplayFacts, Zenon
    <3> HIDE DEF k, a
    <3>4. 1 \in 1..Len(a) /\ k + 1 = 1 /\ k + Len(a) = 1
      BY <3>1, <3>2
    <3> QED BY <3>1, <3>3, <3>4, Zenon
  <2>5. <<Genesis>> \in Seq(Block) /\ Len(<<Genesis>>) = 1 /\ <<Genesis>>[1] = Genesis
    BY <2>3
  <2>6. Replay(p, GenesisEntry) = <<Genesis>>
    <3>1. \A i \in 1..1 : i = 1
      OBVIOUS
    <3> QED BY <2>4, <2>5, <3>1, SeqEqual, Zenon
  <2> QED BY <2>1, <2>6, Zenon
<1>4. ss = Rec(ss)
  <2>1. ASSUME NEW i \in 0..n
        PROVE  ss[i] = IF i = 0 THEN << >> ELSE Replay(ss[i - 1], EntryAt[i])
    <3>1. CASE i = 0
      BY <3>1, Zenon
    <3>2. CASE i = 1
      <4>1. i # 0 /\ i \in 1..n /\ i - 1 = 0 /\ 0 \in 0..n
        BY <1>1, <3>2
      <4>2. ss[i] = rs[1] /\ ss[i - 1] = << >> /\ EntryAt[i] = GenesisEntry
        BY <1>1, <1>2, <3>2, <4>1, Zenon
      <4> QED BY <1>1, <1>3, <4>1, <4>2, Zenon
    <3>3. CASE i \notin {0, 1}
      <4>1. /\ i - 1 \in 1..n - 1 /\ i - 1 \in 0..n /\ i - 1 # 0 /\ (i - 1) + 1 = i
            /\ i \in 1..n
        BY <1>1, <3>3
      <4>2. ss[i] = rs[i] /\ ss[i - 1] = rs[i - 1] /\ EntryAt[i] = es[i]
        BY <1>2, <3>3, <4>1, Zenon
      <4>3. rs[i] = Replay(rs[i - 1], es[i])
        BY <1>1, <4>1, Zenon
      <4> QED BY <3>3, <4>2, <4>3, Zenon
    <3> QED BY <3>1, <3>2, <3>3, Zenon
  <2> QED BY <1>1, <2>1, Zenon
<1>5. Replayed = CHOOSE f : f = Rec(f)
  BY Zenon DEF Replayed
<1>6. Replayed = Rec(Replayed)
  <2> HIDE DEF Rec, ss
  <2> QED BY <1>4, <1>5, Zenon
<1>7. PICK f : f = Replayed
  BY Zenon
<1>8. f = [i \in 0..n |-> IF i = 0 THEN << >> ELSE Replay(f[i - 1], EntryAt[i])]
  BY <1>1, <1>6, <1>7, Zenon
<1>9. \A i \in 1..n : f[i] = Replay(f[i - 1], es[i])
  <2>1. \A i \in 1..n : i \in 0..n /\ i # 0
    BY <1>1
  <2> QED BY <1>2, <1>8, <2>1, Zenon
<1>10. f[1] = rs[1]
  <2>1. 1 \in 1..n /\ 1 - 1 = 0 /\ 0 \in 0..n
    BY <1>1
  <2>2. f[0] = << >>
    BY <1>8, <2>1, Zenon
  <2> QED BY <1>1, <1>3, <1>9, <2>1, <2>2, Zenon
<1>11. ASSUME NEW i \in 1..n - 1, f[i] = rs[i] PROVE f[i + 1] = rs[i + 1]
  <2>1. i + 1 \in 1..n /\ (i + 1) - 1 = i
    BY <1>1
  <2>2. f[i + 1] = Replay(f[(i + 1) - 1], es[i + 1])
    BY <1>9, <2>1, Zenon
  <2> QED BY <1>1, <1>11, <2>1, <2>2, Zenon
<1>12. \A i \in 1..n : f[i] = rs[i]
  <2>1. n \in Nat \ {0} /\ \A i \in 1..n - 1 : f[i] = rs[i] => f[i + 1] = rs[i + 1]
    BY <1>1, <1>11, Zenon
  <2> QED BY <1>10, <2>1, SameSequence
<1> QED BY <1>7, <1>12, Zenon

(***************************************************************************)
(* The changelog that appendChangeLog builds is a list from the genesis    *)
(* entry to the tail, and a subscriber that follows it ends up with the    *)
(* path of the consensus set, however many forks, rollbacks and crashes    *)
(* there were.                                                             *)
(***************************************************************************)
THEOREM LogAlwaysReplays == Spec => []LogReplaysToPath
<1>1. Init => LogInv
  BY InitLog, Zenon
<1>2. IInv /\ LogInv /\ [Next]_vars => LogInv'
  BY NextLog, Zenon
<1>3. IInv /\ LogInv => LogReplaysToPath
  <2> SUFFICES ASSUME IInv, LogInv, Settled
               PROVE  /\ EntryAt[LogLength] = tail /\ nextEntry[tail] = NoEntry
                      /\ Replayed[LogLength] = path
    BY Zenon DEF LogReplaysToPath
  <2>1. PICK n, es, rs : LogIs(nextEntry, tail, n, es, rs) /\ path = Replay(rs[n], NoEntry)
    BY SettledEntry, Zenon DEF LogInv, LogTracks
  <2>2. /\ n \in Nat \ {0} /\ LogLength = n /\ es[n] = tail /\ nextEntry[tail] = NoEntry
        /\ rs \in [1..n -> Seq(Block)]
    BY <2>1, Zenon DEF LogIs, LogLength
  <2>3. n \in 1..n
    BY <2>2
  <2>4. EntryAt[n] = es[n] /\ Replayed[n] = rs[n]
    BY <2>1, <2>3, EntryAtFacts, ReplayedFacts
  <2>5. path = rs[n]
    <3>1. rs[n] \in Seq(Block)
      BY <2>2, <2>3, Zenon
    <3> QED BY <2>1, <3>1, ReplayNothing, Zenon
  <2> QED BY <2>2, <2>4, <2>5, Zenon
<1> QED BY Invariance, <1>1, <1>2, <1>3, PTL DEF Spec

=============================================================================
