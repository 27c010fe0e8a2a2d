---------------------- MODULE StorageObligationsSteps -----------------------
(***************************************************************************)
(* Proofs about the host's storage obligations, part one: the effect of    *)
(* each step of RPCs and action items.  They keep the types, the structure *)
(* of the state (who formed and renews what, what is new, which copies are *)
(* still right) and the records in agreement with the blockchain.          *)
(***************************************************************************)
EXTENDS ObligationInvariant, TLAPS

\* Some leaves take the SMT solver, with its preparation, longer than the default 5 seconds.
USE SMTT(30)

-----------------------------------------------------------------------------
(* The operators the steps are made of.                                    *)

\* Writing from an outdated copy is remembered.
LEMMA StaleFacts ==
    ASSUME Structure, NEW o
    PROVE  /\ DOMAIN Stale(o) = {"stale", "shared", "lost", "uncounted"}
           /\ Stale(o).shared = hist.shared /\ Stale(o).uncounted = hist.uncounted
           /\ hold[o].dirty => Stale(o).stale = hist.stale \cup {o}
           /\ ~hold[o].dirty => Stale(o) = hist
  BY Zenon DEF Structure, Typed, Stale

\* No damage afterwards means that there was none, and that the copy was right.
LEMMA StaleEmpty ==
    ASSUME Structure, NEW o, Stale(o).stale = {}
    PROVE  ~hold[o].dirty /\ hist.stale = {}
<1>1. /\ hold[o].dirty => Stale(o).stale = hist.stale \cup {o}
      /\ ~hold[o].dirty => Stale(o) = hist
  BY StaleFacts, Zenon
<1> QED
  BY <1>1, Zenon

\* Subtraction does not go below zero.
LEMMA MinusFacts ==
    ASSUME NEW a \in Nat, NEW b \in Nat
    PROVE  Minus(a, b) \in Nat /\ Minus(a, b) >= a - b /\ (b <= a => Minus(a, b) = a - b)
  BY DEF Minus

\* Sectors are counted by natural numbers.
LEMMA SectorFacts ==
    ASSUME Structure, NEW S
    PROVE  /\ DOMAIN Added(refs, S) = Sector /\ DOMAIN Removed(refs, S) = Sector
           /\ \A s \in Sector :
                /\ Added(refs, S)[s] \in Nat /\ Removed(refs, S)[s] \in Nat
                /\ Added(refs, S)[s] = IF s \in S THEN refs[s] + 1 ELSE refs[s]
                /\ Removed(refs, S)[s] >= IF s \in S THEN refs[s] - 1 ELSE refs[s]
<1>1. DOMAIN Added(refs, S) = Sector /\ DOMAIN Removed(refs, S) = Sector
  BY Zenon DEF Added, Removed
<1>2. ASSUME NEW s \in Sector
      PROVE  /\ Added(refs, S)[s] \in Nat /\ Removed(refs, S)[s] \in Nat
             /\ Added(refs, S)[s] = IF s \in S THEN refs[s] + 1 ELSE refs[s]
             /\ Removed(refs, S)[s] >= IF s \in S THEN refs[s] - 1 ELSE refs[s]
  <2>1. refs[s] \in Nat
    BY Zenon DEF Structure, Typed
  <2>2. Minus(refs[s], 1) \in Nat /\ Minus(refs[s], 1) >= refs[s] - 1
    BY <2>1, MinusFacts, Zenon
  <2>3. Removed(refs, S)[s] = IF s \in S THEN Minus(refs[s], 1) ELSE refs[s]
    BY Zenon DEF Removed
  <2>4. Added(refs, S)[s] = IF s \in S THEN refs[s] + 1 ELSE refs[s]
    BY Zenon DEF Added
  <2> QED
    BY <2>1, <2>2, <2>3, <2>4
<1> QED
  BY <1>1, <1>2, Zenon

-----------------------------------------------------------------------------
(* The structure of the state is kept: types.                              *)

\* A map of records with one entry replaced is a map of records.
LEMMA DbTyped ==
    ASSUME Structure, NEW o \in Obligation, RecordOK(db'[o], o),
           DOMAIN db' \subseteq DOMAIN db \cup {o}, OthersKept(o)
    PROVE  DOMAIN db' \subseteq Obligation /\ \A x \in DOMAIN db' : RecordOK(db'[x], x)
  BY Zenon DEF Structure, Typed, OthersKept

\* Holders that stay, or are new and well formed, are well formed.
LEMMA HoldKeepsType ==
    ASSUME Structure, NEW S, Others(S), \A x \in S \cap Obligation : hold'[x] = Nobody \/ HolderOK(hold'[x], x)
    PROVE  HoldTyped'
<1>1. DOMAIN hold' = Obligation
  BY Zenon DEF Others
<1>2. ASSUME NEW x \in Obligation
      PROVE  "pc" \in DOMAIN hold'[x] /\ (hold'[x].pc # "free" => HolderOK(hold'[x], x))
  <2>1. CASE x \in S /\ hold'[x] = Nobody
    BY <2>1 DEF Nobody
  <2>2. CASE x \in S /\ HolderOK(hold'[x], x)
    BY <2>2, Zenon DEF HolderOK, HolderFields
  <2>3. CASE x \notin S
    BY <2>3, Zenon DEF Others, Structure, HoldTyped
  <2> QED
    BY <2>1, <2>2, <2>3, Zenon
<1> QED
  BY <1>1, <1>2, Zenon DEF HoldTyped

\* Every step keeps the types.
LEMMA StepTyped ==
    ASSUME Structure, NEW o \in Obligation, Step(o)
    PROVE  Typed' /\ HoldTyped'
<1>0. Typed /\ HoldTyped
  BY Zenon DEF Structure
<1>1. ASSUME NEW p, Opens(o, p) PROVE Typed' /\ HoldTyped'
  <2>1. Others({o}) /\ HolderOK(hold'[o], o) /\ SameBlock /\ SameData
    BY <1>1, Zenon DEF Opens
  <2>2. HoldTyped'
    BY <2>1, HoldKeepsType, Zenon
  <2> QED
    BY <1>0, <2>1, <2>2, Zenon DEF Typed, SameBlock, SameData
<1>2. CASE Releases(o)
  <2>1. Others({o}) /\ hold'[o] = Nobody /\ SameBlock /\ SameData
    BY <1>2, Zenon DEF Releases
  <2>2. HoldTyped'
    BY <2>1, HoldKeepsType, Zenon
  <2> QED
    BY <1>0, <2>1, <2>2, Zenon DEF Typed, SameBlock, SameData
<1>3. CASE Continues(o)
  <2>1. HolderOK(hold[o], o) /\ Continued(hold[o], hold'[o]) /\ Others({o})
    BY <1>0, <1>3, Zenon DEF Continues, HoldTyped, Handling
  <2>2. HolderOK(hold'[o], o)
    BY <2>1, Zenon DEF HolderOK, Continued, RecordOK, Pcs
  <2>3. HoldTyped'
    BY <2>1, <2>2, HoldKeepsType, Zenon
  <2> QED
    BY <1>0, <1>3, <2>3, Zenon DEF Typed, Continues, SameBlock
<1>4. CASE Modifies(o)
  <2>1. PICK gained \in SUBSET Sector, removed \in SUBSET Sector : ModifiesBy(o, gained, removed)
    BY <1>4, Zenon DEF Modifies
  <2>2. HolderOK(hold[o], o) /\ Modified(hold[o], hold'[o], gained, removed) /\ Others({o})
    BY <1>0, <2>1, Zenon DEF HoldTyped, ModifiesBy
  <2>3. HolderOK(hold'[o], o)
    BY <2>2, Zenon DEF HolderOK, Modified, RecordOK, Pcs
  <2>4. HoldTyped'
    BY <2>2, <2>3, HoldKeepsType, Zenon
  <2>5. DOMAIN refs' = Sector /\ \A s \in Sector : refs'[s] \in Nat
    BY <2>1, SectorFacts, Zenon DEF ModifiesBy
  <2> QED
    BY <1>0, <2>1, <2>4, <2>5, Zenon DEF Typed, ModifiesBy, SameBlock
<1>5. CASE EndsModifying(o)
  <2>1. HolderOK(hold[o], o) /\ Others({o}) /\ SameBlock /\ UNCHANGED <<pool, env>>
    BY <1>5, Zenon DEF EndsModifying
  <2>2. CASE DropsRevision(o)
    <3>1. HoldTyped'
      BY <2>1, <2>2, HoldKeepsType, Zenon DEF DropsRevision
    <3>2. DOMAIN refs' = Sector /\ \A s \in Sector : refs'[s] \in Nat
      BY <2>2, SectorFacts, Zenon DEF DropsRevision
    <3> QED
      BY <1>0, <2>1, <2>2, <3>1, <3>2, Zenon DEF Typed, SameBlock, DropsRevision
  <2>3. CASE SavesRevision(o)
    <3>1. HoldTyped'
      BY <2>1, <2>3, HoldKeepsType, Zenon DEF SavesRevision
    <3>2. DOMAIN refs' = Sector /\ \A s \in Sector : refs'[s] \in Nat
      BY <2>3, SectorFacts DEF SavesRevision
    <3>3. DOMAIN db' \subseteq Obligation /\ \A x \in DOMAIN db' : RecordOK(db'[x], x)
      BY <2>1, <2>3, DbTyped, Zenon DEF SavesRevision, HolderOK
    <3>4. DOMAIN hist' = {"stale", "shared", "lost", "uncounted"}
      BY <2>3, StaleFacts, Zenon DEF SavesRevision
    <3> QED
      BY <1>0, <2>1, <2>3, <3>1, <3>2, <3>3, <3>4, Zenon DEF Typed, SameBlock, SavesRevision
  <2> QED
    BY <1>5, <2>2, <2>3, Zenon DEF EndsModifying
<1>6. CASE Starts(o)
  <2>1. /\ Others({o}) /\ HolderOK(hold'[o], o) /\ DOMAIN env' = DOMAIN env
        /\ SameBlock /\ UNCHANGED <<db, metrics, refs, pool, hist>>
    BY <1>6, Zenon DEF Started, Starts
  <2>2. HoldTyped'
    BY <2>1, HoldKeepsType, Zenon
  <2> QED
    BY <1>0, <2>1, <2>2, Zenon DEF Typed, SameBlock
<1>7. CASE Adds(o)
  <2>1. /\ HolderOK(hold[o], o) /\ Others({o}) /\ SameBlock /\ UNCHANGED <<metrics, pool, env>>
        /\ DOMAIN db' = DOMAIN db \cup {o} /\ db'[o] = hold[o].so
        /\ OthersKept(o)
        /\ refs' = AddSectors(refs, hold[o]) /\ HolderOK(hold'[o], o) /\ DOMAIN hist' = DOMAIN hist
    BY <1>7, Zenon DEF Adds
  <2>2. HoldTyped'
    BY <2>1, HoldKeepsType, Zenon
  <2>3. DOMAIN refs' = Sector /\ \A s \in Sector : refs'[s] \in Nat
    BY <1>0, <2>1, SectorFacts DEF AddSectors, Typed
  <2>4. DOMAIN db' \subseteq Obligation /\ \A x \in DOMAIN db' : RecordOK(db'[x], x)
    BY <2>1, DbTyped, Zenon DEF HolderOK
  <2> QED
    BY <1>0, <2>1, <2>2, <2>3, <2>4, Zenon DEF Typed, SameBlock
<1>8. CASE Abandons(o)
  <2>1. /\ Others({o, hold[o].old}) /\ hold'[o] = Nobody /\ hold'[hold[o].old] = Nobody
        /\ SameBlock /\ UNCHANGED <<db, metrics, refs, pool, env>>
    BY <1>8, Zenon DEF Abandons
  <2>2. HoldTyped'
    BY <2>1, HoldKeepsType, Zenon
  <2> QED
    BY <1>0, <1>8, <2>1, <2>2, Zenon DEF Typed, SameBlock, Abandons
<1>9. CASE Submits(o)
  <2>1. /\ Others({o}) /\ HolderOK(hold'[o], o) /\ SameBlock /\ UNCHANGED <<db, metrics, refs, env>>
        /\ DOMAIN hist' = DOMAIN hist
    BY <1>9, Zenon DEF Submits
  <2>2. HoldTyped'
    BY <2>1, HoldKeepsType, Zenon
  <2> QED
    BY <1>0, <2>1, <2>2, Zenon DEF Typed, SameBlock
<1>10. CASE Counts(o)
  <2>1. /\ Others({o}) /\ SameBlock /\ UNCHANGED <<db, refs, pool>>
        /\ hold'[o] = Nobody \/ HolderOK(hold'[o], o)
        /\ DOMAIN env' = DOMAIN env /\ DOMAIN hist' = DOMAIN hist
        /\ DOMAIN metrics' = DOMAIN metrics /\ metrics'.count = metrics.count + 1
        /\ metrics'.locked = metrics.locked + 1 /\ metrics'.fees = metrics.fees
    BY <1>10, Zenon DEF Counts
  <2>2. HoldTyped'
    BY <2>1, HoldKeepsType, Zenon
  <2>3. metrics'.count \in Int /\ metrics'.locked \in Nat /\ metrics'.fees \in Nat
    BY <1>0, <2>1 DEF Typed
  <2> QED
    BY <1>0, <2>1, <2>2, <2>3, Zenon DEF Typed, SameBlock
<1>11. CASE Clears(o)
  <2>1. PICK c \in Obligation : ClearsOf(o, c)
    BY <1>11, Zenon DEF Clears
  <2>2. HoldTyped'
    BY <2>1, HoldKeepsType, Zenon DEF ClearsOf
  <2>3. CASE UNCHANGED <<db, hist>>
    BY <1>0, <2>1, <2>2, <2>3, Zenon DEF Typed, SameBlock, ClearsOf
  <2>4. CASE ClearedInDatabase(o, c)
    <3>1. DOMAIN db' \subseteq Obligation /\ \A x \in DOMAIN db' : RecordOK(db'[x], x)
      BY <2>1, <2>4, DbTyped, Zenon DEF ClearedInDatabase, ClearsOf, HolderOK
    <3> QED
      BY <1>0, <2>1, <2>2, <2>4, <3>1, Zenon DEF Typed, SameBlock, ClearedInDatabase, ClearsOf
  <2> QED
    BY <2>1, <2>3, <2>4, Zenon DEF ClearsOf
<1>12. CASE Resolves(o)
  <2>1. /\ HolderOK(hold[o], o) /\ Others({o}) /\ hold'[o] = Nobody /\ SameBlock /\ env' = env
        /\ DOMAIN db' = DOMAIN db \cup {o} /\ OthersKept(o)
        /\ RecordOK(db'[o], o) /\ refs' = Removed(refs, hold[o].so.roots)
        /\ DOMAIN metrics' = {"count", "locked", "fees"} /\ metrics'.count = metrics.count - 1
        /\ metrics'.locked \in Nat /\ metrics'.fees \in Nat /\ DOMAIN hist' = DOMAIN hist
    BY <1>12, Zenon DEF Resolves
  <2>2. HoldTyped'
    BY <2>1, HoldKeepsType, Zenon
  <2>3. DOMAIN refs' = Sector /\ \A s \in Sector : refs'[s] \in Nat
    BY <2>1, SectorFacts
  <2>4. DOMAIN db' \subseteq Obligation /\ \A x \in DOMAIN db' : RecordOK(db'[x], x)
    BY <2>1, DbTyped, Zenon
  <2>5. metrics'.count \in Int
    BY <1>0, <2>1 DEF Typed
  <2> QED
    BY <1>0, <2>1, <2>2, <2>3, <2>4, <2>5, Zenon DEF Typed, SameBlock
<1>13. CASE Saves(o)
  <2>1. /\ HolderOK(hold[o], o) /\ Others({o}) /\ SameBlock /\ UNCHANGED <<metrics, refs, pool, env>>
        /\ hist' = Stale(o) /\ (hold'[o] = Nobody \/ HolderOK(hold'[o], o))
        /\ DOMAIN db' = DOMAIN db \cup {o} /\ db'[o] = hold[o].so /\ OthersKept(o)
    BY <1>13, Zenon DEF Saves
  <2>2. HoldTyped'
    BY <2>1, HoldKeepsType, Zenon
  <2>3. DOMAIN db' \subseteq Obligation /\ \A x \in DOMAIN db' : RecordOK(db'[x], x)
    BY <2>1, DbTyped, Zenon DEF HolderOK
  <2>4. DOMAIN hist' = {"stale", "shared", "lost", "uncounted"}
    BY <2>1, StaleFacts, Zenon
  <2> QED
    BY <1>0, <2>1, <2>2, <2>3, <2>4, Zenon DEF Typed, SameBlock
<1>14. CASE Quiescent
  BY <1>0, <1>14, Zenon DEF Quiescent, Typed, HoldTyped, OnlyHold, SameData
<1> QED
  BY <1>1, <1>2, <1>3, <1>4, <1>5, <1>6, <1>7, <1>8, <1>9, <1>10, <1>11, <1>12, <1>13, <1>14, Zenon DEF Step

-----------------------------------------------------------------------------
(* The structure of the state is kept: what is formed, and who renews what. *)

\* What a step of one contract leaves alone.
Frame(o) ==
    /\ SameBlock /\ PoolOf(o)
    /\ o \in env'.formed /\ env.formed \subseteq env'.formed
    /\ DOMAIN db \subseteq DOMAIN db' /\ DOMAIN db' \subseteq DOMAIN db \cup {o}
    /\ \A n, x \in Obligation : <<n, x>> \in hist'.shared => <<n, x>> \in hist.shared \/ n = o
    /\ \A x \in Obligation \ {o} :
        hold'[x] = hold[x] \/ hold'[x] = Nobody \/ (hold[x].pc = "session" /\ hold'[x].pc = "session")
    /\ \A n \in Obligation \ {o} : hold[n].pc \in Creating /\ hold[n].old # n =>
        hold'[hold[n].old] = hold[hold[n].old]
    /\ hist.shared \subseteq hist'.shared \/ Clears(o)

\* Renewals of other contracts keep their session when only this one's holder changes.
LEMMA SessionsKept ==
    ASSUME Structure, NEW o \in Obligation, Others({o}), Unshared(o)
    PROVE  \A n \in Obligation \ {o} : hold[n].pc \in Creating /\ hold[n].old # n =>
              hold'[hold[n].old] = hold[hold[n].old]
<1> SUFFICES ASSUME NEW n \in Obligation \ {o}, hold[n].pc \in Creating, hold[n].old # n
             PROVE  hold'[hold[n].old] = hold[hold[n].old]
  BY Zenon
<1>1. hold[hold[n].old].pc = "session"
  BY Zenon DEF Structure, Renewals
<1>2. hold[n].old # o
  BY Zenon DEF Unshared
<1>3. hold[n].old \in Obligation
  BY Zenon DEF Structure, HoldTyped, HolderOK, Adding, Creating, Handling, Pcs
<1> QED
  BY <1>1, <1>2, <1>3, Zenon DEF Others

\* The frame of a step that changes one holder.
LEMMA FrameOne ==
    ASSUME Structure, NEW o \in Obligation, Others({o}), Unshared(o), SameBlock, PoolOf(o),
           o \in env'.formed, env.formed \subseteq env'.formed,
           DOMAIN db \subseteq DOMAIN db', DOMAIN db' \subseteq DOMAIN db \cup {o},
           \A n, x \in Obligation : <<n, x>> \in hist'.shared => <<n, x>> \in hist.shared \/ n = o,
           hist.shared \subseteq hist'.shared
    PROVE  Frame(o)
  BY SessionsKept, Zenon DEF Frame, Others

\* The pool may stay or shrink.
LEMMA PoolKept ==
    ASSUME NEW o, pool' \subseteq pool
    PROVE  PoolOf(o)
  BY Zenon DEF PoolOf

\* Every step leaves the rest alone.
LEMMA StepFrame ==
    ASSUME Structure, NEW o \in Obligation, Step(o)
    PROVE  Frame(o) \/ Quiescent
<1>0. Formed
  BY Zenon DEF Structure
<1>a. hold[o].pc # "session" => Unshared(o)
  BY DEF Structure, Renewals, Unshared
<1>b. hold[o].pc # "free" => o \in env.formed
  BY <1>0, Zenon DEF Formed
<1>1. ASSUME NEW p, Opens(o, p) PROVE Frame(o)
  <2>1. Others({o}) /\ SameBlock /\ SameData
    BY <1>1, Zenon DEF Opens
  <2>2. o \in env.formed /\ Unshared(o)
    BY <1>0, <1>1, <1>a, Zenon DEF Formed, Opens
  <2>3. PoolOf(o) /\ UNCHANGED <<db, env, hist>>
    BY <2>1, Zenon DEF SameData, PoolOf
  <2> QED
    BY <2>1, <2>2, <2>3, FrameOne, Zenon
<1>2. CASE Releases(o)
  <2>1. Others({o}) /\ SameBlock /\ SameData
    BY <1>2, Zenon DEF Releases
  <2>2. o \in env.formed /\ Unshared(o)
    BY <1>b, <1>2, Zenon DEF Releases, Adding, Creating, Handling, Pcs
  <2>3. PoolOf(o) /\ UNCHANGED <<db, env, hist>>
    BY <2>1, Zenon DEF SameData, PoolOf
  <2> QED
    BY <2>1, <2>2, <2>3, FrameOne, Zenon
<1>3. CASE Continues(o)
  <2>1. Others({o}) /\ SameBlock /\ PoolOf(o) /\ UNCHANGED <<db, env, hist>>
    BY <1>3, Zenon DEF Continues
  <2>2. o \in env.formed /\ Unshared(o)
    BY <1>a, <1>b, <1>3, Zenon DEF Continues, Handling
  <2> QED
    BY <2>1, <2>2, FrameOne, Zenon
<1>4. CASE Modifies(o)
  <2>1. /\ hold[o].pc = "session" /\ Unshared(o) /\ Others({o})
        /\ SameBlock /\ UNCHANGED <<db, env, hist, pool>>
    BY <1>4, Zenon DEF Modifies, ModifiesBy
  <2>2. o \in env.formed /\ PoolOf(o)
    BY <1>b, <2>1, PoolKept, Zenon
  <2> QED
    BY <2>1, <2>2, FrameOne, Zenon
<1>5. CASE EndsModifying(o)
  <2>1. /\ hold[o].pc = "modify" /\ Others({o}) /\ SameBlock /\ UNCHANGED <<pool, env>>
        /\ DOMAIN db' = DOMAIN db /\ (hist' = hist \/ hist' = Stale(o))
    BY <1>5, Zenon DEF EndsModifying, SavesRevision, DropsRevision
  <2>2. o \in env.formed /\ Unshared(o) /\ PoolOf(o) /\ hist'.shared = hist.shared
    BY <1>a, <1>b, <2>1, StaleFacts, PoolKept, Zenon
  <2> QED
    BY <2>1, <2>2, FrameOne, Zenon
<1>6. CASE Starts(o)
  <2>1. /\ Others({o}) /\ hold[o].pc = "free" /\ env'.formed = env.formed \cup {o}
        /\ SameBlock /\ UNCHANGED <<db, pool, hist>>
    BY <1>6, Zenon DEF Starts
  <2>2. Unshared(o) /\ PoolOf(o)
    BY <1>a, <2>1, PoolKept, Zenon
  <2> QED
    BY <2>1, <2>2, FrameOne, Zenon
<1>7. CASE Adds(o)
  <2>1. /\ hold[o].pc = "put" /\ Others({o}) /\ SameBlock /\ UNCHANGED <<pool, env>>
        /\ DOMAIN db' = DOMAIN db \cup {o}
        /\ hist'.shared = IF hold[o].clear THEN hist.shared \cup {<<o, hold[o].old>>} ELSE hist.shared
    BY <1>7, Zenon DEF Adds
  <2>2. o \in env.formed /\ Unshared(o) /\ PoolOf(o)
    BY <1>a, <1>b, <2>1, PoolKept, Zenon
  <2>3. \A n, x \in Obligation : <<n, x>> \in hist'.shared => <<n, x>> \in hist.shared \/ n = o
    BY <2>1, Zenon
  <2> QED
    BY <2>1, <2>2, <2>3, FrameOne, Zenon
<1>8. CASE Abandons(o)
  <2>0. PICK c : c = hold[o].old
    BY Zenon
  <2>1. /\ c \in Obligation /\ Others({o, c}) /\ hold'[o] = Nobody /\ hold'[c] = Nobody
        /\ SameBlock /\ UNCHANGED <<db, pool, env>> /\ hold[o].pc \in {"put", "submit"}
        /\ hist'.shared = hist.shared
    BY <1>8, <2>0, Zenon DEF Abandons
  <2>2. o \in env.formed /\ PoolOf(o)
    BY <1>b, <2>1, PoolKept, Zenon
  <2>3. ASSUME NEW n \in Obligation \ {o}, hold[n].pc \in Creating, hold[n].old # n
        PROVE  hold'[hold[n].old] = hold[hold[n].old]
    <3>1. hold[hold[n].old].pc = "session" /\ hold[n].old # c /\ hold[n].old # o
      BY <2>0, <2>1, <2>3 DEF Structure, Renewals, Adding, Creating, Handling, Pcs
    <3>2. hold[n].old \in Obligation
      BY <2>3, Zenon DEF Structure, HoldTyped, HolderOK, Adding, Creating, Handling, Pcs
    <3> QED
      BY <2>1, <3>1, <3>2, Zenon DEF Others
  <2> QED
    BY <2>1, <2>2, <2>3, Zenon DEF Frame, Others
<1>9. CASE Submits(o)
  <2>1. /\ hold[o].pc = "submit" /\ Others({o}) /\ SameBlock /\ UNCHANGED <<db, env>>
        /\ hist'.shared = hist.shared /\ (pool' = pool \/ pool' = pool \cup {Tx("origin", o, 0)})
    BY <1>9, Zenon DEF Submits
  <2>2. o \in env.formed /\ Unshared(o)
    BY <1>a, <1>b, <2>1, Zenon
  <2>3. PoolOf(o)
    BY <2>1 DEF PoolOf, Tx
  <2> QED
    BY <2>1, <2>2, <2>3, FrameOne, Zenon
<1>10. CASE Counts(o)
  <2>1. /\ hold[o].pc = "count" /\ Others({o}) /\ SameBlock /\ UNCHANGED <<db, pool>>
        /\ hist'.shared = hist.shared /\ env'.formed = env.formed
    BY <1>10, Zenon DEF Counts
  <2>2. o \in env.formed /\ Unshared(o) /\ PoolOf(o)
    BY <1>a, <1>b, <2>1, PoolKept, Zenon
  <2> QED
    BY <2>1, <2>2, FrameOne, Zenon
<1>11. CASE Clears(o)
  <2>0. PICK c \in Obligation : ClearsOf(o, c)
    BY <1>11, Zenon DEF Clears
  <2>1. /\ hold[o].pc = "clear" /\ c = hold[o].old /\ c # o /\ Others({o, c})
        /\ hold'[o] = Nobody /\ hold[c].pc = "session" /\ hold'[c].pc = "session"
        /\ SameBlock /\ UNCHANGED <<pool, env>> /\ (ClearedInDatabase(o, c) \/ UNCHANGED <<db, hist>>)
    BY <2>0, Zenon DEF ClearsOf
  <2>2. DOMAIN db' = DOMAIN db /\ hist'.shared \subseteq hist.shared
    BY <2>1, Zenon DEF ClearedInDatabase
  <2>3. o \in env.formed /\ PoolOf(o)
    BY <1>b, <2>1, PoolKept, Zenon
  <2>4. ASSUME NEW n \in Obligation \ {o}, hold[n].pc \in Creating, hold[n].old # n
        PROVE  hold'[hold[n].old] = hold[hold[n].old]
    <3>1. hold[hold[n].old].pc = "session" /\ hold[n].old # c /\ hold[n].old # o
      BY <2>0, <2>1, <2>4, Zenon DEF Structure, Renewals, Adding, Creating, Handling, Pcs
    <3>2. hold[n].old \in Obligation
      BY <2>4, Zenon DEF Structure, HoldTyped, HolderOK, Adding, Creating, Handling, Pcs
    <3> QED
      BY <2>1, <3>1, <3>2, Zenon DEF Others
  <2> QED
    BY <1>11, <2>1, <2>2, <2>3, <2>4, Zenon DEF Frame, Others
<1>12. CASE Resolves(o)
  <2>1. /\ hold[o].pc \in Handling /\ Others({o}) /\ SameBlock /\ env' = env /\ pool' \subseteq pool
        /\ DOMAIN db' = DOMAIN db \cup {o} /\ hist'.shared = hist.shared
    BY <1>12, Zenon DEF Resolves
  <2>2. o \in env.formed /\ Unshared(o) /\ PoolOf(o)
    BY <1>a, <1>b, <2>1, PoolKept, Zenon DEF Adding, Creating, Handling, Pcs
  <2> QED
    BY <2>1, <2>2, FrameOne, Zenon
<1>13. CASE Saves(o)
  <2>1. /\ hold[o].pc = "save" /\ Others({o}) /\ SameBlock /\ UNCHANGED <<env, pool>>
        /\ DOMAIN db' = DOMAIN db \cup {o} /\ hist' = Stale(o)
    BY <1>13, Zenon DEF Saves
  <2>2. o \in env.formed /\ Unshared(o) /\ PoolOf(o) /\ hist'.shared = hist.shared
    BY <1>a, <1>b, <2>1, PoolKept, StaleFacts, Zenon
  <2> QED
    BY <2>1, <2>2, FrameOne, Zenon
<1> QED
  BY <1>1, <1>2, <1>3, <1>4, <1>5, <1>6, <1>7, <1>8, <1>9, <1>10, <1>11, <1>12, <1>13, Zenon DEF Step, Quiescent

\* What is formed stays so, and the blockchain keeps its shape.
LEMMA StepFormed ==
    ASSUME Structure, NEW o \in Obligation, Step(o)
    PROVE  Formed' /\ Chains'
<1>1. CASE Quiescent
  BY <1>1, Zenon DEF Quiescent, OnlyHold, SameData, Structure, Formed, Chains
<1>2. CASE Frame(o)
  <2>1. Formed'
    <3>1. DOMAIN db' \subseteq env'.formed
      BY <1>2, Zenon DEF Frame, Structure, Formed
    <3>2. \A t \in chain'.all \cup pool' : t.id \in env'.formed
      BY <1>2, Zenon DEF Frame, Structure, Formed, SameBlock, PoolOf
    <3>3. \A n, x \in Obligation : <<n, x>> \in hist'.shared => n \in env'.formed
      BY <1>2, Zenon DEF Frame, Structure, Formed
    <3>4. \A x \in Obligation : hold'[x].pc # "free" => x \in env'.formed
      BY <1>2 DEF Frame, Structure, Formed, Nobody
    <3> QED
      BY <3>1, <3>2, <3>3, <3>4, Zenon DEF Formed
  <2>2. Chains'
    <3>1. chain' = chain /\ PoolOf(o)
      BY <1>2, Zenon DEF Frame, SameBlock
    <3>2. \A t \in chain.all \cup pool' : t.kind = "origin" => t = Tx("origin", t.id, 0)
      BY <3>1, Zenon DEF PoolOf, Structure, Chains
    <3> QED
      BY <3>1, <3>2, Zenon DEF Structure, Chains
  <2> QED
    BY <2>1, <2>2, Zenon
<1> QED
  BY <1>1, <1>2, StepFrame, Zenon

\* The contract a step is about is new while it is being added.
LEMMA StepFreshAt ==
    ASSUME Structure, NEW o \in Obligation, Step(o), hold'[o].pc \in Adding, Frame(o)
    PROVE  FreshAt(o)'
<1>0. FreshAt(o) /\ chain' = chain /\ Formed
  BY Zenon DEF FreshAt, Structure, Fresh, Frame, SameBlock
<1>1. ASSUME NEW p, Opens(o, p) PROVE FALSE
  BY <1>1, Zenon DEF Opens, Handling, Adding, Creating
<1>2. CASE Releases(o)
  BY <1>2 DEF Releases, Nobody, Adding, Creating
<1>3. CASE Continues(o)
  BY <1>3, Zenon DEF Continues, Continued, Handling, Adding, Creating
<1>4. CASE Modifies(o)
  BY <1>4, Zenon DEF Modifies, ModifiesBy, Modified, Adding, Creating
<1>5. CASE EndsModifying(o)
  BY <1>5 DEF EndsModifying, SavesRevision, DropsRevision, Nobody, Adding, Creating
<1>6. CASE Starts(o)
  <2>1. /\ o \notin env.formed /\ hold'[o].pc = "put" /\ hold'[o].so.status = "unresolved"
        /\ ~hold'[o].so.origin /\ ~hold'[o].so.proof /\ ~hold'[o].so.revision
        /\ UNCHANGED <<db, pool, hist>>
    BY <1>6, Zenon DEF Started, Starts
  <2>2. \A t \in chain.all \cup pool : t.id # o
    BY <1>0, <2>1, Zenon DEF Formed
  <2>3. o \notin DOMAIN db /\ \A x \in Obligation : <<o, x>> \notin hist.shared
    BY <1>0, <2>1, Zenon DEF Formed
  <2> QED
    BY <1>0, <2>1, <2>2, <2>3, Zenon DEF FreshAt
<1>7. CASE Adds(o)
  <2>1. hold[o].pc = "put" /\ hold'[o].pc = "submit" /\ hold'[o].so = hold[o].so /\ pool' = pool
    BY <1>7, Zenon DEF Adds
  <2> QED
    BY <1>0, <2>1, Zenon DEF FreshAt, Adding, Creating, Handling, Pcs
<1>8. CASE Abandons(o)
  BY <1>8 DEF Abandons, Nobody, Adding, Creating
<1>9. CASE Submits(o)
  <2>1. /\ hold[o].pc = "submit" /\ hold'[o].so = hold[o].so
        /\ \/ hold'[o].pc = "count"
           \/ pool' = pool /\ hold'[o].pc = "put" /\ hold'[o].tries # 0
    BY <1>9, Zenon DEF Submits
  <2> QED
    BY <1>0, <2>1, Zenon DEF FreshAt, Adding, Creating, Handling, Pcs
<1>10. CASE Counts(o)
  BY <1>10 DEF Counts, Nobody, Adding
<1>11. CASE Clears(o)
  BY <1>11 DEF Clears, ClearsOf, Nobody, Adding, Creating
<1>12. CASE Resolves(o)
  BY <1>12 DEF Resolves, Nobody, Adding, Creating
<1>13. CASE Saves(o)
  BY <1>13 DEF Saves, Nobody, Adding, Creating, Handling
<1>14. CASE Quiescent
  BY <1>0, <1>14, Zenon DEF Quiescent, FreshAt, OnlyHold, SameData
<1> QED
  BY <1>1, <1>2, <1>3, <1>4, <1>5, <1>6, <1>7, <1>8, <1>9, <1>10, <1>11, <1>12, <1>13, <1>14, Zenon DEF Step

\* Contracts that are being added stay new.
LEMMA StepFresh ==
    ASSUME Structure, NEW o \in Obligation, Step(o)
    PROVE  Fresh'
<1>1. CASE Quiescent
  BY <1>1, Zenon DEF Quiescent, OnlyHold, SameData, Structure, Fresh
<1>2. CASE Frame(o)
  <2>1. ASSUME NEW n \in Obligation, hold'[n].pc \in Adding
        PROVE  FreshAt(n)'
    <3>1. CASE n = o
      BY <1>2, <2>1, <3>1, StepFreshAt, Zenon
    <3>2. CASE n # o
      <4>1. hold'[n] = hold[n]
        BY <1>2, <2>1, <3>2 DEF Frame, Nobody, Adding, Creating, Handling, Pcs
      <4>2. FreshAt(n)
        BY Zenon DEF Structure, Fresh, FreshAt
      <4>3. \A t \in chain'.all \cup pool' : t.id = n => t \in chain.all \cup pool
        BY <1>2, <3>2, Zenon DEF Frame, SameBlock, PoolOf
      <4>4. \A x \in Obligation : <<n, x>> \in hist'.shared => <<n, x>> \in hist.shared
        BY <1>2, <3>2, Zenon DEF Frame
      <4>5. n \in DOMAIN db' => n \in DOMAIN db
        BY <1>2, <3>2, Zenon DEF Frame
      <4> QED
        BY <4>1, <4>2, <4>3, <4>4, <4>5, Zenon DEF FreshAt
    <3> QED
      BY <3>1, <3>2, Zenon
  <2> QED
    BY <2>1, Zenon DEF Fresh, FreshAt, Adding, Creating, Handling, Pcs
<1> QED
  BY <1>1, <1>2, StepFrame, Zenon

\* The holder of an addition that goes on.
GoesOn(h, g) ==
    /\ h.pc \in Creating /\ g.old = h.old /\ g.clear = h.clear /\ (g.pc = "clear" => h.clear)
    /\ g.pc # "clear" => h.pc # "clear" /\ g.so = h.so

\* Whoever is adding a contract after a step was adding it before or begins to.
LEMMA StepGoesOn ==
    ASSUME Structure, NEW o \in Obligation, Step(o), Frame(o), hold'[o].pc \in Creating
    PROVE  Others({o}) /\ (GoesOn(hold[o], hold'[o]) \/ Starts(o))
<1>1. ASSUME NEW p, Opens(o, p) PROVE FALSE
  BY <1>1, Zenon DEF Opens, Handling, Adding, Creating
<1>2. CASE Releases(o)
  BY <1>2 DEF Releases, Nobody, Adding, Creating
<1>3. CASE Continues(o)
  BY <1>3, Zenon DEF Continues, Continued, Handling, Adding, Creating
<1>4. CASE Modifies(o)
  BY <1>4, Zenon DEF Modifies, ModifiesBy, Modified, Adding, Creating
<1>5. CASE EndsModifying(o)
  BY <1>5 DEF EndsModifying, SavesRevision, DropsRevision, Nobody, Adding, Creating
<1>6. CASE Starts(o)
  BY <1>6, Zenon DEF Starts
<1>7. CASE Adds(o)
  <2>1. /\ Others({o}) /\ hold[o].pc = "put" /\ hold'[o].pc = "submit" /\ hold'[o].so = hold[o].so
        /\ hold'[o].old = hold[o].old /\ hold'[o].clear = hold[o].clear
    BY <1>7, Zenon DEF Adds
  <2> QED
    BY <2>1, Zenon DEF GoesOn, Adding, Creating, Handling, Pcs
<1>8. CASE Abandons(o)
  BY <1>8 DEF Abandons, Nobody, Adding, Creating
<1>9. CASE Submits(o)
  <2>1. /\ Others({o}) /\ hold[o].pc = "submit" /\ hold'[o].so = hold[o].so
        /\ hold'[o].old = hold[o].old /\ hold'[o].clear = hold[o].clear /\ hold'[o].pc \in {"count", "put"}
    BY <1>9, Zenon DEF Submits
  <2> QED
    BY <2>1, Zenon DEF GoesOn, Adding, Creating, Handling, Pcs
<1>10. CASE Counts(o)
  <2>1. /\ Others({o}) /\ hold[o].pc = "count" /\ hold[o].clear
        /\ hold'[o].pc = "clear" /\ hold'[o].old = hold[o].old /\ hold'[o].clear = hold[o].clear
    BY <1>10 DEF Counts, Nobody, Adding, Creating, Handling, Pcs
  <2> QED
    BY <2>1, Zenon DEF GoesOn, Adding, Creating, Handling, Pcs
<1>11. CASE Clears(o)
  BY <1>11 DEF Clears, ClearsOf, Nobody, Adding, Creating
<1>12. CASE Resolves(o)
  BY <1>12 DEF Resolves, Nobody, Adding, Creating
<1>13. CASE Saves(o)
  BY <1>13 DEF Saves, Nobody, Adding, Creating, Handling
<1>14. CASE Quiescent
  BY <1>14, Zenon DEF Quiescent, GoesOn, Others, Structure, HoldTyped, Renewals
<1> QED
  BY <1>1, <1>2, <1>3, <1>4, <1>5, <1>6, <1>7, <1>8, <1>9, <1>10, <1>11, <1>12, <1>13, <1>14, Zenon DEF Step

\* No two additions come to share an old contract.
LEMMA StepUnique ==
    ASSUME Structure, NEW o \in Obligation, Step(o), Frame(o), hold'[o].pc \in Creating,
           NEW n \in Obligation \ {o}, hold'[n].pc \in Creating, hold'[n].old = hold'[o].old
    PROVE  FALSE
<1>1. hold'[n] = hold[n]
  BY DEF Frame, Nobody, Adding, Creating, Handling, Pcs
<1>2. Others({o}) /\ (GoesOn(hold[o], hold'[o]) \/ Starts(o))
  BY StepGoesOn, Zenon
<1>3. CASE GoesOn(hold[o], hold'[o])
  <2>1. hold[o].pc \in Creating /\ hold[o].old = hold[n].old
    BY <1>1, <1>3, Zenon DEF GoesOn
  <2> QED
    BY <1>1, <2>1 DEF Structure, Renewals
<1>4. CASE Starts(o)
  <2>1. PICK old \in Obligation, roots \in SUBSET Sector, clear \in BOOLEAN : Started(o, old, roots, clear)
    BY <1>4, Zenon DEF Starts
  <2>2. hold[n].old = old /\ hold[n].pc \in Creating /\ hold[o].pc = "free" /\ (old # o => Unshared(old))
    BY <1>1, <1>4, <2>1, Zenon DEF Started, Starts
  <2>3. CASE old = n
    <3>1. hold[n].pc = "session"
      BY <2>1, <2>3, Zenon DEF Started
    <3> QED
      BY <2>2, <3>1, Zenon DEF Adding, Creating, Handling, Pcs
  <2>4. CASE old = o
    BY <2>2, <2>4 DEF Structure, Renewals
  <2>5. CASE old # n /\ old # o
    BY <2>2, <2>5, Zenon DEF Unshared
  <2> QED
    BY <2>3, <2>4, <2>5, Zenon
<1> QED
  BY <1>2, <1>3, <1>4, Zenon

\* Renewals keep the session of the old contract to themselves.
LEMMA StepRenewals ==
    ASSUME Structure, NEW o \in Obligation, Step(o)
    PROVE  Renewals'
<1>1. CASE Quiescent
  BY <1>1, Zenon DEF Quiescent, Structure, Renewals
<1>2. CASE Frame(o)
  <2>1. ASSUME NEW n \in Obligation \ {o}, hold'[n].pc \in Creating
        PROVE  RenewalAt(n)'
    <3>1. hold'[n] = hold[n]
      BY <1>2, <2>1 DEF Frame, Nobody, Adding, Creating, Handling, Pcs
    <3>2. RenewalAt(n)
      BY <2>1, <3>1, Zenon DEF Structure, Renewals, RenewalAt
    <3>3. hold[n].old # n => hold'[hold[n].old] = hold[hold[n].old]
      BY <1>2, <2>1, <3>1, Zenon DEF Frame
    <3>4. ASSUME NEW m \in Obligation, hold'[m].pc \in Creating, hold'[m].old = hold[n].old, hold[n].old # n
          PROVE  m = n
      <4>1. m # o
        BY <1>2, <2>1, <3>1, <3>4, StepUnique, Zenon
      <4>2. hold'[m] = hold[m]
        BY <1>2, <3>4, <4>1 DEF Frame, Nobody, Adding, Creating, Handling, Pcs
      <4> QED
        BY <3>2, <3>4, <4>2, Zenon DEF RenewalAt
    <3> QED
      BY <3>1, <3>2, <3>3, <3>4, Zenon DEF RenewalAt
  <2>2. ASSUME hold'[o].pc \in Creating
        PROVE  RenewalAt(o)'
    <3>1. Others({o}) /\ (GoesOn(hold[o], hold'[o]) \/ Starts(o))
      BY <1>2, <2>2, StepGoesOn, Zenon
    <3>2. \A m \in Obligation : hold'[m].pc \in Creating /\ hold'[m].old = hold'[o].old => m = o
      BY <1>2, <2>2, StepUnique, Zenon
    <3>3. CASE GoesOn(hold[o], hold'[o])
      <4>1. RenewalAt(o)
        BY <3>3, Zenon DEF Structure, Renewals, RenewalAt, GoesOn
      <4>2. hold[o].old # o => hold'[hold[o].old] = hold[hold[o].old]
        BY <3>1, <3>3, Zenon DEF Others, Structure, HoldTyped, HolderOK, GoesOn, Adding, Creating, Handling, Pcs
      <4> QED
        BY <3>2, <3>3, <4>1, <4>2, Zenon DEF GoesOn, RenewalAt
    <3>4. CASE Starts(o)
      <4>1. PICK old \in Obligation, roots \in SUBSET Sector, clear \in BOOLEAN : Started(o, old, roots, clear)
        BY <3>4, Zenon DEF Starts
      <4>2. old # o => hold'[old] = hold[old]
        BY <3>1, Zenon DEF Others
      <4> QED
        BY <3>2, <4>1, <4>2, Zenon DEF Started, RenewalAt
    <3> QED
      BY <3>1, <3>3, <3>4, Zenon
  <2> QED
    BY <2>1, <2>2, Zenon DEF Renewals, RenewalAt
<1> QED
  BY <1>1, <1>2, StepFrame, Zenon

-----------------------------------------------------------------------------
(* The structure of the state is kept: the copies.                         *)

CopyAt(x) == hold[x].pc # "free" /\ ~hold[x].dirty => CopyOK(hold[x], x)

\* A copy stays right when neither it nor its record changes.
LEMMA CopyKept ==
    ASSUME Structure, NEW x \in Obligation, hold'[x] = hold[x],
           x \in DOMAIN db => x \in DOMAIN db' /\ db'[x] = db[x]
    PROVE  CopyAt(x)'
<1>1. CopyAt(x)
  BY Zenon DEF Structure, Copies, CopyAt
<1>2. HolderOK(hold[x], x) \/ hold[x].pc = "free"
  BY Zenon DEF Structure, HoldTyped
<1>3. ASSUME hold[x].pc # "free", ~hold[x].dirty PROVE CopyOK(hold[x], x)'
  <2>1. CopyOK(hold[x], x)
    BY <1>1, <1>3, Zenon DEF CopyAt
  <2>2. CASE hold[x].pc # "clear" /\ (hold[x].pc = "put" => hold[x].tries # 0)
    <3>1. SameRecord(hold[x], x)
      BY <2>1, <2>2, Zenon DEF CopyOK
    <3>2. x \in DOMAIN db' /\ db'[x] = db[x]
      BY <3>1, Zenon DEF SameRecord
    <3> QED
      BY <2>1, <3>1, <3>2, Zenon DEF CopyOK, SameRecord
  <2>3. CASE ~(hold[x].pc # "clear" /\ (hold[x].pc = "put" => hold[x].tries # 0))
    BY <1>2, <1>3, <2>3, Zenon DEF CopyOK, Adding, Creating, Handling, Pcs
  <2> QED
    BY <2>2, <2>3, Zenon
<1> QED
  BY <1>3 DEF CopyAt

\* A holder that is gone has no copy.
LEMMA NoCopy ==
    ASSUME NEW x, hold'[x] = Nobody
    PROVE  CopyAt(x)'
  BY DEF CopyAt, Nobody

\* All copies are right when those of the others are, and those of one or two contracts.
LEMMA CopiesFrom ==
    ASSUME Structure, NEW S, Others(S), \A x \in S \cap Obligation : CopyAt(x)',
           \A x \in DOMAIN db \ S : x \in DOMAIN db' /\ db'[x] = db[x]
    PROVE  Copies'
<1>1. ASSUME NEW x \in Obligation PROVE CopyAt(x)'
  <2>1. CASE x \in S
    BY <2>1, Zenon
  <2>2. CASE x \notin S
    <3>1. hold'[x] = hold[x]
      BY <2>2, Zenon DEF Others
    <3> QED
      BY <2>2, <3>1, CopyKept, Zenon
  <2> QED
    BY <2>1, <2>2, Zenon
<1> QED
  BY <1>1, Zenon DEF Copies, CopyAt

\* Steps of RPCs on the session of a contract keep the copies.
LEMMA SessionCopies ==
    ASSUME Structure, NEW o \in Obligation,
           (\E p \in {"session"} \cup Handling : Opens(o, p)) \/ Releases(o) \/ Modifies(o) \/ EndsModifying(o)
    PROVE  Copies'
<1>0. CopyAt(o)
  BY Zenon DEF Structure, Copies, CopyAt
<1>1. ASSUME NEW p \in {"session"} \cup Handling, Opens(o, p) PROVE Copies'
  <2>1. Others({o}) /\ hold'[o].pc = p /\ hold'[o].so = db[o] /\ SameData
    BY <1>1, Zenon DEF Opens
  <2>2. o \in DOMAIN db /\ db' = db /\ (p \in Handling => db[o].status = "unresolved")
    BY <1>1, <2>1, Zenon DEF Opens, SameData
  <2>3. SameRecord(hold[o], o)'
    BY <2>1, <2>2, Zenon DEF SameRecord
  <2>4. CopyOK(hold[o], o)'
    BY <1>1, <2>1, <2>2, <2>3, Zenon DEF CopyOK, Adding, Creating, Handling, Pcs
  <2> QED
    BY <2>1, <2>2, <2>4, CopiesFrom, Zenon DEF CopyAt
<1>2. CASE Releases(o)
  <2>1. Others({o}) /\ hold'[o] = Nobody /\ db' = db
    BY <1>2, Zenon DEF SameData, Releases
  <2> QED
    BY <2>1, NoCopy, CopiesFrom, Zenon
<1>3. CASE Modifies(o)
  <2>1. PICK gained \in SUBSET Sector, removed \in SUBSET Sector : ModifiesBy(o, gained, removed)
    BY <1>3, Zenon DEF Modifies
  <2>2. Others({o}) /\ db' = db
    BY <2>1, Zenon DEF ModifiesBy
  <2>3. ASSUME ~hold'[o].dirty PROVE CopyOK(hold[o], o)'
    <3>1. ~hold[o].dirty /\ hold[o].pc = "session" /\ ~hold[o].so.cleared
      BY <2>1, <2>3, Zenon DEF ModifiesBy, Modified
    <3>2. SameRecord(hold[o], o) /\ hold[o].so.roots = db[o].roots
      BY <1>0, <3>1, Zenon DEF CopyAt, CopyOK
    <3>3. SameRecord(hold[o], o)'
      BY <2>1, <2>2, <3>2, Zenon DEF SameRecord, ModifiesBy, Modified
    <3>4. /\ hold'[o].pc = "modify" /\ hold'[o].gained \cap db[o].roots = {} /\ hold'[o].removed \subseteq db[o].roots
          /\ hold'[o].so.roots = (db[o].roots \ hold'[o].removed) \cup hold'[o].gained
      BY <2>1, <3>2, Zenon DEF ModifiesBy, Modified
    <3> QED
      BY <2>2, <3>3, <3>4, Zenon DEF CopyOK, Handling
  <2> QED
    BY <2>2, <2>3, CopiesFrom, Zenon DEF CopyAt
<1>4. CASE EndsModifying(o)
  <2>1. Others({o}) /\ hold[o].pc = "modify"
    BY <1>4, Zenon DEF EndsModifying
  <2>2. CASE DropsRevision(o)
    BY <2>1, <2>2, NoCopy, CopiesFrom, Zenon DEF DropsRevision
  <2>3. CASE SavesRevision(o)
    <3>1. SameRecord(hold[o], o)' /\ hold'[o].so.roots = db'[o].roots
      BY <2>3, Zenon DEF SameRecord, SavesRevision
    <3>2. CopyOK(hold[o], o)'
      BY <2>3, <3>1, Zenon DEF CopyOK, Handling, SavesRevision
    <3> QED
      BY <2>1, <2>3, <3>2, CopiesFrom, Zenon DEF CopyAt, SavesRevision, OthersKept
  <2> QED
    BY <1>4, <2>2, <2>3, Zenon DEF EndsModifying
<1> QED
  BY <1>1, <1>2, <1>3, <1>4, Zenon

\* Steps of an addition keep the copies.
LEMMA AdditionCopies ==
    ASSUME Structure, NEW o \in Obligation,
           Starts(o) \/ Adds(o) \/ Abandons(o) \/ Submits(o) \/ Counts(o) \/ Clears(o)
    PROVE  Copies'
<1>0. CopyAt(o)
  BY Zenon DEF Structure, Copies, CopyAt
<1>1. CASE Starts(o)
  <2>1. Others({o}) /\ hold'[o].pc = "put" /\ hold'[o].tries = 0 /\ db' = db
    BY <1>1, Zenon DEF Started, Starts
  <2>2. CopyOK(hold[o], o)'
    BY <2>1, Zenon DEF CopyOK, Adding, Creating, Handling, Pcs
  <2> QED
    BY <2>1, <2>2, CopiesFrom, Zenon DEF CopyAt
<1>2. CASE Adds(o)
  <2>1. /\ Others({o}) /\ DOMAIN db' = DOMAIN db \cup {o} /\ db'[o] = hold[o].so
        /\ hold'[o].pc = "submit" /\ hold'[o].so = hold[o].so
        /\ OthersKept(o)
    BY <1>2, Zenon DEF Adds
  <2>2. SameRecord(hold[o], o)' /\ hold'[o].so.roots = db'[o].roots
    BY <2>1, Zenon DEF SameRecord
  <2>3. CopyOK(hold[o], o)'
    BY <2>1, <2>2, Zenon DEF CopyOK, Adding, Creating, Handling, Pcs
  <2> QED
    BY <2>1, <2>3, CopiesFrom, Zenon DEF CopyAt, OthersKept
<1>3. CASE Abandons(o)
  <2>0. PICK c : c = hold[o].old
    BY Zenon
  <2>1. Others({o, c}) /\ hold'[o] = Nobody /\ hold'[c] = Nobody /\ db' = db
    BY <1>3, <2>0, Zenon DEF Abandons
  <2> QED
    BY <2>1, NoCopy, CopiesFrom, Zenon
<1>4. CASE Submits(o)
  <2>1. /\ Others({o}) /\ hold[o].pc = "submit" /\ db' = db /\ hold'[o].so = hold[o].so
        /\ hold'[o].dirty = hold[o].dirty
        /\ hold'[o].pc = "count" \/ (hold'[o].pc = "put" /\ hold'[o].tries # 0)
    BY <1>4, Zenon DEF Submits
  <2>2. ASSUME ~hold[o].dirty PROVE CopyOK(hold[o], o)'
    <3>1. SameRecord(hold[o], o) /\ hold[o].so.roots = db[o].roots
      BY <1>0, <2>1, <2>2, Zenon DEF CopyAt, CopyOK, Adding, Creating, Handling, Pcs
    <3>2. SameRecord(hold[o], o)' /\ hold'[o].so.roots = db'[o].roots
      BY <2>1, <3>1, Zenon DEF SameRecord
    <3> QED
      BY <2>1, <3>2, Zenon DEF CopyOK, Adding, Creating, Handling, Pcs
  <2>3. CopyAt(o)'
    BY <2>1, <2>2, Zenon DEF CopyAt
  <2> QED
    BY <2>1, <2>3, CopiesFrom, Zenon
<1>5. CASE Counts(o)
  <2>1. Others({o}) /\ db' = db /\ (hold'[o] = Nobody \/ hold'[o].pc = "clear")
    BY <1>5, Zenon DEF Counts
  <2>2. CopyAt(o)'
    BY <2>1 DEF CopyAt, CopyOK, Nobody, Adding, Creating, Handling, Pcs
  <2> QED
    BY <2>1, <2>2, CopiesFrom, Zenon
<1>6. CASE Clears(o)
  <2>1. PICK c \in Obligation : ClearsOf(o, c)
    BY <1>6, Zenon DEF Clears
  <2>2. CopyAt(o)' /\ Others({o, c})
    BY <2>1, NoCopy, Zenon DEF ClearsOf
  <2>3. ASSUME ~hold[c].dirty PROVE CopyOK(hold[c], c)'
    <3>1. SameRecord(hold[c], c)'
      <4>1. CASE ClearedInDatabase(o, c)
        BY <4>1, Zenon DEF ClearedInDatabase, SameRecord
      <4>2. CASE UNCHANGED <<db, hist>>
        <5>1. SameRecord(hold[c], c)
          BY <2>1, <2>3, Zenon DEF Structure, Copies, CopyOK, ClearsOf
        <5> QED
          BY <2>1, <4>2, <5>1, Zenon DEF SameRecord, ClearsOf, ClearedCopy
      <4> QED
        BY <2>1, <4>1, <4>2, Zenon DEF ClearsOf
    <3> QED
      BY <2>1, <3>1, Zenon DEF CopyOK, ClearsOf, ClearedCopy, Handling
  <2>4. CopyAt(c)'
    BY <2>1, <2>3, Zenon DEF CopyAt, ClearsOf
  <2>5. \A x \in DOMAIN db \ {o, c} : x \in DOMAIN db' /\ db'[x] = db[x]
    BY <2>1, Zenon DEF ClearsOf, ClearedInDatabase, OthersKept
  <2> QED
    BY <2>2, <2>4, <2>5, CopiesFrom, Zenon
<1> QED
  BY <1>1, <1>2, <1>3, <1>4, <1>5, <1>6, Zenon

\* Steps of an action item keep the copies, and so does every step.
LEMMA StepCopies ==
    ASSUME Structure, NEW o \in Obligation, Step(o)
    PROVE  Copies'
<1>0. CopyAt(o)
  BY Zenon DEF Structure, Copies, CopyAt
<1>1. CASE Continues(o)
  <2>1. Others({o}) /\ Continued(hold[o], hold'[o]) /\ db' = db /\ hold[o].pc \in Handling
    BY <1>1, Zenon DEF Continues
  <2>2. ASSUME ~hold'[o].dirty PROVE CopyOK(hold[o], o)'
    <3>1. ~hold[o].dirty
      BY <2>1, <2>2, Zenon DEF Continued
    <3>2. SameRecord(hold[o], o) /\ hold[o].so.roots = db[o].roots /\ hold[o].so.status = "unresolved"
      BY <1>0, <2>1, <3>1, Zenon DEF CopyAt, CopyOK, Handling
    <3>3. /\ SameRecord(hold[o], o)' /\ hold'[o].so.roots = db'[o].roots /\ hold'[o].so.status = "unresolved"
          /\ hold'[o].pc \in Handling
      BY <2>1, <3>2, Zenon DEF SameRecord, Continued
    <3> QED
      BY <3>3, Zenon DEF CopyOK, Handling
  <2> QED
    BY <2>1, <2>2, CopiesFrom, Zenon DEF CopyAt
<1>2. CASE Resolves(o)
  <2>1. Others({o}) /\ hold'[o] = Nobody /\ DOMAIN db' = DOMAIN db \cup {o}
        /\ OthersKept(o)
    BY <1>2, Zenon DEF Resolves
  <2> QED
    BY <2>1, NoCopy, CopiesFrom, Zenon DEF OthersKept
<1>3. CASE Saves(o)
  <2>1. /\ hold[o].pc = "save" /\ Others({o}) /\ DOMAIN db' = DOMAIN db \cup {o} /\ db'[o] = hold[o].so
        /\ hold'[o] = Nobody \/ (hold'[o].pc = "finish" /\ hold'[o].so = hold[o].so /\ hold'[o].dirty = hold[o].dirty)
        /\ OthersKept(o)
    BY <1>3, Zenon DEF Saves
  <2>2. CASE hold'[o] = Nobody
    BY <2>1, <2>2, NoCopy, CopiesFrom, Zenon DEF OthersKept
  <2>3. CASE hold'[o].pc = "finish" /\ hold'[o].so = hold[o].so /\ hold'[o].dirty = hold[o].dirty
    <3>1. ASSUME ~hold[o].dirty PROVE CopyOK(hold[o], o)'
      <4>1. hold[o].so.status = "unresolved"
        BY <1>0, <2>1, <3>1, Zenon DEF CopyAt, CopyOK, Adding, Creating, Handling, Pcs
      <4>2. SameRecord(hold[o], o)' /\ hold'[o].so.roots = db'[o].roots
        BY <2>1, <2>3, Zenon DEF SameRecord
      <4> QED
        BY <2>3, <4>1, <4>2, Zenon DEF CopyOK, Adding, Creating, Handling, Pcs
    <3>2. CopyAt(o)'
      BY <2>3, <3>1, Zenon DEF CopyAt
    <3> QED
      BY <2>1, <3>2, CopiesFrom, Zenon DEF OthersKept
  <2> QED
    BY <2>1, <2>2, <2>3, Zenon
<1>4. CASE Quiescent
  BY <1>4 DEF Quiescent, OnlyHold, SameData, Structure, Copies, CopyOK, SameRecord
<1> QED
  BY <1>1, <1>2, <1>3, <1>4, SessionCopies, AdditionCopies, Zenon DEF Step

-----------------------------------------------------------------------------
(* What a step of one contract does to the records.                        *)

SameFlags(x) == db'[x].origin = db[x].origin /\ db'[x].proof = db[x].proof /\ db'[x].revision = db[x].revision
RecordMoves(x) ==
    /\ x \in DOMAIN db /\ SameFlags(x)
    /\ db'[x].status = db[x].status \/ (db[x].status = "unresolved" /\ db'[x].status # "unresolved")
RecordNew(x) ==
    /\ ~db'[x].origin /\ ~db'[x].proof /\ ~db'[x].revision /\ x \notin DOMAIN db
    /\ \A t \in chain.all : t.id # x
    /\ height < WindowEnd[x]
RecordStep ==
    /\ hist.stale \subseteq hist'.stale
    /\ \A x \in DOMAIN db' \ hist'.stale : RecordMoves(x) \/ RecordNew(x)

\* Records that do not change satisfy it.
LEMMA RecordSame ==
    ASSUME NEW x \in DOMAIN db, db'[x] = db[x]
    PROVE  RecordMoves(x)
  BY Zenon DEF RecordMoves, SameFlags

\* A right copy has the flags and the status of the record.
LEMMA CopyFlags ==
    ASSUME Structure, NEW o \in Obligation, hold[o].pc \notin {"free", "clear"}, ~hold[o].dirty,
           hold[o].pc = "put" => hold[o].tries # 0
    PROVE  SameRecord(hold[o], o)
  BY Zenon DEF Structure, Copies, CopyOK

\* One record changes, from a right copy or with a note that it was not.
LEMMA RecordOne ==
    ASSUME Structure, NEW o, DOMAIN db' \subseteq DOMAIN db \cup {o}, OthersKept(o),
           hist'.stale = Stale(o).stale, ~hold[o].dirty => RecordMoves(o) \/ RecordNew(o)
    PROVE  RecordStep
<1>1. /\ hold[o].dirty => hist'.stale = hist.stale \cup {o}
      /\ ~hold[o].dirty => hist'.stale = hist.stale
  BY StaleFacts, Zenon
<1>2. hist.stale \subseteq hist'.stale
  BY <1>1, Zenon
<1>3. ASSUME NEW x \in DOMAIN db' \ hist'.stale PROVE RecordMoves(x) \/ RecordNew(x)
  <2>1. CASE x = o
    BY <1>1, <1>3, <2>1, Zenon
  <2>2. CASE x # o
    BY <2>2, RecordSame, Zenon DEF OthersKept
  <2> QED
    BY <2>1, <2>2, Zenon
<1> QED
  BY <1>2, <1>3, Zenon DEF RecordStep

\* No record changes.
LEMMA RecordNone ==
    ASSUME db' = db, hist'.stale = hist.stale
    PROVE  RecordStep
<1>1. \A x \in DOMAIN db' : RecordMoves(x)
  BY RecordSame, Zenon
<1> QED
  BY <1>1, Zenon DEF RecordStep

\* Every step of one contract changes records in this way.
LEMMA StepRecords ==
    ASSUME Structure, NEW o \in Obligation, Step(o)
    PROVE  RecordStep
<1>1. ASSUME NEW p, Opens(o, p) PROVE RecordStep
  BY <1>1, RecordNone, Zenon DEF Opens, OnlyHold, SameData
<1>2. CASE Releases(o)
  BY <1>2, RecordNone, Zenon DEF Releases, OnlyHold, SameData
<1>3. CASE Continues(o)
  BY <1>3, RecordNone, Zenon DEF Continues, SameBlock
<1>4. CASE Modifies(o)
  BY <1>4, RecordNone, Zenon DEF Modifies, ModifiesBy
<1>5. CASE EndsModifying(o)
  <2>1. hold[o].pc = "modify"
    BY <1>5, Zenon DEF EndsModifying
  <2>2. CASE DropsRevision(o)
    BY <2>2, RecordNone, Zenon DEF DropsRevision
  <2>3. CASE SavesRevision(o)
    <3>1. ASSUME ~hold[o].dirty PROVE RecordMoves(o)
      <4>1. SameRecord(hold[o], o)
        BY <2>1, <3>1, CopyFlags, Zenon
      <4> QED
        BY <2>3, <4>1, Zenon DEF SameRecord, RecordMoves, SameFlags, SavesRevision
    <3> QED
      BY <2>3, <3>1, RecordOne, Zenon DEF SavesRevision
  <2> QED
    BY <1>5, <2>2, <2>3, Zenon DEF EndsModifying
<1>6. CASE Starts(o)
  BY <1>6, RecordNone, Zenon DEF Starts
<1>7. CASE Adds(o)
  <2>1. /\ hold[o].pc = "put" /\ DOMAIN db' = DOMAIN db \cup {o} /\ db'[o] = hold[o].so
        /\ hist'.stale = Stale(o).stale /\ HolderOK(hold[o], o)
        /\ OthersKept(o)
    BY <1>7, Zenon DEF Adds
  <2>2. /\ ~hold[o].so.origin /\ ~hold[o].so.proof /\ ~hold[o].so.revision
        /\ \A t \in chain.all : t.id # o
    BY <2>1, Zenon DEF Structure, Fresh, Adding, Creating, Handling, Pcs
  <2>3. height < WindowEnd[o]
    BY <1>7, Zenon DEF Adds
  <2>4. ASSUME ~hold[o].dirty PROVE RecordMoves(o) \/ RecordNew(o)
    <3>1. CASE o \notin DOMAIN db
      BY <2>1, <2>2, <2>3, <3>1, Zenon DEF RecordNew
    <3>2. CASE o \in DOMAIN db
      <4>1. hold[o].tries # 0
        BY <2>1, <3>2, Zenon DEF Structure, Fresh
      <4>2. SameRecord(hold[o], o)
        BY <2>1, <2>4, <4>1, CopyFlags, Zenon
      <4> QED
        BY <2>1, <3>2, <4>2, Zenon DEF SameRecord, RecordMoves, SameFlags
    <3> QED
      BY <3>1, <3>2, Zenon
  <2> QED
    BY <2>1, <2>4, RecordOne, Zenon
<1>8. CASE Abandons(o)
  BY <1>8, RecordNone, Zenon DEF Abandons
<1>9. CASE Submits(o)
  BY <1>9, RecordNone, Zenon DEF Submits
<1>10. CASE Counts(o)
  BY <1>10, RecordNone, Zenon DEF Counts
<1>11. CASE Clears(o)
  <2>1. PICK c \in Obligation : ClearsOf(o, c)
    BY <1>11, Zenon DEF Clears
  <2>2. CASE UNCHANGED <<db, hist>>
    BY <2>2, RecordNone, Zenon
  <2>3. CASE ClearedInDatabase(o, c)
    <3>1. ASSUME ~hold[c].dirty PROVE RecordMoves(c)
      <4>1. SameRecord(hold[c], c)
        BY <2>1, <3>1, CopyFlags, Zenon DEF ClearsOf
      <4> QED
        BY <2>1, <2>3, <4>1 DEF SameRecord, RecordMoves, SameFlags, ClearedInDatabase, ClearsOf, ClearedCopy
    <3> QED
      BY <2>3, <3>1, RecordOne, Zenon DEF ClearedInDatabase
  <2> QED
    BY <2>1, <2>2, <2>3, Zenon DEF ClearsOf
<1>12. CASE Resolves(o)
  <2>1. /\ hold[o].pc \in Handling /\ DOMAIN db' = DOMAIN db \cup {o} /\ hist'.stale = Stale(o).stale
        /\ db'[o].status # "unresolved" /\ db'[o].origin = hold[o].so.origin
        /\ db'[o].proof = hold[o].so.proof /\ db'[o].revision = hold[o].so.revision
        /\ OthersKept(o)
    BY <1>12, Zenon DEF Resolves
  <2>2. ASSUME ~hold[o].dirty PROVE RecordMoves(o)
    <3>1. SameRecord(hold[o], o) /\ hold[o].so.status = "unresolved"
      BY <2>1, <2>2, CopyFlags, Zenon DEF Structure, Copies, CopyOK, Adding, Creating, Handling, Pcs
    <3> QED
      BY <2>1, <3>1, Zenon DEF SameRecord, RecordMoves, SameFlags
  <2> QED
    BY <2>1, <2>2, RecordOne, Zenon
<1>13. CASE Saves(o)
  <2>1. /\ hold[o].pc = "save" /\ DOMAIN db' = DOMAIN db \cup {o} /\ hist' = Stale(o) /\ db'[o] = hold[o].so
        /\ OthersKept(o)
    BY <1>13, Zenon DEF Saves
  <2>2. ASSUME ~hold[o].dirty PROVE RecordMoves(o)
    <3>1. SameRecord(hold[o], o)
      BY <2>1, <2>2, CopyFlags, Zenon
    <3> QED
      BY <2>1, <3>1, Zenon DEF SameRecord, RecordMoves, SameFlags
  <2> QED
    BY <2>1, <2>2, RecordOne, Zenon
<1>14. CASE Quiescent
  BY <1>14, RecordNone, Zenon DEF Quiescent, OnlyHold, SameData
<1> QED
  BY <1>1, <1>2, <1>3, <1>4, <1>5, <1>6, <1>7, <1>8, <1>9, <1>10, <1>11, <1>12, <1>13, <1>14, Zenon DEF Step

\* The block, the audit and the blockchain stay.
LEMMA StepBlock ==
    ASSUME Structure, NEW o \in Obligation, Step(o)
    PROVE  SameBlock
  BY StepFrame, Zenon DEF Frame, Quiescent, OnlyHold, SameBlock

\* The records keep agreeing with the blockchain, and are settled in time.
LEMMA StepKeepsRecords ==
    ASSUME Structure, Structure', Records, NEW o \in Obligation, Step(o)
    PROVE  Records'
<1>0. RecordStep /\ SameBlock
  BY StepRecords, StepBlock, Zenon
<1>1. ASSUME NEW x \in DOMAIN db' \ hist'.stale PROVE FlagsRight(x)'
  <2>1. CASE RecordMoves(x)
    <3>1. x \in DOMAIN db \ hist.stale /\ SameFlags(x) /\ chain' = chain
      BY <1>0, <1>1, <2>1, Zenon DEF RecordMoves, RecordStep, SameBlock
    <3>2. FlagsRight(x)
      BY <3>1, Zenon DEF Records, FlagsFollowChain
    <3> QED
      BY <3>1, <3>2, Zenon DEF FlagsRight, SameFlags, Confirmed
  <2>2. CASE RecordNew(x)
    <3>1. Confirmed(chain, "origin", x) = {} /\ Confirmed(chain, "proof", x) = {}
      BY <2>2, Zenon DEF RecordNew, Confirmed
    <3>2. Confirmed(chain, "origin", x)' = Confirmed(chain, "origin", x)
          /\ Confirmed(chain, "proof", x)' = Confirmed(chain, "proof", x)
      BY <1>0, Zenon DEF Confirmed, SameBlock
    <3> QED
      BY <2>2, <3>1, <3>2, Zenon DEF FlagsRight, RecordNew
  <2> QED
    BY <1>0, <1>1, <2>1, <2>2, Zenon DEF RecordStep
<1>2. ASSUME NEW x \in Open' \ hist'.stale
      PROVE  audit' <= WindowEnd[x] + 2 * BlocksPerDay /\ height' < WindowEnd[x] + 2 * BlocksPerDay
  <2>1. x \in DOMAIN db' \ hist'.stale /\ db'[x].status = "unresolved"
    BY <1>2, Zenon DEF Open, Unresolved
  <2>2. CASE RecordMoves(x)
    <3>1. x \in Open \ hist.stale
      BY <1>0, <2>1, <2>2, Zenon DEF RecordMoves, RecordStep, Open, Unresolved
    <3> QED
      BY <1>0, <3>1, Zenon DEF Records, Times, SameBlock
  <2>3. CASE RecordNew(x)
    <3>1. height < WindowEnd[x] /\ audit <= height + BlocksPerDay /\ audit \in Int /\ height \in Nat
      BY <2>3, ObligationAssumption DEF RecordNew, Records, Times, Structure, Typed
    <3>2. WindowEnd[x] \in Nat
      BY <2>1, ObligationAssumption, Zenon DEF Structure, Typed
    <3>3. audit <= WindowEnd[x] + 2 * BlocksPerDay /\ height < WindowEnd[x] + 2 * BlocksPerDay
      BY <3>1, <3>2, ObligationAssumption
    <3> QED
      BY <1>0, <3>3, Zenon DEF SameBlock
  <2> QED
    BY <1>0, <2>1, <2>2, <2>3, Zenon DEF RecordStep
<1> QED
  BY <1>0, <1>1, <1>2, Zenon DEF Records, FlagsFollowChain, Times, SameBlock
=============================================================================
