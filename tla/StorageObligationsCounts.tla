---------------------- MODULE StorageObligationsCounts ----------------------
(***************************************************************************)
(* Proofs about the host's storage obligations, part two: what the steps   *)
(* of ObligationInvariant do to the metrics, which count the open          *)
(* contracts, and to the sectors, which each contract that lists them      *)
(* holds once.                                                             *)
(***************************************************************************)
EXTENDS StorageObligationsSteps, FiniteSetTheorems

\* Some leaves take the SMT solver, with its preparation, longer than the default 5 seconds.
USE SMTT(30)

-----------------------------------------------------------------------------
(* What a step of one contract does to the metrics.                        *)

IsCounted(x) == x \in DOMAIN db /\ db[x].status = "unresolved" /\ hold[x].pc \notin Adding

\* The contracts that are counted, one by one.
LEMMA CountedFacts ==
    ASSUME Structure
    PROVE  /\ Counted = {x \in Obligation : IsCounted(x)} /\ IsFiniteSet(Counted) /\ Cardinality(Counted) \in Nat
<1>1. Counted = {x \in Obligation : IsCounted(x)}
  BY Zenon DEF Counted, Open, Unresolved, IsCounted, Structure, Typed
<1>2. IsFiniteSet(Counted)
  BY <1>1, ObligationAssumption, FS_Subset, Zenon
<1> QED
  BY <1>1, <1>2, FS_CardinalityType, Zenon

\* The same after a step.
LEMMA CountedNext ==
    ASSUME Structure'
    PROVE  Counted' = {x \in Obligation : IsCounted(x)'}
  BY Zenon DEF Counted, Open, Unresolved, IsCounted, Structure, Typed

\* The metrics stay right when the same contracts are counted.
LEMMA MetricsSame ==
    ASSUME Structure, Structure', Metrics, metrics'.count = metrics.count, metrics'.locked = metrics.locked,
           Undamaged' => Undamaged /\ \A x \in Obligation : IsCounted(x)' <=> IsCounted(x)
    PROVE  Metrics'
<1> SUFFICES ASSUME Undamaged' PROVE metrics'.count = Cardinality(Counted') /\ metrics'.locked = Cardinality(Counted')
  BY Zenon DEF Metrics
<1>1. Counted = {x \in Obligation : IsCounted(x)}
  BY CountedFacts, Zenon
<1>2. Counted' = {x \in Obligation : IsCounted(x)'}
  BY CountedNext, Zenon
<1>3. Counted' = Counted
  BY <1>1, <1>2, Zenon
<1> QED
  BY <1>3, Zenon DEF Metrics

SameStatuses == DOMAIN db' = DOMAIN db /\ \A x \in DOMAIN db : db'[x].status = db[x].status
SameAdding ==
    \A x \in DOMAIN db :
        /\ hold'[x].pc \in Adding <=> hold[x].pc \in Adding
        /\ hold[x].pc \in Adding /\ hold[x].dirty => hold'[x].dirty

\* So it is when no status changes and nothing becomes or ceases to be an addition.
LEMMA MetricsQuiet ==
    ASSUME Structure, Structure', Metrics, metrics'.count = metrics.count, metrics'.locked = metrics.locked,
           hist'.stale = {} => hist.stale = {} /\ SameStatuses, hist.uncounted => hist'.uncounted, SameAdding
    PROVE  Metrics'
<1>1. ASSUME Undamaged' PROVE Undamaged /\ \A x \in Obligation : IsCounted(x)' <=> IsCounted(x)
  <2>1. hist.stale = {} /\ SameStatuses /\ ~hist.uncounted
    BY <1>1, Zenon DEF Undamaged
  <2>2. Undamaged
    BY <1>1, <2>1, Zenon DEF Undamaged, SameStatuses, SameAdding
  <2>3. \A x \in Obligation : IsCounted(x)' <=> IsCounted(x)
    BY <2>1, Zenon DEF IsCounted, SameStatuses, SameAdding
  <2> QED
    BY <2>2, <2>3, Zenon
<1> QED
  BY <1>1, MetricsSame, Zenon

\* What is an addition does not change when only one holder does, and that one does not.
LEMMA AddingOthers ==
    ASSUME Structure, NEW S, Others(S),
           \A x \in S \cap DOMAIN db : /\ hold'[x].pc \in Adding <=> hold[x].pc \in Adding
                                       /\ hold[x].pc \in Adding /\ hold[x].dirty => hold'[x].dirty
    PROVE  SameAdding
  BY Zenon DEF SameAdding, Others, Structure, Typed

\* Sessions and action items are not additions.
LEMMA NotAdding ==
    ASSUME NEW p, p \in {"free", "session", "modify", "clear"} \cup Handling
    PROVE  p \notin Adding
  BY Zenon DEF Adding, Creating, Handling, Pcs

\* An unharmed copy is written back with its status.
LEMMA StatusSame ==
    ASSUME Structure, NEW o \in Obligation, hold[o].pc \notin {"free", "clear", "put"},
           hist'.stale = Stale(o).stale, DOMAIN db' \subseteq DOMAIN db \cup {o}, DOMAIN db \subseteq DOMAIN db',
           db'[o].status = hold[o].so.status, OthersKept(o)
    PROVE  hist'.stale = {} => hist.stale = {} /\ SameStatuses
<1> SUFFICES ASSUME hist'.stale = {} PROVE hist.stale = {} /\ SameStatuses
  BY Zenon
<1>1. ~hold[o].dirty /\ hist.stale = {}
  BY StaleEmpty, Zenon
<1>2. SameRecord(hold[o], o)
  BY <1>1, CopyFlags, Zenon
<1> QED
  BY <1>1, <1>2, Zenon DEF SameRecord, SameStatuses, OthersKept

\* Counting the contract that has been added.
LEMMA CountMetrics ==
    ASSUME Structure, Structure', Metrics, NEW o \in Obligation, Counts(o)
    PROVE  Metrics'
<1>1. /\ hold[o].pc = "count" /\ Others({o}) /\ db' = db
      /\ metrics'.count = metrics.count + 1 /\ metrics'.locked = metrics.locked + 1
      /\ hist'.stale = hist.stale
      /\ hist.uncounted \/ hold[o].dirty => hist'.uncounted
      /\ hold'[o] = Nobody \/ hold'[o].pc = "clear"
  BY Zenon DEF Counts
<1>2. hold'[o].pc \notin Adding /\ hold[o].pc \in Adding
  BY <1>1 DEF Nobody, Adding, Creating, Handling, Pcs
<1> SUFFICES ASSUME Undamaged' PROVE metrics'.count = Cardinality(Counted') /\ metrics'.locked = Cardinality(Counted')
  BY Zenon DEF Metrics
<1>3. ~hold[o].dirty /\ ~hist.uncounted /\ hist.stale = {}
  BY <1>1, Zenon DEF Undamaged
<1>4. o \in DOMAIN db /\ db[o].status = "unresolved"
  <2>1. SameRecord(hold[o], o)
    BY <1>1, <1>3, CopyFlags, Zenon
  <2>2. hold[o].so.status = "unresolved"
    BY <1>2, Zenon DEF Structure, Fresh
  <2> QED
    BY <2>1, <2>2, Zenon DEF SameRecord
<1>5. \A x \in DOMAIN db : x # o => hold'[x] = hold[x]
  BY <1>1, Zenon DEF Others, Structure, Typed
<1>6. Undamaged
  BY <1>1, <1>3, <1>5, Zenon DEF Undamaged
<1>7. metrics.count = Cardinality(Counted) /\ metrics.locked = Cardinality(Counted)
  BY <1>6, Zenon DEF Metrics
<1>8. Counted = {x \in Obligation : IsCounted(x)} /\ IsFiniteSet(Counted) /\ Cardinality(Counted) \in Nat
  BY CountedFacts, Zenon
<1>9. Counted' = {x \in Obligation : IsCounted(x)'}
  BY CountedNext, Zenon
<1>10. Counted' = Counted \cup {o} /\ o \notin Counted
  BY <1>1, <1>2, <1>4, <1>5, <1>8, <1>9, Zenon DEF IsCounted
<1>11. Cardinality(Counted') = Cardinality(Counted) + 1
  BY <1>8, <1>10, FS_AddElement, Zenon
<1> QED
  BY <1>1, <1>7, <1>11, Zenon

\* Resolving a contract.
LEMMA ResolveMetrics ==
    ASSUME Structure, Structure', Metrics, NEW o \in Obligation, Resolves(o)
    PROVE  Metrics'
<1>1. /\ hold[o].pc \in Handling /\ Others({o}) /\ hold'[o] = Nobody
      /\ DOMAIN db' = DOMAIN db \cup {o} /\ db'[o].status # "unresolved"
      /\ hist'.stale = Stale(o).stale /\ metrics'.count = metrics.count - 1
      /\ hist.uncounted => hist'.uncounted
      /\ ~hist'.uncounted => metrics'.locked = Minus(metrics.locked, 1)
      /\ OthersKept(o)
  BY Zenon DEF Resolves, OthersKept
<1> SUFFICES ASSUME Undamaged' PROVE metrics'.count = Cardinality(Counted') /\ metrics'.locked = Cardinality(Counted')
  BY Zenon DEF Metrics
<1>2. hist'.stale = {} /\ ~hist'.uncounted
  BY Zenon DEF Undamaged
<1>3. ~hold[o].dirty /\ hist.stale = {} /\ ~hist.uncounted
  BY <1>1, <1>2, StaleFacts, Zenon
<1>4. o \in DOMAIN db /\ db[o].status = "unresolved" /\ hold[o].pc \notin Adding
  <2>1. SameRecord(hold[o], o) /\ hold[o].so.status = "unresolved"
    BY <1>1, <1>3, CopyFlags, Zenon DEF Structure, Copies, CopyOK, Adding, Creating, Handling, Pcs
  <2> QED
    BY <1>1, <2>1, Zenon DEF SameRecord, Adding, Creating, Handling, Pcs
<1>5. \A x \in DOMAIN db : x # o => hold'[x] = hold[x] /\ db'[x] = db[x]
  BY <1>1, Zenon DEF Others, Structure, Typed, OthersKept
<1>6. Undamaged
  BY <1>1, <1>3, <1>4, <1>5, Zenon DEF Undamaged
<1>7. metrics.count = Cardinality(Counted) /\ metrics.locked = Cardinality(Counted)
  BY <1>6, Zenon DEF Metrics
<1>8. Counted = {x \in Obligation : IsCounted(x)} /\ IsFiniteSet(Counted) /\ Cardinality(Counted) \in Nat
  BY CountedFacts, Zenon
<1>9. Counted' = {x \in Obligation : IsCounted(x)'}
  BY CountedNext, Zenon
<1>10. Counted' = Counted \ {o} /\ o \in Counted
  BY <1>1, <1>4, <1>5, <1>8, <1>9, Zenon DEF IsCounted
<1>11. Cardinality(Counted') = Cardinality(Counted) - 1 /\ Cardinality(Counted') \in Nat
  BY <1>8, <1>10, FS_RemoveElement, FS_CardinalityType, Zenon
<1>12. 1 <= metrics.locked /\ metrics.locked \in Nat
  BY <1>7, <1>8, <1>11
<1>13. Minus(metrics.locked, 1) = metrics.locked - 1
  BY <1>12, MinusFacts, Zenon
<1> QED
  BY <1>1, <1>2, <1>7, <1>11, <1>13, Zenon

\* Adding a record that is not counted yet.
LEMMA AddMetrics ==
    ASSUME Structure, Structure', Metrics, NEW o \in Obligation, Adds(o)
    PROVE  Metrics'
<1>1. /\ hold[o].pc = "put" /\ hold'[o].pc = "submit" /\ Others({o}) /\ metrics' = metrics
      /\ DOMAIN db' = DOMAIN db \cup {o} /\ hold'[o].dirty = hold[o].dirty
      /\ hist'.stale = Stale(o).stale /\ hist'.uncounted = hist.uncounted
      /\ OthersKept(o)
  BY Zenon DEF Adds, OthersKept
<1>2. hold[o].pc \in Adding /\ hold'[o].pc \in Adding
  BY <1>1, Zenon DEF Adding, Creating, Handling, Pcs
<1>3. ASSUME Undamaged' PROVE Undamaged /\ \A x \in Obligation : IsCounted(x)' <=> IsCounted(x)
  <2>1. hist'.stale = {} /\ ~hist'.uncounted
    BY <1>3, Zenon DEF Undamaged
  <2>2. hist.stale = {} /\ ~hist.uncounted
    <3>1. Stale(o).stale = {}
      BY <1>1, <2>1, Zenon
    <3>2. hist.stale = {}
      BY <3>1, StaleEmpty, Zenon
    <3> QED
      BY <1>1, <2>1, <3>2, Zenon
  <2>3. \A x \in Obligation : x # o => hold'[x] = hold[x]
    BY <1>1, Zenon DEF Others
  <2>4. Undamaged
    BY <1>1, <1>2, <1>3, <2>2, <2>3, Zenon DEF Undamaged, Structure, Typed
  <2>5. \A x \in Obligation : IsCounted(x)' <=> IsCounted(x)
    BY <1>1, <1>2, <2>3, Zenon DEF IsCounted, OthersKept
  <2> QED
    BY <2>4, <2>5, Zenon
<1> QED
  BY <1>1, <1>3, MetricsSame, Zenon

\* The metrics stay right in every step of one contract.
LEMMA StepMetrics ==
    ASSUME Structure, Structure', Metrics, NEW o \in Obligation, Step(o)
    PROVE  Metrics'
<1>0. hold[o].pc \in {"session", "modify", "free"} \cup Handling => hold[o].pc \notin Adding
  BY Zenon DEF Adding, Creating, Handling, Pcs
<1>n. Nobody.pc \notin Adding
  BY Zenon DEF Nobody, Adding, Creating, Handling, Pcs
<1>s. db' = db => SameStatuses
  BY Zenon DEF SameStatuses
<1>1. ASSUME NEW p, Opens(o, p) PROVE Metrics'
  <2>1. Others({o}) /\ hold'[o].pc = p /\ hold[o].pc = "free" /\ p \in {"session"} \cup Handling
        /\ UNCHANGED <<db, metrics, hist>>
    <3>1. Others({o}) /\ hold'[o].pc = p /\ SameData
      BY <1>1, Zenon DEF Opens
    <3>2. hold[o].pc = "free" /\ p \in {"session"} \cup Handling
      BY <1>1, Zenon DEF Opens
    <3> QED
      BY <3>1, <3>2, Zenon DEF SameData
  <2>2. SameAdding
    BY <1>0, <2>1, AddingOthers, NotAdding, Zenon
  <2> QED
    BY <1>s, <2>1, <2>2, MetricsQuiet, Zenon
<1>2. CASE Releases(o)
  <2>1. Others({o}) /\ hold'[o] = Nobody /\ hold[o].pc \in {"session"} \cup Handling /\ UNCHANGED <<db, metrics, hist>>
    BY <1>2, Zenon DEF Releases, SameData
  <2>2. SameAdding
    BY <1>0, <1>n, <2>1, AddingOthers, Zenon
  <2> QED
    BY <1>s, <2>1, <2>2, MetricsQuiet, Zenon
<1>3. CASE Continues(o)
  <2>1. Others({o}) /\ hold[o].pc \in Handling /\ hold'[o].pc \in Handling /\ UNCHANGED <<db, metrics, hist>>
    BY <1>3, Zenon DEF Continues, Continued
  <2>2. hold'[o].pc \notin Adding
    BY <2>1, NotAdding, Zenon
  <2>3. SameAdding
    BY <1>0, <2>1, <2>2, AddingOthers, Zenon
  <2> QED
    BY <1>s, <2>1, <2>3, MetricsQuiet, Zenon
<1>4. CASE Modifies(o)
  <2>1. /\ hold[o].pc = "session" /\ hold'[o].pc = "modify" /\ Others({o})
        /\ UNCHANGED <<db, metrics, hist>>
    BY <1>4, Zenon DEF Modifies, ModifiesBy, Modified
  <2>2. hold'[o].pc \notin Adding
    BY <2>1, NotAdding, Zenon
  <2>3. SameAdding
    BY <1>0, <2>1, <2>2, AddingOthers, Zenon
  <2> QED
    BY <1>s, <2>1, <2>3, MetricsQuiet, Zenon
<1>5. CASE EndsModifying(o)
  <2>1. hold[o].pc = "modify" /\ Others({o}) /\ (hold'[o] = Nobody \/ hold'[o].pc = "session")
    BY <1>5, Zenon DEF EndsModifying, SavesRevision, DropsRevision, OthersKept
  <2>2. hold'[o].pc \notin Adding
    BY <1>n, <2>1, NotAdding, Zenon
  <2>3. SameAdding
    BY <1>0, <2>1, <2>2, AddingOthers, Zenon
  <2>4. CASE DropsRevision(o)
    BY <1>s, <2>3, <2>4, MetricsQuiet, Zenon DEF DropsRevision
  <2>5. CASE SavesRevision(o)
    <3>1. /\ DOMAIN db' = DOMAIN db /\ db'[o] = hold[o].so /\ hist' = Stale(o) /\ OthersKept(o)
          /\ metrics'.count = metrics.count /\ metrics'.locked = metrics.locked
      BY <2>5, Zenon DEF SavesRevision
    <3>2. hist'.stale = {} => hist.stale = {} /\ SameStatuses
      BY <2>1, <3>1, StatusSame, Zenon
    <3>3. hist.uncounted => hist'.uncounted
      BY <3>1, StaleFacts, Zenon
    <3> QED
      BY <2>3, <3>1, <3>2, <3>3, MetricsQuiet, Zenon
  <2> QED
    BY <1>5, <2>4, <2>5, Zenon DEF EndsModifying
<1>6. CASE Starts(o)
  <2>1. Others({o}) /\ o \notin env.formed /\ UNCHANGED <<db, metrics, hist>>
    BY <1>6, Zenon DEF Started, Starts
  <2>2. o \notin DOMAIN db
    BY <2>1, Zenon DEF Structure, Formed
  <2>3. SameAdding
    BY <2>1, <2>2, AddingOthers, Zenon
  <2> QED
    BY <1>s, <2>1, <2>3, MetricsQuiet, Zenon
<1>7. CASE Adds(o)
  BY <1>7, AddMetrics, Zenon
<1>8. CASE Abandons(o)
  <2>0. PICK c : c = hold[o].old
    BY Zenon
  <2>1. /\ c \in Obligation /\ Others({o, c}) /\ hold'[o] = Nobody /\ hold'[c] = Nobody
        /\ UNCHANGED <<db, metrics>> /\ hist'.stale = hist.stale
        /\ hist.uncounted => hist'.uncounted
        /\ o \in DOMAIN db => hist'.uncounted
    BY <1>8, <2>0, Zenon DEF Abandons
  <2>2. CASE o \in DOMAIN db
    BY <2>1, <2>2, Zenon DEF Metrics, Undamaged
  <2>3. CASE o \notin DOMAIN db
    <3>1. c # o => hold[c].pc \notin Adding
      BY <1>8, <2>0, NotAdding, Zenon DEF Structure, Renewals, Abandons, Adding, Creating, Handling, Pcs
    <3>2. SameAdding
      BY <1>n, <2>1, <2>3, <3>1, AddingOthers, Zenon
    <3> QED
      BY <1>s, <2>1, <3>2, MetricsQuiet, Zenon
  <2> QED
    BY <2>2, <2>3, Zenon
<1>9. CASE Submits(o)
  <2>1. /\ hold[o].pc = "submit" /\ Others({o}) /\ UNCHANGED <<db, metrics>>
        /\ hist'.stale = hist.stale /\ (hist'.uncounted <=> hist.uncounted)
        /\ hold'[o].dirty = hold[o].dirty /\ hold'[o].pc \in {"count", "put"}
    BY <1>9, Zenon DEF Submits
  <2>2. hold[o].pc \in Adding /\ hold'[o].pc \in Adding
    BY <2>1, Zenon DEF Adding, Creating, Handling, Pcs
  <2>3. SameAdding
    BY <2>1, <2>2, AddingOthers, Zenon
  <2> QED
    BY <1>s, <2>1, <2>3, MetricsQuiet, Zenon
<1>10. CASE Counts(o)
  BY <1>10, CountMetrics, Zenon
<1>11. CASE Clears(o)
  <2>0. PICK c \in Obligation : ClearsOf(o, c)
    BY <1>11, Zenon DEF Clears
  <2>1. /\ hold[o].pc = "clear" /\ hold[c].pc = "session" /\ ClearedCopy(hold'[c].so, hold[c].so)
        /\ Others({o, c}) /\ hold'[o] = Nobody /\ hold'[c].pc = "session" /\ metrics' = metrics
        /\ ClearedInDatabase(o, c) \/ UNCHANGED <<db, hist>>
    BY <2>0, Zenon DEF ClearsOf
  <2>2. hold[o].pc \notin Adding /\ hold[c].pc \notin Adding /\ hold'[c].pc \notin Adding
    BY <2>1, NotAdding, Zenon
  <2>3. SameAdding
    BY <1>n, <2>1, <2>2, AddingOthers, Zenon
  <2>4. CASE UNCHANGED <<db, hist>>
    BY <1>s, <2>1, <2>3, <2>4, MetricsQuiet, Zenon
  <2>5. CASE ClearedInDatabase(o, c)
    <3>1. hist'.stale = {} => hist.stale = {} /\ SameStatuses
      BY <2>1, <2>5, StatusSame, Zenon DEF ClearedInDatabase, ClearedCopy
    <3>2. hist.uncounted => hist'.uncounted
      BY <2>5, Zenon DEF ClearedInDatabase
    <3> QED
      BY <2>1, <2>3, <3>1, <3>2, MetricsQuiet, Zenon
  <2> QED
    BY <2>1, <2>4, <2>5, Zenon
<1>12. CASE Resolves(o)
  BY <1>12, ResolveMetrics, Zenon
<1>13. CASE Saves(o)
  <2>1. /\ hold[o].pc = "save" /\ Others({o}) /\ metrics' = metrics /\ hist' = Stale(o)
        /\ hold'[o] = Nobody \/ hold'[o].pc = "finish"
        /\ DOMAIN db' = DOMAIN db \cup {o} /\ db'[o] = hold[o].so
        /\ OthersKept(o)
    BY <1>13, Zenon DEF Saves, OthersKept
  <2>2. hold[o].pc \notin Adding /\ hold'[o].pc \notin Adding
    BY <1>n, <2>1, NotAdding, Zenon DEF Adding, Creating, Handling, Pcs
  <2>3. SameAdding
    BY <2>1, <2>2, AddingOthers, Zenon
  <2>4. hist'.stale = {} => hist.stale = {} /\ SameStatuses
    BY <2>1, StatusSame, Zenon
  <2>5. hist.uncounted => hist'.uncounted
    BY <2>1, StaleFacts, Zenon
  <2> QED
    BY <2>1, <2>3, <2>4, <2>5, MetricsQuiet, Zenon
<1>14. CASE Quiescent
  BY <1>14, Zenon DEF Quiescent, OnlyHold, SameData, Metrics, Undamaged, Counted, Open, Unresolved
<1> QED
  BY <1>1, <1>2, <1>3, <1>4, <1>5, <1>6, <1>7, <1>8, <1>9, <1>10, <1>11, <1>12, <1>13, <1>14, Zenon DEF Step

-----------------------------------------------------------------------------
(* What a step of one contract does to the sectors.                        *)

\* What is taken from a count leaves a count, and takes no more than it says.
LEMMA MinusBounds ==
    ASSUME NEW a \in Nat, NEW b \in Nat
    PROVE  Minus(a, b) \in Nat /\ Minus(a, b) >= a - b
  BY DEF Minus

\* A set with at most one more, exactly one less, or one exchanged element.
LEMMA CardinalityBounds ==
    ASSUME NEW A, NEW B, IsFiniteSet(B), NEW x, NEW y
    PROVE  /\ A \subseteq B => Cardinality(A) <= Cardinality(B)
           /\ A \subseteq B \cup {x} => Cardinality(A) <= Cardinality(B) + 1
           /\ A \subseteq B \ {x} /\ x \in B => Cardinality(A) <= Cardinality(B) - 1
           /\ A \subseteq (B \ {x}) \cup {y} /\ x \in B => Cardinality(A) <= Cardinality(B)
<1>0. Cardinality(B) \in Nat
  BY FS_CardinalityType, Zenon
<1>1. ASSUME NEW C, IsFiniteSet(C), A \subseteq C PROVE Cardinality(A) <= Cardinality(C) /\ Cardinality(A) \in Nat
  BY <1>1, FS_Subset, FS_CardinalityType, Zenon
<1>2. ASSUME NEW C, IsFiniteSet(C), NEW z
      PROVE  /\ IsFiniteSet(C \cup {z}) /\ Cardinality(C \cup {z}) \in Nat /\ Cardinality(C) \in Nat
             /\ Cardinality(C \cup {z}) <= Cardinality(C) + 1
  <2>1. /\ IsFiniteSet(C \cup {z})
        /\ z \in C => Cardinality(C \cup {z}) = Cardinality(C)
        /\ z \notin C => Cardinality(C \cup {z}) = Cardinality(C) + 1
    BY <1>2, FS_AddElement, Zenon
  <2>2. Cardinality(C \cup {z}) \in Nat /\ Cardinality(C) \in Nat
    BY <1>2, <2>1, FS_CardinalityType, Zenon
  <2> QED
    BY <2>1, <2>2
<1>3. x \in B => IsFiniteSet(B \ {x}) /\ Cardinality(B \ {x}) = Cardinality(B) - 1
  BY FS_RemoveElement, Zenon
<1>4. A \subseteq B => Cardinality(A) <= Cardinality(B)
  BY <1>1, Zenon
<1>5. ASSUME A \subseteq B \cup {x} PROVE Cardinality(A) <= Cardinality(B) + 1
  <2>1. /\ IsFiniteSet(B \cup {x}) /\ Cardinality(B \cup {x}) \in Nat
        /\ Cardinality(B \cup {x}) <= Cardinality(B) + 1
    BY <1>2, Zenon
  <2>2. Cardinality(A) <= Cardinality(B \cup {x}) /\ Cardinality(A) \in Nat
    BY <1>1, <1>5, <2>1, Zenon
  <2> QED
    BY <1>0, <2>1, <2>2
<1>6. ASSUME A \subseteq B \ {x}, x \in B PROVE Cardinality(A) <= Cardinality(B) - 1
  BY <1>1, <1>3, <1>6, Zenon
<1>7. ASSUME A \subseteq (B \ {x}) \cup {y}, x \in B PROVE Cardinality(A) <= Cardinality(B)
  <2>1. IsFiniteSet(B \ {x}) /\ Cardinality(B \ {x}) = Cardinality(B) - 1
    BY <1>3, <1>7, Zenon
  <2>2. /\ IsFiniteSet((B \ {x}) \cup {y}) /\ Cardinality((B \ {x}) \cup {y}) \in Nat
        /\ Cardinality((B \ {x}) \cup {y}) <= Cardinality(B \ {x}) + 1
    BY <1>2, <2>1, Zenon
  <2>3. Cardinality(A) <= Cardinality((B \ {x}) \cup {y}) /\ Cardinality(A) \in Nat
    BY <1>1, <1>7, <2>2, Zenon
  <2> QED
    BY <1>0, <2>1, <2>2, <2>3
<1> QED
  BY <1>4, <1>5, <1>6, <1>7, Zenon

\* The sets that are compared with the references are finite.
LEMMA SectorSets ==
    ASSUME NEW s
    PROVE  /\ IsFiniteSet(Listing(s)) /\ Cardinality(Listing(s)) \in Nat
           /\ IsFiniteSet(Gaining(s)) /\ Cardinality(Gaining(s)) \in Nat
<1>1. Listing(s) \subseteq Obligation /\ Gaining(s) \subseteq Obligation
  BY Zenon DEF Listing, Gaining
<1> QED
  BY <1>1, ObligationAssumption, FS_Subset, FS_CardinalityType, Zenon

\* The same after a step.
LEMMA SectorSetsNext ==
    ASSUME NEW s
    PROVE  /\ IsFiniteSet(Listing(s)') /\ Cardinality(Listing(s)') \in Nat
           /\ IsFiniteSet(Gaining(s)') /\ Cardinality(Gaining(s)') \in Nat
<1>1. Listing(s)' \subseteq Obligation /\ Gaining(s)' \subseteq Obligation
  BY Zenon DEF Listing, Gaining
<1> QED
  BY <1>1, ObligationAssumption, FS_Subset, FS_CardinalityType, Zenon

\* Nobody loses a sector when fewer contracts list or gain it.
LEMMA HeldSame ==
    ASSUME Structure, Structure', NEW s \in Sector, Held(s), refs'[s] >= refs[s],
           \A x \in Obligation : Lists(x, s)' => Lists(x, s),
           \A x \in Obligation : hold'[x].pc = "modify" /\ s \in hold'[x].gained =>
                                 hold[x].pc = "modify" /\ s \in hold[x].gained
    PROVE  Held(s)'
<1>1. Listing(s)' \subseteq Listing(s) /\ Gaining(s)' \subseteq Gaining(s)
  BY Zenon DEF Listing, Gaining
<1>2. Cardinality(Listing(s)') <= Cardinality(Listing(s)) /\ Cardinality(Gaining(s)') <= Cardinality(Gaining(s))
  BY <1>1, SectorSets, CardinalityBounds, Zenon
<1>3. refs[s] \in Nat /\ refs'[s] \in Nat
  BY Zenon DEF Structure, Typed
<1>4. /\ Cardinality(Listing(s)) \in Nat /\ Cardinality(Gaining(s)) \in Nat
      /\ Cardinality(Listing(s)') \in Nat /\ Cardinality(Gaining(s)') \in Nat
  BY SectorSets, SectorSetsNext, Zenon
<1> QED
  BY <1>2, <1>3, <1>4 DEF Held

NotShared(x) == \A n \in Obligation : <<n, x>> \notin hist.shared

\* Only sessions are shared with a renewal that has not cleared them.
LEMMA SettlingSessions ==
    ASSUME Structure, Settling, NEW x \in Obligation, ~NotShared(x)
    PROVE  hold[x].pc = "session"
<1>1. PICK n \in Obligation : <<n, x>> \in hist.shared
  BY Zenon DEF NotShared
<1>2. hold[n].pc \in Creating /\ hold[n].clear /\ hold[n].old = x
  BY <1>1, Zenon DEF Settling, InProgress
<1> QED
  BY <1>2, Zenon DEF Structure, Renewals

\* No step lets the damage of another renewal be forgotten.
LEMMA StepSettling ==
    ASSUME Structure, NEW o \in Obligation, Step(o), Settling'
    PROVE  Settling
<1>1. hist.stale = {}
  BY StepRecords, Zenon DEF RecordStep, Settling
<1>2. CASE Quiescent
  BY <1>2, Zenon DEF Quiescent, OnlyHold, SameData, Settling, InProgress
<1>3. ASSUME Frame(o), NEW n \in Obligation, NEW x \in Obligation, <<n, x>> \in hist.shared
      PROVE  InProgress(n, x)
  <2>1. CASE <<n, x>> \in hist'.shared
    <3>1. hold'[n].pc \in Creating /\ hold'[n].clear /\ hold'[n].old = x /\ ~hold'[x].dirty
      BY <2>1, Zenon DEF Settling, InProgress
    <3>2. n \in env.formed
      BY <1>3, Zenon DEF Structure, Formed
    <3>3. CASE n = o
      <4>1. Others({o}) /\ (GoesOn(hold[o], hold'[o]) \/ Starts(o))
        BY <1>3, <3>1, <3>3, StepGoesOn, Zenon
      <4>2. ~Starts(o)
        BY <3>2, <3>3, Zenon DEF Started, Starts
      <4>3. hold[o].pc \in Creating /\ hold[o].clear /\ hold[o].old = x
        BY <3>1, <3>3, <4>1, <4>2, Zenon DEF GoesOn
      <4>4. x # o
        BY <4>3, Zenon DEF Structure, Renewals
      <4> QED
        BY <3>1, <3>3, <4>1, <4>3, <4>4, Zenon DEF Others, InProgress
    <3>4. CASE n # o
      <4>1. hold'[n] = hold[n]
        BY <1>3, <3>1, <3>4 DEF Frame, Nobody, Adding, Creating, Handling, Pcs
      <4>2. x # n
        BY <3>1, <4>1, Zenon DEF Structure, Renewals
      <4>3. hold'[x] = hold[x]
        BY <1>3, <3>1, <3>4, <4>1, <4>2, Zenon DEF Frame
      <4> QED
        BY <3>1, <4>1, <4>3, Zenon DEF InProgress
    <3> QED
      BY <3>3, <3>4, Zenon
  <2>2. CASE <<n, x>> \notin hist'.shared
    <3>1. Clears(o)
      BY <1>3, <2>2, Zenon DEF Frame
    <3>2. PICK c \in Obligation : ClearsOf(o, c)
      BY <3>1, Zenon DEF Clears
    <3>3. /\ hold[o].pc = "clear" /\ hold[o].clear /\ c = hold[o].old
          /\ ClearedInDatabase(o, c) \/ UNCHANGED <<db, hist>>
      BY <3>2, Zenon DEF ClearsOf
    <3>4. ClearedInDatabase(o, c)
      BY <1>3, <2>2, <3>3, Zenon
    <3>5. <<n, x>> = <<o, c>>
      BY <1>3, <2>2, <3>4, Zenon DEF ClearedInDatabase
    <3>6. ~hold[c].dirty
      <4>1. Stale(c).stale = {}
        BY <3>4, Zenon DEF ClearedInDatabase, Settling
      <4> QED
        BY <4>1, StaleEmpty, Zenon
    <3> QED
      BY <3>3, <3>5, <3>6, Zenon DEF InProgress, Adding, Creating
  <2> QED
    BY <2>1, <2>2, Zenon
<1> QED
  BY <1>1, <1>2, <1>3, StepFrame, Zenon DEF Settling

\* Holders that do not begin a modification gain nothing.
LEMMA GainsKept ==
    ASSUME NEW S, Others(S), \A x \in S : hold'[x].pc # "modify", NEW s
    PROVE  NoMoreGains(s)
  BY Zenon DEF NoMoreGains, Others

\* A modification begins: the sectors it gains have been added.
LEMMA ModifyHeld ==
    ASSUME Structure, Structure', NEW o \in Obligation, Modifies(o), NEW s \in Sector, Held(s)
    PROVE  Held(s)'
<1>1. PICK gained \in SUBSET Sector, removed \in SUBSET Sector : ModifiesBy(o, gained, removed)
  BY Zenon DEF Modifies
<1>2. Others({o}) /\ hold'[o].gained = gained /\ refs' = Added(refs, gained) /\ UNCHANGED <<db, hist>>
  BY <1>1, Zenon DEF ModifiesBy, Modified
<1>4. \A x \in Obligation : Lists(x, s)' <=> Lists(x, s)
  BY <1>2, Zenon DEF Lists
<1>5. refs'[s] = (IF s \in gained THEN refs[s] + 1 ELSE refs[s]) /\ refs[s] \in Nat
  BY <1>2, SectorFacts DEF Structure, Typed
<1>6. CASE s \notin gained
  <2>1. NoMoreGains(s)
    BY <1>2, <1>6, Zenon DEF NoMoreGains, Others
  <2> QED
    BY <1>4, <1>5, <1>6, <2>1, HeldSame DEF NoMoreGains
<1>7. CASE s \in gained
  <2>1. Listing(s)' = Listing(s)
    BY <1>4, Zenon DEF Listing
  <2>2. Gaining(s)' \subseteq Gaining(s) \cup {o}
    BY <1>2, Zenon DEF Gaining, Others
  <2>3. Cardinality(Gaining(s)') <= Cardinality(Gaining(s)) + 1
    BY <2>2, SectorSets, CardinalityBounds, Zenon
  <2>4. Cardinality(Listing(s)) \in Nat /\ Cardinality(Gaining(s)) \in Nat /\ Cardinality(Gaining(s)') \in Nat
    BY SectorSets, SectorSetsNext, Zenon
  <2>5. refs'[s] >= Cardinality(Listing(s)) + Cardinality(Gaining(s)')
    BY <1>5, <1>7, <2>3, <2>4 DEF Held
  <2> QED
    BY <2>1, <2>5, Zenon DEF Held
<1> QED
  BY <1>6, <1>7, Zenon

\* A modification ends: what it gained is listed, what it removed is not.
LEMMA EndModifyHeld ==
    ASSUME Structure, Structure', Settling, Settling', NEW o \in Obligation, EndsModifying(o), NEW s \in Sector, Held(s)
    PROVE  Held(s)'
<1>1. /\ hold[o].pc = "modify" /\ Others({o}) /\ (hold'[o] = Nobody \/ hold'[o].pc = "session")
      /\ SavesRevision(o) \/ DropsRevision(o)
  BY Zenon DEF EndsModifying, SavesRevision, DropsRevision, OthersKept
<1>2. hold'[o].pc # "modify"
  BY <1>1 DEF Nobody
<1>3. NoMoreGains(s) /\ o \notin Gaining(s)' /\ Gaining(s)' \subseteq Gaining(s) \ {o}
  BY <1>1, <1>2, Zenon DEF NoMoreGains, Gaining, Others
<1>4. /\ Cardinality(Listing(s)) \in Nat /\ Cardinality(Gaining(s)) \in Nat
      /\ Cardinality(Listing(s)') \in Nat /\ Cardinality(Gaining(s)') \in Nat
      /\ IsFiniteSet(Listing(s)) /\ IsFiniteSet(Gaining(s))
  BY SectorSets, SectorSetsNext, Zenon
<1>5. s \in hold[o].gained => Cardinality(Gaining(s)') <= Cardinality(Gaining(s)) - 1
  <2>1. s \in hold[o].gained => o \in Gaining(s)
    BY <1>1, Zenon DEF Gaining
  <2> QED
    BY <1>3, <1>4, <2>1, CardinalityBounds, Zenon
<1>6. Cardinality(Gaining(s)') <= Cardinality(Gaining(s))
  BY <1>3, <1>4, CardinalityBounds, Zenon
<1>7. refs[s] \in Nat /\ refs'[s] \in Nat
  BY Zenon DEF Structure, Typed
<1>8. CASE DropsRevision(o)
  <2>0. refs' = Removed(refs, hold[o].gained) /\ UNCHANGED <<db, hist>>
    BY <1>8, Zenon DEF DropsRevision
  <2>1. Listing(s)' = Listing(s)
    BY <2>0, Zenon DEF Listing, Lists
  <2>2. refs'[s] >= IF s \in hold[o].gained THEN refs[s] - 1 ELSE refs[s]
    BY <2>0, SectorFacts, ZenonT(30)
  <2>3. refs'[s] >= Cardinality(Listing(s)) + Cardinality(Gaining(s)')
    BY <1>4, <1>5, <1>6, <1>7, <2>2 DEF Held
  <2> QED
    BY <2>1, <2>3, Zenon DEF Held
<1>9. CASE SavesRevision(o)
  <2>0. /\ o \in DOMAIN db /\ DOMAIN db' = DOMAIN db /\ db'[o] = hold[o].so /\ OthersKept(o)
        /\ refs' = Removed(refs, hold[o].removed) /\ hist' = Stale(o)
    BY <1>9, Zenon DEF SavesRevision
  <2>1. ~hold[o].dirty
    BY <2>0, StaleEmpty, Zenon DEF Settling
  <2>2. /\ hold[o].gained \cap db[o].roots = {} /\ hold[o].removed \subseteq db[o].roots
        /\ hold[o].so.roots = (db[o].roots \ hold[o].removed) \cup hold[o].gained
    BY <1>1, <2>1, Zenon DEF Structure, Copies, CopyOK
  <2>3. NotShared(o)
    BY <1>1, SettlingSessions, Zenon
  <2>4. hist'.shared = hist.shared
    BY <2>0, StaleFacts, Zenon
  <2>5. \A x \in Obligation : x # o => (Lists(x, s)' <=> Lists(x, s))
    BY <2>0, <2>4, Zenon DEF Lists, OthersKept
  <2>6. refs'[s] >= IF s \in hold[o].removed THEN refs[s] - 1 ELSE refs[s]
    BY <2>0, SectorFacts, ZenonT(30)
  <2>7. CASE s \in hold[o].gained
    <3>1. Listing(s)' \subseteq Listing(s) \cup {o}
      BY <2>5, Zenon DEF Listing
    <3>2. Cardinality(Listing(s)') <= Cardinality(Listing(s)) + 1
      BY <1>4, <3>1, CardinalityBounds, Zenon
    <3>3. s \notin hold[o].removed
      BY <2>2, <2>7, Zenon
    <3> QED
      BY <1>4, <1>5, <1>7, <2>6, <2>7, <3>2, <3>3 DEF Held
  <2>8. CASE s \in hold[o].removed
    <3>1. s \notin hold[o].so.roots
      BY <2>2, <2>8, Zenon
    <3>2. o \in Listing(s)
      BY <2>0, <2>2, <2>3, <2>8, Zenon DEF Listing, Lists, NotShared
    <3>3. Listing(s)' \subseteq Listing(s) \ {o}
      BY <2>0, <2>5, <3>1, Zenon DEF Listing, Lists
    <3>4. Cardinality(Listing(s)') <= Cardinality(Listing(s)) - 1
      BY <1>4, <3>2, <3>3, CardinalityBounds, Zenon
    <3> QED
      BY <1>4, <1>6, <1>7, <2>6, <2>8, <3>4 DEF Held
  <2>9. CASE s \notin hold[o].removed /\ s \notin hold[o].gained
    <3>1. s \in hold[o].so.roots => s \in db[o].roots
      BY <2>2, <2>9, Zenon
    <3>2. \A x \in Obligation : Lists(x, s)' => Lists(x, s)
      BY <2>0, <2>4, <2>5, <3>1, Zenon DEF Lists
    <3>3. refs'[s] >= refs[s]
      BY <2>6, <2>9, Zenon
    <3> QED
      BY <1>3, <3>2, <3>3, HeldSame, Zenon DEF NoMoreGains
  <2> QED
    BY <2>7, <2>8, <2>9, Zenon
<1> QED
  BY <1>1, <1>8, <1>9, Zenon

\* A record that lists sectors is added: they are counted, or shared with the old contract.
LEMMA AddHeld ==
    ASSUME Structure, Structure', Settling, Settling', NEW o \in Obligation, Adds(o), NEW s \in Sector, Held(s)
    PROVE  Held(s)'
<1>1. /\ hold[o].pc = "put" /\ HolderOK(hold[o], o) /\ Others({o}) /\ hold'[o].pc = "submit"
      /\ DOMAIN db' = DOMAIN db \cup {o} /\ db'[o] = hold[o].so
      /\ refs' = AddSectors(refs, hold[o]) /\ hist'.stale = Stale(o).stale
      /\ hist'.shared = IF hold[o].clear THEN hist.shared \cup {<<o, hold[o].old>>} ELSE hist.shared
      /\ OthersKept(o)
  BY Zenon DEF Adds, OthersKept
<1>2. NoMoreGains(s)
  BY <1>1, GainsKept, Zenon
<1>3. /\ Cardinality(Listing(s)) \in Nat /\ Cardinality(Gaining(s)) \in Nat
      /\ Cardinality(Listing(s)') \in Nat /\ Cardinality(Gaining(s)') \in Nat
      /\ IsFiniteSet(Listing(s)) /\ IsFiniteSet(Gaining(s)) /\ refs[s] \in Nat /\ refs'[s] \in Nat
  BY SectorSets, SectorSetsNext, Zenon DEF Structure, Typed
<1>4. Cardinality(Gaining(s)') <= Cardinality(Gaining(s))
  <2>1. Gaining(s)' \subseteq Gaining(s)
    BY <1>2, Zenon DEF NoMoreGains, Gaining
  <2> QED
    BY <1>3, <2>1, CardinalityBounds, Zenon
<1>5. \A x \in Obligation : x # o => (Lists(x, s)' => Lists(x, s))
  BY <1>1, Zenon DEF Lists, OthersKept
<1>6. s \notin hold[o].so.roots => ~Lists(o, s)'
  BY <1>1, Zenon DEF Lists
<1>7. ~hold[o].dirty
  BY <1>1, StaleEmpty, Zenon DEF Settling
<1>8. CASE ~hold[o].clear
  <2>0. refs' = Added(refs, hold[o].so.roots)
    BY <1>1, <1>8, Zenon DEF AddSectors
  <2>1. refs'[s] = IF s \in hold[o].so.roots THEN refs[s] + 1 ELSE refs[s]
    BY <2>0, SectorFacts, Zenon
  <2>2. CASE s \notin hold[o].so.roots
    <3>1. refs'[s] >= refs[s]
      BY <1>3, <2>1, <2>2
    <3>2. \A x \in Obligation : Lists(x, s)' => Lists(x, s)
      BY <1>5, <1>6, <2>2, Zenon
    <3> QED
      BY <1>2, <3>1, <3>2, HeldSame, Zenon DEF NoMoreGains
  <2>3. CASE s \in hold[o].so.roots
    <3>1. Listing(s)' \subseteq Listing(s) \cup {o}
      BY <1>5, Zenon DEF Listing
    <3>2. Cardinality(Listing(s)') <= Cardinality(Listing(s)) + 1
      BY <1>3, <3>1, CardinalityBounds, Zenon
    <3> QED
      BY <1>3, <1>4, <2>1, <2>3, <3>2 DEF Held
  <2> QED
    BY <2>2, <2>3, Zenon
<1>9. CASE hold[o].clear
  <2>0. PICK c : c = hold[o].old
    BY Zenon
  <2>1. refs' = refs /\ hist'.shared = hist.shared \cup {<<o, c>>} /\ c \in Obligation
    BY <1>1, <1>9, <2>0, Zenon DEF AddSectors, HolderOK
  <2>2. c # o /\ hold[c].pc = "session" /\ hold[o].so.roots = hold[c].so.roots /\ ~hold[c].so.cleared
    BY <1>1, <1>9, <2>0, Zenon DEF Structure, Renewals, Adding, Creating, Handling, Pcs
  <2>3. ~hold[c].dirty
    <3>1. <<o, c>> \in hist'.shared
      BY <2>1, Zenon
    <3>2. ~hold'[c].dirty
      BY <2>1, <3>1, Zenon DEF Settling, InProgress
    <3> QED
      BY <1>1, <2>1, <2>2, <3>2, Zenon DEF Others
  <2>4. c \in DOMAIN db /\ db[c].roots = hold[o].so.roots
    BY <2>1, <2>2, <2>3, Zenon DEF Structure, Copies, CopyOK, SameRecord
  <2>5. ~Lists(c, s)'
    BY <2>1, Zenon DEF Lists
  <2>6. refs'[s] >= refs[s] /\ refs'[s] = refs[s]
    <3>1. refs'[s] = refs[s]
      BY <2>1, Zenon
    <3>2. refs[s] \in Nat
      BY <1>3, Zenon
    <3> QED
      BY <3>1, <3>2
  <2>7. CASE s \notin hold[o].so.roots
    <3>1. \A x \in Obligation : Lists(x, s)' => Lists(x, s)
      BY <1>5, <1>6, <2>7, Zenon
    <3> QED
      BY <1>2, <2>6, <3>1, HeldSame, Zenon DEF NoMoreGains
  <2>8. CASE hold[o].tries # 0
    <3>1. o \in DOMAIN db /\ hold[o].so.roots = db[o].roots
      BY <1>1, <1>7, <2>8, Zenon DEF Structure, Copies, CopyOK, SameRecord
    <3>2. Lists(o, s)' => Lists(o, s)
      BY <1>1, <2>1, <3>1, Zenon DEF Lists
    <3>3. \A x \in Obligation : Lists(x, s)' => Lists(x, s)
      BY <1>5, <3>2, Zenon
    <3> QED
      BY <1>2, <2>6, <3>3, HeldSame, Zenon DEF NoMoreGains
  <2>9. CASE s \in hold[o].so.roots /\ hold[o].tries = 0
    <3>1. NotShared(c)
      <4> SUFFICES ASSUME NEW n \in Obligation, <<n, c>> \in hist.shared PROVE FALSE
        BY Zenon DEF NotShared
      <4>1. hold[n].pc \in Creating /\ hold[n].old = c
        BY <2>1, Zenon DEF Settling, InProgress
      <4>2. hold[o].pc \in Creating /\ hold[o].old # o /\ hold[n].old = hold[o].old
        BY <1>1, <2>0, <2>2, <4>1, Zenon DEF Adding, Creating, Handling, Pcs
      <4>3. Renewals
        BY Zenon DEF Structure
      <4>4. n = o
        BY <4>1, <4>2, <4>3, Zenon DEF Renewals
      <4> QED
        BY <1>1, <2>1, <2>9, <4>4, Zenon DEF Structure, Fresh
    <3>2. c \in Listing(s)
      BY <2>1, <2>4, <2>9, <3>1, Zenon DEF Listing, Lists, NotShared
    <3>3. Listing(s)' \subseteq (Listing(s) \ {c}) \cup {o}
      BY <1>5, <2>5, Zenon DEF Listing
    <3>4. Cardinality(Listing(s)') <= Cardinality(Listing(s))
      BY <1>3, <3>2, <3>3, CardinalityBounds, Zenon
    <3> QED
      BY <1>3, <1>4, <2>6, <3>4 DEF Held
  <2> QED
    BY <2>7, <2>8, <2>9, Zenon
<1> QED
  BY <1>8, <1>9, Zenon

\* The old contract is cleared: its sectors are those of the renewal alone.
LEMMA ClearHeld ==
    ASSUME Structure, Structure', NEW o \in Obligation, Clears(o), NEW s \in Sector, Held(s)
    PROVE  Held(s)'
<1>0. PICK c \in Obligation : ClearsOf(o, c)
  BY Zenon DEF Clears
<1>1. /\ Others({o, c}) /\ hold'[o] = Nobody /\ hold'[c].pc = "session" /\ refs' = refs
      /\ hold'[c].so.roots = {}
      /\ ClearedInDatabase(o, c) \/ UNCHANGED <<db, hist>>
  BY <1>0, Zenon DEF ClearsOf, ClearedCopy
<1>2. NoMoreGains(s)
  BY <1>1, GainsKept DEF Nobody
<1>3. refs[s] \in Nat /\ refs'[s] >= refs[s]
  BY <1>1 DEF Structure, Typed
<1>4. CASE ClearedInDatabase(o, c)
  <2>1. ~Lists(c, s)'
    BY <1>1, <1>4, Zenon DEF ClearedInDatabase, Lists
  <2>2. \A x \in Obligation : x # c => (Lists(x, s)' => Lists(x, s))
    BY <1>4, Zenon DEF ClearedInDatabase, OthersKept, Lists
  <2> QED
    BY <1>2, <1>3, <2>1, <2>2, HeldSame, Zenon DEF NoMoreGains
<1>5. CASE UNCHANGED <<db, hist>>
  <2>1. \A x \in Obligation : Lists(x, s)' => Lists(x, s)
    BY <1>5, Zenon DEF Lists
  <2> QED
    BY <1>2, <1>3, <2>1, HeldSame, Zenon DEF NoMoreGains
<1> QED
  BY <1>1, <1>4, <1>5, Zenon

\* A contract is resolved: each of its sectors is removed once.
LEMMA ResolveHeld ==
    ASSUME Structure, Structure', Settling, Settling', NEW o \in Obligation, Resolves(o), NEW s \in Sector, Held(s)
    PROVE  Held(s)'
<1>1. /\ hold[o].pc \in Handling /\ Others({o}) /\ hold'[o] = Nobody
      /\ DOMAIN db' = DOMAIN db \cup {o} /\ OthersKept(o)
  BY Zenon DEF Resolves, OthersKept
<1>2. /\ db'[o].roots = {} /\ refs' = Removed(refs, hold[o].so.roots)
      /\ hist'.stale = Stale(o).stale /\ hist'.shared = hist.shared
  BY Zenon DEF Resolves, OthersKept
<1>3. NoMoreGains(s)
  BY <1>1, GainsKept DEF Nobody
<1>4. hold[o].pc # "free" /\ hold[o].pc # "session" /\ ~hold[o].dirty
  BY <1>1, <1>2, StaleEmpty, Zenon DEF Settling, Adding, Creating, Handling, Pcs
<1>5. o \in DOMAIN db /\ hold[o].so.roots = db[o].roots
  BY <1>1, <1>4, Zenon DEF Structure, Copies, CopyOK, SameRecord, Adding, Creating, Handling, Pcs
<1>6. \A x \in Obligation : x # o => (Lists(x, s)' => Lists(x, s))
  BY <1>1, <1>2, Zenon DEF Lists, OthersKept
<1>7. ~Lists(o, s)'
  BY <1>2, Zenon DEF Lists
<1>8. /\ Cardinality(Listing(s)) \in Nat /\ Cardinality(Gaining(s)) \in Nat
      /\ Cardinality(Listing(s)') \in Nat /\ Cardinality(Gaining(s)') \in Nat
      /\ IsFiniteSet(Listing(s)) /\ IsFiniteSet(Gaining(s)) /\ refs[s] \in Nat /\ refs'[s] \in Nat
  BY SectorSets, SectorSetsNext, Zenon DEF Structure, Typed
<1>9. refs'[s] >= IF s \in db[o].roots THEN refs[s] - 1 ELSE refs[s]
  BY <1>2, <1>5, SectorFacts, ZenonT(30)
<1>10. CASE s \notin db[o].roots
  BY <1>3, <1>6, <1>7, <1>9, <1>10, HeldSame, Zenon DEF NoMoreGains
<1>11. CASE s \in db[o].roots
  <2>1. NotShared(o)
    BY <1>4, SettlingSessions, Zenon
  <2>2. o \in Listing(s)
    BY <1>5, <1>11, <2>1, Zenon DEF Listing, Lists, NotShared
  <2>3. Listing(s)' \subseteq Listing(s) \ {o}
    BY <1>6, <1>7, Zenon DEF Listing
  <2>4. Cardinality(Listing(s)') <= Cardinality(Listing(s)) - 1
    BY <1>8, <2>2, <2>3, CardinalityBounds, Zenon
  <2>5. Gaining(s)' \subseteq Gaining(s)
    BY <1>3, Zenon DEF NoMoreGains, Gaining
  <2>6. Cardinality(Gaining(s)') <= Cardinality(Gaining(s))
    BY <1>8, <2>5, CardinalityBounds, Zenon
  <2> QED
    BY <1>8, <1>9, <1>11, <2>4, <2>6 DEF Held
<1> QED
  BY <1>10, <1>11, Zenon

\* An action item saves its copy: it lists the same sectors.
LEMMA SaveHeld ==
    ASSUME Structure, Structure', Settling, Settling', NEW o \in Obligation, Saves(o), NEW s \in Sector, Held(s)
    PROVE  Held(s)'
<1>1. /\ hold[o].pc = "save" /\ Others({o}) /\ refs' = refs /\ hist' = Stale(o)
      /\ DOMAIN db' = DOMAIN db \cup {o} /\ db'[o] = hold[o].so
      /\ hold'[o] = Nobody \/ hold'[o].pc = "finish"
      /\ OthersKept(o)
  BY Zenon DEF Saves, OthersKept
<1>2. NoMoreGains(s)
  BY <1>1, GainsKept DEF Nobody
<1>3. ~hold[o].dirty /\ hist'.shared = hist.shared
  BY <1>1, StaleEmpty, StaleFacts, Zenon DEF Settling
<1>4. o \in DOMAIN db /\ hold[o].so.roots = db[o].roots
  BY <1>1, <1>3, Zenon DEF Structure, Copies, CopyOK, SameRecord, Adding, Creating, Handling, Pcs
<1>5. \A x \in Obligation : Lists(x, s)' => Lists(x, s)
  BY <1>1, <1>3, <1>4, Zenon DEF Lists, OthersKept
<1>6. refs[s] \in Nat /\ refs'[s] >= refs[s]
  BY <1>1 DEF Structure, Typed
<1> QED
  BY <1>2, <1>5, <1>6, HeldSame, Zenon DEF NoMoreGains

\* The records, the shared sectors and the references stay.
SameSectors == UNCHANGED <<db, refs>> /\ hist'.shared = hist.shared

\* A step that touches neither records nor sectors, and ends or goes on.
LEMMA QuietHeld ==
    ASSUME Structure, Structure', SameSectors, NEW S, Others(S), \A x \in S : hold'[x].pc # "modify",
           NEW s \in Sector, Held(s)
    PROVE  Held(s)'
<1>1. NoMoreGains(s)
  BY GainsKept, Zenon
<1>2. \A x \in Obligation : Lists(x, s)' => Lists(x, s)
  BY Zenon DEF Lists, SameSectors
<1>3. refs[s] \in Nat /\ refs'[s] >= refs[s]
  BY DEF Structure, Typed, SameSectors
<1> QED
  BY <1>1, <1>2, <1>3, HeldSame, Zenon DEF NoMoreGains

\* Steps keep a virtual sector for every listing.
LEMMA StepSectors ==
    ASSUME Structure, Structure', Sectors, NEW o \in Obligation, Step(o)
    PROVE  Sectors'
<1> SUFFICES ASSUME Settling', NEW s \in Sector PROVE Held(s)'
  BY Zenon DEF Sectors, Held
<1>s. Settling
  BY StepSettling, Zenon
<1>h. Held(s)
  BY <1>s, Zenon DEF Sectors, Held
<1>1. ASSUME NEW p \in {"session"} \cup Handling, Opens(o, p) PROVE Held(s)'
  <2>1. Others({o}) /\ hold'[o].pc = p /\ SameData
    BY <1>1, Zenon DEF Opens
  <2>2. SameSectors /\ p # "modify"
    BY <1>1, <2>1, Zenon DEF SameData, SameSectors, Adding, Creating, Handling, Pcs
  <2> QED
    BY <1>h, <2>1, <2>2, QuietHeld, Zenon
<1>2. CASE Releases(o)
  <2>1. Others({o}) /\ hold'[o].pc # "modify" /\ SameSectors
    BY <1>2 DEF SameData, SameSectors, Releases, Nobody
  <2> QED
    BY <1>h, <2>1, QuietHeld, Zenon
<1>3. CASE Continues(o)
  <2>1. Others({o}) /\ hold'[o].pc \in Handling /\ SameSectors
    BY <1>3, Zenon DEF Continues, Continued, SameSectors
  <2>2. hold'[o].pc # "modify"
    BY <2>1, Zenon DEF Handling
  <2> QED
    BY <1>h, <2>1, <2>2, QuietHeld, Zenon
<1>4. CASE Modifies(o)
  BY <1>4, <1>h, ModifyHeld, Zenon
<1>5. CASE EndsModifying(o)
  BY <1>5, <1>s, <1>h, EndModifyHeld, Zenon
<1>6. CASE Starts(o)
  <2>1. Others({o}) /\ SameSectors
    BY <1>6, Zenon DEF SameSectors, Starts
  <2>2. hold'[o].pc # "modify"
    BY <1>6, Zenon DEF Started, Starts
  <2> QED
    BY <1>h, <2>1, <2>2, QuietHeld, Zenon
<1>7. CASE Adds(o)
  BY <1>7, <1>s, <1>h, AddHeld, Zenon
<1>8. CASE Abandons(o)
  <2>0. PICK c : c = hold[o].old
    BY Zenon
  <2>1. Others({o, c}) /\ hold'[o] = Nobody /\ hold'[c] = Nobody /\ SameSectors
    BY <1>8, <2>0, Zenon DEF SameSectors, Abandons
  <2>2. \A x \in {o, c} : hold'[x].pc # "modify"
    BY <2>1 DEF Nobody
  <2> QED
    BY <1>h, <2>1, <2>2, QuietHeld, Zenon
<1>9. CASE Submits(o)
  <2>1. Others({o}) /\ hold'[o].pc # "modify" /\ SameSectors
    BY <1>9, Zenon DEF SameSectors, Submits
  <2> QED
    BY <1>h, <2>1, QuietHeld, Zenon
<1>10. CASE Counts(o)
  <2>1. Others({o}) /\ SameSectors /\ (hold'[o] = Nobody \/ hold'[o].pc = "clear")
    BY <1>10, Zenon DEF SameSectors, Counts
  <2>2. hold'[o].pc # "modify"
    BY <2>1 DEF Nobody
  <2> QED
    BY <1>h, <2>1, <2>2, QuietHeld, Zenon
<1>11. CASE Clears(o)
  BY <1>11, <1>h, ClearHeld, Zenon
<1>12. CASE Resolves(o)
  BY <1>12, <1>s, <1>h, ResolveHeld, Zenon
<1>13. CASE Saves(o)
  BY <1>13, <1>s, <1>h, SaveHeld, Zenon
<1>14. CASE Quiescent
  <2>1. Others({}) /\ SameSectors
    BY <1>14, Zenon DEF Quiescent, Others, SameSectors, OnlyHold, SameData, Structure, HoldTyped
  <2> QED
    BY <1>h, <2>1, QuietHeld, Zenon
<1> QED
  BY <1>1, <1>2, <1>3, <1>4, <1>5, <1>6, <1>7, <1>8, <1>9, <1>10, <1>11, <1>12, <1>13, <1>14, Zenon DEF Step

\* A step of an RPC or of an action item keeps the whole invariant.
LEMMA StepInvariant ==
    ASSUME IndInv, NEW o \in Obligation, Step(o)
    PROVE  IndInv'
<1>1. Structure /\ Records /\ Metrics /\ Sectors
  BY Zenon DEF IndInv
<1>2. Typed' /\ HoldTyped'
  BY <1>1, StepTyped, Zenon
<1>3. Formed' /\ Chains'
  BY <1>1, StepFormed, Zenon
<1>4. Renewals'
  BY <1>1, StepRenewals, Zenon
<1>5. Fresh'
  BY <1>1, StepFresh, Zenon
<1>6. Copies'
  BY <1>1, StepCopies, Zenon
<1>7. Structure'
  BY <1>2, <1>3, <1>4, <1>5, <1>6, Zenon DEF Structure
<1> QED
  BY <1>1, <1>7, StepKeepsRecords, StepMetrics, StepSectors, Zenon DEF IndInv

=============================================================================
