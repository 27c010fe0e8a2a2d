----------------------- MODULE StorageObligationsProofs ----------------------
(***************************************************************************)
(* Proofs about the host's storage obligations, part three: what RPCs and  *)
(* action items do is one of the steps of ObligationInvariant, consensus   *)
(* changes and restarts keep the invariant, and what follows from it.      *)
(***************************************************************************)
EXTENDS StorageObligations, StorageObligationsCounts

\* Some leaves take the SMT solver, with its preparation, longer than the default 5 seconds.
USE SMTT(30)

-----------------------------------------------------------------------------
(* The operators that RPCs and action items are made of.                   *)

\* The kinds of holders are different.
LEMMA Kinds ==
    /\ Adding = {"put", "submit", "count"} /\ Creating = {"put", "submit", "count", "clear"}
    /\ Handling = {"origin", "revision", "proof", "save", "finish"}
    /\ Pcs = {"session", "modify", "put", "submit", "count", "clear",
              "origin", "revision", "proof", "save", "finish"}
  BY Zenon DEF Adding, Creating, Handling, Pcs

\* A holder that only moves on keeps its copy.
LEMMA MovedFacts ==
    ASSUME NEW o, NEW h, HolderOK(h, o), NEW p \in Pcs, NEW g, g = [h EXCEPT !.pc = p]
    PROVE  /\ HolderOK(g, o) /\ g.pc = p /\ g.so = h.so /\ g.old = h.old /\ g.clear = h.clear
           /\ g.gained = h.gained /\ g.removed = h.removed /\ g.tries = h.tries /\ g.dirty = h.dirty
  BY Zenon DEF HolderOK, HolderFields

\* What a new holder is.
LEMMA HolderFacts ==
    ASSUME NEW o \in Obligation, NEW so, RecordOK(so, o), NEW p \in Pcs
    PROVE  /\ HolderOK(Holder(p, so), o) /\ Holder(p, so).pc = p /\ Holder(p, so).so = so
           /\ Holder(p, so).old = o /\ ~Holder(p, so).clear /\ ~Holder(p, so).dirty
           /\ Holder(p, so).gained = {} /\ Holder(p, so).removed = {} /\ Holder(p, so).tries = 0
  BY Zenon DEF Holder, HolderOK, HolderFields, RecordOK

\* Resolving and clearing a record.
LEMMA RecordFacts ==
    ASSUME NEW o, NEW so, RecordOK(so, o), NEW sos \in Statuses
    PROVE  /\ RecordOK(Resolved(so, sos), o) /\ Resolved(so, sos).status = sos /\ Resolved(so, sos).roots = {}
           /\ Resolved(so, sos).origin = so.origin /\ Resolved(so, sos).proof = so.proof
           /\ Resolved(so, sos).revision = so.revision
           /\ RecordOK(Cleared(so), o) /\ ClearedCopy(Cleared(so), so)
<1>1. /\ RecordOK(Resolved(so, sos), o) /\ Resolved(so, sos).status = sos /\ Resolved(so, sos).roots = {}
      /\ Resolved(so, sos).origin = so.origin /\ Resolved(so, sos).proof = so.proof
      /\ Resolved(so, sos).revision = so.revision
  BY Zenon DEF RecordOK, Resolved, Fields
<1>2. ClearedCopy(Cleared(so), so)
  BY Zenon DEF RecordOK, Cleared, ClearedCopy, Fields
<1>3. RecordOK(Cleared(so), o)
  BY Zenon DEF RecordOK, Cleared, Fields
<1> QED
  BY <1>1, <1>2, <1>3, Zenon

\* Settling takes one contract off the metrics, and its collateral unless fees prevent it.
LEMMA SettleFacts ==
    ASSUME Structure, NEW so, so.fees \in Nat, NEW sos
    PROVE  LET m == Settle(metrics, so, sos)
           IN  /\ DOMAIN m = {"count", "locked", "fees"} /\ m.count = metrics.count - 1
               /\ m.locked \in Nat /\ m.fees \in Nat
               /\ ~(sos = "rejected" /\ metrics.fees < so.fees) => m.locked = Minus(metrics.locked, 1)
<1>1. metrics.locked \in Nat /\ metrics.fees \in Nat /\ DOMAIN metrics = {"count", "locked", "fees"}
  BY Zenon DEF Structure, Typed
<1>2. Minus(metrics.locked, 1) \in Nat
  BY <1>1, MinusFacts, Zenon
<1> DEFINE m == Settle(metrics, so, sos)
<1>3. DOMAIN m = {"count", "locked", "fees"} /\ m.count = metrics.count - 1
  BY <1>1, Zenon DEF Settle
<1>4. m.fees = (IF sos = "rejected" /\ metrics.fees >= so.fees THEN metrics.fees - so.fees ELSE metrics.fees)
  BY <1>1, Zenon DEF Settle
<1>5. m.locked = IF sos = "rejected" /\ metrics.fees < so.fees THEN metrics.locked ELSE Minus(metrics.locked, 1)
  BY <1>1, Zenon DEF Settle
<1>6. m.fees \in Nat
  BY <1>1, <1>4
<1> HIDE DEF m
<1>7. /\ DOMAIN m = {"count", "locked", "fees"} /\ m.count = metrics.count - 1
      /\ m.locked \in Nat /\ m.fees \in Nat
      /\ ~(sos = "rejected" /\ metrics.fees < so.fees) => m.locked = Minus(metrics.locked, 1)
  BY <1>1, <1>2, <1>3, <1>5, <1>6, Zenon
<1> QED
  BY <1>7, Zenon DEF m

\* Replacing one holder.
LEMMA HoldExcept ==
    ASSUME Structure, NEW o \in Obligation, NEW g, hold' = [hold EXCEPT ![o] = g]
    PROVE  Others({o}) /\ hold'[o] = g
<1>1. DOMAIN hold = Obligation
  BY Zenon DEF Structure, HoldTyped
<1> QED
  BY <1>1, Zenon DEF Others

\* Moving one holder on.
LEMMA HoldMoves ==
    ASSUME Structure, NEW o \in Obligation, hold[o].pc # "free", NEW p \in Pcs, hold' = [hold EXCEPT ![o].pc = p]
    PROVE  /\ Others({o}) /\ HolderOK(hold[o], o) /\ HolderOK(hold'[o], o) /\ hold'[o].pc = p
           /\ hold'[o].so = hold[o].so /\ hold'[o].old = hold[o].old /\ hold'[o].clear = hold[o].clear
           /\ hold'[o].gained = hold[o].gained /\ hold'[o].removed = hold[o].removed
           /\ hold'[o].tries = hold[o].tries /\ hold'[o].dirty = hold[o].dirty
<1>1. HolderOK(hold[o], o) /\ DOMAIN hold = Obligation
  BY Zenon DEF Structure, HoldTyped
<1>2. Others({o}) /\ hold'[o] = [hold[o] EXCEPT !.pc = p]
  BY <1>1, Zenon DEF Others
<1> QED
  BY <1>1, <1>2, MovedFacts

\* Writing one record.
LEMMA PutFacts ==
    ASSUME NEW o, NEW v, db' = Put(db, o, v)
    PROVE  DOMAIN db' = DOMAIN db \cup {o} /\ db'[o] = v /\ OthersKept(o)
  BY Zenon DEF Put, OthersKept

-----------------------------------------------------------------------------
(* What RPCs and action items do is one of the steps.                      *)

\* The lock is taken.
LEMMA OpenSteps ==
    ASSUME Structure, NEW o \in Obligation, NEW p \in {"session"} \cup Handling,
           hold[o].pc = "free", o \in DOMAIN db, p \in Handling => db[o].status = "unresolved",
           hold' = [hold EXCEPT ![o] = Holder(p, db[o])], SameBlock, SameData
    PROVE  Opens(o, p)
<1>1. p \in Pcs
  BY Zenon DEF Pcs
<1>2. Others({o}) /\ hold'[o] = Holder(p, db[o])
  BY HoldExcept, Zenon
<1>3. RecordOK(db[o], o)
  BY Zenon DEF Structure, Typed
<1> QED
  BY <1>1, <1>2, <1>3, HolderFacts DEF Opens

\* An idle session is not shared.
LEMMA IdleUnshared ==
    ASSUME NEW o \in Obligation, Idle(o)
    PROVE  Unshared(o) /\ hold[o].pc = "session"
  BY Zenon DEF Idle, Unshared, Creating, Adding

\* Only a session shares itself with a renewal.
LEMMA OnlySessions ==
    ASSUME Structure, NEW o \in Obligation, hold[o].pc # "session"
    PROVE  Unshared(o)
  BY DEF Structure, Renewals, Unshared

\* Releasing the lock of an action item.
LEMMA ItemReleases ==
    ASSUME Structure, NEW o \in Obligation, hold[o].pc \in Handling, Release(o), SameBlock, SameData
    PROVE  Releases(o)
<1>1. hold[o].pc # "session"
  BY Kinds, Zenon
<1>2. Others({o}) /\ hold'[o] = Nobody
  BY HoldExcept, Zenon DEF Release
<1> QED
  BY <1>1, <1>2, OnlySessions, Zenon DEF Releases

\* A revision either ends the session or begins a modification.
LEMMA ReviseStep ==
    ASSUME Structure, NEW o \in Obligation, NEW gained \in SUBSET Sector, NEW removed \in SUBSET Sector,
           Revise(o, gained, removed)
    PROVE  Releases(o) \/ Modifies(o)
<1>1. Idle(o) /\ ~hold[o].so.cleared /\ gained \cap hold[o].so.roots = {} /\ removed \subseteq hold[o].so.roots
  BY Zenon DEF Revise, Revisable
<1>2. Unshared(o) /\ hold[o].pc = "session"
  BY <1>1, IdleUnshared, Zenon
<1>3. SameBlock /\ UNCHANGED <<db, metrics, pool, env, hist>>
  BY Zenon DEF Revise, BeginModify, SameChain, SameBlock
<1>4. CASE hold' = [hold EXCEPT ![o] = Nobody] /\ refs' = refs
  <2>1. Others({o}) /\ hold'[o] = Nobody
    BY <1>4, HoldExcept, Zenon
  <2> QED
    BY <1>2, <1>3, <1>4, <2>1, Zenon DEF Releases, SameData
<1> DEFINE so == [NextRevision(hold[o].so) EXCEPT !.roots = (@ \ removed) \cup gained]
           g == [hold[o] EXCEPT !.pc = "modify", !.so = so, !.gained = gained, !.removed = removed]
<1>5. CASE refs' = Added(refs, gained) /\ hold' = [hold EXCEPT ![o] = g]
  <2>1. HolderOK(hold[o], o)
    BY <1>2, Zenon DEF Structure, HoldTyped
  <2>2. /\ Fields \subseteq DOMAIN so /\ so.id = hold[o].so.id /\ so.status = hold[o].so.status
        /\ so.fees = hold[o].so.fees /\ so.roots = (hold[o].so.roots \ removed) \cup gained
        /\ so.origin = hold[o].so.origin /\ so.revision = hold[o].so.revision /\ so.proof = hold[o].so.proof
    BY <2>1, Zenon DEF HolderOK, RecordOK, Fields, NextRevision
  <2> HIDE DEF so
  <2>3. Modified(hold[o], g, gained, removed)
    BY <2>1, <2>2, Zenon DEF Modified, HolderOK, HolderFields
  <2> HIDE DEF g
  <2>4. Others({o}) /\ hold'[o] = g
    BY <1>5, HoldExcept, Zenon
  <2>5. ModifiesBy(o, gained, removed)
    BY <1>1, <1>2, <1>3, <1>5, <2>3, <2>4, Zenon DEF ModifiesBy
  <2> QED
    BY <2>5, Zenon DEF Modifies
<1> QED
  BY <1>4, <1>5, Zenon DEF Revise, BeginModify

\* A modification ends: the record is the copy, or the obligation is gone.
LEMMA EndSteps ==
    ASSUME Structure, NEW o \in Obligation, EndModify(o)
    PROVE  EndsModifying(o)
<1>0. hold[o].pc = "modify" /\ SameBlock /\ UNCHANGED <<pool, env>>
  BY Zenon DEF EndModify, SameChain, SameBlock
<1>1. HolderOK(hold[o], o)
  BY <1>0, Zenon DEF Structure, HoldTyped
<1>2. CASE o \in DOMAIN db
  <2>1. /\ db' = [db EXCEPT ![o] = hold[o].so] /\ refs' = Removed(refs, hold[o].removed)
        /\ hold' = [hold EXCEPT ![o].pc = "session"] /\ hist' = Stale(o)
        /\ metrics' = [metrics EXCEPT !.fees = Minus(@ + hold[o].so.fees, db[o].fees)]
    BY <1>2, Zenon DEF EndModify
  <2>2. DOMAIN db' = DOMAIN db /\ db'[o] = hold[o].so /\ OthersKept(o)
    BY <1>2, <2>1, Zenon DEF OthersKept
  <2>3. db[o].fees \in Nat /\ hold[o].so.fees \in Nat /\ metrics.fees \in Nat
    BY <1>1, <1>2, Zenon DEF Structure, Typed, HolderOK, RecordOK
  <2>7. metrics.fees + hold[o].so.fees \in Nat
    BY <2>3
  <2>4. Minus(metrics.fees + hold[o].so.fees, db[o].fees) \in Nat
    BY <2>3, <2>7, MinusFacts, Zenon
  <2>8. DOMAIN metrics = {"count", "locked", "fees"}
    BY Zenon DEF Structure, Typed
  <2>5. /\ DOMAIN metrics' = DOMAIN metrics /\ metrics'.count = metrics.count
        /\ metrics'.locked = metrics.locked /\ metrics'.fees \in Nat
    BY <2>1, <2>4, <2>8, Zenon
  <2>6. Others({o}) /\ HolderOK(hold'[o], o) /\ hold'[o].pc = "session" /\ hold'[o].so = hold[o].so
        /\ hold'[o].dirty = hold[o].dirty
    BY <1>0, <2>1, HoldMoves, Kinds, Zenon
  <2> QED
    BY <1>0, <1>1, <1>2, <2>1, <2>2, <2>5, <2>6, Zenon DEF EndsModifying, SavesRevision
<1>3. CASE o \notin DOMAIN db
  <2>1. Others({o}) /\ hold'[o] = Nobody
    BY <1>3, HoldExcept, Zenon DEF EndModify
  <2> QED
    BY <1>0, <1>1, <1>3, <2>1, Zenon DEF EndModify, EndsModifying, DropsRevision
<1> QED
  BY <1>2, <1>3, Zenon

\* A new addition begins.
LEMMA AdditionStarts ==
    ASSUME Structure, NEW n \in Obligation,
           NEW old \in Obligation, NEW roots \in SUBSET Sector, NEW clear \in BOOLEAN,
           StartAdding(n, old, roots, clear),
           clear => old # n /\ ~hold[old].so.cleared,
           old # n => hold[old].pc = "session" /\ Unshared(old) /\ roots = hold[old].so.roots
    PROVE  Starts(n)
<1> DEFINE so == NewObligation(n, roots)
           g == [Holder("put", so) EXCEPT !.old = old, !.clear = clear]
<1>2. /\ n \notin env.formed /\ env' = [env EXCEPT !.formed = @ \cup {n}]
      /\ hold' = [hold EXCEPT ![n] = g] /\ SameBlock /\ UNCHANGED <<db, metrics, refs, pool, hist>>
  BY Zenon DEF StartAdding, SameChain, SameBlock
<1>3. DOMAIN env' = DOMAIN env /\ env'.formed = env.formed \cup {n}
  BY <1>2, Zenon DEF Structure, Typed
<1>4. hold[n].pc = "free"
  BY <1>2, Zenon DEF Structure, Formed
<1>5. /\ RecordOK(so, n) /\ so.roots = roots /\ so.status = "unresolved"
      /\ so.origin = FALSE /\ so.proof = FALSE /\ so.revision = FALSE
  BY Zenon DEF NewObligation, RecordOK, Fields, Statuses
<1>6. Others({n}) /\ hold'[n] = g
  BY <1>2, HoldExcept, Zenon
<1> HIDE DEF so
<1>8. /\ g.pc = "put" /\ HolderOK(g, n) /\ g.old = old /\ g.tries = 0 /\ g.so = so
      /\ g.dirty = FALSE /\ g.clear = clear
  <2>1. g.pc = "put" /\ g.old = old /\ g.tries = 0 /\ g.so = so /\ g.dirty = FALSE /\ g.clear = clear
    BY Zenon DEF Holder
  <2>2. HolderFields \subseteq DOMAIN g /\ g.gained = {} /\ g.removed = {}
    BY Zenon DEF Holder, HolderFields
  <2> HIDE DEF g
  <2> QED
    BY <1>5, <2>1, <2>2, Kinds DEF HolderOK
<1> HIDE DEF g
<1>9. Started(n, old, roots, clear)
  BY <1>2, <1>5, <1>6, <1>8, Zenon DEF Started
<1> QED
  BY <1>2, <1>3, <1>4, <1>6, <1>9, Zenon DEF Starts

\* Forming and renewing start an addition.
LEMMA StartSteps ==
    ASSUME Structure, NEW o \in Obligation, NEW n \in Obligation,
           FormContract(n) \/ RenewContract(o, n) \/ managedRPCLoopRenewAndClearContract(o, n)
    PROVE  Starts(n)
<1>1. CASE FormContract(n)
  BY <1>1, AdditionStarts, Zenon DEF FormContract
<1>2. CASE RenewContract(o, n)
  <2>1. Unshared(o) /\ hold[o].pc = "session" /\ n # o /\ StartAdding(n, o, hold[o].so.roots, FALSE)
    BY <1>2, IdleUnshared, Zenon DEF RenewContract
  <2>2. hold[o].so.roots \in SUBSET Sector
    BY <2>1, Zenon DEF Structure, HoldTyped, HolderOK, RecordOK
  <2> QED
    BY <2>1, <2>2, AdditionStarts, Zenon
<1>3. CASE managedRPCLoopRenewAndClearContract(o, n)
  <2>1. /\ Unshared(o) /\ hold[o].pc = "session" /\ n # o /\ ~hold[o].so.cleared
        /\ StartAdding(n, o, hold[o].so.roots, TRUE)
    BY <1>3, IdleUnshared, Zenon DEF managedRPCLoopRenewAndClearContract
  <2>2. hold[o].so.roots \in SUBSET Sector
    BY <2>1, Zenon DEF Structure, HoldTyped, HolderOK, RecordOK
  <2> QED
    BY <2>1, <2>2, AdditionStarts, Zenon
<1> QED
  BY <1>1, <1>2, <1>3, Zenon

\* An addition fails.
LEMMA GiveUpSteps ==
    ASSUME Structure, NEW n \in Obligation, hold[n].pc \in {"put", "submit"}, GiveUp(n),
           DOMAIN hist' = DOMAIN hist, hist'.stale = hist.stale, hist'.shared = hist.shared,
           hist.uncounted => hist'.uncounted, n \in DOMAIN db => hist'.uncounted,
           SameBlock, UNCHANGED <<db, metrics, refs, pool, env>>
    PROVE  Abandons(n)
<1>1. HolderOK(hold[n], n) /\ DOMAIN hold = Obligation
  BY Zenon DEF Structure, HoldTyped
<1>2. hold[n].old \in Obligation /\ hold' = [hold EXCEPT ![n] = Nobody, ![hold[n].old] = Nobody]
  BY <1>1, Zenon DEF GiveUp, HolderOK
<1>3. Others({n, hold[n].old}) /\ hold'[n] = Nobody /\ hold'[hold[n].old] = Nobody
  BY <1>1, <1>2, Zenon DEF Others
<1> QED
  BY <1>1, <1>2, <1>3, Zenon DEF Abandons

\* The two outcomes of managedAddStorageObligation before the pool is asked.
LEMMA AddSteps ==
    ASSUME Structure, NEW n \in Obligation, AddToDatabase(n)
    PROVE  Adds(n) \/ Abandons(n)
<1>0. hold[n].pc = "put" /\ SameBlock /\ UNCHANGED <<metrics, pool, env>>
  BY Zenon DEF AddToDatabase, SameChain, SameBlock
<1>1. CASE height + SubmissionBuffer >= WindowStart[n] \/ WindowStart[n] + Resubmission >= WindowEnd[n]
  <2>1. GiveUp(n) /\ UNCHANGED <<db, refs>> /\ hist' = [hist EXCEPT !.uncounted = @ \/ n \in DOMAIN db]
    BY <1>1, Zenon DEF AddToDatabase
  <2>2. /\ DOMAIN hist' = DOMAIN hist /\ hist'.stale = hist.stale /\ hist'.shared = hist.shared
        /\ hist'.uncounted = (hist.uncounted \/ n \in DOMAIN db)
    BY <2>1, Zenon DEF Structure, Typed
  <2>3. (hist.uncounted => hist'.uncounted) /\ (n \in DOMAIN db => hist'.uncounted)
    BY <2>2, Zenon
  <2> QED
    BY <1>0, <2>1, <2>2, <2>3, GiveUpSteps, Zenon
<1>2. CASE ~(height + SubmissionBuffer >= WindowStart[n] \/ WindowStart[n] + Resubmission >= WindowEnd[n])
  <2>1. height \in Nat /\ WindowStart[n] \in Nat /\ WindowEnd[n] \in Nat
        /\ Resubmission \in Nat /\ SubmissionBuffer \in Nat
    BY ObligationAssumption, WindowAssumption DEF Structure, Typed
  <2>2. height < WindowEnd[n]
    BY <1>2, <2>1
  <2>3. /\ refs' = AddSectors(refs, hold[n]) /\ db' = Put(db, n, hold[n].so)
        /\ hold' = [hold EXCEPT ![n].pc = "submit"]
        /\ hist' = [Stale(n) EXCEPT !.shared = IF hold[n].clear THEN @ \cup {<<n, hold[n].old>>} ELSE @]
    BY <1>2, Zenon DEF AddToDatabase
  <2>4. /\ DOMAIN Stale(n) = {"stale", "shared", "lost", "uncounted"} /\ DOMAIN Stale(n) = DOMAIN hist
        /\ Stale(n).shared = hist.shared /\ Stale(n).uncounted = hist.uncounted
    BY StaleFacts, Zenon DEF Structure, Typed
  <2>5. /\ DOMAIN hist' = DOMAIN hist /\ hist'.stale = Stale(n).stale /\ hist'.uncounted = hist.uncounted
        /\ hist'.shared = IF hold[n].clear THEN hist.shared \cup {<<n, hold[n].old>>} ELSE hist.shared
    BY <2>3, <2>4, Zenon
  <2>6. /\ Others({n}) /\ HolderOK(hold[n], n) /\ HolderOK(hold'[n], n) /\ hold'[n].pc = "submit"
        /\ hold'[n].so = hold[n].so /\ hold'[n].old = hold[n].old /\ hold'[n].clear = hold[n].clear
        /\ hold'[n].dirty = hold[n].dirty
    BY <1>0, <2>3, HoldMoves, Kinds, Zenon
  <2>7. DOMAIN db' = DOMAIN db \cup {n} /\ db'[n] = hold[n].so /\ OthersKept(n)
    BY <2>3, PutFacts, Zenon
  <2> QED
    BY <1>0, <2>2, <2>3, <2>5, <2>6, <2>7, Zenon DEF Adds
<1> QED
  BY <1>1, <1>2, Zenon

\* The outcomes of asking the pool.
LEMMA SubmitSteps ==
    ASSUME Structure, NEW n \in Obligation, SubmitOrigin(n)
    PROVE  Submits(n) \/ Abandons(n)
<1>0. /\ hold[n].pc = "submit" /\ SameBlock /\ UNCHANGED <<db, metrics, refs, env>>
      /\ hist' = [hist EXCEPT !.uncounted = @ \/ (hold'[n].pc = "free")]
  BY Zenon DEF SubmitOrigin, SameChain, SameBlock
<1>1. /\ DOMAIN hist' = DOMAIN hist /\ hist'.stale = hist.stale /\ hist'.shared = hist.shared
      /\ hist'.uncounted = (hist.uncounted \/ (hold'[n].pc = "free"))
  BY <1>0, Zenon DEF Structure, Typed
<1>2. HolderOK(hold[n], n)
  BY <1>0, Zenon DEF Structure, HoldTyped
<1>3. CASE pool' = pool \cup {Tx("origin", n, 0)} /\ hold' = [hold EXCEPT ![n].pc = "count"]
  <2>1. /\ Others({n}) /\ HolderOK(hold'[n], n) /\ hold'[n].pc = "count"
        /\ hold'[n].so = hold[n].so /\ hold'[n].old = hold[n].old /\ hold'[n].clear = hold[n].clear
        /\ hold'[n].dirty = hold[n].dirty
    BY <1>0, <1>3, HoldMoves, Kinds, Zenon
  <2>2. hist'.uncounted <=> hist.uncounted
    BY <1>1, <2>1, Zenon
  <2> QED
    BY <1>0, <1>1, <1>2, <1>3, <2>1, <2>2, Zenon DEF Submits
<1>4. CASE pool' = pool /\ hold' = [hold EXCEPT ![n].pc = "put", ![n].tries = @ + 1]
  <2> DEFINE g == [hold[n] EXCEPT !.pc = "put", !.tries = @ + 1]
  <2>1. hold' = [hold EXCEPT ![n] = g]
    BY <1>2, <1>4, Zenon DEF Structure, HoldTyped, HolderOK, HolderFields
  <2>2. Others({n}) /\ hold'[n] = g
    BY <2>1, HoldExcept, Zenon
  <2>3. /\ g.pc = "put" /\ g.so = hold[n].so /\ g.old = hold[n].old /\ g.clear = hold[n].clear
        /\ g.dirty = hold[n].dirty /\ g.tries = hold[n].tries + 1 /\ DOMAIN g = DOMAIN hold[n]
        /\ g.gained = hold[n].gained /\ g.removed = hold[n].removed
    BY <1>2, Zenon DEF HolderOK, HolderFields
  <2> HIDE DEF g
  <2>4. g.tries \in Nat /\ g.tries # 0
    BY <1>2, <2>3 DEF HolderOK
  <2>5. HolderOK(g, n)
    BY <1>2, <2>3, <2>4, Kinds, Zenon DEF HolderOK
  <2>6. hist'.uncounted <=> hist.uncounted
    BY <1>1, <2>2, <2>3, Zenon
  <2> QED
    BY <1>0, <1>1, <1>2, <1>4, <2>2, <2>3, <2>4, <2>5, <2>6, Zenon DEF Submits
<1>5. CASE pool' = pool /\ GiveUp(n)
  <2>1. hold'[n].pc = "free"
    BY <1>5, Zenon DEF GiveUp, Nobody, Structure, HoldTyped
  <2>2. hist'.uncounted
    BY <1>1, <2>1, Zenon
  <2> QED
    BY <1>0, <1>1, <1>5, <2>2, GiveUpSteps, Zenon
<1> QED
  BY <1>3, <1>4, <1>5, Zenon DEF SubmitOrigin

\* The contract is counted; a renewal goes on to clear the old contract.
LEMMA CountSteps ==
    ASSUME Structure, NEW n \in Obligation, CountObligation(n)
    PROVE  Counts(n)
<1>0. /\ hold[n].pc = "count" /\ SameBlock /\ UNCHANGED <<db, refs, pool>>
      /\ metrics' = [metrics EXCEPT !.count = @ + 1, !.locked = @ + 1]
      /\ hold' = [hold EXCEPT ![n] = IF hold[n].clear THEN [@ EXCEPT !.pc = "clear"] ELSE Nobody]
      /\ hist' = [hist EXCEPT !.uncounted = @ \/ hold[n].dirty]
      /\ env' = [env EXCEPT !.agreed = @ \cup {n}]
  BY Zenon DEF CountObligation, SameChain, SameBlock
<1>1. HolderOK(hold[n], n) /\ DOMAIN hold = Obligation
  BY <1>0, Zenon DEF Structure, HoldTyped
<1>2. DOMAIN env' = DOMAIN env /\ env'.formed = env.formed
  BY <1>0, Zenon DEF Structure, Typed
<1>3. /\ DOMAIN metrics' = DOMAIN metrics /\ metrics'.count = metrics.count + 1
      /\ metrics'.locked = metrics.locked + 1 /\ metrics'.fees = metrics.fees
  BY <1>0, Zenon DEF Structure, Typed
<1>4. /\ DOMAIN hist' = DOMAIN hist /\ hist'.stale = hist.stale /\ hist'.shared = hist.shared
      /\ hist'.uncounted = (hist.uncounted \/ hold[n].dirty)
  BY <1>0, Zenon DEF Structure, Typed
<1>5. hist.uncounted \/ hold[n].dirty => hist'.uncounted
  BY <1>4, Zenon
<1>6. CASE ~hold[n].clear
  <2>1. Others({n}) /\ hold'[n] = Nobody
    BY <1>0, <1>1, <1>6, Zenon DEF Others
  <2> QED
    BY <1>0, <1>1, <1>2, <1>3, <1>4, <1>5, <1>6, <2>1, Zenon DEF Counts
<1>7. CASE hold[n].clear
  <2>1. Others({n}) /\ hold'[n] = [hold[n] EXCEPT !.pc = "clear"]
    BY <1>0, <1>1, <1>7, Zenon DEF Others
  <2>2. HolderOK(hold'[n], n) /\ hold'[n].pc = "clear" /\ hold'[n].old = hold[n].old /\ hold'[n].clear = hold[n].clear
    BY <1>1, <2>1, MovedFacts, Kinds
  <2> QED
    BY <1>0, <1>1, <1>2, <1>3, <1>4, <1>5, <1>7, <2>1, <2>2, Zenon DEF Counts
<1> QED
  BY <1>6, <1>7, Zenon

\* The old contract is cleared, in the session and perhaps in the database.
LEMMA ClearSteps ==
    ASSUME Structure, NEW n \in Obligation, ClearOld(n)
    PROVE  Clears(n)
<1> DEFINE o == hold[n].old
<1>1. hold[n].pc = "clear" /\ hold[n].clear /\ o # n /\ hold[o].pc = "session"
  BY Kinds, Zenon DEF ClearOld, Structure, Renewals
<1>2. o \in Obligation /\ DOMAIN hold = Obligation
  BY <1>1, Zenon DEF Structure, HoldTyped, HolderOK
<1>3. HolderOK(hold[o], o)
  BY <1>1, <1>2, Zenon DEF Structure, HoldTyped
<1>4. /\ hold' = [hold EXCEPT ![n] = Nobody, ![o].so = Cleared(@)]
      /\ SameBlock /\ UNCHANGED <<metrics, refs, pool, env>>
  BY Zenon DEF ClearOld, SameChain, SameBlock
<1>10. /\ db' = IF o \in DOMAIN db /\ WindowStart[o] - SubmissionBuffer > height
                THEN [db EXCEPT ![o] = Cleared(hold[o].so)] ELSE db
       /\ hist' = IF o \in DOMAIN db /\ WindowStart[o] - SubmissionBuffer > height
                  THEN [Stale(o) EXCEPT !.shared = @ \ {<<n, o>>}] ELSE hist
  BY Zenon DEF ClearOld
<1>11. o = hold[n].old
  BY Zenon
<1> HIDE DEF o
<1>5. Others({n, o}) /\ hold'[n] = Nobody /\ hold'[o] = [hold[o] EXCEPT !.so = Cleared(@)]
  BY <1>1, <1>2, <1>4, Zenon DEF Others
<1>6. RecordOK(Cleared(hold[o].so), o) /\ ClearedCopy(Cleared(hold[o].so), hold[o].so)
  BY <1>3, RecordFacts, Zenon DEF HolderOK, Statuses
<1>7. HolderOK(hold'[o], o) /\ hold'[o].pc = "session" /\ hold'[o].so = Cleared(hold[o].so) /\ hold'[o].dirty = hold[o].dirty
  BY <1>1, <1>3, <1>5, <1>6 DEF HolderOK, HolderFields
<1>12. ClearedCopy(hold'[o].so, hold[o].so)
  BY <1>6, <1>7, Zenon
<1>8. CASE o \in DOMAIN db /\ WindowStart[o] - SubmissionBuffer > height
  <2>1. db' = [db EXCEPT ![o] = Cleared(hold[o].so)] /\ hist' = [Stale(o) EXCEPT !.shared = @ \ {<<n, o>>}]
    BY <1>8, <1>10, Zenon
  <2>2. DOMAIN db' = DOMAIN db /\ db'[o] = hold'[o].so /\ OthersKept(o)
    BY <1>7, <1>8, <2>1, Zenon DEF OthersKept
  <2>3. /\ DOMAIN Stale(o) = {"stale", "shared", "lost", "uncounted"} /\ DOMAIN Stale(o) = DOMAIN hist
        /\ Stale(o).shared = hist.shared /\ Stale(o).uncounted = hist.uncounted
    BY StaleFacts, Zenon DEF Structure, Typed
  <2>4. /\ DOMAIN hist' = DOMAIN hist /\ hist'.stale = Stale(o).stale
        /\ hist'.uncounted = hist.uncounted /\ hist'.shared = hist.shared \ {<<n, o>>}
    BY <2>1, <2>3, Zenon
  <2>5. ClearsOf(n, o)
    BY <1>1, <1>3, <1>4, <1>5, <1>7, <1>8, <1>11, <1>12, <2>2, <2>4, Zenon DEF ClearsOf, ClearedInDatabase
  <2> QED
    BY <1>2, <2>5, Zenon DEF Clears
<1>9. CASE ~(o \in DOMAIN db /\ WindowStart[o] - SubmissionBuffer > height)
  <2>1. UNCHANGED <<db, hist>>
    BY <1>9, <1>10, Zenon
  <2>2. ClearsOf(n, o)
    BY <1>1, <1>3, <1>4, <1>5, <1>7, <1>11, <1>12, <2>1, Zenon DEF ClearsOf
  <2> QED
    BY <1>2, <2>2, Zenon DEF Clears
<1> QED
  BY <1>8, <1>9, Zenon

\* An action item resolves the contract.
LEMMA ResolveSteps ==
    ASSUME Structure, NEW o \in Obligation, NEW sos \in Statuses \ {"unresolved"}, hold[o].pc \in Handling,
           removeStorageObligation(hold[o].so, sos), Release(o), pool' \subseteq pool,
           SameBlock, env' = env
    PROVE  Resolves(o)
<1>2. HolderOK(hold[o], o)
  BY Kinds, Zenon DEF Structure, HoldTyped
<1> DEFINE so == hold[o].so
           leak == sos = "rejected" /\ metrics.fees < so.fees
<1>3. RecordOK(so, o) /\ so.id = o /\ so.fees \in Nat
  BY <1>2, Zenon DEF HolderOK, RecordOK
<1>4. /\ refs' = Removed(refs, so.roots) /\ metrics' = Settle(metrics, so, sos)
      /\ db' = Put(db, o, Resolved(so, sos)) /\ hist' = [Stale(o) EXCEPT !.uncounted = @ \/ leak]
  BY <1>3, Zenon DEF removeStorageObligation
<1>5. Others({o}) /\ hold'[o] = Nobody
  BY HoldExcept, Zenon DEF Release
<1>6. DOMAIN db' = DOMAIN db \cup {o} /\ db'[o] = Resolved(so, sos) /\ OthersKept(o)
  BY <1>4, PutFacts, Zenon
<1>7. /\ RecordOK(db'[o], o) /\ db'[o].status # "unresolved" /\ db'[o].roots = {}
      /\ db'[o].origin = so.origin /\ db'[o].proof = so.proof /\ db'[o].revision = so.revision
  <2>1. sos \in Statuses /\ sos # "unresolved"
    BY Zenon
  <2>2. /\ RecordOK(Resolved(so, sos), o) /\ Resolved(so, sos).status = sos /\ Resolved(so, sos).roots = {}
        /\ Resolved(so, sos).origin = so.origin /\ Resolved(so, sos).proof = so.proof
        /\ Resolved(so, sos).revision = so.revision
    BY <1>3, <2>1, RecordFacts
  <2> QED
    BY <1>6, <2>1, <2>2, Zenon
<1>8. /\ DOMAIN metrics' = {"count", "locked", "fees"} /\ metrics'.count = metrics.count - 1
      /\ metrics'.locked \in Nat /\ metrics'.fees \in Nat
      /\ ~leak => metrics'.locked = Minus(metrics.locked, 1)
  BY <1>3, <1>4, SettleFacts, Zenon
<1>9. /\ DOMAIN Stale(o) = {"stale", "shared", "lost", "uncounted"} /\ DOMAIN Stale(o) = DOMAIN hist
      /\ Stale(o).shared = hist.shared /\ Stale(o).uncounted = hist.uncounted
  BY StaleFacts, Zenon DEF Structure, Typed
<1>12. so = hold[o].so
  BY Zenon
<1> HIDE DEF so, leak
<1>10. /\ DOMAIN hist' = DOMAIN hist /\ hist'.stale = Stale(o).stale /\ hist'.shared = hist.shared
       /\ hist'.uncounted = (hist.uncounted \/ leak)
  BY <1>4, <1>9, Zenon
<1>11. (hist.uncounted => hist'.uncounted) /\ (~hist'.uncounted => ~leak)
  BY <1>10, Zenon
<1> QED
  BY <1>2, <1>4, <1>5, <1>6, <1>7, <1>8, <1>10, <1>11, <1>12, Zenon DEF Resolves

\* An action item saves its copy.
LEMMA SaveSteps ==
    ASSUME Structure, NEW o \in Obligation, SaveItem(o)
    PROVE  Saves(o)
<1>1. /\ hold[o].pc = "save" /\ SameBlock /\ UNCHANGED <<metrics, refs, pool, env>> /\ hist' = Stale(o)
      /\ db' = Put(db, o, hold[o].so)
  BY Zenon DEF SaveItem, ItemUnchanged, SameBlock
<1>2. DOMAIN db' = DOMAIN db \cup {o} /\ db'[o] = hold[o].so /\ OthersKept(o)
  BY <1>1, PutFacts, Zenon
<1>3. HolderOK(hold[o], o)
  BY <1>1, Zenon DEF Structure, HoldTyped
<1>4. CASE hold' = [hold EXCEPT ![o] = Nobody]
  <2>1. Others({o}) /\ hold'[o] = Nobody
    BY <1>4, HoldExcept, Zenon
  <2> QED
    BY <1>1, <1>2, <1>3, <2>1, Zenon DEF Saves
<1>5. CASE hold' = [hold EXCEPT ![o].pc = "finish"]
  <2>1. /\ Others({o}) /\ HolderOK(hold'[o], o) /\ hold'[o].pc = "finish" /\ hold'[o].so = hold[o].so
        /\ hold'[o].dirty = hold[o].dirty
    BY <1>1, <1>5, HoldMoves, Kinds, Zenon
  <2> QED
    BY <1>1, <1>2, <1>3, <2>1, Zenon DEF Saves
<1> QED
  BY <1>4, <1>5, Zenon DEF SaveItem, GoTo, Release

\* The stages that AfterOrigin and AfterRevision choose from.
LEMMA Stages ==
    ASSUME NEW o, NEW so, NEW bh
    PROVE  AfterOrigin(o, so, bh) \in Handling /\ AfterRevision(o, so, bh) \in Handling
  BY Zenon DEF AfterOrigin, AfterRevision, Handling

\* Going to another stage, with or without a fee, changes nothing else of the holder.
LEMMA StageContinues ==
    ASSUME Structure, NEW o \in Obligation, hold[o].pc \in Handling, NEW p \in Handling,
           \/ hold' = [hold EXCEPT ![o].pc = p]
           \/ hold' = [hold EXCEPT ![o].pc = p, ![o].so.fees = @ + 1]
    PROVE  Continued(hold[o], hold'[o]) /\ Others({o})
<1>1. HolderOK(hold[o], o) /\ DOMAIN hold = Obligation
  BY Kinds, Zenon DEF Structure, HoldTyped
<1>2. CASE hold' = [hold EXCEPT ![o].pc = p]
  <2>1. Others({o}) /\ hold'[o] = [hold[o] EXCEPT !.pc = p]
    BY <1>1, <1>2, Zenon DEF Others
  <2> QED
    BY <1>1, <2>1, Zenon DEF Continued, HolderOK, RecordOK, HolderFields
<1>3. CASE hold' = [hold EXCEPT ![o].pc = p, ![o].so.fees = @ + 1]
  <2> DEFINE so == [hold[o].so EXCEPT !.fees = @ + 1]
             g == [hold[o] EXCEPT !.pc = p, !.so = so]
  <2>1. hold' = [hold EXCEPT ![o] = g]
    BY <1>1, <1>3, Zenon DEF HolderOK, HolderFields
  <2>2. /\ Fields \subseteq DOMAIN so /\ so.id = hold[o].so.id /\ so.status = hold[o].so.status
        /\ so.roots = hold[o].so.roots /\ so.fees \in Nat
        /\ so.origin = hold[o].so.origin /\ so.revision = hold[o].so.revision /\ so.proof = hold[o].so.proof
    BY <1>1 DEF HolderOK, RecordOK, Fields
  <2> HIDE DEF so
  <2>3. Continued(hold[o], g)
    BY <1>1, <2>2, Zenon DEF Continued, HolderOK, HolderFields
  <2> HIDE DEF g
  <2>4. Others({o}) /\ hold'[o] = g
    BY <2>1, HoldExcept, Zenon
  <2> QED
    BY <2>3, <2>4, Zenon
<1> QED
  BY <1>2, <1>3, Zenon

\* What an action item does is one of the steps.
LEMMA ItemSteps ==
    ASSUME Structure, NEW o \in Obligation, threadedHandleActionItem(o)
    PROVE  Step(o)
<1>1. CASE StartItem(o)
  <2>1. CASE Skip(o)
    BY <1>1, <2>1, Zenon DEF StartItem, Step, Quiescent, OnlyHold, SameData
  <2>2. CASE ~Skip(o)
    <3> DEFINE p == IF ~db[o].origin THEN "origin" ELSE AfterOrigin(o, db[o], height)
    <3>1. p \in Handling
      BY Stages, Zenon DEF Handling
    <3>2. hold[o].pc = "free" /\ hold' = [hold EXCEPT ![o] = Holder(p, db[o])] /\ SameBlock /\ SameData
      BY <1>1, <2>2, Zenon DEF StartItem, SameBlock, SameData
    <3>3. o \in DOMAIN db /\ db[o].status = "unresolved"
      BY <2>2, Zenon DEF Skip, Unresolved
    <3> HIDE DEF p
    <3>4. Opens(o, p)
      BY <3>1, <3>2, <3>3, OpenSteps, Zenon
    <3> QED
      BY <3>1, <3>4, Zenon DEF Step
  <2> QED
    BY <2>1, <2>2, Zenon
<1>2. CASE CheckOrigin(o)
  <2>0. hold[o].pc = "origin" /\ hold[o].pc \in Handling /\ SameBlock /\ env' = env
    BY <1>2, Zenon DEF CheckOrigin, ItemUnchanged, Handling, SameBlock
  <2>1. CASE /\ pool' \in {pool, IF Confirmed(chain, "origin", o) = {} THEN pool \cup {Tx("origin", o, 0)} ELSE pool}
             /\ GoTo(o, AfterOrigin(o, hold[o].so, hold[o].bh)) /\ UNCHANGED <<db, metrics, refs, hist>>
    <3>1. PoolOf(o)
      BY <2>1 DEF PoolOf, Tx
    <3>2. Continued(hold[o], hold'[o]) /\ Others({o})
      BY <2>0, <2>1, Stages, StageContinues, Zenon DEF GoTo
    <3> QED
      BY <2>0, <2>1, <3>1, <3>2, Zenon DEF Step, Continues
  <2>2. CASE removeStorageObligation(hold[o].so, "rejected") /\ pool' = pool \ {Tx("origin", o, 0)} /\ Release(o)
    <3>1. "rejected" \in Statuses \ {"unresolved"} /\ pool' \subseteq pool
      BY <2>2, Zenon DEF Statuses
    <3>2. Resolves(o)
      BY <2>0, <2>2, <3>1, ResolveSteps, Zenon
    <3> QED
      BY <3>2, Zenon DEF Step
  <2> QED
    BY <1>2, <2>1, <2>2, Zenon DEF CheckOrigin
<1>3. CASE CheckRevision(o)
  <2>0. hold[o].pc \in Handling /\ SameBlock /\ UNCHANGED <<env, pool>>
    BY <1>3, Zenon DEF CheckRevision, ItemUnchanged, Handling, SameBlock
  <2>1. CASE removeStorageObligation(hold[o].so, "rejected") /\ Release(o)
    <3>1. "rejected" \in Statuses \ {"unresolved"} /\ pool' \subseteq pool
      BY <2>0, Zenon DEF Statuses
    <3>2. Resolves(o)
      BY <2>0, <2>1, <3>1, ResolveSteps, Zenon
    <3> QED
      BY <3>2, Zenon DEF Step
  <2>2. CASE Release(o) /\ UNCHANGED <<db, metrics, refs, hist>>
    BY <2>0, <2>2, ItemReleases, Zenon DEF Step, SameData
  <2>3. CASE /\ hold' = [hold EXCEPT ![o].pc = AfterRevision(o, hold[o].so, hold[o].bh), ![o].so.fees = @ + 1]
             /\ UNCHANGED <<db, metrics, refs, hist>>
    <3>2. Continued(hold[o], hold'[o]) /\ Others({o})
      BY <2>0, <2>3, Stages, StageContinues, Zenon
    <3> QED
      BY <2>0, <2>3, <3>2, Zenon DEF Step, Continues, PoolOf
  <2> QED
    BY <1>3, <2>1, <2>2, <2>3, Zenon DEF CheckRevision
<1>4. CASE CheckProof(o)
  <2>0. hold[o].pc \in Handling /\ SameBlock /\ env' = env
    BY <1>4, Zenon DEF CheckProof, ItemUnchanged, Handling, SameBlock
  <2>1. ASSUME NEW sos \in {"succeeded", "failed"}, removeStorageObligation(hold[o].so, sos), Release(o), pool' = pool
        PROVE  Step(o)
    <3>1. sos \in Statuses \ {"unresolved"} /\ pool' \subseteq pool
      BY <2>1, Zenon DEF Statuses
    <3>2. Resolves(o)
      BY <2>0, <2>1, <3>1, ResolveSteps, Zenon
    <3> QED
      BY <3>2, Zenon DEF Step
  <2>2. CASE Release(o) /\ UNCHANGED <<db, metrics, refs, hist, pool>>
    BY <2>0, <2>2, ItemReleases, Zenon DEF Step, SameData
  <2>3. CASE /\ pool' = pool \cup {Tx("proof", o, hold[o].so.number)}
             /\ hold' = [hold EXCEPT ![o].pc = "save", ![o].so.fees = @ + 1]
             /\ UNCHANGED <<db, metrics, refs, hist>>
    <3>1. PoolOf(o)
      BY <2>3 DEF PoolOf, Tx
    <3>2. Continued(hold[o], hold'[o]) /\ Others({o})
      BY <2>0, <2>3, StageContinues, Kinds, Zenon
    <3> QED
      BY <2>0, <2>3, <3>1, <3>2, Zenon DEF Step, Continues
  <2> QED
    BY <1>4, <2>1, <2>2, <2>3, Zenon DEF CheckProof
<1>5. CASE SaveItem(o)
  BY <1>5, SaveSteps, Zenon DEF Step
<1>6. CASE FinishItem(o)
  <2>0. hold[o].pc \in Handling /\ SameBlock /\ env' = env /\ pool' \subseteq pool /\ "succeeded" \in Statuses \ {"unresolved"}
    BY <1>6, Zenon DEF FinishItem, ItemUnchanged, Handling, SameBlock, Statuses
  <2>1. Resolves(o)
    BY <1>6, <2>0, ResolveSteps, Zenon DEF FinishItem
  <2> QED
    BY <2>1, Zenon DEF Step
<1> QED
  BY <1>1, <1>2, <1>3, <1>4, <1>5, <1>6, Zenon DEF threadedHandleActionItem

\* What an RPC does is one of the steps.
LEMMA RpcSteps ==
    ASSUME Structure, NEW o \in Obligation, Rpc(o)
    PROVE  \E x \in Obligation : Step(x)
<1>1. CASE managedRPCLoopLock(o)
  <2>0. "session" \notin Handling /\ "session" \in {"session"} \cup Handling
    BY Zenon DEF Handling
  <2>1. hold[o].pc = "free" /\ o \in DOMAIN db /\ hold' = [hold EXCEPT ![o] = Holder("session", db[o])]
        /\ SameBlock /\ SameData
    BY <1>1, Zenon DEF managedRPCLoopLock, SameBlock, SameData, SameChain
  <2>2. Opens(o, "session")
    BY <2>0, <2>1, OpenSteps, Zenon
  <2> QED
    BY <2>0, <2>2, Zenon DEF Step
<1>2. CASE managedRPCLoopUnlock(o)
  <2>1. hold' = [hold EXCEPT ![o] = Nobody] /\ SameBlock /\ SameData /\ Idle(o)
    BY <1>2, Zenon DEF managedRPCLoopUnlock, SameBlock, SameData, SameChain
  <2>2. Others({o}) /\ hold'[o] = Nobody
    BY <2>1, HoldExcept, Zenon
  <2> QED
    BY <2>1, <2>2, IdleUnshared, Zenon DEF Releases, Step
<1>3. CASE EndModify(o) \/ CountObligation(o) \/ ClearOld(o)
  BY <1>3, EndSteps, CountSteps, ClearSteps, Zenon DEF Step
<1>4. ASSUME NEW gained \in SUBSET Sector, NEW removed \in SUBSET Sector, Revise(o, gained, removed)
      PROVE  \E x \in Obligation : Step(x)
  BY <1>4, ReviseStep, Zenon DEF Step
<1>5. CASE managedRPCLoopRead(o) \/ managedRPCLoopSectorRoots(o) \/ managedDownloadIteration(o)
           \/ managedPayByContract(o) \/ managedFundAccount(o)
  <2>1. {} \in SUBSET Sector /\ Revise(o, {}, {})
    BY <1>5, Zenon DEF managedRPCLoopRead, managedRPCLoopSectorRoots, managedDownloadIteration,
                       managedPayByContract, managedFundAccount
  <2> QED
    BY <1>4, <2>1, Zenon
<1>6. CASE \E s \in Sector, added \in BOOLEAN :
              LET gained == IF added THEN {s} ELSE {}
                  removed == {s} \ gained
              IN  managedRPCLoopWrite(o, gained, removed) \/ managedRevisionIteration(o, gained, removed)
  <2>1. PICK s \in Sector, added \in BOOLEAN :
            Revise(o, IF added THEN {s} ELSE {}, {s} \ (IF added THEN {s} ELSE {}))
    BY <1>6, Zenon DEF managedRPCLoopWrite, managedRevisionIteration
  <2> QED
    BY <1>4, <2>1, Zenon
<1>7. CASE managedRPCLoopFormContract(o) \/ managedRPCFormContract(o)
  BY <1>7, StartSteps, Zenon DEF managedRPCLoopFormContract, managedRPCFormContract, Step
<1>8. CASE \E n \in Obligation :
              \/ managedRPCLoopRenewContract(o, n) \/ managedRPCRenewContract(o, n)
              \/ managedRPCLoopRenewAndClearContract(o, n)
  BY <1>8, StartSteps, Zenon DEF managedRPCLoopRenewContract, managedRPCRenewContract, Step
<1>9. CASE AddToDatabase(o) \/ SubmitOrigin(o)
  BY <1>9, AddSteps, SubmitSteps, Zenon DEF Step
<1> QED
  BY <1>1, <1>2, <1>3, <1>5, <1>6, <1>7, <1>8, <1>9, Zenon DEF Rpc

-----------------------------------------------------------------------------
(* The views of a consensus change: blocks reverted and applied.           *)

\* The record q with other flags.
Reflagged(r, q) ==
    /\ DOMAIN r = DOMAIN q /\ r.id = q.id /\ r.status = q.status /\ r.roots = q.roots /\ r.fees = q.fees
    /\ r.cleared = q.cleared

SingleOrigins(S) == \A t \in S : t.kind = "origin" => t = Tx("origin", t.id, 0)
SingleProofs(S) == \A t, u \in S : t.kind = "proof" /\ u.kind = "proof" /\ t.id = u.id => t = u
Known(S) == \A t \in S : \E u \in chain.all \cup pool : u.id = t.id
FlagsAgree(r, c, o) ==
    /\ r.origin <=> Confirmed(c, "origin", o) # {}
    /\ r.proof <=> Confirmed(c, "proof", o) # {}
    /\ r.revision => Confirmed(c, "revision", o) # {}

ViewOK(v) ==
    /\ DOMAIN v.db = DOMAIN db /\ \A o \in DOMAIN db : Reflagged(v.db[o], db[o])
    /\ v.chain.last \subseteq v.chain.all /\ SingleOrigins(v.chain.all) /\ SingleProofs(v.chain.all)
    /\ Known(v.chain.all)
    /\ \A o \in DOMAIN db \ hist.stale : FlagsAgree(v.db[o], v.chain, o)

\* The change begins with what the host has.
LEMMA ViewBegins ==
    ASSUME IndInv
    PROVE  ViewOK(View) /\ View.height = height
<1>1. View.chain = chain /\ View.db = db /\ View.height = height
  BY Zenon DEF View
<1>2. chain.last \subseteq chain.all /\ SingleOrigins(chain.all) /\ SingleProofs(chain.all)
  BY Zenon DEF IndInv, Structure, Chains, SingleOrigins, SingleProofs
<1>3. Known(chain.all)
  BY Zenon DEF Known
<1>4. \A o \in DOMAIN db \ hist.stale : FlagsAgree(db[o], chain, o)
  BY Zenon DEF IndInv, Records, FlagsFollowChain, FlagsRight, FlagsAgree
<1> QED
  BY <1>1, <1>2, <1>3, <1>4, Zenon DEF ViewOK, Reflagged

\* SetFlags changes nothing but the flags.
LEMMA SetFlagsFacts ==
    ASSUME Structure, NEW d, DOMAIN d = DOMAIN db, \A o \in DOMAIN db : Reflagged(d[o], db[o]),
           NEW c, NEW value, NEW o \in DOMAIN db
    PROVE  /\ DOMAIN SetFlags(d, c, value) = DOMAIN db
           /\ Reflagged(SetFlags(d, c, value)[o], db[o])
           /\ InLast(c, "origin", o) => SetFlags(d, c, value)[o].origin = value
           /\ ~InLast(c, "origin", o) => SetFlags(d, c, value)[o].origin = d[o].origin
           /\ InLast(c, "proof", o) => SetFlags(d, c, value)[o].proof = value
           /\ ~InLast(c, "proof", o) => SetFlags(d, c, value)[o].proof = d[o].proof
           /\ InLast(c, "revision", o) => SetFlags(d, c, value)[o].revision = value
           /\ ~InLast(c, "revision", o) => SetFlags(d, c, value)[o].revision = d[o].revision
<1>1. RecordOK(db[o], o) /\ Reflagged(d[o], db[o])
  BY Zenon DEF Structure, Typed
<1>2. Fields \subseteq DOMAIN d[o]
  BY <1>1, Zenon DEF RecordOK, Reflagged
<1> DEFINE a == IF InLast(c, "origin", o) THEN value ELSE d[o].origin
           b == IF InLast(c, "proof", o) THEN value ELSE d[o].proof
           e == IF InLast(c, "revision", o) THEN value ELSE d[o].revision
<1>3. SetFlags(d, c, value)[o] = [d[o] EXCEPT !.origin = a, !.proof = b, !.revision = e]
  <2>1. [d[o] EXCEPT !.origin = a, !.proof = b, !.revision = e]
        = [d[o] EXCEPT !.origin = IF InLast(c, "origin", o) THEN value ELSE @,
                       !.proof = IF InLast(c, "proof", o) THEN value ELSE @,
                       !.revision = IF InLast(c, "revision", o) THEN value ELSE @]
    BY <1>2, Zenon DEF Fields
  <2> QED
    BY <2>1, Zenon DEF SetFlags
<1>4. DOMAIN SetFlags(d, c, value) = DOMAIN db
  BY Zenon DEF SetFlags
<1> HIDE DEF a, b, e
<1> DEFINE r == [d[o] EXCEPT !.origin = a, !.proof = b, !.revision = e]
<1>5. r.origin = a /\ r.proof = b /\ r.revision = e
  BY <1>2, Zenon DEF Fields
<1>6. /\ DOMAIN r = DOMAIN d[o] /\ r.id = d[o].id /\ r.status = d[o].status /\ r.roots = d[o].roots
      /\ r.fees = d[o].fees /\ r.cleared = d[o].cleared
  BY <1>2, Zenon DEF Fields
<1>7. Reflagged(r, db[o])
  BY <1>1, <1>6, Zenon DEF Reflagged
<1> HIDE DEF r
<1>8. SetFlags(d, c, value)[o] = r
  BY <1>3, Zenon DEF r
<1> QED
  BY <1>4, <1>5, <1>7, <1>8, Zenon DEF a, b, e

\* Reverting the last block: what it confirmed is not confirmed any more.
LEMMA RevertKeepsView ==
    ASSUME Structure, NEW v, ViewOK(v), v.height \in Int, DOMAIN v = {"chain", "db", "height", "todo"}
    PROVE  /\ ViewOK(RevertBlock(v)) /\ RevertBlock(v).height = v.height - 1
           /\ DOMAIN RevertBlock(v) = {"chain", "db", "height", "todo"}
<1> DEFINE c == [all |-> v.chain.all \ v.chain.last, last |-> {}]
           d == SetFlags(v.db, v.chain, FALSE)
<1>1. RevertBlock(v).chain = c /\ RevertBlock(v).db = d /\ RevertBlock(v).height = v.height - 1
  BY Zenon DEF RevertBlock
<1>2. c.last = {} /\ c.all = v.chain.all \ v.chain.last /\ c.all \subseteq v.chain.all
  BY Zenon
<1>3. DOMAIN v.db = DOMAIN db /\ \A o \in DOMAIN db : Reflagged(v.db[o], db[o])
  BY Zenon DEF ViewOK
<1>4. DOMAIN d = DOMAIN db /\ \A o \in DOMAIN db : Reflagged(d[o], db[o])
  <2>1. DOMAIN d = DOMAIN db
    BY <1>3, Zenon DEF SetFlags
  <2> QED
    BY <1>3, <2>1, SetFlagsFacts, Zenon
<1>5. SingleOrigins(c.all) /\ SingleProofs(c.all) /\ Known(c.all)
  BY <1>2, Zenon DEF ViewOK, SingleOrigins, SingleProofs, Known
<1>6. ASSUME NEW o \in DOMAIN db \ hist.stale PROVE FlagsAgree(d[o], c, o)
  <2>1. FlagsAgree(v.db[o], v.chain, o)
    BY <1>6, Zenon DEF ViewOK
  <2>2. /\ InLast(v.chain, "origin", o) => d[o].origin = FALSE
        /\ ~InLast(v.chain, "origin", o) => d[o].origin = v.db[o].origin
        /\ InLast(v.chain, "proof", o) => d[o].proof = FALSE
        /\ ~InLast(v.chain, "proof", o) => d[o].proof = v.db[o].proof
        /\ InLast(v.chain, "revision", o) => d[o].revision = FALSE
        /\ ~InLast(v.chain, "revision", o) => d[o].revision = v.db[o].revision
    <3>1. ASSUME NEW value
          PROVE  /\ InLast(v.chain, "origin", o) => SetFlags(v.db, v.chain, value)[o].origin = value
                 /\ ~InLast(v.chain, "origin", o) => SetFlags(v.db, v.chain, value)[o].origin = v.db[o].origin
                 /\ InLast(v.chain, "proof", o) => SetFlags(v.db, v.chain, value)[o].proof = value
                 /\ ~InLast(v.chain, "proof", o) => SetFlags(v.db, v.chain, value)[o].proof = v.db[o].proof
                 /\ InLast(v.chain, "revision", o) => SetFlags(v.db, v.chain, value)[o].revision = value
                 /\ ~InLast(v.chain, "revision", o) => SetFlags(v.db, v.chain, value)[o].revision = v.db[o].revision
      BY <1>3, <1>6, SetFlagsFacts
    <3> QED
      BY <3>1, Zenon
  <2>3. ASSUME NEW k, ~InLast(v.chain, k, o) PROVE Confirmed(c, k, o) = Confirmed(v.chain, k, o)
    BY <1>2, <2>3, Zenon DEF Confirmed, InLast
  <2>4. InLast(v.chain, "origin", o) => Confirmed(c, "origin", o) = {}
    BY <1>2 DEF InLast, Confirmed, ViewOK, SingleOrigins
  <2>5. InLast(v.chain, "proof", o) => Confirmed(c, "proof", o) = {}
    BY <1>2, Zenon DEF InLast, Confirmed, ViewOK, SingleProofs
  <2> HIDE DEF c, d
  <2>6. d[o].origin <=> Confirmed(c, "origin", o) # {}
    BY <2>1, <2>2, <2>3, <2>4, Zenon DEF FlagsAgree
  <2>7. d[o].proof <=> Confirmed(c, "proof", o) # {}
    BY <2>1, <2>2, <2>3, <2>5, Zenon DEF FlagsAgree
  <2>8. d[o].revision => Confirmed(c, "revision", o) # {}
    BY <2>1, <2>2, <2>3, Zenon DEF FlagsAgree
  <2> QED
    BY <2>6, <2>7, <2>8, Zenon DEF FlagsAgree
<1> HIDE DEF c, d
<1>7. ViewOK(RevertBlock(v))
  BY <1>1, <1>2, <1>4, <1>5, <1>6, Zenon DEF ViewOK
<1> QED
  BY <1>1, <1>7, Zenon DEF RevertBlock

\* What a block may contain is known, the first origin and the first proof.
LEMMA MinableFacts ==
    ASSUME Structure, NEW v, ViewOK(v), NEW h, NEW t \in Minable(v.chain, v.db, h)
    PROVE  /\ \E u \in chain.all \cup pool : u.id = t.id
           /\ t.kind = "origin" => t = Tx("origin", t.id, 0)
           /\ t.kind = "proof" => \A u \in v.chain.all : u.kind = "proof" => u.id # t.id
<1>1. CASE t \in pool /\ t.kind = "origin"
  BY <1>1, Zenon DEF Structure, Chains
<1>2. CASE t \in pool /\ t.kind = "proof" /\ ValidProof(v.chain, t.id, t.number, h)
  BY <1>2, Zenon DEF ValidProof, Confirmed
<1>3. ASSUME NEW o \in DOMAIN v.db, Confirmed(v.chain, "origin", o) # {}, t = Tx("revision", o, v.db[o].number)
      PROVE  t.kind = "revision" /\ \E u \in chain.all \cup pool : u.id = t.id
  <2>1. t.kind = "revision" /\ t.id = o
    BY <1>3, Zenon DEF Tx
  <2>2. PICK u \in v.chain.all : u.id = o
    BY <1>3, Zenon DEF Confirmed
  <2> QED
    BY <2>1, <2>2, Zenon DEF ViewOK, Known
<1> QED
  BY <1>1, <1>2, <1>3, Zenon DEF Minable

\* Applying a block: what it confirms is confirmed.
LEMMA ApplyKeepsView ==
    ASSUME Structure, NEW v, ViewOK(v), v.height \in Int, NEW w \in Mine(v)
    PROVE  /\ ViewOK(w) /\ w.height = v.height + 1
           /\ DOMAIN w = {"chain", "db", "height", "todo"}
<1>1. PICK txs : w = ApplyBlock(v, txs) /\ (txs = {} \/ \E t \in Minable(v.chain, v.db, v.height + 1) : txs = {t})
  BY Zenon DEF Mine
<1> DEFINE c == Block(v.chain, txs)
           d == SetFlags(v.db, c, TRUE)
<1>2. /\ w.chain = c /\ w.db = d /\ w.height = v.height + 1
      /\ DOMAIN w = {"chain", "db", "height", "todo"}
  BY <1>1, Zenon DEF ApplyBlock
<1>3. c.last = txs /\ c.all = v.chain.all \cup txs
  BY Zenon DEF Block
<1>4. DOMAIN v.db = DOMAIN db /\ \A o \in DOMAIN db : Reflagged(v.db[o], db[o])
  BY Zenon DEF ViewOK
<1>5. DOMAIN d = DOMAIN db /\ \A o \in DOMAIN db : Reflagged(d[o], db[o])
  <2>1. DOMAIN d = DOMAIN db
    BY <1>4, Zenon DEF SetFlags
  <2> QED
    BY <1>4, <2>1, SetFlagsFacts, Zenon
<1> HIDE DEF c
<1>6. SingleOrigins(c.all) /\ SingleProofs(c.all) /\ Known(c.all)
  <2>0. SingleOrigins(v.chain.all) /\ SingleProofs(v.chain.all) /\ Known(v.chain.all)
    BY Zenon DEF ViewOK
  <2>1. CASE txs = {}
    BY <1>3, <2>0, <2>1, Zenon
  <2>2. ASSUME NEW t \in Minable(v.chain, v.db, v.height + 1), txs = {t}
        PROVE  SingleOrigins(c.all) /\ SingleProofs(c.all) /\ Known(c.all)
    <3>1. /\ \E u \in chain.all \cup pool : u.id = t.id
          /\ t.kind = "origin" => t = Tx("origin", t.id, 0)
          /\ t.kind = "proof" => \A u \in v.chain.all : u.kind = "proof" => u.id # t.id
      BY MinableFacts, Zenon
    <3>2. SingleOrigins(c.all)
      BY <1>3, <2>0, <2>2, <3>1, Zenon DEF SingleOrigins
    <3>3. SingleProofs(c.all)
      BY <1>3, <2>0, <2>2, <3>1, Zenon DEF SingleProofs
    <3>4. Known(c.all)
      BY <1>3, <2>0, <2>2, <3>1, Zenon DEF Known
    <3> QED
      BY <3>2, <3>3, <3>4, Zenon
  <2> QED
    BY <1>1, <2>1, <2>2, Zenon
<1>7. ASSUME NEW o \in DOMAIN db \ hist.stale PROVE FlagsAgree(d[o], c, o)
  <2>1. FlagsAgree(v.db[o], v.chain, o)
    BY <1>7, Zenon DEF ViewOK
  <2>2. /\ InLast(c, "origin", o) => d[o].origin = TRUE
        /\ ~InLast(c, "origin", o) => d[o].origin = v.db[o].origin
        /\ InLast(c, "proof", o) => d[o].proof = TRUE
        /\ ~InLast(c, "proof", o) => d[o].proof = v.db[o].proof
        /\ InLast(c, "revision", o) => d[o].revision = TRUE
        /\ ~InLast(c, "revision", o) => d[o].revision = v.db[o].revision
    <3>1. ASSUME NEW value
          PROVE  /\ InLast(c, "origin", o) => SetFlags(v.db, c, value)[o].origin = value
                 /\ ~InLast(c, "origin", o) => SetFlags(v.db, c, value)[o].origin = v.db[o].origin
                 /\ InLast(c, "proof", o) => SetFlags(v.db, c, value)[o].proof = value
                 /\ ~InLast(c, "proof", o) => SetFlags(v.db, c, value)[o].proof = v.db[o].proof
                 /\ InLast(c, "revision", o) => SetFlags(v.db, c, value)[o].revision = value
                 /\ ~InLast(c, "revision", o) => SetFlags(v.db, c, value)[o].revision = v.db[o].revision
      BY <1>4, <1>7, SetFlagsFacts
    <3> QED
      BY <3>1, Zenon
  <2>3. ASSUME NEW k, ~InLast(c, k, o) PROVE Confirmed(c, k, o) = Confirmed(v.chain, k, o)
    BY <1>3, <2>3, Zenon DEF Confirmed, InLast
  <2>4. ASSUME NEW k, InLast(c, k, o) PROVE Confirmed(c, k, o) # {}
    BY <1>3, <2>4, Zenon DEF Confirmed, InLast
  <2> HIDE DEF d
  <2>6. d[o].origin <=> Confirmed(c, "origin", o) # {}
    BY <2>1, <2>2, <2>3, <2>4, Zenon DEF FlagsAgree
  <2>7. d[o].proof <=> Confirmed(c, "proof", o) # {}
    BY <2>1, <2>2, <2>3, <2>4, Zenon DEF FlagsAgree
  <2>8. d[o].revision => Confirmed(c, "revision", o) # {}
    BY <2>1, <2>2, <2>3, <2>4, Zenon DEF FlagsAgree
  <2> QED
    BY <2>6, <2>7, <2>8, Zenon DEF FlagsAgree
<1> HIDE DEF d
<1>8. ViewOK(w)
  BY <1>2, <1>3, <1>5, <1>6, <1>7, Zenon DEF ViewOK
<1> QED
  BY <1>2, <1>8, Zenon

\* Every consensus change raises the height by one, to a view as it should be.
LEMMA ChangeViews ==
    ASSUME IndInv, ProcessConsensusChange
    PROVE  /\ height < MaxHeight /\ DOMAIN env' = DOMAIN env /\ env'.formed = env.formed
           /\ \E v : ViewOK(v) /\ v.height = height + 1 /\ Process(v)
<1>0. Structure /\ height \in Int /\ DOMAIN env = {"formed", "agreed", "faults"} /\ MaxHeight \in Nat
  BY ObligationAssumption DEF IndInv, Structure, Typed
<1>1. ViewOK(View) /\ View.height = height /\ DOMAIN View = {"chain", "db", "height", "todo"}
  BY ViewBegins, Zenon DEF View
<1>2. height < MaxHeight
  BY <1>0 DEF ProcessConsensusChange
<1>3. DOMAIN env' = DOMAIN env /\ env'.formed = env.formed
  BY <1>0, Zenon DEF ProcessConsensusChange, Disturbed, Undisturbed
<1>4. ASSUME NEW v \in Mine(View) PROVE ViewOK(v) /\ v.height = height + 1
  BY <1>0, <1>1, ApplyKeepsView, Zenon
<1>5. ASSUME NEW w \in Mine(RevertBlock(View)), NEW v \in Mine(w) PROVE ViewOK(v) /\ v.height = height + 1
  <2>1. ViewOK(RevertBlock(View)) /\ RevertBlock(View).height = height - 1
    BY <1>0, <1>1, RevertKeepsView, Zenon
  <2>2. ViewOK(w) /\ w.height = height - 1 + 1
    BY <1>0, <2>1, ApplyKeepsView
  <2>3. w.height \in Int /\ w.height = height
    BY <1>0, <2>2
  <2> QED
    BY <1>0, <2>2, <2>3, ApplyKeepsView, Zenon
<1> QED
  BY <1>2, <1>3, <1>4, <1>5, Zenon DEF ProcessConsensusChange

-----------------------------------------------------------------------------
(* The records, the copies and the metrics after a consensus change.       *)

Due(v) == v.height >= audit
Gone(v) == Expired(v.db, v.height) \cup Unconfirmed(v.db, v.chain, v.height)

\* What the change leaves of the records.
Kept(v, o) == ~Due(v) \/ o \notin Gone(v)
RecordsAfter(v) ==
    /\ DOMAIN db' \subseteq DOMAIN db
    /\ \A o \in DOMAIN db' : RecordOK(db'[o], o)
    /\ \A o \in DOMAIN db : Kept(v, o) => o \in DOMAIN db' /\ db'[o] = v.db[o]
    /\ \A o \in DOMAIN db' : ~Kept(v, o) =>
        /\ db[o].status = "unresolved" /\ db'[o].status # "unresolved" /\ db'[o].roots = {}
        /\ db'[o].origin = v.db[o].origin /\ db'[o].proof = v.db[o].proof /\ db'[o].revision = v.db[o].revision
    /\ Due(v) => \A o \in DOMAIN db' : db'[o].status = "unresolved" => v.height <= WindowEnd[o] + BlocksPerDay

\* The record of a view is that of the database with other flags.
LEMMA ViewRecords ==
    ASSUME Structure, NEW v, ViewOK(v), NEW o \in DOMAIN db
    PROVE  RecordOK(v.db[o], o) /\ v.db[o].status = db[o].status /\ v.db[o].roots = db[o].roots
<1>1. RecordOK(db[o], o) /\ Reflagged(v.db[o], db[o])
  BY Zenon DEF Structure, Typed, ViewOK
<1> QED
  BY <1>1, Zenon DEF RecordOK, Reflagged

\* What the audit does to an expired record.
LEMMA ResolvedFacts ==
    ASSUME NEW r, NEW o, RecordOK(r, o), NEW sos \in Statuses
    PROVE  /\ RecordOK(Resolved(r, sos), o) /\ Resolved(r, sos).status = sos /\ Resolved(r, sos).roots = {}
           /\ Resolved(r, sos).origin = r.origin /\ Resolved(r, sos).proof = r.proof
           /\ Resolved(r, sos).revision = r.revision
<1>1. Fields \subseteq DOMAIN r
  BY Zenon DEF RecordOK
<1>2. /\ DOMAIN Resolved(r, sos) = DOMAIN r /\ Resolved(r, sos).status = sos /\ Resolved(r, sos).roots = {}
      /\ Resolved(r, sos).id = r.id /\ Resolved(r, sos).fees = r.fees
  BY <1>1, Zenon DEF Resolved, Fields
<1>3. /\ Resolved(r, sos).origin = r.origin /\ Resolved(r, sos).proof = r.proof
      /\ Resolved(r, sos).revision = r.revision
  BY <1>1, Zenon DEF Resolved, Fields
<1> QED
  BY <1>2, <1>3, Zenon DEF RecordOK

\* A consensus change keeps, resolves or deletes each record.
LEMMA ProcessRecords ==
    ASSUME Structure, NEW v, ViewOK(v), v.height = height + 1, Process(v)
    PROVE  RecordsAfter(v)
<1>1. DOMAIN v.db = DOMAIN db
  BY Zenon DEF ViewOK
<1>2. \A o \in DOMAIN db : RecordOK(v.db[o], o) /\ v.db[o].status = db[o].status
  BY ViewRecords, Zenon
<1>3. CASE ~Due(v)
  <2>1. db' = v.db
    BY <1>3, Zenon DEF Process, Due
  <2> QED
    BY <1>1, <1>2, <1>3, <2>1, Zenon DEF RecordsAfter, Kept
<1>4. CASE Due(v)
  <2>1. db' = auditStorageObligations(v.db, v.chain, v.height)
    BY <1>4, Zenon DEF Process, Due
  <2>2. DOMAIN db' = DOMAIN db \ Unconfirmed(v.db, v.chain, v.height)
    BY <1>1, <2>1, Zenon DEF auditStorageObligations
  <2>3. \A o \in DOMAIN db' : o \notin Expired(v.db, v.height) => db'[o] = v.db[o]
    BY <2>1, <2>2, Zenon DEF auditStorageObligations
  <2>4. \A o \in DOMAIN db : Kept(v, o) => o \in DOMAIN db' /\ db'[o] = v.db[o]
    BY <1>4, <2>2, <2>3, Zenon DEF Kept, Gone
  <2>5. ASSUME NEW o \in DOMAIN db', o \in Expired(v.db, v.height)
        PROVE  /\ RecordOK(db'[o], o) /\ db[o].status = "unresolved"
               /\ db'[o].status # "unresolved" /\ db'[o].roots = {}
               /\ db'[o].origin = v.db[o].origin /\ db'[o].proof = v.db[o].proof /\ db'[o].revision = v.db[o].revision
    <3>1. PICK sos \in {"succeeded", "failed"} : db'[o] = Resolved(v.db[o], sos)
      BY <2>1, <2>2, <2>5, Zenon DEF auditStorageObligations
    <3>2. RecordOK(v.db[o], o) /\ v.db[o].status = db[o].status
      BY <1>2, <2>2, Zenon
    <3>3. v.db[o].status = "unresolved"
      BY <2>5, Zenon DEF Expired
    <3> QED
      BY <3>1, <3>2, <3>3, ResolvedFacts DEF Statuses
  <2>6. \A o \in DOMAIN db' : RecordOK(db'[o], o)
    BY <1>2, <2>2, <2>3, <2>5, Zenon
  <2>7. \A o \in DOMAIN db' : ~Kept(v, o) => o \in Expired(v.db, v.height)
    BY <2>2, Zenon DEF Kept, Gone
  <2>8. ASSUME NEW o \in DOMAIN db', db'[o].status = "unresolved" PROVE v.height <= WindowEnd[o] + BlocksPerDay
    <3>1. o \notin Expired(v.db, v.height)
      BY <2>5, <2>8, Zenon
    <3>2. v.db[o].status = "unresolved" /\ o \in DOMAIN v.db
      BY <1>1, <2>2, <2>3, <2>8, <3>1, Zenon
    <3>3. ~(v.height > WindowEnd[o] + BlocksPerDay)
      BY <3>1, <3>2, Zenon DEF Expired
    <3>4. v.height \in Int /\ WindowEnd[o] \in Nat /\ BlocksPerDay \in Nat
      BY <2>2, ObligationAssumption DEF Structure, Typed
    <3> QED
      BY <3>3, <3>4
  <2> QED
    BY <2>2, <2>4, <2>5, <2>6, <2>7, <2>8, Zenon DEF RecordsAfter
<1> QED
  BY <1>3, <1>4, Zenon

\* The holders after a change: as before, but for the mark.
SameHolder(o) ==
    /\ hold'[o].pc = hold[o].pc
    /\ hold[o].pc # "free" =>
        /\ HolderOK(hold'[o], o) /\ hold'[o].so = hold[o].so /\ hold'[o].old = hold[o].old
        /\ hold'[o].clear = hold[o].clear /\ hold'[o].gained = hold[o].gained
        /\ hold'[o].removed = hold[o].removed /\ hold'[o].tries = hold[o].tries
Right(v, o) ==
    /\ ~hold[o].dirty /\ (o \in DOMAIN db' <=> o \in DOMAIN db)
    /\ o \in DOMAIN db' => db'[o] = db[o]
    /\ Due(v) => hold[o].pc \notin Adding

\* An unmarked holder has not been overtaken.
LEMMA ProcessHolders ==
    ASSUME Structure, NEW v, Process(v)
    PROVE  /\ DOMAIN hold' = Obligation
           /\ \A o \in Obligation : "pc" \in DOMAIN hold'[o] /\ SameHolder(o)
           /\ \A o \in Obligation : hold[o].pc # "free" /\ ~hold'[o].dirty => Right(v, o)
<1>1. hold' = Overtaken(db', Due(v))
  BY Zenon DEF Process, Due
<1>2. DOMAIN hold' = Obligation
  BY <1>1, Zenon DEF Overtaken
<1>3. ASSUME NEW o \in Obligation, hold[o].pc = "free" PROVE "pc" \in DOMAIN hold'[o] /\ SameHolder(o)
  <2>1. hold'[o] = hold[o]
    BY <1>1, <1>3, Zenon DEF Overtaken
  <2> QED
    BY <1>3, <2>1, Zenon DEF SameHolder, Structure, HoldTyped
<1>4. ASSUME NEW o \in Obligation, hold[o].pc # "free"
      PROVE  "pc" \in DOMAIN hold'[o] /\ SameHolder(o) /\ (~hold'[o].dirty => Right(v, o))
  <2>0. HolderOK(hold[o], o)
    BY <1>4, Zenon DEF Structure, HoldTyped
  <2>1. PICK b : /\ b <=> \/ hold[o].dirty \/ ((o \in DOMAIN db') # (o \in DOMAIN db))
                          \/ (o \in DOMAIN db' /\ db'[o] # db[o]) \/ (Due(v) /\ hold[o].pc \in Adding)
                 /\ hold'[o] = [hold[o] EXCEPT !.dirty = b]
    <3> DEFINE b == \/ hold[o].dirty \/ ((o \in DOMAIN db') # (o \in DOMAIN db))
                    \/ (o \in DOMAIN db' /\ db'[o] # db[o]) \/ (Due(v) /\ hold[o].pc \in Adding)
    <3>1. hold'[o] = [hold[o] EXCEPT !.dirty = b]
      BY <1>1, <1>4, Zenon DEF Overtaken
    <3> QED
      BY <3>1, Zenon
  <2>2. /\ DOMAIN hold'[o] = DOMAIN hold[o] /\ hold'[o].pc = hold[o].pc /\ hold'[o].so = hold[o].so
        /\ hold'[o].old = hold[o].old /\ hold'[o].clear = hold[o].clear /\ hold'[o].gained = hold[o].gained
        /\ hold'[o].removed = hold[o].removed /\ hold'[o].tries = hold[o].tries
    BY <2>0, <2>1, Zenon DEF HolderOK, HolderFields
  <2>3. hold'[o].dirty = b
    BY <2>0, <2>1, Zenon DEF HolderOK, HolderFields
  <2>4. ~hold'[o].dirty => Right(v, o)
    BY <2>1, <2>3, Zenon DEF Right
  <2>5. HolderOK(hold'[o], o) /\ "pc" \in DOMAIN hold'[o]
    BY <2>0, <2>2, Zenon DEF HolderOK, HolderFields
  <2> QED
    BY <2>2, <2>4, <2>5, Zenon DEF SameHolder
<1> QED
  BY <1>2, <1>3, <1>4, Zenon
\* The fees of finitely many records have a sum.
LEMMA FeesFinite ==
    ASSUME NEW d, IsFiniteSet(DOMAIN d), \A o \in DOMAIN d : d[o].fees \in Nat
    PROVE  SumFees(d) \in Nat
<1> DEFINE f == [o \in DOMAIN d |-> {o} \X (1 .. d[o].fees)]
           T == {{o} \X (1 .. d[o].fees) : o \in DOMAIN d}
<1>1. f \in Surjection(DOMAIN d, T)
  BY Zenon DEF Surjection
<1>2. IsFiniteSet(T)
  <2> HIDE DEF f, T
  <2> QED
    BY <1>1, FS_Surjection, Zenon
<1>3. ASSUME NEW X \in T PROVE IsFiniteSet(X)
  <2>1. PICK o \in DOMAIN d : X = {o} \X (1 .. d[o].fees)
    BY Zenon
  <2>2. IsFiniteSet({o}) /\ IsFiniteSet(1 .. d[o].fees)
    <3>1. d[o].fees \in Int /\ 1 \in Int
      OBVIOUS
    <3>2. IsFiniteSet(1 .. d[o].fees)
      BY <3>1, FS_Interval, Zenon
    <3> QED
      BY <3>2, FS_Singleton, Zenon
  <2> QED
    BY <2>1, <2>2, FS_Product, Zenon
<1>4. IsFiniteSet(UNION T)
  <2> HIDE DEF T
  <2> QED
    BY <1>2, <1>3, FS_UNION, Zenon
<1> QED
  BY <1>4, FS_CardinalityType, Zenon DEF SumFees

\* The metrics that an audit and a restart compute.
LEMMA ResetFacts ==
    ASSUME NEW d, DOMAIN d \subseteq Obligation, \A o \in DOMAIN d : d[o].fees \in Nat
    PROVE  /\ DOMAIN resetFinancialMetrics(d) = {"count", "locked", "fees"}
           /\ resetFinancialMetrics(d).count = Cardinality({o \in DOMAIN d : d[o].status = "unresolved"})
           /\ resetFinancialMetrics(d).locked = Cardinality({o \in DOMAIN d : d[o].status = "unresolved"})
           /\ Cardinality({o \in DOMAIN d : d[o].status = "unresolved"}) \in Nat
           /\ resetFinancialMetrics(d).fees \in Nat
<1>1. IsFiniteSet(DOMAIN d)
  BY ObligationAssumption, FS_Subset, Zenon
<1>2. SumFees(d) \in Nat
  BY <1>1, FeesFinite, Zenon
<1>3. Cardinality({o \in DOMAIN d : d[o].status = "unresolved"}) \in Nat
  <2>1. {o \in DOMAIN d : d[o].status = "unresolved"} \subseteq DOMAIN d
    BY Zenon
  <2> QED
    BY <1>1, <2>1, FS_Subset, FS_CardinalityType, Zenon
<1> QED
  BY <1>2, <1>3, Zenon DEF resetFinancialMetrics

\* A consensus change, in terms of what the invariant speaks of.
Changed(v) ==
    /\ ViewOK(v) /\ v.height = height + 1 /\ height < MaxHeight /\ Process(v) /\ RecordsAfter(v)
    /\ DOMAIN env' = DOMAIN env /\ env'.formed = env.formed

\* The sectors an audit drops are finitely many.
LEMMA GoneFinite ==
    ASSUME Structure, NEW v, ViewOK(v), NEW s
    PROVE  LET D == {o \in Gone(v) : s \in v.db[o].roots}
           IN  D \subseteq DOMAIN db /\ IsFiniteSet(D) /\ Cardinality(D) \in Nat
<1>1. Gone(v) \subseteq DOMAIN db /\ DOMAIN db \subseteq Obligation
  BY Zenon DEF Gone, Expired, Unconfirmed, ViewOK, Structure, Typed
<1>2. {o \in Gone(v) : s \in v.db[o].roots} \subseteq DOMAIN db
  BY <1>1, Zenon
<1> QED
  BY <1>1, <1>2, ObligationAssumption, FS_Subset, FS_CardinalityType, Zenon

\* A consensus change keeps the types.
LEMMA ChangeTyped ==
    ASSUME Structure, NEW v, Changed(v)
    PROVE  Typed' /\ HoldTyped'
<1>0. ViewOK(v) /\ v.height = height + 1 /\ Process(v) /\ RecordsAfter(v) /\ Typed
  BY Zenon DEF Changed, Structure
<1>1. DOMAIN db' \subseteq Obligation /\ \A o \in DOMAIN db' : RecordOK(db'[o], o)
  BY <1>0, Zenon DEF RecordsAfter, Typed
<1>2. height' \in 0 .. MaxHeight
  BY <1>0, ObligationAssumption DEF Typed, Process, Changed
<1>3. DOMAIN refs' = Sector /\ \A s \in Sector : refs'[s] \in Nat
  <2>1. CASE ~Due(v)
    BY <1>0, <2>1, Zenon DEF Process, Due, Typed
  <2>2. CASE Due(v)
    <3>1. refs' = AuditedSectors(v.db, v.chain, v.height)
      BY <1>0, <2>2, Zenon DEF Process, Due
    <3>2. ASSUME NEW s \in Sector PROVE refs'[s] \in Nat
      <4>1. refs'[s] = Minus(refs[s], Cardinality({o \in Gone(v) : s \in v.db[o].roots}))
        BY <3>1, Zenon DEF AuditedSectors, Gone
      <4>2. refs[s] \in Nat /\ Cardinality({o \in Gone(v) : s \in v.db[o].roots}) \in Nat
        BY <1>0, GoneFinite, Zenon DEF Typed
      <4> QED
        BY <4>1, <4>2, MinusBounds, Zenon
    <3> QED
      BY <3>1, <3>2, Zenon DEF AuditedSectors
  <2> QED
    BY <2>1, <2>2, Zenon
<1>4. /\ DOMAIN metrics' = {"count", "locked", "fees"}
      /\ metrics'.count \in Int /\ metrics'.locked \in Nat /\ metrics'.fees \in Nat /\ saved' \in Nat
  <2>1. CASE ~Due(v)
    <3>1. metrics' = metrics /\ saved' = metrics.fees
      BY <1>0, <2>1, Zenon DEF Process, Due
    <3> QED
      BY <1>0, <3>1, Zenon DEF Typed
  <2>2. CASE Due(v)
    <3>1. metrics' = resetFinancialMetrics(db') /\ saved' = metrics'.fees
      BY <1>0, <2>2, Zenon DEF Process, Due
    <3>2. \A o \in DOMAIN db' : db'[o].fees \in Nat
      BY <1>1, Zenon DEF RecordOK
    <3>3. PICK d : d = db'
      BY Zenon
    <3>4. /\ DOMAIN resetFinancialMetrics(d) = {"count", "locked", "fees"}
          /\ resetFinancialMetrics(d).count = Cardinality({o \in DOMAIN d : d[o].status = "unresolved"})
          /\ resetFinancialMetrics(d).locked = Cardinality({o \in DOMAIN d : d[o].status = "unresolved"})
          /\ Cardinality({o \in DOMAIN d : d[o].status = "unresolved"}) \in Nat
          /\ resetFinancialMetrics(d).fees \in Nat
      BY <1>1, <3>2, <3>3, ResetFacts, Zenon
    <3> QED
      BY <3>1, <3>3, <3>4
  <2> QED
    BY <2>1, <2>2, Zenon
<1>5. DOMAIN hist' = {"stale", "shared", "lost", "uncounted"} /\ DOMAIN env' = {"formed", "agreed", "faults"}
  BY <1>0, Zenon DEF Process, Typed, Changed
<1>6. HoldTyped'
  BY <1>0, ProcessHolders, Zenon DEF HoldTyped, SameHolder
<1> QED
  BY <1>1, <1>2, <1>3, <1>4, <1>5, <1>6, Zenon DEF Typed

\* A consensus change brings nothing that was not formed, and keeps the copies right.
LEMMA ChangeStructure ==
    ASSUME Structure, NEW v, Changed(v)
    PROVE  Structure'
<1>0. ViewOK(v) /\ v.height = height + 1 /\ Process(v) /\ RecordsAfter(v)
  BY Zenon DEF Changed
<1>1. /\ chain' = v.chain /\ pool' = pool /\ hist'.shared = hist.shared /\ hist'.stale = hist.stale
      /\ env'.formed = env.formed
  BY <1>0, Zenon DEF Process, Changed, Structure, Typed
<1>2. /\ \A o \in Obligation : SameHolder(o)
      /\ \A o \in Obligation : hold[o].pc # "free" /\ ~hold'[o].dirty => Right(v, o)
  BY <1>0, ProcessHolders, Zenon
<1>3. \A t \in chain'.all \cup pool' : \E u \in chain.all \cup pool : u.id = t.id
  BY <1>0, <1>1, Zenon DEF ViewOK, Known
<1>4. DOMAIN db' \subseteq DOMAIN db
  BY <1>0, Zenon DEF RecordsAfter
<1>5. Formed'
  <2>1. DOMAIN db' \subseteq env'.formed
    BY <1>1, <1>4, Zenon DEF Structure, Formed
  <2>2. \A t \in chain'.all \cup pool' : t.id \in env'.formed
    BY <1>1, <1>3, Zenon DEF Structure, Formed
  <2>3. \A n, o \in Obligation : <<n, o>> \in hist'.shared => n \in env'.formed
    BY <1>1, Zenon DEF Structure, Formed
  <2>4. \A o \in Obligation : hold'[o].pc # "free" => o \in env'.formed
    BY <1>1, <1>2, Zenon DEF Structure, Formed, SameHolder
  <2> QED
    BY <2>1, <2>2, <2>3, <2>4, Zenon DEF Formed
<1>6. Renewals'
  <2> SUFFICES ASSUME NEW n \in Obligation, hold'[n].pc \in Creating PROVE RenewalAt(n)'
    BY Zenon DEF Renewals, RenewalAt
  <2>0. PICK c : c = hold[n].old
    BY Zenon
  <2>1. /\ hold[n].pc \in Creating /\ hold'[n].pc = hold[n].pc
        /\ hold'[n].so = hold[n].so /\ hold'[n].old = c /\ hold'[n].clear = hold[n].clear
    BY <1>2, <2>0, Zenon DEF SameHolder, Adding, Creating, Handling, Pcs
  <2>2. RenewalAt(n) /\ c \in Obligation
    <3>1. RenewalAt(n)
      BY <2>1, Zenon DEF Structure, Renewals, RenewalAt
    <3>2. hold[n].pc # "free"
      BY <2>1, Kinds
    <3> QED
      BY <2>0, <3>1, <3>2, Zenon DEF Structure, HoldTyped, HolderOK
  <2>3. c # n => hold'[c].pc = "session" /\ hold'[c].so = hold[c].so
    <3>1. c # n => hold[c].pc = "session"
      BY <2>0, <2>2, Zenon DEF RenewalAt
    <3>2. SameHolder(c)
      BY <1>2, <2>2, Zenon
    <3> QED
      BY <3>1, <3>2 DEF SameHolder
  <2>4. ASSUME NEW m \in Obligation, hold'[m].pc \in Creating, hold'[m].old = c, c # n PROVE m = n
    <3>1. SameHolder(m)
      BY <1>2, Zenon
    <3>2. hold[m].pc \in Creating /\ hold[m].pc # "free"
      BY <2>4, <3>1, Kinds DEF SameHolder
    <3>3. hold[m].old = c
      BY <2>4, <3>1, <3>2, Zenon DEF SameHolder
    <3> QED
      BY <2>0, <2>2, <2>4, <3>2, <3>3, Zenon DEF RenewalAt
  <2> QED
    BY <2>0, <2>1, <2>2, <2>3, <2>4, Zenon DEF RenewalAt
<1>7. Fresh'
  <2> SUFFICES ASSUME NEW n \in Obligation PROVE FreshAt(n)'
    BY Zenon DEF Fresh, FreshAt
  <2>1. FreshAt(n) /\ SameHolder(n)
    BY <1>2, Zenon DEF Structure, Fresh, FreshAt
  <2> QED
    BY <1>1, <1>3, <1>4, <2>1 DEF FreshAt, SameHolder, Adding, Creating, Handling, Pcs
<1>8. Copies'
  <2> SUFFICES ASSUME NEW o \in Obligation, hold'[o].pc # "free", ~hold'[o].dirty PROVE CopyOK(hold[o], o)'
    BY Zenon DEF Copies
  <2>1. SameHolder(o) /\ hold[o].pc # "free" /\ Right(v, o)
    BY <1>2, Zenon DEF SameHolder
  <2>2. CopyOK(hold[o], o)
    BY <2>1, Zenon DEF Structure, Copies, Right
  <2> QED
    BY <2>1, <2>2, Zenon DEF CopyOK, SameRecord, SameHolder, Right, Adding, Creating, Handling, Pcs
<1>9. Chains'
  BY <1>0, <1>1, Zenon DEF Chains, Structure, ViewOK, SingleOrigins, SingleProofs
<1> QED
  BY <1>5, <1>6, <1>7, <1>8, <1>9, ChangeTyped, Zenon DEF Structure

\* After a change the flags are those of the new chain, and the audit is not late.
LEMMA ChangeRecords ==
    ASSUME Structure, Records, NEW v, Changed(v)
    PROVE  Records'
<1>0. ViewOK(v) /\ v.height = height + 1 /\ Process(v) /\ RecordsAfter(v) /\ Typed
  BY Zenon DEF Changed, Structure
<1>1. chain' = v.chain /\ height' = height + 1 /\ hist'.stale = hist.stale
  BY <1>0, Zenon DEF Process, Typed
<1>2. FlagsFollowChain'
  <2> SUFFICES ASSUME NEW o \in DOMAIN db' \ hist'.stale PROVE FlagsRight(o)'
    BY Zenon DEF FlagsFollowChain
  <2>1. o \in DOMAIN db \ hist.stale
    BY <1>0, <1>1, Zenon DEF RecordsAfter
  <2>2. FlagsAgree(v.db[o], v.chain, o)
    BY <1>0, <2>1, Zenon DEF ViewOK
  <2>3. db'[o].origin = v.db[o].origin /\ db'[o].proof = v.db[o].proof /\ db'[o].revision = v.db[o].revision
    BY <1>0, <2>1, Zenon DEF RecordsAfter
  <2>4. /\ Confirmed(chain, "origin", o)' = Confirmed(v.chain, "origin", o)
        /\ Confirmed(chain, "proof", o)' = Confirmed(v.chain, "proof", o)
        /\ Confirmed(chain, "revision", o)' = Confirmed(v.chain, "revision", o)
    BY <1>1, Zenon DEF Confirmed
  <2> QED
    BY <2>2, <2>3, <2>4, Zenon DEF FlagsAgree, FlagsRight
<1>3. Times'
  <2>0. /\ audit \in Int /\ height \in Int /\ height <= audit /\ audit <= height + BlocksPerDay
        /\ BlocksPerDay \in Nat \ {0} /\ v.height \in Int
    BY <1>0, ObligationAssumption DEF Records, Times, Typed
  <2>1. CASE ~Due(v)
    <3>1. audit' = audit /\ height' < audit
      BY <1>0, <1>1, <2>0, <2>1 DEF Process, Due
    <3>2. Open' \subseteq Open
      BY <1>0, <2>1, ViewRecords DEF RecordsAfter, Kept, Open, Unresolved
    <3>3. ASSUME NEW o \in Open' \ hist'.stale
          PROVE  audit' <= WindowEnd[o] + 2 * BlocksPerDay /\ height' < WindowEnd[o] + 2 * BlocksPerDay
      <4>1. audit <= WindowEnd[o] + 2 * BlocksPerDay
        BY <1>1, <3>2, <3>3, Zenon DEF Records, Times
      <4>2. WindowEnd[o] \in Nat
        BY <1>0, <3>2, ObligationAssumption, Zenon DEF Open, Typed
      <4> QED
        BY <1>1, <2>0, <3>1, <4>1, <4>2
    <3> QED
      BY <1>1, <2>0, <3>1, <3>3 DEF Times
  <2>2. CASE Due(v)
    <3>1. audit' = height + 1 + BlocksPerDay
      BY <1>0, <2>0, <2>2, Zenon DEF Process, Due
    <3>2. ASSUME NEW o \in Open'
          PROVE  audit' <= WindowEnd[o] + 2 * BlocksPerDay /\ height' < WindowEnd[o] + 2 * BlocksPerDay
      <4>1. o \in DOMAIN db' /\ db'[o].status = "unresolved"
        BY Zenon DEF Open, Unresolved
      <4>2. height + 1 <= WindowEnd[o] + BlocksPerDay
        BY <1>0, <2>2, <4>1, Zenon DEF RecordsAfter
      <4>3. WindowEnd[o] \in Nat
        BY <1>0, <4>1, ObligationAssumption, Zenon DEF RecordsAfter, Typed
      <4> QED
        BY <1>1, <2>0, <3>1, <4>2, <4>3
    <3> QED
      BY <1>1, <2>0, <3>1, <3>2 DEF Times
  <2> QED
    BY <2>1, <2>2, Zenon
<1> QED
  BY <1>2, <1>3, Zenon DEF Records

\* A change leaves the metrics alone, or counts all open contracts.
LEMMA ChangeMetrics ==
    ASSUME Structure, Structure', Metrics, NEW v, Changed(v)
    PROVE  Metrics'
<1> SUFFICES ASSUME Undamaged' PROVE (metrics.count = Cardinality(Counted) /\ metrics.locked = Cardinality(Counted))'
  BY Zenon DEF Metrics
<1>0. ViewOK(v) /\ Process(v) /\ RecordsAfter(v) /\ Typed
  BY Zenon DEF Changed, Structure
<1>1. /\ \A o \in Obligation : SameHolder(o)
      /\ \A o \in Obligation : hold[o].pc # "free" /\ ~hold'[o].dirty => Right(v, o)
  BY <1>0, ProcessHolders, Zenon
<1>2. DOMAIN db' \subseteq DOMAIN db /\ DOMAIN db \subseteq Obligation
  BY <1>0, Zenon DEF RecordsAfter, Typed
<1>3. CASE ~Due(v)
  <2>1. hist' = hist /\ metrics' = metrics
    BY <1>0, <1>3, Zenon DEF Process, Due
  <2>2. DOMAIN db' = DOMAIN db /\ \A o \in DOMAIN db : db'[o].status = db[o].status
    BY <1>0, <1>2, <1>3, ViewRecords DEF RecordsAfter, Kept
  <2>3. Undamaged
    <3>1. ASSUME NEW o \in DOMAIN db, hold[o].pc \in Adding PROVE ~hold[o].dirty
      <4>1. hold'[o].pc \in Adding /\ hold[o].pc # "free"
        BY <1>1, <1>2, <3>1, Zenon DEF SameHolder, Adding, Creating, Handling, Pcs
      <4>2. ~hold'[o].dirty
        BY <2>2, <4>1, Zenon DEF Undamaged
      <4> QED
        BY <1>1, <1>2, <4>1, <4>2, Zenon DEF Right
    <3> QED
      BY <2>1, <3>1, Zenon DEF Undamaged
  <2>4. Counted' = Counted
    BY <1>1, <1>2, <2>2, Zenon DEF Counted, Open, Unresolved, SameHolder
  <2> QED
    BY <2>1, <2>3, <2>4, Zenon DEF Metrics
<1>4. CASE Due(v)
  <2>1. metrics' = resetFinancialMetrics(db')
    BY <1>0, <1>4, Zenon DEF Process, Due
  <2>2. ASSUME NEW o \in DOMAIN db' PROVE hold'[o].pc \notin Adding
    <3> SUFFICES ASSUME hold'[o].pc \in Adding PROVE FALSE
      BY Zenon
    <3>1. ~hold'[o].dirty /\ hold[o].pc = hold'[o].pc /\ hold[o].pc # "free" /\ o \in Obligation
      BY <1>1, <1>2, Zenon DEF Undamaged, SameHolder, Adding, Creating, Handling, Pcs
    <3> QED
      BY <1>1, <1>4, <3>1, Zenon DEF Right
  <2>3. Counted' = {o \in DOMAIN db' : db'[o].status = "unresolved"}
    BY <2>2, Zenon DEF Counted, Open, Unresolved
  <2>4. DOMAIN db' \subseteq Obligation /\ \A o \in DOMAIN db' : db'[o].fees \in Nat
    BY <1>0, <1>2, Zenon DEF RecordsAfter, RecordOK
  <2>5. PICK d : d = db'
    BY Zenon
  <2>6. /\ resetFinancialMetrics(d).count = Cardinality({o \in DOMAIN d : d[o].status = "unresolved"})
        /\ resetFinancialMetrics(d).locked = Cardinality({o \in DOMAIN d : d[o].status = "unresolved"})
    BY <2>4, <2>5, ResetFacts, Zenon
  <2> QED
    BY <2>1, <2>3, <2>5, <2>6, Zenon
<1> QED
  BY <1>3, <1>4, Zenon

\* The audit removes the sectors of the contracts it closes, each once.
LEMMA ChangeSectors ==
    ASSUME Structure, Structure', Sectors, NEW v, Changed(v)
    PROVE  Sectors'
<1> SUFFICES ASSUME Settling', NEW s \in Sector PROVE Held(s)'
  BY Zenon DEF Sectors, Held
<1>0. ViewOK(v) /\ Process(v) /\ RecordsAfter(v) /\ Typed
  BY Zenon DEF Changed, Structure
<1>1. /\ \A o \in Obligation : SameHolder(o)
      /\ \A o \in Obligation : hold[o].pc # "free" /\ ~hold'[o].dirty => Right(v, o)
  BY <1>0, ProcessHolders, Zenon
<1>2. hist'.stale = hist.stale /\ hist'.shared = hist.shared
  BY <1>0, Zenon DEF Process, Typed
<1>3. ASSUME NEW n \in Obligation, NEW x \in Obligation, <<n, x>> \in hist.shared
      PROVE  InProgress(n, x) /\ Right(v, x)
  <2>1. hold'[n].pc \in Creating /\ hold'[n].clear /\ hold'[n].old = x /\ ~hold'[x].dirty
    BY <1>2, <1>3, Zenon DEF Settling, InProgress
  <2>2. hold[n].pc \in Creating /\ hold[n].clear /\ hold[n].old = x
    BY <1>1, <2>1, Zenon DEF SameHolder, Adding, Creating, Handling, Pcs
  <2>3. hold[x].pc = "session"
    BY <2>2, Zenon DEF Structure, Renewals
  <2>4. Right(v, x)
    BY <1>1, <2>1, <2>3, Zenon
  <2> QED
    BY <2>2, <2>4, Zenon DEF InProgress, Right
<1>4. Settling
  BY <1>2, <1>3, Zenon DEF Settling
<1>5. Held(s)
  BY <1>4, Zenon DEF Sectors, Held
<1>6. NoMoreGains(s)
  BY <1>1, Zenon DEF NoMoreGains, SameHolder
<1>7. \A x \in DOMAIN db : v.db[x].roots = db[x].roots
  BY <1>0, ViewRecords, Zenon
<1>8. \A x \in Obligation : Lists(x, s)' => Lists(x, s)
  BY <1>0, <1>2, <1>7 DEF Lists, RecordsAfter
<1>9. CASE ~Due(v)
  <2>1. refs' = refs /\ refs[s] \in Nat
    BY <1>0, <1>9, Zenon DEF Process, Due, Typed
  <2>2. refs'[s] >= refs[s]
    BY <2>1
  <2> QED
    BY <1>5, <1>6, <1>8, <2>2, HeldSame, Zenon DEF NoMoreGains
<1>10. CASE Due(v)
  <2> DEFINE D == {o \in Gone(v) : s \in v.db[o].roots}
  <2>1. D \subseteq DOMAIN db /\ IsFiniteSet(D) /\ Cardinality(D) \in Nat
    BY <1>0, GoneFinite, Zenon
  <2>2. refs'[s] = Minus(refs[s], Cardinality(D))
    BY <1>0, <1>10, Zenon DEF Process, Due, AuditedSectors, Gone
  <2>3. ASSUME NEW x \in D PROVE x \in Listing(s)
    <3>1. x \in DOMAIN db /\ s \in db[x].roots /\ x \in Obligation /\ ~Kept(v, x)
      BY <1>0, <1>7, <1>10, <2>1, <2>3, Zenon DEF Kept, Typed
    <3>2. ASSUME NEW n \in Obligation, <<n, x>> \in hist.shared PROVE FALSE
      <4>1. x \in DOMAIN db' /\ db'[x] = db[x]
        BY <1>3, <3>1, <3>2, Zenon DEF Right
      <4> QED
        BY <1>0, <3>1, <4>1, Zenon DEF RecordsAfter
    <3> QED
      BY <3>1, <3>2, Zenon DEF Listing, Lists
  <2>4. ASSUME NEW x \in Listing(s)' PROVE x \in Listing(s) \ D
    <3>1. x \in Obligation /\ Lists(x, s)'
      BY <2>4, Zenon DEF Listing
    <3>2. x \in DOMAIN db' /\ s \in db'[x].roots
      BY <3>1, Zenon DEF Lists
    <3>3. Kept(v, x)
      BY <1>0, <3>2, Zenon DEF RecordsAfter
    <3> QED
      BY <1>8, <1>10, <3>1, <3>3, Zenon DEF Listing, Kept
  <2>5. /\ Cardinality(Listing(s)) \in Nat /\ Cardinality(Gaining(s)) \in Nat
        /\ Cardinality(Listing(s)') \in Nat /\ Cardinality(Gaining(s)') \in Nat
        /\ IsFiniteSet(Listing(s)) /\ IsFiniteSet(Gaining(s)) /\ refs[s] \in Nat /\ refs'[s] \in Nat
    BY SectorSets, SectorSetsNext, Zenon DEF Structure, Typed
  <2> HIDE DEF D
  <2>6. Cardinality(Listing(s)') <= Cardinality(Listing(s)) - Cardinality(D)
    <3>1. D = Listing(s) \cap D /\ Listing(s)' \subseteq Listing(s) \ D
      BY <2>3, <2>4, Zenon
    <3>2. IsFiniteSet(Listing(s) \ D) /\ Cardinality(Listing(s) \ D) = Cardinality(Listing(s)) - Cardinality(D)
      BY <2>5, <3>1, FS_Difference, Zenon
    <3> QED
      BY <3>1, <3>2, CardinalityBounds, Zenon
  <2>7. Gaining(s)' \subseteq Gaining(s)
    BY <1>6, Zenon DEF NoMoreGains, Gaining
  <2>8. Cardinality(Gaining(s)') <= Cardinality(Gaining(s))
    BY <2>5, <2>7, CardinalityBounds, Zenon
  <2>9. refs'[s] >= refs[s] - Cardinality(D)
    BY <2>1, <2>2, <2>5, MinusBounds, Zenon
  <2> QED
    BY <1>5, <2>1, <2>5, <2>6, <2>8, <2>9 DEF Held
<1> QED
  BY <1>9, <1>10, Zenon

\* A consensus change, whatever blocks it reverts and applies, keeps the invariant.
LEMMA ChangeInvariant ==
    ASSUME IndInv, ProcessConsensusChange
    PROVE  IndInv'
<1>1. Structure /\ Records /\ Metrics /\ Sectors
  BY Zenon DEF IndInv
<1>2. PICK v : ViewOK(v) /\ v.height = height + 1 /\ Process(v)
  BY ChangeViews, Zenon
<1>3. Changed(v)
  BY <1>1, <1>2, ChangeViews, ProcessRecords, Zenon DEF Changed
<1>4. Structure'
  BY <1>1, <1>3, ChangeStructure, Zenon
<1> QED
  BY <1>1, <1>3, <1>4, ChangeRecords, ChangeMetrics, ChangeSectors, Zenon DEF IndInv

-----------------------------------------------------------------------------
(* Shutdown and restart, and the theorems.                                 *)

\* After a restart nobody holds a lock, and the open contracts are counted anew.
LEMMA RestartInvariant ==
    ASSUME IndInv, Restart
    PROVE  IndInv'
<1>0. Structure /\ Records /\ Metrics /\ Sectors /\ Typed
  BY Zenon DEF IndInv, Structure
<1>1. /\ DOMAIN hold' = Obligation /\ \A o \in Obligation : hold'[o] = Nobody
      /\ audit' = height /\ UNCHANGED <<db, height, saved, refs, pool, chain>>
  BY Zenon DEF Restart
<1>2. \A o \in Obligation : hold'[o].pc = "free" /\ "pc" \in DOMAIN hold'[o] /\ hold'[o].pc \notin Creating
  BY <1>1 DEF Nobody, Adding, Creating, Handling, Pcs
<1>3. hist'.stale = hist.stale /\ hist'.shared = hist.shared /\ DOMAIN hist' = {"stale", "shared", "lost", "uncounted"}
  BY <1>0, Zenon DEF Restart, Typed
<1>4. DOMAIN env' = {"formed", "agreed", "faults"} /\ env'.formed = env.formed
  BY <1>0, Zenon DEF Restart, Disturbed, Typed
<1>5. /\ DOMAIN resetFinancialMetrics(db) = {"count", "locked", "fees"}
      /\ resetFinancialMetrics(db).count = Cardinality(Open) /\ resetFinancialMetrics(db).locked = Cardinality(Open)
      /\ Cardinality(Open) \in Nat
  <2>1. DOMAIN db \subseteq Obligation /\ \A o \in DOMAIN db : db[o].fees \in Nat
    BY <1>0, Zenon DEF Typed, RecordOK
  <2>2. Open = {o \in DOMAIN db : db[o].status = "unresolved"}
    BY Zenon DEF Open, Unresolved
  <2> QED
    BY <2>1, <2>2, ResetFacts, Zenon
<1>6. /\ DOMAIN metrics' = {"count", "locked", "fees"} /\ metrics'.count = Cardinality(Open)
      /\ metrics'.locked = Cardinality(Open) /\ metrics'.fees = saved
  BY <1>5, Zenon DEF Restart
<1>7. Typed' /\ HoldTyped'
  <2>1. Typed'
    BY <1>0, <1>1, <1>3, <1>4, <1>5, <1>6 DEF Typed
  <2> QED
    BY <1>1, <1>2, <2>1, Zenon DEF HoldTyped
<1>8. Formed' /\ Chains'
  BY <1>0, <1>1, <1>2, <1>3, <1>4, Zenon DEF Structure, Formed, Chains
<1>9. Renewals' /\ Fresh' /\ Copies'
  <2>1. Renewals'
    BY <1>2, Zenon DEF Renewals
  <2>2. Fresh'
    BY <1>2, Zenon DEF Fresh, Adding, Creating, Handling, Pcs
  <2>3. Copies'
    BY <1>2, Zenon DEF Copies
  <2> QED
    BY <2>1, <2>2, <2>3, Zenon
<1>10. Structure'
  BY <1>7, <1>8, <1>9, Zenon DEF Structure
<1>11. Open' = Open
  BY <1>1, Zenon DEF Open, Unresolved
<1>12. Records'
  <2>1. FlagsFollowChain'
    BY <1>0, <1>1, <1>3, Zenon DEF Records, FlagsFollowChain, FlagsRight, Confirmed
  <2>2. Times'
    <3>1. height \in Int /\ BlocksPerDay \in Nat
      BY <1>0, ObligationAssumption DEF Typed
    <3>2. \A o \in Open \ hist.stale : height < WindowEnd[o] + 2 * BlocksPerDay /\ WindowEnd[o] \in Nat
      BY <1>0, ObligationAssumption, Zenon DEF Records, Times, Open, Typed
    <3>3. \A o \in Open \ hist.stale : height <= WindowEnd[o] + 2 * BlocksPerDay
      BY <3>1, <3>2
    <3> QED
      BY <1>1, <1>3, <1>11, <3>1, <3>2, <3>3 DEF Times
  <2> QED
    BY <2>1, <2>2, Zenon DEF Records
<1>13. Metrics'
  <2>1. Counted' = Open
    <3>1. \A o \in Open' : hold'[o].pc \notin Adding
      BY <1>0, <1>1, <1>2, <1>11, Zenon DEF Open, Typed, Adding, Creating, Handling, Pcs
    <3> QED
      BY <1>11, <3>1, Zenon DEF Counted
  <2> QED
    BY <1>6, <2>1, Zenon DEF Metrics
<1>14. Sectors'
  <2> SUFFICES ASSUME Settling', NEW s \in Sector PROVE Held(s)'
    BY Zenon DEF Sectors, Held
  <2>1. \A n, o \in Obligation : <<n, o>> \notin hist.shared
    BY <1>2, <1>3, Zenon DEF Settling, InProgress
  <2>2. Settling
    BY <1>3, <2>1, Zenon DEF Settling
  <2>3. Held(s)
    BY <1>0, <2>2, Zenon DEF Sectors, Held
  <2>4. \A x \in Obligation : Lists(x, s)' => Lists(x, s)
    BY <1>1, <1>3, Zenon DEF Lists
  <2>5. refs'[s] >= refs[s]
    BY <1>0, <1>1 DEF Typed
  <2>6. \A x \in Obligation : hold'[x].pc # "modify"
    BY <1>2, Zenon
  <2> QED
    BY <1>0, <1>10, <2>3, <2>4, <2>5, <2>6, HeldSame, Zenon
<1> QED
  BY <1>10, <1>12, <1>13, <1>14, Zenon DEF IndInv

\* The invariant holds for a new host.
LEMMA InitInvariant == Init => IndInv
<1> SUFFICES ASSUME Init PROVE IndInv
  BY Zenon
<1>1. /\ DOMAIN db = {} /\ height = 0 /\ audit = 0 /\ saved = 0 /\ pool = {} /\ chain.all = {} /\ chain.last = {}
      /\ DOMAIN refs = Sector /\ \A s \in Sector : refs[s] = 0
  BY Zenon DEF Init
<1>2. /\ DOMAIN hist = {"stale", "shared", "lost", "uncounted"} /\ hist.stale = {} /\ hist.shared = {}
      /\ DOMAIN env = {"formed", "agreed", "faults"} /\ env.formed = {}
      /\ DOMAIN metrics = {"count", "locked", "fees"} /\ metrics.count = 0 /\ metrics.locked = 0 /\ metrics.fees = 0
  BY Zenon DEF Init
<1>3. /\ DOMAIN hold = Obligation
      /\ \A o \in Obligation : hold[o].pc = "free" /\ "pc" \in DOMAIN hold[o]
  BY Zenon DEF Init, Nobody, Adding, Creating, Handling, Pcs
<1>4. Typed /\ HoldTyped
  BY <1>1, <1>2, <1>3, ObligationAssumption DEF Typed, HoldTyped
<1>5. Formed /\ Chains
  BY <1>1, <1>2, <1>3, Zenon DEF Formed, Chains
<1>6. Renewals /\ Fresh /\ Copies
  BY <1>3, Zenon DEF Renewals, Fresh, Copies, Adding, Creating, Handling, Pcs
<1>7. Open = {} /\ Counted = {}
  BY <1>1, Zenon DEF Open, Counted
<1>8. FlagsFollowChain /\ Times
  BY <1>1, <1>7, ObligationAssumption DEF FlagsFollowChain, Times
<1>9. Metrics
  BY <1>2, <1>7, FS_EmptySet, Zenon DEF Metrics
<1>10. Sectors
  <2>1. \A s \in Sector : Listing(s) = {} /\ Gaining(s) = {}
    BY <1>1, <1>3, Zenon DEF Listing, Lists, Gaining
  <2>2. ASSUME NEW s \in Sector PROVE refs[s] >= Cardinality(Listing(s)) + Cardinality(Gaining(s))
    <3>1. refs[s] = 0 /\ Cardinality(Listing(s)) = 0 /\ Cardinality(Gaining(s)) = 0
      BY <1>1, <2>1, FS_EmptySet, Zenon
    <3> QED
      BY <3>1
  <2> QED
    BY <2>2, Zenon DEF Sectors
<1> QED
  BY <1>4, <1>5, <1>6, <1>8, <1>9, <1>10, Zenon DEF IndInv, Structure, Records

\* Every step of RPCs and action items is one of the steps above.
LEMMA NextSteps ==
    ASSUME IndInv, Next
    PROVE  ProcessConsensusChange \/ Restart \/ \E o \in Obligation : Step(o)
<1>1. Structure
  BY Zenon DEF IndInv
<1> QED
  BY <1>1, ItemSteps, RpcSteps, Zenon DEF Next

\* The invariant is inductive.
LEMMA NextInvariant == IndInv /\ [Next]_vars => IndInv'
<1> SUFFICES ASSUME IndInv, [Next]_vars PROVE IndInv'
  BY Zenon
<1>1. CASE Next
  BY <1>1, NextSteps, ChangeInvariant, RestartInvariant, StepInvariant, Zenon
<1>2. CASE UNCHANGED vars
  <2>0. /\ UNCHANGED <<db, hold, height, audit, metrics, saved, refs, pool, chain, env, hist>>
        /\ Structure /\ Records /\ Metrics /\ Sectors
    BY <1>2, Zenon DEF vars, IndInv
  <2>1. Typed' /\ HoldTyped' /\ Formed' /\ Chains'
    BY <2>0, Zenon DEF Structure, Typed, HoldTyped, Formed, Chains
  <2>2. Renewals' /\ Fresh'
    BY <2>0, Zenon DEF Structure, Renewals, Fresh
  <2>3. Copies'
    BY <2>0, ZenonT(30) DEF Structure, Copies, CopyOK, SameRecord
  <2>4. Records'
    BY <2>0, Zenon DEF Records, FlagsFollowChain, FlagsRight, Confirmed, Times, Open, Unresolved
  <2>5. Metrics'
    BY <2>0, Zenon DEF Metrics, Undamaged, Counted, Open, Unresolved
  <2>6. Sectors'
    BY <2>0, Zenon DEF Sectors, Settling, InProgress, Listing, Lists, Gaining
  <2> QED
    BY <2>1, <2>2, <2>3, <2>4, <2>5, <2>6, Zenon DEF IndInv, Structure
<1> QED
  BY <1>1, <1>2, Zenon

\* The invariant holds in every state the host reaches.
LEMMA Invariance == Spec => []IndInv
  BY InitInvariant, NextInvariant, PTL DEF Spec

\* ProcessConsensusChange, the RPCs, threadedHandleActionItem and a restart keep the
\* records of the storage obligations sound: the confirmation flags of a record that
\* was not written from an outdated copy agree with the blockchain, and no obligation
\* stays open two days after its proof deadline.
THEOREM RecordsAlwaysSound == Spec => []RecordsSound
<1>1. IndInv => RecordsSound
  <2> SUFFICES ASSUME IndInv PROVE RecordsSound
    BY Zenon
  <2>1. Typed /\ FlagsFollowChain /\ Times
    BY Zenon DEF IndInv, Structure, Records
  <2>2. TypeOK
    BY <2>1, Zenon DEF Typed, TypeOK, RecordOK, Statuses
  <2>3. SettledInTime
    BY <2>1, Zenon DEF Times, SettledInTime
  <2> QED
    BY <2>1, <2>2, <2>3, Zenon DEF RecordsSound
<1> QED
  BY <1>1, Invariance, PTL

\* The contract manager keeps a virtual sector for every open obligation that lists
\* a sector, whatever order writes, renewals, audits, action items and restarts come
\* in, as long as no record was written from an outdated copy and no renewal shares
\* its sectors with a contract that was not cleared.
THEOREM SectorsAlwaysHeld == Spec => []SectorsHeld
<1>1. IndInv => SectorsHeld
  <2> SUFFICES ASSUME IndInv, hist.shared = {}, hist.stale = {}, NEW s \in Sector
               PROVE  refs[s] >= Cardinality(Holders(s))
    BY Zenon DEF SectorsHeld
  <2>1. Structure /\ Sectors /\ Typed
    BY Zenon DEF IndInv, Structure
  <2>2. Settling
    BY Zenon DEF Settling
  <2>3. Held(s)
    BY <2>1, <2>2, Zenon DEF Sectors, Held
  <2>4. Holders(s) \subseteq Listing(s)
    BY <2>1, Zenon DEF Holders, Listing, Lists, Typed
  <2>5. Cardinality(Holders(s)) <= Cardinality(Listing(s)) /\ IsFiniteSet(Holders(s))
    BY <2>4, SectorSets, FS_Subset, Zenon
  <2>6. Cardinality(Holders(s)) \in Nat
    BY <2>5, FS_CardinalityType, Zenon
  <2>7. Cardinality(Listing(s)) \in Nat /\ Cardinality(Gaining(s)) \in Nat /\ refs[s] \in Nat
    BY <2>1, SectorSets, Zenon DEF Typed
  <2> QED
    BY <2>3, <2>5, <2>6, <2>7 DEF Held
<1> QED
  BY <1>1, Invariance, PTL

\* ContractCount and LockedStorageCollateral count the open obligations whenever no
\* contract is being added, unless the code has miscounted in one of the ways that
\* the next audit repairs.
THEOREM MetricsAlwaysExact == Spec => []MetricsExact
<1>1. IndInv => MetricsExact
  <2> SUFFICES ASSUME IndInv, hist.stale = {}, ~hist.uncounted, \A o \in DOMAIN db : hold[o].pc \notin Adding
               PROVE  metrics.count = Cardinality(Open) /\ metrics.locked = Cardinality(Open)
    BY Zenon DEF MetricsExact
  <2>1. Undamaged
    BY Zenon DEF Undamaged
  <2>2. Counted = Open
    BY Zenon DEF Counted, Open
  <2> QED
    BY <2>1, <2>2, Zenon DEF IndInv, Metrics
<1> QED
  BY <1>1, Invariance, PTL

\* removeStorageObligation resolves an obligation once: no RPC, action item, audit or
\* restart resolves it again or reopens it, unless it writes an outdated copy.
THEOREM AlwaysResolvedForGood == Spec => [][ResolvedForGood]_vars
<1>1. IndInv /\ [Next]_vars => [ResolvedForGood]_vars
  <2> SUFFICES ASSUME IndInv, Next PROVE ResolvedForGood
    BY Zenon
  <2>1. Structure
    BY Zenon DEF IndInv
  <2>2. CASE ProcessConsensusChange
    <3>1. PICK v : ViewOK(v) /\ v.height = height + 1 /\ Process(v)
      BY <2>2, ChangeViews, Zenon
    <3>2. RecordsAfter(v)
      BY <2>1, <3>1, ProcessRecords, Zenon
    <3>3. \A o \in DOMAIN db : v.db[o].status = db[o].status
      BY <2>1, <3>1, ViewRecords, Zenon
    <3> QED
      BY <3>2, <3>3, Zenon DEF RecordsAfter, ResolvedForGood
  <2>3. CASE Restart
    BY <2>3, Zenon DEF Restart, ResolvedForGood
  <2>4. ASSUME NEW o \in Obligation, Step(o) PROVE ResolvedForGood
    BY <2>1, <2>4, StepRecords, Zenon DEF RecordStep, RecordMoves, RecordNew, ResolvedForGood
  <2> QED
    BY <2>2, <2>3, <2>4, NextSteps, Zenon
<1> QED
  BY <1>1, Invariance, PTL DEF Spec
=============================================================================
