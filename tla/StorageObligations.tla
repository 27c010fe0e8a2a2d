------------------------- MODULE StorageObligations -------------------------
(***************************************************************************)
(* The host's storage obligations: one record per file contract in the     *)
(* host's database.  RPCs of renters add and revise them under the lock of *)
(* the obligation; consensus changes, under the lock of the host only, set *)
(* their confirmations, start the action items of their height and audit   *)
(* them once a day; an action item submits what the blockchain has not     *)
(* seen yet and resolves the obligation when its time is over.             *)
(***************************************************************************)
EXTENDS ObligationRecords, FiniteSetsExt

CONSTANTS
    Renewal,        \* the obligations that only renewals create
    WindowStart,    \* obligation -> height at which it expires
    SubmissionBuffer,   \* revisionSubmissionBuffer
    Resubmission,   \* resubmissionTimeout
    RespendTimeout,
    MaxRevision,    \* highest revision number (bound)
    MaxTries,       \* attempts of managedFinalizeContract
    MaxHandlers,    \* most action items handled at the same time (bound)
    MaxFaults       \* most disturbances: restarts, reorganisations, and changes that
                    \* arrive while a lock is held or waited for (bound)

ASSUME WindowAssumption ==
    /\ Resubmission \in Nat \ {0} /\ SubmissionBuffer \in Nat /\ SubmissionBuffer >= Resubmission
    /\ \A o \in Obligation : WindowStart[o] \in Nat

VARIABLES
    items,      \* bucketActionItems: height -> ids
    waiting     \* id -> action items of an obligation that wait for its lock

vars == <<db, items, hold, waiting, height, audit, metrics, saved, refs, pool, chain, env, hist>>

Holder(pc, so) == [pc |-> pc, so |-> so, bh |-> height, old |-> so.id, clear |-> FALSE,
                   gained |-> {}, removed |-> {}, tries |-> 0, dirty |-> FALSE]

Put(f, k, v) == [x \in DOMAIN f \cup {k} |-> IF x = k THEN v ELSE f[x]]

\* queueActionItem appends an item, also below the current height, where it is never visited.
queueActionItem(i, hs, o) == [h \in DOMAIN i |-> IF h \in hs THEN i[h] \cup {o} ELSE i[h]]

SameChain == UNCHANGED <<height, audit, saved, chain, waiting>>

requiresProof(so) == ~so.cleared

\* resetFinancialMetrics.  The sum of the fees is the number of their units.
SumFees(d) == Cardinality(UNION {{o} \X (1 .. d[o].fees) : o \in DOMAIN d})
resetFinancialMetrics(d) ==
    LET open == Cardinality({o \in DOMAIN d : d[o].status = "unresolved"})
    IN  [count |-> open, locked |-> open, fees |-> SumFees(d)]

-----------------------------------------------------------------------------
(* The blockchain and the transaction pool, as far as the host sees them.  *)
(* The blockchain is the set of the confirmed transactions of each         *)
(* obligation, and of those in the last block, which is the only one that  *)
(* a change reverts.                                                       *)

InLast(c, kind, o) == \E t \in c.last : t.kind = kind /\ t.id = o
LastNumber(c, o) == Max({0} \cup {t.number : t \in Confirmed(c, "revision", o)})

\* A proof of the last confirmed revision, inside the proof window.
ValidProof(c, o, n, h) ==
    /\ Confirmed(c, "proof", o) = {} /\ Confirmed(c, "origin", o) # {}
    /\ WindowStart[o] < h /\ h <= WindowEnd[o] /\ n = LastNumber(c, o)

\* Transactions a block at height h may contain: the origin set that the host
\* submitted, the revision both parties signed last, and the host's proof.
Minable(c, d, h) ==
    {t \in pool : t.kind = "origin" /\ Confirmed(c, "origin", t.id) = {} /\ h <= WindowStart[t.id]}
    \cup {Tx("revision", o, d[o].number) : o \in {x \in DOMAIN d :
        /\ Confirmed(c, "origin", x) # {} /\ h <= WindowStart[x] /\ d[x].number > LastNumber(c, x)}}
    \cup {t \in pool : t.kind = "proof" /\ ValidProof(c, t.id, t.number, h)}

Block(c, txs) == [all |-> c.all \cup txs, last |-> txs]

-----------------------------------------------------------------------------
(* Resolution.                                                             *)

\* removeStorageObligation: sectors, metrics and status, from the caller's copy.
SettleSuccessOnly(m, so, sos) ==
    [m EXCEPT !.count = @ - 1, !.locked = IF sos = "succeeded" THEN Minus(@, 1) ELSE @]
Settle(m, so, sos) ==
    LET fees == IF sos = "rejected" /\ m.fees >= so.fees THEN m.fees - so.fees ELSE m.fees
        leak == sos = "rejected" /\ m.fees < so.fees
    IN  [m EXCEPT !.count = @ - 1, !.fees = fees,
                  !.locked = IF leak THEN @ ELSE Minus(@, 1)]
Resolved(so, sos) == [so EXCEPT !.status = sos, !.roots = {}]

removeStorageObligation(so, sos) ==
    /\ refs' = Removed(refs, so.roots)
    /\ metrics' = Settle(metrics, so, sos)
    /\ db' = Put(db, so.id, Resolved(so, sos))
    /\ hist' = LET leak == sos = "rejected" /\ metrics.fees < so.fees
               IN  [Stale(so.id) EXCEPT !.uncounted = @ \/ leak]

-----------------------------------------------------------------------------
(* ProcessConsensusChange.  A view is what the database transaction of a   *)
(* change works on.                                                        *)

SetFlags(d, c, value) ==
    [o \in DOMAIN d |->
        [d[o] EXCEPT !.origin = IF InLast(c, "origin", o) THEN value ELSE @,
                     !.proof = IF InLast(c, "proof", o) THEN value ELSE @,
                     !.revision = IF InLast(c, "revision", o) THEN value ELSE @]]

View == [chain |-> chain, db |-> db, height |-> height, todo |-> [o \in Obligation |-> 0]]

RevertBlockOnly(v) ==
    [v EXCEPT !.chain = [all |-> v.chain.all \ v.chain.last, last |-> {}], !.height = @ - 1]
RevertBlock(v) ==
    [v EXCEPT !.db = SetFlags(v.db, v.chain, FALSE),
              !.chain = [all |-> v.chain.all \ v.chain.last, last |-> {}],
              !.height = @ - 1]

\* Confirmations, height, then the items due at the new height.
ApplyBlock(v, txs) ==
    LET c == Block(v.chain, txs)
        h == v.height + 1
    IN  [chain |-> c, height |-> h, db |-> SetFlags(v.db, c, TRUE),
         todo |-> [o \in Obligation |-> v.todo[o] + (IF o \in items[h] THEN 1 ELSE 0)]]

\* Views after a new block, empty or with one of the transactions it may contain.
Mine(v) ==
    {ApplyBlock(v, txs) : txs \in {{}} \cup {{t} : t \in Minable(v.chain, v.db, v.height + 1)}}

\* auditStorageObligations: what is a day past its deadline is resolved, what was
\* not confirmed in time is deleted.
ExpiredAnyStatus(d, h) == {o \in DOMAIN d : h > WindowEnd[o] + BlocksPerDay}
ExpiredUnproven(d, h) ==
    {o \in DOMAIN d : d[o].status = "unresolved" /\ ~d[o].proof /\ h > WindowEnd[o] + BlocksPerDay}
Expired(d, h) == {o \in DOMAIN d : d[o].status = "unresolved" /\ h > WindowEnd[o] + BlocksPerDay}
Unconfirmed(d, c, h) ==
    {o \in DOMAIN d \ Expired(d, h) : h > d[o].negotiated + RespendTimeout /\ Confirmed(c, "origin", o) = {}}

auditStorageObligations(d, c, h) ==
    [o \in DOMAIN d \ Unconfirmed(d, c, h) |->
        IF o \notin Expired(d, h) THEN d[o]
        ELSE Resolved(d[o], IF d[o].roots = {} THEN "succeeded" ELSE "failed")]
AuditedSectors(d, c, h) ==
    LET gone == Expired(d, h) \cup Unconfirmed(d, c, h)
    IN  [s \in Sector |-> Minus(refs[s], Cardinality({o \in gone : s \in d[o].roots}))]

\* Holders of a lock whose record changed, or was counted, under them.
Overtaken(d, due) ==
    [o \in Obligation |->
        IF hold[o].pc = "free" THEN hold[o]
        ELSE [hold[o] EXCEPT !.dirty = @ \/ (o \in DOMAIN d) # (o \in DOMAIN db)
                                         \/ (o \in DOMAIN d /\ d[o] # db[o])
                                         \/ (due /\ hold[o].pc \in Adding)]]

\* Items are never taken off; those that no change can come back to are forgotten here.
Process(v) ==
    LET due == v.height >= audit
        d == IF due THEN auditStorageObligations(v.db, v.chain, v.height) ELSE v.db
        m == IF due THEN resetFinancialMetrics(d) ELSE metrics
    IN  /\ chain' = v.chain /\ height' = v.height /\ db' = d
        /\ waiting' = [o \in Obligation |-> waiting[o] + v.todo[o]]
        /\ audit' = IF due THEN v.height + BlocksPerDay ELSE audit
        /\ refs' = IF due THEN AuditedSectors(v.db, v.chain, v.height) ELSE refs
        /\ metrics' = m /\ saved' = m.fees
        /\ hold' = Overtaken(d, due)
        /\ hist' = IF due THEN [hist EXCEPT !.uncounted = FALSE] ELSE hist
        /\ items' = [h \in DOMAIN items |-> IF h < v.height THEN {} ELSE items[h]]
        /\ UNCHANGED pool

Quiet == \A o \in Obligation : hold[o].pc = "free" /\ waiting[o] = 0
Disturbed == env.faults < MaxFaults /\ env' = [env EXCEPT !.faults = @ + 1]
Undisturbed == Quiet /\ UNCHANGED env

ProcessConsensusChange ==
    \/ height < MaxHeight /\ (Undisturbed \/ (~Quiet /\ Disturbed)) /\ \E v \in Mine(View) : Process(v)
    \/ /\ height \in 1 .. MaxHeight - 1 /\ Disturbed
       /\ \E v \in UNION {Mine(w) : w \in Mine(RevertBlock(View))} : Process(v)

-----------------------------------------------------------------------------
(* Revision.                                                               *)

\* The first half of managedModifyStorageObligation: the buffer, then the sectors gained.
BeginModify(o, so, gained, removed) ==
    /\ SameChain /\ UNCHANGED <<db, items, metrics, pool, env, hist>>
    /\ IF WindowStart[o] - SubmissionBuffer <= height
       THEN hold' = [hold EXCEPT ![o] = Nobody] /\ refs' = refs
       ELSE /\ refs' = Added(refs, gained)
            /\ hold' = [hold EXCEPT ![o] = [@ EXCEPT !.pc = "modify", !.so = so,
                                            !.gained = gained, !.removed = removed]]

\* The second half: the record is replaced, then the sectors removed.  The
\* metrics gain the new amounts and lose the old ones.
EndModify(o) ==
    /\ hold[o].pc = "modify"
    /\ IF o \in DOMAIN db
       THEN /\ db' = [db EXCEPT ![o] = hold[o].so]
            /\ refs' = Removed(refs, hold[o].removed)
            /\ metrics' = [metrics EXCEPT !.fees = Minus(@ + hold[o].so.fees, db[o].fees)]
            /\ hold' = [hold EXCEPT ![o].pc = "session"]
            /\ hist' = Stale(o)
       ELSE /\ refs' = Removed(refs, hold[o].gained)
            /\ hold' = [hold EXCEPT ![o] = Nobody]
            /\ UNCHANGED <<db, metrics, hist>>
    /\ SameChain /\ UNCHANGED <<items, pool, env>>

-----------------------------------------------------------------------------
(* Formation and renewal: managedAddStorageObligation, and the clearing of *)
(* the contract that is renewed.                                           *)

NewObligation(o, roots) ==
    [id |-> o, status |-> "unresolved", roots |-> roots, number |-> 1, cleared |-> FALSE, fees |-> 0,
     negotiated |-> height, origin |-> FALSE, revision |-> FALSE, proof |-> FALSE]

StartAdding(n, old, roots, clear) ==
    /\ n \notin env.formed
    /\ env' = [env EXCEPT !.formed = @ \cup {n}]
    /\ hold' = [hold EXCEPT ![n] = [Holder("put", NewObligation(n, roots)) EXCEPT !.old = old, !.clear = clear]]
    /\ SameChain /\ UNCHANGED <<db, items, metrics, refs, pool, hist>>

GiveUp(n) == hold' = [hold EXCEPT ![n] = Nobody, ![hold[n].old] = Nobody]

\* managedAddStorageObligation, up to the transaction pool.
AddToDatabase(n) ==
    /\ hold[n].pc = "put"
    /\ SameChain /\ UNCHANGED <<items, metrics, pool, env>>
    /\ IF \/ height + SubmissionBuffer >= WindowStart[n]
          \/ WindowStart[n] + Resubmission >= WindowEnd[n]
       THEN /\ GiveUp(n) /\ UNCHANGED <<db, refs>>
            /\ hist' = [hist EXCEPT !.uncounted = @ \/ n \in DOMAIN db]
       ELSE /\ refs' = AddSectors(refs, hold[n])
            /\ db' = Put(db, n, hold[n].so)
            /\ hold' = [hold EXCEPT ![n].pc = "submit"]
            /\ hist' = [Stale(n) EXCEPT !.shared = IF hold[n].clear THEN @ \cup {<<n, hold[n].old>>} ELSE @]

\* The pool takes the origin set, or refuses it: managedFinalizeContract tries
\* again, then fails and leaves the record in the database.
SubmitOrigin(n) ==
    /\ hold[n].pc = "submit"
    /\ SameChain /\ UNCHANGED <<db, items, metrics, refs, env>>
    /\ \/ /\ pool' = pool \cup {Tx("origin", n, 0)}
          /\ hold' = [hold EXCEPT ![n].pc = "count"]
       \/ /\ pool' = pool
          /\ IF hold[n].tries + 1 < MaxTries
             THEN hold' = [hold EXCEPT ![n].pc = "put", ![n].tries = @ + 1]
             ELSE GiveUp(n)
    /\ hist' = [hist EXCEPT !.uncounted = @ \/ (hold'[n].pc = "free")]

CountObligation(n) ==
    /\ hold[n].pc = "count"
    /\ metrics' = [metrics EXCEPT !.count = @ + 1, !.locked = @ + 1]
    /\ items' = queueActionItem(items,
                    {height + Resubmission, height + 2 * Resubmission,
                     WindowStart[n] - SubmissionBuffer, WindowStart[n] - SubmissionBuffer + Resubmission,
                     WindowStart[n] + Resubmission, WindowStart[n] + 2 * Resubmission}, n)
    /\ hold' = [hold EXCEPT ![n] = IF hold[n].clear THEN [@ EXCEPT !.pc = "clear"] ELSE Nobody]
    /\ hist' = [hist EXCEPT !.uncounted = @ \/ hold[n].dirty]
    /\ env' = [env EXCEPT !.agreed = @ \cup {n}]
    /\ SameChain /\ UNCHANGED <<db, refs, pool>>

\* The old obligation is cleared; that managedModifyStorageObligation may refuse is ignored.
Cleared(so) == [so EXCEPT !.roots = {}, !.number = @ + 1, !.cleared = TRUE]
ClearOld(n) ==
    LET o == hold[n].old
        done == o \in DOMAIN db /\ WindowStart[o] - SubmissionBuffer > height
    IN  /\ hold[n].pc = "clear"
        /\ db' = IF done THEN [db EXCEPT ![o] = Cleared(hold[o].so)] ELSE db
        /\ hold' = [hold EXCEPT ![n] = Nobody, ![o].so = Cleared(@)]
        /\ hist' = IF done THEN [Stale(o) EXCEPT !.shared = @ \ {<<n, o>>}] ELSE hist
        /\ SameChain /\ UNCHANGED <<items, metrics, refs, pool, env>>

-----------------------------------------------------------------------------
(* RPCs.  A session keeps the lock, and its copy of the record, from one   *)
(* RPC to the next; an RPC that fails ends it.                             *)

Idle(o) ==
    /\ hold[o].pc = "session"
    /\ {n \in Obligation \ {o} : hold[n].pc # "free" /\ hold[n].old = o} = {}

\* managedRPCLoopLock reads the record once it has the lock.  A renter asks for
\* contracts whose signatures it got, until they expire.
managedRPCLoopLock(o) ==
    /\ o \in env.agreed /\ height < WindowStart[o]
    /\ hold[o].pc = "free" /\ o \in DOMAIN db
    /\ hold' = [hold EXCEPT ![o] = Holder("session", db[o])]
    /\ SameChain /\ UNCHANGED <<db, items, metrics, refs, pool, env, hist>>

managedRPCLoopUnlock(o) ==
    /\ Idle(o)
    /\ hold' = [hold EXCEPT ![o] = Nobody]
    /\ SameChain /\ UNCHANGED <<db, items, metrics, refs, pool, env, hist>>

Revisable(o) == Idle(o) /\ hold[o].so.number < MaxRevision /\ ~hold[o].so.cleared
NextRevision(so) == [so EXCEPT !.number = @ + 1]

\* A revision that adds and removes sectors, or one that only pays.  A payment by
\* contract and the older RPCs lock the obligation themselves, as a session does.
Revise(o, gained, removed) ==
    /\ Revisable(o)
    /\ gained \cap hold[o].so.roots = {} /\ removed \subseteq hold[o].so.roots
    /\ BeginModify(o, [NextRevision(hold[o].so) EXCEPT !.roots = (@ \ removed) \cup gained], gained, removed)

\* Append and trim; update is both, swap neither.
managedRPCLoopWrite(o, gained, removed) == Revise(o, gained, removed)
\* Insert and delete; modify is both.
managedRevisionIteration(o, gained, removed) == Revise(o, gained, removed)
managedRPCLoopRead(o) == Revise(o, {}, {})
managedRPCLoopSectorRoots(o) == Revise(o, {}, {})
managedDownloadIteration(o) == Revise(o, {}, {})
managedPayByContract(o) == Revise(o, {}, {})
managedFundAccount(o) == Revise(o, {}, {})

-----------------------------------------------------------------------------
(* Formation and renewal.                                                  *)

FormContract(n) == n \notin Renewal /\ StartAdding(n, n, {}, FALSE)
RenewContract(o, n) == Idle(o) /\ n # o /\ StartAdding(n, o, hold[o].so.roots, FALSE)
managedRPCLoopFormContract(n) == FormContract(n)
managedRPCFormContract(n) == FormContract(n)
managedRPCLoopRenewContract(o, n) == RenewContract(o, n)
managedRPCRenewContract(o, n) == RenewContract(o, n)
managedRPCLoopRenewAndClearContract(o, n) ==
    Idle(o) /\ n # o /\ ~hold[o].so.cleared /\ StartAdding(n, o, hold[o].so.roots, TRUE)

-----------------------------------------------------------------------------
(* threadedHandleActionItem: everything is decided on the copy and the     *)
(* height it read when it got the lock.                                    *)

ItemUnchanged == UNCHANGED <<height, audit, saved, chain, waiting, env>>
Release(o) == hold' = [hold EXCEPT ![o] = Nobody]
GoTo(o, pc) == hold' = [hold EXCEPT ![o].pc = pc]

\* The first of the stages from the given one on that has something to do.
RevisionDue(o, so, bh) == ~so.revision /\ bh >= WindowStart[o] - SubmissionBuffer
ProofDueAgain(o, so, bh) == bh >= WindowStart[o] + Resubmission
ProofDue(o, so, bh) == ~so.proof /\ bh >= WindowStart[o] + Resubmission
AfterRevision(o, so, bh) == IF ProofDue(o, so, bh) THEN "proof" ELSE "save"
AfterOrigin(o, so, bh) == IF RevisionDue(o, so, bh) THEN "revision" ELSE AfterRevision(o, so, bh)

Skip(o) == ~Unresolved(o)

StartItem(o) ==
    /\ waiting[o] > 0 /\ hold[o].pc = "free"
    /\ Cardinality({x \in Obligation : hold[x].pc \in Handling}) < MaxHandlers
    /\ waiting' = [waiting EXCEPT ![o] = @ - 1]
    /\ hold' = IF Skip(o) THEN hold
               ELSE [hold EXCEPT ![o] = Holder(IF ~db[o].origin THEN "origin" ELSE AfterOrigin(o, db[o], height), db[o])]
    /\ UNCHANGED <<db, items, height, audit, metrics, saved, refs, pool, chain, env, hist>>

\* The pool answers ErrDuplicateTransactionSet for a set that is confirmed; another
\* error does not matter unless it is a consensus conflict.
CheckOrigin(o) ==
    LET h == hold[o]
    IN  /\ h.pc = "origin"
        /\ ItemUnchanged
        /\ \/ /\ items' = queueActionItem(items, {height + Resubmission}, o)
              /\ pool' \in {pool, IF Confirmed(chain, "origin", o) = {} THEN pool \cup {Tx("origin", o, 0)} ELSE pool}
              /\ GoTo(o, AfterOrigin(o, h.so, h.bh)) /\ UNCHANGED <<db, metrics, refs, hist>>
           \/ /\ Confirmed(chain, "origin", o) = {}
              /\ removeStorageObligation(h.so, "rejected")
              /\ pool' = pool \ {Tx("origin", o, 0)}
              /\ Release(o) /\ UNCHANGED items

\* The fee counts even when the revision could not be submitted.
CheckRevision(o) ==
    LET h == hold[o]
    IN  /\ h.pc = "revision"
        /\ ItemUnchanged /\ UNCHANGED pool
        /\ \/ /\ h.bh > WindowStart[o]
              /\ removeStorageObligation(h.so, "rejected")
              /\ Release(o) /\ UNCHANGED items
           \/ /\ h.bh <= WindowStart[o]
              /\ items' = queueActionItem(items, {h.bh + Resubmission}, o)
              /\ \/ Release(o)
                 \/ hold' = [hold EXCEPT ![o].pc = AfterRevision(o, h.so, h.bh), ![o].so.fees = @ + 1]
              /\ UNCHANGED <<db, metrics, refs, hist>>

\* The proof can be built and the pool takes it.
PoolTakesProof(so) ==
    ValidProof(chain, so.id, so.number, height + 1) /\ \A s \in so.roots : refs[s] > 0

CheckProof(o) ==
    LET h == hold[o]
    IN  /\ h.pc = "proof"
        /\ ItemUnchanged
        /\ \/ /\ ~requiresProof(h.so)
              /\ removeStorageObligation(h.so, "succeeded")
              /\ Release(o) /\ UNCHANGED <<items, pool>>
           \/ /\ requiresProof(h.so) /\ WindowEnd[o] < h.bh
              /\ removeStorageObligation(h.so, "failed")
              /\ Release(o) /\ UNCHANGED <<items, pool>>
           \/ /\ requiresProof(h.so) /\ WindowEnd[o] >= h.bh
              /\ \/ Release(o) /\ UNCHANGED <<items, pool>>
                 \/ /\ PoolTakesProof(h.so)
                    /\ pool' = pool \cup {Tx("proof", o, h.so.number)}
                    /\ items' = queueActionItem(items, {WindowEnd[o]}, o)
                    /\ hold' = [hold EXCEPT ![o].pc = "save", ![o].so.fees = @ + 1]
              /\ UNCHANGED <<db, metrics, refs, hist>>

\* The copy is saved without the lock of the host.
SaveItem(o) ==
    /\ hold[o].pc = "save"
    /\ db' = Put(db, o, hold[o].so)
    /\ hist' = Stale(o)
    /\ IF hold[o].so.proof /\ hold[o].bh >= WindowEnd[o] THEN GoTo(o, "finish") ELSE Release(o)
    /\ ItemUnchanged /\ UNCHANGED <<items, metrics, refs, pool>>

FinishItem(o) ==
    /\ hold[o].pc = "finish"
    /\ removeStorageObligation(hold[o].so, "succeeded")
    /\ Release(o)
    /\ ItemUnchanged /\ UNCHANGED <<items, pool>>

-----------------------------------------------------------------------------
(* An unclean shutdown, and the restart.                                   *)

Restart ==
    /\ Disturbed
    /\ hold' = [o \in Obligation |-> Nobody]
    /\ waiting' = [o \in Obligation |-> 0]
    /\ audit' = height
    /\ metrics' = [resetFinancialMetrics(db) EXCEPT !.fees = saved]
    /\ hist' = [hist EXCEPT !.lost = @ \cup {o \in Obligation : waiting[o] > 0 \/ hold[o].pc \in Handling},
                            !.uncounted = FALSE]
    /\ UNCHANGED <<db, items, height, saved, refs, pool, chain>>

-----------------------------------------------------------------------------
Init ==
    /\ db = [o \in {} |-> 0]
    /\ items = [h \in 0 .. MaxHeight |-> {}]
    /\ hold = [o \in Obligation |-> Nobody]
    /\ waiting = [o \in Obligation |-> 0]
    /\ height = 0 /\ audit = 0 /\ saved = 0
    /\ metrics = [count |-> 0, locked |-> 0, fees |-> 0]
    /\ refs = [s \in Sector |-> 0]
    /\ pool = {}
    /\ chain = [all |-> {}, last |-> {}]
    /\ env = [formed |-> {}, agreed |-> {}, faults |-> 0]
    /\ hist = [stale |-> {}, shared |-> {}, lost |-> {}, uncounted |-> FALSE]

Rpc(o) ==
    \/ managedRPCLoopLock(o) \/ managedRPCLoopUnlock(o) \/ EndModify(o)
    \/ \E s \in Sector, added \in BOOLEAN :
          LET gained == IF added THEN {s} ELSE {}
              removed == {s} \ gained
          IN  managedRPCLoopWrite(o, gained, removed) \/ managedRevisionIteration(o, gained, removed)
    \/ managedRPCLoopRead(o) \/ managedRPCLoopSectorRoots(o) \/ managedDownloadIteration(o)
    \/ managedPayByContract(o) \/ managedFundAccount(o)
    \/ managedRPCLoopFormContract(o) \/ managedRPCFormContract(o)
    \/ \E n \in Obligation :
          \/ managedRPCLoopRenewContract(o, n) \/ managedRPCRenewContract(o, n)
          \/ managedRPCLoopRenewAndClearContract(o, n)
    \/ AddToDatabase(o) \/ SubmitOrigin(o) \/ CountObligation(o) \/ ClearOld(o)

threadedHandleActionItem(o) ==
    \/ StartItem(o) \/ CheckOrigin(o) \/ CheckRevision(o) \/ CheckProof(o) \/ SaveItem(o) \/ FinishItem(o)

Next ==
    \/ ProcessConsensusChange
    \/ \E o \in Obligation : Rpc(o) \/ threadedHandleActionItem(o)
    \/ Restart

Spec == Init /\ [][Next]_vars

-----------------------------------------------------------------------------
\* Type invariant.
TypeOK ==
    /\ DOMAIN db \subseteq Obligation /\ height \in 0 .. MaxHeight
    /\ \A o \in DOMAIN db :
          /\ db[o].id = o /\ db[o].status \in {"unresolved", "rejected", "succeeded", "failed"}
          /\ db[o].roots \subseteq Sector /\ db[o].fees \in Nat
    /\ \A s \in Sector : refs[s] \in Nat
    /\ metrics.locked \in Nat /\ metrics.fees \in Nat

Holders(s) == {o \in DOMAIN db : Unresolved(o) /\ s \in db[o].roots}

\* The host keeps a virtual sector for every open obligation that lists a sector,
\* through writes, renewals, audits, action items and restarts: no data of an open
\* contract is dropped.  Two things break it, and are excluded: a record written
\* from an outdated copy, and a renewal that shares its sectors with a contract it
\* has not cleared (the pool refused the renewal).
SectorsHeld ==
    hist.shared = {} /\ hist.stale = {} => \A s \in Sector : refs[s] >= Cardinality(Holders(s))

\* ContractCount and LockedStorageCollateral are those of the open obligations,
\* whatever order additions, resolutions, audits and restarts come in; unless, since
\* the last audit, the pool refused, or the height overtook, a contract that stays in the database, a
\* rejection skipped the metrics because of fees, or an audit counted a contract
\* that was being added.
MetricsExact ==
    (/\ hist.stale = {} /\ ~hist.uncounted
     /\ \A o \in DOMAIN db : hold[o].pc \notin Adding)
        => metrics.count = Cardinality(Open) /\ metrics.locked = Cardinality(Open)

Truthful(o) ==
    /\ db'[o].status = "failed" => Confirmed(chain, "proof", o) = {}
    /\ db'[o].status = "succeeded" => Confirmed(chain, "proof", o) # {} \/ db[o].cleared \/ db[o].roots = {}
    /\ db'[o].status = "rejected" => db[o].number # LastNumber(chain, o)
\* The audit finds an obligation whose action items have not had their turn.
Behind(o) == height' # height /\ (waiting[o] > 0 \/ hold[o].pc \in Handling)
\* An obligation is resolved as what happened to it: as failed only when no proof is
\* in the blockchain, as succeeded with a proof or when none is needed, as rejected
\* only when its last revision is not in the blockchain.  Excluded: outdated copies,
\* action items lost in a shutdown, and an audit that overtakes the action items.
TruthfulResolution ==
    \A o \in DOMAIN db \cap DOMAIN db' :
        (/\ db[o].status = "unresolved" /\ db'[o].status # "unresolved"
         /\ o \notin hist'.stale \cup hist'.lost /\ ~Behind(o))
            => Truthful(o)

\* A resolved obligation is never resolved again or reopened, so that its metrics and
\* sectors are settled once; unless it is written from an outdated copy.
ResolvedForGood ==
    \A o \in DOMAIN db \cap DOMAIN db' :
        db[o].status # "unresolved" => db'[o].status = db[o].status \/ o \in hist'.stale

\* No obligation stays open for more than two days after its proof deadline: the
\* daily audit closes what the action items left, shutdowns included.
SettledInTime ==
    \A o \in Open \ hist.stale : height < WindowEnd[o] + 2 * BlocksPerDay

\* The record of an obligation agrees with the blockchain while it is open, and
\* is not left open past its time.
RecordsSound == TypeOK /\ FlagsFollowChain /\ SettledInTime

\* removeStorageObligation resolves an obligation once, and as what happened to
\* it.
ResolvedOnce == [][TruthfulResolution /\ ResolvedForGood]_vars
=============================================================================
