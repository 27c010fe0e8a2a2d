------------------------- MODULE ObligationInvariant ------------------------
(***************************************************************************)
(* The inductive invariant of the host's storage obligations, and the steps *)
(* of RPCs and action items as far as the invariant tells them apart: what *)
(* StorageObligationsProofs and the modules it rests on reason about.      *)
(***************************************************************************)
EXTENDS ObligationRecords

-----------------------------------------------------------------------------
(* The inductive invariant.                                                *)

Statuses == {"unresolved", "rejected", "succeeded", "failed"}
Fields == {"id", "status", "roots", "number", "cleared", "fees", "negotiated",
           "origin", "revision", "proof"}
HolderFields == {"pc", "so", "bh", "old", "clear", "gained", "removed", "tries", "dirty"}
Creating == Adding \cup {"clear"}
Pcs == {"session", "modify"} \cup Creating \cup Handling

RecordOK(r, o) ==
    /\ Fields \subseteq DOMAIN r /\ r.id = o /\ r.status \in Statuses
    /\ r.roots \subseteq Sector /\ r.fees \in Nat

Typed ==
    /\ DOMAIN db \subseteq Obligation /\ \A o \in DOMAIN db : RecordOK(db[o], o)
    /\ height \in 0 .. MaxHeight
    /\ DOMAIN refs = Sector /\ \A s \in Sector : refs[s] \in Nat
    /\ DOMAIN metrics = {"count", "locked", "fees"}
    /\ metrics.count \in Int /\ metrics.locked \in Nat /\ metrics.fees \in Nat /\ saved \in Nat
    /\ DOMAIN hist = {"stale", "shared", "lost", "uncounted"}
    /\ DOMAIN env = {"formed", "agreed", "faults"}

HolderOK(h, o) ==
    /\ h.pc \in Pcs /\ HolderFields \subseteq DOMAIN h /\ RecordOK(h.so, o)
    /\ h.old \in Obligation /\ h.gained \subseteq Sector /\ h.removed \subseteq Sector /\ h.tries \in Nat

HoldTyped ==
    /\ DOMAIN hold = Obligation
    /\ \A o \in Obligation : "pc" \in DOMAIN hold[o] /\ (hold[o].pc # "free" => HolderOK(hold[o], o))

\* Whatever has a trace anywhere was formed.
Formed ==
    /\ DOMAIN db \subseteq env.formed
    /\ \A t \in chain.all \cup pool : t.id \in env.formed
    /\ \A n, o \in Obligation : <<n, o>> \in hist.shared => n \in env.formed
    /\ \A o \in Obligation : hold[o].pc # "free" => o \in env.formed

\* A renewal in progress has the session of the old contract to itself.
Renewals ==
    \A n \in Obligation : hold[n].pc \in Creating =>
        /\ hold[n].old # n =>
            /\ hold[hold[n].old].pc = "session"
            /\ \A m \in Obligation : hold[m].pc \in Creating /\ hold[m].old = hold[n].old => m = n
        /\ hold[n].pc = "clear" => hold[n].clear
        /\ hold[n].clear => hold[n].old # n
        /\ hold[n].clear /\ hold[n].pc # "clear" =>
            hold[n].so.roots = hold[hold[n].old].so.roots /\ ~hold[hold[n].old].so.cleared

\* A contract that is being added is new to everybody.
Fresh ==
    \A n \in Obligation :
        /\ hold[n].pc \in {"put", "submit"} => \A t \in chain.all \cup pool : t.id # n
        /\ hold[n].pc = "put" /\ hold[n].tries = 0 => 
            n \notin DOMAIN db /\ \A o \in Obligation : <<n, o>> \notin hist.shared
        /\ hold[n].pc \in Adding => ~hold[n].so.origin /\ ~hold[n].so.proof /\ ~hold[n].so.revision
        /\ hold[n].pc \in Adding => hold[n].so.status = "unresolved"

SameRecord(h, o) ==
    /\ o \in DOMAIN db /\ h.so.status = db[o].status
    /\ h.so.origin = db[o].origin /\ h.so.proof = db[o].proof /\ h.so.revision = db[o].revision

\* A copy that no consensus change has overtaken is the record, but for what its
\* holder has changed.
CopyOK(h, o) ==
    /\ h.pc # "clear" /\ (h.pc = "put" => h.tries # 0) => SameRecord(h, o)
    /\ h.pc = "session" => h.so.cleared \/ h.so.roots = db[o].roots
    /\ h.pc = "modify" =>
        /\ h.gained \cap db[o].roots = {} /\ h.removed \subseteq db[o].roots
        /\ h.so.roots = (db[o].roots \ h.removed) \cup h.gained
    /\ h.pc \in Handling => h.so.status = "unresolved"
    /\ h.pc \in {"submit", "count"} \cup Handling => h.so.roots = db[o].roots
    /\ h.pc = "put" /\ h.tries # 0 => h.so.roots = db[o].roots
Copies == \A o \in Obligation : hold[o].pc # "free" /\ ~hold[o].dirty => CopyOK(hold[o], o)

\* Of a contract, one origin and one proof are in the blockchain.
Chains ==
    /\ chain.last \subseteq chain.all
    /\ \A t \in chain.all \cup pool : t.kind = "origin" => t = Tx("origin", t.id, 0)
    /\ \A t, u \in chain.all : t.kind = "proof" /\ u.kind = "proof" /\ t.id = u.id => t = u

\* The next audit comes in time for every open contract.
Times ==
    /\ audit \in Int /\ height <= audit /\ audit <= height + BlocksPerDay
    /\ \A o \in Open \ hist.stale :
        audit <= WindowEnd[o] + 2 * BlocksPerDay /\ height < WindowEnd[o] + 2 * BlocksPerDay

Counted == {o \in Open : hold[o].pc \notin Adding}
Undamaged ==
    /\ hist.stale = {} /\ ~hist.uncounted
    /\ \A o \in DOMAIN db : hold[o].pc \in Adding => ~hold[o].dirty
Metrics == Undamaged => metrics.count = Cardinality(Counted) /\ metrics.locked = Cardinality(Counted)

\* A renewal that clears the old contract shares its sectors until it has done so.
InProgress(n, o) == hold[n].pc \in Creating /\ hold[n].clear /\ hold[n].old = o /\ ~hold[o].dirty
Lists(o, s) == o \in DOMAIN db /\ s \in db[o].roots /\ \A n \in Obligation : <<n, o>> \notin hist.shared
Listing(s) == {o \in Obligation : Lists(o, s)}
Gaining(s) == {o \in Obligation : hold[o].pc = "modify" /\ s \in hold[o].gained}
Settling == hist.stale = {} /\ \A n, o \in Obligation : <<n, o>> \in hist.shared => InProgress(n, o)
Sectors == Settling => \A s \in Sector : refs[s] >= Cardinality(Listing(s)) + Cardinality(Gaining(s))

Structure == Typed /\ HoldTyped /\ Formed /\ Renewals /\ Fresh /\ Copies /\ Chains
Records == FlagsFollowChain /\ Times
IndInv == Structure /\ Records /\ Metrics /\ Sectors

-----------------------------------------------------------------------------
(* The steps of one contract, by what they do to the state.                *)

SameData == UNCHANGED <<db, metrics, refs, pool, env, hist>>
SameBlock == UNCHANGED <<height, audit, saved, chain>>
OnlyHold == SameData /\ UNCHANGED <<height, audit, saved, chain>>
Others(S) == DOMAIN hold' = Obligation /\ \A x \in Obligation \ S : hold'[x] = hold[x]
OthersKept(o) == \A x \in DOMAIN db \ {o} : db'[x] = db[x]
PoolOf(o) == \A t \in pool' : t \in pool \/ (t.id = o /\ (t.kind = "origin" => t = Tx("origin", o, 0)))

\* No renewal in progress uses the session of this contract.
Unshared(o) == \A n \in Obligation : n # o /\ hold[n].pc \in Creating => hold[n].old # o

\* A session or an action item takes the lock and reads the record.
Opens(o, p) ==
    /\ p \in {"session"} \cup Handling /\ hold[o].pc = "free" /\ o \in DOMAIN db
    /\ p \in Handling => db[o].status = "unresolved"
    /\ Others({o}) /\ HolderOK(hold'[o], o) /\ hold'[o].pc = p /\ hold'[o].so = db[o]
    /\ ~hold'[o].clear /\ ~hold'[o].dirty /\ hold'[o].gained = {} /\ hold'[o].old = o
    /\ SameBlock /\ SameData

\* The lock is released.
Releases(o) ==
    /\ hold[o].pc \in {"session"} \cup Handling /\ Unshared(o)
    /\ Others({o}) /\ hold'[o] = Nobody /\ SameBlock /\ SameData

\* An action item goes on to its next stage.
Continued(h, g) ==
    /\ g.pc \in Handling /\ HolderFields \subseteq DOMAIN g /\ Fields \subseteq DOMAIN g.so /\ g.so.fees \in Nat
    /\ g.so.id = h.so.id /\ g.so.status = h.so.status /\ g.so.roots = h.so.roots
    /\ g.so.origin = h.so.origin /\ g.so.revision = h.so.revision /\ g.so.proof = h.so.proof
    /\ g.old = h.old /\ g.gained = h.gained /\ g.removed = h.removed /\ g.tries = h.tries /\ g.dirty = h.dirty
Continues(o) ==
    /\ hold[o].pc \in Handling /\ Continued(hold[o], hold'[o]) /\ Others({o})
    /\ SameBlock /\ PoolOf(o) /\ UNCHANGED <<db, metrics, refs, env, hist>>

\* An RPC revises its copy and adds sectors.
Modified(h, g, gained, removed) ==
    /\ g.pc = "modify" /\ HolderFields \subseteq DOMAIN g /\ Fields \subseteq DOMAIN g.so
    /\ g.so.id = h.so.id /\ g.so.status = h.so.status /\ g.so.fees = h.so.fees
    /\ g.so.roots = (h.so.roots \ removed) \cup gained
    /\ g.so.origin = h.so.origin /\ g.so.revision = h.so.revision /\ g.so.proof = h.so.proof
    /\ g.old = h.old /\ g.gained = gained /\ g.removed = removed /\ g.tries = h.tries /\ g.dirty = h.dirty
ModifiesBy(o, gained, removed) ==
    /\ hold[o].pc = "session" /\ Unshared(o) /\ ~hold[o].so.cleared
    /\ gained \cap hold[o].so.roots = {} /\ removed \subseteq hold[o].so.roots
    /\ Modified(hold[o], hold'[o], gained, removed) /\ Others({o})
    /\ refs' = Added(refs, gained)
    /\ SameBlock /\ UNCHANGED <<db, metrics, pool, env, hist>>
Modifies(o) == \E gained, removed \in SUBSET Sector : ModifiesBy(o, gained, removed)

\* A modification ends: the record is the copy, or the obligation is gone.
SavesRevision(o) ==
    /\ o \in DOMAIN db /\ DOMAIN db' = DOMAIN db /\ db'[o] = hold[o].so /\ OthersKept(o)
    /\ refs' = Removed(refs, hold[o].removed) /\ hist' = Stale(o)
    /\ DOMAIN metrics' = DOMAIN metrics /\ metrics'.count = metrics.count
    /\ metrics'.locked = metrics.locked /\ metrics'.fees \in Nat
    /\ HolderOK(hold'[o], o) /\ hold'[o].pc = "session" /\ hold'[o].so = hold[o].so
    /\ hold'[o].dirty = hold[o].dirty
DropsRevision(o) ==
    /\ o \notin DOMAIN db /\ refs' = Removed(refs, hold[o].gained) /\ hold'[o] = Nobody
    /\ UNCHANGED <<db, metrics, hist>>
EndsModifying(o) ==
    /\ hold[o].pc = "modify" /\ HolderOK(hold[o], o) /\ Others({o}) /\ SameBlock /\ UNCHANGED <<pool, env>>
    /\ SavesRevision(o) \/ DropsRevision(o)

\* A contract is formed or renewed, from what is not in use yet.
Started(n, old, roots, clear) ==
    /\ n \notin env.formed /\ hold'[n].pc = "put" /\ HolderOK(hold'[n], n)
    /\ hold'[n].old = old /\ (hold'[n].clear <=> clear) /\ hold'[n].tries = 0 /\ ~hold'[n].dirty
    /\ hold'[n].so.roots = roots /\ hold'[n].so.status = "unresolved"
    /\ ~hold'[n].so.origin /\ ~hold'[n].so.proof /\ ~hold'[n].so.revision
    /\ clear => old # n /\ ~hold[old].so.cleared
    /\ old # n => hold[old].pc = "session" /\ Unshared(old) /\ roots = hold[old].so.roots
Starts(n) ==
    /\ Others({n}) /\ hold[n].pc = "free"
    /\ \E old \in Obligation, roots \in SUBSET Sector, clear \in BOOLEAN : Started(n, old, roots, clear)
    /\ DOMAIN env' = DOMAIN env /\ env'.formed = env.formed \cup {n}
    /\ SameBlock /\ UNCHANGED <<db, metrics, refs, pool, hist>>

\* The contract is put into the database.
Adds(n) ==
    /\ hold[n].pc = "put" /\ HolderOK(hold[n], n) /\ Others({n}) /\ SameBlock /\ UNCHANGED <<metrics, pool, env>>
    /\ height < WindowEnd[n]
    /\ DOMAIN db' = DOMAIN db \cup {n} /\ db'[n] = hold[n].so /\ OthersKept(n)
    /\ refs' = AddSectors(refs, hold[n])
    /\ HolderOK(hold'[n], n) /\ hold'[n].pc = "submit" /\ hold'[n].so = hold[n].so
    /\ hold'[n].old = hold[n].old /\ hold'[n].clear = hold[n].clear /\ hold'[n].dirty = hold[n].dirty
    /\ DOMAIN hist' = DOMAIN hist /\ hist'.stale = Stale(n).stale /\ hist'.uncounted = hist.uncounted
    /\ hist'.shared = IF hold[n].clear THEN hist.shared \cup {<<n, hold[n].old>>} ELSE hist.shared

\* The addition fails, and with it the session of the old contract.
Abandons(n) ==
    /\ hold[n].pc \in {"put", "submit"}
    /\ HolderOK(hold[n], n) /\ hold[n].old \in Obligation /\ Others({n, hold[n].old})
    /\ hold'[n] = Nobody /\ hold'[hold[n].old] = Nobody
    /\ DOMAIN hist' = DOMAIN hist /\ hist'.stale = hist.stale /\ hist'.shared = hist.shared
    /\ hist.uncounted => hist'.uncounted
    /\ n \in DOMAIN db => hist'.uncounted
    /\ SameBlock /\ UNCHANGED <<db, metrics, refs, pool, env>>

\* The pool takes the origin, or refuses it once more.
Submits(n) ==
    /\ hold[n].pc = "submit" /\ HolderOK(hold[n], n) /\ Others({n})
    /\ SameBlock /\ UNCHANGED <<db, metrics, refs, env>>
    /\ DOMAIN hist' = DOMAIN hist /\ hist'.stale = hist.stale /\ hist'.shared = hist.shared
    /\ hist'.uncounted <=> hist.uncounted
    /\ HolderOK(hold'[n], n) /\ hold'[n].so = hold[n].so /\ hold'[n].old = hold[n].old
    /\ hold'[n].clear = hold[n].clear /\ hold'[n].dirty = hold[n].dirty
    /\ \/ pool' = pool \cup {Tx("origin", n, 0)} /\ hold'[n].pc = "count"
       \/ pool' = pool /\ hold'[n].pc = "put" /\ hold'[n].tries # 0

\* The contract is counted; a renewal goes on to clear the old contract.
Counts(n) ==
    /\ hold[n].pc = "count" /\ HolderOK(hold[n], n) /\ Others({n}) /\ SameBlock /\ UNCHANGED <<db, refs, pool>>
    /\ DOMAIN env' = DOMAIN env /\ env'.formed = env.formed
    /\ DOMAIN metrics' = DOMAIN metrics /\ metrics'.count = metrics.count + 1
    /\ metrics'.locked = metrics.locked + 1 /\ metrics'.fees = metrics.fees
    /\ DOMAIN hist' = DOMAIN hist /\ hist'.stale = hist.stale /\ hist'.shared = hist.shared
    /\ hist.uncounted \/ hold[n].dirty => hist'.uncounted
    /\ \/ ~hold[n].clear /\ hold'[n] = Nobody
       \/ /\ hold[n].clear /\ HolderOK(hold'[n], n) /\ hold'[n].pc = "clear" /\ hold'[n].old = hold[n].old
          /\ hold'[n].clear = hold[n].clear

\* The old contract is cleared, in the session and perhaps in the database.
ClearedCopy(r, q) ==
    /\ r.roots = {} /\ r.cleared /\ r.status = q.status
    /\ r.origin = q.origin /\ r.proof = q.proof /\ r.revision = q.revision
ClearedInDatabase(n, o) ==
    /\ o \in DOMAIN db /\ DOMAIN db' = DOMAIN db /\ db'[o] = hold'[o].so /\ OthersKept(o)
    /\ DOMAIN hist' = DOMAIN hist /\ hist'.stale = Stale(o).stale
    /\ hist'.uncounted = hist.uncounted /\ hist'.shared = hist.shared \ {<<n, o>>}
ClearsOf(n, o) ==
    /\ hold[n].pc = "clear" /\ hold[n].clear /\ o = hold[n].old /\ o # n
    /\ hold[o].pc = "session" /\ HolderOK(hold[o], o)
    /\ Others({n, o}) /\ hold'[n] = Nobody
    /\ HolderOK(hold'[o], o) /\ hold'[o].pc = "session" /\ ClearedCopy(hold'[o].so, hold[o].so)
    /\ hold'[o].dirty = hold[o].dirty /\ SameBlock /\ UNCHANGED <<metrics, refs, pool, env>>
    /\ ClearedInDatabase(n, o) \/ UNCHANGED <<db, hist>>
Clears(n) == \E o \in Obligation : ClearsOf(n, o)

\* An action item resolves the contract.
Resolves(o) ==
    /\ hold[o].pc \in Handling /\ HolderOK(hold[o], o) /\ Others({o}) /\ hold'[o] = Nobody
    /\ SameBlock /\ env' = env /\ pool' \subseteq pool
    /\ DOMAIN db' = DOMAIN db \cup {o} /\ OthersKept(o)
    /\ RecordOK(db'[o], o) /\ db'[o].status # "unresolved" /\ db'[o].roots = {}
    /\ db'[o].origin = hold[o].so.origin /\ db'[o].proof = hold[o].so.proof
    /\ db'[o].revision = hold[o].so.revision
    /\ refs' = Removed(refs, hold[o].so.roots)
    /\ DOMAIN metrics' = {"count", "locked", "fees"} /\ metrics'.count = metrics.count - 1
    /\ metrics'.locked \in Nat /\ metrics'.fees \in Nat
    /\ DOMAIN hist' = DOMAIN hist /\ hist'.stale = Stale(o).stale /\ hist'.shared = hist.shared
    /\ hist.uncounted => hist'.uncounted
    /\ ~hist'.uncounted => metrics'.locked = Minus(metrics.locked, 1)

\* An action item saves its copy.
Saves(o) ==
    /\ hold[o].pc = "save" /\ HolderOK(hold[o], o) /\ Others({o}) /\ SameBlock
    /\ UNCHANGED <<metrics, refs, pool, env>> /\ hist' = Stale(o)
    /\ DOMAIN db' = DOMAIN db \cup {o} /\ db'[o] = hold[o].so /\ OthersKept(o)
    /\ \/ hold'[o] = Nobody
       \/ /\ HolderOK(hold'[o], o) /\ hold'[o].pc = "finish" /\ hold'[o].so = hold[o].so
          /\ hold'[o].dirty = hold[o].dirty

Quiescent == hold' = hold /\ OnlyHold

Step(o) ==
    \/ (\E p \in {"session"} \cup Handling : Opens(o, p)) \/ Releases(o) \/ Continues(o)
    \/ Modifies(o) \/ EndsModifying(o) \/ Starts(o) \/ Adds(o) \/ Abandons(o) \/ Submits(o)
    \/ Counts(o) \/ Clears(o) \/ Resolves(o) \/ Saves(o) \/ Quiescent

-----------------------------------------------------------------------------
(* The parts of the invariant for one contract or one sector.             *)

FreshAt(n) ==
    /\ hold[n].pc \in {"put", "submit"} => \A t \in chain.all \cup pool : t.id # n
    /\ hold[n].pc = "put" /\ hold[n].tries = 0 =>
        n \notin DOMAIN db /\ \A o \in Obligation : <<n, o>> \notin hist.shared
    /\ hold[n].pc \in Adding => ~hold[n].so.origin /\ ~hold[n].so.proof /\ ~hold[n].so.revision
    /\ hold[n].pc \in Adding => hold[n].so.status = "unresolved"

RenewalAt(n) ==
    /\ hold[n].old # n =>
        /\ hold[hold[n].old].pc = "session"
        /\ \A m \in Obligation : hold[m].pc \in Creating /\ hold[m].old = hold[n].old => m = n
    /\ hold[n].pc = "clear" => hold[n].clear
    /\ hold[n].clear => hold[n].old # n
    /\ hold[n].clear /\ hold[n].pc # "clear" =>
        hold[n].so.roots = hold[hold[n].old].so.roots /\ ~hold[hold[n].old].so.cleared

Held(s) == refs[s] >= Cardinality(Listing(s)) + Cardinality(Gaining(s))

NoMoreGains(s) ==
    \A x \in Obligation : hold'[x].pc = "modify" /\ s \in hold'[x].gained =>
                          hold[x].pc = "modify" /\ s \in hold[x].gained

=============================================================================
