---------------------------- MODULE RenterContract ----------------------------
(***************************************************************************)
(* One file contract as its renter keeps it: the SafeContract of           *)
(* modules/renter/proto (header, sector roots, reference counter,          *)
(* write-ahead log), the operations that revise it (Session.write,         *)
(* Session.Read, Contractor.ProvidePayment, RenewAndClear), the resync with *)
(* the host at the start of a session, and the reload after a power        *)
(* failure; together with the host's checks of each revision.              *)
(*                                                                         *)
(* Every renter operation runs under revisionMu, so the renter is one      *)
(* sequential process (op).  What interleaves with it is the host, which   *)
(* may commit a revision whose answer never arrives or answer a payment    *)
(* long after the renter gave up, and power failures between any two       *)
(* writes.                                                                 *)
(*                                                                         *)
(* A revision is [num, size, root, paid, void]: its number, the sectors of *)
(* the file, its Merkle root (numbered by the write that produced it, 0    *)
(* the empty file's), the money moved from the renter's valid output to    *)
(* the host's, and the missed void output (NoVoid once the contract is     *)
(* cleared: a cleared revision has two missed outputs).  The remaining     *)
(* outputs are determined by these.                                        *)
(***************************************************************************)
EXTENDS Integers, Sequences, FiniteSets, SequencesExt

CONSTANTS
    Funds,       \* the renter's initial payout
    Collateral,  \* the host's initial missed payout
    MaxNum,      \* the largest revision number (math.MaxUint64)
    Price,       \* what the host charges: [append, replace, read, clear]
    Amounts,     \* the payments ProvidePayment is asked for
    Budgets      \* bounds: [ops, losses, crashes, marks, faults]

ASSUME RenterContractAssumption ==
    /\ Funds \in Nat /\ Collateral \in Nat /\ MaxNum \in Nat \ {0}
    /\ Price \in [{"append", "replace", "read", "clear"} -> Nat]
    /\ Amounts \subseteq Nat
    /\ Budgets \subseteq [ops: Nat, losses: Nat, crashes: Nat, marks: Nat, faults: Nat]

VARIABLES
    mem,    \* the SafeContract in memory
    disk,   \* its files and the write-ahead log
    host,   \* the host's storage obligation: revision, earlier one, writes
    op,     \* the operation that holds revisionMu
    conn,   \* the session with the host: "none", "open" or "broken"
    late,   \* a payment the host has received and not yet looked at
    left,   \* what is left of the bounds
    hist    \* history the properties speak about

vars == <<mem, disk, host, op, conn, late, left, hist>>

NoVoid == -1
NoRev  == [num |-> -1, size |-> 0, root |-> 0, paid |-> 0, void |-> 0]
NoRequest == [rev |-> NoRev, cost |-> 0]
NoTxn  == [id |-> 0]
Idle   == [kind |-> "idle"]

Utilities == {"good", "noupload", "bad", "locked"}

---------------------------------------------------------------------------
(* Revisions *)

\* The number after n: a uint64 that wraps.
NextNum(n) == (n + 1) % (MaxNum + 1)

MutCanPay(rev, amount) == rev.void # NoVoid

\* PaymentRevision moves the amount to the host and, for a missed proof, to
\* the void; it needs the renter's funds and the void output.
CanPay(rev, amount) == rev.paid + amount <= Funds /\ rev.void # NoVoid

PaymentRevision(rev, amount) ==
    [rev EXCEPT !.num = NextNum(@), !.paid = @ + amount, !.void = @ + amount]

\* EAFundRevision moves the amount to the host in both cases.
EAFundRevision(rev, amount) == [rev EXCEPT !.num = NextNum(@), !.paid = @ + amount]

MissedHostOutput(rev) == Collateral + rev.paid - rev.void

\* A new sector puts up the host's collateral, or what remains of it.
NewCollateral(rev) == IF MissedHostOutput(rev) < 1 THEN MissedHostOutput(rev) ELSE 1

MutWriteRevision(rev, trim) ==
    IF trim THEN PaymentRevision(rev, Price.append)
    ELSE [PaymentRevision(rev, Price.append) EXCEPT
             !.void = @ + NewCollateral(rev), !.size = @ + 1]

\* The revision of Session.write; the Merkle root follows with the host's proof.
WriteRevision(rev, trim) ==
    IF trim THEN PaymentRevision(rev, Price.replace)
    ELSE [PaymentRevision(rev, Price.append) EXCEPT
             !.void = @ + NewCollateral(rev), !.size = @ + 1]

\* prepareFinalRevision: the largest number, no data, missed outputs as valid.
FinalRevision(rev) ==
    [PaymentRevision(rev, Price.clear) EXCEPT
        !.num = MaxNum, !.size = 0, !.root = 0, !.void = NoVoid]

---------------------------------------------------------------------------
(* The host's checks.  It builds the new revision from its own and from the  *)
(* number and the payouts of the request; the renter's signature covers it   *)
(* only if it is the renter's revision.                                      *)

\* managedRPCLoopWrite, without the new Merkle root.
WriteProposal(cur, rev, trim) ==
    [cur EXCEPT !.num = rev.num, !.paid = rev.paid, !.void = rev.void,
                !.size = IF trim THEN @ ELSE @ + 1]

\* Session.write checks the host's proof of the old root against its own
\* revision; verifyRevision checks number, payment and collateral.
AcceptsWrite(cur, rev, trim) ==
    /\ mem.header.rev.root = cur.root
    /\ rev = WriteProposal(cur, rev, trim)
    /\ rev.num > cur.num
    /\ rev.paid - cur.paid >= IF trim THEN Price.replace ELSE Price.append
    /\ MissedHostOutput(cur) - MissedHostOutput(rev) <= IF trim THEN 0 ELSE 1

\* managedRPCLoopRead.
ReadProposal(cur, rev) == [cur EXCEPT !.num = rev.num, !.paid = rev.paid, !.void = rev.void]

\* verifyPaymentRevision: the missed payment goes to the void.
AcceptsRead(cur, rev) ==
    /\ rev = ReadProposal(cur, rev)
    /\ rev.num > cur.num
    /\ rev.paid - cur.paid >= Price.read
    /\ cur.void # NoVoid /\ rev.void - cur.void = rev.paid - cur.paid

\* managedPayByContract.
PayProposal(cur, rev) == [cur EXCEPT !.num = rev.num, !.paid = rev.paid, !.void = rev.void]

\* verifyEAFundRevision: no new void.
AcceptsPay(cur, rev) ==
    /\ rev = PayProposal(cur, rev)
    /\ rev.num > cur.num
    /\ rev.paid >= cur.paid
    /\ rev.void = cur.void

\* managedRPCLoopRenewAndClearContract.
ClearProposal(cur, rev) ==
    [cur EXCEPT !.num = MaxNum, !.size = 0, !.root = 0, !.paid = rev.paid, !.void = NoVoid]

\* verifyClearingRevision, and managedVerifyRenewedContract: the new contract
\* starts with the data of the host's current revision.
AcceptsClear(cur, rev, last) ==
    /\ rev = ClearProposal(cur, rev)
    /\ rev.num > cur.num
    /\ rev.paid - cur.paid >= Price.clear
    /\ last.root = cur.root /\ last.size = cur.size

---------------------------------------------------------------------------
(* The write-ahead log and the queue of unapplied transactions *)

NewId == 1 + (IF disk.wal = <<>> THEN 0 ELSE Last(disk.wal).id)

Without(wal, id) == SelectSeq(wal, LAMBDA t : t.id # id)

\* A transaction that sets the header; an append also sets a root and a count.
HeaderTxn(header) == [id |-> NewId, header |-> header, root |-> -1, rc |-> -1]

\* newHeader of the record functions: unsigned, with the spending added.
Unsigned(rev, up, down) ==
    [mem.header EXCEPT !.rev = rev, !.sigs = NoRev, !.up = @ + up, !.down = @ + down]

MutSigned(rev, up, down) ==
    [mem.header EXCEPT !.rev = rev, !.sigs = rev, !.up = @ + 2 * up, !.down = @ + 2 * down]

\* newHeader of the commit functions.
Signed(rev, up, down) ==
    [mem.header EXCEPT !.rev = rev, !.sigs = rev, !.up = @ + up, !.down = @ + down]

Up == mem.up

Free == Up /\ op = Idle

Spend(what) == left[what] > 0 /\ left' = [left EXCEPT ![what] = @ - 1]

\* An operation records its intent and queues it, before it talks to the host.
Record(kind, txn, header, cost) ==
    /\ mem' = [mem EXCEPT !.queue = Append(@, txn),
                          !.rc = IF txn.rc = -1 THEN @ ELSE [num |-> @.num + 1, open |-> TRUE]]
    /\ disk' = [disk EXCEPT !.wal = Append(@, txn)]
    /\ op' = [kind |-> kind, at |-> "sent", txn |-> txn, header |-> header, cost |-> cost]

---------------------------------------------------------------------------
(* The operations up to the host's answer *)

\* Session.Append and Session.Replace, through Session.write.
BeginWrite(trim) ==
    LET cost == IF trim THEN Price.replace ELSE Price.append
        rev  == WriteRevision(mem.header.rev, trim)
        kind == IF trim THEN "replace" ELSE "append"
    IN /\ Free /\ conn # "none"
       /\ CanPay(mem.header.rev, cost)
       /\ trim => mem.header.rev.size > 0
       /\ Spend("ops")
       /\ Record(kind,
                 [HeaderTxn(Unsigned(rev, cost, 0)) EXCEPT !.root = mem.roots, !.rc = mem.rc.num],
                 Signed(rev, cost, 0), cost)
       /\ UNCHANGED <<host, conn, late, hist>>

\* Session.Read.
BeginRead ==
    LET rev == PaymentRevision(mem.header.rev, Price.read)
    IN /\ Free /\ conn # "none"
       /\ CanPay(mem.header.rev, Price.read)
       /\ Spend("ops")
       /\ Record("read", HeaderTxn(Unsigned(rev, 0, Price.read)),
                 Signed(rev, 0, Price.read), Price.read)
       /\ UNCHANGED <<host, conn, late, hist>>

\* ProvidePayment: no session and no resync.
BeginPay(amount) ==
    LET rev == EAFundRevision(mem.header.rev, amount)
    IN /\ Free
       /\ mem.header.rev.paid + amount <= Funds
       /\ Spend("ops")
       /\ Record("pay", HeaderTxn(Unsigned(rev, 0, 0)), Signed(rev, 0, 0), amount)
       /\ UNCHANGED <<host, conn, late, hist>>

\* managedNewRenewAndClear after its resync.  op.base is the header it copied
\* before the resync, op.last the revision it copied with it.
BeginClear ==
    /\ op.kind = "renew" /\ op.at = "final"
    /\ IF CanPay(op.base, Price.clear)
       THEN /\ mem' = [mem EXCEPT !.queue = Append(@, HeaderTxn(Unsigned(FinalRevision(op.base), Price.clear, 0)))]
            /\ disk' = [disk EXCEPT !.wal = Append(@, HeaderTxn(Unsigned(FinalRevision(op.base), Price.clear, 0)))]
            /\ op' = [kind |-> "clear", at |-> "sent", cost |-> Price.clear, last |-> op.last,
                      txn |-> HeaderTxn(Unsigned(FinalRevision(op.base), Price.clear, 0)),
                      header |-> [Signed(FinalRevision(op.base), Price.clear, 0) EXCEPT !.util = "locked"]]
            /\ UNCHANGED conn
       ELSE op' = Idle /\ conn' = "none" /\ UNCHANGED <<mem, disk>>
    /\ UNCHANGED <<host, late, left, hist>>

---------------------------------------------------------------------------
(* The exchange with the host *)

Waiting == Up /\ op # Idle /\ op.kind \in {"append", "replace", "read", "pay", "clear"} /\ op.at = "sent"

IsWrite == op.kind \in {"append", "replace"}

\* A payment waits for the obligation's lock, which a session holds.
Reaches == IF op.kind = "pay" THEN conn # "open" ELSE conn = "open"

Accepts ==
    \/ IsWrite /\ AcceptsWrite(host.rev, op.header.rev, op.kind = "replace")
    \/ op.kind = "read" /\ AcceptsRead(host.rev, op.header.rev)
    \/ op.kind = "pay" /\ AcceptsPay(host.rev, op.header.rev)
    \/ op.kind = "clear" /\ AcceptsClear(host.rev, op.header.rev, op.last)

\* What both sign: a write's revision has the root of the host's proof.
Agreed ==
    LET header == [op.header EXCEPT !.rev.root = host.writes + 1, !.sigs.root = host.writes + 1]
    IN IF IsWrite THEN header ELSE op.header

\* How an operation ends without a commit.  A session is not used again, and
\* a renewal closes its own.
Hangup == CASE op.kind = "pay" -> conn [] op.kind = "clear" -> "none" [] OTHER -> "broken"

Fails == op' = Idle /\ conn' = Hangup

HostCommits(rev) ==
    host' = [rev |-> rev, prev |-> host.rev, writes |-> host.writes + (IF IsWrite THEN 1 ELSE 0)]

MutAnswered ==
    /\ Waiting /\ Reaches /\ Accepts
    /\ HostCommits(Agreed.rev)
    /\ op' = [op EXCEPT !.at = "header", !.header = Agreed]
    /\ hist' = [hist EXCEPT !.served = @ + op.cost]
    /\ UNCHANGED <<mem, disk, conn, late, left>>

\* The host commits the revision and its answer arrives.
Answered ==
    /\ Waiting /\ Reaches /\ Accepts
    /\ HostCommits(Agreed.rev)
    /\ op' = [op EXCEPT !.at = IF op.kind = "clear" THEN "insert" ELSE "header", !.header = Agreed]
    /\ hist' = [hist EXCEPT !.served = @ + op.cost]
    /\ UNCHANGED <<mem, disk, conn, late, left>>

\* The host commits the revision and its answer is lost.
AnswerLost ==
    /\ Waiting /\ Reaches /\ Accepts
    /\ Spend("losses")
    /\ HostCommits(Agreed.rev)
    /\ Fails
    /\ hist' = [hist EXCEPT !.served = @ + op.cost, !.cut = @ \/ IsWrite,
                            !.orphaned = @ \/ op.kind = "clear"]
    /\ UNCHANGED <<mem, disk, late>>

\* The host refuses the revision.
Refused ==
    /\ Waiting /\ Reaches /\ ~Accepts
    /\ Fails
    /\ hist' = [hist EXCEPT !.cut = @ \/ IsWrite]
    /\ UNCHANGED <<mem, disk, host, late, left>>

MutRequestLost ==
    /\ Waiting
    /\ \/ ~Reaches /\ UNCHANGED left
       \/ Reaches /\ Spend("losses")
    /\ IF op.kind = "clear" THEN op' = [op EXCEPT !.at = "insert"] /\ UNCHANGED conn ELSE Fails
    /\ hist' = [hist EXCEPT !.cut = @ \/ IsWrite]
    /\ UNCHANGED <<mem, disk, host, late>>

\* The request is lost; on a broken session it never leaves, and a payment
\* times out while a session holds the obligation.
RequestLost ==
    /\ Waiting
    /\ \/ ~Reaches /\ UNCHANGED left
       \/ Reaches /\ Spend("losses")
    /\ Fails
    /\ hist' = [hist EXCEPT !.cut = @ \/ IsWrite]
    /\ UNCHANGED <<mem, disk, host, late>>

\* The renter gives up on a payment the host still has to look at.
GivesUp ==
    /\ Waiting /\ op.kind = "pay" /\ late = NoRequest
    /\ Spend("losses")
    /\ Fails
    /\ late' = [rev |-> op.header.rev, cost |-> op.cost]
    /\ UNCHANGED <<mem, disk, host, hist>>

\* The host gets to it once the obligation is free, which may be after the
\* renter dropped the intent.
LatePayment ==
    /\ late # NoRequest /\ conn # "open"
    /\ late' = NoRequest
    /\ IF AcceptsPay(host.rev, late.rev)
       THEN /\ host' = [host EXCEPT !.rev = late.rev, !.prev = host.rev]
            /\ hist' = [hist EXCEPT !.served = @ + late.cost,
                   !.ambiguous = @ \/ \A i \in DOMAIN disk.wal : disk.wal[i].header.rev # late.rev]
       ELSE UNCHANGED <<host, hist>>
    /\ UNCHANGED <<mem, disk, op, conn, left>>

---------------------------------------------------------------------------
(* The contract's marks (its utility) *)

\* UpdateUtility writes its own log entry, which is not queued.
StartUpdateUtility(u, then) ==
    LET header == [mem.header EXCEPT !.util = u]
        txn    == HeaderTxn(header)
    IN /\ disk' = [disk EXCEPT !.wal = Append(@, txn)]
       /\ op' = [kind |-> "utility", at |-> "header", txn |-> txn, header |-> header]
       /\ conn' = then

\* The contractor's maintenance marks the contract.
UpdateUtility(u) ==
    /\ Free /\ mem.header.util \notin {u, "locked"}
    /\ mem.header.util = "bad" => u = "locked"
    /\ Spend("marks")
    /\ StartUpdateUtility(u, conn)
    /\ UNCHANGED <<mem, host, late, hist>>

\* The host is out of storage: no more uploads to it.
OutOfStorage ==
    /\ Waiting /\ op.kind = "append" /\ Reaches /\ Accepts
    /\ Spend("faults")
    /\ StartUpdateUtility(IF mem.header.util = "good" THEN "noupload" ELSE mem.header.util, "broken")
    /\ hist' = [hist EXCEPT !.cut = TRUE]
    /\ UNCHANGED <<mem, host, late>>

\* The host does not know the contract: ProvidePayment marks it bad.
NotRecognized ==
    /\ Waiting /\ op.kind = "pay" /\ Reaches
    /\ Spend("faults")
    /\ StartUpdateUtility(IF mem.header.util = "locked" THEN "locked" ELSE "bad", conn)
    /\ UNCHANGED <<mem, host, late, hist>>

---------------------------------------------------------------------------
(* Writing a header and what goes with it, one write at a time.  Shared by   *)
(* the commits, UpdateUtility, the resync and the replay.                    *)

Committing(at) == Up /\ op # Idle /\ op.at = at

Commits == {"append", "replace", "read", "pay", "clear"}

\* RenewAndClear adds the new contract to the set before it commits the
\* final revision of the old one.
InsertRenewed ==
    /\ Committing("insert")
    /\ disk' = [disk EXCEPT !.renewed = TRUE]
    /\ op' = [op EXCEPT !.at = "header"]
    /\ UNCHANGED <<mem, host, conn, late, left, hist>>

MutApplySetHeader ==
    /\ Committing("header")
    /\ mem' = [mem EXCEPT !.header = op.header]
    /\ disk' = IF op.kind = "utility" THEN disk ELSE [disk EXCEPT !.dirty = <<op.header>>]
    /\ op' = [op EXCEPT !.at = IF op.txn # NoTxn /\ op.txn.root # -1 THEN "root" ELSE "sync"]
    /\ UNCHANGED <<host, conn, late, left, hist>>

\* applySetHeader: a write that is not yet synced.
ApplySetHeader ==
    /\ Committing("header")
    /\ mem' = [mem EXCEPT !.header = op.header]
    /\ disk' = [disk EXCEPT !.dirty = <<op.header>>]
    /\ op' = [op EXCEPT !.at = IF op.txn # NoTxn /\ op.txn.root # -1 THEN "root" ELSE "sync"]
    /\ UNCHANGED <<host, conn, late, left, hist>>

\* applySetRoot: merkleRoots.insert, which nothing syncs.
ApplySetRoot ==
    /\ Committing("root")
    /\ mem' = [mem EXCEPT !.roots = IF @ > op.txn.root THEN @ ELSE op.txn.root + 1]
    /\ op' = [op EXCEPT !.at = "rc"]
    /\ UNCHANGED <<disk, host, conn, late, left, hist>>

\* applyRefCounterUpdate: through a log entry of its own, synced.  The count
\* is written at the index chosen when the intent was recorded.
Counted(rcs, i) ==
    [j \in 1..(IF Len(rcs) > i THEN Len(rcs) ELSE i + 1) |->
        IF j = i + 1 THEN 1 ELSE IF j <= Len(rcs) THEN rcs[j] ELSE 0]

MutApplyRefCounter ==
    /\ Committing("rc")
    /\ disk' = [disk EXCEPT !.rcs = Counted(@, op.txn.rc + 1)]
    /\ mem' = [mem EXCEPT !.rc = [num |-> IF @.num > op.txn.rc THEN @.num ELSE op.txn.rc + 1,
                                  open |-> op.kind = "replay"]]
    /\ op' = [op EXCEPT !.at = "sync"]
    /\ UNCHANGED <<host, conn, late, left, hist>>

ApplyRefCounter ==
    /\ Committing("rc")
    /\ disk' = [disk EXCEPT !.rcs = Counted(@, op.txn.rc)]
    /\ mem' = [mem EXCEPT !.rc = [num |-> IF @.num > op.txn.rc THEN @.num ELSE op.txn.rc + 1,
                                  open |-> op.kind = "replay"]]
    /\ op' = [op EXCEPT !.at = "sync"]
    /\ UNCHANGED <<host, conn, late, left, hist>>

MutSync ==
    /\ Committing("sync")
    /\ disk' = [disk EXCEPT !.wal = Without(@, op.txn.id)]
    /\ op' = CASE op.kind = "utility" -> Idle
               [] op.kind = "replay" -> [kind |-> "replay", at |-> "next"]
               [] OTHER -> [op EXCEPT !.at = "clear"]
    /\ hist' = [hist EXCEPT !.acked = IF op.kind \in Commits THEN op.header.rev.num ELSE @,
                            !.trims = IF op.kind = "replace" THEN @ + 1 ELSE @,
                            !.mark = IF op.kind \in {"utility", "clear"} THEN op.header.util ELSE @]
    /\ UNCHANGED <<mem, host, conn, late, left>>

\* Sync of the header file, then the log entry is marked applied.
Sync ==
    /\ Committing("sync")
    /\ disk' = [disk EXCEPT !.header = Last(<<disk.header>> \o disk.dirty), !.dirty = <<>>,
                            !.wal = Without(@, op.txn.id)]
    /\ op' = CASE op.kind = "utility" -> Idle
               [] op.kind = "replay" -> [kind |-> "replay", at |-> "next"]
               [] OTHER -> [op EXCEPT !.at = "clear"]
    /\ hist' = [hist EXCEPT !.acked = IF op.kind \in Commits THEN op.header.rev.num ELSE @,
                            !.trims = IF op.kind = "replace" THEN @ + 1 ELSE @,
                            !.mark = IF op.kind \in {"utility", "clear"} THEN op.header.util ELSE @]
    /\ UNCHANGED <<mem, host, conn, late, left>>

\* clearUnappliedTxns drops the queue, one log entry at a time.
ClearUnapplied ==
    /\ Committing("clear") /\ mem.queue # <<>>
    /\ disk' = [disk EXCEPT !.wal = Without(@, Head(mem.queue).id)]
    /\ mem' = [mem EXCEPT !.queue = Tail(@)]
    /\ UNCHANGED <<host, op, conn, late, left, hist>>

Cleared ==
    /\ Committing("clear") /\ mem.queue = <<>>
    /\ op' = IF op.kind = "renew" THEN [op EXCEPT !.at = "final"] ELSE Idle
    /\ conn' = IF op.kind = "clear" THEN "none" ELSE conn
    /\ UNCHANGED <<mem, disk, host, late, left, hist>>

---------------------------------------------------------------------------
(* Sessions and the resync *)

\* NewSession locks the contract on the host, which answers with its revision.
NewSession ==
    /\ Free /\ conn = "none"
    /\ conn' = "open"
    /\ op' = [kind |-> "session", at |-> "compare"]
    /\ UNCHANGED <<mem, disk, host, late, left, hist>>

CloseSession ==
    /\ Free /\ conn # "none"
    /\ conn' = "none"
    /\ UNCHANGED <<mem, disk, host, op, late, left, hist>>

\* RenewAndClear copies the header, then opens a session of its own.
Renew ==
    /\ Free /\ conn = "none" /\ mem.header.util \in {"good", "noupload"}
    /\ Spend("ops")
    /\ conn' = "open"
    /\ op' = [kind |-> "renew", at |-> "compare", base |-> mem.header.rev, last |-> mem.header.rev]
    /\ UNCHANGED <<mem, disk, host, late, hist>>

SameRev(a, b) == a.num = b.num /\ a.root = b.root

Unsynced == mem.header.sigs # NoRev /\ ~SameRev(host.rev, mem.header.rev)

\* The renter takes the host's revision, in memory only.  The header that
\* RenewAndClear copied shares the revision it overwrites.
TakeHostRev ==
    mem' = [mem EXCEPT !.header.rev = host.rev, !.header.sigs = host.rev]

Rebased == IF op.kind = "renew" THEN [op EXCEPT !.base = host.rev] ELSE op

Synced(o) == IF o.kind = "renew" THEN [o EXCEPT !.at = "final"] ELSE Idle

\* An unsigned header, or one that agrees in number and root.
SyncOverwrite ==
    /\ Committing("compare") /\ ~Unsynced
    /\ TakeHostRev
    /\ op' = Synced(Rebased)
    /\ UNCHANGED <<disk, host, conn, late, left, hist>>

\* The host is behind: the session fails.
SyncMismatch ==
    /\ Committing("compare") /\ Unsynced /\ host.rev.num < mem.header.rev.num
    /\ op' = Idle /\ conn' = "none"
    /\ hist' = [hist EXCEPT !.mismatch = TRUE]
    /\ UNCHANGED <<mem, disk, host, late, left>>

MutMatching == {i \in DOMAIN mem.queue : mem.queue[i].header.rev.num = host.rev.num}

Matching == {i \in DOMAIN mem.queue : SameRev(mem.queue[i].header.rev, host.rev)}

FirstMatch == CHOOSE i \in Matching : \A j \in Matching : i <= j

\* Two unapplied intents that number and root do not tell apart.
Twins ==
    \E i, j \in DOMAIN mem.queue :
        /\ i # j /\ mem.queue[i].header.rev # mem.queue[j].header.rev
        /\ SameRev(mem.queue[i].header.rev, host.rev) /\ SameRev(mem.queue[j].header.rev, host.rev)

\* The first unapplied header with the host's number and root is written with
\* the host's signatures; its other updates are dropped with the queue.
SyncFromQueue ==
    /\ Committing("compare") /\ Unsynced /\ host.rev.num >= mem.header.rev.num
    /\ Matching # {}
    /\ LET header == [mem.queue[FirstMatch].header EXCEPT !.sigs = host.rev]
       IN /\ op' = [op EXCEPT !.at = "header"] @@ [txn |-> NoTxn, header |-> header]
          /\ hist' = [hist EXCEPT !.ambiguous = @ \/ Twins,
                                  !.unmarked = @ \/ header.util # mem.header.util]
    /\ UNCHANGED <<mem, disk, host, conn, late, left>>

\* No such header: the host's revision is taken and the queue dropped.
SyncAccept ==
    /\ Committing("compare") /\ Unsynced /\ host.rev.num >= mem.header.rev.num
    /\ Matching = {}
    /\ TakeHostRev
    /\ op' = [Rebased EXCEPT !.at = "clear"]
    /\ UNCHANGED <<disk, host, conn, late, left, hist>>

---------------------------------------------------------------------------
(* Faults *)

\* Power fails: an unsynced header may or may not have reached the disk, the
\* roots file keeps a prefix of what was never synced and may end in part of
\* a root.
Crash ==
    /\ Up
    /\ Spend("crashes")
    /\ \E header \in {disk.header} \cup ToSet(disk.dirty), n \in disk.roots..mem.roots :
       \E torn \in {FALSE} \cup {n < mem.roots} :
          /\ disk' = [disk EXCEPT !.header = header, !.dirty = <<>>, !.roots = n, !.torn = torn]
          /\ hist' = [hist EXCEPT !.cut = TRUE,
                                  !.orphaned = @ \/ (op # Idle /\ op.at = "insert"),
                                  !.mark = IF op.kind \in {"utility", "clear"} THEN header.util ELSE @]
    /\ mem' = [up |-> FALSE]
    /\ op' = Idle /\ conn' = "none"
    /\ UNCHANGED <<host, late>>

\* loadSafeContract: the queue is every log entry of the contract, applied at
\* once only if the roots file had to be truncated.
Load ==
    /\ ~Up
    /\ mem' = [up |-> TRUE, header |-> disk.header, roots |-> disk.roots, queue |-> disk.wal,
               rc |-> [num |-> Len(disk.rcs), open |-> FALSE]]
    /\ disk' = [disk EXCEPT !.torn = FALSE]
    /\ op' = IF disk.torn THEN [kind |-> "replay", at |-> "next"] ELSE Idle
    /\ UNCHANGED <<host, conn, late, left, hist>>

\* managedCommitTxns applies the queue in order, unsigned headers included.
ReplayNext ==
    /\ Committing("next") /\ mem.queue # <<>>
    /\ op' = [kind |-> "replay", at |-> "header", txn |-> Head(mem.queue), header |-> Head(mem.queue).header]
    /\ mem' = [mem EXCEPT !.queue = Tail(@)]
    /\ hist' = [hist EXCEPT !.replayed = TRUE,
                            !.unmarked = @ \/ Head(mem.queue).header.util # mem.header.util]
    /\ UNCHANGED <<disk, host, conn, late, left>>

ReplayDone ==
    /\ Committing("next") /\ mem.queue = <<>>
    /\ mem' = [mem EXCEPT !.rc.open = FALSE]
    /\ op' = Idle
    /\ UNCHANGED <<disk, host, conn, late, left, hist>>

\* The host restarts without its last revision.
HostRewinds ==
    /\ conn # "open" /\ host.prev # host.rev /\ host.prev # NoRev
    /\ Spend("faults")
    /\ host' = [host EXCEPT !.rev = host.prev, !.prev = NoRev]
    /\ hist' = [hist EXCEPT !.rewound = TRUE]
    /\ UNCHANGED <<mem, disk, op, conn, late>>

---------------------------------------------------------------------------

Rev0 == [num |-> 1, size |-> 0, root |-> 0, paid |-> 0, void |-> 0]

Header0 == [rev |-> Rev0, sigs |-> Rev0, up |-> 0, down |-> 0, util |-> "good"]

\* A contract that was just formed and inserted.
Init ==
    /\ mem = [up |-> TRUE, header |-> Header0, roots |-> 0, queue |-> <<>>,
              rc |-> [num |-> 0, open |-> FALSE]]
    /\ disk = [header |-> Header0, dirty |-> <<>>, roots |-> 0, torn |-> FALSE,
               rcs |-> <<>>, wal |-> <<>>, renewed |-> FALSE]
    /\ host = [rev |-> Rev0, prev |-> NoRev, writes |-> 0]
    /\ op = Idle /\ conn = "none" /\ late = NoRequest
    /\ left \in Budgets
    /\ hist = [acked |-> 1, served |-> 0, trims |-> 0, ambiguous |-> FALSE, replayed |-> FALSE,
               cut |-> FALSE, rewound |-> FALSE, mismatch |-> FALSE, orphaned |-> FALSE,
               mark |-> "good", unmarked |-> FALSE]

Next ==
    \/ \E trim \in BOOLEAN : BeginWrite(trim)
    \/ BeginRead
    \/ \E amount \in Amounts : BeginPay(amount)
    \/ BeginClear
    \/ Answered \/ AnswerLost \/ Refused \/ RequestLost \/ GivesUp \/ LatePayment
    \/ \E u \in Utilities : UpdateUtility(u)
    \/ OutOfStorage \/ NotRecognized
    \/ InsertRenewed \/ ApplySetHeader \/ ApplySetRoot \/ ApplyRefCounter \/ Sync
    \/ ClearUnapplied \/ Cleared
    \/ NewSession \/ CloseSession \/ Renew
    \/ SyncOverwrite \/ SyncMismatch \/ SyncFromQueue \/ SyncAccept
    \/ Crash \/ Load \/ ReplayNext \/ ReplayDone \/ HostRewinds

Spec == Init /\ [][Next]_vars

---------------------------------------------------------------------------
(* Properties *)

Revs == [num: -1..MaxNum, size: Nat, root: Nat, paid: 0..Funds, void: {NoVoid} \cup Nat]
Headers == [rev: Revs, sigs: Revs, up: Nat, down: Nat, util: Utilities]
Txns == [id: Nat, header: Headers, root: Int, rc: Int]

\* Types of the contract in memory, of its files and of the host's copy.
TypeOK ==
    /\ Up => /\ mem.header \in Headers /\ mem.roots \in Nat
             /\ \A i \in DOMAIN mem.queue : mem.queue[i] \in Txns
             /\ mem.rc \in [num: Nat, open: BOOLEAN]
    /\ disk.header \in Headers /\ disk.roots \in Nat
    /\ \A i \in DOMAIN disk.rcs : disk.rcs[i] \in {0, 1}
    /\ \A i \in DOMAIN disk.wal : disk.wal[i] \in Txns
    /\ host.rev \in Revs /\ host.prev \in Revs
    /\ conn \in {"none", "open", "broken"} /\ late \in [rev: Revs, cost: Nat]

\* managedSyncRevision never meets a host that is behind, unless the host
\* lost a revision or a replay applied an intent the host never saw.
NeverAhead == hist.mismatch => hist.rewound \/ hist.replayed

\* While a session is open and no operation runs, both sides hold the same
\* revision, unless two intents could not be told apart (both queued, or one
\* dropped while its payment was still under way) or a replay took one away.
SessionAgrees ==
    conn = "open" /\ Free /\ ~hist.ambiguous /\ ~hist.replayed => mem.header.rev = host.rev

\* The host is paid for what it did and for nothing else.
PaidForService ==
    ~hist.ambiguous /\ ~hist.replayed /\ ~hist.rewound => host.rev.paid = hist.served

\* A revision whose commit returned is on disk after any power failure.
AckedKept == ~hist.replayed /\ ~hist.rewound => disk.header.rev.num >= hist.acked

\* The mark last given to the contract is in force, after a restart too,
\* unless a header recorded before it was applied after it.
MarkInForce ==
    Free /\ ~hist.unmarked => mem.header.util = hist.mark

\* No final revision is on disk before the renewed contract is in the set,
\* unless the host's answer to the renewal never got that far.
RenewedFirst ==
    disk.header.rev.num = MaxNum /\ ~hist.orphaned /\ ~hist.replayed => disk.renewed

\* What the renter accounts for as spent was paid to the host.
SpendingPaid ==
    Up /\ ~hist.ambiguous /\ ~hist.replayed /\ ~hist.rewound =>
        mem.header.up + mem.header.down <= mem.header.rev.paid

\* Every stored sector has a root and a count of one, as long as no write was
\* cut short; a replaced sector keeps the root and the count it had.
SectorsCounted ==
    Free /\ ~hist.cut /\ ~hist.rewound /\ mem.header.rev.num # MaxNum =>
        /\ mem.roots = mem.header.rev.size + hist.trims
        /\ disk.rcs = [i \in 1..mem.roots |-> 1]

\* Renter and host hold the same revision whenever a session rests, and a resync
\* never meets a host that is behind, but for the cases named above.
SidesAgree == TypeOK /\ NeverAhead /\ SessionAgrees

\* Money follows service: the host is paid for what it did, and the renter
\* accounts for what it paid.
PaymentsExact == PaidForService /\ SpendingPaid

\* What the renter has committed survives lost answers and power failures:
\* revisions, marks, and the renewed contract before the final revision of the
\* old one.
CommittedKept == AckedKept /\ MarkInForce /\ RenewedFirst
===============================================================================
