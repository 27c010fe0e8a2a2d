--------------------------- MODULE AccountManager ---------------------------
(***************************************************************************)
(* The host's ephemeral accounts: deposits are credited before the file    *)
(* contract that pays for them is saved, withdrawals are served before the *)
(* account is saved, and the amount the host stands to lose in between is  *)
(* kept in currentRisk.  One thread per account saves it, one per deposit  *)
(* waits for its contract, one prunes idle accounts.  The fingerprints of  *)
(* withdrawal messages are left out: a message is withdrawn once.          *)
(***************************************************************************)
EXTENDS Integers, Sequences, FiniteSets, SequencesExt, FiniteSetsExt

CONSTANTS
    Account,        \* ids of accounts
    DepositOf,      \* deposit call -> its account and amount, and whether it is a refund
    WithdrawalOf,   \* withdrawal message -> its account, amount and expiry
    MaxRisk,        \* MaxEphemeralAccountRisk
    MaxBalance,     \* MaxEphemeralAccountBalance
    MaxHeight,      \* highest block (bound)
    MaxCrashes      \* most unclean shutdowns (bound)

Deposit == DOMAIN DepositOf
Withdrawal == DOMAIN WithdrawalOf

ASSUME AccountAssumption ==
    /\ MaxRisk \in Nat /\ MaxBalance \in Nat /\ MaxHeight \in Nat /\ MaxCrashes \in Nat
    /\ \A d \in Deposit :
          /\ DepositOf[d].id \in Account /\ DepositOf[d].amount \in Nat \ {0}
          /\ DepositOf[d].refund \in BOOLEAN
    /\ \A w \in Withdrawal :
          WithdrawalOf[w].id \in Account /\ WithdrawalOf[w].amount \in Nat \ {0}

VARIABLES
    am,         \* the memory of the account manager
    saver,      \* account -> its save threads, one at most if all is well
    file,       \* the accounts file: index -> account data
    rpc,        \* deposit -> how far the RPC that pays for it is
    called,     \* withdrawal messages that were sent
    prune,      \* indexes the prune thread has expired and deletes
    height,     \* block height
    crashes,    \* unclean shutdowns so far
    hist        \* history: what was served and paid, and what crashes cost

vars == <<am, saver, file, rpc, called, prune, height, crashes, hist>>

-----------------------------------------------------------------------------
Put(f, k, v) == [x \in DOMAIN f \cup {k} |-> IF x = k THEN v ELSE f[x]]
Without(f, S) == [x \in DOMAIN f \ S |-> f[x]]
MinusWrapping(a, b) == a - b
Minus(a, b) == IF a < b THEN 0 ELSE a - b      \* Currency.Sub
SumOf(S, F(_)) == MapThenSumSet(F, S)

Begin == [stage |-> "begin"]

\* assignFreeIndex: the lowest index whose bit is not set.
assignFreeIndex(bits) == Min((0 .. Cardinality(bits)) \ bits)

openAccount(m, id) ==
    IF id \in DOMAIN m.accounts THEN m
    ELSE LET index == assignFreeIndex(m.bitfield)
         IN  [m EXCEPT !.bitfield = @ \cup {index},
                       !.accounts = Put(@, id, [index |-> index, balance |-> 0, blocked |-> << >>,
                                                results |-> << >>, pending |-> 0, last |-> 0])]

\* The first result to wait for a save starts the account's save thread.
schedulePersist(m, id, pr) ==
    [m EXCEPT !.accounts[id].results = Append(@, pr),
              !.started = IF m.accounts[id].results = << >> THEN @ \cup {id} ELSE @]

\* Closing a channel twice panics.
Close(m, c) == [m EXCEPT !.closed = @ \cup {c}, !.panic = @ \/ c \in m.closed]

\* time.Now: the commits so far.
Now(m) == m.now + 1

commitWithdrawal(m, id, w) ==
    LET amount == WithdrawalOf[w].amount
    IN  schedulePersist(
            [Close(m, w) EXCEPT !.accounts[id].balance = Minus(@, amount),
                                !.accounts[id].last = Now(m), !.now = Now(m),
                                !.accounts[id].pending = @ + amount,
                                !.risk = @ + amount],
            id, "withdrawal")

ValidateExpiry(w, h) == h <= WithdrawalOf[w].expiry

\* Unblock withdrawals that were waiting for more funds, the last one first,
\* up to one that the balance does not cover.
UnblockAccount(m, id, h) ==
    FoldLeft(LAMBDA acc, w :
                IF acc.stop THEN acc
                ELSE IF ~ValidateExpiry(w, h)
                THEN [acc EXCEPT !.m.accounts[id].blocked = Front(@)]
                ELSE IF WithdrawalOf[w].amount > acc.m.accounts[id].balance
                THEN [acc EXCEPT !.stop = TRUE]
                ELSE [acc EXCEPT !.m = commitWithdrawal([@ EXCEPT !.accounts[id].blocked = Front(@)],
                                                        id, w)],
             [m |-> m, stop |-> FALSE], Reverse(m.accounts[id].blocked)).m

updateRiskAfterDepositToNothing(m, d) == m

\* Nothing is at risk when the sync channel is closed already: callRefund
\* passes a closed one.
updateRiskAfterDeposit(m, d) ==
    IF DepositOf[d].refund \/ rpc[d] = "paid" THEN m
    ELSE [m EXCEPT !.risk = @ + DepositOf[d].amount, !.syncers[d] = @ + 1]

commitDeposit(m, d, h) ==
    LET id == DepositOf[d].id
        credited == [m EXCEPT !.accounts[id].balance = @ + DepositOf[d].amount,
                              !.accounts[id].last = Now(m), !.now = Now(m)]
    IN  schedulePersist(UnblockAccount(updateRiskAfterDeposit(credited, d), id, h), id, d)

-----------------------------------------------------------------------------
(* Requests that max risk blocked are unblocked, in their order, until the *)
(* risk that was freed is used up.  numUnblocked stays 0 when the whole    *)
(* queue is gone through.                                                  *)

unblockDeposits(m, allowance, h) ==
    LET r == FoldLeftDomain(
                LAMBDA acc, i :
                    LET d == m.blockedDeposits[i]
                    IN  IF acc.stop \/ DepositOf[d].id \notin DOMAIN acc.m.accounts THEN acc
                        ELSE IF acc.allowance < DepositOf[d].amount
                        THEN [acc EXCEPT !.stop = TRUE, !.numUnblocked = i - 1]
                        ELSE [acc EXCEPT !.m = commitDeposit(@, d, h),
                                         !.allowance = @ - DepositOf[d].amount],
                [m |-> m, allowance |-> allowance, stop |-> FALSE, numUnblocked |-> 0],
                m.blockedDeposits)
    IN  [m |-> [r.m EXCEPT !.blockedDeposits = SubSeq(@, r.numUnblocked + 1, Len(@))],
         allowance |-> r.allowance]

unblockWithdrawals(m, allowance, h) ==
    LET r == FoldLeftDomain(
                LAMBDA acc, i :
                    LET w == m.blockedWithdrawals[i]
                        id == WithdrawalOf[w].id
                    IN  IF acc.stop \/ id \notin DOMAIN acc.m.accounts \/ ~ValidateExpiry(w, h) THEN acc
                        ELSE IF acc.allowance < WithdrawalOf[w].amount
                        THEN [acc EXCEPT !.stop = TRUE, !.numUnblocked = i - 1]
                        ELSE [acc EXCEPT !.m = commitWithdrawal(@, id, w),
                                         !.allowance = @ - WithdrawalOf[w].amount],
                [m |-> m, allowance |-> allowance, stop |-> FALSE, numUnblocked |-> 0],
                m.blockedWithdrawals)
    IN  [r.m EXCEPT !.blockedWithdrawals = SubSeq(@, r.numUnblocked + 1, Len(@))]

\* Risk is lowered by an amount: deposits are unblocked first.
LowerRisk(m, amount, h) ==
    LET r == unblockDeposits([m EXCEPT !.risk = Minus(@, amount)], amount, h)
    IN  unblockWithdrawals(r.m, r.allowance, h)

-----------------------------------------------------------------------------
(* Unclean shutdown: the accounts file is all that is left. *)

\* loadAccounts: the last record of an id counts.
loadAccounts(f) ==
    [id \in {f[i].id : i \in DOMAIN f} |->
        LET index == Max({i \in DOMAIN f : f[i].id = id})
        IN  [index |-> index, balance |-> f[index].balance, blocked |-> << >>,
             results |-> << >>, pending |-> 0, last |-> f[index].last]]

\* buildIndex shifts the zero bits of the new bitfield.
buildIndex(accs) == {}

newAccountManager(f, now) ==
    [accounts |-> loadAccounts(f), bitfield |-> buildIndex(loadAccounts(f)), risk |-> 0,
     blockedDeposits |-> << >>, blockedWithdrawals |-> << >>, closed |-> {}, started |-> {},
     syncers |-> [d \in Deposit |-> 0], forgotten |-> 0, now |-> now, panic |-> FALSE]

\* What the host loses when only the file is left: what its records hold
\* and what was withdrawn, less what contracts have paid.
Loss ==
    SumOf(DOMAIN file, LAMBDA i : file[i].balance) + hist.served
        - SumOf(hist.paid, LAMBDA d : DepositOf[d].amount)

Restart ==
    /\ crashes < MaxCrashes
    /\ crashes' = crashes + 1
    /\ am' = newAccountManager(file, am.now)
    /\ saver' = [id \in Account |-> << >>]
    /\ rpc' = [d \in Deposit |-> IF rpc[d] = "waiting" THEN "failed" ELSE rpc[d]]
    /\ prune' = [delete |-> {}, release |-> {}]
    /\ hist' = [hist EXCEPT !.base = Loss]
    /\ UNCHANGED <<file, called, height>>

Queued(m) == m.blockedDeposits # << >> \/ m.blockedWithdrawals # << >>

\* The outcome of a handler that leaves the memory m: withdrawals that it
\* committed are served, and save threads that it started run.
Served(m) ==
    SumOf({w \in Withdrawal : w \in m.closed \ am.closed}, LAMBDA w : WithdrawalOf[w].amount)

Outcome(m, threads, paid) ==
    /\ am' = [m EXCEPT !.started = {}]
    /\ saver' = [id \in Account |-> IF id \in m.started THEN Append(threads[id], Begin)
                                 ELSE threads[id]]
    /\ hist' = [hist EXCEPT !.served = @ + Served(m), !.paid = paid,
                             !.hit = @ \/ Queued(m)]

-----------------------------------------------------------------------------
Init ==
    /\ file = << >>
    /\ am = newAccountManager(file, 0)
    /\ saver = [id \in Account |-> << >>]
    /\ rpc = [d \in Deposit |-> "idle"]
    /\ called = {}
    /\ prune = [delete |-> {}, release |-> {}]
    /\ height = 0
    /\ crashes = 0
    /\ hist = [served |-> 0, paid |-> {}, base |-> 0, hit |-> FALSE]

depositExceedsMaxBalance(acc, amount) ==
    LET blockedValue == SumOf(ToSet(acc.blocked), LAMBDA w : WithdrawalOf[w].amount)
    IN  amount > blockedValue /\ acc.balance + amount - blockedValue > MaxBalance

deposit(m, d, h) ==
    IF m.risk > MaxRisk THEN [m EXCEPT !.blockedDeposits = Append(@, d)]
    ELSE commitDeposit(m, d, h)

\* managedDeposit up to the wait for its result.  What a refund gives back
\* was paid before, and it may exceed the maximum balance.
CallDeposit(d) ==
    LET refund == DepositOf[d].refund
    IN  /\ ~am.panic
        /\ rpc[d] = "idle"
        /\ \E m \in {openAccount(am, DepositOf[d].id)} :
           \E exceeds \in {depositExceedsMaxBalance(m.accounts[DepositOf[d].id], DepositOf[d].amount)} :
              \/ /\ ~refund /\ exceeds
                 /\ rpc' = [rpc EXCEPT ![d] = "failed"]
                 /\ Outcome(m, saver, hist.paid)
              \/ /\ refund \/ ~exceeds
                 /\ rpc' = [rpc EXCEPT ![d] = "waiting"]
                 /\ \E next \in {deposit(m, d, height)} :
                       Outcome(next, saver, IF refund THEN hist.paid \cup {d} ELSE hist.paid)
        /\ UNCHANGED <<file, called, prune, height, crashes>>

\* callDeposit returns once the account is saved; then managedFundAccount
\* saves the storage obligation and closes the sync channel, or fails to.
SaveContract(d) ==
    /\ ~am.panic
    /\ rpc[d] = "waiting" /\ d \in am.closed /\ ~DepositOf[d].refund
    /\ \/ /\ rpc' = [rpc EXCEPT ![d] = "paid"]
          /\ hist' = [hist EXCEPT !.paid = @ \cup {d}]
       \/ /\ rpc' = [rpc EXCEPT ![d] = "failed"]
          /\ UNCHANGED hist
    /\ UNCHANGED <<am, saver, file, called, prune, height, crashes>>

\* The thread of a deposit lowers the risk once the contract is saved.
threadedUpdateRiskAfterSync(d) ==
    /\ ~am.panic
    /\ am.syncers[d] > 0 /\ rpc[d] = "paid"
    /\ \E m \in {LowerRisk([am EXCEPT !.syncers[d] = @ - 1], DepositOf[d].amount, height)} :
          Outcome(m, saver, hist.paid)
    /\ UNCHANGED <<file, rpc, called, prune, height, crashes>>

\* It gives up after ten minutes.
SyncTimeout(d) ==
    /\ ~am.panic
    /\ am.syncers[d] > 0 /\ rpc[d] # "paid"
    /\ am' = [am EXCEPT !.syncers[d] = @ - 1, !.forgotten = @ + DepositOf[d].amount]
    /\ UNCHANGED <<saver, file, rpc, called, prune, height, crashes, hist>>

\* callWithdraw up to the wait for its result, which changes nothing: a caller that
\* times out leaves its withdrawal blocked.
CallWithdraw(w) ==
    LET id == WithdrawalOf[w].id
    IN  /\ ~am.panic
        /\ w \notin called
        /\ ValidateExpiry(w, height)
        /\ called' = called \cup {w}
        /\ \E m \in {openAccount(am, id)} :
           \E next \in {IF WithdrawalOf[w].amount > m.accounts[id].balance
                        THEN [m EXCEPT !.accounts[id].blocked = Append(@, w)]
                        ELSE IF m.risk > MaxRisk \/ m.blockedWithdrawals # << >>
                        THEN [m EXCEPT !.blockedWithdrawals = Append(@, w)]
                        ELSE commitWithdrawal(m, id, w)} :
              Outcome(next, saver, hist.paid)
        /\ UNCHANGED <<file, rpc, prune, height, crashes>>

-----------------------------------------------------------------------------
(* threadedSaveAccount, in the three pieces between which am.mu is free;   *)
(* t is the thread.                                                        *)

managedAccountPersistInfo(id, t) ==
    /\ ~am.panic
    /\ saver[id][t] = Begin
    /\ saver' = [saver EXCEPT ![id] =
                    IF id \notin DOMAIN am.accounts THEN RemoveAt(@, t)
                    ELSE LET acc == am.accounts[id]
                         IN  [@ EXCEPT ![t] =
                                [stage |-> "write", index |-> acc.index,
                                 data |-> [id |-> id, balance |-> acc.balance, last |-> acc.last],
                                 risk |-> acc.pending, waiting |-> Len(acc.results)]]]
    /\ UNCHANGED <<am, file, rpc, called, prune, height, crashes, hist>>

\* A write that fails takes the process down.
callSaveAccount(id, t) ==
    /\ ~am.panic
    /\ saver[id][t].stage = "write"
    /\ file' = Put(file, saver[id][t].index, saver[id][t].data)
    /\ saver' = [saver EXCEPT ![id][t].stage = "written"]
    /\ UNCHANGED <<am, rpc, called, prune, height, crashes, hist>>

sendResultToAll(m, id, waiting) ==
    FoldLeft(Close, [m EXCEPT !.accounts[id].results = << >>],
             SelectSeq(m.accounts[id].results, LAMBDA pr : pr \in Deposit))

\* The results that were waiting when the account data was captured.
sendResult(m, id, waiting) ==
    FoldLeft(Close, [m EXCEPT !.accounts[id].results = SubSeq(@, waiting + 1, Len(@))],
             SelectSeq(SubSeq(m.accounts[id].results, 1, waiting), LAMBDA pr : pr \in Deposit))

PersistedResetting(m, id, info) ==
    IF id \notin DOMAIN m.accounts THEN m
    ELSE sendResult([m EXCEPT !.accounts[id].pending = 0], id, info.waiting)

Persisted(m, id, info) ==
    IF id \notin DOMAIN m.accounts THEN m
    ELSE sendResult([m EXCEPT !.accounts[id].pending = Minus(@, info.risk)], id, info.waiting)

NeverWaiting(m, id) == FALSE

\* The thread goes on as long as results are waiting.
Waiting(m, id) == id \in DOMAIN m.accounts /\ m.accounts[id].results # << >>

FinishSave(id, t) ==
    /\ ~am.panic
    /\ saver[id][t].stage = "written"
    /\ \E saved \in {Persisted(am, id, saver[id][t])} :
       \E m \in {LowerRisk(saved, saver[id][t].risk, height)} :
          /\ Outcome(m, [saver EXCEPT ![id] = IF Waiting(saved, id) THEN [@ EXCEPT ![t] = Begin]
                                              ELSE RemoveAt(@, t)], hist.paid)
    /\ UNCHANGED <<file, rpc, called, prune, height, crashes>>

-----------------------------------------------------------------------------
(* threadedPruneExpiredAccounts.  An account without a transaction is older *)
(* than any expiry; the expiry outlasts the save of an account.             *)

managedExpireAccountsReleasing(oldest) ==
    LET expired == {id \in DOMAIN am.accounts : am.accounts[id].last <= oldest}
    IN  /\ ~am.panic
        /\ prune = [delete |-> {}, release |-> {}]
        /\ expired # {}
        /\ \A id \in expired : am.accounts[id].results = << >>
        /\ am' = [am EXCEPT !.accounts = Without(@, expired),
                            !.bitfield = @ \ {am.accounts[id].index : id \in expired}]
        /\ prune' = [prune EXCEPT !.delete = {am.accounts[id].index : id \in expired}]
        /\ UNCHANGED <<saver, file, rpc, called, height, crashes, hist>>

managedExpireAccounts(oldest) ==
    LET expired == {id \in DOMAIN am.accounts : am.accounts[id].last <= oldest}
    IN  /\ ~am.panic
        /\ prune = [delete |-> {}, release |-> {}]
        /\ expired # {}
        /\ \A id \in expired : am.accounts[id].results = << >>
        /\ am' = [am EXCEPT !.accounts = Without(@, expired)]
        /\ prune' = [prune EXCEPT !.delete = {am.accounts[id].index : id \in expired}]
        /\ UNCHANGED <<saver, file, rpc, called, height, crashes, hist>>

callBatchDeleteAccount(index) ==
    /\ ~am.panic
    /\ \/ /\ file' = Without(file, {index})
          /\ prune' = [delete |-> prune.delete \ {index}, release |-> prune.release \cup {index}]
       \/ /\ prune' = [prune EXCEPT !.delete = @ \ {index}]
          /\ UNCHANGED file
    /\ UNCHANGED <<am, saver, rpc, called, height, crashes, hist>>

releaseIndex ==
    /\ ~am.panic
    /\ prune.delete = {} /\ prune.release # {}
    /\ am' = [am EXCEPT !.bitfield = @ \ prune.release]
    /\ prune' = [prune EXCEPT !.release = {}]
    /\ UNCHANGED <<saver, file, rpc, called, height, crashes, hist>>

-----------------------------------------------------------------------------
NewBlock ==
    /\ height < MaxHeight
    /\ height' = height + 1
    /\ UNCHANGED <<am, saver, file, rpc, called, prune, crashes, hist>>

Next ==
    \/ \E d \in Deposit : \/ CallDeposit(d) \/ SaveContract(d)
                          \/ threadedUpdateRiskAfterSync(d) \/ SyncTimeout(d)
    \/ \E w \in Withdrawal : CallWithdraw(w)
    \/ \E id \in Account : \E t \in DOMAIN saver[id] :
          \/ managedAccountPersistInfo(id, t) \/ callSaveAccount(id, t) \/ FinishSave(id, t)
    \/ \E oldest \in 0 .. am.now : managedExpireAccounts(oldest)
    \/ \E index \in prune.delete : callBatchDeleteAccount(index)
    \/ releaseIndex
    \/ NewBlock
    \/ Restart

Spec == Init /\ [][Next]_vars

\* A save thread stays in none of its stages for ever, unless the process
\* dies: weak fairness of its three steps, each enabled by its stage alone.
Fairness ==
    \A id \in Account, stage \in {"begin", "write", "written"} :
        []<>(am.panic \/ \A t \in DOMAIN saver[id] : saver[id][t].stage # stage)

FairSpec == Spec /\ Fairness

-----------------------------------------------------------------------------
\* Type invariant: balances and risks, types.Currency, are never negative.
TypeOK ==
    /\ DOMAIN am.accounts \subseteq Account
    /\ \A id \in DOMAIN am.accounts :
          LET acc == am.accounts[id]
          IN  acc.balance \in Nat /\ acc.pending \in Nat /\ acc.last \in 0 .. am.now
    /\ am.risk \in Nat
    /\ \A i \in DOMAIN file : file[i].id \in Account /\ file[i].balance \in Nat
    /\ \A id \in Account : \A t \in DOMAIN saver[id] :
          saver[id][t].stage \in {"begin", "write", "written"}

\* currentRisk is exactly what was withdrawn from accounts and is not saved
\* yet, the deposits whose contract is not known to be saved, and the ones
\* whose thread gave up on the sync channel, which nothing subtracts again.
\* It holds across accounts that expire with risk freed for other requests,
\* and until closing a result twice ends the process.
RiskAccounted ==
    ~am.panic =>
    am.risk = SumOf(DOMAIN am.accounts, LAMBDA id : am.accounts[id].pending)
              + SumOf(Deposit, LAMBDA d : am.syncers[d] * DepositOf[d].amount)
              + am.forgotten

\* An unclean shutdown at any moment costs the host no more than currentRisk
\* says: the reason for keeping it ("We keep track of this outstanding risk
\* in currentRisk").  Once max risk has blocked a request this fails:
\* numUnblocked stays 0 when the whole queue was unblocked, so the requests are
\* committed again.
LossWithinRiskUnlessBlocked == ~hist.hit => Loss - hist.base <= am.risk

\* threadedSaveAccount's sanity check, in every state: "The account's pending
\* risk should be zero if there are no threads awaiting a persist".
NoRiskWhenSaved ==
    \A id \in DOMAIN am.accounts :
        am.accounts[id].results = << >> => am.accounts[id].pending = 0

\* An account nobody waits for is on file, at its own index, as it is in
\* memory: saves and the deletions of the prune thread never undo each other,
\* also when an index is recycled.  Until a restart, after which buildIndex has
\* left every bit of the new bitfield unset.
SavedOnFile ==
    crashes = 0 =>
    \A id \in DOMAIN am.accounts :
        LET acc == am.accounts[id]
        IN  acc.results = << >> /\ acc.last > 0 =>
                /\ acc.index \in DOMAIN file
                /\ file[acc.index] = [id |-> id, balance |-> acc.balance, last |-> acc.last]

\* A deposit or a refund that waits gets its result, as long as max risk never
\* blocked a request: the save thread goes on until nobody is waiting.
DepositsSaved ==
    \A d \in Deposit :
        rpc[d] = "waiting" ~> d \in am.closed \/ rpc[d] # "waiting" \/ hist.hit

\* currentRisk is exact through commits, saves, expirations and the queues of
\* blocked requests, and until max risk first blocks a request an unclean
\* shutdown costs the host no more than it says.
RiskExact == TypeOK /\ RiskAccounted /\ NoRiskWhenSaved /\ LossWithinRiskUnlessBlocked
=============================================================================
