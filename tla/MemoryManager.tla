--------------------------- MODULE MemoryManager ---------------------------
(***************************************************************************)
(* The renter's memory manager, modules/renter/memory.go.                  *)
(*                                                                         *)
(* The manager is a counter: tasks block in Request until the amount they  *)
(* ask for is granted and hand it back, in pieces of any size, through     *)
(* Return.  High priority requests may use the priority reserve and are    *)
(* served before low priority ones; a request larger than the whole        *)
(* budget is granted when nothing is in use and then "underflows".         *)
(*                                                                         *)
(* Request and the head of Return run under mm.mu in one step.  The two    *)
(* release loops at the end of Return also run under mm.mu; one iteration  *)
(* is one step here, and mu keeps every other call out until the loops     *)
(* are finished.                                                           *)
(***************************************************************************)
EXTENDS Integers, Sequences, FiniteSets

CONSTANTS
  Thread,    \* the goroutines that call Request
  Amounts,   \* the amounts they ask for
  Base,      \* mm.base, the initial memory
  Reserve    \* mm.priorityReserve

ASSUME AmountsAssumption == Amounts \subseteq Nat \ {0}
ASSUME BaseAssumption == Base \in Nat /\ Base >= 4
ASSUME ReserveAssumption == Reserve \in 0..Base

VARIABLES
  available,           \* mm.available
  underflow,           \* mm.underflow
  memSinceLowPriority, \* mm.memSinceLowPriority
  fifo,                \* mm.fifo, a sequence of threads
  priorityFifo,        \* mm.priorityFifo
  mu,                  \* who holds mm.mu: nobody, or Return in one of its loops
  pc,                  \* where each thread is
  amount,              \* memoryRequest.amount of each thread
  stopped,             \* mm.stop is closed
  outstanding          \* memory granted and not yet returned

vars == <<available, underflow, memSinceLowPriority, fifo, priorityFifo, mu,
          pc, amount, stopped, outstanding>>

memoryPriorityStarvationMultiple == 4
memoryPriorityStarvationDivisor == 4

Init ==
  /\ available = Base
  /\ underflow = 0
  /\ memSinceLowPriority = 0
  /\ fifo = <<>>
  /\ priorityFifo = <<>>
  /\ mu = "free"
  /\ pc = [t \in Thread |-> "idle"]
  /\ amount = [t \in Thread |-> 0]
  /\ stopped = FALSE
  /\ outstanding = 0

(***************************************************************************)
(* try(a, p): whether the attempt succeeds, and what it does to the        *)
(* counters when it does.                                                  *)
(***************************************************************************)
Fits(a, p) == available >= a + Reserve \/ (p /\ available >= a)

try(a, p) == Fits(a, p) \/ available = Base

\* Mutants of Take: the underflow is not recorded; no floor at zero.
TakeForgettingUnderflow(a) ==
  /\ available' = IF a <= available THEN available - a ELSE 0
  /\ outstanding' = outstanding + a
  /\ UNCHANGED underflow

TakeBelowZero(a) ==
  /\ available' = available - a
  /\ outstanding' = outstanding + a
  /\ UNCHANGED underflow

Take(a) ==
  /\ available' = IF a <= available THEN available - a ELSE 0
  /\ underflow' = IF a <= available THEN underflow ELSE a - Base
  /\ outstanding' = outstanding + a

(***************************************************************************)
(* handleStarvation, called with the starvation tracker at since: the      *)
(* first n threads of fifo move to the end of priorityFifo.  The loop      *)
(* goes on while the amounts it moved fall short of a quarter of the base  *)
(* memory and a thread is left.                                            *)
(***************************************************************************)
FifoAmount[k \in Nat] ==
  IF k = 0 THEN 0 ELSE FifoAmount[k - 1] + amount[fifo[k]]

Starving(since) == since >= Base * memoryPriorityStarvationMultiple

\* Mutant of handleStarvation: the tracker is reset but nobody is moved.
handleStarvationMovingNobody(n, since) == n = 0

handleStarvation(n, since) ==
  LET quota == Base \div memoryPriorityStarvationDivisor
  IN  IF Starving(since)
        THEN /\ \A k \in 1..n : FifoAmount[k - 1] < quota
             /\ n = Len(fifo) \/ FifoAmount[n] >= quota
        ELSE n = 0

(***************************************************************************)
(* Request(a, p) called by thread t.  The starvation tracker is advanced   *)
(* first, then the request is tried if no request that has precedence is   *)
(* waiting, else (or if try fails) it joins its queue.                     *)
(***************************************************************************)
Request(t, a, p) ==
  \E n \in 0..Len(fifo) :
    LET overtakes == p /\ fifo # <<>>
        since     == memSinceLowPriority + (IF overtakes THEN a ELSE 0)
        urgent    == priorityFifo \o SubSeq(fifo, 1, n)
        rest      == SubSeq(fifo, n + 1, Len(fifo))
        shouldTry == urgent = <<>> /\ (p \/ rest = <<>>)
        tracker   == IF overtakes /\ Starving(since) THEN 0 ELSE since
    IN  /\ mu = "free"
        /\ pc[t] = "idle"
        /\ IF overtakes THEN handleStarvation(n, since) ELSE n = 0
        /\ \/ /\ shouldTry /\ try(a, p)
              /\ Take(a)
              /\ UNCHANGED <<pc, amount>>
              /\ memSinceLowPriority' = IF p THEN tracker ELSE 0
              /\ priorityFifo' = urgent
              /\ fifo' = rest
           \/ /\ ~(shouldTry /\ try(a, p))
              /\ pc' = [pc EXCEPT ![t] = "blocked"]
              /\ amount' = [amount EXCEPT ![t] = a]
              /\ memSinceLowPriority' = tracker
              /\ priorityFifo' = IF p THEN Append(urgent, t) ELSE urgent
              /\ fifo' = IF p THEN rest ELSE Append(rest, t)
              /\ UNCHANGED <<available, underflow, outstanding>>
        /\ UNCHANGED <<mu, stopped>>

(***************************************************************************)
(* The thread's select sees its done channel closed and Request returns    *)
(* true; the memory is the caller's, who will hand it back.                *)
(***************************************************************************)
Resume(t) ==
  /\ pc[t] = "granted"
  /\ pc' = [pc EXCEPT ![t] = "idle"]
  /\ UNCHANGED <<available, underflow, memSinceLowPriority, fifo, priorityFifo,
                 mu, amount, stopped, outstanding>>

(***************************************************************************)
(* Return(a): some caller hands back a of the memory it was granted.       *)
(***************************************************************************)
Return(a) ==
  /\ mu = "free"
  /\ a \in 1..outstanding
  /\ outstanding' = outstanding - a
  /\ \/ /\ underflow > 0 /\ a <= underflow
        /\ underflow' = underflow - a
        /\ UNCHANGED <<available, mu>>
     \/ /\ ~(underflow > 0 /\ a <= underflow)
        /\ LET total == available + (a - underflow)
           IN  available' = IF total > Base THEN Base ELSE total
        /\ underflow' = 0
        /\ mu' = "priority"
  /\ UNCHANGED <<memSinceLowPriority, fifo, priorityFifo, pc, amount,
                 stopped>>

\* close(done): a thread that gave up at shutdown no longer listens.
Unblock(t) == pc' = [pc EXCEPT ![t] = IF @ = "blocked" THEN "granted" ELSE @]

\* Mutant of ReleasePriority: Return ends without looking at mm.fifo.
ReleasePriorityOnly ==
  /\ mu = "priority"
  /\ \/ /\ priorityFifo # <<>> => ~try(amount[Head(priorityFifo)], TRUE)
        /\ mu' = "free"
        /\ UNCHANGED <<available, underflow, priorityFifo, pc, outstanding>>
     \/ /\ priorityFifo # <<>>
        /\ try(amount[Head(priorityFifo)], TRUE)
        /\ Take(amount[Head(priorityFifo)])
        /\ Unblock(Head(priorityFifo))
        /\ priorityFifo' = Tail(priorityFifo)
        /\ UNCHANGED mu
  /\ UNCHANGED <<memSinceLowPriority, fifo, amount, stopped>>

\* One iteration of the loop over mm.priorityFifo.
ReleasePriority ==
  /\ mu = "priority"
  /\ \/ /\ priorityFifo = <<>>
        /\ mu' = "low"
        /\ UNCHANGED <<available, underflow, priorityFifo, pc, outstanding>>
     \/ /\ priorityFifo # <<>>
        /\ ~try(amount[Head(priorityFifo)], TRUE)
        /\ mu' = "free"
        /\ UNCHANGED <<available, underflow, priorityFifo, pc, outstanding>>
     \/ /\ priorityFifo # <<>>
        /\ try(amount[Head(priorityFifo)], TRUE)
        /\ Take(amount[Head(priorityFifo)])
        /\ Unblock(Head(priorityFifo))
        /\ priorityFifo' = Tail(priorityFifo)
        /\ UNCHANGED mu
  /\ UNCHANGED <<memSinceLowPriority, fifo, amount, stopped>>

\* One iteration of the loop over mm.fifo, reached with priorityFifo empty.
ReleaseLow ==
  /\ mu = "low"
  /\ \/ /\ \/ fifo = <<>>
           \/ fifo # <<>> /\ ~try(amount[Head(fifo)], FALSE)
        /\ mu' = "free"
        /\ UNCHANGED <<available, underflow, memSinceLowPriority, fifo, pc,
                       outstanding>>
     \/ /\ fifo # <<>>
        /\ try(amount[Head(fifo)], FALSE)
        /\ Take(amount[Head(fifo)])
        /\ Unblock(Head(fifo))
        /\ fifo' = Tail(fifo)
        /\ memSinceLowPriority' = 0
        /\ UNCHANGED mu
  /\ UNCHANGED <<priorityFifo, amount, stopped>>

(***************************************************************************)
(* The renter shuts down: mm.stop is closed, and a thread inside Request   *)
(* may see it and return false.  Its request stays in the queue, and if    *)
(* done was closed as well its memory is never handed back.                *)
(***************************************************************************)
Stop ==
  /\ ~stopped
  /\ stopped' = TRUE
  /\ UNCHANGED <<available, underflow, memSinceLowPriority, fifo, priorityFifo,
                 mu, pc, amount, outstanding>>

GiveUp(t) ==
  /\ stopped
  /\ pc[t] \in {"blocked", "granted"}
  /\ pc' = [pc EXCEPT ![t] = "gone"]
  /\ UNCHANGED <<available, underflow, memSinceLowPriority, fifo, priorityFifo,
                 mu, amount, stopped, outstanding>>

Next ==
  \/ \E t \in Thread, a \in Amounts, p \in BOOLEAN : Request(t, a, p)
  \/ \E t \in Thread : Resume(t) \/ GiveUp(t)
  \/ \E a \in 1..outstanding : Return(a)
  \/ ReleasePriority
  \/ ReleaseLow
  \/ Stop

Spec == Init /\ [][Next]_vars

(***************************************************************************)
(* Fairness: the goroutine that runs Return runs on until it unlocks       *)
(* mm.mu, a goroutine whose select has a ready case takes it, and the      *)
(* memory that is out keeps coming back (every caller of Request defers    *)
(* or schedules the matching Return).                                      *)
(***************************************************************************)
Fairness ==
  /\ WF_vars(ReleasePriority)
  /\ WF_vars(ReleaseLow)
  /\ WF_vars(\E a \in 1..outstanding : Return(a))
  /\ \A t \in Thread : WF_vars(Resume(t)) /\ WF_vars(GiveUp(t))

FairSpec == Spec /\ Fairness

-----------------------------------------------------------------------------
(***************************************************************************)
(* Properties.                                                             *)
(***************************************************************************)

\* The type of every field of the manager and of every thread's state.
TypeOK ==
  /\ available \in 0..Base
  /\ underflow \in Nat
  /\ memSinceLowPriority \in Nat
  /\ fifo \in Seq(Thread)
  /\ priorityFifo \in Seq(Thread)
  /\ mu \in {"free", "priority", "low"}
  /\ pc \in [Thread -> {"idle", "blocked", "granted", "gone"}]
  /\ amount \in [Thread -> Nat]
  /\ stopped \in BOOLEAN
  /\ outstanding \in Nat

(***************************************************************************)
(* No memory is created or lost, however large and small requests, partial *)
(* returns and bumped requests interleave: what is available and what is   *)
(* out make up the base memory plus the underflow, and the counter only    *)
(* underflows when nothing is available.  In particular the sanity check   *)
(* of Return ("too much memory returned") never clips anything.            *)
(***************************************************************************)
Conservation ==
  /\ available + outstanding = Base + underflow
  /\ underflow > 0 => available = 0

(***************************************************************************)
(* Nobody waits for memory that nobody holds: whenever mm.mu is free and a *)
(* request is queued, some memory is out, so a Return is still to come     *)
(* that will look at the queues.  Request never looks at them.             *)
(***************************************************************************)
NoStrandedWaiter ==
  mu = "free" /\ (fifo # <<>> \/ priorityFifo # <<>>) => outstanding > 0

\* A request that takes the total beyond the base memory is granted only
\* when no other memory is out (the oversized branch of try).
OversizedAlone ==
  [][outstanding' > outstanding /\ outstanding' > Base => outstanding = 0]_vars

(***************************************************************************)
(* Granting a low priority request while other memory is out leaves the    *)
(* priority reserve untouched, and happens only if no high priority        *)
(* request is waiting.                                                     *)
(***************************************************************************)
LowGrant ==
  /\ outstanding' > outstanding
  /\ ReleaseLow \/ \E t \in Thread, a \in Amounts : Request(t, a, FALSE)

ReserveKept ==
  [][LowGrant => /\ priorityFifo = <<>>
                 /\ outstanding > 0 => available' >= Reserve]_vars

(***************************************************************************)
(* No starvation: every request that blocks is granted in the end (or the  *)
(* renter shuts down), also a low priority one under an endless stream of  *)
(* high priority requests and one larger than the base memory.             *)
(***************************************************************************)
EventuallyServed ==
  \A t \in Thread : pc[t] = "blocked" ~> pc[t] # "blocked"

(***************************************************************************)
(* However Request, Return, its release loops and handleStarvation         *)
(* interleave: the unsigned counter never wraps, no memory is created or   *)
(* lost, and nobody waits for memory that nobody holds.                    *)
(***************************************************************************)
MemorySafe == TypeOK /\ Conservation /\ NoStrandedWaiter
=============================================================================
