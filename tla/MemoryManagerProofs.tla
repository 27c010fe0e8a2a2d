------------------------ MODULE MemoryManagerProofs ------------------------
(***************************************************************************)
(* Proofs about MemoryManager, for every set of threads, every base memory *)
(* and reserve and every set of requested amounts.                         *)
(*                                                                         *)
(* The inductive invariant is TypeOK, Conservation and NoStrandedWaiter    *)
(* together with LoopOrder: Return reaches its second loop only when the   *)
(* first has emptied priorityFifo, so that leaving the second loop with an *)
(* empty fifo leaves no request behind.                                    *)
(***************************************************************************)
EXTENDS MemoryManager, TLAPS

LoopOrder == mu = "low" => priorityFifo = <<>>

IInv == TypeOK /\ Conservation /\ NoStrandedWaiter /\ LoopOrder

\* The initial state of newMemoryManager satisfies the invariant.
LEMMA InitIInv == Init => IInv
<1> SUFFICES ASSUME Init PROVE IInv
  BY Zenon
<1>1. TypeOK
  <2>1. /\ fifo \in Seq(Thread)
        /\ priorityFifo \in Seq(Thread)
        /\ pc \in [Thread -> {"idle", "blocked", "granted", "gone"}]
        /\ amount \in [Thread -> Nat]
    BY DEF Init
  <2>2. stopped \in BOOLEAN
    BY Zenon DEF Init
  <2>3. /\ available \in 0..Base
        /\ underflow \in Nat
        /\ memSinceLowPriority \in Nat
        /\ mu \in {"free", "priority", "low"}
        /\ outstanding \in Nat
    BY BaseAssumption DEF Init
  <2> QED BY <2>1, <2>2, <2>3, Zenon DEF TypeOK
<1>2. Conservation /\ NoStrandedWaiter /\ LoopOrder
  BY BaseAssumption DEF Init, Conservation, NoStrandedWaiter, LoopOrder
<1> QED BY <1>1, <1>2, Zenon DEF IInv

\* A successful try keeps the counters in range and conserves memory.
LEMMA TakeConserves ==
  ASSUME TypeOK, Conservation, NEW a \in Nat, Take(a),
         a <= available \/ available = Base
  PROVE  /\ available' \in 0..Base
         /\ underflow' \in Nat
         /\ outstanding' \in Nat
         /\ Conservation'
BY BaseAssumption DEF TypeOK, Conservation, Take

\* What a successful try tells about the counter.
LEMMA TryMeans ==
  ASSUME TypeOK, NEW a \in Nat, NEW p \in BOOLEAN, try(a, p)
  PROVE  a <= available \/ available = Base
BY ReserveAssumption, BaseAssumption DEF TypeOK, try, Fits

\* A try that fails leaves memory out: with all memory back, try succeeds.
LEMMA FailedTryMeansOutstanding ==
  ASSUME TypeOK, Conservation, NEW a \in Nat, NEW p \in BOOLEAN, ~try(a, p)
  PROVE  outstanding > 0
BY BaseAssumption DEF TypeOK, Conservation, try

\* The pieces of the queues that Request builds are queues of threads.
LEMMA QueuePieces ==
  ASSUME TypeOK, NEW n \in 0..Len(fifo), NEW t \in Thread
  PROVE  /\ SubSeq(fifo, 1, n) \in Seq(Thread)
         /\ SubSeq(fifo, n + 1, Len(fifo)) \in Seq(Thread)
         /\ priorityFifo \o SubSeq(fifo, 1, n) \in Seq(Thread)
BY DEF TypeOK

LEMMA RequestIInv ==
  ASSUME IInv, NEW t \in Thread, NEW a \in Amounts, NEW p \in BOOLEAN,
         Request(t, a, p)
  PROVE  IInv'
<1> DEFINE since        == memSinceLowPriority + (IF p /\ fifo # <<>> THEN a ELSE 0)
           tracker      == IF p /\ fifo # <<>> /\ Starving(since) THEN 0 ELSE since
           urgent(n)    == priorityFifo \o SubSeq(fifo, 1, n)
           rest(n)      == SubSeq(fifo, n + 1, Len(fifo))
           shouldTry(n) == urgent(n) = <<>> /\ (p \/ rest(n) = <<>>)
<1>a. a \in Nat /\ a > 0
  BY AmountsAssumption
<1>b. PICK n \in 0..Len(fifo) :
        /\ mu = "free"
        /\ \/ /\ shouldTry(n) /\ try(a, p)
              /\ Take(a)
              /\ UNCHANGED <<pc, amount>>
              /\ memSinceLowPriority' = IF p THEN tracker ELSE 0
              /\ priorityFifo' = urgent(n)
              /\ fifo' = rest(n)
           \/ /\ ~(shouldTry(n) /\ try(a, p))
              /\ pc' = [pc EXCEPT ![t] = "blocked"]
              /\ amount' = [amount EXCEPT ![t] = a]
              /\ memSinceLowPriority' = tracker
              /\ priorityFifo' = IF p THEN Append(urgent(n), t) ELSE urgent(n)
              /\ fifo' = IF p THEN rest(n) ELSE Append(rest(n), t)
              /\ UNCHANGED <<available, underflow, outstanding>>
        /\ UNCHANGED <<mu, stopped>>
  BY Zenon DEF Request
<1>c. TypeOK /\ Conservation /\ NoStrandedWaiter
  BY Zenon DEF IInv
<1>d. tracker \in Nat
  BY <1>a, <1>c DEF TypeOK
<1>e. urgent(n) \in Seq(Thread) /\ rest(n) \in Seq(Thread)
  BY <1>c, QueuePieces, Zenon
<1>f. LoopOrder'
  BY <1>b, Zenon DEF LoopOrder
<1>1. CASE /\ shouldTry(n) /\ try(a, p)
           /\ Take(a)
           /\ UNCHANGED <<pc, amount>>
           /\ memSinceLowPriority' = IF p THEN tracker ELSE 0
           /\ priorityFifo' = urgent(n)
           /\ fifo' = rest(n)
  <2>1. /\ available' \in 0..Base
        /\ underflow' \in Nat
        /\ outstanding' \in Nat
        /\ Conservation'
    BY <1>a, <1>c, <1>1, TakeConserves, TryMeans, Zenon
  <2>2. memSinceLowPriority' \in Nat
    BY <1>1, <1>d, Zenon
  <2>3. outstanding' > 0
    BY <1>a, <1>c, <1>1 DEF Take, TypeOK
  <2>4. TypeOK'
    BY <1>b, <1>c, <1>e, <1>1, <2>1, <2>2, Zenon DEF TypeOK
  <2> QED BY <1>f, <2>1, <2>3, <2>4, Zenon DEF IInv, NoStrandedWaiter
<1>2. CASE /\ ~(shouldTry(n) /\ try(a, p))
           /\ pc' = [pc EXCEPT ![t] = "blocked"]
           /\ amount' = [amount EXCEPT ![t] = a]
           /\ memSinceLowPriority' = tracker
           /\ priorityFifo' = IF p THEN Append(urgent(n), t) ELSE urgent(n)
           /\ fifo' = IF p THEN rest(n) ELSE Append(rest(n), t)
           /\ UNCHANGED <<available, underflow, outstanding>>
  <2>1. fifo' \in Seq(Thread) /\ priorityFifo' \in Seq(Thread)
    BY <1>e, <1>2
  <2>2. TypeOK'
    BY <1>a, <1>b, <1>c, <1>d, <1>2, <2>1, Zenon DEF TypeOK
  <2>3. outstanding > 0
    <3>1. CASE try(a, p)
      <4>1. urgent(n) # <<>> \/ rest(n) # <<>>
        BY <1>2, <3>1, Zenon
      <4>2. fifo # <<>> \/ priorityFifo # <<>>
        BY <1>c, <4>1 DEF TypeOK
      <4> QED BY <1>b, <1>c, <4>2, Zenon DEF NoStrandedWaiter
    <3>2. CASE ~try(a, p)
      BY <1>a, <1>c, <3>2, FailedTryMeansOutstanding, Zenon
    <3> QED BY <3>1, <3>2, Zenon
  <2>4. Conservation' /\ NoStrandedWaiter'
    BY <1>c, <1>2, <2>3, Zenon DEF Conservation, NoStrandedWaiter
  <2> QED BY <1>f, <2>2, <2>4, Zenon DEF IInv
<1> QED BY <1>b, <1>1, <1>2, Zenon

LEMMA ResumeIInv ==
  ASSUME IInv, NEW t \in Thread, Resume(t) \/ GiveUp(t)
  PROVE  IInv'
<1>1. pc' \in [Thread -> {"idle", "blocked", "granted", "gone"}]
  BY Zenon DEF Resume, GiveUp, IInv, TypeOK
<1>2. TypeOK'
  BY <1>1, Zenon DEF Resume, GiveUp, IInv, TypeOK
<1> QED
  BY <1>2, Zenon DEF Resume, GiveUp, IInv, Conservation, NoStrandedWaiter, LoopOrder

LEMMA ReturnIInv ==
  ASSUME IInv, NEW a \in 1..outstanding, Return(a)
  PROVE  IInv'
<1>0. TypeOK /\ Conservation
  BY Zenon DEF IInv
<1>1. /\ available' \in 0..Base
      /\ underflow' \in Nat
      /\ outstanding' \in Nat
      /\ Conservation'
  <2>1. CASE underflow > 0 /\ a <= underflow
    BY <1>0, <2>1, BaseAssumption DEF Return, TypeOK, Conservation
  <2>2. CASE ~(underflow > 0 /\ a <= underflow)
    <3>1. available + (a - underflow) \in 0..Base
      BY <1>0, <2>2, BaseAssumption DEF TypeOK, Conservation
    <3>2. available' = available + (a - underflow) /\ underflow' = 0
      BY <1>0, <2>2, <3>1, BaseAssumption DEF Return, TypeOK
    <3> QED
      BY <1>0, <3>1, <3>2, BaseAssumption DEF Return, TypeOK, Conservation
  <2> QED BY <2>1, <2>2, Zenon
<1>2. mu' \in {"free", "priority"}
  BY Zenon DEF Return
<1>3. TypeOK'
  BY <1>0, <1>1, <1>2, Zenon DEF Return, TypeOK
<1>4. mu' = "free" => outstanding' > 0
  BY <1>0, BaseAssumption DEF Return, TypeOK, Conservation
<1> QED BY <1>1, <1>2, <1>3, <1>4, Zenon DEF IInv, NoStrandedWaiter, LoopOrder

\* Closing a done channel moves one thread and keeps the type of pc.
LEMMA UnblockType ==
  ASSUME TypeOK, NEW t \in Thread, Unblock(t)
  PROVE  pc' \in [Thread -> {"idle", "blocked", "granted", "gone"}]
BY Zenon DEF TypeOK, Unblock

LEMMA ReleasePriorityIInv ==
  ASSUME IInv, ReleasePriority
  PROVE  IInv'
<1>0. TypeOK /\ Conservation
  BY Zenon DEF IInv
<1>1. CASE priorityFifo = <<>>
  <2>0. mu' = "low" /\ UNCHANGED <<available, underflow, priorityFifo, pc,
          outstanding, memSinceLowPriority, fifo, amount, stopped>>
    BY <1>1, Zenon DEF ReleasePriority
  <2>1. TypeOK'
    BY <1>0, <2>0, Zenon DEF TypeOK
  <2> QED
    BY <1>0, <1>1, <2>0, <2>1, Zenon
       DEF IInv, Conservation, NoStrandedWaiter, LoopOrder
<1>2. CASE priorityFifo # <<>>
  <2> DEFINE t == Head(priorityFifo)
  <2>1. t \in Thread /\ Tail(priorityFifo) \in Seq(Thread)
    BY <1>0, <1>2 DEF TypeOK
  <2>2. amount[t] \in Nat
    BY <1>0, <2>1, Zenon DEF TypeOK
  <2>3. CASE ~try(amount[t], TRUE)
    <3>1. mu' = "free" /\ UNCHANGED <<available, underflow, priorityFifo, pc,
            outstanding, memSinceLowPriority, fifo, amount, stopped>>
      BY <1>2, <2>3, Zenon DEF ReleasePriority
    <3>2. outstanding > 0
      BY <1>0, <2>2, <2>3, FailedTryMeansOutstanding, Zenon
    <3>3. TypeOK'
      BY <1>0, <3>1, Zenon DEF TypeOK
    <3> QED
      BY <1>0, <3>1, <3>2, <3>3, Zenon
         DEF IInv, Conservation, NoStrandedWaiter, LoopOrder
  <2>4. CASE try(amount[t], TRUE)
    <3>1. /\ Take(amount[t])
          /\ Unblock(t)
          /\ priorityFifo' = Tail(priorityFifo)
          /\ mu' = "priority"
          /\ UNCHANGED <<memSinceLowPriority, fifo, amount, stopped>>
      BY <1>2, <2>4, Zenon DEF ReleasePriority
    <3>2. /\ available' \in 0..Base
          /\ underflow' \in Nat
          /\ outstanding' \in Nat
          /\ Conservation'
      BY <1>0, <2>2, <2>4, <3>1, TakeConserves, TryMeans, Zenon
    <3>3. TypeOK'
      BY <1>0, <2>1, <3>1, <3>2, UnblockType, Zenon DEF TypeOK
    <3> QED BY <3>1, <3>2, <3>3, Zenon DEF IInv, NoStrandedWaiter, LoopOrder
  <2> QED BY <2>3, <2>4, Zenon
<1> QED BY <1>1, <1>2, Zenon

LEMMA ReleaseLowIInv ==
  ASSUME IInv, ReleaseLow
  PROVE  IInv'
<1>0. TypeOK /\ Conservation /\ priorityFifo = <<>>
  BY Zenon DEF IInv, LoopOrder, ReleaseLow
<1>1. CASE fifo = <<>>
  <2>0. mu' = "free" /\ UNCHANGED <<available, underflow, priorityFifo, pc,
          outstanding, memSinceLowPriority, fifo, amount, stopped>>
    BY <1>1, Zenon DEF ReleaseLow
  <2>1. TypeOK'
    BY <1>0, <2>0, Zenon DEF TypeOK
  <2> QED
    BY <1>0, <1>1, <2>0, <2>1, Zenon
       DEF IInv, Conservation, NoStrandedWaiter, LoopOrder
<1>2. CASE fifo # <<>>
  <2> DEFINE t == Head(fifo)
  <2>1. t \in Thread /\ Tail(fifo) \in Seq(Thread)
    BY <1>0, <1>2 DEF TypeOK
  <2>2. amount[t] \in Nat
    BY <1>0, <2>1, Zenon DEF TypeOK
  <2>3. CASE ~try(amount[t], FALSE)
    <3>1. mu' = "free" /\ UNCHANGED <<available, underflow, priorityFifo, pc,
            outstanding, memSinceLowPriority, fifo, amount, stopped>>
      BY <1>2, <2>3, Zenon DEF ReleaseLow
    <3>2. outstanding > 0
      BY <1>0, <2>2, <2>3, FailedTryMeansOutstanding, Zenon
    <3>3. TypeOK'
      BY <1>0, <3>1, Zenon DEF TypeOK
    <3> QED
      BY <1>0, <3>1, <3>2, <3>3, Zenon
         DEF IInv, Conservation, NoStrandedWaiter, LoopOrder
  <2>4. CASE try(amount[t], FALSE)
    <3>1. /\ Take(amount[t])
          /\ Unblock(t)
          /\ fifo' = Tail(fifo)
          /\ mu' = "low"
          /\ memSinceLowPriority' = 0
          /\ UNCHANGED <<priorityFifo, amount, stopped>>
      BY <1>2, <2>4, Zenon DEF ReleaseLow
    <3>2. /\ available' \in 0..Base
          /\ underflow' \in Nat
          /\ outstanding' \in Nat
          /\ Conservation'
      BY <1>0, <2>2, <2>4, <3>1, TakeConserves, TryMeans, Zenon
    <3>3. TypeOK'
      BY <1>0, <2>1, <3>1, <3>2, UnblockType, Zenon DEF TypeOK
    <3> QED BY <1>0, <3>1, <3>2, <3>3, Zenon DEF IInv, NoStrandedWaiter, LoopOrder
  <2> QED BY <2>3, <2>4, Zenon
<1> QED BY <1>1, <1>2, Zenon

LEMMA StopIInv ==
  ASSUME IInv, Stop
  PROVE  IInv'
<1>1. stopped' \in BOOLEAN
  BY Zenon DEF Stop
<1>2. TypeOK'
  BY <1>1, Zenon DEF Stop, IInv, TypeOK
<1> QED BY <1>2, Zenon DEF Stop, IInv, Conservation, NoStrandedWaiter, LoopOrder

\* Every step of the manager preserves the invariant.
LEMMA NextIInv == IInv /\ [Next]_vars => IInv'
<1> SUFFICES ASSUME IInv, [Next]_vars PROVE IInv'
  BY Zenon
<1>1. CASE Next
  BY <1>1, RequestIInv, ResumeIInv, ReturnIInv, ReleasePriorityIInv,
     ReleaseLowIInv, StopIInv, Zenon DEF Next
<1>2. CASE UNCHANGED vars
  BY <1>2, Zenon DEF vars, IInv, TypeOK, Conservation, NoStrandedWaiter, LoopOrder
<1> QED BY <1>1, <1>2, Zenon

\* The inductive invariant holds in every reachable state.
THEOREM Invariance == Spec => []IInv
BY InitIInv, NextIInv, PTL DEF Spec

\* The counters and queues of memory.go keep their types; in particular
\* mm.available, a uint64, never goes below zero and never beyond the base.
THEOREM TypeCorrect == Spec => []TypeOK
BY Invariance, PTL DEF IInv

\* Memory is neither created nor lost by any interleaving of Request, Return
\* and the release loops, for every base memory and every size of request.
THEOREM MemoryConserved == Spec => []Conservation
BY Invariance, PTL DEF IInv

\* A queued request always has a Return ahead of it that will look at it.
THEOREM WaitersNeverStranded == Spec => []NoStrandedWaiter
BY Invariance, PTL DEF IInv

\* The counters, the memory and the queues together, for every base memory,
\* reserve and size of request.
THEOREM MemoryAlwaysSafe == Spec => []MemorySafe
<1>1. TypeOK /\ Conservation /\ NoStrandedWaiter => MemorySafe
  BY Zenon DEF MemorySafe
<1> QED BY <1>1, TypeCorrect, MemoryConserved, WaitersNeverStranded, PTL

(***************************************************************************)
(* A grant beyond the base memory happens only with nothing else out: the  *)
(* counter covers the amount, or it is at the base and then, by            *)
(* Conservation, nothing is out.                                           *)
(***************************************************************************)
LEMMA GrantAlone ==
  ASSUME IInv, NEW a \in Nat, Take(a), a <= available \/ available = Base,
         outstanding' > outstanding, outstanding' > Base
  PROVE  outstanding = 0
BY BaseAssumption DEF IInv, TypeOK, Conservation, Take

LEMMA NextOversizedAlone ==
  ASSUME IInv, Next, outstanding' > outstanding, outstanding' > Base
  PROVE  outstanding = 0
<1>0. TypeOK
  BY Zenon DEF IInv
<1>z. outstanding' # outstanding
  BY <1>0 DEF TypeOK
<1>1. ASSUME NEW t \in Thread, NEW a \in Amounts, NEW p \in BOOLEAN,
             Request(t, a, p)
      PROVE  outstanding = 0
  <2>1. Take(a) /\ try(a, p)
    BY <1>0, <1>1 DEF Request, TypeOK
  <2> QED BY <1>0, <2>1, TryMeans, GrantAlone, AmountsAssumption, Zenon
<1>2. ASSUME NEW t \in Thread, Resume(t) \/ GiveUp(t)
      PROVE  outstanding = 0
  BY <1>0, <1>2 DEF Resume, GiveUp, TypeOK
<1>3. ASSUME NEW a \in 1..outstanding, Return(a)
      PROVE  outstanding = 0
  BY <1>0, <1>3 DEF Return, TypeOK
<1>4. CASE ReleasePriority
  <2>1. /\ priorityFifo # <<>>
        /\ try(amount[Head(priorityFifo)], TRUE)
        /\ Take(amount[Head(priorityFifo)])
    BY <1>z, <1>4, Zenon DEF ReleasePriority
  <2>2. Head(priorityFifo) \in Thread
    BY <1>0, <2>1 DEF TypeOK
  <2>3. amount[Head(priorityFifo)] \in Nat
    BY <1>0, <2>2, Zenon DEF TypeOK
  <2> QED BY <1>0, <2>1, <2>3, TryMeans, GrantAlone, Zenon
<1>5. CASE ReleaseLow
  <2>1. /\ fifo # <<>>
        /\ try(amount[Head(fifo)], FALSE)
        /\ Take(amount[Head(fifo)])
    BY <1>z, <1>5, Zenon DEF ReleaseLow
  <2>2. Head(fifo) \in Thread
    BY <1>0, <2>1 DEF TypeOK
  <2>3. amount[Head(fifo)] \in Nat
    BY <1>0, <2>2, Zenon DEF TypeOK
  <2> QED BY <1>0, <2>1, <2>3, TryMeans, GrantAlone, Zenon
<1>6. CASE Stop
  BY <1>0, <1>6 DEF Stop, TypeOK
<1> QED BY <1>1, <1>2, <1>3, <1>4, <1>5, <1>6, Zenon DEF Next

\* The memory manager overcommits only for one request that has all of it.
THEOREM OversizedGrantsAlone == Spec => OversizedAlone
<1>1. IInv /\ [Next]_vars =>
        [outstanding' > outstanding /\ outstanding' > Base => outstanding = 0]_vars
  BY NextOversizedAlone, Zenon
<1> QED BY <1>1, Invariance, PTL DEF Spec, OversizedAlone

(***************************************************************************)
(* A low priority grant either fits above the reserve or finds the counter *)
(* at the base, and then nothing was out.                                  *)
(***************************************************************************)
LEMMA LowGrantKeeps ==
  ASSUME IInv, NEW a \in Nat, Take(a), try(a, FALSE), outstanding > 0
  PROVE  available' >= Reserve
<1>1. available >= a + Reserve
  BY BaseAssumption DEF try, Fits, IInv, TypeOK, Conservation
<1> QED BY <1>1, BaseAssumption, ReserveAssumption DEF Take, IInv, TypeOK

LEMMA NextReserveKept ==
  ASSUME IInv, LowGrant
  PROVE  priorityFifo = <<>> /\ (outstanding > 0 => available' >= Reserve)
<1>0. TypeOK
  BY Zenon DEF IInv
<1>z. outstanding' # outstanding
  BY <1>0 DEF TypeOK, LowGrant
<1>1. CASE ReleaseLow
  <2>1. /\ mu = "low" /\ fifo # <<>>
        /\ try(amount[Head(fifo)], FALSE)
        /\ Take(amount[Head(fifo)])
    BY <1>z, <1>1, Zenon DEF ReleaseLow
  <2>2. Head(fifo) \in Thread
    BY <1>0, <2>1 DEF TypeOK
  <2>3. amount[Head(fifo)] \in Nat
    BY <1>0, <2>2, Zenon DEF TypeOK
  <2>4. priorityFifo = <<>>
    BY <2>1, Zenon DEF IInv, LoopOrder
  <2> QED BY <2>1, <2>3, <2>4, LowGrantKeeps, Zenon
<1>2. ASSUME NEW t \in Thread, NEW a \in Amounts, Request(t, a, FALSE)
      PROVE  priorityFifo = <<>> /\ (outstanding > 0 => available' >= Reserve)
  <2>1. PICK n \in 0..Len(fifo) :
           n = 0 /\ priorityFifo \o SubSeq(fifo, 1, n) = <<>> /\ try(a, FALSE) /\ Take(a)
    BY <1>z, <1>2, Zenon DEF Request
  <2>2. priorityFifo = <<>>
    <3>1. SubSeq(fifo, 1, n) \in Seq(Thread)
      BY <1>0, <2>1, QueuePieces, Zenon
    <3> QED BY <1>0, <2>1, <3>1 DEF TypeOK
  <2> QED BY <2>1, <2>2, LowGrantKeeps, AmountsAssumption, Zenon
<1> QED BY <1>1, <1>2, Zenon DEF LowGrant

\* Low priority requests leave the reserve to the high priority ones and never
\* overtake one that is waiting, whatever the reserve and the sizes.
THEOREM ReserveAlwaysKept == Spec => ReserveKept
<1>1. IInv /\ [Next]_vars =>
        [LowGrant => /\ priorityFifo = <<>>
                     /\ outstanding > 0 => available' >= Reserve]_vars
  BY NextReserveKept, Zenon
<1> QED BY <1>1, Invariance, PTL DEF Spec, ReserveKept
=============================================================================
