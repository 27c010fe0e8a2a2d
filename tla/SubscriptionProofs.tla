------------------------- MODULE SubscriptionProofs -------------------------
(***************************************************************************)
(* Proofs about Subscription, for every set of modules, every batch size   *)
(* and every bound on the changelog.                                       *)
(***************************************************************************)
EXTENDS Subscription, TLAPS

\* The places of a call.
Label == {"out", "initialize", "next batch", "send", "check", "in"}

\* What the local variables of a call say of the changes already processed.
CallInv ==
    \A s \in Subscriber :
        /\ pc[s] \in {"initialize", "check"} => start[s] = last[s]
        /\ pc[s] \in {"next batch", "send"} => entry[s] = last[s] + 1 /\ entry[s] <= log
        /\ pc[s] = "send" => ~writer /\ sent[s] < BatchSize
        /\ pc[s] = "in" <=> s \in subscribers

\* updateSubscribers is at change cur, the members of todo are one behind.
NotifyInv ==
    writer => /\ cur <= log
              /\ \A s \in subscribers : last[s] = IF s \in todo THEN cur - 1 ELSE cur

\* Nobody is left to notify while cs.mu is free.
TodoInv == ~writer => todo = {}

IInv == TypeOK /\ CallInv /\ NotifyInv /\ TodoInv /\ CaughtUp

\* A function with the value at one argument replaced.
LEMMA ExceptFacts ==
  ASSUME NEW S, NEW T, NEW f \in [S -> T], NEW s \in S, NEW v \in T, NEW g,
         g = [f EXCEPT ![s] = v]
  PROVE  /\ g \in [S -> T] /\ g[s] = v
         /\ \A t \in S \ {s} : g[t] = f[t]
BY Zenon

\* A function that stays is replaced by itself.
LEMMA ExceptSame ==
  ASSUME NEW S, NEW T, NEW f \in [S -> T], NEW s \in S
  PROVE  f = [f EXCEPT ![s] = f[s]] /\ f[s] \in T
BY Zenon

\* The initial state satisfies the invariant.
LEMMA InitIInv == Init => IInv
<1> SUFFICES ASSUME Init PROVE IInv
  BY Zenon
<1>1. TypeOK
  <2>1. writer \in BOOLEAN
    BY Zenon DEF Init
  <2>2. /\ log \in Nat \ {0} /\ cur \in Nat \ {0}
        /\ subscribers \subseteq Subscriber /\ todo \subseteq subscribers
        /\ start \in [Subscriber -> Nat] /\ entry \in [Subscriber -> Nat]
        /\ sent \in [Subscriber -> 0..BatchSize]
        /\ last \in [Subscriber -> Nat] /\ saved \in [Subscriber -> Nat]
    BY SizeAssumption DEF Init
  <2>3. pc \in [Subscriber -> Label]
    BY Zenon DEF Init, Label
  <2> QED BY <2>1, <2>2, <2>3, Zenon DEF TypeOK, Label
<1>2. CallInv
  BY Zenon DEF Init, CallInv
<1>3. NotifyInv /\ TodoInv /\ CaughtUp
  BY Zenon DEF Init, NotifyInv, TodoInv, CaughtUp
<1> QED BY <1>1, <1>2, <1>3, Zenon DEF IInv

\* While the write lock can be taken, no module is inside a batch.
LEMMA NoReader ==
  ASSUME CanWrite, NEW s \in Subscriber
  PROVE  pc[s] # "send"
BY Zenon DEF CanWrite, Readers

\* A step of one module's call that leaves the log, the list of subscribers
\* and the notification alone.
LEMMA CallStep ==
  ASSUME IInv, NEW s \in Subscriber, s \notin subscribers,
         NEW a \in Nat, NEW e \in Nat, NEW n \in 0..BatchSize, NEW l \in Nat,
         NEW p \in Label \ {"in"},
         UNCHANGED <<log, subscribers, notifying>>,
         start' = [start EXCEPT ![s] = a], entry' = [entry EXCEPT ![s] = e],
         sent' = [sent EXCEPT ![s] = n], last' = [last EXCEPT ![s] = l],
         pc' = [pc EXCEPT ![s] = p], saved' \in [Subscriber -> Nat],
         p \in {"initialize", "check"} => a = l,
         p \in {"next batch", "send"} => e = l + 1 /\ e <= log,
         p = "send" => ~writer /\ n < BatchSize
  PROVE  IInv'
<1>0. /\ start' \in [Subscriber -> Nat] /\ start'[s] = a
      /\ entry' \in [Subscriber -> Nat] /\ entry'[s] = e
      /\ sent' \in [Subscriber -> 0..BatchSize] /\ sent'[s] = n
      /\ last' \in [Subscriber -> Nat] /\ last'[s] = l
      /\ pc' \in [Subscriber -> Label] /\ pc'[s] = p
      /\ \A t \in Subscriber \ {s} :
            /\ start'[t] = start[t] /\ entry'[t] = entry[t] /\ sent'[t] = sent[t]
            /\ last'[t] = last[t] /\ pc'[t] = pc[t]
  <2>1. /\ start \in [Subscriber -> Nat] /\ entry \in [Subscriber -> Nat]
        /\ sent \in [Subscriber -> 0..BatchSize]
        /\ last \in [Subscriber -> Nat] /\ pc \in [Subscriber -> Label]
    BY Zenon DEF IInv, TypeOK, Label
  <2>2. /\ start' \in [Subscriber -> Nat] /\ start'[s] = a
        /\ \A t \in Subscriber \ {s} : start'[t] = start[t]
    BY <2>1, ExceptFacts, Zenon
  <2>3. /\ entry' \in [Subscriber -> Nat] /\ entry'[s] = e
        /\ \A t \in Subscriber \ {s} : entry'[t] = entry[t]
    BY <2>1, ExceptFacts, Zenon
  <2>4. /\ sent' \in [Subscriber -> 0..BatchSize] /\ sent'[s] = n
        /\ \A t \in Subscriber \ {s} : sent'[t] = sent[t]
    BY <2>1, ExceptFacts, Zenon
  <2>5. /\ last' \in [Subscriber -> Nat] /\ last'[s] = l
        /\ \A t \in Subscriber \ {s} : last'[t] = last[t]
    BY <2>1, ExceptFacts, Zenon
  <2>6. /\ pc' \in [Subscriber -> Label] /\ pc'[s] = p
        /\ \A t \in Subscriber \ {s} : pc'[t] = pc[t]
    BY <2>1, ExceptFacts, Zenon
  <2> QED BY <2>2, <2>3, <2>4, <2>5, <2>6, Zenon
<1>1. log' = log /\ subscribers' = subscribers /\ writer' = writer
      /\ cur' = cur /\ todo' = todo
  BY Zenon DEF notifying
<1>2. TypeOK'
  <2>1. writer' \in BOOLEAN
    BY <1>1, Zenon DEF IInv, TypeOK
  <2>2. /\ log' \in Nat \ {0} /\ cur' \in Nat \ {0}
        /\ subscribers' \subseteq Subscriber /\ todo' \subseteq subscribers'
    BY <1>1, Zenon DEF IInv, TypeOK
  <2> QED BY <1>0, <2>1, <2>2, Zenon DEF TypeOK, Label
<1>3. CallInv'
  <2> SUFFICES ASSUME NEW t \in Subscriber
               PROVE  /\ pc'[t] \in {"initialize", "check"} => start'[t] = last'[t]
                      /\ pc'[t] \in {"next batch", "send"} =>
                            entry'[t] = last'[t] + 1 /\ entry'[t] <= log
                      /\ pc'[t] = "send" => ~writer /\ sent'[t] < BatchSize
                      /\ pc'[t] = "in" <=> t \in subscribers
    BY <1>1, Zenon DEF CallInv
  <2>1. CASE t = s
    BY <1>0, <2>1, Zenon
  <2>2. CASE t # s
    BY <1>0, <2>2, Zenon DEF IInv, CallInv
  <2> QED BY <2>1, <2>2, Zenon
<1>4. \A t \in subscribers : last'[t] = last[t]
  BY <1>0, Zenon DEF IInv, TypeOK
<1>5. NotifyInv'
  BY <1>1, <1>4, Zenon DEF IInv, NotifyInv
<1>6. CaughtUp' /\ TodoInv'
  BY <1>1, <1>4, Zenon DEF IInv, CaughtUp, TodoInv
<1> QED BY <1>2, <1>3, <1>5, <1>6, Zenon DEF IInv

\* The types of the variables of a call, each replaced by itself.
LEMMA CallTypes ==
  ASSUME IInv, NEW s \in Subscriber
  PROVE  /\ log \in Nat /\ BatchSize \in Nat /\ 0 \in 0..BatchSize
         /\ saved \in [Subscriber -> Nat]
         /\ start[s] \in Nat /\ start = [start EXCEPT ![s] = start[s]]
         /\ entry[s] \in Nat /\ entry = [entry EXCEPT ![s] = entry[s]]
         /\ sent[s] \in 0..BatchSize /\ sent = [sent EXCEPT ![s] = sent[s]]
         /\ last[s] \in Nat /\ last = [last EXCEPT ![s] = last[s]]
<1>1. BatchSize \in Nat /\ 0 \in 0..BatchSize
  BY SizeAssumption
<1>3. log \in Nat /\ saved \in [Subscriber -> Nat]
  BY Zenon DEF IInv, TypeOK
<1>2. /\ start \in [Subscriber -> Nat] /\ entry \in [Subscriber -> Nat]
      /\ sent \in [Subscriber -> 0..BatchSize] /\ last \in [Subscriber -> Nat]
  BY Zenon DEF IInv, TypeOK
<1> QED BY <1>1, <1>2, <1>3, ExceptSame, Zenon

\* Starting a subscription.
LEMMA SubscribeIInv ==
  ASSUME IInv, NEW s \in Subscriber, NEW id \in Nat, NEW p \in {"initialize", "check"},
         SubscribeFrom(s, id), pc' = [pc EXCEPT ![s] = p],
         saved' \in [Subscriber -> Nat],
         UNCHANGED <<log, subscribers, notifying, entry, sent>>
  PROVE  IInv'
<1>1. s \notin subscribers
  BY Zenon DEF SubscribeFrom, IInv, CallInv
<1>2. start' = [start EXCEPT ![s] = id] /\ last' = [last EXCEPT ![s] = id]
  BY Zenon DEF SubscribeFrom
<1>3. p \in Label \ {"in"} /\ p \notin {"next batch", "send"}
  BY Zenon DEF Label
<1>4. /\ entry' = [entry EXCEPT ![s] = entry[s]] /\ entry[s] \in Nat
      /\ sent' = [sent EXCEPT ![s] = sent[s]] /\ sent[s] \in 0..BatchSize
  BY CallTypes, Zenon
<1> QED BY <1>1, <1>2, <1>3, <1>4, CallStep, Zenon

\* The steps of a call: what it sends is the change after the last one.
LEMMA SubscribingIInv ==
  ASSUME IInv, NEW s \in Subscriber,
         InitializeSubscribe(s) \/ NextBatch(s) \/ SendChange(s) \/ Cancel(s)
         \/ StopSubscribing(s)
  PROVE  IInv'
<1>0. /\ log \in Nat /\ BatchSize \in Nat /\ 0 \in 0..BatchSize
      /\ start[s] \in Nat /\ entry[s] \in Nat /\ sent[s] \in 0..BatchSize
      /\ last[s] \in Nat
  BY CallTypes, Zenon
<1>e. /\ start = [start EXCEPT ![s] = start[s]] /\ entry = [entry EXCEPT ![s] = entry[s]]
      /\ sent = [sent EXCEPT ![s] = sent[s]] /\ last = [last EXCEPT ![s] = last[s]]
      /\ saved \in [Subscriber -> Nat]
  BY CallTypes, Zenon
<1>1. /\ pc[s] \in {"initialize", "check"} => start[s] = last[s]
      /\ pc[s] \in {"next batch", "send"} => entry[s] = last[s] + 1 /\ entry[s] <= log
      /\ pc[s] = "send" => ~writer /\ sent[s] < BatchSize
      /\ pc[s] = "in" <=> s \in subscribers
  BY Zenon DEF IInv, CallInv
<1>l. /\ "out" \in Label \ {"in"} /\ "check" \in Label \ {"in"}
      /\ "next batch" \in Label \ {"in"} /\ "send" \in Label \ {"in"}
  BY Zenon DEF Label
<1>2. ASSUME UNCHANGED <<log, subscribers, notifying, last, saved>>, Return(s),
             pc' = [pc EXCEPT ![s] = "out"], s \notin subscribers
      PROVE  IInv'
  <2>1. /\ start' = [start EXCEPT ![s] = 0] /\ entry' = [entry EXCEPT ![s] = 1]
        /\ sent' = [sent EXCEPT ![s] = 0] /\ last' = [last EXCEPT ![s] = last[s]]
        /\ saved' \in [Subscriber -> Nat]
    BY <1>e, <1>2, Zenon DEF Return
  <2> QED BY <1>0, <1>2, <1>l, <2>1, CallStep, Zenon
<1>3. CASE InitializeSubscribe(s)
  <2>1. /\ pc[s] = "initialize" /\ UNCHANGED <<log, subscribers, notifying, last, saved>>
        /\ s \notin subscribers
    BY <1>1, <1>3, Zenon DEF InitializeSubscribe
  <2>2. CASE start[s] > log /\ Return(s) /\ pc' = [pc EXCEPT ![s] = "out"]
    BY <1>2, <2>1, <2>2, Zenon
  <2>3. CASE pc' = [pc EXCEPT ![s] = "check"] /\ UNCHANGED <<start, entry, sent>>
    <3>1. /\ start' = [start EXCEPT ![s] = start[s]] /\ entry' = [entry EXCEPT ![s] = entry[s]]
          /\ sent' = [sent EXCEPT ![s] = sent[s]] /\ last' = [last EXCEPT ![s] = last[s]]
          /\ saved' \in [Subscriber -> Nat]
      BY <1>e, <2>1, <2>3, Zenon
    <3>2. start[s] = last[s]
      BY <1>1, <2>1, Zenon
    <3> DEFINE p == "check"
    <3>3. p \in Label \ {"in"} /\ p \notin {"next batch", "send"} /\ pc' = [pc EXCEPT ![s] = p]
      BY <1>l, <2>3, Zenon
    <3>4. s \notin subscribers /\ UNCHANGED <<log, subscribers, notifying>>
      BY <2>1, Zenon
    <3> HIDE DEF p
    <3> QED BY <1>0, <3>1, <3>2, <3>3, <3>4, CallStep, Zenon
  <2>4. CASE /\ start[s] < log /\ pc' = [pc EXCEPT ![s] = "next batch"]
             /\ entry' = [entry EXCEPT ![s] = start[s] + 1]
             /\ UNCHANGED <<start, sent>>
    <3>1. start[s] + 1 \in Nat /\ start[s] + 1 <= log /\ start[s] + 1 = last[s] + 1
      <4>1. start[s] = last[s]
        BY <1>1, <2>1, Zenon
      <4>2. start[s] < log
        BY <2>4, Zenon
      <4> QED BY <1>0, <4>1, <4>2
    <3>2. /\ start' = [start EXCEPT ![s] = start[s]] /\ sent' = [sent EXCEPT ![s] = sent[s]]
          /\ last' = [last EXCEPT ![s] = last[s]] /\ saved' \in [Subscriber -> Nat]
      BY <1>e, <2>1, <2>4, Zenon
    <3> DEFINE p == "next batch"
    <3>3. /\ p \in Label \ {"in"} /\ p \notin {"initialize", "check", "send"}
          /\ pc' = [pc EXCEPT ![s] = p] /\ entry' = [entry EXCEPT ![s] = start[s] + 1]
      BY <1>l, <2>4, Zenon
    <3>4. s \notin subscribers /\ UNCHANGED <<log, subscribers, notifying>>
      BY <2>1, Zenon
    <3> HIDE DEF p
    <3> QED BY <1>0, <3>1, <3>2, <3>3, <3>4, CallStep, Zenon
  <2> QED BY <1>3, <2>2, <2>3, <2>4, Zenon DEF InitializeSubscribe
<1>4. CASE NextBatch(s)
  <2>1. /\ pc[s] = "next batch" /\ ~writer /\ s \notin subscribers
        /\ UNCHANGED <<log, subscribers, notifying>>
        /\ start' = start /\ entry' = entry /\ last' = last /\ saved' = saved
        /\ pc' = [pc EXCEPT ![s] = "send"] /\ sent' = [sent EXCEPT ![s] = 0]
    BY <1>1, <1>4, Zenon DEF NextBatch, CanRead
  <2>2. 0 < BatchSize
    BY SizeAssumption
  <2>3. /\ start' = [start EXCEPT ![s] = start[s]] /\ entry' = [entry EXCEPT ![s] = entry[s]]
        /\ last' = [last EXCEPT ![s] = last[s]] /\ saved' \in [Subscriber -> Nat]
    BY <1>e, <2>1, Zenon
  <2>4. entry[s] = last[s] + 1 /\ entry[s] <= log
    BY <1>1, <2>1, Zenon
  <2> DEFINE p == "send"
  <2>5. /\ p \in Label \ {"in"} /\ p \notin {"initialize", "check"}
        /\ pc' = [pc EXCEPT ![s] = p] /\ sent' = [sent EXCEPT ![s] = 0]
    BY <1>l, <2>1, Zenon
  <2>6. ~writer /\ s \notin subscribers /\ UNCHANGED <<log, subscribers, notifying>>
    BY <2>1, Zenon
  <2> HIDE DEF p
  <2> QED BY <1>0, <2>2, <2>3, <2>4, <2>5, <2>6, CallStep, Zenon
<1>5. CASE SendChange(s)
  <2> DEFINE p == IF entry[s] = log THEN "check"
                  ELSE IF sent[s] + 1 = BatchSize THEN "next batch"
                  ELSE "send"
  <2>1. /\ ~writer /\ s \notin subscribers /\ saved' = saved
        /\ UNCHANGED <<log, subscribers, notifying>>
        /\ last' = [last EXCEPT ![s] = entry[s]]
        /\ start' = [start EXCEPT ![s] = entry[s]]
        /\ entry' = [entry EXCEPT ![s] = entry[s] + 1]
        /\ sent' = [sent EXCEPT ![s] = sent[s] + 1]
        /\ pc' = [pc EXCEPT ![s] = p]
    BY <1>1, <1>5, Zenon DEF SendChange
  <2>2. /\ entry[s] + 1 \in Nat /\ sent[s] + 1 \in 0..BatchSize
        /\ p \in {"next batch", "send"} => entry[s] + 1 <= log
        /\ p = "send" => sent[s] + 1 < BatchSize
    <3>1. pc[s] = "send"
      BY <1>5, Zenon DEF SendChange
    <3>2. entry[s] <= log /\ sent[s] < BatchSize
      BY <1>1, <3>1, Zenon
    <3> QED BY <1>0, <3>2
  <2>3. p \in Label \ {"in"} /\ p # "initialize"
    BY <1>l, Zenon
  <2> HIDE DEF p
  <2> QED BY <1>0, <1>e, <2>1, <2>2, <2>3, CallStep, Zenon
<1>6. CASE Cancel(s)
  BY <1>1, <1>2, <1>6, Zenon DEF Cancel
<1>7. CASE StopSubscribing(s)
  BY <1>1, <1>2, <1>7, Zenon DEF StopSubscribing
<1> QED BY <1>3, <1>4, <1>5, <1>6, <1>7, Zenon

\* The end of the catch-up loop: the module joins having processed everything.
LEMMA JoinIInv ==
  ASSUME IInv, NEW s \in Subscriber, Join(s)
  PROVE  IInv'
<1>1. /\ pc[s] = "check" /\ ~writer /\ start[s] = last[s] /\ s \notin subscribers
      /\ log' = log /\ writer' = writer /\ cur' = cur /\ todo' = todo /\ last' = last
      /\ saved' = saved
  BY Zenon DEF Join, CanWrite, notifying, IInv, CallInv
<1>2. CASE start[s] # log /\ pc' = [pc EXCEPT ![s] = "initialize"]
           /\ UNCHANGED <<subscribers, start, entry, sent>>
  <2> DEFINE p == "initialize"
  <2>1. /\ p \in Label \ {"in"} /\ p \notin {"next batch", "send"}
        /\ pc' = [pc EXCEPT ![s] = p]
    BY <1>2, Zenon DEF Label
  <2>2. /\ start' = [start EXCEPT ![s] = start[s]] /\ entry' = [entry EXCEPT ![s] = entry[s]]
        /\ sent' = [sent EXCEPT ![s] = sent[s]] /\ last' = [last EXCEPT ![s] = last[s]]
        /\ saved' \in [Subscriber -> Nat]
    BY <1>1, <1>2, CallTypes, Zenon
  <2>3. /\ start[s] \in Nat /\ entry[s] \in Nat /\ sent[s] \in 0..BatchSize
        /\ last[s] \in Nat
    BY CallTypes, Zenon
  <2>4. /\ s \notin subscribers /\ UNCHANGED <<log, subscribers, notifying>>
        /\ start[s] = last[s]
    BY <1>1, <1>2, Zenon DEF notifying
  <2> HIDE DEF p
  <2> QED BY <2>1, <2>2, <2>3, <2>4, CallStep, Zenon
<1>3. CASE /\ start[s] = log /\ subscribers' = subscribers \cup {s}
           /\ pc' = [pc EXCEPT ![s] = "in"] /\ Return(s)
  <2>0. /\ pc \in [Subscriber -> Label] /\ start \in [Subscriber -> Nat]
        /\ entry \in [Subscriber -> Nat] /\ sent \in [Subscriber -> 0..BatchSize]
        /\ "in" \in Label /\ 0 \in 0..BatchSize
    <3>1. 0 \in 0..BatchSize
      BY CallTypes, Zenon
    <3> QED BY <3>1, Zenon DEF IInv, TypeOK, Label
  <2>1. pc' \in [Subscriber -> Label] /\ pc'[s] = "in"
        /\ \A t \in Subscriber \ {s} : pc'[t] = pc[t]
    BY <1>3, <2>0, ExceptFacts, Zenon
  <2>2. start' \in [Subscriber -> Nat] /\ \A t \in Subscriber \ {s} : start'[t] = start[t]
    BY <1>3, <2>0, ExceptFacts, Zenon DEF Return
  <2>3. entry' \in [Subscriber -> Nat] /\ \A t \in Subscriber \ {s} : entry'[t] = entry[t]
    BY <1>3, <2>0, ExceptFacts, Zenon DEF Return
  <2>4. sent' \in [Subscriber -> 0..BatchSize] /\ \A t \in Subscriber \ {s} : sent'[t] = sent[t]
    BY <1>3, <2>0, ExceptFacts, Zenon DEF Return
  <2>5. TypeOK'
    <3>1. writer' \in BOOLEAN
      BY <1>1, Zenon DEF IInv, TypeOK
    <3>2. /\ log' \in Nat \ {0} /\ cur' \in Nat \ {0}
          /\ subscribers' \subseteq Subscriber /\ todo' \subseteq subscribers'
          /\ last' \in [Subscriber -> Nat] /\ saved' \in [Subscriber -> Nat]
      BY <1>1, <1>3, Zenon DEF IInv, TypeOK
    <3> QED BY <2>1, <2>2, <2>3, <2>4, <3>1, <3>2, Zenon DEF TypeOK, Label
  <2>6. CallInv'
    <3> SUFFICES ASSUME NEW t \in Subscriber
                 PROVE  /\ pc'[t] \in {"initialize", "check"} => start'[t] = last[t]
                        /\ pc'[t] \in {"next batch", "send"} =>
                              entry'[t] = last[t] + 1 /\ entry'[t] <= log
                        /\ pc'[t] = "send" => ~writer /\ sent'[t] < BatchSize
                        /\ pc'[t] = "in" <=> t \in subscribers'
      BY <1>1, Zenon DEF CallInv
    <3>1. CASE t = s
      BY <1>3, <2>1, <3>1, Zenon
    <3>2. CASE t # s
      BY <1>3, <2>1, <2>2, <2>3, <2>4, <3>2, Zenon DEF IInv, CallInv
    <3> QED BY <3>1, <3>2, Zenon
  <2>7. NotifyInv' /\ CaughtUp' /\ TodoInv'
    BY <1>1, <1>3, Zenon DEF IInv, NotifyInv, CaughtUp, TodoInv
  <2> QED BY <2>5, <2>6, <2>7, Zenon DEF IInv
<1> QED BY <1>2, <1>3, Zenon DEF Join

\* Leaving: nothing is being sent while the module is taken off the list.
LEMMA UnsubscribeIInv ==
  ASSUME IInv, NEW s \in Subscriber, Unsubscribe(s)
  PROVE  IInv'
<1>1. /\ ~writer /\ subscribers' = subscribers \ {s} /\ pc' = [pc EXCEPT ![s] = "out"]
      /\ log' = log /\ writer' = writer /\ cur' = cur /\ todo' = todo /\ last' = last
      /\ saved' = saved /\ start' = start /\ entry' = entry /\ sent' = sent
  BY Zenon DEF Unsubscribe, CanWrite, notifying
<1>2. pc' \in [Subscriber -> Label] /\ pc'[s] = "out"
      /\ \A t \in Subscriber \ {s} : pc'[t] = pc[t]
  <2>1. pc \in [Subscriber -> Label] /\ "out" \in Label
    BY Zenon DEF IInv, TypeOK, Label
  <2> QED BY <1>1, <2>1, ExceptFacts, Zenon
<1>3. s \notin todo
  BY <1>1, Zenon DEF IInv, TodoInv
<1>4. TypeOK'
  <2>1. writer' \in BOOLEAN
    BY <1>1, Zenon DEF IInv, TypeOK
  <2>2. /\ log' \in Nat \ {0} /\ cur' \in Nat \ {0}
        /\ subscribers' \subseteq Subscriber /\ todo' \subseteq subscribers'
        /\ last' \in [Subscriber -> Nat] /\ saved' \in [Subscriber -> Nat]
        /\ start' \in [Subscriber -> Nat] /\ entry' \in [Subscriber -> Nat]
        /\ sent' \in [Subscriber -> 0..BatchSize]
    BY <1>1, <1>3, Zenon DEF IInv, TypeOK
  <2> QED BY <1>2, <2>1, <2>2, Zenon DEF TypeOK, Label
<1>5. CallInv'
  <2> SUFFICES ASSUME NEW t \in Subscriber
               PROVE  /\ pc'[t] \in {"initialize", "check"} => start[t] = last[t]
                      /\ pc'[t] \in {"next batch", "send"} =>
                            entry[t] = last[t] + 1 /\ entry[t] <= log
                      /\ pc'[t] = "send" => ~writer /\ sent[t] < BatchSize
                      /\ pc'[t] = "in" <=> t \in subscribers'
    BY <1>1, Zenon DEF CallInv
  <2>1. CASE t = s
    BY <1>1, <1>2, <2>1, Zenon
  <2>2. CASE t # s
    BY <1>1, <1>2, <2>2, Zenon DEF IInv, CallInv
  <2> QED BY <2>1, <2>2, Zenon
<1>6. NotifyInv' /\ CaughtUp' /\ TodoInv'
  BY <1>1, Zenon DEF IInv, NotifyInv, CaughtUp, TodoInv
<1> QED BY <1>4, <1>5, <1>6, Zenon DEF IInv

\* A commit of n changes, with every subscriber at the end of the old log.
LEMMA AcceptIInv ==
  ASSUME IInv, NEW n \in 1..MaxChanges, AcceptBlocks(n)
  PROVE  IInv'
<1>0. n \in Nat \ {0}
  BY SizeAssumption
<1>1. /\ CanWrite /\ ~writer /\ log' = log + n /\ todo' = subscribers
      /\ cur' = IF subscribers # {} THEN log + 1 ELSE 1
      /\ subscribers' = subscribers /\ last' = last /\ saved' = saved
      /\ pc' = pc /\ start' = start /\ entry' = entry /\ sent' = sent
  BY Zenon DEF AcceptBlocks, CanWrite, call
<1>w. writer' = (subscribers # {})
  BY Zenon DEF AcceptBlocks
<1>2. TypeOK'
  <2>1. writer' \in BOOLEAN
    BY <1>w, Zenon
  <2>2. log \in Nat \ {0}
    BY Zenon DEF IInv, TypeOK
  <2>3. log' \in Nat \ {0} /\ cur' \in Nat \ {0}
    BY <1>0, <1>1, <2>2
  <2>4. /\ subscribers' \subseteq Subscriber /\ todo' \subseteq subscribers'
        /\ last' \in [Subscriber -> Nat] /\ saved' \in [Subscriber -> Nat]
        /\ start' \in [Subscriber -> Nat] /\ entry' \in [Subscriber -> Nat]
        /\ sent' \in [Subscriber -> 0..BatchSize] /\ pc' \in [Subscriber -> Label]
    BY <1>1, Zenon DEF IInv, TypeOK, Label
  <2> QED BY <2>1, <2>3, <2>4, Zenon DEF TypeOK, Label
<1>3. CallInv'
  <2> SUFFICES ASSUME NEW t \in Subscriber
               PROVE  /\ pc[t] \in {"initialize", "check"} => start[t] = last[t]
                      /\ pc[t] \in {"next batch", "send"} =>
                            entry[t] = last[t] + 1 /\ entry[t] <= log + n
                      /\ pc[t] = "send" => ~writer' /\ sent[t] < BatchSize
                      /\ pc[t] = "in" <=> t \in subscribers
    BY <1>1, Zenon DEF CallInv
  <2>1. pc[t] # "send"
    BY <1>1, NoReader, Zenon
  <2>2. log \in Nat /\ entry[t] \in Nat
    BY Zenon DEF IInv, TypeOK
  <2>3. /\ pc[t] \in {"initialize", "check"} => start[t] = last[t]
        /\ pc[t] \in {"next batch", "send"} => entry[t] = last[t] + 1 /\ entry[t] <= log
        /\ pc[t] = "in" <=> t \in subscribers
    BY Zenon DEF IInv, CallInv
  <2>4. entry[t] <= log => entry[t] <= log + n
    BY <1>0, <2>2
  <2> QED BY <2>1, <2>3, <2>4, Zenon
<1>4. NotifyInv'
  <2> SUFFICES ASSUME writer'
               PROVE  /\ cur' <= log'
                      /\ \A t \in subscribers : last[t] = IF t \in todo' THEN cur' - 1 ELSE cur'
    BY <1>1, Zenon DEF NotifyInv
  <2>1. log \in Nat
    BY Zenon DEF IInv, TypeOK
  <2>2. subscribers # {}
    BY <1>w, Zenon
  <2>3. cur' = log + 1
    BY <1>1, <2>2, Zenon
  <2>4. \A t \in subscribers : last[t] = log
    BY <1>1, Zenon DEF IInv, CaughtUp
  <2> QED BY <1>0, <1>1, <2>1, <2>3, <2>4
<1>5. CaughtUp' /\ TodoInv'
  <2>1. ~writer' => subscribers = {}
    BY <1>w, Zenon
  <2> QED BY <1>1, <2>1, Zenon DEF CaughtUp, TodoInv
<1> QED BY <1>2, <1>3, <1>4, <1>5, Zenon DEF IInv

\* One ProcessConsensusChange of updateSubscribers.
LEMMA UpdateIInv ==
  ASSUME IInv, NEW s \in Subscriber, updateSubscriber(s)
  PROVE  IInv'
<1>1. /\ writer /\ s \in todo /\ last' = [last EXCEPT ![s] = cur]
      /\ log' = log /\ subscribers' = subscribers /\ saved' = saved
      /\ pc' = pc /\ start' = start /\ entry' = entry /\ sent' = sent
  BY Zenon DEF updateSubscriber, call
<1>2. /\ log \in Nat \ {0} /\ cur \in Nat \ {0} /\ todo \subseteq subscribers
      /\ subscribers \subseteq Subscriber /\ last \in [Subscriber -> Nat] /\ cur \in Nat
  BY Zenon DEF IInv, TypeOK
<1>3. /\ last' \in [Subscriber -> Nat] /\ last'[s] = cur
      /\ \A t \in Subscriber \ {s} : last'[t] = last[t]
  BY <1>1, <1>2, ExceptFacts, Zenon
<1>4. cur <= log /\ \A t \in subscribers : last[t] = IF t \in todo THEN cur - 1 ELSE cur
  BY <1>1, Zenon DEF IInv, NotifyInv
<1>5. CallInv' \/ writer' # writer
  <2> SUFFICES ASSUME writer' = writer, NEW t \in Subscriber
               PROVE  /\ pc[t] \in {"initialize", "check"} => start[t] = last'[t]
                      /\ pc[t] \in {"next batch", "send"} =>
                            entry[t] = last'[t] + 1 /\ entry[t] <= log
                      /\ pc[t] = "send" => ~writer /\ sent[t] < BatchSize
                      /\ pc[t] = "in" <=> t \in subscribers
    BY <1>1, Zenon DEF CallInv
  <2>1. CASE t = s
    BY <1>1, <1>2, <2>1, Zenon DEF IInv, CallInv
  <2>2. CASE t # s
    BY <1>3, <2>2, Zenon DEF IInv, CallInv
  <2> QED BY <2>1, <2>2, Zenon
<1>6. ASSUME cur' \in Nat \ {0}, todo' \subseteq subscribers, writer' \in BOOLEAN
      PROVE  TypeOK'
  <2>1. /\ log' \in Nat \ {0} /\ subscribers' \subseteq Subscriber
        /\ todo' \subseteq subscribers'
        /\ saved' \in [Subscriber -> Nat] /\ start' \in [Subscriber -> Nat]
        /\ entry' \in [Subscriber -> Nat] /\ sent' \in [Subscriber -> 0..BatchSize]
        /\ pc' \in [Subscriber -> Label]
    BY <1>1, <1>6, Zenon DEF IInv, TypeOK, Label
  <2> QED BY <1>3, <1>6, <2>1, Zenon DEF TypeOK, Label
<1>b. writer \in BOOLEAN
  BY Zenon DEF IInv, TypeOK
<1>7. CASE todo # {s} /\ todo' = todo \ {s} /\ cur' = cur /\ writer' = writer
  <2>1. TypeOK'
    <3>1. cur' \in Nat \ {0} /\ todo' \subseteq subscribers
      BY <1>2, <1>7, Zenon
    <3>2. writer' \in BOOLEAN
      BY <1>7, <1>b, Zenon
    <3> QED BY <1>6, <3>1, <3>2, Zenon
  <2>2. CallInv'
    BY <1>5, <1>7, Zenon
  <2>3. \A t \in subscribers : last'[t] = IF t \in todo' THEN cur - 1 ELSE cur
    BY <1>2, <1>3, <1>4, <1>7, Zenon
  <2>4. NotifyInv' /\ CaughtUp' /\ TodoInv'
    BY <1>1, <1>4, <1>7, <2>3, Zenon DEF NotifyInv, CaughtUp, TodoInv
  <2> QED BY <2>1, <2>2, <2>4, Zenon DEF IInv
<1>8. CASE todo = {s} /\ cur < log /\ todo' = subscribers /\ cur' = cur + 1 /\ writer' = writer
  <2>1. TypeOK'
    <3>1. cur' \in Nat \ {0} /\ todo' \subseteq subscribers
      BY <1>2, <1>8
    <3>2. writer' \in BOOLEAN
      BY <1>8, <1>b, Zenon
    <3> QED BY <1>6, <3>1, <3>2, Zenon
  <2>2. CallInv'
    BY <1>5, <1>8, Zenon
  <2>3. \A t \in subscribers : last'[t] = cur
    BY <1>2, <1>3, <1>4, <1>8, Zenon
  <2>4. cur' <= log /\ cur' - 1 = cur
    BY <1>2, <1>8
  <2>5. NotifyInv' /\ CaughtUp' /\ TodoInv'
    BY <1>1, <1>8, <2>3, <2>4, Zenon DEF NotifyInv, CaughtUp, TodoInv
  <2> QED BY <2>1, <2>2, <2>5, Zenon DEF IInv
<1>9. CASE todo = {s} /\ ~(cur < log) /\ todo' = {} /\ cur' = 1 /\ writer' = FALSE
  <2>1. TypeOK'
    <3>1. cur' \in Nat \ {0} /\ todo' \subseteq subscribers
      BY <1>9
    <3>2. writer' \in BOOLEAN
      BY <1>9, Zenon
    <3> QED BY <1>6, <3>1, <3>2, Zenon
  <2>2. CallInv'
    <3> SUFFICES ASSUME NEW t \in Subscriber
                 PROVE  /\ pc[t] \in {"initialize", "check"} => start[t] = last'[t]
                        /\ pc[t] \in {"next batch", "send"} =>
                              entry[t] = last'[t] + 1 /\ entry[t] <= log
                        /\ pc[t] = "send" => sent[t] < BatchSize
                        /\ pc[t] = "in" <=> t \in subscribers
      BY <1>1, <1>9, Zenon DEF CallInv
    <3>1. CASE t = s
      BY <1>1, <1>2, <3>1, Zenon DEF IInv, CallInv
    <3>2. CASE t # s
      BY <1>3, <3>2, Zenon DEF IInv, CallInv
    <3> QED BY <3>1, <3>2, Zenon
  <2>3. \A t \in subscribers : last'[t] = cur
    BY <1>2, <1>3, <1>4, <1>9, Zenon
  <2>4. cur = log
    BY <1>2, <1>4, <1>9
  <2>5. NotifyInv' /\ CaughtUp' /\ TodoInv'
    BY <1>1, <1>9, <2>3, <2>4, Zenon DEF NotifyInv, CaughtUp, TodoInv
  <2> QED BY <2>1, <2>2, <2>5, Zenon DEF IInv
<1> QED BY <1>7, <1>8, <1>9, Zenon DEF updateSubscriber

\* A module saving its state, and a restart of the process.
LEMMA PersistIInv ==
  ASSUME IInv, NEW s \in Subscriber, Persist(s)
  PROVE  IInv'
<1>1. /\ log' = log /\ subscribers' = subscribers /\ writer' = writer /\ cur' = cur
      /\ todo' = todo /\ pc' = pc /\ start' = start /\ entry' = entry /\ sent' = sent
      /\ last' = last /\ saved' = [saved EXCEPT ![s] = last[s]]
  BY Zenon DEF Persist, notifying, call
<1>2. saved' \in [Subscriber -> Nat]
  BY <1>1, Zenon DEF IInv, TypeOK
<1>3. TypeOK'
  BY <1>1, <1>2, Zenon DEF IInv, TypeOK
<1>4. CallInv' /\ NotifyInv' /\ TodoInv' /\ CaughtUp'
  BY <1>1, Zenon DEF IInv, CallInv, NotifyInv, TodoInv, CaughtUp
<1> QED BY <1>3, <1>4, Zenon DEF IInv

LEMMA RestartIInv ==
  ASSUME IInv, NEW l \in {1, log}, Restart(l)
  PROVE  IInv'
<1>1. TypeOK'
  <2>1. writer' \in BOOLEAN
    BY Zenon DEF Restart
  <2>2. /\ log' \in Nat \ {0} /\ cur' \in Nat \ {0}
        /\ subscribers' \subseteq Subscriber /\ todo' \subseteq subscribers'
        /\ start' \in [Subscriber -> Nat] /\ entry' \in [Subscriber -> Nat]
        /\ last' \in [Subscriber -> Nat] /\ saved' \in [Subscriber -> Nat]
    <3>1. log \in Nat \ {0} /\ saved \in [Subscriber -> Nat]
      BY Zenon DEF IInv, TypeOK
    <3> QED BY <3>1 DEF Restart
  <2>3. sent' \in [Subscriber -> 0..BatchSize]
    BY SizeAssumption DEF Restart
  <2>4. pc' \in [Subscriber -> Label]
    BY Zenon DEF Restart, Label
  <2> QED BY <2>1, <2>2, <2>3, <2>4, Zenon DEF TypeOK, Label
<1>2. CallInv'
  BY Zenon DEF Restart, CallInv
<1>3. NotifyInv' /\ TodoInv' /\ CaughtUp'
  BY Zenon DEF Restart, NotifyInv, TodoInv, CaughtUp
<1> QED BY <1>1, <1>2, <1>3, Zenon DEF IInv

\* Every step keeps the invariant.
LEMMA NextIInv == IInv /\ [Next]_vars => IInv'
<1> SUFFICES ASSUME IInv, [Next]_vars PROVE IInv'
  BY Zenon
<1>1. ASSUME NEW s \in Subscriber, SubscribeBeginning(s) PROVE IInv'
  <2>1. saved' \in [Subscriber -> Nat]
    BY <1>1, Zenon DEF SubscribeBeginning, IInv, TypeOK
  <2> QED BY <1>1, <2>1, SubscribeIInv, Zenon DEF SubscribeBeginning
<1>2. ASSUME NEW s \in Subscriber, Resubscribe(s) PROVE IInv'
  <2>1. saved' \in [Subscriber -> Nat] /\ saved[s] \in Nat
    BY <1>2, Zenon DEF Resubscribe, IInv, TypeOK
  <2> QED BY <1>2, <2>1, SubscribeIInv, Zenon DEF Resubscribe
<1>3. ASSUME NEW s \in Subscriber, SubscribeRecent(s) PROVE IInv'
  <2>1. saved' \in [Subscriber -> Nat] /\ log \in Nat
    BY <1>3, Zenon DEF SubscribeRecent, IInv, TypeOK
  <2> QED BY <1>3, <2>1, SubscribeIInv, Zenon DEF SubscribeRecent
<1>4. CASE UNCHANGED vars
  BY <1>4, Zenon DEF vars, call, notifying, IInv, TypeOK, CallInv, NotifyInv, TodoInv, CaughtUp
<1>5. CASE Run
  BY <1>1, <1>2, <1>3, <1>5, SubscribingIInv, JoinIInv, UnsubscribeIInv, UpdateIInv,
     PersistIInv, AcceptIInv, Zenon DEF Run, Subscribing
<1> QED BY <1>4, <1>5, RestartIInv, Zenon DEF Next

\* The inductive invariant holds in every reachable state.
THEOREM Invariance == Spec => []IInv
BY InitIInv, NextIInv, PTL DEF Spec

\* Every variable keeps its type, for every batch size and set of modules.
THEOREM TypeCorrect == Spec => []TypeOK
<1>1. IInv => TypeOK
  BY Zenon DEF IInv
<1> QED BY <1>1, Invariance, PTL

\* Whenever cs.mu is free, every subscriber has processed the whole changelog:
\* the hand-over from managedInitializeSubscribe to updateSubscribers loses
\* nothing, whatever is accepted between two batches.
THEOREM AlwaysCaughtUp == Spec => []CaughtUp
<1>1. IInv => CaughtUp
  BY Zenon DEF IInv
<1> QED BY <1>1, Invariance, PTL

\* One module's change of last, with the others where they were.
LEMMA LastStep ==
  ASSUME IInv, NEW s \in Subscriber, NEW l, last' = [last EXCEPT ![s] = l],
         \/ pc[s] = "out"
         \/ l \in {last[s], last[s] + 1}
  PROVE  \A t \in Subscriber : pc[t] # "out" => last'[t] \in {last[t], last[t] + 1}
<1>1. last \in [Subscriber -> Nat]
  BY Zenon DEF IInv, TypeOK
<1>2. ASSUME NEW t \in Subscriber, pc[t] # "out"
      PROVE  last'[t] \in {last[t], last[t] + 1}
  <2>1. CASE t = s
    BY <1>1, <1>2, <2>1, Zenon
  <2>2. CASE t # s
    BY <1>1, <2>2, Zenon
  <2> QED BY <2>1, <2>2, Zenon
<1> QED BY <1>2, Zenon

\* A module gets the changes one by one in the order of the changelog, also
\* across the hand-over between the two paths that deliver them.
THEOREM DeliveredInOrder == Spec => InOrder
<1> DEFINE Ordered == \A s \in Subscriber :
      pc[s] # "out" /\ pc'[s] # "out" => last'[s] \in {last[s], last[s] + 1}
<1>1. ASSUME IInv, [Next]_vars PROVE [Ordered]_vars
  <2>1. CASE UNCHANGED last
    BY <2>1, Zenon
  <2>2. ASSUME NEW s \in Subscriber, NEW id, SubscribeFrom(s, id) PROVE Ordered
    <3>1. pc[s] = "out" /\ last' = [last EXCEPT ![s] = id]
      BY <2>2, Zenon DEF SubscribeFrom
    <3> QED BY <1>1, <3>1, LastStep, Zenon
  <2>3. ASSUME NEW s \in Subscriber, SendChange(s) PROVE Ordered
    <3>1. last' = [last EXCEPT ![s] = entry[s]] /\ pc[s] = "send"
      BY <2>3, Zenon DEF SendChange
    <3>2. entry[s] = last[s] + 1
      BY <1>1, <3>1, Zenon DEF IInv, CallInv
    <3> QED BY <1>1, <3>1, <3>2, LastStep, Zenon
  <2>4. ASSUME NEW s \in Subscriber, updateSubscriber(s) PROVE Ordered
    <3>1. last' = [last EXCEPT ![s] = cur] /\ writer /\ s \in todo
      BY <2>4, Zenon DEF updateSubscriber
    <3>2. cur \in Nat /\ last[s] \in Nat /\ s \in subscribers
      BY <1>1, <3>1, Zenon DEF IInv, TypeOK
    <3>3. last[s] = cur - 1
      BY <1>1, <3>1, <3>2, Zenon DEF IInv, NotifyInv
    <3>4. cur = last[s] + 1
      BY <3>2, <3>3
    <3> QED BY <1>1, <3>1, <3>4, LastStep, Zenon
  <2>5. ASSUME NEW l, Restart(l) PROVE Ordered
    BY <2>5, Zenon DEF Restart
  <2>6. CASE UNCHANGED vars
    BY <2>6, Zenon DEF vars
  <2>7. CASE Run
    <3>1. ASSUME NEW s \in Subscriber,
                 \/ InitializeSubscribe(s) \/ NextBatch(s) \/ Join(s) \/ Cancel(s)
                 \/ StopSubscribing(s) \/ Unsubscribe(s) \/ Persist(s)
          PROVE  UNCHANGED last
      BY <3>1, Zenon DEF InitializeSubscribe, NextBatch, Join, Cancel, StopSubscribing,
                  Unsubscribe, Persist
    <3>2. ASSUME NEW n \in 1..MaxChanges, AcceptBlocks(n) PROVE UNCHANGED last
      BY <3>2, Zenon DEF AcceptBlocks
    <3>3. ASSUME NEW s \in Subscriber,
                 SubscribeBeginning(s) \/ Resubscribe(s) \/ SubscribeRecent(s)
          PROVE  Ordered
      BY <2>2, <3>3, Zenon DEF SubscribeBeginning, Resubscribe, SubscribeRecent
    <3> HIDE DEF Ordered
    <3> QED BY <2>1, <2>3, <2>4, <2>7, <3>1, <3>2, <3>3, Zenon DEF Run, Subscribing
  <2> HIDE DEF Ordered
  <2> QED BY <1>1, <2>5, <2>6, <2>7, Zenon DEF Next
<1>2. [][Ordered]_vars => InOrder
  BY PTL DEF InOrder
<1> QED BY <1>1, <1>2, Invariance, PTL DEF Spec

=============================================================================
