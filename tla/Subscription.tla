---------------------------- MODULE Subscription ----------------------------
(***************************************************************************)
(* How the consensus set feeds its subscribers: ConsensusSetSubscribe with *)
(* its catch-up loop, updateSubscribers after a commit, and Unsubscribe.   *)
(* The changelog is a list without repetition (ForkChoice), so an entry is *)
(* its position, 1 for the genesis entry, and 0 is the empty id            *)
(* ConsensusChangeBeginning.                                               *)
(***************************************************************************)
EXTENDS Integers, FiniteSets

CONSTANTS
    Subscriber,   \* modules that may subscribe
    BatchSize,    \* changes sent under one read lock, 100
    MaxChanges,   \* most changes of one managedAcceptBlocks call (bound)
    MaxLog        \* most entries of the changelog (bound)

ASSUME SizeAssumption ==
    /\ BatchSize \in Nat \ {0}
    /\ MaxChanges \in Nat \ {0}
    /\ MaxLog \in Nat \ {0}

VARIABLES
    log,          \* number of committed changelog entries
    subscribers,  \* cs.subscribers
    writer,       \* managedAcceptBlocks holds cs.mu and notifies
    cur,          \* the change being sent by updateSubscribers
    todo,         \* subscribers updateSubscribers has not reached yet
    pc,           \* where each module's call of ConsensusSetSubscribe is
    start,        \* its start: the id of the latest change it knows of
    entry,        \* its entry: the next change to send
    sent,         \* changes sent under the current read lock
    last,         \* id of the latest change the module has processed
    saved         \* the id the module has persisted

call == <<pc, start, entry, sent>>
notifying == <<writer, cur, todo>>
vars == <<log, subscribers, notifying, call, last, saved>>

-----------------------------------------------------------------------------
\* Modules that hold the read lock of cs.mu.
Readers == {s \in Subscriber : pc[s] = "send"}

CanRead == ~writer
CanWrite == ~writer /\ Readers = {}

\* A call returns and its local variables are gone.
Return(s) ==
    /\ start' = [start EXCEPT ![s] = 0]
    /\ entry' = [entry EXCEPT ![s] = 1]
    /\ sent' = [sent EXCEPT ![s] = 0]

(***************************************************************************)
(* A module subscribes from the genesis block after clearing its own       *)
(* state, or from the change it has persisted, or from the most recent.    *)
(***************************************************************************)
SubscribeFrom(s, id) ==
    /\ pc[s] = "out"
    /\ start' = [start EXCEPT ![s] = id]
    /\ last' = [last EXCEPT ![s] = id]

SubscribeBeginning(s) ==
    /\ SubscribeFrom(s, 0)
    /\ pc' = [pc EXCEPT ![s] = "initialize"]
    /\ saved' = [saved EXCEPT ![s] = 0]
    /\ UNCHANGED <<log, subscribers, notifying, entry, sent>>

Resubscribe(s) ==
    /\ saved[s] # 0
    /\ SubscribeFrom(s, saved[s])
    /\ pc' = [pc EXCEPT ![s] = "initialize"]
    /\ UNCHANGED <<log, subscribers, notifying, entry, sent, saved>>

SubscribeRecent(s) ==
    /\ CanWrite
    /\ SubscribeFrom(s, log)
    /\ pc' = [pc EXCEPT ![s] = "check"]
    /\ UNCHANGED <<log, subscribers, notifying, entry, sent, saved>>

\* The first part of managedInitializeSubscribe finds the entry after start;
\* a start that the log does not have is ErrInvalidConsensusChangeID.
InitializeSubscribe(s) ==
    /\ pc[s] = "initialize"
    /\ CanRead
    /\ \/ /\ start[s] > log
          /\ pc' = [pc EXCEPT ![s] = "out"]
          /\ Return(s)
       \/ /\ start[s] = log
          /\ pc' = [pc EXCEPT ![s] = "check"]
          /\ UNCHANGED <<start, entry, sent>>
       \/ /\ start[s] < log
          /\ pc' = [pc EXCEPT ![s] = "next batch"]
          /\ entry' = [entry EXCEPT ![s] = start[s] + 1]
          /\ UNCHANGED <<start, sent>>
    /\ UNCHANGED <<log, subscribers, notifying, last, saved>>

NextBatch(s) ==
    /\ pc[s] = "next batch"
    /\ CanRead
    /\ pc' = [pc EXCEPT ![s] = "send"]
    /\ sent' = [sent EXCEPT ![s] = 0]
    /\ UNCHANGED <<log, subscribers, notifying, start, entry, last, saved>>

SendChange(s) ==
    /\ pc[s] = "send"
    /\ last' = [last EXCEPT ![s] = entry[s]]
    /\ start' = [start EXCEPT ![s] = entry[s]]
    /\ entry' = [entry EXCEPT ![s] = entry[s] + 1]
    /\ sent' = [sent EXCEPT ![s] = sent[s] + 1]
    /\ pc' = [pc EXCEPT ![s] = IF entry[s] = log THEN "check"
                               ELSE IF sent[s] + 1 = BatchSize THEN "next batch"
                               ELSE "send"]
    /\ UNCHANGED <<log, subscribers, notifying, saved>>

\* The cancel channel is closed: the call returns siasync.ErrStopped.
Cancel(s) ==
    /\ pc[s] = "send"
    /\ pc' = [pc EXCEPT ![s] = "out"]
    /\ Return(s)
    /\ UNCHANGED <<log, subscribers, notifying, last, saved>>

\* Variant: the module joins without comparing start with the recent id.
JoinUnchecked(s) ==
    /\ pc[s] = "check"
    /\ CanWrite
    /\ subscribers' = subscribers \cup {s}
    /\ pc' = [pc EXCEPT ![s] = "in"]
    /\ Return(s)
    /\ UNCHANGED <<log, notifying, last, saved>>

\* Variant: the loop does not start again when the log has grown.
JoinOnce(s) ==
    /\ start[s] = log
    /\ JoinUnchecked(s)

\* The end of the loop of ConsensusSetSubscribe, under the write lock.
Join(s) ==
    /\ pc[s] = "check"
    /\ CanWrite
    /\ \/ /\ start[s] = log
          /\ subscribers' = subscribers \cup {s}
          /\ pc' = [pc EXCEPT ![s] = "in"]
          /\ Return(s)
       \/ /\ start[s] # log
          /\ pc' = [pc EXCEPT ![s] = "initialize"]
          /\ UNCHANGED <<subscribers, start, entry, sent>>
    /\ UNCHANGED <<log, notifying, last, saved>>

\* The loop sees StopChan closed after it gave up the lock.
StopSubscribing(s) ==
    /\ pc[s] = "initialize"
    /\ pc' = [pc EXCEPT ![s] = "out"]
    /\ Return(s)
    /\ UNCHANGED <<log, subscribers, notifying, last, saved>>

Unsubscribe(s) ==
    /\ CanWrite
    /\ s \in subscribers
    /\ subscribers' = subscribers \ {s}
    /\ pc' = [pc EXCEPT ![s] = "out"]
    /\ UNCHANGED <<log, notifying, start, entry, sent, last, saved>>

\* managedAcceptBlocks has committed n changes and goes on to its subscribers.
AcceptBlocks(n) ==
    /\ CanWrite
    /\ log + n <= MaxLog
    /\ log' = log + n
    /\ writer' = (subscribers # {})
    /\ cur' = IF subscribers # {} THEN log + 1 ELSE 1
    /\ todo' = subscribers
    /\ UNCHANGED <<subscribers, call, last, saved>>

\* Variant: of several changes only the most recent is sent.
updateSubscriberLatest(s) ==
    /\ writer
    /\ s \in todo
    /\ last' = [last EXCEPT ![s] = log]
    /\ todo' = todo \ {s}
    /\ writer' = (todo' # {})
    /\ UNCHANGED <<log, subscribers, cur, call, saved>>

\* One ProcessConsensusChange of updateSubscribers.
updateSubscriber(s) ==
    /\ writer
    /\ s \in todo
    /\ last' = [last EXCEPT ![s] = cur]
    /\ IF todo # {s}
       THEN todo' = todo \ {s} /\ UNCHANGED <<cur, writer>>
       ELSE IF cur < log
       THEN todo' = subscribers /\ cur' = cur + 1 /\ UNCHANGED writer
       ELSE todo' = {} /\ cur' = 1 /\ writer' = FALSE
    /\ UNCHANGED <<log, subscribers, call, saved>>

\* A module writes its state and the id that goes with it to its own database.
Persist(s) ==
    /\ pc[s] # "out"
    /\ saved' = [saved EXCEPT ![s] = last[s]]
    /\ UNCHANGED <<log, subscribers, notifying, call, last>>

\* The process dies; it may be restarted with a fresh consensus database.
Restart(l) ==
    /\ log' = l
    /\ subscribers' = {}
    /\ writer' = FALSE
    /\ cur' = 1
    /\ todo' = {}
    /\ pc' = [s \in Subscriber |-> "out"]
    /\ start' = [s \in Subscriber |-> 0]
    /\ entry' = [s \in Subscriber |-> 1]
    /\ sent' = [s \in Subscriber |-> 0]
    /\ last' = saved
    /\ UNCHANGED saved

Init ==
    /\ log = 1
    /\ subscribers = {}
    /\ writer = FALSE
    /\ cur = 1
    /\ todo = {}
    /\ pc = [s \in Subscriber |-> "out"]
    /\ start = [s \in Subscriber |-> 0]
    /\ entry = [s \in Subscriber |-> 1]
    /\ sent = [s \in Subscriber |-> 0]
    /\ last = [s \in Subscriber |-> 0]
    /\ saved = [s \in Subscriber |-> 0]

\* The steps of a call of ConsensusSetSubscribe that nothing stops.
Subscribing(s) == InitializeSubscribe(s) \/ NextBatch(s) \/ SendChange(s) \/ Join(s)

Run ==
    \/ \E s \in Subscriber :
          \/ SubscribeBeginning(s) \/ Resubscribe(s) \/ SubscribeRecent(s)
          \/ Subscribing(s)
          \/ Cancel(s) \/ StopSubscribing(s) \/ Unsubscribe(s)
          \/ updateSubscriber(s) \/ Persist(s)
    \/ \E n \in 1..MaxChanges : AcceptBlocks(n)

Next == Run \/ \E l \in {1, log} : Restart(l)

Spec == Init /\ [][Next]_vars

(***************************************************************************)
(* A call keeps running and gets the lock when it is free again and again, *)
(* and updateSubscribers runs to its end.                                  *)
(***************************************************************************)
Fairness ==
    /\ \A s \in Subscriber : SF_vars(Subscribing(s))
    /\ WF_vars(\E s \in Subscriber : updateSubscriber(s))

FairSpec == Spec /\ Fairness

-----------------------------------------------------------------------------
\* Type invariant.
TypeOK ==
    /\ log \in Nat \ {0}
    /\ subscribers \subseteq Subscriber
    /\ writer \in BOOLEAN
    /\ cur \in Nat \ {0}
    /\ todo \subseteq subscribers
    /\ pc \in [Subscriber -> {"out", "initialize", "next batch", "send", "check", "in"}]
    /\ start \in [Subscriber -> Nat]
    /\ entry \in [Subscriber -> Nat]
    /\ sent \in [Subscriber -> 0..BatchSize]
    /\ last \in [Subscriber -> Nat]
    /\ saved \in [Subscriber -> Nat]

(***************************************************************************)
(* Whenever cs.mu is free, every member of cs.subscribers has processed    *)
(* the changelog to its end: no change falls between the catch-up of       *)
(* managedInitializeSubscribe and the updates of updateSubscribers.        *)
(***************************************************************************)
CaughtUp == ~writer => \A s \in subscribers : last[s] = log

(***************************************************************************)
(* From its subscription on, a module gets the changes one by one in the   *)
(* order of the changelog, whichever of the two paths delivers them.       *)
(***************************************************************************)
InOrder ==
    [][\A s \in Subscriber :
          pc[s] # "out" /\ pc'[s] # "out" => last'[s] \in {last[s], last[s] + 1}]_vars

(***************************************************************************)
(* A call of ConsensusSetSubscribe ends, although the chain grows while it *)
(* catches up and it gives the lock away between batches.                  *)
(***************************************************************************)
SubscribeReturns == \A s \in Subscriber : pc[s] # "out" ~> pc[s] \in {"in", "out"}
=============================================================================
