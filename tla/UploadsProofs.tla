---------------------------- MODULE UploadsProofs ----------------------------
(***************************************************************************)
(* Proof that at most one object per chunk is in the upload heap or in     *)
(* repair, for every number of workers, chunks, objects and pieces.        *)
(***************************************************************************)
EXTENDS Uploads, SequenceTheorems, FiniteSetTheorems, TLAPS

\* Some leaves take the SMT solver, with its preparation, longer than the default 5 seconds.
USE SMTT(30)

-----------------------------------------------------------------------------
(* The inductive invariant *)

\* The numbers a task may carry: chunks, pieces, zero.
Number == Int \cup {Min(S) : S \in SUBSET Piece}

\* The tasks that are about no object.
NoObjectTasks == {"dropall", "signal", "scan", "top", "idle", "block", "paused", "iter",
                  "pop", "reset", "next", "await"}

\* An object that is to be pushed has been built; a chunk to be scanned or
\* streamed is one of the file.
GoodTask ==
    {k \in [do : Tasks, o : Object \cup {0}, ws : SUBSET Worker, n : Number] :
        /\ k.do \notin NoObjectTasks => k.o \in Object
        /\ k.do = "push" => ch[k.o].st # "none"
        /\ k.do \in {"scan", "next"} => k.n \in Chunk}

ChInv ==
    /\ DOMAIN ch = Object
    /\ \A o \in Object :
        /\ {"st", "id", "stuck", "standby"} \subseteq DOMAIN ch[o]
        /\ ch[o].id \in Chunk /\ ch[o].stuck \in BOOLEAN
        /\ ch[o].standby \in SUBSET Worker

FileInv ==
    /\ DOMAIN file = Chunk
    /\ \A c \in Chunk : "stuck" \in DOMAIN file[c] /\ file[c].stuck \in BOOLEAN

WkInv ==
    /\ DOMAIN wk = Worker
    /\ \A w \in Worker : "queue" \in DOMAIN wk[w] /\ wk[w].queue \in Seq(Object)

TodoInv == todo \in [Thread -> Seq(GoodTask)]

LeftInv == "length" \in DOMAIN left /\ left.length \in 0..NumChunks

\* The repair map leads from a chunk to one of its objects.
RepairInv ==
    /\ DOMAIN repairing = Chunk
    /\ \A c \in Chunk : repairing[c] # 0 =>
        repairing[c] \in Object /\ ch[repairing[c]].id = c /\ ch[repairing[c]].st # "none"

\* The heap has one object per chunk, and none of a chunk in repair.
HeapInv ==
    /\ heap \subseteq Object
    /\ \A o \in heap : ch[o].st # "none" /\ repairing[ch[o].id] = 0
    /\ \A o, p \in heap : ch[o].id = ch[p].id => o = p

IInv ==
    /\ ChInv /\ FileInv /\ WkInv /\ TodoInv /\ LeftInv
    /\ RepairInv /\ HeapInv

\* No step gives a built object another chunk or unbuilds it.
ObjectsKept ==
    \A o \in Object : ch[o].st # "none" => ch'[o].st # "none" /\ ch'[o].id = ch[o].id

\* Every step but a push and a pop only takes from heap and repair map.
OnlyTakes ==
    /\ heap' \subseteq heap
    /\ DOMAIN repairing' = Chunk
    /\ \A c \in Chunk : repairing'[c] \in {repairing[c], 0}

-----------------------------------------------------------------------------
(* Lists of tasks *)

\* A list over a set is a list over a larger one.
LEMMA SeqGrows ==
    ASSUME NEW S, NEW T, S \subseteq T
    PROVE  Seq(S) \subseteq Seq(T)
  OBVIOUS

\* One element as a list.
LEMMA OneTask ==
    ASSUME NEW S, NEW x \in S
    PROVE  <<x>> \in Seq(S)
  OBVIOUS

\* After keeps every list of tasks over a set.
LEMMA AfterTyped ==
    ASSUME NEW S, todo \in [Thread -> Seq(S)], NEW t \in Thread, todo[t] # <<>>,
           NEW tasks \in Seq(S)
    PROVE  After(t, tasks) \in [Thread -> Seq(S)]
  <1>1. Tail(todo[t]) \in Seq(S)
    BY HeadTailProperties, Zenon
  <1>2. tasks \o Tail(todo[t]) \in Seq(S)
    BY <1>1, ConcatProperties, Zenon
  <1> QED
    BY <1>2, Zenon DEF After

\* The task at hand is a good one.
LEMMA CurTyped ==
    ASSUME TodoInv, NEW t \in Thread, todo[t] # <<>>
    PROVE  Cur(t) \in GoodTask
  <1>1. todo[t] \in Seq(GoodTask) /\ Len(todo[t]) \in Nat \ {0}
    BY EmptySeq, Zenon DEF TodoInv
  <1> QED
    BY <1>1 DEF Cur

\* Chunks and zero are numbers.
LEMMA IntsAreNumbers == Int \subseteq Number
  BY Zenon DEF Number

\* What makes a task a good one.
LEMMA TaskTyped ==
    ASSUME NEW do \in Tasks, NEW o \in Object \cup {0}, NEW ws \in SUBSET Worker,
           NEW n \in Number,
           do \notin NoObjectTasks => o \in Object,
           do = "push" => ch[o].st # "none",
           do \in {"scan", "next"} => n \in Chunk
    PROVE  /\ Task(do, o, ws, n)[1] \in GoodTask
           /\ Task(do, o, ws, n) \in Seq(GoodTask)
  <1>1. [do |-> do, o |-> o, ws |-> ws, n |-> n] \in GoodTask
    BY Zenon DEF GoodTask
  <1> QED
    BY <1>1, OneTask, Zenon DEF Task

\* A task about an object that is not a push.
LEMMA ObjectTask ==
    ASSUME NEW do \in Tasks, NEW o \in Object, NEW ws \in SUBSET Worker, NEW n \in Number,
           do \notin {"push", "scan", "next"}
    PROVE  Task(do, o, ws, n) \in Seq(GoodTask)
  BY TaskTyped, Zenon

\* The same without workers and number.
LEMMA ObjectDo ==
    ASSUME NEW do \in Tasks, NEW o \in Object, do \notin {"push", "scan", "next"}
    PROVE  Do(do, o) \in Seq(GoodTask)
  <1>1. 0 \in Number /\ {} \in SUBSET Worker
    BY IntsAreNumbers
  <1> QED
    BY <1>1, ObjectTask, Zenon DEF Do

\* A task about no object.
LEMMA OtherTask ==
    ASSUME NEW do \in Tasks, do \in NoObjectTasks, do \notin {"scan", "next"},
           NEW ws \in SUBSET Worker
    PROVE  Task(do, 0, ws, 0) \in Seq(GoodTask)
  <1>1. 0 \in Number /\ do # "push"
    BY IntsAreNumbers DEF NoObjectTasks
  <1> QED
    BY <1>1, TaskTyped, Zenon

\* The same without workers.
LEMMA OtherDo ==
    ASSUME NEW do \in Tasks, do \in NoObjectTasks, do \notin {"scan", "next"}
    PROVE  Do(do, 0) \in Seq(GoodTask)
  BY OtherTask, Zenon DEF Do

\* A push of a built object.
LEMMA PushTask ==
    ASSUME NEW o \in Object, ch[o].st # "none"
    PROVE  Do("push", o) \in Seq(GoodTask)
  <1>1. 0 \in Number /\ {} \in SUBSET Worker /\ o \in Object \cup {0}
    BY IntsAreNumbers
  <1>2. "push" \in Tasks /\ "push" \notin {"scan", "next"}
    BY Zenon DEF Tasks
  <1>3. Task("push", o, {}, 0) \in Seq(GoodTask)
    BY <1>1, <1>2, TaskTyped, Zenon
  <1> QED
    BY <1>3, Zenon DEF Do

\* A list of scans or of chunks to stream.
LEMMA ChunkTasks ==
    ASSUME NEW do \in {"scan", "next"}, NEW n \in 0..NumChunks
    PROVE  [c \in 1..n |-> Task(do, 0, {}, c)[1]] \in Seq(GoodTask)
  <1>1. n \in Nat /\ 1..n \subseteq Chunk
    BY UploadsAssumption DEF Chunk
  <1>2. ASSUME NEW c \in 1..n
        PROVE  Task(do, 0, {}, c)[1] \in GoodTask
    <2>1. c \in Number /\ c \in Chunk /\ {} \in SUBSET Worker
      BY <1>1, IntsAreNumbers DEF Chunk
    <2>2. do \in Tasks /\ do # "push"
      BY Zenon DEF Tasks
    <2>3. do \in NoObjectTasks
      BY Zenon DEF NoObjectTasks
    <2> QED
      BY <2>1, <2>2, <2>3, TaskTyped, Zenon
  <1> QED
    BY <1>1, <1>2

-----------------------------------------------------------------------------
(* What a step has to keep *)

\* The tasks stay good.
LEMMA TasksKept ==
    ASSUME ObjectsKept
    PROVE  /\ GoodTask \subseteq GoodTask'
           /\ [Thread -> Seq(GoodTask)] \subseteq [Thread -> Seq(GoodTask')]
  <1>1. GoodTask \subseteq GoodTask'
    BY Zenon DEF ObjectsKept, GoodTask, NoObjectTasks
  <1>2. Seq(GoodTask) \subseteq Seq(GoodTask')
    BY <1>1, SeqGrows, Zenon
  <1> QED
    BY <1>1, <1>2, Zenon

\* What every action but PushAdds and LoopPop does.
Harmless ==
    /\ ChInv' /\ FileInv' /\ WkInv' /\ LeftInv' /\ TodoInv'
    /\ ObjectsKept /\ OnlyTakes

\* Such a step keeps the invariant: what is in the heap or in the repair map has
\* been built, so it keeps its chunk.
LEMMA HarmlessKeeps == IInv /\ Harmless => IInv'
  <1> SUFFICES ASSUME IInv, Harmless PROVE IInv'
    BY Zenon
  <1>1. RepairInv'
    BY DEF IInv, Harmless, RepairInv, ChInv, ObjectsKept, OnlyTakes
  <1>2. HeapInv'
    BY DEF IInv, Harmless, HeapInv, RepairInv, ChInv, ObjectsKept, OnlyTakes
  <1> QED
    BY <1>1, <1>2, Zenon DEF IInv, Harmless

\* What is left alone is kept.
LEMMA Frame ==
    ASSUME IInv
    PROVE  /\ ch' = ch => ChInv' /\ ObjectsKept
           /\ file' = file => FileInv'
           /\ wk' = wk => WkInv'
           /\ left' = left => LeftInv'
           /\ heap' = heap /\ repairing' = repairing => OnlyTakes
           /\ ObjectsKept /\ todo' \in [Thread -> Seq(GoodTask)] => TodoInv'
           /\ ObjectsKept /\ todo' = todo => TodoInv'
  <1>1. ch' = ch => ChInv' /\ ObjectsKept
    BY Zenon DEF IInv, ChInv, ObjectsKept
  <1>2. file' = file => FileInv'
    BY Zenon DEF IInv, FileInv
  <1>3. wk' = wk => WkInv'
    BY Zenon DEF IInv, WkInv
  <1>4. left' = left => LeftInv'
    BY Zenon DEF IInv, LeftInv
  <1>5. heap' = heap /\ repairing' = repairing => OnlyTakes
    BY Zenon DEF IInv, RepairInv, OnlyTakes
  <1>6. ObjectsKept /\ todo' \in [Thread -> Seq(GoodTask)] => TodoInv'
    BY TasksKept, Zenon DEF TodoInv
  <1>7. ObjectsKept /\ todo' = todo => TodoInv'
    BY TasksKept, Zenon DEF TodoInv, IInv
  <1> QED
    BY <1>1, <1>2, <1>3, <1>4, <1>5, <1>6, <1>7, Zenon

\* Then with good tasks is a good list.
LEMMA ThenTyped ==
    ASSUME IInv, ObjectsKept, NEW t \in Thread, todo[t] # <<>>,
           NEW tasks \in Seq(GoodTask), Then(t, tasks)
    PROVE  TodoInv'
  BY AfterTyped, Frame, Zenon DEF Then, IInv, TodoInv

\* Spending a bound leaves the length of the stream.
LEMMA SpendKeeps ==
    ASSUME IInv, NEW f, f # "length", Spend(f)
    PROVE  LeftInv'
  BY Zenon DEF IInv, LeftInv, Spend

\* What is known of the task at hand.
LEMMA CurKnown ==
    ASSUME IInv, NEW t \in Thread, NEW d, At(t, d)
    PROVE  /\ todo[t] # <<>> /\ Cur(t) \in GoodTask
           /\ Cur(t).ws \in SUBSET Worker /\ Cur(t).n \in Number
           /\ d \notin NoObjectTasks => Cur(t).o \in Object
           /\ d = "push" => ch[Cur(t).o].st # "none"
           /\ d \in {"scan", "next"} => Cur(t).n \in Chunk
  <1>1. todo[t] # <<>> /\ Cur(t) \in GoodTask
    BY CurTyped, Zenon DEF At, IInv
  <1>2. Cur(t).do = d
    BY Zenon DEF At, Cur
  <1> QED
    BY <1>1, <1>2, Zenon DEF GoodTask

\* A step that replaces its task by good ones is harmless if the rest is.
LEMMA TaskKeeps ==
    ASSUME IInv, NEW t \in Thread, todo[t] # <<>>, NEW tasks \in Seq(GoodTask), Then(t, tasks),
           ChInv', ObjectsKept, FileInv', WkInv', LeftInv', OnlyTakes
    PROVE  Harmless
  BY ThenTyped, Zenon DEF Harmless

\* Two tasks after each other, each of which may be left out.
LEMMA TwoTasks ==
    ASSUME NEW S, NEW a \in Seq(S), NEW b \in Seq(S), NEW p, NEW q
    PROVE  (IF p THEN a ELSE <<>>) \o (IF q THEN b ELSE <<>>) \in Seq(S)
  <1>1. (IF p THEN a ELSE <<>>) \in Seq(S) /\ (IF q THEN b ELSE <<>>) \in Seq(S)
    BY EmptySeq, Zenon
  <1> QED
    BY <1>1, ConcatProperties, Zenon

-----------------------------------------------------------------------------
(* Tasks on chunk objects *)

\* A worker takes the chunk, or the task is to drop it.
LEMMA QueueUploadChunkKeeps ==
    ASSUME IInv, NEW t \in Thread, QueueUploadChunk(t)
    PROVE  Harmless
  <1>1. ChInv' /\ ObjectsKept /\ FileInv' /\ LeftInv' /\ OnlyTakes
    BY Frame, Zenon DEF QueueUploadChunk
  <1>2. PICK k \in GoodTask : k = Cur(t) /\ k.do = "queue" /\ todo[t] # <<>>
    BY CurTyped, Zenon DEF QueueUploadChunk, At, Cur, IInv
  <1>3. k.o \in Object /\ k.ws \in SUBSET Worker
    BY <1>2, Zenon DEF GoodTask, NoObjectTasks
  <1>4. PICK w \in k.ws :
          LET others == k.ws \ {w}
              more == IF others = {} THEN <<>> ELSE Task("queue", k.o, others, 0)
          IN \/ wk' = [wk EXCEPT ![w].queue = Append(@, k.o)] /\ Then(t, more)
             \/ Then(t, Do("drop", k.o) \o more) /\ wk' = wk
    BY <1>2, Zenon DEF QueueUploadChunk
  <1>5. w \in Worker /\ k.ws \ {w} \in SUBSET Worker
    BY <1>3, Zenon
  <1> DEFINE more == IF k.ws \ {w} = {} THEN <<>> ELSE Task("queue", k.o, k.ws \ {w}, 0)
  <1>6. more \in Seq(GoodTask)
    BY <1>3, <1>5, ObjectTask, IntsAreNumbers, EmptySeq DEF Tasks
  <1>7. Do("drop", k.o) \o more \in Seq(GoodTask)
    BY <1>3, <1>6, ObjectDo, ConcatProperties, Zenon DEF Tasks
  <1>8. TodoInv'
    BY <1>1, <1>2, <1>4, <1>6, <1>7, ThenTyped, Zenon
  <1>9. WkInv'
    <2>1. Append(wk[w].queue, k.o) \in Seq(Object)
      BY <1>3, <1>5 DEF IInv, WkInv
    <2> QED
      BY <1>4, <1>5, <2>1, Frame, Zenon DEF IInv, WkInv
  <1> QED
    BY <1>1, <1>8, <1>9, Zenon DEF Harmless

\* Dropping changes a counter of the object.
LEMMA DropChunkKeeps ==
    ASSUME IInv, NEW t \in Thread, DropChunk(t)
    PROVE  Harmless
  <1>1. todo[t] # <<>> /\ Cur(t).o \in Object
    BY CurKnown DEF DropChunk, NoObjectTasks
  <1>2. FileInv' /\ WkInv' /\ LeftInv' /\ OnlyTakes
    BY Frame, Zenon DEF DropChunk
  <1>3. ChInv' /\ ObjectsKept
    BY <1>1, Zenon DEF DropChunk, IInv, ChInv, ObjectsKept
  <1>4. Do("cleanup", Cur(t).o) \in Seq(GoodTask)
    BY <1>1, ObjectDo, Zenon DEF Tasks
  <1> QED
    BY <1>1, <1>2, <1>3, <1>4, TaskKeeps, Zenon DEF DropChunk

\* The queue of the worker becomes a list of tasks.
LEMMA DropUploadChunksKeeps ==
    ASSUME IInv, NEW t \in Thread, DropUploadChunks(t)
    PROVE  Harmless
  <1>1. todo[t] # <<>> /\ Cur(t).ws \in SUBSET Worker
    BY CurKnown, Zenon DEF DropUploadChunks
  <1>2. ChInv' /\ ObjectsKept /\ FileInv' /\ LeftInv' /\ OnlyTakes
    BY Frame, Zenon DEF DropUploadChunks
  <1>3. PICK w \in Worker :
          /\ Then(t, [i \in DOMAIN wk[w].queue |-> Do("drop", wk[w].queue[i])[1]])
          /\ wk' = [wk EXCEPT ![w].queue = <<>>]
    BY <1>1, Zenon DEF DropUploadChunks
  <1>4. WkInv'
    BY <1>3, EmptySeq, Zenon DEF IInv, WkInv
  <1>5. wk[w].queue \in Seq(Object)
    BY Zenon DEF IInv, WkInv
  <1>6. ASSUME NEW i \in DOMAIN wk[w].queue
        PROVE  Do("drop", wk[w].queue[i])[1] \in GoodTask
    <2>1. wk[w].queue[i] \in Object
      BY <1>5
    <2>2. Do("drop", wk[w].queue[i]) \in Seq(GoodTask)
      BY <2>1, ObjectDo, Zenon DEF Tasks
    <2> QED
      BY <2>2 DEF Do, Task
  <1>7. [i \in DOMAIN wk[w].queue |-> Do("drop", wk[w].queue[i])[1]] \in Seq(GoodTask)
    <2>1. Len(wk[w].queue) \in Nat /\ DOMAIN wk[w].queue = 1..Len(wk[w].queue)
      BY <1>5, LenProperties, Zenon
    <2> QED
      BY <1>6, <2>1
  <1> QED
    BY <1>1, <1>2, <1>3, <1>4, <1>7, TaskKeeps, Zenon

\* Cleaning up changes counters and flags of the object.
LEMMA CleanUpKeeps ==
    ASSUME IInv, NEW t \in Thread, CleanUpUploadChunk(t)
    PROVE  Harmless
  <1>1. todo[t] # <<>> /\ Cur(t).o \in Object
    BY CurKnown DEF CleanUpUploadChunk, NoObjectTasks
  <1>2. FileInv' /\ WkInv' /\ LeftInv' /\ OnlyTakes
    BY Frame, Zenon DEF CleanUpUploadChunk
  <1> DEFINE o == Cur(t).o
             d == CleanedUp(ch[o])
  <1>3. /\ ch' = [ch EXCEPT ![o] = d]
        /\ Then(t, (IF Unused(d) # {} THEN Do("notify", o) ELSE <<>>)
                   \o (IF d.released /\ ~ch[o].released THEN Do("finish", o) ELSE <<>>))
    BY Zenon DEF CleanUpUploadChunk
  <1>4. ChInv' /\ ObjectsKept
    BY <1>1, <1>3, Zenon DEF CleanedUp, IInv, ChInv, ObjectsKept
  <1>5. Do("notify", o) \in Seq(GoodTask) /\ Do("finish", o) \in Seq(GoodTask)
    BY <1>1, ObjectDo, Zenon DEF Tasks
  <1>6. (IF Unused(d) # {} THEN Do("notify", o) ELSE <<>>)
        \o (IF d.released /\ ~ch[o].released THEN Do("finish", o) ELSE <<>>) \in Seq(GoodTask)
    BY <1>5, TwoTasks, Zenon
  <1> QED
    BY <1>1, <1>2, <1>3, <1>4, <1>6, TaskKeeps, Zenon

\* The standby workers get a task to queue the chunk.
LEMMA NotifyKeeps ==
    ASSUME IInv, NEW t \in Thread, NotifyStandbyWorkers(t)
    PROVE  Harmless
  <1>1. todo[t] # <<>> /\ Cur(t).o \in Object
    BY CurKnown DEF NotifyStandbyWorkers, NoObjectTasks
  <1>2. FileInv' /\ WkInv' /\ LeftInv' /\ OnlyTakes
    BY Frame, Zenon DEF NotifyStandbyWorkers
  <1>3. ChInv' /\ ObjectsKept
    BY <1>1, Zenon DEF NotifyStandbyWorkers, IInv, ChInv, ObjectsKept
  <1> DEFINE ws == ch[Cur(t).o].standby
             tasks == IF ws = {} THEN <<>> ELSE Task("queue", Cur(t).o, ws, 0)
  <1>4. ws \in SUBSET Worker
    BY <1>1, Zenon DEF IInv, ChInv
  <1>5. tasks \in Seq(GoodTask)
    BY <1>1, <1>4, ObjectTask, IntsAreNumbers, EmptySeq DEF Tasks
  <1>6. Then(t, tasks)
    BY Zenon DEF NotifyStandbyWorkers
  <1> QED
    BY <1>1, <1>2, <1>3, <1>5, <1>6, TaskKeeps, Zenon

\* The chunk leaves the repair map.
LEMMA FinishKeeps ==
    ASSUME IInv, NEW t \in Thread, FinishChunk(t) \/ MarkRepairDone(t)
    PROVE  Harmless
  <1>1. todo[t] # <<>> /\ Cur(t).o \in Object
    BY CurKnown DEF FinishChunk, MarkRepairDone, NoObjectTasks
  <1>2. ChInv' /\ ObjectsKept /\ WkInv' /\ LeftInv'
    BY Frame, Zenon DEF FinishChunk, MarkRepairDone
  <1>3. Then(t, <<>>) /\ <<>> \in Seq(GoodTask)
    BY EmptySeq, Zenon DEF FinishChunk, MarkRepairDone
  <1>4. heap' = heap /\ repairing' = [repairing EXCEPT ![ch[Cur(t).o].id] = 0]
    BY Zenon DEF FinishChunk, MarkRepairDone
  <1>5. OnlyTakes
    BY <1>4, Zenon DEF OnlyTakes, IInv, RepairInv
  <1>6. FileInv'
    <2>1. CASE FinishChunk(t)
      <3>1. ch[Cur(t).o].id \in Chunk
        BY <1>1, Zenon DEF IInv, ChInv
      <3>2. StuckAfter(ch[Cur(t).o]) \in BOOLEAN
        BY <3>1, Zenon DEF StuckAfter, IInv, FileInv
      <3> QED
        BY <2>1, <3>1, <3>2, Zenon DEF FinishChunk, IInv, FileInv
    <2>2. CASE MarkRepairDone(t)
      BY <2>2, Frame, Zenon DEF MarkRepairDone
    <2> QED
      BY <2>1, <2>2, Zenon
  <1> QED
    BY <1>1, <1>2, <1>3, <1>5, <1>6, TaskKeeps, Zenon

-----------------------------------------------------------------------------
(* Fetching and uploading *)

\* The thread of an object and those of a worker are threads.
LEMMA Threads ==
    /\ \A o \in Object : Fetch(o) \in Thread /\ Retry(o) \in Thread
    /\ \A w \in Worker : Job(w) \in Thread /\ Kill(w) \in Thread
    /\ Loop \in Thread /\ Stuck \in Thread /\ Api \in Thread /\ Stream \in Thread
  BY Zenon DEF Thread

\* The fetch of a chunk changes counters and flags of its object.
LEMMA FetchStepKeeps ==
    ASSUME IInv, NEW o \in Object, FetchStep(o)
    PROVE  Harmless
  <1>1. Fetch(o) \in Thread
    BY Threads, Zenon
  <1>2. todo[Fetch(o)] # <<>>
    BY Zenon DEF FetchStep, FetchRefused, FetchChunk, FetchFails, DistributeChunkToWorkers, At
  <1>3. WkInv' /\ OnlyTakes
    BY Frame, Zenon DEF FetchStep, FetchRefused, FetchChunk, FetchFails, DistributeChunkToWorkers
  <1>4. /\ <<>> \in Seq(GoodTask) /\ Do("cleanup", o) \in Seq(GoodTask)
        /\ Do("distribute", o) \in Seq(GoodTask)
    BY ObjectDo, EmptySeq, Zenon DEF Tasks
  <1>5. CASE FetchRefused(o)
    <2>1. ChInv' /\ ObjectsKept /\ FileInv' /\ LeftInv'
      BY <1>5, Frame, Zenon DEF FetchRefused
    <2> QED
      BY <1>1, <1>2, <1>3, <1>4, <1>5, <2>1, TaskKeeps, Zenon DEF FetchRefused
  <1>6. CASE FetchChunk(o)
    <2>1. FileInv' /\ LeftInv'
      BY <1>6, Frame, Zenon DEF FetchChunk
    <2>2. ChInv' /\ ObjectsKept
      BY <1>6, Zenon DEF FetchChunk, IInv, ChInv, ObjectsKept
    <2>3. Do("distribute", o) \o Do("cleanup", o) \in Seq(GoodTask)
      BY <1>4, ConcatProperties, Zenon
    <2> QED
      BY <1>1, <1>2, <1>3, <1>6, <2>1, <2>2, <2>3, TaskKeeps, Zenon DEF FetchChunk
  <1>7. CASE FetchFails(o)
    <2>1. LeftInv'
      BY <1>7, SpendKeeps, Zenon DEF FetchFails
    <2>2. ChInv' /\ ObjectsKept
      BY <1>7, Zenon DEF FetchFails, IInv, ChInv, ObjectsKept
    <2>3. FileInv'
      BY <1>7, Zenon DEF FetchFails, IInv, FileInv
    <2> QED
      BY <1>1, <1>2, <1>3, <1>4, <1>7, <2>1, <2>2, <2>3, TaskKeeps, Zenon DEF FetchFails
  <1>8. CASE DistributeChunkToWorkers(o)
    <2>1. FileInv' /\ LeftInv'
      BY <1>8, Frame, Zenon DEF DistributeChunkToWorkers
    <2>2. ChInv' /\ ObjectsKept
      BY <1>8, Zenon DEF DistributeChunkToWorkers, IInv, ChInv, ObjectsKept
    <2>3. Pool \in SUBSET Worker /\ 0 \in Number
      BY IntsAreNumbers DEF Pool
    <2>4. (IF Pool = {} THEN <<>> ELSE Task("queue", o, Pool, 0)) \in Seq(GoodTask)
      BY <2>3, ObjectTask, EmptySeq, Zenon DEF Tasks
    <2>5. (IF Pool = {} THEN <<>> ELSE Task("queue", o, Pool, 0)) \o Do("cleanup", o)
            \in Seq(GoodTask)
      BY <1>4, <2>4, ConcatProperties, Zenon
    <2> QED
      BY <1>1, <1>2, <1>3, <1>8, <2>1, <2>2, <2>5, TaskKeeps, Zenon DEF DistributeChunkToWorkers
  <1> QED
    BY <1>5, <1>6, <1>7, <1>8, Zenon DEF FetchStep

\* The worker takes a chunk from its queue.
LEMMA PerformKeeps ==
    ASSUME IInv, NEW w \in Worker, PerformUploadChunkJob(w)
    PROVE  Harmless
  <1>1. FileInv' /\ LeftInv' /\ OnlyTakes
    BY Frame, Zenon DEF PerformUploadChunkJob
  <1>2. wk[w].queue \in Seq(Object) /\ wk[w].queue # <<>>
    BY Zenon DEF IInv, WkInv, PerformUploadChunkJob
  <1>3. Head(wk[w].queue) \in Object /\ Tail(wk[w].queue) \in Seq(Object)
    BY <1>2, HeadTailProperties, Zenon
  <1>4. WkInv'
    BY <1>3, Zenon DEF PerformUploadChunkJob, IInv, WkInv
  <1> DEFINE o == Head(wk[w].queue)
  <1>5. ChInv' /\ ObjectsKept
    <2>1. ch' = ch \/ ch' = [ch EXCEPT ![o].wg = @ + 1]
      BY Zenon DEF PerformUploadChunkJob
    <2> QED
      BY <1>3, <2>1 DEF IInv, ChInv, ObjectsKept
  <1>6. TodoInv'
    <2>1. Do("process", o) \in Seq(GoodTask) /\ Do("wgdone", o) \in Seq(GoodTask)
      BY <1>3, ObjectDo, Zenon DEF Tasks
    <2>2. Do("process", o) \o Do("wgdone", o) \in Seq(GoodTask)
      BY <2>1, ConcatProperties, Zenon
    <2>3. todo' = todo \/ todo' = [todo EXCEPT ![Job(w)] = Do("process", o) \o Do("wgdone", o)]
      BY Zenon DEF PerformUploadChunkJob
    <2>4. todo' \in [Thread -> Seq(GoodTask)]
      BY <2>2, <2>3, Zenon DEF IInv, TodoInv
    <2> QED
      BY <1>5, <2>4, Frame, Zenon
  <1> QED
    BY <1>1, <1>4, <1>5, <1>6, Zenon DEF Harmless

\* The worker does not help.
LEMMA ProcessDropsKeeps ==
    ASSUME IInv, NEW w \in Worker, ProcessDrops(w)
    PROVE  Harmless
  <1> DEFINE t == Job(w)
             o == Cur(t).o
             unusable == wk[w].cool \/ ~wk[w].good
  <1>1. t \in Thread /\ todo[t] # <<>> /\ o \in Object
    BY CurKnown, Threads DEF ProcessDrops, NoObjectTasks
  <1>2. ChInv' /\ ObjectsKept /\ FileInv' /\ WkInv' /\ LeftInv' /\ OnlyTakes
    BY Frame, Zenon DEF ProcessDrops
  <1>3. Do("drop", o) \in Seq(GoodTask)
    BY <1>1, ObjectDo, Zenon DEF Tasks
  <1>4. Task("dropall", o, {w}, 0) \in Seq(GoodTask)
    BY <1>1, ObjectTask, IntsAreNumbers DEF Tasks
  <1>5. (IF unusable THEN Task("dropall", o, {w}, 0) ELSE <<>>) \in Seq(GoodTask)
    BY <1>4, EmptySeq, Zenon
  <1>6. Do("drop", o) \o (IF unusable THEN Task("dropall", o, {w}, 0) ELSE <<>>) \in Seq(GoodTask)
    BY <1>3, <1>5, ConcatProperties, Zenon
  <1>7. Then(t, Do("drop", o) \o (IF unusable THEN Task("dropall", o, {w}, 0) ELSE <<>>))
    BY Zenon DEF ProcessDrops
  <1> QED
    BY <1>1, <1>2, <1>6, <1>7, TaskKeeps, Zenon

\* The worker stands by or registers a piece.
LEMMA ProcessKeeps ==
    ASSUME IInv, NEW w \in Worker, ProcessStandsBy(w) \/ ProcessTakes(w)
    PROVE  Harmless
  <1> DEFINE t == Job(w)
             o == Cur(t).o
             free == Unused(ch[o])
  <1>1. t \in Thread /\ todo[t] # <<>> /\ o \in Object
    <2>1. At(t, "process")
      BY Zenon DEF ProcessStandsBy, ProcessTakes
    <2>2. t \in Thread /\ "process" \notin NoObjectTasks
      BY Threads, Zenon DEF NoObjectTasks
    <2> QED
      BY <2>1, <2>2, CurKnown, Zenon
  <1>2. FileInv' /\ WkInv' /\ LeftInv' /\ OnlyTakes
    BY Frame, Zenon DEF ProcessStandsBy, ProcessTakes
  <1>3. Do("cleanup", o) \in Seq(GoodTask) /\ Do("drop", o) \in Seq(GoodTask)
    BY <1>1, ObjectDo, Zenon DEF Tasks
  <1>4. Min(free) \in Number
    BY Zenon DEF Unused, Number
  <1>5. Task("upload", o, {w}, Min(free)) \in Seq(GoodTask)
    BY <1>1, <1>4, ObjectTask, Zenon DEF Tasks
  <1>6. \/ ch' = [ch EXCEPT ![o].standby = @ \cup {w}]
        \/ ch' = ch
        \/ ch' = [ch EXCEPT ![o].used = @ \cup {Min(free)}, ![o].hosts = @ \ {w},
                            ![o].reg = @ + 1, ![o].rem = @ - 1]
    BY Zenon DEF ProcessStandsBy, ProcessTakes
  <1>7. ChInv' /\ ObjectsKept
    <2>1. ch[o].standby \cup {w} \in SUBSET Worker
      BY <1>1, Zenon DEF IInv, ChInv
    <2> QED
      BY <1>1, <1>6, <2>1 DEF IInv, ChInv, ObjectsKept
  <1>8. \/ Then(t, Do("cleanup", o)) \/ Then(t, Do("drop", o))
        \/ Then(t, Task("upload", o, {w}, Min(free)))
    BY Zenon DEF ProcessStandsBy, ProcessTakes
  <1> QED
    BY <1>1, <1>2, <1>3, <1>5, <1>7, <1>8, TaskKeeps, Zenon

\* The piece is uploaded, or its upload fails.
LEMMA UploadKeeps ==
    ASSUME IInv, NEW w \in Worker, UploadPiece(w) \/ UploadFailed(w)
    PROVE  Harmless
  <1> DEFINE t == Job(w)
             k == Cur(t)
  <1>1. t \in Thread /\ todo[t] # <<>> /\ k.o \in Object
    <2>1. At(t, "upload")
      BY Zenon DEF UploadPiece, UploadFailed
    <2>2. t \in Thread /\ "upload" \notin NoObjectTasks
      BY Threads, Zenon DEF NoObjectTasks
    <2> QED
      BY <2>1, <2>2, CurKnown, Zenon
  <1>2. OnlyTakes
    BY Frame, Zenon DEF UploadPiece, UploadFailed
  <1>3. ch[k.o].id \in Chunk
    BY <1>1, Zenon DEF IInv, ChInv
  <1>4. CASE UploadPiece(w)
    <2>1. WkInv' /\ LeftInv'
      BY <1>4, Frame, Zenon DEF UploadPiece
    <2>2. FileInv'
      <3>1. file' = [file EXCEPT ![ch[k.o].id].pieces = @ \cup {<<k.n, w>>}]
        BY <1>4, Zenon DEF UploadPiece
      <3> QED
        BY <1>3, <3>1, Zenon DEF IInv, FileInv
    <2>3. ChInv' /\ ObjectsKept
      <3>1. ch' = [ch EXCEPT ![k.o].reg = @ - 1, ![k.o].done = @ + 1, ![k.o].freed = @ + 1]
        BY <1>4, Zenon DEF UploadPiece
      <3> QED
        BY <1>1, <3>1, Zenon DEF IInv, ChInv, ObjectsKept
    <2>4. Do("cleanup", k.o) \in Seq(GoodTask)
      BY <1>1, ObjectDo, Zenon DEF Tasks
    <2> QED
      BY <1>1, <1>2, <1>4, <2>1, <2>2, <2>3, <2>4, TaskKeeps, Zenon DEF UploadPiece
  <1>5. CASE UploadFailed(w)
    <2>1. FileInv'
      BY <1>5, Frame, Zenon DEF UploadFailed
    <2>2. LeftInv'
      BY <1>5, Frame, SpendKeeps, Zenon DEF UploadFailed
    <2>3. WkInv'
      BY <1>5, Zenon DEF UploadFailed, IInv, WkInv
    <2>4. ChInv' /\ ObjectsKept
      <3>1. ch' = [ch EXCEPT ![k.o].reg = @ - 1, ![k.o].used = @ \ {k.n}]
        BY <1>5, Zenon DEF UploadFailed
      <3> QED
        BY <1>1, <3>1, Zenon DEF IInv, ChInv, ObjectsKept
    <2>5. Do("cleanup", k.o) \in Seq(GoodTask) /\ Do("notify", k.o) \in Seq(GoodTask)
      BY <1>1, ObjectDo, Zenon DEF Tasks
    <2>6. Task("dropall", k.o, {w}, 0) \in Seq(GoodTask)
      BY <1>1, ObjectTask, IntsAreNumbers DEF Tasks
    <2>7. Do("notify", k.o) \o Do("cleanup", k.o) \o Task("dropall", k.o, {w}, 0) \in Seq(GoodTask)
      BY <2>5, <2>6, ConcatProperties, Zenon
    <2>8. Then(t, Do("notify", k.o) \o Do("cleanup", k.o) \o Task("dropall", k.o, {w}, 0))
      BY <1>5, Zenon DEF UploadFailed
    <2> QED
      BY <1>1, <1>2, <2>1, <2>2, <2>3, <2>4, <2>7, <2>8, TaskKeeps, Zenon
  <1> QED
    BY <1>4, <1>5, Zenon

\* The worker is done with the chunk.
LEMMA JobDoneKeeps ==
    ASSUME IInv, NEW w \in Worker, JobDone(w)
    PROVE  Harmless
  <1>1. /\ Job(w) \in Thread /\ todo[Job(w)] # <<>> /\ Cur(Job(w)).o \in Object
        /\ Then(Job(w), <<>>) /\ <<>> \in Seq(GoodTask)
    BY CurKnown, Threads, EmptySeq DEF JobDone, NoObjectTasks
  <1>2. FileInv' /\ WkInv' /\ LeftInv' /\ OnlyTakes
    BY Frame, Zenon DEF JobDone
  <1>3. ChInv' /\ ObjectsKept
    BY <1>1, Zenon DEF JobDone, IInv, ChInv, ObjectsKept
  <1> QED
    BY <1>1, <1>2, <1>3, TaskKeeps, Zenon

\* A worker recovers, is marked, is removed or ends.
LEMMA WorkerChangeKeeps ==
    ASSUME IInv, NEW w \in Worker,
           CooldownOver(w) \/ GoodForUploadLost(w) \/ RemoveWorker(w) \/ KillUploading(w)
    PROVE  Harmless
  <1>1. ChInv' /\ ObjectsKept /\ FileInv' /\ OnlyTakes
    BY Frame, Zenon DEF CooldownOver, GoodForUploadLost, RemoveWorker, KillUploading
  <1>2. LeftInv'
    BY Frame, SpendKeeps, Zenon DEF CooldownOver, GoodForUploadLost, RemoveWorker, KillUploading
  <1>3. WkInv'
    <2>1. \/ wk' = [wk EXCEPT ![w].cool = FALSE] \/ wk' = [wk EXCEPT ![w].good = FALSE]
          \/ wk' = [wk EXCEPT ![w].pool = FALSE]
          \/ wk' = [wk EXCEPT ![w].alive = FALSE, ![w].dead = TRUE]
      BY Zenon DEF CooldownOver, GoodForUploadLost, RemoveWorker, KillUploading
    <2> QED
      BY <2>1, Zenon DEF IInv, WkInv
  <1>4. TodoInv'
    <2>1. Task("dropall", 0, {w}, 0) \in Seq(GoodTask)
      BY OtherTask, Zenon DEF NoObjectTasks, Tasks
    <2>2. todo' = todo \/ todo' = [todo EXCEPT ![Kill(w)] = Task("dropall", 0, {w}, 0)]
      BY Zenon DEF CooldownOver, GoodForUploadLost, RemoveWorker, KillUploading
    <2>3. todo' \in [Thread -> Seq(GoodTask)]
      BY <2>1, <2>2, Zenon DEF IInv, TodoInv
    <2> QED
      BY <1>1, <2>3, Frame, Zenon
  <1> QED
    BY <1>1, <1>2, <1>3, <1>4, Zenon DEF Harmless

\* Every step of a worker.
LEMMA WorkerStepKeeps ==
    ASSUME IInv, NEW w \in Worker, WorkerStep(w)
    PROVE  Harmless
  BY PerformKeeps, ProcessDropsKeeps, ProcessKeeps, UploadKeeps, JobDoneKeeps,
     WorkerChangeKeeps, Zenon DEF WorkerStep

-----------------------------------------------------------------------------
(* The heap *)

\* Nothing exists for an id: not in the heap and not in the repair map.
LEMMA NothingExists ==
    ASSUME IInv, NEW id \in Chunk, Existing(id) = {}
    PROVE  /\ repairing[id] = 0
           /\ \A x \in heap : ch[x].id # id
  <1>1. InHeap(id, TRUE) = {} /\ repairing[id] = 0 /\ InHeap(id, FALSE) = {}
    BY Zenon DEF Existing
  <1>2. \A x \in heap : ch[x].stuck \in BOOLEAN
    BY Zenon DEF IInv, ChInv, HeapInv
  <1> QED
    BY <1>1, <1>2, Zenon DEF InHeap

\* A push into the heap keeps the invariant, because managedPush looks for
\* another object of the chunk first.
LEMMA PushAddsKeeps ==
    ASSUME IInv, NEW t \in Thread, PushAdds(t)
    PROVE  IInv'
  <1> DEFINE o == Cur(t).o
  <1>1. todo[t] # <<>> /\ o \in Object /\ ch[o].st # "none"
    BY CurKnown DEF PushAdds, NoObjectTasks
  <1>2. /\ ChInv' /\ ObjectsKept /\ FileInv' /\ WkInv' /\ LeftInv'
        /\ ch' = ch /\ repairing' = repairing
    BY Frame, Zenon DEF PushAdds
  <1>3. TodoInv'
    BY <1>1, <1>2, EmptySeq, ThenTyped, Zenon DEF PushAdds
  <1>4. RepairInv'
    BY <1>2, Zenon DEF IInv, RepairInv
  <1>5. ch[o].id \in Chunk
    BY <1>1, Zenon DEF IInv, ChInv
  <1>6. repairing[ch[o].id] = 0 /\ \A x \in heap : ch[x].id # ch[o].id
    BY <1>5, NothingExists, Zenon DEF PushAdds, CanAdd
  <1>7. HeapInv'
    <2>1. heap' = heap \cup {o}
      BY Zenon DEF PushAdds
    <2> QED
      BY <1>1, <1>2, <1>6, <2>1 DEF IInv, HeapInv
  <1> QED
    BY <1>2, <1>3, <1>4, <1>7, Zenon DEF IInv

\* An object with a source cancels the one that exists and is pushed later.
LEMMA PushReplacesKeeps ==
    ASSUME IInv, NEW t \in Thread, PushReplaces(t)
    PROVE  Harmless
  <1> DEFINE o == Cur(t).o
  <1>1. todo[t] # <<>> /\ o \in Object /\ ch[o].st # "none"
    BY CurKnown DEF PushReplaces, NoObjectTasks
  <1>2. FileInv' /\ WkInv' /\ LeftInv' /\ OnlyTakes
    BY Frame, Zenon DEF PushReplaces
  <1>3. PICK e \in Existing(ch[o].id) :
          /\ ch' = [ch EXCEPT ![e].canceled = TRUE]
          /\ todo' = [After(t, <<>>) EXCEPT ![Retry(o)] = Do("wait", e) \o Do("push", o)]
    BY Zenon DEF PushReplaces
  <1>4. e \in Object
    <2>1. ch[o].id \in Chunk
      BY <1>1, Zenon DEF IInv, ChInv
    <2> QED
      BY <1>3, <2>1, Zenon DEF Existing, InHeap, IInv, HeapInv, RepairInv
  <1>5. ChInv' /\ ObjectsKept
    BY <1>3, <1>4, Zenon DEF IInv, ChInv, ObjectsKept
  <1>6. Do("wait", e) \o Do("push", o) \in Seq(GoodTask)
    <2>1. Do("wait", e) \in Seq(GoodTask)
      BY <1>4, ObjectDo, Zenon DEF Tasks
    <2> QED
      BY <1>1, <2>1, PushTask, ConcatProperties, Zenon
  <1>7. After(t, <<>>) \in [Thread -> Seq(GoodTask)]
    BY <1>1, AfterTyped, EmptySeq, Zenon DEF IInv, TodoInv
  <1>8. todo' \in [Thread -> Seq(GoodTask)]
    BY <1>3, <1>6, <1>7, Zenon
  <1> QED
    BY <1>2, <1>5, <1>8, Frame, Zenon DEF Harmless

\* A refused object is forgotten, or read to its end.
LEMMA PushRefusedKeeps ==
    ASSUME IInv, NEW t \in Thread, PushRefused(t)
    PROVE  Harmless
  <1> DEFINE o == Cur(t).o
  <1>1. todo[t] # <<>> /\ o \in Object /\ ch[o].st # "none"
    BY CurKnown DEF PushRefused, NoObjectTasks
  <1>2. FileInv' /\ WkInv' /\ LeftInv' /\ OnlyTakes
    BY Frame, Zenon DEF PushRefused
  <1>3. \/ ch' = [ch EXCEPT ![o] = [ch[o] EXCEPT !.read = @ \/ t = Stream]]
        \/ ch' = [ch EXCEPT ![o] = [NoObject EXCEPT !.st = "gone", !.id = ch[o].id]]
    BY Zenon DEF PushRefused
  <1>4. CASE ch' = [ch EXCEPT ![o] = [ch[o] EXCEPT !.read = @ \/ t = Stream]]
    <2>1. ChInv' /\ ObjectsKept
      BY <1>1, <1>4, Zenon DEF IInv, ChInv, ObjectsKept
    <2> QED
      BY <1>1, <1>2, <2>1, EmptySeq, TaskKeeps, Zenon DEF PushRefused
  <1>5. CASE ch' = [ch EXCEPT ![o] = [NoObject EXCEPT !.st = "gone", !.id = ch[o].id]]
    <2> DEFINE gone == [NoObject EXCEPT !.st = "gone", !.id = ch[o].id]
    <2>1. /\ {"st", "id", "stuck", "standby"} \subseteq DOMAIN gone
          /\ gone.st = "gone" /\ gone.id = ch[o].id /\ gone.stuck = FALSE /\ gone.standby = {}
      BY Zenon DEF NoObject
    <2> HIDE DEF gone
    <2>2. ChInv' /\ ObjectsKept
      <3>1. ch' = [ch EXCEPT ![o] = gone]
        BY <1>5, Zenon DEF gone
      <3> QED
        BY <1>1, <2>1, <3>1, Zenon DEF IInv, ChInv, ObjectsKept
    <2> QED
      BY <1>1, <1>2, <2>2, EmptySeq, TaskKeeps, Zenon DEF PushRefused
  <1> QED
    BY <1>3, <1>4, <1>5, Zenon

\* A wait that is over and a signal change no object.
LEMMA SignalKeeps ==
    ASSUME IInv, NEW t \in Thread, CancelWait(t) \/ Signal(t)
    PROVE  Harmless
  <1>1. todo[t] # <<>> /\ Then(t, <<>>)
    BY Zenon DEF CancelWait, Signal, At
  <1>2. ChInv' /\ ObjectsKept /\ FileInv' /\ WkInv' /\ LeftInv' /\ OnlyTakes
    BY Frame, Zenon DEF CancelWait, Signal
  <1> QED
    BY <1>1, <1>2, EmptySeq, TaskKeeps, Zenon


-----------------------------------------------------------------------------
(* New objects *)

\* What managedBuildUnfinishedChunk makes is an object of the chunk.
LEMMA BuildTyped ==
    ASSUME IInv, NEW c \in Chunk, NEW src, NEW b, b = Build(c, src)
    PROVE  /\ {"st", "id", "stuck", "standby"} \subseteq DOMAIN b
           /\ b.st = "built" /\ b.id = c /\ b.stuck \in BOOLEAN /\ b.standby = {}
  <1>1. file[c].stuck \in BOOLEAN
    BY Zenon DEF IInv, FileInv
  <1> QED
    BY <1>1, Zenon DEF Build, NoObject

\* A name that was not used gets such an object.
LEMMA NewObjectKeeps ==
    ASSUME IInv, NEW c \in Chunk, NEW src, NEW o \in NewObject,
           ch' = [ch EXCEPT ![o] = Build(c, src)]
    PROVE  ChInv' /\ ObjectsKept /\ o \in Object /\ ch'[o].st # "none"
  <1> DEFINE b == Build(c, src)
  <1>1. o \in Object /\ ch[o].st = "none"
    BY Zenon DEF NewObject, Fresh
  <1>2. /\ {"st", "id", "stuck", "standby"} \subseteq DOMAIN b
        /\ b.st = "built" /\ b.id = c /\ b.stuck \in BOOLEAN /\ b.standby = {}
    BY BuildTyped, Zenon
  <1>3. ch' = [ch EXCEPT ![o] = b]
    BY Zenon
  <1> HIDE DEF b
  <1> QED
    BY <1>1, <1>2, <1>3, Zenon DEF IInv, ChInv, ObjectsKept

\* Its push is a good task from then on.
LEMMA NewPush ==
    ASSUME NEW o \in Object, ch'[o].st # "none"
    PROVE  Do("push", o) \in Seq(GoodTask')
  <1>1. 0 \in Number /\ {} \in SUBSET Worker /\ o \in Object \cup {0}
    BY IntsAreNumbers
  <1>2. "push" \in Tasks /\ "push" \notin {"scan", "next"}
    BY Zenon DEF Tasks
  <1>3. [do |-> "push", o |-> o, ws |-> {}, n |-> 0] \in GoodTask'
    BY <1>1, <1>2, Zenon DEF GoodTask
  <1> QED
    BY <1>3, OneTask, Zenon DEF Do, Task

\* Then with tasks that are good from now on.
LEMMA ThenNext ==
    ASSUME IInv, ObjectsKept, NEW t \in Thread, todo[t] # <<>>,
           NEW tasks \in Seq(GoodTask'), Then(t, tasks)
    PROVE  TodoInv'
  <1>1. todo \in [Thread -> Seq(GoodTask')]
    BY TasksKept, Zenon DEF IInv, TodoInv
  <1> QED
    BY <1>1, AfterTyped, Zenon DEF Then, TodoInv

\* A scan builds and pushes an unhealthy chunk, or marks it stuck.
LEMMA ScanKeeps ==
    ASSUME IInv, NEW t \in Thread, ScanChunk(t)
    PROVE  Harmless
  <1> DEFINE c == Cur(t).n
  <1>1. todo[t] # <<>> /\ c \in Chunk
    BY CurKnown, Zenon DEF ScanChunk
  <1>2. WkInv' /\ LeftInv' /\ OnlyTakes
    BY Frame, Zenon DEF ScanChunk
  <1>3. FileInv'
    <2>1. file' = file \/ file' = [file EXCEPT ![c].stuck = TRUE]
      BY Zenon DEF ScanChunk
    <2> QED
      BY <1>1, <2>1, Zenon DEF IInv, FileInv
  <1>4. \/ Then(t, <<>>) /\ ch' = ch
        \/ \E o \in NewObject : ch' = [ch EXCEPT ![o] = Build(c, FALSE)] /\ Then(t, Do("push", o))
    BY Zenon DEF ScanChunk
  <1>5. CASE Then(t, <<>>) /\ ch' = ch
    BY <1>1, <1>2, <1>3, <1>5, Frame, EmptySeq, TaskKeeps, Zenon
  <1>6. CASE \E o \in NewObject : ch' = [ch EXCEPT ![o] = Build(c, FALSE)] /\ Then(t, Do("push", o))
    <2>1. PICK o \in NewObject : ch' = [ch EXCEPT ![o] = Build(c, FALSE)] /\ Then(t, Do("push", o))
      BY <1>6, Zenon
    <2>2. ChInv' /\ ObjectsKept /\ o \in Object /\ ch'[o].st # "none"
      BY <1>1, <2>1, NewObjectKeeps, Zenon
    <2>3. TodoInv'
      BY <1>1, <2>1, <2>2, NewPush, ThenNext, Zenon
    <2> QED
      BY <1>2, <1>3, <2>2, <2>3, Zenon DEF Harmless
  <1> QED
    BY <1>4, <1>5, <1>6, Zenon

\* The stuck loop builds and pushes one stuck chunk.
LEMMA AddStuckKeeps ==
    ASSUME IInv, NEW c \in Chunk, AddStuckChunk(c)
    PROVE  Harmless
  <1>1. WkInv' /\ OnlyTakes
    BY Frame, Zenon DEF AddStuckChunk
  <1>2. LeftInv'
    BY SpendKeeps, Zenon DEF AddStuckChunk
  <1>3. FileInv'
    <2>1. PICK well : file' = [d \in Chunk |-> [file[d] EXCEPT !.stuck = @ /\ d \notin well]]
      BY Zenon DEF AddStuckChunk
    <2> QED
      BY <2>1, Zenon DEF IInv, FileInv
  <1>4. \/ ch' = ch /\ todo' = todo
        \/ \E o \in NewObject :
              /\ ch' = [ch EXCEPT ![o] = Build(c, FALSE)]
              /\ todo' = [todo EXCEPT ![Stuck] = Do("push", o) \o Do("signal", 0)]
    BY Zenon DEF AddStuckChunk
  <1>5. CASE ch' = ch /\ todo' = todo
    BY <1>1, <1>2, <1>3, <1>5, Frame, Zenon DEF Harmless
  <1>6. CASE \E o \in NewObject :
              /\ ch' = [ch EXCEPT ![o] = Build(c, FALSE)]
              /\ todo' = [todo EXCEPT ![Stuck] = Do("push", o) \o Do("signal", 0)]
    <2>1. PICK o \in NewObject :
              /\ ch' = [ch EXCEPT ![o] = Build(c, FALSE)]
              /\ todo' = [todo EXCEPT ![Stuck] = Do("push", o) \o Do("signal", 0)]
      BY <1>6, Zenon
    <2>2. ChInv' /\ ObjectsKept /\ o \in Object /\ ch'[o].st # "none"
      BY <2>1, NewObjectKeeps, Zenon
    <2>3. Do("signal", 0) \in Seq(GoodTask')
      <3>1. Do("signal", 0) \in Seq(GoodTask)
        BY OtherDo, Zenon DEF NoObjectTasks, Tasks
      <3> QED
        BY <2>2, <3>1, TasksKept, SeqGrows, Zenon
    <2>4. Do("push", o) \o Do("signal", 0) \in Seq(GoodTask')
      BY <2>2, <2>3, NewPush, ConcatProperties, Zenon
    <2>5. todo \in [Thread -> Seq(GoodTask')]
      BY <2>2, TasksKept, Zenon DEF IInv, TodoInv
    <2>6. TodoInv'
      BY <2>1, <2>4, <2>5, Zenon DEF TodoInv
    <2> QED
      BY <1>1, <1>2, <1>3, <2>2, <2>6, Zenon DEF Harmless
  <1> QED
    BY <1>4, <1>5, <1>6, Zenon

\* The stream builds and pushes its next chunk.
LEMMA StreamNextKeeps ==
    ASSUME IInv, StreamNext
    PROVE  Harmless
  <1> DEFINE c == Cur(Stream).n
  <1>1. Stream \in Thread /\ todo[Stream] # <<>> /\ c \in Chunk
    BY CurKnown, Threads, Zenon DEF StreamNext
  <1>2. WkInv' /\ LeftInv' /\ OnlyTakes /\ FileInv'
    BY Frame, Zenon DEF StreamNext
  <1>3. \/ Then(Stream, <<>>) /\ ch' = ch
        \/ \E o \in NewObject :
              /\ ch' = [ch EXCEPT ![o] = Build(c, TRUE)]
              /\ Then(Stream, Do("push", o) \o Do("signal", 0) \o Do("read", o))
    BY Zenon DEF StreamNext
  <1>4. CASE Then(Stream, <<>>) /\ ch' = ch
    BY <1>1, <1>2, <1>4, Frame, EmptySeq, TaskKeeps, Zenon
  <1>5. CASE \E o \in NewObject :
              /\ ch' = [ch EXCEPT ![o] = Build(c, TRUE)]
              /\ Then(Stream, Do("push", o) \o Do("signal", 0) \o Do("read", o))
    <2>1. PICK o \in NewObject :
              /\ ch' = [ch EXCEPT ![o] = Build(c, TRUE)]
              /\ Then(Stream, Do("push", o) \o Do("signal", 0) \o Do("read", o))
      BY <1>5, Zenon
    <2>2. ChInv' /\ ObjectsKept /\ o \in Object /\ ch'[o].st # "none"
      BY <1>1, <2>1, NewObjectKeeps, Zenon
    <2>3. Do("signal", 0) \in Seq(GoodTask') /\ Do("read", o) \in Seq(GoodTask')
      <3>1. Do("signal", 0) \in Seq(GoodTask)
        BY OtherDo, Zenon DEF NoObjectTasks, Tasks
      <3>2. Do("read", o) \in Seq(GoodTask)
        BY <2>2, ObjectDo, Zenon DEF Tasks
      <3> QED
        BY <2>2, <3>1, <3>2, TasksKept, SeqGrows, Zenon
    <2>4. Do("push", o) \o Do("signal", 0) \o Do("read", o) \in Seq(GoodTask')
      BY <2>2, <2>3, NewPush, ConcatProperties, Zenon
    <2>5. TodoInv'
      BY <1>1, <2>1, <2>2, <2>4, ThenNext, Zenon
    <2> QED
      BY <1>2, <2>2, <2>5, Zenon DEF Harmless
  <1> QED
    BY <1>3, <1>4, <1>5, Zenon

-----------------------------------------------------------------------------
(* The repair loop *)

\* What the loop may do next is about no object.
LEMMA LoopTasks ==
    /\ <<>> \in Seq(GoodTask) /\ Do("top", 0) \in Seq(GoodTask)
    /\ Do("paused", 0) \in Seq(GoodTask) /\ Do("idle", 0) \in Seq(GoodTask)
    /\ Do("iter", 0) \in Seq(GoodTask) /\ Do("block", 0) \in Seq(GoodTask)
    /\ Do("pop", 0) \in Seq(GoodTask) /\ Do("reset", 0) \in Seq(GoodTask)
    /\ Do("await", 0) \in Seq(GoodTask) /\ Do("signal", 0) \in Seq(GoodTask)
    /\ Scan \in Seq(GoodTask)
  <1>1. Scan \in Seq(GoodTask)
    <2>1. NumChunks \in 0..NumChunks
      BY UploadsAssumption
    <2> QED
      BY <2>1, ChunkTasks, Zenon DEF Scan, Chunk
  <1> QED
    BY <1>1, OtherDo, EmptySeq, Zenon DEF NoObjectTasks, Tasks

\* A reset forgets what is in the heap, but no object in the heap or in the
\* repair map changes its chunk.
LEMMA WipeKeeps ==
    ASSUME IInv, Wipe
    PROVE  ChInv' /\ ObjectsKept /\ heap' \subseteq heap
  <1> DEFINE gone(o) == [NoObject EXCEPT !.st = "gone", !.id = ch[o].id]
  <1>1. \A o \in Object :
          /\ {"st", "id", "stuck", "standby"} \subseteq DOMAIN gone(o)
          /\ gone(o).st = "gone" /\ gone(o).id = ch[o].id
          /\ gone(o).stuck = FALSE /\ gone(o).standby = {}
    BY Zenon DEF NoObject
  <1> HIDE DEF gone
  <1>2. /\ heap' = {} /\ DOMAIN ch' = Object
        /\ \A o \in Object : ch'[o] = gone(o) \/ ch'[o] = ch[o]
    BY Zenon DEF Wipe, gone
  <1> QED
    BY <1>1, <1>2, Zenon DEF IInv, ChInv, ObjectsKept

\* The repair loop looks around, sleeps, wakes up and resets the heap.
LEMMA LoopKeeps ==
    ASSUME IInv, LoopTop \/ LoopIdle \/ LoopBlock \/ LoopPaused \/ LoopIterate \/ LoopReset
    PROVE  Harmless
  <1>1. Loop \in Thread /\ todo[Loop] # <<>>
    BY Threads, Zenon DEF LoopTop, LoopIdle, LoopBlock, LoopPaused, LoopIterate, LoopReset, At
  <1>2. FileInv' /\ WkInv' /\ LeftInv'
    BY Frame, Zenon DEF LoopTop, LoopIdle, LoopBlock, LoopPaused, LoopIterate, LoopReset
  <1>3. repairing' = repairing /\ ((ch' = ch /\ heap' = heap) \/ Wipe)
    BY Zenon DEF LoopTop, LoopIdle, LoopBlock, LoopPaused, LoopIterate, LoopReset
  <1>4. ChInv' /\ ObjectsKept /\ heap' \subseteq heap
    BY <1>3, Frame, WipeKeeps, Zenon
  <1>5. OnlyTakes
    BY <1>3, <1>4, Zenon DEF OnlyTakes, IInv, RepairInv
  <1>6. PICK tasks \in Seq(GoodTask) : Then(Loop, tasks)
    <2>1. Scan \o Do("iter", 0) \in Seq(GoodTask) /\ <<>> \o Do("iter", 0) \in Seq(GoodTask)
      BY LoopTasks, ConcatProperties, Zenon
    <2>2. CASE LoopTop
      <3>1. \/ Then(Loop, <<>>) \/ Then(Loop, Do("paused", 0)) \/ Then(Loop, Do("idle", 0))
            \/ Then(Loop, Scan \o Do("iter", 0)) \/ Then(Loop, <<>> \o Do("iter", 0))
        BY <2>2, Zenon DEF LoopTop
      <3> QED
        BY <2>1, <3>1, LoopTasks, Zenon
    <2>3. CASE LoopIdle
      BY <2>3, LoopTasks, Zenon DEF LoopIdle
    <2>4. CASE LoopBlock
      BY <2>4, LoopTasks, Zenon DEF LoopBlock
    <2>5. CASE LoopPaused
      BY <2>5, LoopTasks, Zenon DEF LoopPaused
    <2>6. CASE LoopIterate
      BY <2>6, LoopTasks, Zenon DEF LoopIterate
    <2>7. CASE LoopReset
      BY <2>7, LoopTasks, Zenon DEF LoopReset
    <2> QED
      BY <2>2, <2>3, <2>4, <2>5, <2>6, <2>7, Zenon
  <1> QED
    BY <1>1, <1>2, <1>4, <1>5, <1>6, TaskKeeps, Zenon

\* A pop moves an object from the heap to the repair map, where its chunk has
\* no other.
LEMMA LoopPopKeeps ==
    ASSUME IInv, LoopPop
    PROVE  IInv'
  <1>1. Loop \in Thread /\ todo[Loop] # <<>>
    BY Threads, Zenon DEF LoopPop, At
  <1>2. ChInv' /\ ObjectsKept /\ FileInv' /\ WkInv' /\ LeftInv' /\ ch' = ch
    BY Frame, Zenon DEF LoopPop
  <1>3. CASE heap = {}
    <2>1. Then(Loop, Do("reset", 0)) /\ heap' = heap /\ repairing' = repairing
      BY <1>3, Zenon DEF LoopPop
    <2> QED
      BY <1>1, <1>2, <2>1, Frame, LoopTasks, TaskKeeps, HarmlessKeeps, Zenon
  <1>4. CASE heap # {}
    <2>1. PICK o \in heap :
            /\ heap' = heap \ {o}
            /\ repairing' = [repairing EXCEPT ![ch[o].id] = o]
            /\ Then(Loop, (IF Cardinality(Pool) < MinPieces
                           THEN Do("done", o) ELSE Do("request", o)) \o Do("iter", 0))
      BY <1>4, Zenon DEF LoopPop
    <2>2. o \in Object /\ ch[o].id \in Chunk /\ ch[o].st # "none"
      BY Zenon DEF IInv, HeapInv, ChInv
    <2>3. TodoInv'
      <3>1. Do("done", o) \in Seq(GoodTask) /\ Do("request", o) \in Seq(GoodTask)
        BY <2>2, ObjectDo, Zenon DEF Tasks
      <3>2. (IF Cardinality(Pool) < MinPieces THEN Do("done", o) ELSE Do("request", o))
              \o Do("iter", 0) \in Seq(GoodTask)
        BY <3>1, LoopTasks, ConcatProperties, Zenon
      <3> QED
        BY <1>1, <1>2, <2>1, <3>2, ThenTyped, Zenon
    <2>4. RepairInv'
      BY <1>2, <2>1, <2>2, Zenon DEF IInv, RepairInv
    <2>5. HeapInv'
      BY <1>2, <2>1, <2>2 DEF IInv, RepairInv, HeapInv, ChInv
    <2> QED
      BY <1>2, <2>3, <2>4, <2>5, Zenon DEF IInv
  <1> QED
    BY <1>3, <1>4, Zenon

\* The loop hands the chunk to its own thread, or gives it up.
LEMMA PrepareKeeps ==
    ASSUME IInv, PrepareNextChunk \/ PrepareRefused
    PROVE  Harmless
  <1> DEFINE o == Cur(Loop).o
  <1>1. Loop \in Thread /\ todo[Loop] # <<>> /\ o \in Object
    BY CurKnown, Threads DEF PrepareNextChunk, PrepareRefused, NoObjectTasks
  <1>2. FileInv' /\ WkInv' /\ LeftInv' /\ OnlyTakes
    BY Frame, Zenon DEF PrepareNextChunk, PrepareRefused
  <1>3. CASE PrepareNextChunk
    <2>1. /\ ch' = [ch EXCEPT ![o].granted = TRUE]
          /\ todo' = [After(Loop, <<>>) EXCEPT ![Fetch(o)] = Do("fetch", o)]
      BY <1>3, Zenon DEF PrepareNextChunk
    <2>2. ChInv' /\ ObjectsKept
      BY <1>1, <2>1, Zenon DEF IInv, ChInv, ObjectsKept
    <2>3. Do("fetch", o) \in Seq(GoodTask)
      BY <1>1, ObjectDo, Zenon DEF Tasks
    <2>4. After(Loop, <<>>) \in [Thread -> Seq(GoodTask)]
      BY <1>1, AfterTyped, EmptySeq, Zenon DEF IInv, TodoInv
    <2>5. todo' \in [Thread -> Seq(GoodTask)]
      BY <2>1, <2>3, <2>4, Zenon
    <2> QED
      BY <1>2, <2>2, <2>5, Frame, Zenon DEF Harmless
  <1>4. CASE PrepareRefused
    <2>1. ChInv' /\ ObjectsKept /\ Then(Loop, Do("done", o))
      BY <1>4, Frame, Zenon DEF PrepareRefused
    <2>2. Do("done", o) \in Seq(GoodTask)
      BY <1>1, ObjectDo, Zenon DEF Tasks
    <2> QED
      BY <1>1, <1>2, <2>1, <2>2, TaskKeeps, Zenon
  <1> QED
    BY <1>3, <1>4, Zenon

-----------------------------------------------------------------------------
(* Streams, pauses, the environment *)

\* A stream starts, reads and waits.
LEMMA StreamKeeps ==
    ASSUME IInv, StartStream \/ StreamRead \/ StreamAwait
    PROVE  Harmless
  <1>1. ChInv' /\ ObjectsKept /\ FileInv' /\ WkInv' /\ OnlyTakes
    BY Frame, Zenon DEF StartStream, StreamRead, StreamAwait
  <1>2. LeftInv'
    BY Frame, SpendKeeps, Zenon DEF StartStream, StreamRead, StreamAwait
  <1>3. todo' \in [Thread -> Seq(GoodTask)]
    <2>1. todo \in [Thread -> Seq(GoodTask)] /\ <<>> \in Seq(GoodTask)
      BY LoopTasks, Zenon DEF IInv, TodoInv
    <2>2. CASE StartStream
      <3> DEFINE parts == [c \in 1..left.length |-> Task("next", 0, {}, c)[1]]
      <3>1. parts \in Seq(GoodTask)
        BY ChunkTasks, Zenon DEF IInv, LeftInv
      <3> HIDE DEF parts
      <3>2. parts \o Do("await", 0) \in Seq(GoodTask)
        BY <3>1, LoopTasks, ConcatProperties, Zenon
      <3>3. todo' = [todo EXCEPT ![Stream] = parts \o Do("await", 0)]
        BY <2>2, Zenon DEF StartStream, parts
      <3> QED
        BY <2>1, <3>2, <3>3, Zenon
    <2>3. CASE StreamRead \/ StreamAwait
      <3>1. \/ At(Stream, "read") /\ Then(Stream, <<>>)
            \/ todo' = [todo EXCEPT ![Stream] = <<>>]
            \/ todo' = todo
        BY <2>3, Zenon DEF StreamRead, StreamAwait, StreamEnds
      <3>2. CASE At(Stream, "read") /\ Then(Stream, <<>>)
        BY <2>1, <3>2, Threads, AfterTyped, Zenon DEF Then, At
      <3> QED
        BY <2>1, <3>1, <3>2, Zenon
    <2> QED
      BY <2>2, <2>3, Zenon
  <1> QED
    BY <1>1, <1>2, <1>3, Frame, Zenon DEF Harmless

\* Pausing, bubbling and the environment touch no object and no task.
LEMMA OutsideKeeps ==
    ASSUME IInv,
           \/ Pause \/ Resume \/ TimerFires \/ TimerCloses \/ BubbleRoot
           \/ GoOffline \/ GoOnline \/ Stop
    PROVE  Harmless
  <1>1. /\ ch' = ch /\ file' = file /\ wk' = wk /\ todo' = todo
        /\ heap' = heap /\ repairing' = repairing
    BY Zenon DEF Pause, Resume, TimerFires, TimerCloses, BubbleRoot, GoOffline, GoOnline, Stop
  <1>2. LeftInv'
    BY Frame, SpendKeeps, Zenon DEF Pause, Resume, TimerFires, TimerCloses, BubbleRoot, GoOffline, GoOnline, Stop
  <1> QED
    BY <1>1, <1>2, Frame, Zenon DEF Harmless

-----------------------------------------------------------------------------
(* The theorem *)

\* Every initial state has the invariant: nothing is built, only Upload's scan
\* and the repair loop have something to do.
LEMMA InitIInv == Init => IInv
  <1> SUFFICES ASSUME Init PROVE IInv
    BY Zenon
  <1>1. PICK p \in Profiles :
          /\ ch = [o \in Object |-> NoObject]
          /\ file = [c \in Chunk |-> [pieces |-> {}, stuck |-> c \in p.stuck]]
          /\ heap = {} /\ repairing = [c \in Chunk |-> 0]
          /\ wk = [w \in Worker |->
                    [queue |-> <<>>, pool |-> w \in p.workers, alive |-> w \in p.workers,
                     dead |-> FALSE, good |-> w \in p.good, cool |-> FALSE]]
          /\ todo = [t \in Thread |->
                      CASE t = Loop -> Do("top", 0)
                        [] t = Api /\ p.upload -> Scan \o Do("signal", 0)
                        [] OTHER -> <<>>]
          /\ left = p.left
    BY Zenon DEF Init
  <1>2. ChInv
    <2>1. 1 \in Chunk
      BY UploadsAssumption DEF Chunk
    <2> QED
      BY <1>1, <2>1, Zenon DEF ChInv, NoObject
  <1>3. FileInv
    <2>1. ASSUME NEW c \in Chunk
          PROVE  "stuck" \in DOMAIN file[c] /\ file[c].stuck \in BOOLEAN
      <3>1. file[c] = [pieces |-> {}, stuck |-> c \in p.stuck]
        BY <1>1, Zenon
      <3>2. (c \in p.stuck) \in BOOLEAN
        OBVIOUS
      <3> QED
        BY <3>1, <3>2
    <2> QED
      BY <1>1, <2>1, Zenon DEF FileInv
  <1>4. WkInv
    BY <1>1, EmptySeq, Zenon DEF WkInv
  <1>5. LeftInv
    BY <1>1, UploadsAssumption, Zenon DEF LeftInv
  <1>6. TodoInv
    <2>1. Scan \o Do("signal", 0) \in Seq(GoodTask)
      BY LoopTasks, ConcatProperties, Zenon
    <2>2. ASSUME NEW t \in Thread
          PROVE  (CASE t = Loop -> Do("top", 0)
                    [] t = Api /\ p.upload -> Scan \o Do("signal", 0)
                    [] OTHER -> <<>>) \in Seq(GoodTask)
      <3>1. CASE t = Loop
        <4>1. t # Api
          BY <3>1, Zenon DEF Loop, Api
        <4> QED
          BY <3>1, <4>1, LoopTasks, Zenon
      <3>2. CASE t # Loop /\ (t = Api /\ p.upload)
        BY <2>1, <3>2, Zenon
      <3>3. CASE t # Loop /\ ~(t = Api /\ p.upload)
        BY <3>3, LoopTasks, Zenon
      <3> QED
        BY <3>1, <3>2, <3>3, Zenon
    <2> QED
      BY <1>1, <2>2, Zenon DEF TodoInv
  <1>7. RepairInv /\ HeapInv
    BY <1>1, Zenon DEF RepairInv, HeapInv
  <1> QED
    BY <1>2, <1>3, <1>4, <1>5, <1>6, <1>7, Zenon DEF IInv

\* Every step keeps the invariant.
LEMMA NextIInv == IInv /\ [Next]_vars => IInv'
  <1> SUFFICES ASSUME IInv, [Next]_vars PROVE IInv'
    BY Zenon
  <1>1. ASSUME NEW t \in Thread, ChunkTask(t)
        PROVE  IInv'
    BY <1>1, QueueUploadChunkKeeps, DropChunkKeeps, DropUploadChunksKeeps, CleanUpKeeps,
       NotifyKeeps, FinishKeeps, HarmlessKeeps, Zenon DEF ChunkTask
  <1>2. ASSUME NEW t \in Thread, HeapTask(t)
        PROVE  IInv'
    BY <1>2, PushReplacesKeeps, SignalKeeps, PushAddsKeeps, PushRefusedKeeps, ScanKeeps,
       HarmlessKeeps, Zenon DEF HeapTask
  <1>3. ASSUME NEW o \in Object, FetchStep(o)
        PROVE  IInv'
    BY <1>3, FetchStepKeeps, HarmlessKeeps, Zenon
  <1>4. ASSUME NEW w \in Worker, WorkerStep(w)
        PROVE  IInv'
    BY <1>4, WorkerStepKeeps, HarmlessKeeps, Zenon
  <1>5. ASSUME NEW c \in Chunk, AddStuckChunk(c)
        PROVE  IInv'
    BY <1>5, AddStuckKeeps, HarmlessKeeps, Zenon
  <1>6. CASE LoopStep
    BY <1>6, LoopKeeps, LoopPopKeeps, PrepareKeeps, HarmlessKeeps, Zenon DEF LoopStep
  <1>7. CASE StartStream \/ StreamNext \/ StreamRead \/ StreamAwait
    BY <1>7, StreamKeeps, StreamNextKeeps, HarmlessKeeps, Zenon
  <1>8. CASE \/ Pause \/ Resume \/ TimerFires \/ TimerCloses \/ BubbleRoot
             \/ GoOffline \/ GoOnline \/ Stop
    BY <1>8, OutsideKeeps, HarmlessKeeps, Zenon
  <1>9. CASE UNCHANGED vars
    BY <1>9, Frame, HarmlessKeeps, Zenon DEF vars, Harmless
  <1> QED
    BY <1>1, <1>2, <1>3, <1>4, <1>5, <1>6, <1>7, <1>8, <1>9, Zenon DEF Next

\* The invariant leaves a chunk at most one live object: one in the repair map,
\* or else one in the heap.
LEMMA IInvOneRepair == IInv => OneRepairPerChunk
  <1> SUFFICES ASSUME IInv, NEW c \in Chunk
               PROVE  Cardinality({o \in Object : ch[o].id = c /\ Live(o)}) <= 1
    BY Zenon DEF OneRepairPerChunk
  <1> DEFINE live == {o \in Object : ch[o].id = c /\ Live(o)}
  <1>1. \A a, b \in live : a = b
    <2>1. 0 \notin Object
      BY UploadsAssumption, Zenon
    <2>2. \A a \in live : \/ a \in heap /\ repairing[c] = 0 /\ ch[a].id = c
                          \/ repairing[c] = a /\ a # 0
      BY <2>1, Zenon DEF Live, IInv, HeapInv
    <2> QED
      BY <2>2, Zenon DEF IInv, HeapInv
  <1>2. CASE live = {}
    BY <1>2, FS_EmptySet
  <1>3. CASE live # {}
    <2>1. PICK a : live = {a}
      BY <1>1, <1>3, Zenon
    <2>2. Cardinality(live) = 1
      BY <2>1, FS_Singleton, Zenon
    <2> QED
      BY <2>2
  <1> QED
    BY <1>2, <1>3, Zenon

\* At most one object per chunk of the file is ever in the heap or in repair:
\* managedPush, managedPop and managedMarkRepairDone keep it so whatever the
\* workers, streams, resets and stuck chunks do in between.
THEOREM OneRepairAlways == Spec => []OneRepairPerChunk
  <1>1. Spec => []IInv
    BY InitIInv, NextIInv, PTL DEF Spec
  <1> QED
    BY <1>1, IInvOneRepair, PTL

-----------------------------------------------------------------------------
(* Pauses *)

\* The tasks other than the pop of the repair loop.
Plain == [do : Tasks \ {"pop"}, o : Object \cup {0}, ws : SUBSET Worker, n : Number]

\* Only the first task of the repair loop may be a pop, and during a pause it is
\* the first pop of the pause.
PopInv ==
    /\ todo[Loop] # <<>> => Tail(todo[Loop]) \in Seq(Plain)
    /\ hist.pops \in {0, 1}
    /\ Paused /\ At(Loop, "pop") => hist.pops = 0

\* As long as no running timer was re-armed a pause has one timer, which is
\* armed or has fired, and no timer outlives its pause.
TimerInv ==
    /\ pz \in [closed : BOOLEAN, cur : BOOLEAN, old : Nat, fired : Nat]
    /\ {"pops", "rearmed", "panic"} \subseteq DOMAIN hist
    /\ hist.rearmed \in BOOLEAN /\ hist.panic \in BOOLEAN
    /\ ~hist.rearmed =>
        /\ ~hist.panic /\ pz.old = 0
        /\ pz.fired = IF pz.closed \/ pz.cur THEN 0 ELSE 1
        /\ pz.closed => ~pz.cur

\* What an action does that has nothing to do with pauses.
HistKept ==
    /\ {"pops", "rearmed", "panic"} \subseteq DOMAIN hist'
    /\ hist'.pops = hist.pops /\ hist'.rearmed = hist.rearmed /\ hist'.panic = hist.panic
LoopKept == todo'[Loop] = todo[Loop] \/ todo'[Loop] \in Seq(Plain)
Calm == pz' = pz /\ HistKept /\ LoopKept

\* Such a step keeps both invariants.
LEMMA CalmKeeps ==
    ASSUME PopInv, TimerInv, Calm
    PROVE  PopInv' /\ TimerInv'
  <1>1. TimerInv'
    BY Zenon DEF TimerInv, Calm, HistKept
  <1>2. CASE todo'[Loop] = todo[Loop]
    BY <1>1, <1>2, Zenon DEF PopInv, Calm, HistKept, Paused, At
  <1>3. CASE todo'[Loop] \in Seq(Plain)
    <2>1. todo'[Loop] # <<>> => /\ Tail(todo'[Loop]) \in Seq(Plain)
                                /\ todo'[Loop][1] \in Plain
      BY <1>3, HeadTailProperties, EmptySeq
    <2>2. \A k \in Plain : k.do # "pop"
      BY Zenon DEF Plain
    <2> QED
      BY <1>1, <2>1, <2>2, Zenon DEF PopInv, Calm, HistKept, Paused, At
  <1> QED
    BY <1>1, <1>2, <1>3, Zenon DEF Calm, LoopKept

\* The history the pauses are about is not touched by other entries.
LEMMA HistExcept ==
    ASSUME TimerInv, NEW f \in {"critical", "skipped", "wiped", "refused"}, NEW v,
           hist' = [hist EXCEPT ![f] = v]
    PROVE  HistKept
  BY Zenon DEF HistKept, TimerInv

\* Nor by nothing at all.
LEMMA HistSame ==
    ASSUME TimerInv, hist' = hist
    PROVE  HistKept
  BY Zenon DEF HistKept, TimerInv

\* A sanity check that fails is noted elsewhere.
LEMMA HistCritical ==
    ASSUME TimerInv, NEW what, NEW cond, hist' = Critical(what, cond)
    PROVE  HistKept
  <1>1. PICK v : hist' = [hist EXCEPT !.critical = v]
    BY Zenon DEF Critical
  <1> QED
    BY <1>1, HistExcept, Zenon

\* What makes a task a plain one.
LEMMA PlainTask ==
    ASSUME NEW do \in Tasks, do # "pop", NEW o \in Object \cup {0}, NEW ws \in SUBSET Worker,
           NEW n \in Number
    PROVE  Task(do, o, ws, n) \in Seq(Plain) /\ Task(do, o, ws, n)[1] \in Plain
  <1>1. [do |-> do, o |-> o, ws |-> ws, n |-> n] \in Plain
    BY Zenon DEF Plain
  <1> QED
    BY <1>1, OneTask, Zenon DEF Task

\* The same without workers and number.
LEMMA PlainDo ==
    ASSUME NEW do \in Tasks, do # "pop", NEW o \in Object \cup {0}
    PROVE  Do(do, o) \in Seq(Plain) /\ Do(do, o)[1] \in Plain
  BY PlainTask, IntsAreNumbers DEF Do

\* A thread that replaces its task by plain ones.
LEMMA ThenPlain ==
    ASSUME IInv, PopInv, NEW t \in Thread, todo[t] # <<>>,
           NEW tasks \in Seq(Plain), Then(t, tasks)
    PROVE  LoopKept
  <1>1. CASE t = Loop
    <2>1. todo'[Loop] = tasks \o Tail(todo[Loop])
      BY <1>1, Zenon DEF Then, After, IInv, TodoInv
    <2> QED
      BY <1>1, <2>1, ConcatProperties, Zenon DEF PopInv, LoopKept
  <1>2. CASE t # Loop
    BY <1>2, Threads, Zenon DEF Then, After, LoopKept, IInv, TodoInv
  <1> QED
    BY <1>1, <1>2, Zenon

\* A thread other than the loop leaves the loop alone.
LEMMA OtherThreads ==
    ASSUME IInv, NEW t \in Thread, t # Loop, NEW tasks,
           Then(t, tasks) \/ todo' = [todo EXCEPT ![t] = tasks]
    PROVE  LoopKept
  BY Threads, Zenon DEF Then, After, LoopKept, IInv, TodoInv

\* The threads differ from the repair loop.
LEMMA NotLoop ==
    /\ \A o \in Object : Fetch(o) # Loop /\ Retry(o) # Loop
    /\ \A w \in Worker : Job(w) # Loop /\ Kill(w) # Loop
    /\ Stuck # Loop /\ Api # Loop /\ Stream # Loop
  BY Zenon DEF Fetch, Retry, Job, Kill, Stuck, Api, Stream, Loop

\* The tasks on chunk objects lead to plain tasks.
LEMMA ChunkTaskCalm ==
    ASSUME IInv, PopInv, TimerInv, NEW t \in Thread, ChunkTask(t)
    PROVE  Calm
  <1>1. pz' = pz
    BY Zenon DEF ChunkTask, QueueUploadChunk, DropChunk, DropUploadChunks, CleanUpUploadChunk,
           NotifyStandbyWorkers, FinishChunk, MarkRepairDone
  <1>2. HistKept
    <2>1. \/ hist' = hist \/ \E what, cond : hist' = Critical(what, cond)
      BY Zenon DEF ChunkTask, QueueUploadChunk, DropChunk, DropUploadChunks, CleanUpUploadChunk,
             NotifyStandbyWorkers, FinishChunk, MarkRepairDone
    <2> QED
      BY <2>1, HistSame, HistCritical, Zenon
  <1> DEFINE k == Cur(t)
  <1>3. /\ todo[t] # <<>> /\ k \in GoodTask /\ k.o \in Object \cup {0}
        /\ k.ws \in SUBSET Worker
    <2>1. \E d : At(t, d)
      BY Zenon DEF ChunkTask, QueueUploadChunk, DropChunk, DropUploadChunks, CleanUpUploadChunk,
             NotifyStandbyWorkers, FinishChunk, MarkRepairDone
    <2>2. todo[t] # <<>> /\ k \in GoodTask
      BY <2>1, CurKnown, Zenon
    <2> QED
      BY <2>2, Zenon DEF GoodTask
  <1>4. PICK tasks \in Seq(Plain) : Then(t, tasks)
    <2>1. CASE QueueUploadChunk(t)
      <3>1. PICK w \in k.ws :
              LET others == k.ws \ {w}
                  more == IF others = {} THEN <<>> ELSE Task("queue", k.o, others, 0)
              IN Then(t, more) \/ Then(t, Do("drop", k.o) \o more)
        BY <2>1, Zenon DEF QueueUploadChunk
      <3> DEFINE more == IF k.ws \ {w} = {} THEN <<>> ELSE Task("queue", k.o, k.ws \ {w}, 0)
      <3>2. k.ws \ {w} \in SUBSET Worker
        BY <1>3, Zenon
      <3>3. more \in Seq(Plain)
        <4>1. 0 \in Number /\ "queue" \in Tasks /\ "queue" # "pop"
          BY IntsAreNumbers DEF Tasks
        <4>2. Task("queue", k.o, k.ws \ {w}, 0) \in Seq(Plain)
          BY <1>3, <3>2, <4>1, PlainTask, Zenon
        <4> QED
          BY <4>2, EmptySeq, Zenon
      <3>4. Do("drop", k.o) \o more \in Seq(Plain)
        BY <1>3, <3>3, PlainDo, ConcatProperties, Zenon DEF Tasks
      <3> QED
        BY <3>1, <3>3, <3>4, Zenon
    <2>2. CASE DropChunk(t)
      BY <1>3, <2>2, PlainDo, Zenon DEF DropChunk, Tasks
    <2>3. CASE DropUploadChunks(t)
      <3>1. PICK w \in Worker :
              Then(t, [i \in DOMAIN wk[w].queue |-> Do("drop", wk[w].queue[i])[1]])
        BY <1>3, <2>3, Zenon DEF DropUploadChunks
      <3>2. wk[w].queue \in Seq(Object)
        BY Zenon DEF IInv, WkInv
      <3>3. \A i \in DOMAIN wk[w].queue : Do("drop", wk[w].queue[i])[1] \in Plain
        BY <3>2, PlainDo DEF Tasks
      <3>4. Len(wk[w].queue) \in Nat /\ DOMAIN wk[w].queue = 1..Len(wk[w].queue)
        BY <3>2, LenProperties, Zenon
      <3>5. [i \in DOMAIN wk[w].queue |-> Do("drop", wk[w].queue[i])[1]] \in Seq(Plain)
        BY <3>3, <3>4
      <3> QED
        BY <3>1, <3>5, Zenon
    <2>4. CASE CleanUpUploadChunk(t)
      <3>1. \E p, q : Then(t, (IF p THEN Do("notify", k.o) ELSE <<>>)
                              \o (IF q THEN Do("finish", k.o) ELSE <<>>))
        BY <2>4, Zenon DEF CleanUpUploadChunk
      <3>2. Do("notify", k.o) \in Seq(Plain) /\ Do("finish", k.o) \in Seq(Plain)
        BY <1>3, PlainDo, Zenon DEF Tasks
      <3> QED
        BY <3>1, <3>2, TwoTasks, Zenon
    <2>5. CASE NotifyStandbyWorkers(t)
      <3> DEFINE ws == ch[k.o].standby
                 more == IF ws = {} THEN <<>> ELSE Task("queue", k.o, ws, 0)
      <3>1. k.o \in Object
        BY <2>5, CurKnown DEF NotifyStandbyWorkers, NoObjectTasks
      <3>2. ws \in SUBSET Worker
        BY <3>1, Zenon DEF IInv, ChInv
      <3>3. more \in Seq(Plain)
        <4>1. 0 \in Number /\ "queue" \in Tasks /\ "queue" # "pop"
          BY IntsAreNumbers DEF Tasks
        <4>2. Task("queue", k.o, ws, 0) \in Seq(Plain)
          BY <1>3, <3>2, <4>1, PlainTask, Zenon
        <4> QED
          BY <4>2, EmptySeq, Zenon
      <3>4. Then(t, more)
        BY <2>5, Zenon DEF NotifyStandbyWorkers
      <3> QED
        BY <3>3, <3>4, Zenon
    <2>6. CASE FinishChunk(t) \/ MarkRepairDone(t)
      BY <2>6, EmptySeq, Zenon DEF FinishChunk, MarkRepairDone
    <2> QED
      BY <2>1, <2>2, <2>3, <2>4, <2>5, <2>6, Zenon DEF ChunkTask
  <1> QED
    BY <1>1, <1>2, <1>3, <1>4, ThenPlain, Zenon DEF Calm

\* So do the tasks on the heap.
LEMMA HeapTaskCalm ==
    ASSUME IInv, PopInv, TimerInv, NEW t \in Thread, HeapTask(t)
    PROVE  Calm
  <1>1. pz' = pz /\ todo[t] # <<>>
    BY Zenon DEF HeapTask, PushReplaces, CancelWait, PushAdds, PushRefused, Signal, ScanChunk, At
  <1>2. HistKept
    <2>1. CASE PushAdds(t)
      <3>1. \E a, b : hist' = [hist EXCEPT !.stale = a, !.late = b]
        BY <2>1, Zenon DEF PushAdds
      <3> QED
        BY <3>1, Zenon DEF HistKept, TimerInv
    <2>2. CASE ~PushAdds(t)
      <3>1. hist' = hist \/ \E v : hist' = [hist EXCEPT !.refused = v]
        BY <2>2, Zenon DEF HeapTask, PushReplaces, CancelWait, PushRefused, Signal, ScanChunk
      <3> QED
        BY <3>1, HistSame, HistExcept, Zenon
    <2> QED
      BY <2>1, <2>2, Zenon
  <1>3. LoopKept
    <2>1. CASE CancelWait(t) \/ PushAdds(t) \/ PushRefused(t) \/ Signal(t)
      BY <1>1, <2>1, EmptySeq, ThenPlain, Zenon DEF CancelWait, PushAdds, PushRefused, Signal
    <2>2. CASE ScanChunk(t)
      <3>1. Then(t, <<>>) \/ \E o \in NewObject : Then(t, Do("push", o))
        BY <2>2, Zenon DEF ScanChunk
      <3>2. \A o \in NewObject : Do("push", o) \in Seq(Plain)
        BY PlainDo, Zenon DEF NewObject, Fresh, Tasks
      <3> QED
        BY <1>1, <3>1, <3>2, EmptySeq, ThenPlain, Zenon
    <2>3. CASE PushReplaces(t)
      <3> DEFINE o == Cur(t).o
      <3>1. o \in Object
        BY <2>3, CurKnown DEF PushReplaces, NoObjectTasks
      <3>2. PICK e : todo' = [After(t, <<>>) EXCEPT ![Retry(o)] = e]
        BY <2>3, Zenon DEF PushReplaces
      <3>3. After(t, <<>>)[Loop] = todo[Loop] \/ After(t, <<>>)[Loop] = <<>> \o Tail(todo[Loop])
        BY Threads, Zenon DEF After, IInv, TodoInv
      <3>4. After(t, <<>>)[Loop] = todo[Loop] \/ After(t, <<>>)[Loop] \in Seq(Plain)
        <4>1. CASE t = Loop
          BY <1>1, <3>3, <4>1, EmptySeq, ConcatProperties, Zenon DEF PopInv
        <4>2. CASE t # Loop
          BY <4>2, Threads, Zenon DEF After, IInv, TodoInv
        <4> QED
          BY <4>1, <4>2, Zenon
      <3>5. todo'[Loop] = After(t, <<>>)[Loop]
        BY <3>1, <3>2, NotLoop, Threads, Zenon DEF After, IInv, TodoInv
      <3> QED
        BY <3>4, <3>5, Zenon DEF LoopKept
    <2> QED
      BY <2>1, <2>2, <2>3, Zenon DEF HeapTask
  <1> QED
    BY <1>1, <1>2, <1>3, Zenon DEF Calm

\* Fetches, workers, the stuck loop and streams leave the repair loop alone.
LEMMA OthersCalm ==
    ASSUME IInv, PopInv, TimerInv,
           \/ \E o \in Object : FetchStep(o)
           \/ \E w \in Worker : WorkerStep(w)
           \/ \E c \in Chunk : AddStuckChunk(c)
           \/ StartStream \/ StreamNext \/ StreamRead \/ StreamAwait
    PROVE  Calm
  <1>1. CASE \E o \in Object : FetchStep(o)
    <2>1. PICK o \in Object : FetchStep(o)
      BY <1>1, Zenon
    <2>2. pz' = pz /\ hist' = hist /\ \E tasks : Then(Fetch(o), tasks)
      BY <2>1, Zenon DEF FetchStep, FetchRefused, FetchChunk, FetchFails, DistributeChunkToWorkers
    <2> QED
      BY <2>2, HistSame, Threads, NotLoop, OtherThreads, Zenon DEF Calm
  <1>2. CASE \E w \in Worker : WorkerStep(w)
    <2>1. PICK w \in Worker : WorkerStep(w)
      BY <1>2, Zenon
    <2>2. pz' = pz
      BY <2>1, Zenon DEF WorkerStep, PerformUploadChunkJob, ProcessDrops, ProcessStandsBy, ProcessTakes,
           UploadPiece, UploadFailed, JobDone, CooldownOver, GoodForUploadLost, RemoveWorker,
           KillUploading
    <2>3. \/ hist' = hist \/ \E v : hist' = [hist EXCEPT !.skipped = v]
          \/ \E what, cond : hist' = Critical(what, cond)
      BY <2>1, Zenon DEF WorkerStep, PerformUploadChunkJob, ProcessDrops, ProcessStandsBy, ProcessTakes,
           UploadPiece, UploadFailed, JobDone, CooldownOver, GoodForUploadLost, RemoveWorker,
           KillUploading
    <2>4. HistKept
      BY <2>3, HistSame, HistExcept, HistCritical, Zenon
    <2>5. \/ todo' = todo \/ \E tasks : Then(Job(w), tasks)
          \/ \E tasks : todo' = [todo EXCEPT ![Job(w)] = tasks]
          \/ \E tasks : todo' = [todo EXCEPT ![Kill(w)] = tasks]
      BY <2>1, Zenon DEF WorkerStep, PerformUploadChunkJob, ProcessDrops, ProcessStandsBy, ProcessTakes,
           UploadPiece, UploadFailed, JobDone, CooldownOver, GoodForUploadLost, RemoveWorker,
           KillUploading
    <2>6. LoopKept
      <3>1. CASE todo' = todo
        BY <3>1, Zenon DEF LoopKept
      <3> QED
        BY <2>5, <3>1, Threads, NotLoop, OtherThreads, Zenon
    <2> QED
      BY <2>2, <2>4, <2>6, Zenon DEF Calm
  <1>3. CASE \E c \in Chunk : AddStuckChunk(c)
    <2>1. pz' = pz /\ hist' = hist
      BY <1>3, Zenon DEF AddStuckChunk
    <2>2. todo' = todo \/ \E tasks : todo' = [todo EXCEPT ![Stuck] = tasks]
      BY <1>3, Zenon DEF AddStuckChunk
    <2>3. LoopKept
      <3>1. CASE todo' = todo
        BY <3>1, Zenon DEF LoopKept
      <3> QED
        BY <2>2, <3>1, Threads, NotLoop, OtherThreads, Zenon
    <2> QED
      BY <2>1, <2>3, HistSame, Zenon DEF Calm
  <1>4. CASE StartStream \/ StreamNext \/ StreamRead \/ StreamAwait
    <2>1. pz' = pz /\ hist' = hist
      BY <1>4, Zenon DEF StartStream, StreamNext, StreamRead, StreamAwait
    <2>2. \/ todo' = todo \/ \E tasks : Then(Stream, tasks)
          \/ \E tasks : todo' = [todo EXCEPT ![Stream] = tasks]
      BY <1>4, Zenon DEF StartStream, StreamNext, StreamRead, StreamAwait, StreamEnds
    <2>3. LoopKept
      <3>1. CASE todo' = todo
        BY <3>1, Zenon DEF LoopKept
      <3> QED
        BY <2>2, <3>1, Threads, NotLoop, OtherThreads, Zenon
    <2> QED
      BY <2>1, <2>3, HistSame, Zenon DEF Calm
  <1> QED
    BY <1>1, <1>2, <1>3, <1>4, Zenon

\* The repair loop itself goes from plain task to plain task, but for the step
\* that decides to pop, which it takes only while there is no pause.
LEMMA LoopStepPauses ==
    ASSUME IInv, PopInv, TimerInv, LoopStep
    PROVE  PopInv' /\ TimerInv'
  <1>1. pz' = pz /\ todo[Loop] # <<>> /\ Loop \in Thread
    BY Threads, Zenon DEF LoopStep, LoopTop, LoopIdle, LoopBlock, LoopPaused, LoopIterate, LoopPop,
       LoopReset, PrepareNextChunk, PrepareRefused, At
  <1>2. /\ <<>> \in Seq(Plain) /\ Do("top", 0) \in Seq(Plain) /\ Do("paused", 0) \in Seq(Plain)
        /\ Do("idle", 0) \in Seq(Plain) /\ Do("block", 0) \in Seq(Plain)
        /\ Do("iter", 0) \in Seq(Plain) /\ Do("reset", 0) \in Seq(Plain)
    BY PlainDo, EmptySeq, Zenon DEF Tasks
  <1>3. CASE LoopTop
    <2>1. Scan \in Seq(Plain)
      <3>1. NumChunks \in Nat /\ Chunk = 1..NumChunks
        BY UploadsAssumption, Zenon DEF Chunk
      <3>2. "scan" \in Tasks /\ "scan" # "pop" /\ {} \in SUBSET Worker /\ 0 \in Object \cup {0}
        BY Zenon DEF Tasks
      <3>3. \A c \in Chunk : c \in Number
        BY <3>1, IntsAreNumbers
      <3>4. \A c \in Chunk : Task("scan", 0, {}, c)[1] \in Plain
        BY <3>2, <3>3, PlainTask, Zenon
      <3> QED
        BY <3>1, <3>4 DEF Scan
    <2>2. Scan \o Do("iter", 0) \in Seq(Plain) /\ <<>> \o Do("iter", 0) \in Seq(Plain)
      BY <1>2, <2>1, ConcatProperties, Zenon
    <2>3. \/ Then(Loop, <<>>) \/ Then(Loop, Do("paused", 0)) \/ Then(Loop, Do("idle", 0))
          \/ Then(Loop, Scan \o Do("iter", 0)) \/ Then(Loop, <<>> \o Do("iter", 0))
      BY <1>3, Zenon DEF LoopTop
    <2>4. LoopKept
      BY <1>1, <1>2, <2>2, <2>3, ThenPlain, Zenon
    <2>5. HistKept
      BY <1>3, HistSame, Zenon DEF LoopTop
    <2> QED
      BY <1>1, <2>4, <2>5, CalmKeeps, Zenon DEF Calm
  <1>4. CASE LoopIdle \/ LoopBlock \/ LoopPaused \/ LoopReset
    <2>1. \/ Then(Loop, <<>>) \/ Then(Loop, Do("top", 0)) \/ Then(Loop, Do("block", 0))
      BY <1>4, Zenon DEF LoopIdle, LoopBlock, LoopPaused, LoopReset
    <2>2. hist' = hist \/ \E v : hist' = [hist EXCEPT !.wiped = v]
      BY <1>4, Zenon DEF LoopIdle, LoopBlock, LoopPaused, LoopReset, Wipe
    <2>3. LoopKept /\ HistKept
      BY <1>1, <1>2, <2>1, <2>2, ThenPlain, HistSame, HistExcept, Zenon
    <2> QED
      BY <1>1, <2>3, CalmKeeps, Zenon DEF Calm
  <1>5. CASE LoopIterate
    <2>1. HistKept
      <3>1. hist' = hist \/ \E v : hist' = [hist EXCEPT !.wiped = v]
        BY <1>5, Zenon DEF LoopIterate, Wipe
      <3> QED
        BY <3>1, HistSame, HistExcept, Zenon
    <2>2. CASE Then(Loop, Do("top", 0))
      BY <1>1, <1>2, <2>1, <2>2, ThenPlain, CalmKeeps, Zenon DEF Calm
    <2>3. CASE Then(Loop, Do("pop", 0)) /\ ~Paused
      <3>1. todo'[Loop] = Do("pop", 0) \o Tail(todo[Loop])
        BY <1>1, <2>3, Zenon DEF Then, After, IInv, TodoInv
      <3> DEFINE rest == Tail(todo[Loop])
      <3>2. rest \in Seq(Plain)
        BY <1>1, Zenon DEF PopInv
      <3>3. Tail(Do("pop", 0) \o rest) = rest
        <4> DEFINE k == [do |-> "pop", o |-> 0, ws |-> {}, n |-> 0]
        <4>1. Do("pop", 0) = <<k>>
          BY Zenon DEF Do, Task
        <4> HIDE DEF k, rest
        <4>2. rest \in Seq(Plain \cup {k}) /\ k \in Plain \cup {k}
          BY <3>2, SeqGrows, Zenon
        <4>3. Tail(<<k>> \o rest) = rest
          BY <4>2
        <4> QED
          BY <4>1, <4>3, Zenon
      <3>4. TimerInv' /\ ~Paused'
        BY <1>1, <2>1, <2>3, Zenon DEF TimerInv, HistKept, Paused
      <3>5. todo'[Loop] # <<>> => Tail(todo'[Loop]) \in Seq(Plain)
        BY <3>1, <3>2, <3>3, Zenon
      <3>6. hist'.pops \in {0, 1}
        BY <2>1, Zenon DEF HistKept, PopInv
      <3> QED
        BY <3>4, <3>5, <3>6, Zenon DEF PopInv
    <2> QED
      BY <1>5, <2>2, <2>3, Zenon DEF LoopIterate
  <1>6. CASE LoopPop
    <2>1. CASE heap = {}
      <3>1. Then(Loop, Do("reset", 0)) /\ hist' = hist
        BY <1>6, <2>1, Zenon DEF LoopPop
      <3> QED
        BY <1>1, <1>2, <3>1, ThenPlain, HistSame, CalmKeeps, Zenon DEF Calm
    <2>2. CASE heap # {}
      <3>1. PICK o \in heap :
              /\ hist' = [Critical("twice", repairing[ch[o].id] # 0)
                            EXCEPT !.pops = IF Paused THEN @ + 1 ELSE @]
              /\ Then(Loop, (IF Cardinality(Pool) < MinPieces
                             THEN Do("done", o) ELSE Do("request", o)) \o Do("iter", 0))
        BY <1>6, <2>2, Zenon DEF LoopPop
      <3>2. o \in Object \cup {0}
        BY Zenon DEF IInv, HeapInv
      <3>3. Do("done", o) \in Seq(Plain) /\ Do("request", o) \in Seq(Plain)
        BY <3>2, PlainDo, Zenon DEF Tasks
      <3>4. (IF Cardinality(Pool) < MinPieces THEN Do("done", o) ELSE Do("request", o))
              \o Do("iter", 0) \in Seq(Plain)
        BY <1>2, <3>3, ConcatProperties, Zenon
      <3> DEFINE new == (IF Cardinality(Pool) < MinPieces THEN Do("done", o)
                         ELSE Do("request", o)) \o Do("iter", 0)
      <3>5. todo'[Loop] \in Seq(Plain)
        <4>1. todo'[Loop] = new \o Tail(todo[Loop])
          BY <1>1, <3>1, Zenon DEF Then, After, IInv, TodoInv
        <4> HIDE DEF new
        <4>2. new \in Seq(Plain) /\ Tail(todo[Loop]) \in Seq(Plain)
          BY <1>1, <3>4, Zenon DEF PopInv, new
        <4> QED
          BY <4>1, <4>2, ConcatProperties, Zenon
      <3>6. /\ {"pops", "rearmed", "panic"} \subseteq DOMAIN hist'
            /\ hist'.rearmed = hist.rearmed /\ hist'.panic = hist.panic
            /\ hist'.pops = IF Paused THEN hist.pops + 1 ELSE hist.pops
        BY <3>1, Zenon DEF Critical, TimerInv
      <3>7. hist'.pops \in {0, 1}
        BY <1>6, <3>6 DEF PopInv, LoopPop
      <3>8. TimerInv'
        BY <1>1, <3>6, Zenon DEF TimerInv
      <3>9. todo'[Loop] # <<>> => Tail(todo'[Loop]) \in Seq(Plain) /\ todo'[Loop][1].do # "pop"
        <4>1. \A k \in Plain : k.do # "pop"
          BY Zenon DEF Plain
        <4> QED
          BY <3>5, <4>1, HeadTailProperties, EmptySeq
      <3> QED
        BY <3>7, <3>8, <3>9, Zenon DEF PopInv, At
    <2> QED
      BY <2>1, <2>2, Zenon
  <1>7. CASE PrepareRefused
    <2>1. Then(Loop, Do("done", Cur(Loop).o)) /\ hist' = hist
      BY <1>7, Zenon DEF PrepareRefused
    <2>2. Cur(Loop).o \in Object
      BY <1>1, <1>7, CurKnown DEF PrepareRefused, NoObjectTasks
    <2>3. Do("done", Cur(Loop).o) \in Seq(Plain)
      BY <2>2, PlainDo, Zenon DEF Tasks
    <2> QED
      BY <1>1, <2>1, <2>3, ThenPlain, HistSame, CalmKeeps, Zenon DEF Calm
  <1>8. CASE PrepareNextChunk
    <2> DEFINE o == Cur(Loop).o
    <2>1. PICK e : todo' = [After(Loop, <<>>) EXCEPT ![Fetch(o)] = e]
      BY <1>8, Zenon DEF PrepareNextChunk
    <2>2. o \in Object
      BY <1>1, <1>8, CurKnown DEF PrepareNextChunk, NoObjectTasks
    <2>3. todo'[Loop] = <<>> \o Tail(todo[Loop])
      BY <1>1, <2>1, <2>2, NotLoop, Zenon DEF After, IInv, TodoInv
    <2>4. LoopKept
      BY <1>1, <1>2, <2>3, ConcatProperties DEF PopInv, LoopKept
    <2>5. HistKept
      BY <1>8, HistSame, Zenon DEF PrepareNextChunk
    <2> QED
      BY <1>1, <2>4, <2>5, CalmKeeps, Zenon DEF Calm
  <1> QED
    BY <1>3, <1>4, <1>5, <1>6, <1>7, <1>8, Zenon DEF LoopStep

\* Pausing, resuming, the timers and the environment.
LEMMA PausesKeep ==
    ASSUME PopInv, TimerInv,
           \/ Pause \/ Resume \/ TimerFires \/ TimerCloses \/ BubbleRoot
           \/ GoOffline \/ GoOnline \/ Stop
    PROVE  PopInv' /\ TimerInv'
  <1>1. todo' = todo
    BY Zenon DEF Pause, Resume, TimerFires, TimerCloses, BubbleRoot, GoOffline, GoOnline, Stop
  <1> DEFINE Pz == [closed : BOOLEAN, cur : BOOLEAN, old : Nat, fired : Nat]
  <1>t. pz \in Pz
    BY Zenon DEF TimerInv
  <1>2. CASE BubbleRoot \/ GoOffline \/ GoOnline \/ Stop
    <2>1. pz' = pz /\ hist' = hist
      BY <1>2, Zenon DEF BubbleRoot, GoOffline, GoOnline, Stop
    <2> QED
      BY <1>1, <2>1, HistSame, CalmKeeps, Zenon DEF Calm, LoopKept
  <1>3. CASE Pause /\ pz.closed
    <2>1. /\ pz' = [pz EXCEPT !.closed = FALSE, !.cur = TRUE,
                              !.old = @ + (IF pz.cur THEN 1 ELSE 0)]
          /\ hist' = [hist EXCEPT !.pops = 0]
      BY <1>3, Zenon DEF Pause
    <2>2. /\ {"pops", "rearmed", "panic"} \subseteq DOMAIN hist'
          /\ hist'.pops = 0 /\ hist'.rearmed = hist.rearmed /\ hist'.panic = hist.panic
      BY <2>1, Zenon DEF TimerInv
    <2>3. /\ pz' \in Pz
          /\ pz'.closed = FALSE /\ pz'.cur = TRUE /\ pz'.fired = pz.fired
          /\ pz'.old = pz.old + (IF pz.cur THEN 1 ELSE 0)
      <3>1. (IF pz.cur THEN 1 ELSE 0) \in Nat
        BY Zenon
      <3> HIDE DEF Pz
      <3>2. pz.old + (IF pz.cur THEN 1 ELSE 0) \in Nat
        BY <1>t, <3>1 DEF Pz
      <3> QED
        BY <1>t, <2>1, <3>2, Zenon DEF Pz
    <2>4. TimerInv'
      BY <1>3, <2>2, <2>3 DEF TimerInv
    <2> QED
      BY <1>1, <2>2, <2>4, Zenon DEF PopInv, At
  <1>4. CASE Pause /\ ~pz.closed
    <2>1. /\ pz' = [pz EXCEPT !.cur = TRUE]
          /\ hist' = [hist EXCEPT !.rearmed = @ \/ ~pz.cur]
      BY <1>4, Zenon DEF Pause
    <2>2. /\ {"pops", "rearmed", "panic"} \subseteq DOMAIN hist'
          /\ hist'.pops = hist.pops /\ hist'.rearmed = (hist.rearmed \/ ~pz.cur)
          /\ hist'.panic = hist.panic
      BY <2>1, Zenon DEF TimerInv
    <2>3. TimerInv'
      BY <1>4, <2>1, <2>2, Zenon DEF TimerInv
    <2> QED
      BY <1>1, <1>4, <2>1, <2>2, <2>3, Zenon DEF PopInv, At, Paused
  <1>5. CASE Resume
    <2>1. hist' = hist /\ pz' = [pz EXCEPT !.cur = FALSE, !.closed = pz.cur] /\ ~pz.closed
      BY <1>5, Zenon DEF Resume, Paused
    <2>2. TimerInv'
      BY <2>1, Zenon DEF TimerInv
    <2> QED
      BY <1>1, <2>1, <2>2, Zenon DEF PopInv, At, Paused
  <1>6. CASE TimerFires
    <2>1. /\ hist' = hist
          /\ \/ pz.cur /\ pz' = [pz EXCEPT !.cur = FALSE, !.fired = @ + 1]
             \/ pz.old > 0 /\ pz' = [pz EXCEPT !.old = @ - 1, !.fired = @ + 1]
      BY <1>6, Zenon DEF TimerFires
    <2>2. /\ pz' \in Pz
          /\ pz'.closed = pz.closed
          /\ \/ pz.cur /\ pz'.cur = FALSE /\ pz'.fired = pz.fired + 1 /\ pz'.old = pz.old
             \/ pz.old > 0
      <3>1. CASE pz.cur /\ pz' = [pz EXCEPT !.cur = FALSE, !.fired = @ + 1]
        <4>1. pz.fired + 1 \in Nat
          BY <1>t
        <4>2. pz' = [pz EXCEPT !.cur = FALSE, !.fired = @ + 1]
          BY <3>1, Zenon
        <4> QED
          BY <1>t, <3>1, <4>1, <4>2, Zenon
      <3>2. CASE pz.old > 0 /\ pz' = [pz EXCEPT !.old = @ - 1, !.fired = @ + 1]
        <4>1. pz.old - 1 \in Nat /\ pz.fired + 1 \in Nat
          BY <1>t, <3>2
        <4>2. pz' = [pz EXCEPT !.old = @ - 1, !.fired = @ + 1]
          BY <3>2, Zenon
        <4> QED
          BY <1>t, <3>2, <4>1, <4>2, Zenon
      <3> QED
        BY <2>1, <3>1, <3>2, Zenon
    <2>3. TimerInv'
      BY <2>1, <2>2 DEF TimerInv
    <2> QED
      BY <1>1, <2>1, <2>2, <2>3, Zenon DEF PopInv, At, Paused
  <1>7. CASE TimerCloses
    <2>1. /\ pz.fired > 0 /\ pz' = [pz EXCEPT !.fired = @ - 1, !.closed = TRUE]
          /\ hist' = [hist EXCEPT !.panic = @ \/ pz.closed]
      BY <1>7, Zenon DEF TimerCloses
    <2>2. /\ {"pops", "rearmed", "panic"} \subseteq DOMAIN hist'
          /\ hist'.pops = hist.pops /\ hist'.rearmed = hist.rearmed
          /\ hist'.panic = (hist.panic \/ pz.closed)
      BY <2>1, Zenon DEF TimerInv
    <2>3. /\ pz' \in Pz
          /\ pz'.closed = TRUE /\ pz'.fired = pz.fired - 1 /\ pz'.cur = pz.cur /\ pz'.old = pz.old
      <3>1. pz.fired > 0 /\ pz' = [pz EXCEPT !.fired = @ - 1, !.closed = TRUE]
        BY <2>1, Zenon
      <3>2. pz.fired - 1 \in Nat
        BY <1>t, <3>1
      <3> QED
        BY <1>t, <3>1, <3>2, Zenon
    <2>4. (hist.panic \/ pz.closed) \in BOOLEAN
      BY Zenon
    <2>5. TimerInv' /\ ~Paused'
      BY <2>1, <2>2, <2>3, <2>4 DEF TimerInv, Paused
    <2> QED
      BY <1>1, <2>2, <2>5, Zenon DEF PopInv, At
  <1> QED
    BY <1>2, <1>3, <1>4, <1>5, <1>6, <1>7, Zenon

\* The loop starts with a plain task, and there is no pause.
LEMMA InitPauses == Init => PopInv /\ TimerInv
  <1> SUFFICES ASSUME Init PROVE PopInv /\ TimerInv
    BY Zenon
  <1>1. /\ pz = [closed |-> TRUE, cur |-> FALSE, old |-> 0, fired |-> 0]
        /\ hist = [critical |-> {}, skipped |-> {}, wiped |-> {}, refused |-> {},
                   stale |-> {}, late |-> {}, pops |-> 0, rearmed |-> FALSE, panic |-> FALSE]
    BY Zenon DEF Init
  <1>2. todo[Loop] = Do("top", 0)
    <2>1. PICK p \in Profiles :
            todo = [t \in Thread |->
                      CASE t = Loop -> Do("top", 0)
                        [] t = Api /\ p.upload -> Scan \o Do("signal", 0)
                        [] OTHER -> <<>>]
      BY Zenon DEF Init
    <2> QED
      BY <2>1, Threads, NotLoop, Zenon
  <1>3. Do("top", 0) \in Seq(Plain) /\ Do("top", 0)[1].do # "pop"
    BY PlainDo, Zenon DEF Tasks, Do, Task
  <1>4. Tail(todo[Loop]) \in Seq(Plain)
    BY <1>2, <1>3, HeadTailProperties, Zenon DEF Do, Task
  <1>5. TimerInv
    BY <1>1, Zenon DEF TimerInv
  <1> QED
    BY <1>1, <1>2, <1>3, <1>4, <1>5, Zenon DEF PopInv, At

\* Every step keeps the invariants of the pauses.
LEMMA NextPauses == IInv /\ PopInv /\ TimerInv /\ [Next]_vars => PopInv' /\ TimerInv'
  <1> SUFFICES ASSUME IInv, PopInv, TimerInv, [Next]_vars PROVE PopInv' /\ TimerInv'
    BY Zenon
  <1>1. ASSUME NEW t \in Thread, ChunkTask(t) \/ HeapTask(t)
        PROVE  PopInv' /\ TimerInv'
    BY <1>1, ChunkTaskCalm, HeapTaskCalm, CalmKeeps, Zenon
  <1>2. CASE \/ \E o \in Object : FetchStep(o)
             \/ \E w \in Worker : WorkerStep(w)
             \/ \E c \in Chunk : AddStuckChunk(c)
             \/ StartStream \/ StreamNext \/ StreamRead \/ StreamAwait
    BY <1>2, OthersCalm, CalmKeeps, Zenon
  <1>3. CASE LoopStep
    BY <1>3, LoopStepPauses, Zenon
  <1>4. CASE \/ Pause \/ Resume \/ TimerFires \/ TimerCloses \/ BubbleRoot
             \/ GoOffline \/ GoOnline \/ Stop
    BY <1>4, PausesKeep, Zenon
  <1>5. CASE UNCHANGED vars
    BY <1>5, HistSame, CalmKeeps, Zenon DEF vars, Calm, LoopKept
  <1> QED
    BY <1>1, <1>2, <1>3, <1>4, <1>5, Zenon DEF Next

\* After a pause at most the one chunk the repair loop had already decided to pop
\* leaves the heap, and the pause channel is closed once per pause unless
\* managedPause re-armed a timer that had already fired.
THEOREM PauseAlwaysHonoured == Spec => []PauseHonoured
  <1>1. Init => IInv /\ PopInv /\ TimerInv
    BY InitIInv, InitPauses, Zenon
  <1>2. IInv /\ PopInv /\ TimerInv /\ [Next]_vars => (IInv /\ PopInv /\ TimerInv)'
    BY NextIInv, NextPauses, Zenon
  <1>3. IInv /\ PopInv /\ TimerInv => PauseHonoured
    BY DEF PopInv, TimerInv, PauseHonoured, PauseStopsRepairs, PauseClosedOnce
  <1> QED
    BY <1>1, <1>2, <1>3, PTL DEF Spec
=============================================================================
