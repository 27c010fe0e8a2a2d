------------------------------- MODULE Uploads -------------------------------
(***************************************************************************)
(* The renter's upload and repair pipeline, modules/renter: the upload     *)
(* heap with its maps of chunks (uploadheap.go), the life of one           *)
(* unfinishedUploadChunk (uploadchunk.go), the upload queues of the        *)
(* workers (workerupload.go), the streaming upload (uploadstreamer.go),    *)
(* the pause timer, and the threads that push chunks: the repair loop, the *)
(* stuck loop, Upload and UploadStreamFromReader.                          *)
(*                                                                         *)
(* One step is one critical section.  What a goroutine still has to do     *)
(* after the section is its list of tasks, todo[thread]: callQueueUpload-  *)
(* Chunk, managedDropChunk, managedCleanUpUploadChunk and the rest call    *)
(* each other outside the locks, so their tails interleave with every      *)
(* other thread.                                                           *)
(*                                                                         *)
(* A chunk object is an *unfinishedUploadChunk.  Several objects may exist *)
(* for one chunk of the file (its id): a scan, the stuck loop and a stream *)
(* each build their own from the file as it was at that moment.  Memory is *)
(* counted in sectors; the erasure coding buffer takes MinPieces of them.  *)
(***************************************************************************)
EXTENDS Integers, Sequences, FiniteSets, FiniteSetsExt

CONSTANTS
    Worker,      \* the hosts with a contract, one worker each
    Object,      \* names of chunk objects, 1..n
    NumChunks,   \* chunks of the file
    NumPieces,   \* ErasureCode().NumPieces()
    MinPieces,   \* ErasureCode().MinPieces()
    OnDisk,      \* chunks whose source is on the renter's disk
    Base,        \* the memory manager's budget, in sectors
    MaxStuck,    \* maxStuckChunksInHeap
    Profiles     \* bounds and starting points of the instance, see Init

Chunk == 1..NumChunks
Piece == 1..NumPieces
Need  == NumPieces + MinPieces  \* memoryNeeded

ASSUME UploadsAssumption ==
    /\ NumChunks \in Nat \ {0} /\ MinPieces \in Nat \ {0} /\ NumPieces \in Nat
    /\ MinPieces < NumPieces
    /\ Object \subseteq Nat \ {0}
    /\ OnDisk \subseteq Chunk
    /\ Base \in Nat /\ MaxStuck \in Nat
    /\ \A p \in Profiles :
        "length" \in DOMAIN p.left /\ p.left.length \in 0..NumChunks

VARIABLES
    ch,         \* the chunk objects
    file,       \* per chunk: pieces (sets of <<piece, host>>) and stuck flag
    heap,       \* the objects in uploadHeap.heap
    repairing,  \* repairingChunks: id -> object, 0 when absent
    mem,        \* memoryManager.available
    wk,         \* the workers
    todo,       \* what each thread still has to do
    dir,        \* the directory heap knows an unhealthy directory
    wake,       \* a signal waits in newUploads or repairNeeded
    pz,         \* the pause channel and its timers
    env,        \* online, stopped (tg.StopChan closed)
    stream,     \* the streaming upload: state and chunks to wait for
    left,       \* what is left of the bounds
    hist        \* history the properties speak about

vars == <<ch, file, heap, repairing, mem, wk, todo, dir, wake, pz, env, stream,
          left, hist>>

NoObject ==
    [st |-> "none", id |-> 1, src |-> FALSE, stuck |-> FALSE, read |-> FALSE,
     used |-> {}, done |-> 0, reg |-> 0, rem |-> 0, standby |-> {}, hosts |-> {},
     released |-> FALSE, avail |-> FALSE, err |-> FALSE, granted |-> FALSE,
     freed |-> 0, canceled |-> FALSE, wg |-> 0]

---------------------------------------------------------------------------
(* Threads and their tasks *)

Job(w)   == <<"job", w>>     \* the worker's serial job
Kill(w)  == <<"kill", w>>    \* the tail of the worker's loop
Fetch(o) == <<"fetch", o>>   \* threadedFetchAndRepairChunk
Retry(o) == <<"retry", o>>   \* the goroutine of managedPush
Loop     == <<"loop", 0>>    \* threadedUploadAndRepair
Stuck    == <<"stuck", 0>>   \* threadedStuckFileLoop
Api      == <<"api", 0>>     \* Upload
Stream   == <<"stream", 0>>  \* UploadStreamFromReader

Thread == {Job(w) : w \in Worker} \cup {Kill(w) : w \in Worker}
          \cup {Fetch(o) : o \in Object} \cup {Retry(o) : o \in Object}
          \cup {Loop, Stuck, Api, Stream}

\* A task: what to do, to which object, with which workers, a number.
Task(do, o, ws, n) == <<[do |-> do, o |-> o, ws |-> ws, n |-> n]>>
Do(do, o) == Task(do, o, {}, 0)

At(t, do) == todo[t] # <<>> /\ todo[t][1].do = do
Cur(t)    == todo[t][1]
After(t, tasks) == [todo EXCEPT ![t] = tasks \o Tail(@)]
Then(t, tasks)  == todo' = After(t, tasks)

---------------------------------------------------------------------------
(* Chunk objects *)

Unused(c) == Piece \ c.used

chunkComplete(c) == c.reg = 0 /\ (c.done = NumPieces \/ c.rem = 0)

\* float64(needed-completed)/float64(needed-minimum) < RepairThreshold (0.25)
Healthy(n) == (NumPieces - n) * 4 < NumPieces - MinPieces

Pool == {w \in Worker : wk[w].pool}

HostsOf(c, i) == {w \in Worker : <<i, w>> \in file[c].pieces}

\* The pieces that count: on a host with a contract that holds no piece of a
\* lower index.
Counted(c) ==
    {i \in Piece : \E w \in HostsOf(c, i) \cap Pool :
                      \A j \in 1..(i - 1) : w \notin HostsOf(c, j)}

\* Mutant of Build: hosts that hold a piece already stay candidates.
MutBuild(c, src) ==
    [NoObject EXCEPT
        !.st = "built", !.id = c, !.src = src, !.stuck = file[c].stuck,
        !.used = Counted(c), !.done = Cardinality(Counted(c)), !.hosts = Pool]

\* managedBuildUnfinishedChunk: a snapshot of chunk c of the file.
Build(c, src) ==
    [NoObject EXCEPT
        !.st = "built", !.id = c, !.src = src, !.stuck = file[c].stuck,
        !.used = Counted(c), !.done = Cardinality(Counted(c)),
        !.hosts = Pool \ UNION {HostsOf(c, i) : i \in Piece}]

Fresh == {o \in Object : ch[o].st = "none" /\ o <= left.objects}
\* The next unused name.
NewObject == {o \in Fresh : \A x \in Fresh : o <= x}

Live(o) == o \in heap \/ repairing[ch[o].id] = o

\* The chunks a scan for unstuck chunks would repair, per the metadata.
Needy == {c \in Chunk : ~file[c].stuck /\ ~Healthy(Cardinality(Counted(c)))}

\* Look at every chunk of the file in turn.
Scan == [c \in Chunk |-> Task("scan", 0, {}, c)[1]]

---------------------------------------------------------------------------
\* A profile is [workers, good, stuck, upload, left]: the workers there are, which
\* of them are good for upload, which chunks are stuck, whether Upload has just
\* created the file, and the bounds on what may go wrong.
Init ==
    \E p \in Profiles :
        /\ ch = [o \in Object |-> NoObject]
        /\ file = [c \in Chunk |-> [pieces |-> {}, stuck |-> c \in p.stuck]]
        /\ heap = {}
        /\ repairing = [c \in Chunk |-> 0]
        /\ mem = Base
        /\ wk = [w \in Worker |->
                    [queue |-> <<>>, pool |-> w \in p.workers, alive |-> w \in p.workers,
                     dead |-> FALSE, good |-> w \in p.good, cool |-> FALSE]]
        /\ todo = [t \in Thread |->
                      CASE t = Loop -> Do("top", 0)
                        [] t = Api /\ p.upload -> Scan \o Do("signal", 0)
                        [] OTHER -> <<>>]
        /\ dir = TRUE
        /\ wake = FALSE
        /\ pz = [closed |-> TRUE, cur |-> FALSE, old |-> 0, fired |-> 0]
        /\ env = [online |-> TRUE, stopped |-> FALSE]
        /\ stream = [on |-> FALSE, wait |-> <<>>, last |-> "none"]
        /\ left = p.left
        /\ hist = [critical |-> {}, skipped |-> {}, wiped |-> {}, refused |-> {},
                   stale |-> {}, late |-> {}, pops |-> 0, rearmed |-> FALSE, panic |-> FALSE]

Spend(f) == left[f] > 0 /\ left' = [left EXCEPT ![f] = @ - 1]

Critical(what, cond) ==
    [hist EXCEPT !.critical = IF cond THEN @ \cup {what} ELSE @]

---------------------------------------------------------------------------
(* The tasks threads perform on a chunk object *)

\* callQueueUploadChunk, for one of the workers the caller still has to serve.
\* The worker is woken, so its loop will look at the queue.
QueueUploadChunk(t) ==
    /\ At(t, "queue")
    /\ \E w \in Cur(t).ws :
        LET o == Cur(t).o
            others == Cur(t).ws \ {w}
            more == IF others = {} THEN <<>> ELSE Task("queue", o, others, 0)
            takes == /\ wk[w].good /\ ~wk[w].dead /\ ~wk[w].cool
                     /\ w \in ch[o].hosts
        IN IF takes
           THEN /\ wk' = [wk EXCEPT ![w].queue = Append(@, o)]
                /\ Then(t, more)
           ELSE /\ Then(t, Do("drop", o) \o more)
                /\ UNCHANGED wk
    /\ UNCHANGED <<ch, file, heap, repairing, mem, dir, wake, pz, env, stream, left, hist>>

\* managedDropChunk
DropChunk(t) ==
    /\ At(t, "drop")
    /\ ch' = [ch EXCEPT ![Cur(t).o].rem = @ - 1]
    /\ Then(t, Do("cleanup", Cur(t).o))
    /\ UNCHANGED <<file, heap, repairing, mem, wk, dir, wake, pz, env, stream, left, hist>>

\* Mutant of DropUploadChunks: the queue is not cleared.
MutDropUploadChunks(t) ==
    /\ At(t, "dropall")
    /\ \E w \in Cur(t).ws :
        Then(t, [i \in DOMAIN wk[w].queue |-> Do("drop", wk[w].queue[i])[1]])
    /\ UNCHANGED <<ch, file, heap, repairing, mem, wk, dir, wake, pz, env, stream, left, hist>>

\* managedDropUploadChunks
DropUploadChunks(t) ==
    /\ At(t, "dropall")
    /\ \E w \in Cur(t).ws :
        /\ Then(t, [i \in DOMAIN wk[w].queue |-> Do("drop", wk[w].queue[i])[1]])
        /\ wk' = [wk EXCEPT ![w].queue = <<>>]
    /\ UNCHANGED <<ch, file, heap, repairing, mem, dir, wake, pz, env, stream, left, hist>>

\* Mutant of Surplus: one piece more than there are workers is kept.
MutSurplus(c) ==
    {i \in Unused(c) : Cardinality({j \in Unused(c) : j < i}) > c.rem}

\* The pieces managedCleanUpUploadChunk releases: of the unused ones, those
\* beyond the first workersRemaining.
Surplus(c) ==
    {i \in Unused(c) : Cardinality({j \in Unused(c) : j < i}) >= c.rem}

\* Mutants of CleanedUp: released pieces are not marked as taken; a registered
\* piece counts as stored; a failed chunk never closes availableChan.
MutCleanedUpTwice(c) ==
    LET ends == chunkComplete(c) /\ ~c.released
        up == c.avail \/ (c.done >= MinPieces /\ ~c.released)
    IN [c EXCEPT !.freed = @ + Cardinality(Surplus(c)), !.avail = up \/ ends,
                 !.err = @ \/ (ends /\ ~up), !.released = @ \/ ends]
MutCleanedUpEarly(c) ==
    LET ends == chunkComplete(c) /\ ~c.released
        up == c.avail \/ (c.done + c.reg >= MinPieces /\ ~c.released)
    IN [c EXCEPT !.used = @ \cup Surplus(c), !.freed = @ + Cardinality(Surplus(c)),
                 !.avail = up \/ ends, !.err = @ \/ (ends /\ ~up),
                 !.released = @ \/ ends]
MutCleanedUpSilently(c) ==
    [c EXCEPT !.used = @ \cup Surplus(c), !.freed = @ + Cardinality(Surplus(c)),
              !.avail = @ \/ (c.done >= MinPieces /\ ~c.released),
              !.released = @ \/ chunkComplete(c)]

\* managedCleanUpUploadChunk, the part under uc.mu.
CleanedUp(c) ==
    LET ends == chunkComplete(c) /\ ~c.released
        up == c.avail \/ (c.done >= MinPieces /\ ~c.released)
    IN [c EXCEPT !.used = @ \cup Surplus(c),
                 !.freed = @ + Cardinality(Surplus(c)),
                 !.avail = up \/ ends,
                 !.err = @ \/ (ends /\ ~up),
                 !.released = @ \/ ends]

CleanUpUploadChunk(t) ==
    /\ At(t, "cleanup")
    /\ \E o \in {Cur(t).o} : \E c \in {ch[o]} : \E d \in {CleanedUp(c)} :
        /\ ch' = [ch EXCEPT ![o] = d]
        /\ mem' = mem + (d.freed - c.freed)
        /\ Then(t, (IF Unused(d) # {} THEN Do("notify", o) ELSE <<>>)
                   \o (IF d.released /\ ~c.released THEN Do("finish", o) ELSE <<>>))
        /\ hist' = Critical("memory", chunkComplete(c) /\ d.freed # Need)
    /\ UNCHANGED <<file, heap, repairing, wk, dir, wake, pz, env, stream, left>>

\* managedNotifyStandbyWorkers
NotifyStandbyWorkers(t) ==
    /\ At(t, "notify")
    /\ LET o == Cur(t).o
           ws == ch[o].standby
       IN /\ ch' = [ch EXCEPT ![o].standby = {}]
          /\ Then(t, IF ws = {} THEN <<>> ELSE Task("queue", o, ws, 0))
    /\ UNCHANGED <<file, heap, repairing, mem, wk, dir, wake, pz, env, stream, left, hist>>

\* The stuck flag managedUpdateUploadChunkStuckStatus leaves: after a renter
\* error a failed repair says nothing about the chunk.
StuckAfter(c) ==
    IF ~Healthy(c.done) /\ (env.stopped \/ ~env.online) THEN file[c.id].stuck
    ELSE ~Healthy(c.done)

\* The end of managedCleanUpUploadChunk for a released chunk: its stuck status,
\* then managedMarkRepairDone, which deletes by id.
FinishChunk(t) ==
    /\ At(t, "finish")
    /\ LET c == ch[Cur(t).o]
       IN /\ file' = [file EXCEPT ![c.id].stuck = StuckAfter(c)]
          /\ hist' = Critical("absent", repairing[c.id] = 0)
          /\ repairing' = [repairing EXCEPT ![c.id] = 0]
    /\ Then(t, <<>>)
    /\ UNCHANGED <<ch, heap, mem, wk, dir, wake, pz, env, stream, left>>

\* managedMarkRepairDone for a chunk the repair loop gives up.
MarkRepairDone(t) ==
    /\ At(t, "done")
    /\ LET id == ch[Cur(t).o].id
       IN /\ hist' = Critical("absent", repairing[id] = 0)
          /\ repairing' = [repairing EXCEPT ![id] = 0]
    /\ Then(t, <<>>)
    /\ UNCHANGED <<ch, file, heap, mem, wk, dir, wake, pz, env, stream, left>>

---------------------------------------------------------------------------
(* threadedFetchAndRepairChunk *)

\* The memory returned once the data is fetched or cannot be: the erasure
\* coding buffer and the pieces that were complete from the start.
Fetched(c) == MinPieces + Cardinality(c.used)

\* tg.Add fails once the renter stops; nothing is cleaned up then.
FetchRefused(o) ==
    /\ At(Fetch(o), "fetch") /\ env.stopped
    /\ Then(Fetch(o), <<>>)
    /\ UNCHANGED <<ch, file, heap, repairing, mem, wk, dir, wake, pz, env, stream, left, hist>>

FetchChunk(o) ==
    /\ At(Fetch(o), "fetch") /\ ~env.stopped
    /\ ch' = [ch EXCEPT ![o].read = TRUE, ![o].freed = @ + Fetched(ch[o])]
    /\ mem' = mem + Fetched(ch[o])
    /\ Then(Fetch(o), Do("distribute", o) \o Do("cleanup", o))
    /\ UNCHANGED <<file, heap, repairing, wk, dir, wake, pz, env, stream, left, hist>>

\* Neither the reader, the disk nor the network has the data.
FetchFails(o) ==
    /\ At(Fetch(o), "fetch") /\ ~env.stopped
    /\ Spend("faults")
    /\ ch' = [ch EXCEPT ![o].read = TRUE, ![o].rem = 0, ![o].freed = @ + Fetched(ch[o])]
    /\ mem' = mem + Fetched(ch[o])
    /\ file' = IF env.online THEN [file EXCEPT ![ch[o].id].stuck = TRUE] ELSE file
    /\ Then(Fetch(o), Do("cleanup", o))
    /\ UNCHANGED <<heap, repairing, wk, dir, wake, pz, env, stream, hist>>

\* managedDistributeChunkToWorkers
DistributeChunkToWorkers(o) ==
    /\ At(Fetch(o), "distribute")
    /\ ch' = [ch EXCEPT ![o].rem = @ + Cardinality(Pool)]
    /\ Then(Fetch(o), (IF Pool = {} THEN <<>> ELSE Task("queue", o, Pool, 0))
                      \o Do("cleanup", o))
    /\ UNCHANGED <<file, heap, repairing, mem, wk, dir, wake, pz, env, stream, left, hist>>

---------------------------------------------------------------------------
(* The worker's job, managedPerformUploadChunkJob *)

\* Takes the next chunk.  A canceled one is skipped.
PerformUploadChunkJob(w) ==
    /\ wk[w].alive /\ env.online /\ ~env.stopped
    /\ todo[Job(w)] = <<>> /\ wk[w].queue # <<>>
    /\ wk' = [wk EXCEPT ![w].queue = Tail(@)]
    /\ LET o == Head(wk[w].queue)
       IN IF ch[o].canceled
          THEN /\ hist' = [hist EXCEPT !.skipped = @ \cup {o}]
               /\ UNCHANGED <<ch, todo>>
          ELSE /\ ch' = [ch EXCEPT ![o].wg = @ + 1]
               /\ todo' = [todo EXCEPT ![Job(w)] = Do("process", o) \o Do("wgdone", o)]
               /\ UNCHANGED hist
    /\ UNCHANGED <<file, heap, repairing, mem, dir, wake, pz, env, stream, left>>

\* managedProcessUploadChunk: no help wanted from this worker.
ProcessDrops(w) ==
    /\ At(Job(w), "process")
    /\ LET o == Cur(Job(w)).o
           unusable == wk[w].cool \/ ~wk[w].good
       IN /\ ch[o].done >= NumPieces \/ w \notin ch[o].hosts \/ unusable
          /\ Then(Job(w), Do("drop", o)
                          \o (IF unusable THEN Task("dropall", o, {w}, 0) ELSE <<>>))
    /\ UNCHANGED <<ch, file, heap, repairing, mem, wk, dir, wake, pz, env, stream, left, hist>>

Usable(w, o) == /\ ch[o].done < NumPieces /\ w \in ch[o].hosts
                /\ ~wk[w].cool /\ wk[w].good

NeedsHelp(c) == NumPieces > c.done + c.reg

\* Every piece is complete or registered: the worker stands by.
ProcessStandsBy(w) ==
    /\ At(Job(w), "process")
    /\ LET o == Cur(Job(w)).o
       IN /\ Usable(w, o) /\ ~NeedsHelp(ch[o])
          /\ ch' = [ch EXCEPT ![o].standby = @ \cup {w}]
          /\ Then(Job(w), Do("cleanup", o))
    /\ UNCHANGED <<file, heap, repairing, mem, wk, dir, wake, pz, env, stream, left, hist>>

\* The worker registers the first unused piece.
ProcessTakes(w) ==
    /\ At(Job(w), "process")
    /\ LET o == Cur(Job(w)).o
           free == Unused(ch[o])
       IN /\ Usable(w, o) /\ NeedsHelp(ch[o])
          /\ hist' = Critical("piece", free = {})
          /\ IF free = {}
             THEN /\ Then(Job(w), Do("drop", o))
                  /\ UNCHANGED ch
             ELSE /\ ch' = [ch EXCEPT ![o].used = @ \cup {Min(free)},
                                      ![o].hosts = @ \ {w},
                                      ![o].reg = @ + 1, ![o].rem = @ - 1]
                  /\ Then(Job(w), Task("upload", o, {w}, Min(free)))
    /\ UNCHANGED <<file, heap, repairing, mem, wk, dir, wake, pz, env, stream, left>>

\* e.Upload and fileEntry.AddPiece succeed; the piece's memory is returned.
UploadPiece(w) ==
    /\ At(Job(w), "upload")
    /\ LET k == Cur(Job(w))
       IN /\ file' = [file EXCEPT ![ch[k.o].id].pieces = @ \cup {<<k.n, w>>}]
          /\ ch' = [ch EXCEPT ![k.o].reg = @ - 1, ![k.o].done = @ + 1,
                              ![k.o].freed = @ + 1]
          /\ mem' = mem + 1
          /\ Then(Job(w), Do("cleanup", k.o))
    /\ UNCHANGED <<heap, repairing, wk, dir, wake, pz, env, stream, left, hist>>

\* managedUploadFailed
UploadFailed(w) ==
    /\ At(Job(w), "upload")
    /\ IF env.stopped THEN UNCHANGED left ELSE Spend("fails")
    /\ wk' = [wk EXCEPT ![w].cool = @ \/ env.online]
    /\ LET k == Cur(Job(w))
       IN /\ ch' = [ch EXCEPT ![k.o].reg = @ - 1, ![k.o].used = @ \ {k.n}]
          /\ Then(Job(w), Do("notify", k.o) \o Do("cleanup", k.o)
                          \o Task("dropall", k.o, {w}, 0))
    /\ UNCHANGED <<file, heap, repairing, mem, dir, wake, pz, env, stream, hist>>

\* defer nextChunk.cancelWG.Done()
JobDone(w) ==
    /\ At(Job(w), "wgdone")
    /\ ch' = [ch EXCEPT ![Cur(Job(w)).o].wg = @ - 1]
    /\ Then(Job(w), <<>>)
    /\ UNCHANGED <<file, heap, repairing, mem, wk, dir, wake, pz, env, stream, left, hist>>

CooldownOver(w) ==
    /\ wk[w].cool
    /\ wk' = [wk EXCEPT ![w].cool = FALSE]
    /\ UNCHANGED <<ch, file, heap, repairing, mem, todo, dir, wake, pz, env, stream, left, hist>>

\* managedUpdateCache finds that the contract is no longer good for upload.
GoodForUploadLost(w) ==
    /\ Spend("marks") /\ wk[w].pool /\ wk[w].good
    /\ wk' = [wk EXCEPT ![w].good = FALSE]
    /\ UNCHANGED <<ch, file, heap, repairing, mem, todo, dir, wake, pz, env, stream, hist>>

\* callUpdate drops the worker whose contract is gone and closes killChan.
RemoveWorker(w) ==
    /\ Spend("kills") /\ wk[w].pool
    /\ wk' = [wk EXCEPT ![w].pool = FALSE]
    /\ UNCHANGED <<ch, file, heap, repairing, mem, todo, dir, wake, pz, env, stream, hist>>

\* Mutant of KillUploading: the queued chunks are not dropped.
MutKillUploading(w) ==
    /\ wk[w].alive /\ (~wk[w].pool \/ env.stopped)
    /\ wk' = [wk EXCEPT ![w].alive = FALSE, ![w].dead = TRUE]
    /\ UNCHANGED <<ch, file, heap, repairing, mem, todo, dir, wake, pz, env, stream, left, hist>>

\* The worker's loop returns; managedKillUploading is deferred.
KillUploading(w) ==
    /\ wk[w].alive /\ (~wk[w].pool \/ env.stopped)
    /\ wk' = [wk EXCEPT ![w].alive = FALSE, ![w].dead = TRUE]
    /\ todo' = [todo EXCEPT ![Kill(w)] = Task("dropall", 0, {w}, 0)]
    /\ UNCHANGED <<ch, file, heap, repairing, mem, dir, wake, pz, env, stream, left, hist>>

---------------------------------------------------------------------------
(* The upload heap *)

InHeap(id, stuck) == {x \in heap : ch[x].id = id /\ ch[x].stuck = stuck}

\* Mutant of Existing: chunks in repair are overlooked.
MutExisting(id) ==
    IF InHeap(id, TRUE) # {} THEN InHeap(id, TRUE) ELSE InHeap(id, FALSE)

\* The object managedPush finds for an id: stuck heap, repairing, unstuck heap.
Existing(id) ==
    IF InHeap(id, TRUE) # {} THEN InHeap(id, TRUE)
    ELSE IF repairing[id] # 0 THEN {repairing[id]}
    ELSE InHeap(id, FALSE)

\* An object with a source reader cancels the one that exists; a goroutine
\* waits for that one's workers and tries again.
PushReplaces(t) ==
    /\ At(t, "push") /\ ch[Cur(t).o].src
    /\ \E e \in Existing(ch[Cur(t).o].id) :
        /\ ch' = [ch EXCEPT ![e].canceled = TRUE]
        /\ todo' = [After(t, <<>>) EXCEPT ![Retry(Cur(t).o)] =
                       Do("wait", e) \o Do("push", Cur(t).o)]
    /\ UNCHANGED <<file, heap, repairing, mem, wk, dir, wake, pz, env, stream, left, hist>>

CancelWait(t) ==
    /\ At(t, "wait") /\ ch[Cur(t).o].wg = 0
    /\ Then(t, <<>>)
    /\ UNCHANGED <<ch, file, heap, repairing, mem, wk, dir, wake, pz, env, stream, left, hist>>

CanAdd(o) == /\ Existing(ch[o].id) = {}
             /\ ch[o].stuck => Cardinality({x \in heap : ch[x].stuck}) < MaxStuck

\* The snapshot is outdated if a piece it does not know was stored since.
Outdated(o) == Counted(ch[o].id) \ ch[o].used # {}

PushAdds(t) ==
    /\ At(t, "push") /\ CanAdd(Cur(t).o)
    /\ heap' = heap \cup {Cur(t).o}
    /\ \E o \in {Cur(t).o} :
        hist' = [hist EXCEPT !.stale = IF Outdated(o) THEN @ \cup {ch[o].id} ELSE @,
                             !.late = IF t = Retry(o) THEN @ \cup {o} ELSE @]
    /\ Then(t, <<>>)
    /\ UNCHANGED <<ch, file, repairing, mem, wk, dir, wake, pz, env, stream, left>>

\* managedPush returns false.  The streamer then flushes and closes the shard;
\* the retry goroutine does nothing.
PushRefused(t) ==
    /\ At(t, "push")
    /\ LET o == Cur(t).o
       IN /\ ~CanAdd(o) /\ (ch[o].src => Existing(ch[o].id) = {})
          /\ ch' = [ch EXCEPT ![o] = IF ch[o].src THEN [ch[o] EXCEPT !.read = @ \/ t = Stream]
                                     ELSE [NoObject EXCEPT !.st = "gone", !.id = ch[o].id]]
          /\ hist' = IF ch[o].src THEN [hist EXCEPT !.refused = @ \cup {o}] ELSE hist
    /\ Then(t, <<>>)
    /\ UNCHANGED <<file, heap, repairing, mem, wk, dir, wake, pz, env, stream, left>>

\* Mutant of Signal: the channel has no buffer.
MutSignal(t) ==
    /\ At(t, "signal")
    /\ wake' = (wake \/ At(Loop, "block"))
    /\ Then(t, <<>>)
    /\ UNCHANGED <<ch, file, heap, repairing, mem, wk, dir, pz, env, stream, left, hist>>

\* A signal on newUploads or repairNeeded, both of capacity one.  The stuck loop
\* gives it only while stuck chunks are in the heap.
Signal(t) ==
    /\ At(t, "signal")
    /\ wake' = (wake \/ t # Stuck \/ \E x \in heap : ch[x].stuck)
    /\ Then(t, <<>>)
    /\ UNCHANGED <<ch, file, heap, repairing, mem, wk, dir, pz, env, stream, left, hist>>

\* managedReset: objects in the heap are forgotten.
Wipe ==
    /\ heap' = {}
    /\ ch' = [o \in Object |-> IF o \in heap /\ ~ch[o].src
                               THEN [NoObject EXCEPT !.st = "gone", !.id = ch[o].id] ELSE ch[o]]
    /\ hist' = [hist EXCEPT !.wiped = @ \cup {o \in heap : ch[o].src}]

\* uploadChunkHeap.Less
Before(a, b) ==
    LET rank(o) == (IF ch[o].src THEN 0 ELSE 8)
                   + (IF ch[o].stuck THEN 0 ELSE 4)
                   + (IF ch[o].id \in OnDisk THEN 2 ELSE 0)
    IN rank(a) < rank(b) \/ (rank(a) = rank(b) /\ ch[a].done < ch[b].done)

---------------------------------------------------------------------------
(* Building objects: managedBuildUnfinishedChunks on one chunk *)

\* Part of a scan for unstuck chunks, by the repair loop or by Upload.
ScanChunk(t) ==
    /\ At(t, "scan")
    /\ \E c \in {Cur(t).n} : \E b \in {Build(Cur(t).n, FALSE)} :
        LET build == ~b.stuck /\ Cardinality(Pool) >= MinPieces /\ Fresh # {}
            repairable == b.done >= MinPieces \/ c \in OnDisk
            push == build /\ repairable /\ ~Healthy(b.done)
        IN /\ file' = IF build /\ ~repairable
                      THEN [file EXCEPT ![c].stuck = TRUE] ELSE file
           /\ IF push
              THEN \E o \in NewObject :
                      /\ ch' = [ch EXCEPT ![o] = b]
                      /\ Then(t, Do("push", o))
              ELSE Then(t, <<>>) /\ UNCHANGED ch
    /\ UNCHANGED <<heap, repairing, mem, wk, dir, wake, pz, env, stream, left, hist>>

\* The stuck loop builds the stuck chunks, unmarks the healthy ones, pushes a
\* random one of the others and signals the repair loop.
AddStuckChunk(c) ==
    LET well == {d \in Chunk : Healthy(Cardinality(Counted(d)))}
        sick == {d \in Chunk \ well : file[d].stuck}
    IN /\ todo[Stuck] = <<>> /\ env.online /\ ~env.stopped
       /\ file[c].stuck /\ Cardinality({x \in heap : ch[x].stuck}) < MaxStuck
       /\ Cardinality(Pool) >= MinPieces
       /\ Spend("stucks")
       /\ file' = [d \in Chunk |-> [file[d] EXCEPT !.stuck = @ /\ d \notin well]]
       /\ \/ sick = {} /\ UNCHANGED <<ch, todo>>
          \/ /\ c \in sick
             /\ \E o \in NewObject :
                 /\ ch' = [ch EXCEPT ![o] = Build(c, FALSE)]
                 /\ todo' = [todo EXCEPT ![Stuck] = Do("push", o) \o Do("signal", 0)]
       /\ UNCHANGED <<heap, repairing, mem, wk, dir, wake, pz, env, stream, hist>>

\* The health loop bubbles the root directory.
BubbleRoot ==
    /\ Spend("bubbles") /\ ~env.stopped
    /\ Needy # {}
    /\ wake' = TRUE
    /\ UNCHANGED <<ch, file, heap, repairing, mem, wk, todo, dir, pz, env, stream, hist>>

---------------------------------------------------------------------------
(* threadedUploadAndRepair and managedRepairLoop *)

Paused == ~pz.closed

LoopTop ==
    /\ At(Loop, "top")
    /\ env.stopped \/ env.online
    /\ Then(Loop, IF env.stopped THEN <<>>
                  ELSE IF Paused THEN Do("paused", 0)
                  ELSE IF heap = {} /\ ~(dir /\ Needy # {}) THEN Do("idle", 0)
                  ELSE (IF dir THEN Scan ELSE <<>>) \o Do("iter", 0))
    /\ dir' = FALSE
    /\ UNCHANGED <<ch, file, heap, repairing, mem, wk, wake, pz, env, stream, left, hist>>

\* Nothing to do: the directory heap is reset before the loop blocks.
LoopIdle ==
    /\ At(Loop, "idle")
    /\ dir' = FALSE
    /\ Then(Loop, Do("block", 0))
    /\ UNCHANGED <<ch, file, heap, repairing, mem, wk, wake, pz, env, stream, left, hist>>

\* Blocked until there is a signal; the root directory is then pushed again.
LoopBlock ==
    /\ At(Loop, "block") /\ (wake \/ env.stopped)
    /\ IF wake THEN wake' = FALSE /\ dir' = TRUE /\ Then(Loop, Do("top", 0))
       ELSE Then(Loop, <<>>) /\ UNCHANGED <<wake, dir>>
    /\ UNCHANGED <<ch, file, heap, repairing, mem, wk, pz, env, stream, left, hist>>

\* Blocked by a pause: a signal or the end of the pause resets the heap.
LoopPaused ==
    /\ At(Loop, "paused")
    /\ \/ /\ wake \/ pz.closed
          /\ wake' \in {wake /\ pz.closed, FALSE}
          /\ Wipe
          /\ dir' = TRUE
          /\ Then(Loop, Do("top", 0))
       \/ /\ env.stopped
          /\ Then(Loop, <<>>)
          /\ UNCHANGED <<wake, ch, heap, hist, dir>>
    /\ UNCHANGED <<file, repairing, mem, wk, pz, env, stream, left>>

\* Mutant of LoopIterate: the pause is not looked at again.
MutLoopIterate ==
    /\ At(Loop, "iter")
    /\ Then(Loop, IF env.stopped \/ ~env.online THEN Do("top", 0) ELSE Do("pop", 0))
    /\ UNCHANGED <<ch, file, heap, repairing, mem, wk, dir, wake, pz, env, stream, left, hist>>

\* managedRepairLoop's checks before each pop.
LoopIterate ==
    /\ At(Loop, "iter")
    /\ IF env.stopped \/ ~env.online
       THEN Then(Loop, Do("top", 0)) /\ UNCHANGED <<ch, heap, hist>>
       ELSE IF Paused
       THEN Then(Loop, Do("top", 0)) /\ Wipe
       ELSE Then(Loop, Do("pop", 0)) /\ UNCHANGED <<ch, heap, hist>>
    /\ UNCHANGED <<file, repairing, mem, wk, dir, wake, pz, env, stream, left>>

\* managedPop, and the check that there are workers enough.
LoopPop ==
    /\ At(Loop, "pop")
    /\ IF heap = {}
       THEN Then(Loop, Do("reset", 0)) /\ UNCHANGED <<heap, repairing, hist>>
       ELSE \E o \in {x \in heap : \A y \in heap : ~Before(y, x)} :
            /\ heap' = heap \ {o}
            /\ repairing' = [repairing EXCEPT ![ch[o].id] = o]
            /\ hist' = [Critical("twice", repairing[ch[o].id] # 0)
                          EXCEPT !.pops = IF Paused THEN @ + 1 ELSE @]
            /\ Then(Loop, (IF Cardinality(Pool) < MinPieces
                           THEN Do("done", o) ELSE Do("request", o))
                          \o Do("iter", 0))
    /\ UNCHANGED <<ch, file, mem, wk, dir, wake, pz, env, stream, left>>

LoopReset ==
    /\ At(Loop, "reset")
    /\ Wipe
    /\ Then(Loop, Do("top", 0))
    /\ UNCHANGED <<file, repairing, mem, wk, dir, wake, pz, env, stream, left>>

\* managedPrepareNextChunk: blocks until the memory is granted.
PrepareNextChunk ==
    /\ At(Loop, "request") /\ mem >= Need
    /\ LET o == Cur(Loop).o
       IN /\ mem' = mem - Need
          /\ ch' = [ch EXCEPT ![o].granted = TRUE]
          /\ todo' = [After(Loop, <<>>) EXCEPT ![Fetch(o)] = Do("fetch", o)]
    /\ UNCHANGED <<file, heap, repairing, wk, dir, wake, pz, env, stream, left, hist>>

\* The renter stops while the request waits.
PrepareRefused ==
    /\ At(Loop, "request") /\ env.stopped /\ mem < Need
    /\ Then(Loop, Do("done", Cur(Loop).o))
    /\ UNCHANGED <<ch, file, heap, repairing, mem, wk, dir, wake, pz, env, stream, left, hist>>

---------------------------------------------------------------------------
(* callUploadStreamFromReader: one chunk after the other *)

StartStream ==
    /\ ~stream.on /\ ~env.stopped /\ Cardinality(Pool) >= MinPieces
    /\ Spend("streams")
    /\ stream' = [stream EXCEPT !.on = TRUE]
    /\ todo' = [todo EXCEPT ![Stream] =
                  [c \in 1..left.length |-> Task("next", 0, {}, c)[1]] \o Do("await", 0)]
    /\ UNCHANGED <<ch, file, heap, repairing, mem, wk, dir, wake, pz, env, hist>>

StreamNext ==
    /\ At(Stream, "next")
    /\ \E o \in NewObject : \E b \in {Build(Cur(Stream).n, TRUE)} :
        IF b.done < NumPieces
        THEN /\ ch' = [ch EXCEPT ![o] = b]
             /\ stream' = [stream EXCEPT !.wait = Append(@, o)]
             /\ Then(Stream, Do("push", o) \o Do("signal", 0) \o Do("read", o))
        ELSE Then(Stream, <<>>) /\ UNCHANGED <<ch, stream>>
    /\ UNCHANGED <<file, heap, repairing, mem, wk, dir, wake, pz, env, left, hist>>

StreamEnds(how) ==
    /\ stream' = [on |-> FALSE, wait |-> <<>>, last |-> how]
    /\ todo' = [todo EXCEPT ![Stream] = <<>>]

\* The shard was read, or the renter stops.
StreamRead ==
    /\ At(Stream, "read")
    /\ \/ ch[Cur(Stream).o].read /\ Then(Stream, <<>>) /\ UNCHANGED stream
       \/ env.stopped /\ StreamEnds("error")
    /\ UNCHANGED <<ch, file, heap, repairing, mem, wk, dir, wake, pz, env, left, hist>>

\* <-chunk.availableChan, for every chunk of the stream.
StreamAwait ==
    /\ At(Stream, "await")
    /\ IF stream.wait = <<>> THEN StreamEnds("ok")
       ELSE LET c == ch[Head(stream.wait)]
            IN /\ c.avail
               /\ IF c.err THEN StreamEnds("error")
                  ELSE stream' = [stream EXCEPT !.wait = Tail(@)] /\ UNCHANGED todo
    /\ UNCHANGED <<ch, file, heap, repairing, mem, wk, dir, wake, pz, env, left, hist>>

---------------------------------------------------------------------------
(* Pausing: the channel, the timer, and timer functions waiting for uh.mu *)

\* managedPause.  Reset re-arms the timer even if its function already runs.
Pause ==
    /\ Spend("pauses") /\ ~env.stopped
    /\ IF pz.closed
       THEN /\ pz' = [pz EXCEPT !.closed = FALSE, !.cur = TRUE,
                                !.old = @ + (IF pz.cur THEN 1 ELSE 0)]
            /\ hist' = [hist EXCEPT !.pops = 0]
       ELSE /\ pz' = [pz EXCEPT !.cur = TRUE]
            /\ hist' = [hist EXCEPT !.rearmed = @ \/ ~pz.cur]
    /\ UNCHANGED <<ch, file, heap, repairing, mem, wk, todo, dir, wake, env, stream>>

\* Mutant of Resume: the channel is closed although the timer has fired.
MutResume ==
    /\ Paused /\ ~env.stopped
    /\ pz' = [pz EXCEPT !.cur = FALSE, !.closed = TRUE]
    /\ UNCHANGED <<ch, file, heap, repairing, mem, wk, todo, dir, wake, env, stream, left, hist>>

\* managedResume closes the channel only if it stopped the timer.
Resume ==
    /\ Paused /\ ~env.stopped
    /\ pz' = [pz EXCEPT !.cur = FALSE, !.closed = pz.cur]
    /\ UNCHANGED <<ch, file, heap, repairing, mem, wk, todo, dir, wake, env, stream, left, hist>>

\* A timer elapses and its function starts.
TimerFires ==
    /\ \/ pz.cur /\ pz' = [pz EXCEPT !.cur = FALSE, !.fired = @ + 1]
       \/ pz.old > 0 /\ pz' = [pz EXCEPT !.old = @ - 1, !.fired = @ + 1]
    /\ UNCHANGED <<ch, file, heap, repairing, mem, wk, todo, dir, wake, env, stream, left, hist>>

\* The function closes whatever channel is current.
TimerCloses ==
    /\ pz.fired > 0
    /\ pz' = [pz EXCEPT !.fired = @ - 1, !.closed = TRUE]
    /\ hist' = [hist EXCEPT !.panic = @ \/ pz.closed]
    /\ UNCHANGED <<ch, file, heap, repairing, mem, wk, todo, dir, wake, env, stream, left>>

---------------------------------------------------------------------------
(* The environment *)

GoOffline ==
    /\ Spend("offs") /\ env.online
    /\ env' = [env EXCEPT !.online = FALSE]
    /\ UNCHANGED <<ch, file, heap, repairing, mem, wk, todo, dir, wake, pz, stream, hist>>

GoOnline ==
    /\ ~env.online
    /\ env' = [env EXCEPT !.online = TRUE]
    /\ UNCHANGED <<ch, file, heap, repairing, mem, wk, todo, dir, wake, pz, stream, left, hist>>

Stop ==
    /\ Spend("stops")
    /\ env' = [env EXCEPT !.stopped = TRUE]
    /\ UNCHANGED <<ch, file, heap, repairing, mem, wk, todo, dir, wake, pz, stream, hist>>

---------------------------------------------------------------------------
ChunkTask(t) ==
    \/ QueueUploadChunk(t) \/ DropChunk(t) \/ DropUploadChunks(t)
    \/ CleanUpUploadChunk(t) \/ NotifyStandbyWorkers(t)
    \/ FinishChunk(t) \/ MarkRepairDone(t)

HeapTask(t) ==
    \/ PushReplaces(t) \/ CancelWait(t) \/ PushAdds(t) \/ PushRefused(t)
    \/ Signal(t) \/ ScanChunk(t)

FetchStep(o) ==
    \/ FetchRefused(o) \/ FetchChunk(o) \/ FetchFails(o)
    \/ DistributeChunkToWorkers(o)

WorkerStep(w) ==
    \/ PerformUploadChunkJob(w) \/ ProcessDrops(w) \/ ProcessStandsBy(w)
    \/ ProcessTakes(w) \/ UploadPiece(w) \/ UploadFailed(w)
    \/ JobDone(w) \/ CooldownOver(w) \/ GoodForUploadLost(w) \/ RemoveWorker(w)
    \/ KillUploading(w)

LoopStep ==
    \/ LoopTop \/ LoopIdle \/ LoopBlock \/ LoopPaused \/ LoopIterate \/ LoopPop \/ LoopReset
    \/ PrepareNextChunk \/ PrepareRefused

Next ==
    \/ \E t \in {x \in Thread : todo[x] # <<>>} : ChunkTask(t) \/ HeapTask(t)
    \/ \E o \in Object : FetchStep(o)
    \/ \E w \in Worker : WorkerStep(w)
    \/ \E c \in Chunk : AddStuckChunk(c)
    \/ LoopStep
    \/ StartStream \/ StreamNext \/ StreamRead \/ StreamAwait
    \/ Pause \/ Resume \/ TimerFires \/ TimerCloses
    \/ BubbleRoot \/ GoOffline \/ GoOnline \/ Stop

Spec == Init /\ [][Next]_vars

---------------------------------------------------------------------------
(* Properties *)

Tasks == {"queue", "drop", "dropall", "cleanup", "notify", "finish", "done",
          "fetch", "distribute", "process", "upload", "wgdone", "wait", "push",
          "signal", "scan", "top", "idle", "block", "paused", "iter", "pop", "reset",
          "request", "next", "read", "await"}

\* The shape of the state: counters never negative, at most every worker left.
TypeOK ==
    /\ \A o \in Object :
        /\ ch[o].used \subseteq Piece
        /\ ch[o].done \in 0..NumPieces /\ ch[o].reg \in 0..NumPieces
        /\ ch[o].rem \in 0..Cardinality(Worker)
        /\ ch[o].freed \in 0..Need /\ ch[o].wg \in 0..Cardinality(Worker)
        /\ ch[o].standby \cup ch[o].hosts \subseteq Worker
    /\ \A c \in Chunk : file[c].pieces \subseteq Piece \X Worker
    /\ heap \subseteq Object
    /\ repairing \in [Chunk -> Object \cup {0}]
    /\ mem \in 0..Base
    /\ \A t \in Thread : \A i \in DOMAIN todo[t] : todo[t][i].do \in Tasks
    /\ \A w \in Worker : \A i \in DOMAIN wk[w].queue : wk[w].queue[i] \in Object

\* Memory is exact: what is not available is held by granted chunks
\* (memoryNeeded - memoryReleased), and once its data is fetched a chunk holds
\* one sector for every unused piece and every piece being uploaded.  No
\* interleaving of completions, failures, standby workers and clean-ups
\* releases a piece twice, forgets one, or frees one a worker still reads.
MemoryExact ==
    LET held(o) == IF ch[o].granted THEN Need - ch[o].freed ELSE 0
    IN /\ Base = mem + MapThenSumSet(held, Object)
       /\ \A o \in Object : ch[o].granted /\ ch[o].read =>
              held(o) = Cardinality(Unused(ch[o])) + ch[o].reg

\* None of the sanity checks of the pipeline fires: a worker that is wanted
\* finds an unused piece (workerupload.go:306), a complete chunk has released
\* exactly its memory (uploadchunk.go:671), a popped chunk is not being
\* repaired (uploadheap.go:342) and a finished one is (uploadheap.go:230).
NeverCritical == hist.critical = {}

\* At most one object per chunk of the file is in the heap or in repair, so two
\* sets of workers never upload the same chunk.
OneRepairPerChunk ==
    \A c \in Chunk : Cardinality({o \in Object : ch[o].id = c /\ Live(o)}) <= 1

\* No host is given two pieces of one chunk, however workers fail, stand by and
\* are replaced; except in a repair from a snapshot that was taken before an
\* earlier repair of the chunk ended and pushed after it.
OnePiecePerHost ==
    \A c \in Chunk \ hist.stale : \A w \in Worker :
        Cardinality({p \in file[c].pieces : p[2] = w}) <= 1

\* What availableChan promises: once it is closed without an error the network
\* holds MinPieces distinct pieces of the chunk, and a stream that returned
\* without an error has all its chunks there.
AvailableIsStored ==
    LET stored(c) == Cardinality({i \in Piece : HostsOf(c, i) # {}}) >= MinPieces
    IN /\ \A o \in Object : ch[o].avail /\ ~ch[o].err => stored(ch[o].id)
       /\ stream.last = "ok" => \A c \in 1..left.length : stored(c)

---------------------------------------------------------------------------
(* Nothing is forgotten: states in which every thread waits *)

Waits(t) ==
    \/ todo[t] = <<>>
    \/ At(t, "wait") /\ (ch[Cur(t).o].wg > 0 \/ Live(Cur(t).o))
    \/ At(t, "push") /\ t = Retry(Cur(t).o) /\ Existing(ch[Cur(t).o].id) # {}
    \/ At(t, "block") /\ ~wake
    \/ At(t, "paused") /\ ~wake /\ Paused
    \/ At(t, "request") /\ mem < Need
    \/ At(t, "read") /\ ~ch[Cur(t).o].read
    \/ At(t, "await") /\ stream.wait # <<>> /\ ~ch[Head(stream.wait)].avail

Quiet ==
    /\ env.online /\ ~env.stopped
    /\ \A t \in Thread : Waits(t)
    /\ \A w \in Worker : wk[w].alive => wk[w].queue = <<>> /\ wk[w].pool

\* When every thread waits, every chunk that was given memory is released, has
\* left the repair map and has returned all its memory.  The exception is a
\* chunk that was canceled while workers had it in their queues: they skip it
\* without being taken off workersRemaining (workerupload.go:169).
RepairsEnd ==
    Quiet => /\ \A o \in Object : ch[o].granted => ch[o].released \/ o \in hist.skipped
             /\ hist.skipped = {} => mem = Base
             /\ \A c \in Chunk : repairing[c] = 0 \/ repairing[c] \in hist.skipped
                                 \/ At(Loop, "request")

\* The repair loop never sleeps on a filled heap: a pushed chunk is seen, also
\* when it is pushed just as the loop decides to block.  The exception is an
\* object that managedPush's goroutine pushed later, which signals nobody.
LoopSeesHeap == Quiet /\ At(Loop, "block") => heap \subseteq hist.late

\* A stream does not wait for a chunk nobody works on.  The exceptions: its
\* object was wiped from the heap by a reset, refused by managedPush, pushed
\* late by managedPush's goroutine, or replaces a chunk that workers skipped.
StreamAnswered ==
    Quiet /\ ~Paused /\ hist.skipped = {} /\ todo[Stream] # <<>> =>
        LET o == IF At(Stream, "read") THEN Cur(Stream).o ELSE Head(stream.wait)
        IN o \in hist.wiped \cup hist.refused \cup hist.late

\* A pause takes effect at once: after it at most the one chunk the repair loop
\* had already decided to pop leaves the heap until the pause ends.
PauseStopsRepairs == hist.pops <= 1

\* The pause channel is closed once per pause.  The exception: managedPause
\* re-armed a timer that had already fired and was waiting for uh.mu.
PauseClosedOnce == hist.panic => hist.rearmed

\* Memory is accounted for exactly, and none of the sanity checks that guard it
\* and the repair map fires.
MemorySound == TypeOK /\ MemoryExact /\ NeverCritical

\* Pieces are where they should be: one per host, and enough of them on the
\* network when availableChan says so.
PiecesSound == OnePiecePerHost /\ AvailableIsStored

\* Nothing is forgotten: when every thread waits, repairs have ended, the repair
\* loop has seen the heap, and no stream waits for a chunk nobody works on, but
\* for the cases named above.
NothingForgotten == RepairsEnd /\ LoopSeesHeap /\ StreamAnswered

\* A pause stops the repair loop at once and ends once.
PauseHonoured == PauseStopsRepairs /\ PauseClosedOnce
=============================================================================
