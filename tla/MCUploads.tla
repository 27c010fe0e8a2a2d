------------------------------ MODULE MCUploads ------------------------------
(* Instances of Uploads: each profile exercises one group of hazards. *)
EXTENDS Uploads, TLC

CONSTANTS w1, w2, w3

None == [objects |-> 1, length |-> 1, fails |-> 0, faults |-> 0, kills |-> 0, marks |-> 0, streams |-> 0,
         stucks |-> 0, pauses |-> 0, offs |-> 0, stops |-> 0, bubbles |-> 0]

P(workers, stuck, upload, bounds) ==
    [workers |-> workers, good |-> workers, stuck |-> stuck, upload |-> upload, left |-> bounds]

MCWorker == {w1, w2, w3}
MCObject == {1, 2}
MCOnDisk == {1, 2}
Symmetry == Permutations(MCWorker)

\* In order: a failure with a worker standing by; a failure while a worker is
\* removed; lost utility, missing data, no connection; a stream meets the repair
\* loop; a stream meets the stuck loop with the stuck heap full and no worker
\* good for upload; Upload meets the repair loop; pauses; a pause with two chunks in the heap; a pause and a
\* failure during a stream; shutdown during a stream;
\* shutdown with two chunks and memory for one; the last worker leaves with two
\* chunks to repair; the health loop reports what a lost worker left undone.
MCProfiles ==
    { P({w1, w2, w3}, {2}, FALSE, [None EXCEPT !.fails = 1]),
      P({w1, w2}, {2}, FALSE, [None EXCEPT !.fails = 1, !.kills = 1]),
      P({w1, w2}, {2}, FALSE, [None EXCEPT !.marks = 1, !.faults = 1, !.offs = 1]),
      P({w1}, {2}, FALSE, [None EXCEPT !.objects = 2, !.streams = 1]),
      [P({w1}, {1, 2}, FALSE, [None EXCEPT !.objects = 2, !.streams = 1, !.stucks = 1])
          EXCEPT !.good = {}],
      P({w1}, {2}, TRUE, [None EXCEPT !.objects = 2]),
      P({w1}, {2}, FALSE, [None EXCEPT !.pauses = 3]),
      P({w1}, {}, FALSE, [None EXCEPT !.objects = 2, !.pauses = 1]),
      P({w1}, {2}, FALSE, [None EXCEPT !.streams = 1, !.pauses = 1, !.fails = 1]),
      P({w1}, {2}, FALSE, [None EXCEPT !.streams = 1, !.stops = 1]),
      P({w1}, {}, FALSE, [None EXCEPT !.objects = 2, !.stops = 1]),
      P({w1}, {}, FALSE, [None EXCEPT !.objects = 2, !.kills = 1]),
      P({w1}, {2}, FALSE, [None EXCEPT !.kills = 1, !.bubbles = 1]) }
=============================================================================
