-------------------------- MODULE ContractManager --------------------------
(***************************************************************************)
(* The host's contract manager: the sectors it stores, the storage folders *)
(* that hold them, and the write-ahead log that makes both survive an      *)
(* unclean shutdown (modules/host/contractmanager).                        *)
(*                                                                         *)
(* Everything the program keeps under wal.mu is one atomic step.  A thread *)
(* that waits on wal.syncChan waits in pc "sync" or "sync2" until the sync *)
(* loop has committed.  A write to a folder's files reaches `cache` at     *)
(* once and `platter` when the files are synced; at a power loss every     *)
(* slot that was written since keeps either content.  Creating, removing,  *)
(* truncating and renaming files is taken to be durable in program order.  *)
(***************************************************************************)
EXTENDS Integers, SequencesExt

CONSTANTS Id,           \* sector ids
          Folder,       \* storage folders: the path also stands for the index
          Thread,       \* concurrent callers
          Operation,    \* the calls that are made
          Layouts,      \* the folders and sectors to start with
          Granularity,  \* storageFolderGranularity, the sectors of a usage word
          MaxWords,     \* bound on the size of a folder, in usage words
          MaxCount,     \* limit on virtual sectors, 65535 in the code
          MaxOps,       \* bound on the number of calls
          MaxFaults,    \* bound on failed disk writes
          MaxCrashes    \* bound on unclean shutdowns

ASSUME SizesPositive ==
  /\ Granularity \in Nat \ {0} /\ MaxWords \in Nat \ {0} /\ MaxCount \in Nat \ {0}
  /\ Operation \subseteq {"add", "addBatch", "remove", "delete",
                          "addFolder", "grow", "shrink", "drop", "close"}

VARIABLES folders,      \* cm.storageFolders, with each folder's usage and availableSectors
          loc,          \* cm.sectorLocations
          len,          \* size of each folder's files in words, -1 when they do not exist
          cache,        \* contents of the folder files, as read by the program
          platter,      \* contents of the folder files that survive a power loss
          settings,     \* the settings file
          pending,      \* the temporary settings file
          walFile,      \* the write-ahead log
          carried,      \* what commit wrote first into the temporary log
          uncommitted,  \* wal.uncommittedChanges, also in the temporary log
          phase,        \* how far the sync loop is with a commit
          th,           \* the callers
          stop,         \* progress of Close
          budget,       \* calls, faults and crashes so far
          ghost         \* what has been promised, for the properties

disk == <<len, cache, platter, settings, pending, walFile>>
log == <<carried, uncommitted>>
vars == <<folders, loc, disk, log, phase, th, stop, budget, ghost>>

Slot == 0 .. MaxWords * Granularity - 1
Empty == [id |-> "none", count |-> 0, data |-> "none"]
Slots(words) == 0 .. words * Granularity - 1
With(f, x, v) == (x :> v) @@ f
Without(f, x) == Restrict(f, DOMAIN f \ {x})
Count(l, id) == IF id \in DOMAIN l THEN l[id].count ELSE 0

(***************************************************************************)
(* Storage folders.                                                        *)
(***************************************************************************)
NewFolder(words) == [words |-> words, usage |-> {}, avail |-> <<>>, up |-> TRUE]
clearUsage(fs, f, i) == [fs EXCEPT ![f].usage = @ \ {i}]
setUsage(fs, f, i) == IF i \in Slots(fs[f].words) THEN [fs EXCEPT ![f].usage = @ \cup {i}] ELSE fs

\* A random word that is not full, and the most significant zero of it.
randFreeSector(f) ==
  LET free(w) == (w * Granularity .. (w + 1) * Granularity - 1) \ folders[f].usage
  IN {Max(free(w)) : w \in {v \in 0 .. folders[f].words - 1 : free(v) # {}}}

savedSettings(fs) ==
  [f \in DOMAIN fs |-> [words |-> fs[f].words, usage |-> fs[f].usage \ Range(fs[f].avail)]]

(***************************************************************************)
(* The log.                                                                *)
(***************************************************************************)
NoChange == [unfAdd |-> <<>>, add |-> <<>>, errAdd |-> <<>>, unfExt |-> <<>>, ext |-> <<>>,
             errExt |-> <<>>, red |-> <<>>, rem |-> <<>>, upd |-> <<>>]
Update(id, f, i, n) == [id |-> id, folder |-> f, index |-> i, count |-> n]
Sized(f, w) == [folder |-> f, words |-> w]
appendChange(field, entries) == uncommitted' = Append(uncommitted, [NoChange EXCEPT ![field] = entries])

FoldersIn(seq) == {seq[i].folder : i \in DOMAIN seq}

findUnfinishedStorageFolderAdditions(scs) ==
  FoldLeft(LAMBDA m, sc : (m \cup Range(sc.unfAdd))
                            \ (FoldersIn(sc.add) \cup Range(sc.errAdd) \cup Range(sc.rem)), {}, scs)
findUnfinishedStorageFolderExtensions(scs) ==
  FoldLeft(LAMBDA m, sc : (m \cup Range(sc.unfExt))
                            \ (FoldersIn(sc.ext) \cup Range(sc.errExt) \cup Range(sc.rem)), {}, scs)

(***************************************************************************)
(* Callers.  `f` is the folder a folder operation holds exclusively, `dst` *)
(* the folder a sector is being written to, held shared, and `id` the      *)
(* sector that is locked.                                                  *)
(***************************************************************************)
Idle == [op |-> "none", pc |-> "idle", id |-> "none", f |-> "none", words |-> 0, force |-> FALSE,
         dst |-> "none", slot |-> 0, count |-> 0, cands |-> {}, errs |-> 0, age |-> 0,
         snap |-> <<>>, word |-> 0, bits |-> 0, mask |-> 0, head |-> 0, used |-> {}]
FolderOp == {"addFolder", "grow", "shrink", "drop"}
Relocation == {"shrink", "drop"}
Locked(f) == \E t \in Thread : th[t].op \in FolderOp /\ th[t].f = f
Shared(f) == \E t \in Thread : th[t].pc \in {"write", "append"} /\ th[t].dst = f
SectorLocked(id) ==
  \E t \in Thread : /\ th[t].id = id
                    /\ th[t].op \notin FolderOp \/ th[t].pc \in {"pick", "write", "append"}

Step(t, fields) == th' = [th EXCEPT ![t] = fields @@ @]
Return(t) == th' = [th EXCEPT ![t] = Idle]
walMu == phase = "idle"
Calls(t, op) ==
  /\ op \in Operation
  /\ th[t].op = "none" /\ stop = "no" /\ walMu /\ budget.ops < MaxOps
  /\ budget' = [budget EXCEPT !.ops = @ + 1]
Fails == budget.faults < MaxFaults /\ budget' = [budget EXCEPT !.faults = @ + 1]

(***************************************************************************)
(* Sector operations.                                                      *)
(***************************************************************************)
\* Where the sector is stored, when its folder is there and can be used.
Found(id) == id \in DOMAIN loc /\ loc[id].folder \in DOMAIN folders /\ folders[loc[id].folder].up

managedAddVirtualSectorNoLimit(t, id) ==
  LET n == loc[id].count + 1 IN
  /\ Found(id)
  /\ appendChange("upd", <<Update(id, loc[id].folder, loc[id].index, n)>>)
  /\ loc' = [loc EXCEPT ![id].count = n]
  /\ Step(t, [op |-> "virtual", pc |-> "sync", id |-> id, count |-> n])
  /\ UNCHANGED folders
managedAddVirtualSectorNoWait(t, id) ==
  LET n == loc[id].count + 1 IN
  /\ Found(id) /\ loc[id].count < MaxCount
  /\ appendChange("upd", <<Update(id, loc[id].folder, loc[id].index, n)>>)
  /\ loc' = [loc EXCEPT ![id].count = n]
  /\ Step(t, [op |-> "virtual", pc |-> "after", id |-> id, count |-> n])
  /\ UNCHANGED folders

managedAddVirtualSector(t, id) ==
  LET n == loc[id].count + 1 IN
  /\ Found(id) /\ loc[id].count < MaxCount
  /\ appendChange("upd", <<Update(id, loc[id].folder, loc[id].index, n)>>)
  /\ loc' = [loc EXCEPT ![id].count = n]
  /\ Step(t, [op |-> "virtual", pc |-> "sync", id |-> id, count |-> n])
  /\ UNCHANGED folders

AddSector(t, id) ==
  /\ Calls(t, "add") /\ ~SectorLocked(id)
  /\ \/ managedAddVirtualSector(t, id)
     \/ /\ id \notin DOMAIN loc
        /\ Step(t, [op |-> "physical", pc |-> "pick", id |-> id, count |-> 1,
                    cands |-> {f \in DOMAIN folders : folders[f].up}])
        /\ UNCHANGED <<folders, loc, uncommitted>>
  /\ UNCHANGED <<disk, carried, phase, stop, ghost>>

\* One of the goroutines: it only ever adds a virtual sector.
AddSectorBatch(t, id) ==
  /\ Calls(t, "addBatch") /\ ~SectorLocked(id)
  /\ managedAddVirtualSector(t, id)
  /\ UNCHANGED <<disk, carried, phase, stop, ghost>>

TakeSectorFreed(t, id, n, op) ==
  LET l == loc[id] IN
  /\ Found(id)
  /\ appendChange("upd", <<Update(id, l.folder, l.index, n)>>)
  /\ IF n = 0
     THEN loc' = Without(loc, id) /\ folders' = clearUsage(folders, l.folder, l.index)
     ELSE loc' = [loc EXCEPT ![id].count = n] /\ UNCHANGED folders
  /\ Step(t, [op |-> op, pc |-> "sync", id |-> id, count |-> n, dst |-> l.folder, slot |-> l.index])

\* RemoveSector and DeleteSector up to the wait: one reference less, or none left.
TakeSector(t, id, n, op) ==
  LET l == loc[id] IN
  /\ Found(id)
  /\ appendChange("upd", <<Update(id, l.folder, l.index, n)>>)
  /\ IF n = 0
     THEN /\ loc' = Without(loc, id)
          /\ folders' = [folders EXCEPT ![l.folder].avail = With(@, id, l.index)]
     ELSE loc' = [loc EXCEPT ![id].count = n] /\ UNCHANGED folders
  /\ Step(t, [op |-> op, pc |-> "sync", id |-> id, count |-> n, dst |-> l.folder, slot |-> l.index])

managedRemoveSector(t, id) == TakeSector(t, id, Count(loc, id) - 1, "remove")
managedDeleteSector(t, id) == TakeSector(t, id, 0, "delete")

RemoveSector(t, id) ==
  /\ Calls(t, "remove") /\ ~SectorLocked(id) /\ managedRemoveSector(t, id)
  /\ UNCHANGED <<disk, carried, phase, stop, ghost>>

DeleteSector(t, id) ==
  /\ Calls(t, "delete") /\ ~SectorLocked(id) /\ managedDeleteSector(t, id)
  /\ UNCHANGED <<disk, carried, phase, stop, ghost>>

writeSectorMetadata(id, f, i, n) == cache' = [cache EXCEPT ![f][i].id = id, ![f][i].count = n]

\* Past the wait of a virtual add, or of a removal that left references: write the count, or,
\* when the write fails, log the former count again.
WriteCount(t) ==
  LET id == th[t].id l == loc[id] back == IF th[t].op = "virtual" THEN -1 ELSE 1 IN
  /\ th[t].pc = "after" /\ th[t].count > 0 /\ th[t].op \in {"virtual", "remove"}
  /\ Return(t)
  /\ \/ /\ l.folder \in DOMAIN folders
        /\ writeSectorMetadata(id, l.folder, l.index, th[t].count)
        /\ UNCHANGED <<loc, uncommitted, budget>>
     \/ /\ Fails \/ (l.folder \notin DOMAIN folders /\ UNCHANGED budget)
        /\ walMu
        /\ appendChange("upd", <<Update(id, l.folder, l.index, th[t].count + back)>>)
        /\ loc' = [loc EXCEPT ![id].count = th[t].count + back]
        /\ UNCHANGED cache
  /\ UNCHANGED <<folders, len, platter, settings, pending, walFile, carried, phase, stop, ghost>>

\* Past the wait of a removal that left nothing: only now the slot may be used again.
FreeSlot(t) ==
  LET id == th[t].id f == th[t].dst IN
  /\ th[t].pc = "after" /\ th[t].count = 0 /\ th[t].op \in {"remove", "delete"} /\ walMu
  /\ folders' = IF f \in DOMAIN folders /\ id \in DOMAIN folders[f].avail
                THEN clearUsage([folders EXCEPT ![f].avail = Without(@, id)], f, th[t].slot)
                ELSE folders
  /\ Return(t)
  /\ UNCHANGED <<loc, disk, log, phase, stop, budget, ghost>>

(***************************************************************************)
(* Writing a sector: a new one, or one that is moved to another folder.    *)
(***************************************************************************)
\* TryRLock fails on a folder that an operation holds exclusively.
vacancyStorageFolder(t) ==
  {f \in th[t].cands \cap DOMAIN folders :
     Cardinality(folders[f].usage) < folders[f].words * Granularity /\ ~Locked(f)}

PickFolderNoError(t) ==
  /\ th[t].pc = "pick" /\ walMu
  /\ \/ \E f \in vacancyStorageFolder(t) : \E i \in randFreeSector(f) :
          /\ folders' = [setUsage(folders, f, i) EXCEPT ![f].avail = With(@, th[t].id, i)]
          /\ Step(t, [pc |-> "write", dst |-> f, slot |-> i])
     \/ /\ vacancyStorageFolder(t) = {}
        /\ IF th[t].op = "physical" THEN Return(t) ELSE Step(t, [pc |-> "scan"])
        /\ UNCHANGED folders
  /\ UNCHANGED <<loc, disk, log, phase, stop, budget, ghost>>

PickFolder(t) ==
  /\ th[t].pc = "pick" /\ walMu
  /\ \/ \E f \in vacancyStorageFolder(t) : \E i \in randFreeSector(f) :
          /\ folders' = [setUsage(folders, f, i) EXCEPT ![f].avail = With(@, th[t].id, i)]
          /\ Step(t, [pc |-> "write", dst |-> f, slot |-> i])
     \/ /\ vacancyStorageFolder(t) = {}
        /\ IF th[t].op = "physical" THEN Return(t)
           ELSE Step(t, [pc |-> "scan", errs |-> th[t].errs + 1])
        /\ UNCHANGED folders
  /\ UNCHANGED <<loc, disk, log, phase, stop, budget, ghost>>

\* The sectors whose committed location is overwritten.
Overwritten(f, i) == {x \in DOMAIN ghost.loc : ghost.loc[x].folder = f /\ ghost.loc[x].index = i}

WriteSectorMetadataOnly(t) ==
  LET f == th[t].dst i == th[t].slot IN
  /\ th[t].pc = "write"
  /\ cache' = [cache EXCEPT ![f][i].id = th[t].id, ![f][i].count = th[t].count]
  /\ Step(t, [pc |-> "append"])
  /\ ghost' = [ghost EXCEPT !.torn = @ \cup Overwritten(f, i)]
  /\ UNCHANGED <<folders, loc, len, platter, settings, pending, walFile, log, phase, stop, budget>>

\* writeSector and writeSectorMetadata, without wal.mu.
WriteSector(t) ==
  LET f == th[t].dst i == th[t].slot IN
  /\ th[t].pc = "write"
  /\ cache' = [cache EXCEPT ![f][i] = [id |-> th[t].id, count |-> th[t].count, data |-> th[t].id]]
  /\ Step(t, [pc |-> "append"])
  /\ ghost' = [ghost EXCEPT !.torn = @ \cup Overwritten(f, i)]
  /\ UNCHANGED <<folders, loc, len, platter, settings, pending, walFile, log, phase, stop, budget>>

WriteSectorFailsUsed(t) ==
  LET f == th[t].dst i == th[t].slot IN
  /\ th[t].pc = "write" /\ Fails /\ walMu
  /\ \/ UNCHANGED <<cache, ghost>>
     \/ /\ cache' = [cache EXCEPT ![f][i].data = th[t].id]
        /\ ghost' = [ghost EXCEPT !.torn = @ \cup Overwritten(f, i)]
  /\ folders' = [folders EXCEPT ![f].avail = Without(@, th[t].id)]
  /\ Step(t, [pc |-> "pick", dst |-> "none", cands |-> th[t].cands \ {f}])
  /\ UNCHANGED <<loc, len, platter, settings, pending, walFile, log, phase, stop>>

\* One of the writes fails, the second one after the data have been written: try another folder.
WriteSectorFails(t) ==
  LET f == th[t].dst i == th[t].slot IN
  /\ th[t].pc = "write" /\ Fails /\ walMu
  /\ \/ UNCHANGED <<cache, ghost>>
     \/ /\ cache' = [cache EXCEPT ![f][i].data = th[t].id]
        /\ ghost' = [ghost EXCEPT !.torn = @ \cup Overwritten(f, i)]
  /\ folders' = clearUsage([folders EXCEPT ![f].avail = Without(@, th[t].id)], f, i)
  /\ Step(t, [pc |-> "pick", dst |-> "none", cands |-> th[t].cands \ {f}])
  /\ UNCHANGED <<loc, len, platter, settings, pending, walFile, log, phase, stop>>

\* The write is logged and the location set; a move frees the old slot at once.
LogSector(t) ==
  LET id == th[t].id f == th[t].dst i == th[t].slot new == Update(id, f, i, th[t].count)
      settled == [folders EXCEPT ![f].avail = Without(@, id)]
  IN
  /\ th[t].pc = "append" /\ walMu
  /\ loc' = With(loc, id, [folder |-> f, index |-> i, count |-> th[t].count])
  /\ IF th[t].op = "physical"
     THEN /\ appendChange("upd", <<new>>)
          /\ folders' = settled
          /\ Step(t, [pc |-> "sync"])
     ELSE LET old == loc[id] IN
          /\ appendChange("upd", <<Update(id, old.folder, old.index, 0), new>>)
          /\ folders' = clearUsage(settled, old.folder, old.index)
          /\ Step(t, [pc |-> "scan", dst |-> "none"])
  /\ UNCHANGED <<disk, carried, phase, stop, budget, ghost>>

(***************************************************************************)
(* Adding and growing a folder.                                            *)
(***************************************************************************)
Erased(m, f, words) == [m EXCEPT ![f] = [i \in Slot |-> IF i \in Slots(words) THEN m[f][i] ELSE Empty]]

\* The random index is taken not to be one that a lost sector's location still names.
AddStorageFolder(t, f, words) ==
  /\ Calls(t, "addFolder") /\ f \notin DOMAIN folders
  /\ \A x \in DOMAIN loc : loc[x].folder # f
  /\ folders' = With(folders, f, NewFolder(words))
  /\ len' = [len EXCEPT ![f] = 0]
  /\ cache' = Erased(cache, f, 0) /\ platter' = Erased(platter, f, 0)
  /\ appendChange("unfAdd", <<f>>)
  /\ Step(t, [op |-> "addFolder", pc |-> "sync", f |-> f, words |-> words])
  /\ UNCHANGED <<loc, settings, pending, walFile, carried, phase, stop, ghost>>

growStorageFolder(t, f, words) ==
  /\ Calls(t, "grow") /\ f \in DOMAIN folders /\ folders[f].up /\ words > folders[f].words
  /\ ~Locked(f) /\ ~Shared(f)
  /\ appendChange("unfExt", <<f>>)
  /\ Step(t, [op |-> "grow", pc |-> "sync", f |-> f, words |-> words])
  /\ UNCHANGED <<folders, loc, disk, carried, phase, stop, ghost>>

\* Truncate and Sync of the two files.
Allocate(t) ==
  /\ th[t].pc = "alloc" /\ th[t].op = "addFolder"
  /\ len' = [len EXCEPT ![th[t].f] = th[t].words]
  /\ Step(t, [pc |-> "finish"])
  /\ UNCHANGED <<folders, loc, cache, platter, settings, pending, walFile, log, phase, stop, budget, ghost>>

Extend(t) ==
  /\ th[t].pc = "alloc" /\ th[t].op = "grow" /\ th[t].words > folders[th[t].f].words
  /\ len' = [len EXCEPT ![th[t].f] = th[t].words]
  /\ Step(t, [pc |-> "finish"])
  /\ UNCHANGED <<folders, loc, cache, platter, settings, pending, walFile, log, phase, stop, budget, ghost>>

\* The files of an addition that failed are removed, the folder with them.
AllocateFails(t) ==
  LET f == th[t].f IN
  /\ th[t].pc = "alloc" /\ th[t].op = "addFolder" /\ Fails /\ walMu
  /\ folders' = Without(folders, f)
  /\ len' = [len EXCEPT ![f] = -1]
  /\ appendChange("errAdd", <<f>>)
  /\ ghost' = [ghost EXCEPT !.failed = @ \cup {f}]
  /\ Return(t)
  /\ UNCHANGED <<loc, cache, platter, settings, pending, walFile, carried, phase, stop>>

\* The files of an extension that failed are truncated to what they were.
GrowFails(t) ==
  /\ th[t].pc = "alloc" /\ th[t].op = "grow" /\ Fails /\ walMu
  /\ appendChange("errExt", <<th[t].f>>)
  /\ Return(t)
  /\ UNCHANGED <<folders, loc, disk, carried, phase, stop, ghost>>

(***************************************************************************)
(* Emptying a folder, to shrink or remove it.  The workers are one thread: *)
(* moves of different sectors only meet at wal.mu.                         *)
(***************************************************************************)
UsedBits(f, w) == {m \in 0 .. Granularity - 1 : w * Granularity + m \in folders[f].usage}
\* The state of the loop at the start of usage word w.
AtWord(f, w) == [pc |-> "scan", word |-> w, bits |-> 0, mask |-> 0,
                 used |-> IF w < folders[f].words THEN UsedBits(f, w) ELSE {}]

StartRelocation(t, op, f, words, force) ==
  /\ Calls(t, op) /\ f \in DOMAIN folders /\ ~Locked(f) /\ ~Shared(f)
  /\ \/ /\ folders[f].up
        /\ Step(t, [op |-> op, f |-> f, words |-> words, force |-> force, head |-> words * Granularity,
                    snap |-> [i \in Slots(folders[f].words) |-> cache[f][i].id]] @@ AtWord(f, words))
     \/ /\ ~folders[f].up /\ op = "drop" /\ force
        /\ Step(t, [op |-> op, f |-> f, words |-> words, force |-> force, pc |-> "sync"])
  /\ UNCHANGED <<folders, loc, disk, log, phase, stop, ghost>>

shrinkStorageFolder(t, f, words, force) ==
  /\ f \in DOMAIN folders /\ folders[f].up /\ words < folders[f].words
  /\ StartRelocation(t, "shrink", f, words, force)
RemoveStorageFolder(t, f, force) == StartRelocation(t, "drop", f, 0, force)

\* How far the loop gets before it meets a used bit or the end of the word.
Unused(r) ==
  LET ahead == {m \in r.used : m >= r.mask} IN
  IF ahead = {} THEN Granularity - r.bits ELSE Min({Granularity - r.bits, Min(ahead) - r.mask})

\* One used bit.  `continue` after a sector that was deleted skips the two increments at the end
\* of the loop's body.
ScanBit(t) ==
  LET r == th[t] d == Unused(r) id == r.snap[r.head + d] IN
  /\ r.pc = "scan" /\ r.word < folders[r.f].words /\ r.bits + d < Granularity /\ walMu
  /\ IF id \in DOMAIN loc
     THEN Step(t, [pc |-> "move", id |-> id, bits |-> r.bits + d + 1,
                   mask |-> r.mask + d + 1, head |-> r.head + d + 1])
     ELSE Step(t, [bits |-> r.bits + d + 1, mask |-> r.mask + d, head |-> r.head + d])
  /\ UNCHANGED <<folders, loc, disk, log, phase, stop, budget, ghost>>

ScanWord(t) ==
  LET r == th[t] IN
  /\ r.pc = "scan" /\ r.word < folders[r.f].words /\ r.bits + Unused(r) = Granularity
  /\ Step(t, [head |-> r.head + Unused(r)] @@ AtWord(r.f, r.word + 1))
  /\ UNCHANGED <<folders, loc, disk, log, phase, stop, budget, ghost>>

\* managedMoveSector up to the choice of a folder; the sector's lock is taken here.
managedMoveSector(t) ==
  /\ th[t].pc = "move" /\ ~SectorLocked(th[t].id) /\ walMu
  /\ IF Found(th[t].id)
     THEN Step(t, [pc |-> "pick", count |-> loc[th[t].id].count,
                   cands |-> {f \in DOMAIN folders : folders[f].up}])
     ELSE Step(t, [pc |-> "scan", errs |-> th[t].errs + 1])
  /\ UNCHANGED <<folders, loc, disk, log, phase, stop, budget, ghost>>

EndRelocation(t) ==
  LET r == th[t] IN
  /\ r.pc = "scan" /\ r.word >= folders[r.f].words
  /\ IF r.errs > 0 /\ ~r.force
     THEN Return(t) /\ ghost' = [ghost EXCEPT !.partial = TRUE]
     ELSE Step(t, [pc |-> "sync"]) /\ UNCHANGED ghost
  /\ UNCHANGED <<folders, loc, disk, log, phase, stop, budget>>

\* The sectors in the part of the folder that a relocation gives up.
InRegion(r) == {x \in DOMAIN loc : loc[x].folder = r.f /\ loc[x].index \notin Slots(r.words)}

LogAddition(r) == r.op = "addFolder" /\ appendChange("add", <<Sized(r.f, r.words)>>)
LogExtension(r) == r.op = "grow" /\ appendChange("ext", <<Sized(r.f, r.words)>>)
LogReduction(r) == r.op = "shrink" /\ appendChange("red", <<Sized(r.f, r.words)>>)
LogRemoval(r) == r.op = "drop" /\ appendChange("rem", <<r.f>>)

\* The second entry of a folder operation.
LogFolder(t) ==
  LET r == th[t] IN
  /\ r.pc = "finish" /\ walMu
  /\ LogAddition(r) \/ LogExtension(r) \/ LogReduction(r) \/ LogRemoval(r)
  /\ ghost' = IF r.op \in Relocation THEN [ghost EXCEPT !.dropped = @ \cup InRegion(r)] ELSE ghost
  /\ Step(t, [pc |-> "sync2"])
  /\ UNCHANGED <<folders, loc, disk, carried, phase, stop, budget>>

(***************************************************************************)
(* Applying log entries, to a record r of folders, file sizes, contents.   *)
(***************************************************************************)
State == [folders |-> folders, len |-> len, cache |-> cache, platter |-> platter]
Truncate(r, f, words) ==
  [r EXCEPT !.len[f] = words, !.cache = Erased(@, f, words), !.platter = Erased(@, f, words)]
Usable(r, f) == f \in DOMAIN r.folders /\ r.folders[f].up

commitAddStorageFolder(r, sfa) ==
  IF r.len[sfa.folder] = -1 THEN r
  ELSE [r EXCEPT !.folders = With(@, sfa.folder, NewFolder(sfa.words))]

commitStorageFolderExtension(r, sfe) ==
  IF Usable(r, sfe.folder) THEN [r EXCEPT !.folders[sfe.folder].words = sfe.words] ELSE r

commitStorageFolderReduction(r, sfr) ==
  LET f == sfr.folder IN
  IF ~Usable(r, f) THEN r
  ELSE Truncate([r EXCEPT !.folders[f].words = Min({@, sfr.words}),
                          !.folders[f].usage = @ \cap Slots(sfr.words)], f, sfr.words)

commitStorageFolderRemoval(r, f) ==
  [Truncate(r, f, 0) EXCEPT !.folders = Without(@, f), !.len[f] = -1]

commitUpdateSectorMetadata(r, su) ==
  IF ~Usable(r, su.folder) THEN r
  ELSE IF su.count = 0 THEN [r EXCEPT !.folders = clearUsage(@, su.folder, su.index)]
  ELSE [r EXCEPT !.cache[su.folder][su.index].id = su.id, !.cache[su.folder][su.index].count = su.count]

commitUpdateSector(r, su) ==
  IF ~Usable(r, su.folder) THEN r
  ELSE IF su.count = 0 THEN [r EXCEPT !.folders = clearUsage(@, su.folder, su.index)]
  ELSE [r EXCEPT !.folders = setUsage(@, su.folder, su.index),
                 !.cache[su.folder][su.index].id = su.id,
                 !.cache[su.folder][su.index].count = su.count]

\* What a commit applies at once: the rest already is in the state.
Cleanup(r, sc) ==
  FoldLeft(commitStorageFolderRemoval,
    FoldLeft(commitStorageFolderReduction,
      FoldLeft(commitStorageFolderExtension, r, sc.ext), sc.red), sc.rem)

commitChange(r, sc) ==
  FoldLeft(commitUpdateSector, Cleanup(FoldLeft(commitAddStorageFolder, r, sc.add), sc), sc.upd)

(***************************************************************************)
(* The sync loop.  wal.mu is held through the three steps of a commit.     *)
(***************************************************************************)
\* The settings written at the end of the previous commit replace the settings file.
RenameSettings ==
  /\ phase = "idle" /\ phase' = "settings"
  /\ settings' = pending
  /\ ghost' = [ghost EXCEPT !.failed = @ \cap DOMAIN pending]
  /\ UNCHANGED <<folders, loc, len, cache, platter, pending, walFile, log, th, stop, budget>>

\* Counts that are in the log this commit replaces, but not in the synced files.
Unwritten == {th[t].id : t \in {u \in Thread : th[u].pc = "after" /\ th[u].count > 0}}
\* The folders as committed.
Promised(dirs, sc) ==
  LET sized(m, e) == With(m, e.folder, e.words)
  IN FoldLeft(Without, FoldLeft(sized, FoldLeft(sized, FoldLeft(sized, dirs, sc.add), sc.ext), sc.red), sc.rem)

\* The folders' files are synced, and then the temporary log replaces the log, if it has changes.
RenameLog ==
  /\ phase = "settings" /\ phase' = "log"
  /\ platter' = cache
  /\ IF uncommitted = <<>>
     THEN /\ ghost' = [ghost EXCEPT !.late = @ \cap Unwritten]
          /\ UNCHANGED <<walFile, th>>
     ELSE /\ walFile' = carried \o uncommitted
          /\ ghost' = [ghost EXCEPT !.loc = loc, !.late = Unwritten, !.torn = {},
                                    !.dirs = FoldLeft(Promised, @, uncommitted)]
          /\ th' = [t \in Thread |-> IF th[t].op = "addFolder"
                                     THEN [th[t] EXCEPT !.age = Min({@ + 1, 3})] ELSE th[t]]
  /\ UNCHANGED <<folders, loc, len, cache, settings, pending, log, stop, budget>>

\* Where a caller continues when syncChan is closed.
Wakes(r) ==
  CASE r.pc = "sync" /\ r.op = "physical" -> Idle
    [] r.pc = "sync" /\ r.op \in {"virtual", "remove", "delete"} -> [r EXCEPT !.pc = "after"]
    [] r.pc = "sync" /\ r.op \in {"addFolder", "grow"} -> [r EXCEPT !.pc = "alloc"]
    [] r.pc = "sync" /\ r.op \in Relocation -> [r EXCEPT !.pc = "finish"]
    [] r.pc = "sync2" -> Idle
    [] OTHER -> r

CarryNothing(scs) == {<<>>}

\* The entry that takes unfinished folder operations to the next log.
Carry(scs) ==
  {<<[NoChange EXCEPT !.unfAdd = a, !.unfExt = e]>> :
     a \in SetToSeqs(findUnfinishedStorageFolderAdditions(scs)),
     e \in SetToSeqs(findUnfinishedStorageFolderExtensions(scs))}

\* Folder changes are applied, the callers woken, and both temporary files begun again.  The
\* carried entry goes into the file and not into the list of changes, which is cleared after it.
FinishCommit ==
  /\ phase = "log" /\ phase' = "idle"
  /\ \E r \in {FoldLeft(Cleanup, State, uncommitted)} :
       /\ folders' = r.folders /\ len' = r.len /\ cache' = r.cache /\ platter' = r.platter
       /\ pending' = savedSettings(r.folders)
  /\ th' = [t \in Thread |-> Wakes(th[t])]
  /\ IF uncommitted = <<>> THEN UNCHANGED log
     ELSE uncommitted' = <<>> /\ carried' \in Carry(uncommitted)
  /\ stop' = IF stop = "wait" THEN "synced" ELSE stop
  /\ UNCHANGED <<loc, settings, walFile, budget, ghost>>

(***************************************************************************)
(* Loading.                                                                *)
(***************************************************************************)
loadSettings(s, lens) ==
  [f \in DOMAIN s |-> [words |-> s[f].words, usage |-> s[f].usage, avail |-> <<>>, up |-> lens[f] # -1]]

\* The list of changes that recoverWAL keeps.  Every entry is decoded into the same variable, so an
\* entry's list is overwritten by the next entry's, as long as that list is not empty.
Decoded(scs) ==
  LET run(i, x) == {k \in i .. Len(scs) : \A m \in i .. k : scs[m][x] # <<>>}
      kept(i, x) == [j \in DOMAIN scs[i][x] |->
                       scs[Max({k \in run(i, x) : j \in DOMAIN scs[k][x]})][x][j]]
  IN [i \in DOMAIN scs |-> [x \in DOMAIN NoChange |-> kept(i, x)]]

cleanupUnfinishedStorageFolderAdditions(r, f) ==
  [Truncate(r, f, 0) EXCEPT !.folders = IF Usable(r, f) THEN Without(@, f) ELSE @, !.len[f] = -1]
cleanupUnfinishedStorageFolderExtensions(r, f) ==
  IF Usable(r, f) THEN Truncate(r, f, r.folders[f].words) ELSE r

\* The state after the log has been replayed.
recoverWAL(r, scs) ==
  LET replayed == FoldLeft(commitChange, r, scs) kept == Decoded(scs) IN
  FoldLeft(cleanupUnfinishedStorageFolderExtensions,
    FoldLeft(cleanupUnfinishedStorageFolderAdditions, replayed,
             SetToSeq(findUnfinishedStorageFolderAdditions(kept))),
    SetToSeq(findUnfinishedStorageFolderExtensions(kept)))

\* The entries that the two clean-ups append.
CleanupEntries(r, scs) ==
  LET kept == Decoded(scs)
      ended(S, x) == [i \in 1 .. Cardinality(S) |-> [NoChange EXCEPT ![x] = <<SetToSeq(S)[i]>>]]
  IN ended(findUnfinishedStorageFolderAdditions(kept), "errAdd")
       \o ended({f \in findUnfinishedStorageFolderExtensions(kept) : Usable(r, f)}, "errExt")

\* A folder whose metadata file is too short to be read becomes unavailable.
Readable(r) == [f \in DOMAIN r.folders |-> [r.folders[f] EXCEPT !.up = @ /\ r.len[f] >= r.folders[f].words]]
UsedSlots(fs) == UNION {{[folder |-> f, index |-> i] : i \in fs[f].usage} : f \in {g \in DOMAIN fs : fs[g].up}}

loadSectorLocations(fs, m) ==
  LET at(id) == {u \in UsedSlots(fs) : m[u.folder][u.index].id = id} IN
  [id \in {x \in Id : at(x) # {}} |->
     LET u == CHOOSE v \in at(id) : TRUE
     IN [folder |-> u.folder, index |-> u.index, count |-> m[u.folder][u.index].count]]

\* newContractManager, from the settings file, the log scs and the contents m of the files.
Load(scs, m) ==
  \E r \in {recoverWAL([folders |-> loadSettings(settings, len), len |-> len, cache |-> m, platter |-> m], scs)} :
    /\ pending' = savedSettings(r.folders)
    /\ folders' = Readable(r)
    /\ loc' = loadSectorLocations(folders', r.cache)
    /\ len' = r.len /\ cache' = r.cache /\ platter' = r.platter
    /\ carried' = <<>> /\ uncommitted' = CleanupEntries(r, scs)
    /\ th' = [t \in Thread |-> Idle] /\ phase' = "idle" /\ stop' = "no"
    /\ ghost' = [ghost EXCEPT !.loc = loc', !.late = {}, !.torn = {}, !.dropped = {},
                   !.failed = {f \in DOMAIN folders' : ~folders'[f].up},
                   !.damaged = @ \/ ghost.torn # {},
                   !.dirs = [f \in {g \in DOMAIN folders' : folders'[g].up} |-> folders'[f].words]]

\* An unclean shutdown, at which every slot written since the last sync keeps either content.
Crash ==
  /\ budget.crashes < MaxCrashes /\ budget' = [budget EXCEPT !.crashes = @ + 1]
  /\ \E kept \in SUBSET {<<f, i>> \in Folder \X Slot : cache[f][i] # platter[f][i]} :
       \E m \in {[f \in Folder |-> [i \in Slot |-> IF <<f, i>> \in kept THEN cache[f][i] ELSE platter[f][i]]]} :
         Load(walFile, m)
  /\ UNCHANGED <<settings, walFile>>

CloseUnsynced ==
  /\ "close" \in Operation /\ stop = "no" /\ walMu /\ budget.ops < MaxOps
  /\ \A t \in Thread : th[t].op = "none"
  /\ stop' = "synced" /\ budget' = [budget EXCEPT !.ops = @ + 1]
  /\ UNCHANGED <<folders, loc, disk, log, phase, th, ghost>>

\* Close waits for the callers, and then for one more commit.
Close ==
  /\ "close" \in Operation /\ stop = "no" /\ walMu /\ budget.ops < MaxOps
  /\ \A t \in Thread : th[t].op = "none"
  /\ stop' = "wait" /\ budget' = [budget EXCEPT !.ops = @ + 1]
  /\ UNCHANGED <<folders, loc, disk, log, phase, th, ghost>>

\* The log is removed, and the contract manager opened again.
Reopen ==
  /\ stop = "synced" /\ walMu
  /\ walFile' = <<>>
  /\ Load(<<>>, cache)
  /\ UNCHANGED <<settings, budget>>

(***************************************************************************)
(* The specification.                                                      *)
(***************************************************************************)
\* A contract manager just opened after a clean shutdown, with sectors in its folders: a layout
\* gives the size of each folder, and the slot and count of each stored sector.
Init ==
  /\ \E layout \in Layouts :
       LET here(f, i) == {x \in DOMAIN layout.loc : layout.loc[x].folder = f /\ layout.loc[x].index = i}
           dirs == {f \in Folder : layout.words[f] > 0}
       IN /\ folders = [f \in dirs |-> [NewFolder(layout.words[f])
                                        EXCEPT !.usage = {i \in Slot : here(f, i) # {}}]]
          /\ loc = layout.loc
          /\ len = [f \in Folder |-> IF f \in dirs THEN layout.words[f] ELSE -1]
          /\ cache = [f \in Folder |-> [i \in Slot |->
                        IF here(f, i) = {} THEN Empty
                        ELSE LET x == CHOOSE y \in here(f, i) : TRUE
                             IN [id |-> x, count |-> layout.loc[x].count, data |-> x]]]
  /\ platter = cache
  /\ settings = savedSettings(folders) /\ pending = settings
  /\ walFile = <<>> /\ carried = <<>> /\ uncommitted = <<>>
  /\ phase = "idle" /\ stop = "no"
  /\ th = [t \in Thread |-> Idle]
  /\ budget = [ops |-> 0, faults |-> 0, crashes |-> 0]
  /\ ghost = [loc |-> loc, dirs |-> [f \in DOMAIN folders |-> folders[f].words], late |-> {}, torn |-> {},
              dropped |-> {}, failed |-> {}, partial |-> FALSE, damaged |-> FALSE]

CallStep(t) ==
  \/ \E id \in Id : AddSector(t, id) \/ AddSectorBatch(t, id) \/ RemoveSector(t, id) \/ DeleteSector(t, id)
  \/ \E f \in Folder, words \in 1 .. MaxWords :
       \/ AddStorageFolder(t, f, words) \/ growStorageFolder(t, f, words)
       \/ \E force \in BOOLEAN : shrinkStorageFolder(t, f, words, force)
  \/ \E f \in Folder, force \in BOOLEAN : RemoveStorageFolder(t, f, force)

ThreadStep(t) ==
  \/ WriteCount(t) \/ FreeSlot(t) \/ PickFolder(t) \/ WriteSector(t) \/ WriteSectorFails(t) \/ LogSector(t)
  \/ Allocate(t) \/ Extend(t) \/ AllocateFails(t) \/ GrowFails(t) \/ LogFolder(t)
  \/ ScanBit(t) \/ ScanWord(t) \/ managedMoveSector(t) \/ EndRelocation(t)

SyncLoop == RenameSettings \/ RenameLog \/ FinishCommit

Next ==
  \/ \E t \in Thread : CallStep(t) \/ ThreadStep(t)
  \/ SyncLoop \/ Crash \/ Close \/ Reopen

Spec == Init /\ [][Next]_vars

(***************************************************************************)
(* Properties.                                                             *)
(***************************************************************************)
Crashes == budget'.crashes > budget.crashes

\* Folders keep sizes and usage within their bounds, and no sector has a count past the limit of
\* virtual sectors or a count of zero, which would stand for no sector.
TypeOK ==
  /\ DOMAIN folders \subseteq Folder
  /\ \A f \in DOMAIN folders : /\ folders[f].words \in 1 .. MaxWords
                              /\ folders[f].usage \subseteq Slots(folders[f].words)
                              /\ DOMAIN folders[f].avail \subseteq Id
  /\ \A id \in DOMAIN loc : loc[id] \in [folder : Folder, index : Slot, count : 1 .. MaxCount]

SlotsIn(f, ids) == {loc[x].index : x \in {y \in ids \cap DOMAIN loc : loc[y].folder = f}}
\* The usage bits of a folder, less the slots in availableSectors, are the slots of the sectors
\* stored in it: no slot is lost when a write fails, a removal ends or the log is replayed, and no
\* sector sits in a slot that another could be given.  Left out are the slots of sectors that a
\* relocation gave up, and a history in which a power loss hit a torn sector.
SlotsOwned ==
  \/ ghost.damaged
  \/ \A f \in {g \in DOMAIN folders : folders[g].up} :
       LET given == SlotsIn(f, ghost.dropped)
       IN (folders[f].usage \ Range(folders[f].avail)) \ given = SlotsIn(f, Id) \ given

\* Every sector that can be found has its own data and metadata where its location says, through
\* concurrent adds, removals and moves, failed writes, power losses and replays.
DataIntact ==
  \/ ghost.damaged
  \/ \A id \in DOMAIN loc \ ghost.dropped :
       Found(id) => /\ cache[loc[id].folder][loc[id].index].data = id
                    /\ cache[loc[id].folder][loc[id].index].id = id

\* The slot of a sector in the committed state is not overwritten before the change that took the
\* sector away is committed: removals wait for the sync before the slot is free, and the folder a
\* relocation moves sectors out of stays locked until the sync.  The exception is a relocation that
\* returned ErrPartialRelocation: it gives the lock back without waiting.
OldSlotsKept == ghost.torn # {} => ghost.partial

\* A relocation that read the whole region and met no error leaves no sector there: no worker picks
\* the folder itself and no caller adds to it.
RelocatedAway ==
  \A t \in Thread :
    /\ th[t].pc = "finish" /\ th[t].op \in Relocation /\ th[t].errs = 0
    /\ th[t].head = folders[th[t].f].words * Granularity
    => InRegion(th[t]) \subseteq ghost.dropped

\* Whose slot was overwritten before their move was committed, and what was written there.
Torn == ghost.torn \cup {cache[ghost.loc[x].folder][ghost.loc[x].index].id : x \in ghost.torn}
\* After a power loss the sectors, their places and their counts are those of the last commit:
\* the synced files, the settings one commit old and the log add up to it, whichever unsynced
\* writes survived.  Left out are torn and given-up sectors, and counts whose write came after the
\* commit that dropped them from the log.
RecoverExact ==
  Crashes => \A id \in Id \ (Torn \cup ghost.dropped \cup ghost.late) :
               IF id \in DOMAIN ghost.loc THEN id \in DOMAIN loc' /\ loc'[id] = ghost.loc[id]
               ELSE id \notin DOMAIN loc'

Neighbours(scs) == Decoded(scs) # scs
\* After a power loss the folders and their sizes are those of the last commit: an unfinished
\* addition or extension is undone, a finished one kept.  Left out are a log with neighbouring
\* entries of one kind, a failed addition that the settings still list, and an addition that takes
\* longer than two commits.
RecoverFolders ==
  Crashes =>
    \/ Neighbours(walFile)
    \/ \A f \in Folder :
         IF f \in DOMAIN ghost.dirs
         THEN f \in DOMAIN folders' /\ folders'[f].up /\ folders'[f].words = ghost.dirs[f]
         ELSE \/ f \notin DOMAIN folders'
              \/ f \in ghost.failed
              \/ \E t \in Thread : th[t].op = "addFolder" /\ th[t].f = f /\ th[t].age > 2

\* A sector operation returns only once the count it leaves is committed, so a power loss after
\* the return does not undo it.
AckedIsCommitted ==
  \A t \in Thread :
    /\ th[t].op \in {"physical", "virtual", "remove", "delete"} /\ th'[t].op = "none"
    /\ budget' = budget /\ th[t].pc # "pick"
    => Count(ghost.loc, th[t].id) = th[t].count

\* Closing and opening again, with the log removed in between, keeps every sector and its count:
\* Close lets one more commit bring the settings file up to date.
ReopenExact ==
  stop = "synced" /\ stop' = "no" /\ ~Crashes
    => \A id \in Id \ ghost.dropped : Count(loc', id) = Count(loc, id)

\* Sectors, usage bits and the files agree through concurrent calls, failed
\* writes and recoveries.
SlotsSound == TypeOK /\ SlotsOwned /\ DataIntact

\* Moving sectors out of a folder is complete, and overwrites nothing that a
\* power loss would bring back.
RelocationSafe == RelocatedAway /\ OldSlotsKept

\* What was acknowledged is durable: it is committed before the call returns, a
\* power loss gives back exactly the last commit, and so does a clean restart.
Durable == [][AckedIsCommitted /\ RecoverExact /\ RecoverFolders /\ ReopenExact]_vars
=============================================================================
