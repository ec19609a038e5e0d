----------------------------- MODULE DurableStore ----------------------------
(***************************************************************************)
(* The durable store (internal/logstore/durable.go) on its log and its     *)
(* catalogue: ingest, the flush cycle with its retry list, recovery at     *)
(* boot, garbage collection of tombstoned files and the sweep of writes    *)
(* that never finished.  The log is the one RecordLog promises.            *)
(*                                                                         *)
(* The flusher is whoever holds the flushing mutex: the timer, a size      *)
(* trigger, or the boot, which runs recovery before anything else.  The    *)
(* collector and the sweep run on the store's own goroutine.  Ingest       *)
(* interleaves with all of them.  Any call to the disk or the catalogue    *)
(* may fail, and the process may stop between any two steps.               *)
(***************************************************************************)
EXTENDS RecordLog, Catalog, Sorting, SequencesExt

CONSTANTS
  MaxFaults,        \* bound: calls that fail
  MaxStops,         \* bound: times the process or the machine stops
  UnreadableSegs    \* whether reading a segment back may fail

VARIABLES
  up,         \* "down", "recovering" or "serving"
  seq,        \* the last sequence number given out
  batch,      \* the records appended since the last rotation, in order
  unflushed,  \* segments whose batch could not be persisted, oldest first
  flusher,    \* the flush cycle or recovery in progress
  collector,  \* the collection or sweep in progress
  acked,      \* records whose sync was waited for and returned
  faults, stops

storeVars == <<up, seq, batch, unflushed, flusher, collector, acked,
               faults, stops>>

\* What a flush does with one sealed segment: left are the segments of the
\* retry list still to visit, kept those that failed again; seg and recs the
\* segment at hand and its records; todo the objects still to write.
NoFlush == [step |-> "idle", left |-> <<>>, kept |-> <<>>, seg |-> 0,
            recs |-> <<>>, todo |-> <<>>, failed |-> FALSE, live |-> FALSE]

NoCollection == [step |-> "idle", files |-> {}, floor |-> 0, bounded |-> FALSE,
                 current |-> 0]

\* A step that fails uses up one fault.
Spend(ok) ==
  IF ok THEN UNCHANGED faults ELSE faults < MaxFaults /\ faults' = faults + 1

StoreInit ==
  /\ LogInit
  /\ cat = EmptyCatalog /\ objects = <<>>
  /\ up = "down" /\ seq = 0 /\ batch = <<>> /\ unflushed = <<>>
  /\ flusher = NoFlush /\ collector = NoCollection
  /\ acked = {} /\ faults = 0 /\ stops = 0

------------------------------------------------------------------------------
(* Boot and ingest. *)

\* Mutant of FirstSeq: the sequence starts over.
FirstSeqAnew == 0

\* What the sequence of a new process starts from.
FirstSeq == cat.maxSeq

InOrder(S) == SortedBy(S, [n \in S |-> n])

\* OpenDurable, up to recovery: a fresh segment, the sequence the catalogue
\* knows of, and every other segment to replay.
Boot ==
  /\ up = "down"
  /\ LogOpen
  /\ up' = "recovering"
  /\ seq' = FirstSeq
  /\ flusher' = [NoFlush EXCEPT !.step = "next", !.left = InOrder(DOMAIN segs)]
  /\ UNCHANGED <<cat, objects, batch, unflushed, collector, acked, faults, stops>>

\* Append: the log first; a log that refuses the record has used its number.
AppendRecord(r) ==
  /\ up = "serving"
  /\ r.seq = seq + 1
  /\ seq' = seq + 1
  /\ \/ LogAppend(r) /\ batch' = Append(batch, r) /\ UNCHANGED faults
     \/ Spend(FALSE) /\ UNCHANGED <<logVars, batch>>
  /\ UNCHANGED <<cat, objects, up, unflushed, flusher, collector, acked, stops>>

\* Sync, called by a receiver that acknowledges what it appended: all of the
\* active segment is on disk when it returns, as those sealed before it are.
SyncAndAck ==
  /\ up = "serving"
  /\ LogSync
  /\ segs'[active].hard = Len(segs[active].recs)
  /\ acked' = acked \cup Held(segs[active]) \cup UNION {HardOf(segs[s]) : s \in Sealed}
  /\ UNCHANGED <<cat, objects, up, seq, batch, unflushed, flusher, collector,
                 faults, stops>>

------------------------------------------------------------------------------
(* The flush cycle. *)

\* Mutant of DueForFlush: the retry list waits for new records.
DueForFlushNew == batch # <<>>

DueForFlush == unflushed # <<>> \/ batch # <<>>

\* Flush takes the lock and starts with the retry list.
StartFlush ==
  /\ up = "serving"
  /\ flusher.step = "idle"
  /\ DueForFlush
  /\ flusher' = [NoFlush EXCEPT !.step = "next", !.left = unflushed]
  /\ UNCHANGED <<logVars, cat, objects, up, seq, batch, unflushed, collector,
                 acked, faults, stops>>

\* Mutant of Settle: a segment that failed is left to the next boot.
SettleForgets(ok) ==
  /\ flusher' = IF flusher.live THEN NoFlush
                ELSE [NoFlush EXCEPT !.step = "next", !.left = flusher.left]
  /\ UNCHANGED unflushed

\* The segment at hand is settled, or goes (back) on the retry list.
Settle(ok) ==
  IF flusher.live
  THEN /\ flusher' = NoFlush
       /\ unflushed' = IF ok THEN unflushed ELSE Append(unflushed, flusher.seg)
  ELSE /\ flusher' = [NoFlush EXCEPT
            !.step = "next", !.left = flusher.left,
            !.kept = IF ok THEN flusher.kept ELSE Append(flusher.kept, flusher.seg)]
       /\ UNCHANGED unflushed

\* replay, as far as reading the next segment of the list: all of it, or a
\* prefix when the read fails, or nothing when the file is not there.  At boot
\* the sequence moves past every record that was read.
ReadSegment ==
  /\ flusher.step = "next"
  /\ flusher.left # <<>>
  /\ LET s == Head(flusher.left)
         next == [flusher EXCEPT !.left = Tail(@), !.seg = s]
         again == [flusher EXCEPT !.left = Tail(@), !.kept = Append(@, s)]
         Seen(recs) == IF up = "recovering"
                       THEN Max({seq} \cup {r.seq : r \in ToSet(recs)}) ELSE seq
     IN  \/ /\ s \in DOMAIN segs
            /\ flusher' = IF segs[s].recs = <<>>
                          THEN [next EXCEPT !.step = "retire"]
                          ELSE [next EXCEPT !.step = "intend", !.recs = segs[s].recs]
            /\ seq' = Seen(segs[s].recs)
            /\ UNCHANGED faults
         \/ /\ s \in DOMAIN segs /\ UnreadableSegs
            /\ Spend(FALSE)
            /\ flusher' = again
            /\ \E n \in 0 .. Len(segs[s].recs) : seq' = Seen(SubSeq(segs[s].recs, 1, n))
         \/ /\ s \notin DOMAIN segs
            /\ flusher' = again
            /\ UNCHANGED <<seq, faults>>
  /\ UNCHANGED <<logVars, cat, objects, up, batch, unflushed, collector, acked,
                 stops>>

\* The end of recovery: what could not be replayed is left to the flushes.
Recovered ==
  /\ up = "recovering"
  /\ flusher.step = "next" /\ flusher.left = <<>>
  /\ up' = "serving"
  /\ unflushed' = flusher.kept
  /\ flusher' = NoFlush
  /\ UNCHANGED <<logVars, cat, objects, seq, batch, collector, acked, faults, stops>>

\* The end of the retries, and seal: the rotation and the swap of the batch
\* are one step for ingest, which waits for them.
Seal ==
  /\ up = "serving"
  /\ flusher.step = "next" /\ flusher.left = <<>>
  /\ unflushed' = flusher.kept
  /\ \/ /\ batch = <<>>
        /\ flusher' = NoFlush
        /\ UNCHANGED <<logVars, batch, faults>>
     \/ /\ batch # <<>>
        /\ LogRotate
        /\ flusher' = [NoFlush EXCEPT !.step = "intend", !.seg = active,
                                      !.recs = batch, !.live = TRUE]
        /\ batch' = <<>>
        /\ UNCHANGED faults
     \/ /\ batch # <<>>
        /\ Spend(FALSE)
        /\ flusher' = NoFlush
        /\ UNCHANGED <<logVars, batch>>
  /\ UNCHANGED <<cat, objects, up, seq, collector, acked, stops>>

\* The records of one stream, and the name of their object: objectName of
\* the first of them.
OfStream(recs, stream) == {r \in ToSet(recs) : r.stream = stream}

ObjectName(recs, stream) ==
  Path(0, recs[Min({i \in DOMAIN recs : recs[i].stream = stream})], 0)

Names(recs) == {ObjectName(recs, s) : s \in {r.stream : r \in ToSet(recs)}}

\* Stream by stream.
Ordered(paths) == SortedBy(paths, [p \in paths |-> p.stream])

\* persist declares every object it is about to write; those registered
\* already are not written again, the others in the order of their streams.
IntendObjects(ok) ==
  /\ flusher.step = "intend"
  /\ Spend(ok)
  /\ IF ok
     THEN /\ cat' = Intend(cat, Names(flusher.recs))
          /\ flusher' = [flusher EXCEPT
               !.step = "write",
               !.todo = Ordered({p \in Names(flusher.recs) : ~Registered(cat, p)})]
          /\ UNCHANGED unflushed
     ELSE Settle(FALSE) /\ UNCHANGED cat
  /\ UNCHANGED <<logVars, objects, up, seq, batch, collector, acked, stops>>

\* write: the object first.  A commit that fails may have published it.
WriteObject(ok) ==
  /\ flusher.step = "write" /\ flusher.todo # <<>>
  /\ Spend(ok)
  /\ LET path == Head(flusher.todo)
         put  == With(objects, path, OfStream(flusher.recs, path.stream))
     IN  objects' \in IF ok THEN {put} ELSE {put, objects}
  /\ flusher' = IF ok THEN [flusher EXCEPT !.step = "register"]
                ELSE [flusher EXCEPT !.todo = Tail(@), !.failed = TRUE]
  /\ UNCHANGED <<logVars, cat, up, seq, batch, unflushed, collector, acked, stops>>

\* write: then its row.  A failure does not stop the other streams.
RegisterObject(ok) ==
  /\ flusher.step = "register"
  /\ Spend(ok)
  /\ LET path == Head(flusher.todo)
     IN  cat' = IF ok
                THEN Register(cat, path, OfStream(flusher.recs, path.stream))
                ELSE cat
  /\ flusher' = [flusher EXCEPT !.step = "write", !.todo = Tail(@),
                                !.failed = @ \/ ~ok]
  /\ UNCHANGED <<logVars, objects, up, seq, batch, unflushed, collector, acked, stops>>

\* Mutant of PersistFailed: a stream that failed does not count.
PersistFailedNever == FALSE

PersistFailed == flusher.failed

\* The end of persist.
Persisted ==
  /\ flusher.step = "write" /\ flusher.todo = <<>>
  /\ IF PersistFailed THEN Settle(FALSE)
     ELSE flusher' = [flusher EXCEPT !.step = "retire"] /\ UNCHANGED unflushed
  /\ UNCHANGED <<logVars, cat, objects, up, seq, batch, collector, acked, faults, stops>>

\* The segment is redundant now: removed, or quarantined if it was damaged.
\* A quarantine whose directory sync fails has moved the segment all the same.
RetireSegment(ok) ==
  /\ flusher.step = "retire"
  /\ Spend(ok)
  /\ LET s == flusher.seg
     IN  IF segs[s].damaged
         THEN IF ok THEN LogQuarantine(s) ELSE LogRemove(s) \/ UNCHANGED logVars
         ELSE IF ok THEN LogRemove(s) ELSE UNCHANGED logVars
  /\ Settle(ok)
  /\ UNCHANGED <<cat, objects, up, seq, batch, collector, acked, stops>>

------------------------------------------------------------------------------
(* Garbage collection. *)

\* collect: the files first, the floor second.
StartCollect ==
  /\ up = "serving"
  /\ collector.step = "idle"
  /\ Collectable(cat) # {}
  /\ collector' = [NoCollection EXCEPT !.step = "floor", !.files = Collectable(cat)]
  /\ UNCHANGED <<logVars, cat, objects, up, seq, batch, unflushed, flusher,
                 acked, faults, stops>>

\* A floor that cannot be read, or that a damaged segment hides, keeps every
\* L0 row.
ReadFloor(ok) ==
  /\ collector.step = "floor"
  /\ Spend(ok)
  /\ LET known == ok /\ ~FloorHidden
     IN  collector' = [collector EXCEPT
           !.step = "remove",
           !.bounded = ~known \/ FloorRecords # {},
           !.floor = IF known /\ FloorRecords # {}
                     THEN (CHOOSE r \in FloorRecords : TRUE).seq ELSE 0]
  /\ UNCHANGED <<logVars, cat, objects, up, seq, batch, unflushed, flusher,
                 acked, stops>>

\* Mutants of ReplayMayNeed: always for the first level, or never.
ReplayMayNeedL0(row) == row.level = 0

ReplayMayNeedNone(row) == FALSE

\* A replay of some segment on disk could look for this file.
ReplayMayNeed(row) ==
  /\ row.level = 0
  /\ collector.bounded
  /\ LastSeq(row.recs) >= collector.floor

\* Each file: its object goes, and its row too unless a replay may need it.
CollectObject(id, ok) ==
  /\ collector.step = "remove" /\ id \in collector.files
  /\ Spend(ok)
  /\ LET row == cat.rows[id]
     IN  /\ objects' = IF ok THEN Without(objects, row.path) ELSE objects
         /\ collector' =
              IF ok /\ ~ReplayMayNeed(row)
              THEN [collector EXCEPT !.step = "forget", !.current = id,
                                     !.files = @ \ {id}]
              ELSE [collector EXCEPT !.files = @ \ {id}]
  /\ UNCHANGED <<logVars, cat, up, seq, batch, unflushed, flusher, acked, stops>>

\* The file system keeps its changes in order, so the commit of this one makes
\* every unlink before it final.
ForgetRow(ok) ==
  /\ collector.step = "forget"
  /\ Spend(ok)
  /\ removed' = IF ok THEN <<>> ELSE removed
  /\ cat' = IF ok THEN Forget(cat, collector.current) ELSE cat
  /\ collector' = [collector EXCEPT !.step = "remove", !.current = 0]
  /\ UNCHANGED <<segs, active, objects, up, seq, batch, unflushed, flusher, acked, stops>>

EndCollect ==
  /\ collector.step \in {"remove", "sweep"} /\ collector.files = {}
  /\ collector' = NoCollection
  /\ UNCHANGED <<logVars, cat, objects, up, seq, batch, unflushed, flusher,
                 acked, faults, stops>>

\* sweep: the declarations that look abandoned are listed first.
StartSweep ==
  /\ up = "serving"
  /\ collector.step = "idle"
  /\ Abandoned(cat) # {}
  /\ collector' = [NoCollection EXCEPT !.step = "sweep", !.files = Abandoned(cat)]
  /\ UNCHANGED <<logVars, cat, objects, up, seq, batch, unflushed, flusher,
                 acked, faults, stops>>

\* Mutant of StillAbandoned: the list is believed.
StillAbandonedListed(path) == TRUE

\* A declaration made again since it was listed is left alone.
StillAbandoned(path) == path \in Abandoned(cat)

\* Then each is settled: the object is deleted inside the transaction that
\* drops the declaration, which may itself fail.
SweepPath(path, ok) ==
  /\ collector.step = "sweep" /\ path \in collector.files
  /\ collector' = [collector EXCEPT !.files = @ \ {path}]
  /\ Spend(ok)
  /\ IF StillAbandoned(path)
     THEN /\ objects' \in IF Registered(cat, path) THEN {objects}
                         ELSE IF ok THEN {Without(objects, path)}
                         ELSE {objects, Without(objects, path)}
          /\ cat' = IF ok THEN Discard(cat, path) ELSE cat
     ELSE UNCHANGED <<cat, objects>>
  /\ UNCHANGED <<logVars, up, seq, batch, unflushed, flusher, acked, stops>>

------------------------------------------------------------------------------
(* Time. *)

\* Paths a flush has declared and not settled yet.
FlushPaths == ToSet(flusher.todo)

\* A tombstone's grace period is over, and the kernel has written back every
\* unlink there was in the meantime.
TombstoneAges(id) ==
  /\ id \in DOMAIN cat.rows
  /\ cat.rows[id].state = "tombstoned" /\ ~cat.rows[id].aged
  /\ cat' = [cat EXCEPT !.rows[id].aged = TRUE]
  /\ removed' = <<>>
  /\ UNCHANGED <<segs, active, objects, storeVars>>

------------------------------------------------------------------------------

StoreStop ==
  /\ up # "down"
  /\ stops < MaxStops
  /\ stops' = stops + 1
  /\ LogKill \/ LogPowerLoss
  /\ up' = "down" /\ seq' = 0 /\ batch' = <<>> /\ unflushed' = <<>>
  /\ flusher' = NoFlush /\ collector' = NoCollection
  /\ UNCHANGED <<cat, objects, acked, faults>>

FlushStep ==
  \/ ReadSegment \/ Recovered \/ Seal \/ Persisted
  \/ \E ok \in BOOLEAN :
       IntendObjects(ok) \/ WriteObject(ok) \/ RegisterObject(ok) \/ RetireSegment(ok)

CollectStep ==
  \/ EndCollect
  \/ \E ok \in BOOLEAN :
       \/ ReadFloor(ok) \/ ForgetRow(ok)
       \/ \E file \in collector.files : CollectObject(file, ok) \/ SweepPath(file, ok)

StoreNext ==
  \/ Boot \/ SyncAndAck \/ StartFlush \/ StartCollect \/ StartSweep
  \/ \E r \in Record : AppendRecord(r)
  \/ FlushStep \/ CollectStep
  \/ \E id \in DOMAIN cat.rows : TombstoneAges(id)
=============================================================================
