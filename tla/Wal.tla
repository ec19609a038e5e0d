--------------------------------- MODULE Wal ---------------------------------
(***************************************************************************)
(* The write-ahead log in detail (internal/wal/wal.go): one Log value, the *)
(* segment files it writes and the directory they are in.  Appends gather  *)
(* in a buffer, a full buffer or a sync writes it out, and a sync fsyncs   *)
(* with only the syncing mutex held, so that appends go on meanwhile.      *)
(* Every call to the operating system may fail, and the process or the     *)
(* machine may stop between any two steps.                                 *)
(*                                                                         *)
(* writeLocked, persist and syncLocked are operators from a state of the   *)
(* log and its disk to the set of states they can leave, with the result   *)
(* they return; the actions choose one.                                    *)
(*                                                                         *)
(* Records are numbered in the order appends are tried.  Frames are        *)
(* counted, not measured: the file header is a frame of its own, Magic.    *)
(***************************************************************************)
EXTENDS Integers, Sequences, FiniteSets, Functions, Maps

CONSTANTS
  BufferFrames,   \* frames the buffer holds (bufferSize)
  MaxRecords,     \* bound: records a behaviour tries to append
  MaxFaults,      \* bound: operating system calls that fail
  MaxStops,       \* bound: times the process or the machine stops
  MaxSegments     \* bound: the highest segment number

ASSUME WalAssumption ==
  /\ BufferFrames \in Nat \ {0}
  /\ MaxRecords \in Nat /\ MaxFaults \in Nat /\ MaxStops \in Nat
  /\ MaxSegments \in Nat \ {0}

Magic == 0
Record == Nat \ {0}
Frame == Nat

VARIABLES
  log,      \* the Log value: see Log below
  disk,     \* the directory and its files: see Disk below
  sync,     \* the Sync in progress, which holds the syncing mutex
  batch,    \* the records Append accepted since the last rotation, in order:
            \* what the store's batch holds
  promised, \* segment -> the records of it some caller was told are on disk
  late,     \* the same, by a Sync of a log that was already closed
  issued, faults, stops   \* counters for the bounds

vars == <<log, disk, sync, batch, promised, late, issued, faults, stops>>

\* active is 0 while no process has the log open.
Log == [active: Nat, closed: BOOLEAN, buffer: Seq(Frame), written: Nat,
        synced: Nat, torn: BOOLEAN, pending: Nat, listed: BOOLEAN]

\* A segment file: the whole frames in it, what follows them (nothing, part
\* of a frame, or damage replay calls corrupt), how many of the frames have
\* been fsynced, and whether its directory entry has.
File == [frames: Seq(Frame), tail: {"clean", "torn", "damaged"}, safe: Nat,
         named: BOOLEAN]

\* Segment files under their numbers.
Files(dir) == DOMAIN dir \subseteq Nat \ {0} /\ dir \in [DOMAIN dir -> File]

\* files is the directory as processes see it, unlinked what was taken out
\* of it since its last fsync, which a power loss can undo.
DiskOK(d) ==
  /\ d = [files |-> d.files, unlinked |-> d.unlinked]
  /\ Files(d.files) /\ Files(d.unlinked)

\* step is the call the Sync is about to make without mu; upTo, listed and
\* covered are its copies of the log's fields, and due the records it covers.
Syncing == [step: {"none", "file", "dir"}, upTo: Nat, listed: BOOLEAN,
            covered: Nat, due: Seq(Record)]

NoSync == [step |-> "none", upTo |-> 0, listed |-> FALSE, covered |-> 0,
           due |-> <<>>]

EmptyFile == [frames |-> <<>>, tail |-> "clean", safe |-> 0, named |-> FALSE]

------------------------------------------------------------------------------
(* The helpers that run with the log's locks held. *)

Result(l, d, ok) == [log |-> l, disk |-> d, ok |-> ok]

\* Mutant of Cut: nothing is ever cut.
CutNothing(l, file) == file

\* The file cut back to what is known to be whole, if the log is torn.
Cut(l, file) ==
  IF l.torn
  THEN [file EXCEPT !.frames = SubSeq(@, 1, l.written), !.tail = "clean"]
  ELSE file

\* Mutant of Tear: the log does not remember.
TearForgotten(l) == l

\* What is left of a write that failed and could not be cut off again.
Tear(l) == [l EXCEPT !.torn = TRUE]

\* Mutant of WriteLocked: a torn log stays torn, as a writer that keeps its
\* first error does.
WriteLockedOnce(l, d) ==
  LET file == d.files[l.active]
  IN  IF l.torn THEN {Result(l, d, FALSE)}
      ELSE {Result([l EXCEPT !.written = @ + Len(l.buffer), !.buffer = <<>>],
                   [d EXCEPT !.files[l.active].frames = @ \o l.buffer], TRUE),
            Result(Tear(l), [d EXCEPT !.files[l.active].tail = "torn"], FALSE)}

\* writeLocked.  A write that fails part way leaves k whole frames and part
\* of the next; that is cut off again, and when the cut fails the log is
\* torn and cuts before it writes anything else.
WriteLocked(l, d) ==
  LET cut    == Cut(l, d.files[l.active])
      whole  == [l EXCEPT !.torn = FALSE]
      Put(f) == [d EXCEPT !.files[l.active] = f]
  IN  (IF l.torn THEN {Result(l, d, FALSE)} ELSE {})
      \cup
      (IF l.buffer = <<>> THEN {Result(whole, Put(cut), TRUE)}
       ELSE {Result([whole EXCEPT !.written = @ + Len(l.buffer),
                                  !.buffer = <<>>],
                    Put([cut EXCEPT !.frames = @ \o l.buffer]), TRUE),
             Result(whole, Put(cut), FALSE)}
            \cup
            {Result(Tear(l),
                    Put([cut EXCEPT !.frames = @ \o SubSeq(l.buffer, 1, k),
                                    !.tail = "torn"]), FALSE) :
               k \in 0 .. Len(l.buffer) - 1})

\* Mutant of Dirty: what a sync that failed had written is forgotten.
DirtyButWritten(l) == l.buffer # <<>> \/ l.torn \/ ~l.listed

Dirty(l) == l.buffer # <<>> \/ l.torn \/ l.written # l.synced \/ ~l.listed

\* file.Sync: what was written up to n frames is on disk.
FileSynced(d, s, n) == [d EXCEPT !.files[s].safe = n]

\* syncDir: every name in the directory is on disk, and every removal.
DirSynced(d) ==
  [files |-> [s \in DOMAIN d.files |-> [d.files[s] EXCEPT !.named = TRUE]],
   unlinked |-> <<>>]

\* Mutant of Persist: the directory is never synced.
PersistData(l, d) ==
  {Result(l, d, FALSE), Result(l, FileSynced(d, l.active, l.written), TRUE)}

\* persist, for a caller that keeps both locks across it.
Persist(l, d) ==
  LET hard == FileSynced(d, l.active, l.written)
  IN  {Result(l, d, FALSE)}
      \cup (IF l.listed THEN {Result(l, hard, TRUE)}
            ELSE {Result(l, hard, FALSE), Result(l, DirSynced(hard), TRUE)})

\* syncLocked.
SyncLocked(l, d) ==
  IF ~Dirty(l) THEN {Result(l, d, TRUE)}
  ELSE LET out == WriteLocked(l, d)
           kept == UNION {Persist(w.log, w.disk) : w \in {x \in out : x.ok}}
       IN  {w \in out : ~w.ok} \cup {p \in kept : ~p.ok}
           \cup {Result([p.log EXCEPT !.synced = p.log.written,
                                      !.listed = TRUE, !.pending = 0],
                        p.disk, TRUE) : p \in {x \in kept : x.ok}}

------------------------------------------------------------------------------
(* The log's operations. *)

IsOpen == log.active # 0 /\ ~log.closed

\* A step that fails uses up one fault.
Spend(ok) ==
  IF ok THEN UNCHANGED faults ELSE faults < MaxFaults /\ faults' = faults + 1

Started(s) ==
  [active |-> s, closed |-> FALSE, buffer |-> <<Magic>>, written |-> 0,
   synced |-> 0, torn |-> FALSE, pending |-> 0, listed |-> FALSE]

NoLog == [Started(0) EXCEPT !.buffer = <<>>]

Init ==
  /\ log = NoLog
  /\ disk = [files |-> <<>>, unlinked |-> <<>>]
  /\ sync = NoSync
  /\ batch = <<>> /\ promised = <<>> /\ late = <<>>
  /\ issued = 0 /\ faults = 0 /\ stops = 0

\* The number after the last segment there is, as the one member of a set.
NextNumber ==
  {n \in {1} \cup {s + 1 : s \in DOMAIN disk.files} :
     \A s \in DOMAIN disk.files : s < n}

Open ==
  /\ log.active = 0
  /\ \E n \in NextNumber :
       /\ n <= MaxSegments
       /\ log' = Started(n)
       /\ disk' = [disk EXCEPT !.files = With(@, n, EmptyFile)]
  /\ batch' = <<>>
  /\ UNCHANGED <<sync, promised, late, issued, faults, stops>>

\* Append: a full buffer goes out first, and one that cannot refuses the
\* record.
AppendRecord ==
  /\ IsOpen
  /\ issued < MaxRecords
  /\ issued' = issued + 1
  /\ LET full == log.buffer # <<>> /\ Len(log.buffer) + 1 > BufferFrames
     IN  \E out \in IF full THEN WriteLocked(log, disk)
                    ELSE {Result(log, disk, TRUE)} :
           /\ Spend(out.ok)
           /\ disk' = out.disk
           /\ IF out.ok
              THEN /\ log' = [out.log EXCEPT !.buffer = Append(@, issued'),
                                             !.pending = @ + 1]
                   /\ batch' = Append(batch, issued')
              ELSE /\ log' = out.log
                   /\ UNCHANGED batch
  /\ UNCHANGED <<sync, promised, late, stops>>

\* Sync, up to the unlock: what it is going to fsync is decided here.
SyncStart ==
  /\ IsOpen
  /\ sync.step = "none"
  /\ Dirty(log)
  /\ \E out \in WriteLocked(log, disk) :
       /\ Spend(out.ok)
       /\ log' = out.log /\ disk' = out.disk
       /\ sync' = IF out.ok
                  THEN [step |-> "file", upTo |-> out.log.written,
                        listed |-> out.log.listed, covered |-> out.log.pending,
                        due |-> batch]
                  ELSE NoSync
  /\ UNCHANGED <<batch, promised, late, issued, stops>>

\* A Sync with nothing to do returns at once, and promises just as much.
SyncClean ==
  /\ IsOpen
  /\ sync.step = "none"
  /\ ~Dirty(log)
  /\ promised' = With(promised, log.active, batch)
  /\ UNCHANGED <<log, disk, sync, batch, late, issued, faults, stops>>

\* A Sync of a closed log returns at once too, with no error.
SyncClosed ==
  /\ log.closed
  /\ sync.step = "none"
  /\ late' = With(late, log.active, batch)
  /\ UNCHANGED <<log, disk, sync, batch, promised, issued, faults, stops>>

\* Mutants of Uncovered: everything counts as synced, or one more than was.
UncoveredNone == 0

UncoveredLess == log.pending - sync.covered - 1

\* What was appended while the sync ran.
Uncovered == log.pending - sync.covered

\* The end of a Sync that succeeded.
SyncDone ==
  /\ log' = [log EXCEPT !.synced = sync.upTo, !.listed = TRUE,
                        !.pending = Uncovered]
  /\ promised' = With(promised, log.active, sync.due)
  /\ sync' = NoSync

\* file.Sync, without mu.
SyncFile(ok) ==
  /\ sync.step = "file"
  /\ Spend(ok)
  /\ disk' = IF ok THEN FileSynced(disk, log.active, sync.upTo) ELSE disk
  /\ IF ~ok
     THEN sync' = NoSync /\ UNCHANGED <<log, promised>>
     ELSE IF sync.listed THEN SyncDone
     ELSE sync' = [sync EXCEPT !.step = "dir"] /\ UNCHANGED <<log, promised>>
  /\ UNCHANGED <<batch, late, issued, stops>>

\* syncDir, without mu: the first sync of a segment only.
SyncDir(ok) ==
  /\ sync.step = "dir"
  /\ Spend(ok)
  /\ disk' = IF ok THEN DirSynced(disk) ELSE disk
  /\ IF ok THEN SyncDone ELSE sync' = NoSync /\ UNCHANGED <<log, promised>>
  /\ UNCHANGED <<batch, late, issued, stops>>

\* Rotate, which holds both locks throughout.  Creating the next file is the
\* last thing that can fail, and nothing is swapped before it succeeded.
Rotate ==
  /\ IsOpen
  /\ sync.step = "none"
  /\ log.active < MaxSegments
  /\ \E out \in SyncLocked(log, disk), created \in BOOLEAN :
       /\ Spend(out.ok /\ created)
       /\ ~out.ok => created
       /\ IF out.ok /\ created
          THEN /\ log' = Started(log.active + 1)
               /\ disk' = [out.disk EXCEPT !.files =
                             With(@, log.active + 1, EmptyFile)]
               /\ promised' = With(promised, log.active, batch)
               /\ batch' = <<>>
          ELSE /\ log' = out.log /\ disk' = out.disk
               /\ UNCHANGED <<promised, batch>>
  /\ UNCHANGED <<sync, late, issued, stops>>

\* Remove, of any segment but the active one.
Remove(s) ==
  /\ log.active \notin {0, s}
  /\ s \in DOMAIN disk.files
  /\ disk' = [files |-> Without(disk.files, s),
              unlinked |-> With(disk.unlinked, s, disk.files[s])]
  /\ promised' = Without(promised, s) /\ late' = Without(late, s)
  /\ UNCHANGED <<log, sync, batch, issued, faults, stops>>

\* Quarantine moves a segment replay found damaged out of the log and syncs
\* both directories; a sync that fails leaves it moved all the same.
Quarantine(s, ok) ==
  /\ log.active \notin {0, s}
  /\ s \in DOMAIN disk.files
  /\ disk.files[s].tail = "damaged"
  /\ Spend(ok)
  /\ LET moved == [files |-> Without(disk.files, s),
                   unlinked |-> With(disk.unlinked, s, disk.files[s])]
     IN  disk' = IF ok THEN DirSynced(moved) ELSE moved
  /\ promised' = Without(promised, s) /\ late' = Without(late, s)
  /\ UNCHANGED <<log, sync, batch, issued, stops>>

\* Close syncs what it can and closes either way.
Close ==
  /\ IsOpen
  /\ sync.step = "none"
  /\ \E out \in SyncLocked(log, disk) :
       /\ Spend(out.ok)
       /\ log' = [out.log EXCEPT !.closed = TRUE]
       /\ disk' = out.disk
       /\ promised' = IF out.ok THEN With(promised, log.active, batch)
                      ELSE promised
  /\ UNCHANGED <<sync, batch, late, issued, stops>>

------------------------------------------------------------------------------
(* Stops. *)

Stopped ==
  /\ log.active # 0
  /\ stops < MaxStops
  /\ stops' = stops + 1
  /\ log' = NoLog /\ sync' = NoSync /\ batch' = <<>>
  /\ UNCHANGED <<late, issued, faults>>

\* The process is killed: the files stay as they were last written.
Kill == Stopped /\ UNCHANGED <<disk, promised>>

\* What a power loss leaves of a file: all of what was fsynced, and of the
\* rest a prefix, followed by nothing, part of a frame, or damage.
Survivors(f) ==
  {f} \cup UNION {{[f EXCEPT !.frames = SubSeq(@, 1, k), !.tail = t] :
                     t \in {"clean", "torn", "damaged"}} :
                    k \in f.safe .. Len(f.frames) - 1}

\* A name that was never synced may be gone with its file, and a file whose
\* removal was not synced may be back.
PowerLoss ==
  /\ Stopped
  /\ \E lost \in SUBSET {s \in DOMAIN disk.files : ~disk.files[s].named},
        back \in SUBSET DOMAIN disk.unlinked :
       LET dir == [s \in (DOMAIN disk.files \ lost) \cup back |->
                     IF s \in back THEN disk.unlinked[s] ELSE disk.files[s]]
       IN  \E left \in [DOMAIN dir -> UNION {Survivors(dir[s]) : s \in DOMAIN dir}] :
             /\ \A s \in DOMAIN dir : left[s] \in Survivors(dir[s])
             /\ disk' = [files |-> left, unlinked |-> <<>>]
  /\ UNCHANGED promised

Next ==
  \/ Open \/ AppendRecord \/ SyncStart \/ SyncClean \/ SyncClosed \/ Rotate \/ Close
  \/ \E ok \in BOOLEAN : SyncFile(ok) \/ SyncDir(ok)
  \/ \E s \in DOMAIN disk.files :
       Remove(s) \/ \E ok \in BOOLEAN : Quarantine(s, ok)
  \/ Kill \/ PowerLoss

Spec == Init /\ [][Next]_vars

\* The store syncs on a timer for as long as it runs (logstore.run), and the
\* two system calls of a sync return.
FairSpec ==
  /\ Spec
  /\ WF_vars(SyncStart \/ SyncClean)
  /\ WF_vars(SyncFile(TRUE)) /\ WF_vars(SyncDir(TRUE))

------------------------------------------------------------------------------
(* What the log guarantees. *)

TypeOK ==
  /\ log \in Log
  /\ log.active # 0 => log.active \in DOMAIN disk.files
  /\ DiskOK(disk)
  /\ sync \in Syncing
  /\ batch \in Seq(Record)
  /\ promised \in [DOMAIN promised -> Seq(Record)]
  /\ late \in [DOMAIN late -> Seq(Record)]
  /\ issued \in Nat /\ faults \in Nat /\ stops \in Nat

\* The segment, with the buffer behind what is written of it, holds exactly
\* the records the store's batch holds, in order: what a failed write left
\* behind is never written over and no accepted frame is skipped or repeated
\* (Append and writeLocked).
SegmentHoldsBatch ==
  log.active # 0 =>
    SubSeq(disk.files[log.active].frames, 1, log.written) \o log.buffer
      = <<Magic>> \o batch

\* A record a successful Sync or Rotate covered is in a segment whose name
\* and whose frames up to it are on disk: no stop can take it (Sync).
OnDisk(told) ==
  \A s \in DOMAIN told :
    told[s] # <<>> =>
      /\ s \in DOMAIN disk.files
      /\ disk.files[s].named
      /\ disk.files[s].safe >= Len(told[s]) + 1
      /\ SubSeq(disk.files[s].frames, 1, Len(told[s]) + 1) = <<Magic>> \o told[s]

PromisedIsSafe == OnDisk(promised)

\* The same of a Sync that came after Close, which the comment on Sync
\* promises no less.
LatePromiseIsSafe == OnDisk(late)

\* A rotation seals a segment that holds the batch, whole and nothing behind
\* it, with every frame and the name on disk: the store pairs the two (Rotate).
RotationSealsBatch ==
  [][log.active # 0 /\ log'.active = log.active + 1 =>
       disk'.files[log.active] =
         [frames |-> <<Magic>> \o batch, tail |-> "clean",
          safe |-> Len(batch) + 1, named |-> TRUE]]_vars

\* Pending is exactly the records the last completed sync did not cover,
\* however many were appended while it ran (Pending, Sync).
PendingCounts ==
  log.active # 0 =>
    log.pending = Len(batch) - (IF log.synced = 0 THEN 0 ELSE log.synced - 1)

\* The file ends in part of a frame only while the log knows to cut it off
\* before it writes again (writeLocked).
TearIsKnown ==
  log.active # 0 /\ disk.files[log.active].tail # "clean" => log.torn

\* With disk faults over, a record accepted and not yet promised is promised
\* sooner or later, unless the log is closed or stops first: a full disk does
\* not fail every sync from then on (writeLocked).
Owed(r) ==
  /\ IsOpen
  /\ r \in Range(batch)
  /\ ~ (log.active \in DOMAIN promised /\ r \in Range(promised[log.active]))

AcceptedIsPromised == \A r \in 1..MaxRecords : []<>~Owed(r)

------------------------------------------------------------------------------
(* The detailed log implements RecordLog. *)

\* The records of a segment as the store sees it: those of the batch for the
\* active one, and what a replay returns for any other.
Readable(s) ==
  LET frames == IF s = log.active
                THEN SubSeq(disk.files[s].frames, 1, log.written) \o log.buffer
                ELSE disk.files[s].frames
  IN  IF frames = <<>> THEN <<>> ELSE Tail(frames)

Abstracted(f, recs) ==
  [recs |-> recs,
   hard |-> IF f.named /\ f.safe > 0 THEN f.safe - 1 ELSE 0,
   damaged |-> f.tail = "damaged"]

\* The segments of the directory, and those a power loss may bring back.
Segs == [s \in DOMAIN disk.files |-> Abstracted(disk.files[s], Readable(s))]

Removed ==
  [s \in DOMAIN disk.unlinked |->
     Abstracted(disk.unlinked[s], IF disk.unlinked[s].frames = <<>> THEN <<>>
                                  ELSE Tail(disk.unlinked[s].frames))]

Promise == INSTANCE RecordLog WITH
  Record <- 1..MaxRecords, active <- log.active, segs <- Segs, removed <- Removed

ImplementsRecordLog == Promise!LogSpec
=============================================================================
