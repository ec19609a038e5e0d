------------------------------- MODULE Storage -------------------------------
(***************************************************************************)
(* The storage engine: the durable store and the compactor running beside  *)
(* each other over one log, one catalogue and one object store, with the   *)
(* clocks that age what they leave behind and the stops they recover from. *)
(***************************************************************************)
EXTENDS DurableStore, Compactor

CONSTANTS
  MaxFiles,   \* bound: files registered before the last merge is started
  StopFiles   \* bound: the same before a stop, and before a merge after it

vars == <<logVars, cat, objects, storeVars, merge, dropped>>

Init == StoreInit /\ CompactorInit

\* The compactor runs while the store serves.
CompactStarts ==
  /\ up = "serving"
  /\ \/ /\ StartMerge
        /\ cat.nextId <= MaxFiles
        /\ stops > 0 => cat.nextId <= StopFiles
     \/ Expire
  /\ UNCHANGED <<logVars, storeVars>>

CompactRuns ==
  /\ up = "serving"
  /\ \E ok \in BOOLEAN :
       /\ IntendOutput(ok) \/ WriteOutput(ok) \/ Publish(ok)
       /\ Spend(ok)
  /\ UNCHANGED <<logVars, up, seq, batch, unflushed, flusher, collector, acked, stops>>

\* A declaration is OrphanGrace old: a day, which no write in progress takes.
PendingAges(path) ==
  /\ path \in DOMAIN cat.pending /\ ~cat.pending[path]
  /\ path \notin FlushPaths
  /\ merge.step \in {"write", "publish"} => path # merge.path
  /\ cat' = [cat EXCEPT !.pending[path] = TRUE]
  /\ UNCHANGED <<logVars, objects, storeVars, merge, dropped>>

Stop ==
  /\ StoreStop
  /\ cat.nextId <= StopFiles + 1
  /\ merge' = NoMerge
  /\ UNCHANGED dropped

Next ==
  \/ StoreNext /\ UNCHANGED <<merge, dropped>>
  \/ CompactStarts \/ CompactRuns
  \/ \E path \in DOMAIN cat.pending : PendingAges(path)
  \/ Stop

Spec == Init /\ [][Next]_vars

\* The server is started again after a stop; every flush cycle, collection and
\* sweep that its timers start runs on to its end (run); and time passes.
Fairness ==
  /\ WF_vars(Boot /\ UNCHANGED <<merge, dropped>>)
  /\ WF_vars((StartFlush \/ FlushStep) /\ UNCHANGED <<merge, dropped>>)
  /\ WF_vars(StartCollect /\ UNCHANGED <<merge, dropped>>)
  /\ WF_vars(StartSweep /\ UNCHANGED <<merge, dropped>>)
  /\ WF_vars(CollectStep /\ UNCHANGED <<merge, dropped>>)
  /\ WF_vars(CompactRuns)
  /\ WF_vars(\E path \in DOMAIN cat.pending : PendingAges(path))
  /\ WF_vars((\E id \in DOMAIN cat.rows : TombstoneAges(id))
             /\ UNCHANGED <<merge, dropped>>)

FairSpec == Spec /\ Fairness

------------------------------------------------------------------------------
(* What the storage engine guarantees. *)

TypeOK ==
  /\ LogTypeOK
  /\ CatalogTypeOK
  /\ up \in {"down", "recovering", "serving"}
  /\ seq \in Nat
  /\ batch \in Seq(Record)
  /\ flusher.step \in {"idle", "next", "intend", "write", "register", "retire"}
  /\ collector.step \in {"idle", "floor", "remove", "forget", "sweep"}
  /\ merge.step \in {"idle", "intend", "write", "publish"}
  /\ acked \subseteq Record /\ dropped \subseteq Record

Paths ==
  {Path(level, r, of) : level \in 0..2, r \in Record, of \in 0..MaxFiles}

LiveRecords == UNION {cat.rows[id].recs : id \in Live(cat)}

\* A record a receiver acknowledged is on disk for good, in a live file or in
\* a segment that will be replayed, until retention drops it (Append, flush,
\* replay and collect together).
NothingAckedIsLost ==
  \A r \in acked :
    \/ r \in LiveRecords
    \/ r \in dropped
    \/ \E s \in DOMAIN segs : r \in HardOf(segs[s])

\* No record is in two live files, so no query counts it twice, whatever was
\* retried, replayed or merged (Replace, persist, collect).
NothingTwice ==
  \A i, j \in Live(cat) : i # j => cat.rows[i].recs \cap cat.rows[j].recs = {}

\* What retention dropped stays dropped: a replay does not bring it back
\* (collect).
NothingComesBack == LiveRecords \cap dropped = {}

\* A file a query may be reading - live, or retired less than a grace period
\* ago - has its object, with the records it was registered with (Register,
\* Intend, collect, sweep).
FilesAreReadable ==
  \A id \in DOMAIN cat.rows :
    ~cat.rows[id].aged =>
      /\ cat.rows[id].path \in DOMAIN objects
      /\ objects[cat.rows[id].path] = cat.rows[id].recs

\* The name of a merge's output is new, even when the output takes the place
\* of a file that starts with the same record: a merge whose name is taken is
\* given up, and would be every time (merge, outputName).
MergeNameIsNew ==
  merge.step \in {"intend", "write"} => ~Registered(cat, merge.path)

\* Every object is accounted for: a row names it, or a declaration that the
\* sweep will act on (Intend).
NoObjectLeaks ==
  \A p \in DOMAIN objects : Registered(cat, p) \/ p \in DOMAIN cat.pending

\* The counters of a stream are the sum over its live files
\* (insertFileTx, retireTx).
RollupsAddUp ==
  \A s \in Streams :
    cat.rollup[s] = RowsIn(cat, Live(cat), s)

\* A new record sorts after every record there is, in the log or in a file
\* (OpenDurable, recover).
SeqIsAhead ==
  up = "serving" =>
    /\ \A s \in DOMAIN segs : \A r \in Held(segs[s]) : r.seq <= seq
    /\ \A id \in DOMAIN cat.rows : \A r \in cat.rows[id].recs : r.seq <= seq

\* A sealed segment in the log that this process will not see again is on the
\* retry list or being flushed (flush, recover).
NoSegmentForgotten ==
  up = "serving" =>
    Sealed \subseteq ToSet(unflushed) \cup ToSet(flusher.left)
                     \cup ToSet(flusher.kept) \cup {flusher.seg}

\* A record a receiver acknowledged is queryable sooner or later, once faults
\* and stops are over: its segment is retried until it goes through (flush,
\* retry, recover).
AckedIsQueryable ==
  \A r \in Record : r \in acked ~> r \in LiveRecords \cup dropped

\* So is every declaration settled, by a registration or by the sweep
\* (Intend, sweep).
DeclarationsSettle ==
  \A p \in Paths : p \in DOMAIN cat.pending ~> p \notin DOMAIN cat.pending

\* And every file that was retired is forgotten, although an L0 row outlives
\* its object for as long as a replay could need it (collect).
TombstonesGo ==
  \A id \in 1..MaxFiles :
    (id \in DOMAIN cat.rows /\ id \notin Live(cat)) ~> id \notin DOMAIN cat.rows
=============================================================================
