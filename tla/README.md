# Formal model of rtail

rtail is a log server: it takes log records over HTTP, syslog and UDP, numbers
them, keeps them in a write-ahead log, flushes them in batches to Parquet files
that a SQLite catalogue describes, compacts and expires those files in the
background, and answers searches and live tails.  This directory holds TLA+
models of its storage engine, live tails, queries, receivers and the server process,
the TLC runs that check them, and TLAPS proofs.  Paths below are relative to `src/`.

## 1. Inventory

| Part | State | Operations | Talks to | What is hard | What makes it correct |
|---|---|---|---|---|---|
| Write-ahead log, `internal/wal/wal.go` | buffer, written and synced offsets, torn flag, pending count, active segment; the segment files | Open, Append, Sync, Rotate, Remove, Quarantine, Replay, Floor, Close | the file system; the durable store above | fsync with only one of two mutexes held; partial writes; directory entries that are not durable; power loss | what Sync or Rotate promised is on disk; a segment holds exactly the batch; the log recovers from a failed write |
| Durable store, `internal/logstore/durable.go` | sequence number, batch, retry list, back-off, backlog ring | Append, Sync, flush (retry, seal, persist), recover, collect, sweep, Close | log, catalogue, objects, fan-out | flushes against ingest; a crash between any two steps; retries of what was half done; rows a replay may still need | nothing acknowledged is lost, nothing is stored twice, what retention dropped stays gone, every segment is retried |
| Catalogue, `internal/catalog` | rows of files, declared writes, rollups, the highest sequence seen | Register, Replace, Tombstone, Intend, Discard, Forget, Collectable, Abandoned, Prune | SQLite; store, compactor, queries | counters updated in place; a path registered again | transactions are whole, rollups add up |
| Compactor, `internal/compact` | none of its own besides a merge in progress | expire, merge L0 to L1 to L2, rewrite L2 for retention | catalogue, objects | a publish that fails behind a written output; names that must be stable across a retry and yet new | an output never overwrites a file, a merge loses or repeats nothing |
| Object store, `internal/storage` | files under the data directory | Create, Commit, Remove, Sweep, Open | the file system | directory entries of directories just made; temporary files | a committed object is whole and durable |
| Live fan-out, `internal/logstore/logstore.go`, and tail, `internal/api/sse.go` | subscribers with bounded queues, dropped counts | Subscribe, publish, close | store, browser | slow readers; backlog against live records | a tail shows each record once, or says what it dropped |
| Query engine, `internal/query` | permits; the plan and cursor of each request | Plan, Search, Histogram, FieldValues, SQL, FieldCounts, restoreFields | catalogue, objects | permits on error paths; a plan older than the files it names; pages over files that change | permits come back; the pages of a search partition its window; nothing is silently short |
| Query language, `internal/rql`, and resolver, `internal/query/resolve.go` | none | Parse, ToPredicate, ToSQL, Resolve | query engine, live tail | two evaluators of one language; files with different columns | history selects what the live predicate would have |
| Parquet files, `internal/parquetio` | none | BuildSchema, Write, Read | store, compactor, engine | keys that collide, change kind, or are too many | a row answers as its line did |
| Ingest, `internal/ingest` | connection slots, the progress of an upload | Lines, OTLP, syslog over TCP and UDP, UDP | store | acknowledgement after a sync; retry from an offset; slots that leak | what is acknowledged is on disk; connections are served |
| Server process, `cmd/rtail-server` | the signal context | start, shutdown | all of these | order of shutdown; early returns | it ends, and leaves nothing behind |
| Client, `internal/client` | connection | redial, send, close | UDP ingest | a closer and a dialler of one connection | not modelled, see section 7 |
| normalize, auth, config, web application, packaging | | | | | not modelled, see section 7 |

## 2. Modules

```
Records, Maps, Sorting   what a record is; finite maps; a set as a sorted sequence
RecordLog                what the log promises (abstract)
  ^ implemented by
Wal                      the log in detail           <- MCWal, Wal_proofs
Catalog                  catalogue and objects
DurableStore             EXTENDS RecordLog, Catalog
Compactor                EXTENDS Catalog
Storage                  EXTENDS DurableStore, Compactor   <- MCStorage, Storage_proofs
LocalStore               objects on a local disk     <- MCLocalStore, LocalStore_proofs
LiveTail                 backlog, fan-out and tails  <- MCLiveTail, LiveTail_proofs
Search                   plans, permits and pages    <- MCSearch, Search_proofs
Server                   receivers and the process   <- MCServer, Server_proofs
Columns                  values, and the columns of a file
Language                 EXTENDS Columns: predicate, resolver and SQL
History                  EXTENDS Language: files over time <- MCHistory, History_proofs
Sets_proofs              lemmas about the sets and sequences the models are built from
```

`Wal` models the log call by call.  `log` is the Go `Log` value, `disk` the
directory as processes see it with, for each file, how much of it and whether
its name would survive a power loss; `sync` is a `Sync` that has released `mu`
and is about to call `file.Sync` or `syncDir`.  `batch` is what the store has
had accepted since the last rotation, and `promised` a history variable: what
callers were told is on disk.  The helpers `writeLocked`, `persist` and
`syncLocked` are operators that return every outcome they can have (success, or
a failure at each system call with the state it leaves), and the actions choose
one, so `Rotate` and `Close`, which hold both locks across all of it, stay single
steps while `Sync` is three.  Offsets are counted in frames, the file header
being the frame `Magic`.

`RecordLog` is the same log as its user sees it: segments of records, a durable
prefix of each, and what a stop may leave.  `Wal!ImplementsRecordLog` is the
refinement.  A quarantine that fails after its rename is `LogRemove` there.

`Catalog` has the catalogue as one value `cat`, and each SQL transaction as an
operator from catalogue to catalogue (one connection serialises them).  A row
carries the records its file holds; their counts and ranges are what the real
row has.  `objects` maps a path to the records in the object.

`DurableStore` composes the two.  The flusher is a small process
(`flusher.step`): `next` reads a segment of the retry list or ends the retries
and seals, `intend` declares, `write` and `register` go through the streams in
order, `retire` removes or quarantines the segment.  At boot the same process
runs recovery.  The collector works through a list it read earlier.  Ingest
(`AppendRecord`, `SyncAndAck`) interleaves with every step.  `seal` and
`replay`'s read are single steps: the code holds the ingest lock across the
first, and nothing else touches a sealed segment during the second.

`Compactor` is one merge at a time, in four steps; the part of the merged records
retention drops is any part.  `Storage` runs both together and adds time
(`TombstoneAges`, `PendingAges`) and stops.

`LocalStore` goes below the map of objects the others use: the directories on the
way to an object, which `Create` makes and syncs one system call at a time while
another writer does the same, and the rename and the sync behind it in `Commit`.
For every directory and object it has whether its entry would survive a power
loss; `writer[w].missing` is the list `mkdirAll` calls `created`.

`LiveTail` is the other thing an append does.  `AppendRecord` is `Append` up to
where it gives up `mu`: the number, the ring, and which events (`pending`) it has
yet to publish, still holding the ingest lock; `Publish` is one of these events
reaching every subscription, under the fan-out's lock.  A tail handler subscribes,
sends the streams, sends the backlog, and loops, each a step; `conn[c]` has where
it is, its queue, and what its client has on the screen.  The initial states are
what `loadBacklog` makes of any records in any files.  The model is of the durable store;
the memory store does the same with no files at boot.

`Search` is the query engine from the request to the permit it gives back.  Each
request plans in one step (`Prune` and the columns are reads of one catalogue),
waits, and runs one statement at a time; `client[c]` has what the handler's
variables hold, and `holds` the permits it has.  What `query` and `done` give back
is `GivesBack`, so that no path gives back a permit unless it goes through it.
Searches restore fields file by file; field counts fall back to a statement for
each field.  `Flush`, `Merge` and `Collect` are all a query sees of the storage
engine; a record may arrive with any time up to now.

`Server` is the receivers and `run`, over a store reduced to what `Wal` and
`DurableStore` say of it: a tail nothing has synced, and what is on disk.  One
shipper sends a body by `Lines` or by `OTLP`, resumes where it was told, and sends
again what it was not told about; blank lines, and OTLP records refused for their size,
are taken with nothing to store.  `process.phase` goes through the deferred calls of
`run` in their order, while handlers that `Shutdown` gave up on, the compactor and
connections still run; after a server failed, requests still arrive as well.  The
store's `Close` goes on whatever fails in it (`Closing`), and the error it ends with is
`process.failed`, which nobody reads.

`Columns` and `Language` are operators: the columns a batch of records gets, with
their names and kinds, what is stored and read back of a value, and the three
ways a comparison is answered (of a live record, of a column, of a raw line).  A line
that is not JSON, such as syslog's, has promoted fields and no path into it: `rawPath`
reads NULL there.
They are checked through `History`, which makes the files a query meets by
flushing, merging (columns are worked out anew from the rows read back) and
retention, and asks every comparison of every field over every subset of the
live files at every state.

## 3. What the runs check

| Run | Shows |
|---|---|
| `wal_safety` | the log: segment and batch agree, promises hold, pending is exact, a torn file is known, a rotation seals exactly the batch; every step is a step of `RecordLog`, and once faults end every accepted record reaches the disk |
| `storage_safety` | ingest on two streams, flush, retry, recovery, merges, collection and sweep, one fault and one stop: no loss, no duplicate, sequence ahead, every file readable, no leaked object, rollups add up |
| `storage_retention` | what retention dropped is not brought back by a replay, and names at the last level stay distinct, under clustering too |
| `storage_live` | a segment that cannot be read at boot is not forgotten; acknowledged records become queryable, declarations are settled, retired files are forgotten |
| `local_store` | objects on a disk are whole; a power loss takes a committed one only with a directory whose maker failed, was killed or is still at it |
| `live_tail` | the backlog is the newest records after a restart as before it; a tail shows each record once and in order, counts what it skips; it settles, and ends when the store closes |
| `search` | permits come back from every path; the pages of a search, put together, are in order, repeat nothing and miss nothing retention did not drop; a request fails only for a cause; each one ends |
| `server` | what a shipper was told is accepted is on disk, but for what a log closed without it vouched for, and stored twice only where the code says it may be; a store whose `Close` returns no error leaves nothing unsynced, and takes nothing more; connections get a slot; a signal and an early return end the process |
| `history` | over any of the files, history selects the rows whose lines the live predicate would have, but for the four exceptions of section 5; a retention rewrite is done once, and promises no more than was done |
| `wal_after_close`, `storage_seq_reuse`, `local_store_durable` | the findings of section 6 |

`PROJECT.json` lists the hazards each property is for, the lines each definition
models, and for each property a plausible bug ("Mutant of ..." in the modules)
that breaks it.

### Bounds

* `Wal`: three records against a buffer of two frames, so the buffer fills, is
  written out by an append, and is refilled while a sync runs; two failing calls,
  so that a write and the truncate behind it, or a sync and the retry of it, both
  fail; three segments; one stop.  `MaxRecords` counts attempts.  The
  proofs have none of these bounds in their way.
* `Storage`: two records on one or two streams, one fault, one stop (two
  where a second boot is the question), up to four files.  Two records are two
  segments, or two streams of one batch, or two files to merge.  A merge needs two
  files of one stream; a rewrite at the last level needs one file to climb twice
  and be rewritten, which is what four files allow.  Every hazard listed needs
  one fault or one stop at a time; pairs of independent faults are left to
  `Wal`, where the state is small enough.
* `LocalStore`: two writers, and an object in each of two days of one stream, so
  that they share the directory of the stream and not that of the day; one failing
  call; two stops, so that a kill can leave a directory to a later writer and a
  power loss follow.
* `LiveTail`: three records on two streams against queues and rings of two, so that
  a ring overflows, the merge of two rings is cut, a queue overflows (a new stream
  is an event more), and at boot a file with the newest record also holds one
  older than another file's.  One tail, opened once: tails share nothing but the
  publisher, which does not wait for them, and a tail that is opened again is a new one.
* `Search`: one permit and two clients, one that searches and asks for a second page
  and one that counts and scans, so that each can wait for the other between any
  two statements; pages of one row, so that two records make two pages; a window of
  the present moment and a grace period of one tick, so that a tick can take a
  record out of a window resolved anew and an object from under a plan; three
  files, so that two can be merged between two pages; one field the database
  cannot read beside one it can.
* `Server`: two lines of which the first may be blank, so that a line and its
  number can differ; one fault, which may be the sync of the log's `Close`, beside
  servers and ports that fail whenever they like; one kill or clean exit and the start
  after it; one slot and two senders, so that the second waits for the first.  Senders
  connect only to the first process, since a start begins with every slot free.
* `History`: keys that collide without regard to case (`User`, `user`), a third that
  is at times an object, and two columns, so that a third key has none; three kinds
  of JSON line that give each key two kinds between them, and a syslog line, whose
  fields are in columns alone; three lines and two levels of merging; a
  clock of two ticks, which is past both retention horizons.  The comparisons are
  existence, null, equality and both orders, with numbers and texts that differ
  as numbers and as texts ("1", "1.0", "10", "2"), of a key and of a member of it.
* `Times` has two values only where retention or clustering looks at them.
* Deadlock is not checked: every bound makes behaviours end.

### Fairness

* `Wal!FairSpec`: the store's goroutine syncs on a ticker for as long as it runs
  (`logstore/durable.go:453-499`), and the two system calls of a sync return.
  Only the successful outcome of a system call is fair, and faults are bounded:
  the property is about what happens once the disk works again.
* `Storage!FairSpec`: the server is started again after a stop; the flush,
  collect and sweep tickers of the same goroutine keep firing and their handlers
  run to the end; a merge in progress runs to its end; time passes.  Nothing is
  assumed of ingest, and nothing makes the compactor start a merge.
* `LiveTail!FairSpec`: an append goes on to publish, since it never waits for a
  reader; a tail's loop goes on, since a write returns or runs into its deadline
  (`api/sse.go:74-104`) and ends the tail; the ticker fires.  A client need not leave.
* `Search!FairSpec`: permits are a channel, whose senders are served in turn, hence
  strong fairness of `Acquire`; a statement ends, by itself or by its timeout
  (`query/engine.go:378-398`).  No client is assumed to leave or to stay.
* `Server!FairSpec`: main goes on, since the one wait of its own that could last is
  cut by `Shutdown`'s deadline (`main.go:304-316`); the compactor ends with its
  context; the accept loop runs; a connection ends, since its reads have a
  deadline (`syslog.go:285`) - a sender that always sends within it is outside the property.
  Handlers are not assumed to end, nor senders to go.

## 4. Assumptions

* `OrphanGrace` (24 hours) outlasts any one write in progress: `PendingAges` does
  not age a declaration whose writer is between declaring and registering it.
* `Grace` (5 minutes) outlasts the kernel's write-back of an unlink, and the file
  system keeps its changes in order: a commit of the catalogue makes the unlinks
  before it final.  Nothing in the code arranges this: `Remove` does not sync the
  directory (`internal/wal/wal.go:453-467`), and `collect` takes the segments it
  sees for the ones a replay could read (`logstore/durable.go:870-872`).  On a file
  system without that order, a segment could come back after a power loss when
  the row that would recognise its records is gone, and they would be stored
  twice.
* A catalogue commit is durable when it returns (`synchronous = FULL`), and one
  that returns an error has not happened.
* Commits of objects are durable and whole, and so are their removals.
  `LocalStore` examines this: whole they are, durable not always (section 6).  A
  file system that answers EINVAL or ENOTSUP to the sync of a directory is taken
  at its word (`syncUnsupported`, `internal/storage/local.go:342-354`).
* An fsync that succeeds makes durable what was written before it, and one that
  fails may be tried again.
* One process uses a data directory at a time (it holds a lock).

## 5. What is proved

Every invariant and every step property that a passing run checks is also a theorem,
for all values of the constants that satisfy the modules' assumptions, the bounds of
section 3 among them (about `Storage` there is one assumption more, see below).

| Module | Theorem | Property |
|---|---|---|
| `Wal_proofs` | `TypeCorrect` | `TypeOK` |
| | `SegmentIsBatch` | `SegmentHoldsBatch` |
| | `PendingIsExact` | `PendingCounts` |
| | `TearIsRemembered` | `TearIsKnown` |
| | `PromisesAreKept` | `PromisedIsSafe` |
| | `RotationIsWhole` | `RotationSealsBatch` |
| | `LogImplementsRecordLog` | `ImplementsRecordLog` |
| `Storage_proofs` | `TypesHold` | `TypeOK` |
| | `AckedRecordsStay` | `NothingAckedIsLost` |
| | `RecordsCountOnce` | `NothingTwice` |
| | `DroppedStaysDropped` | `NothingComesBack` |
| | `FilesStayReadable` | `FilesAreReadable` |
| | `ObjectsAccountedFor` | `NoObjectLeaks` |
| | `OutputNamesAreNew` | `MergeNameIsNew` |
| | `SequenceIsAhead` | `SeqIsAhead` |
| | `CountersAddUp` | `RollupsAddUp` |
| | `SegmentsRemembered` | `NoSegmentForgotten` |
| `LocalStore_proofs` | `TypeCorrect` | `TypeOK` |
| | `ObjectsStayWhole` | `ObjectsAreWhole` |
| | `OnlyHasteCanLose` | `OnlyHasteLoses` |
| `LiveTail_proofs` | `TypesHold` | `TypeOK` |
| | `RingsHoldNewest` | `RingIsNewest` |
| | `RecordsShownOnce` | `ShownOnce` |
| | `LossesAreCounted` | `LossIsCounted` |
| `Search_proofs` | `PermitsAreConserved` | `PermitsComeBack` |
| | `PagesArePartition` | `PagesPartition` |
| | `FailuresAreExplained` | `FailuresHaveCauses` |
| `Server_proofs` | `UploadsResumeAlways` | `UploadsResume` |
| | `CloseKeepsAll` | `ClosedKeepsAll` |
| `History_proofs` | `HistoryAnswersAsLive` | `HistoryIsLive` |
| | `RewritesSettle` | `RewrittenOnce` |

None of the properties is inductive by itself.  Each module proves an inductive
invariant first (`LogInvariant`, `StorageInvariant`, `StoreInvariant`,
`TailInvariant`, `SearchInvariant`, `UploadInvariant`, `HistoryInvariant`), with one
lemma for each helper, one for each action, and a step that joins them, and takes the
properties from it.

### The log

Three things had to be added to the properties.

1. A sync decides what to fsync with `mu` held and fsyncs without it.  That what
   it then reports is true needs an invariant about the `Sync` in flight
   (`SyncFits`): the prefix it will fsync is already in the file, holds what it
   will report, and nothing truncates below it meanwhile - `written` never
   shrinks, and a cut goes back to `written` at most.
2. That a torn file is cut at the right place needs the exact relation between
   the file, `written`, the buffer and the batch (`Fits`), which also yields
   `SegmentHoldsBatch` and `PendingCounts`.
3. Promises concern segments that are no longer active, so the files of the
   directory need an invariant of their own (`DirFits`), and a kept promise has
   to be stated so that it survives removal, power loss and the next boot
   (`Kept`).

What a `Sync` of a closed log reports is kept apart, in `late`, of which nothing is
proved: it is the first finding of section 6.

The refinement shows that each step of `Wal` is a step of `RecordLog`, or leaves the
segments as their user sees them.  Beyond `IInv` it needs that the frames of the
active file begin like the batch (`Begins`) - a kill leaves whatever part of them the
file system has, and that must be a prefix of what was accepted - and that no number
is both in the directory and unlinked (`Apart`), or a power loss would have two files
to bring back under one name.

### The storage engine

`IInv` of `Storage_proofs` is one invariant of log, store, catalogue and compactor
together, since what each may do depends on what the others have not done yet.  Its
centre is `ReplayFits`: of every record that a replay could still read, from segments
that are there or that a power loss brings back, the catalogue has the name the
replay would look for if and only if the record is in a live file or was dropped by
retention.  From left to right nothing is filed twice or comes back; from right to left
nothing is lost by a replay that skips.  The rest says why each actor keeps that true:

* the flush writes what is declared and not yet registered (`ToDo`), retires a
  segment only when every name of it is registered (`PersistFits`), and keeps the
  others on its lists (`FlushFits`);
* a merge's inputs stay live until it publishes, since expiry and merges are passes of
  one goroutine, and its output has their records under a name of its own
  (`MergeFits`, `RowsFit`: a retired file with the same records is not above
  the live one's level);
* the collector may forget a row only when every record that the log could give back
  comes after the row's records (`CollectFits`) - the floor it has read is below them,
  and stays so, because new records are numbered above it (`SeqFits`);
* an object is registered or declared at any time (`ObjectsFit`), so none leaks.

The counters of the catalogue are a second invariant, `Counts`, on top of the first:
an update in place of a sum is right only if a row is retired once.

These theorems assume `~UnreadableSegs`, that a segment that is there can be read
back.  The code does not guarantee it, and without it they are false: the second
finding of section 6 shows the sequence falling behind, and everything else rests on
the sequence.  What holds in spite of unreadable segments is that none of them is
forgotten, so `SegmentsRemembered` has no such assumption, and an invariant of its
own (`Remembered`) that does not mention records at all.

### The object store

The invariant says of a writer between two system calls what it may rely on
(`Fits`): each directory it made is one it had found missing, so until it has
synced the parent it still intends to; nothing another writer does takes that
away (`Grows`).  It follows that a settled directory is on disk, and a power loss
that takes a committed object has taken a directory that was not.

### Live tails

A ring is what `Top` makes of the records so far: those with fewer than `RingSize`
newer ones.  It does not depend on how records are split over files and streams, nor
on the files the walk at boot leaves unread, and one record more is a push (`TopUnion`,
`EnoughIs`, `PushIs`); hence `RingIsNewest`, at boot and after (`Numbered`, `Keeps`).

Of a tail, the invariant follows a record from the event yet to be published, which is
the last record (`Waits`), through the queue, whose lines are in order and before it
(`Hears`), to the screen, whose lines are in order and before every line of the queue
above the number the backlog reached (`Shows`).  What is owed up to that number is
shown, and what is neither shown nor on its way is at most what was counted as
dropped (`Counts`).  The order in the handler - first subscribe, then read the
backlog - is what makes the two overlap instead of leaving a gap, and the comparison
of numbers is what takes the overlap out again.

### Queries

`PermitsComeBack` is inductive together with the shape of a request; the work is in
the lemmas that every end of a statement, through the retries of field counts and the
files a search reads again, leaves the request at rest or waiting, holding what it
gives back (`Rests`).

`FailuresHaveCauses` needs what a plan knows of its files: each is live or was retired
after the plan was made, unless the plan is as old as the grace period (`PlanKept`,
`Late`).  A request that is not late and that no statement failed for cannot fail but
by itself (`MayFail`): a search that restores fields finds each record that lacks them in a
file it has yet to look at (`FieldsAhead`), and a field count that falls back keeps
exactly the fields the database can read (`Binds`, `Going`).

`PagesPartition` needs, for each request, what it still owes: the records it was to show
that can be queried and are not shown.  They are behind its cursor (`Pages`), and while a page is
made, in a file of the plan, on the page, or after its last row (`Turning`).  The rows a
statement returns are those that match, in an order (`RowsAre`) in which the sequence number
breaks ties.

### Receivers

`UploadsResume` speaks of what the shipper was told; its invariant,
`UploadInvariant`, of what the handler knows before that.  Every line it has passed
is stored, in the tail at least (`Handling`); what it will report is what it has
passed, and once it is to answer, all of that is on disk, or it will report nothing
and the shipper has been told it may have to repeat it (`HandlingLines`, and
`HandlingBatch` for OTLP, which has all or nothing).  Conversely nothing ahead of
the handler is stored, unless an earlier request got there (`NothingAhead`), so
storing a line cannot make it twice.  Steps that do not touch the upload only move
records to disk or add records of others (`Undisturbed`); a kill takes the handler
and any end of the tail (`HandlerEnds`).

A sync of a log whose `Close` could not sync does nothing and reports success, the
first finding of section 6.  So "on disk" is "on disk, or vouched for late" in that
invariant (`Vouched`, with the history variable `shipper.late`), and `UploadsResume`
names the case.  `ClosedKeepsAll` needs of a store that is closed only whether its
`Close` failed: the sync in it and every refusal behind it keep the tail empty
otherwise.

### History and the live predicate

The invariant has two parts.  `Traced`: however often a row was merged, what it has is
what is left of its own line - a cell is the value the line has for the key, or its
text once it has been in a column of text.  `Housed`: a file has, for everything its
rows hold, a column of that key and kind, and columns of one key are of one kind.
With these, `HistoryIsLive` is about one row and one comparison.  The resolver
reads a column under a name only where that name is the key's in every file it reads
(`CellIs`), and as a number or an object only where every column of the key is one
(`FactIs`); and each way of reading answers as the live predicate does (`NothingAgrees`,
`TextAgrees`, `NumberAgrees`, `CastAgrees`).

The exceptions are definitions of `History`, four in number:

* `ReadAsOther`: a key of several kinds, of which `predicate.go` tells, and one that is
  numeric in columns and something else in a line of a file without one;
* `LostWithRaw`: retention took the line, and no column holds the value;
* `NotInLine`: the line is not JSON, and the key is read from lines - it has no column
  name of its own, it is not an object in every file and a member of it is read, or the
  row's file has no column for it;
* `SqueezedOut`: the value found no column in its file and was merged into one that has.

`RewrittenOnce` rests on rows keeping the time and the rank they came with: what a file
promises (`FloorOf`) is judged by all the records read, each of which `ApplyRetention`
judged by the same horizon.

### What the proofs assume

The named assumptions of the modules: sizes are positive numbers (`WalAssumption`),
records are numbered (`RecordAssumption`), paths are non-empty (`LocalAssumption`), and
so on; TLC evaluates each of them in the run of its module.  The provers cannot do
induction over data, so facts about finite sets and sums that would be proved so are
proved from a smallest counterexample instead (`Sets_proofs`).

### What is only model-checked

Liveness, which the prover does not handle under fairness: `AcceptedIsPromised`,
`AckedIsQueryable`, `DeclarationsSettle`, `TombstonesGo`, `TailsSettle`,
`CloseEndsTails`, `RequestsEnd`, `ConnectionsAreServed` and `ShutdownEnds`.

## 6. Findings

1. **`Sync` on a closed log** (`wal_after_close`, `internal/wal/wal.go:330`).  When
   the sync inside `Close` fails, the log is closed all the same, and a `Sync`
   after it returns nil for records that are not on disk, against the comment at
   `wal.go:320-322`.  The server can reach it: a request still running after the
   shutdown's grace period is not waited for.  `Server` shows what comes of it: the
   store's `Close` returns the error to a deferred call that drops it (`main.go:138`),
   so the process ends as cleanly with accepted records unsynced, and a request still
   running may report a line that is not on disk (`ClosedKeepsAll` and `UploadsResume`
   state both as exceptions).
2. **Sequence numbers reused after an unreadable segment** (`storage_seq_reuse`,
   `internal/logstore/durable.go:310`).  A read error part way through a segment
   leaves the records behind it out of the highest sequence, so new records
   repeat their numbers, against `durable.go:238-240`.  In the worst case a new
   record has the number, the stream and the time of an old one at the start of a
   batch, and with them the name of its object; the properties about loss and
   duplicates are therefore checked with readable segments, and `storage_live`
   checks what does hold: the segment is kept and retried.  (Its bound of one
   record keeps the repeated number from standing for a different record.)
3. **A directory found in place is taken for durable** (`local_store_durable`,
   `internal/storage/local.go:287`).  `mkdirAll` syncs the parents of the
   directories it finds missing.  One that another `Create` has just made, or
   that a `Create` left behind when the sync of its parent failed or the process
   was killed, is there without being on disk; the object then committed in it
   is lost with it in a power loss, after its segment has been removed.  The
   comments at `local.go:273` and `storage.go:65-66` promise otherwise.
   `OnlyHasteLoses` in `local_store` says that this is the only way.

Smaller observations are in the models and have no run.  A quarantine whose
directory sync fails has renamed its segment already, so the segment goes on the
retry list, where each retry finds no such file, until the process is restarted
(`wal.go:582`, `durable.go:606-607`).  `Publish`, in `LocalStore`, returns an
error for an object that is there all the same; the store writes it again under
the same name, which is harmless.  A full queue drops a list of streams like a
line, and nothing sends it again before the next change: the client, told of one
event dropped, keeps a list without the new stream.  And the number of dropped events counts lists, lines the filter
would not have let through and lines the backlog has shown, so it is a bound on
what is missing and not the number of it (hence `<=` in `LossIsCounted`).

Of queries:

* A plan may outlive the grace period of the files in it: the wait for a permit is
  not under `Timeout`, and a search that restores fields runs several statements
  after one plan, where `durable.go:58-60` reckons with one.  Such a query fails with an
  error and is never short (`FailuresHaveCauses` has it as a cause).
* A field whose count failed, and that `FieldCounts` left out, is listed by the schema
  endpoint with zero matches, although it is left out so that nothing is reported as
  zero that was not measured (`query/search.go:993-999`, against `api/search.go:338-339`).
* `HistoryIsLive` has exceptions the header of `predicate.go` does not name.  A
  value that found no column in its file (`MaxColumns`) and is then merged into a file
  with a column for its key is not found, although its line is still there: the
  cell is empty and nothing says to look further (`SqueezedOut`).  And a key that is
  numeric wherever it has a column, and text in a file without one, reads as NULL
  there even for `exists` (`ReadAsOther`; `predicate.go:15-19` speaks of the literal's
  type).  And a field of a syslog record, which exists only in columns
  (`query/fields_test.go:16-22`), reads as NULL where the resolver goes to lines
  (`resolve.go:246-250`): when its key shares a column name with another key of the files
  read, such as `hostname` with the `Hostname` of a JSON line, or found no column in its
  file (`NotInLine`).  The live predicate finds it.

## 7. Not modelled, and the plan

Left out of the modelled parts:

* the byte format of the log, and `Replay`'s way of telling a torn end from damage;
  `Prune` of emptied directories and the directory lock;
* the size trigger of flushes, the one-shot kick and the back-off (a flush may start
  whenever it can, which covers them for safety);
* which groups of files are worth merging (any group is); temporary files and their
  sweep; the catalogue's schema keys and migrations;
* of the language: the parser, patterns, severities, timestamps, `and`, `or` and `not`
  (both evaluators combine answers in the same way), floats and booleans, and keys
  with a dot in them (OTLP attributes, syslog's structured data), which the resolver may
  read as a path, and which a column named like their first part hides;
* of the server: the mode without a data directory; the parsing of syslog and OTLP
  messages.

Not modelled at all: the client (datagrams nobody acknowledges, one lock), the web
application (presentation over the stream and the cursor), authentication,
configuration, text normalisation, packaging.  They are stateless or text
handling, and their tests reach what matters in them.

What is left to prove is liveness, which is out of the prover's reach, and what else
of the storage engine survives an unreadable segment: a number used again can give two
objects one name, so what holds then of files, objects and merges is less than the
theorems say, and it would have to be found out first.
