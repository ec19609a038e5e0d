------------------------------- MODULE Catalog -------------------------------
(***************************************************************************)
(* The catalogue (internal/catalog) and the objects it describes           *)
(* (internal/storage).  The catalogue is one SQLite database with a single *)
(* connection, so each operation is one transaction that happens whole or  *)
(* not at all: an operator from a catalogue to the catalogue it commits.   *)
(*                                                                         *)
(* A row carries the records its file holds, which stands for the counts   *)
(* and ranges the real row has.  Times are an age: a tombstone or a        *)
(* declaration is aged (for a pending path, TRUE) once its grace is over.  *)
(***************************************************************************)
EXTENDS Integers, Sequences, FiniteSets, FiniteSetsExt, Maps, Records

\* A record has a sequence number, a stream and a time; streams are numbered
\* in the order of their names.
ASSUME RecordAssumption ==
  \A r \in Record : r.seq \in Nat \ {0} /\ r.stream \in Nat /\ r.ts \in Nat

VARIABLES
  cat,      \* the catalogue
  objects   \* path -> the records in the object under that name

Streams == {r.stream : r \in Record}

\* The name of an object: the first record in it, and for a retention
\* rewrite the id of the file it replaces (0 for any other).
Path(level, first, of) ==
  [level |-> level, stream |-> first.stream, seq |-> first.seq,
   ts |-> first.ts, of |-> of]

EmptyCatalog ==
  [rows |-> <<>>, nextId |-> 1, pending |-> <<>>,
   rollup |-> [s \in Streams |-> 0], maxSeq |-> 0]

\* How many records there are in files of one stream.
Sizes(c) == [id \in DOMAIN c.rows |-> Cardinality(c.rows[id].recs)]

RowsIn(c, ids, s) ==
  SumFunctionOnSet(Sizes(c), {id \in ids : c.rows[id].path.stream = s})

Live(c) == {id \in DOMAIN c.rows : c.rows[id].state = "live"}

\* Mutant of Registered: a file that was retired is not recognised.
RegisteredLive(c, path) == \E id \in Live(c) : c.rows[id].path = path

Registered(c, path) == \E id \in DOMAIN c.rows : c.rows[id].path = path

LastSeq(recs) == Max({r.seq : r \in recs})

------------------------------------------------------------------------------

\* Mutant of InsertFile: the id of a row is given out again.
InsertFileAgain(c, path, recs) ==
  LET settled == [c EXCEPT !.pending = Without(@, path)]
      row == [path |-> path, level |-> path.level, recs |-> recs,
              state |-> "live", aged |-> FALSE]
  IN  IF Registered(c, path) THEN settled
      ELSE [settled EXCEPT
              !.rows = With(@, c.nextId, row),
              !.rollup[path.stream] = @ + Cardinality(recs),
              !.maxSeq = Max({@, LastSeq(recs)})]

\* insertFileTx: a path that is known keeps its row; either way the write is
\* no longer pending.
InsertFile(c, path, recs) ==
  LET settled == [c EXCEPT !.pending = Without(@, path)]
      row == [path |-> path, level |-> path.level, recs |-> recs,
              state |-> "live", aged |-> FALSE]
  IN  IF Registered(c, path) THEN settled
      ELSE [settled EXCEPT
              !.rows = With(@, c.nextId, row),
              !.nextId = @ + 1,
              !.rollup[path.stream] = @ + Cardinality(recs),
              !.maxSeq = Max({@, LastSeq(recs)})]

Register(c, path, recs) == InsertFile(c, path, recs)

\* Mutant of Retire: the counters of the stream stay as they were.
RetireUncounted(c, ids) ==
  [c EXCEPT !.rows = [id \in DOMAIN @ |->
                        IF id \in ids \cap Live(c)
                        THEN [@[id] EXCEPT !.state = "tombstoned"] ELSE @[id]]]

\* retireTx and adjustRollupTx: only a live file is retired, once.
Retire(c, ids) ==
  LET retired == ids \cap Live(c)
  IN  [c EXCEPT
         !.rows = [id \in DOMAIN @ |->
                     IF id \in retired
                     THEN [@[id] EXCEPT !.state = "tombstoned"] ELSE @[id]],
         !.rollup = [s \in Streams |-> Max({0, @[s] - RowsIn(c, retired, s)})]]

\* Replace, with one output.  A path that is known refuses the whole of it.
CanReplace(c, path) == ~Registered(c, path)

Replace(c, path, recs, ids) == Retire(InsertFile(c, path, recs), ids)

\* Replace with no output is Tombstone.
Tombstone(c, ids) == Retire(c, ids)

Forget(c, id) == [c EXCEPT !.rows = Without(@, id)]

\* Mutant of Intend: nothing is declared.
IntendNothing(c, paths) == c

\* Intend: the paths that are not registered become young declarations.
Intend(c, paths) ==
  LET fresh == {p \in paths : ~Registered(c, p)}
  IN  [c EXCEPT !.pending = Joined([p \in fresh |-> FALSE], @)]

\* Collectable and Abandoned, for a cut-off one grace period ago.
Collectable(c) ==
  {id \in DOMAIN c.rows : c.rows[id].state = "tombstoned" /\ c.rows[id].aged}

Abandoned(c) == {p \in DOMAIN c.pending : c.pending[p]}

\* Mutant of Discard: the declaration stays.
DiscardNothing(c, path) == c

\* Discard drops an aged declaration; its object goes first, unless some row
\* names it.
Discard(c, path) == [c EXCEPT !.pending = Without(@, path)]

------------------------------------------------------------------------------
(* What every user of the catalogue keeps true. *)

CatalogTypeOK ==
  /\ \A id \in DOMAIN cat.rows :
       /\ id \in 1 .. cat.nextId - 1
       /\ cat.rows[id].recs \subseteq Record
       /\ cat.rows[id].state \in {"live", "tombstoned"}
       /\ cat.rows[id].level \in 0..2
  /\ cat.rollup \in [Streams -> Nat]
  /\ cat.maxSeq \in Nat
  /\ \A p \in DOMAIN objects : objects[p] \subseteq Record
=============================================================================
