-------------------------------- MODULE History --------------------------------
(***************************************************************************)
(* What history answers, through the life of a file: lines are flushed to  *)
(* files whose columns are those of their batch, files are merged and have *)
(* their columns worked out anew from the rows read back, retention takes  *)
(* rows and raw lines from them (internal/compact), and a query reads some *)
(* of the files there are as one table (internal/query, internal/rql).     *)
(* The objects and the catalogue behind it are in Storage.                 *)
(***************************************************************************)
EXTENDS Language, Sequences

CONSTANTS
  Menu,             \* the lines that arrive, a sequence of [fields, level, json]
  MaxLines,         \* bound: lines that arrive
  MaxBatch,         \* bound: lines of a flush
  MaxNow,           \* bound: the clock
  LastLevel,        \* files of this level are not merged
  DropRawAfter,     \* retention; 0 keeps raw lines
  DownsampleAfter,  \* and 0 every level
  MinLevelAfter     \* the rank that is kept

ASSUME HistoryAssumption ==
  /\ \A i \in DOMAIN Menu : /\ Menu[i].level \in Nat /\ Menu[i].json \in BOOLEAN
                            /\ DOMAIN Menu[i].fields \subseteq Key
                            /\ \A key \in DOMAIN Menu[i].fields : Menu[i].fields[key] \in Value
  /\ MaxLines \in Nat /\ MaxBatch \in Nat \ {0} /\ MaxNow \in Nat /\ LastLevel \in Nat \ {0}
  /\ DropRawAfter \in Nat /\ DownsampleAfter \in Nat /\ MinLevelAfter \in Nat

VARIABLES
  lines,  \* the lines so far, with the time each arrived at
  files,  \* the live files
  now

vars == <<lines, files, now>>

\* floor: what is below this rank has been taken from the file.
FileOf(records, keepRaw, level, floor) ==
  LET w == Written(records, keepRaw)
  IN [columns |-> w.columns, raw |-> w.raw, rows |-> w.rows, level |-> level, floor |-> floor]

Rows(fs) == UNION {f.rows : f \in fs}

------------------------------------------------------------------------------
(* Retention. *)

\* Mutant of FloorOf: the oldest record is looked at, and not the newest.
FloorOfOldest(records) ==
  IF DownsampleAfter # 0 /\ \E r \in records : r.ts <= now - DownsampleAfter
  THEN MinLevelAfter ELSE 0

\* The floor a file of what is left of these records can promise.
FloorOf(records) ==
  IF DownsampleAfter # 0 /\ \A r \in records : r.ts <= now - DownsampleAfter
  THEN MinLevelAfter ELSE 0

ApplyRetention(records) ==
  {r \in records : \/ DownsampleAfter = 0 \/ r.ts > now - DownsampleAfter
                   \/ r.level >= MinLevelAfter}

KeepRaw(records) == DropRawAfter = 0 \/ \E r \in records : r.ts > now - DropRawAfter

\* Every row of the file is past the horizon.
Past(f, after) == after # 0 /\ \A r \in f.rows : r.ts < now - after

Due(f) == \/ f.raw /\ Past(f, DropRawAfter)
          \/ f.floor < MinLevelAfter /\ Past(f, DownsampleAfter)

------------------------------------------------------------------------------

Init == lines = <<>> /\ files = {} /\ now = 0

\* A record of a line, numbered as it arrives.
Arrived(line, number) ==
  [fields |-> line.fields, level |-> line.level, json |-> line.json,
   raw |-> TRUE, ts |-> now, seq |-> number]

\* A batch of lines.
Flush ==
  \E n \in 1 .. MaxBatch : \E batch \in [1 .. n -> DOMAIN Menu] :
    LET arrived == [i \in 1 .. n |-> Arrived(Menu[batch[i]], Len(lines) + i)]
        records == {arrived[i] : i \in 1 .. n}
    IN /\ Len(lines) + n <= MaxLines
       /\ lines' = lines \o arrived
       /\ files' = files \cup {FileOf(records, TRUE, 0, 0)}
       /\ now' = now

\* The file of what is left of these files.
Output(fs, kept, level) == FileOf(kept, KeepRaw(kept), level, FloorOf(Rows(fs)))

\* merge: of files of one level, to a file of this one, or to none.
Merge(fs, level) ==
  LET kept == ApplyRetention(Rows(fs))
  IN /\ files' = (files \ fs) \cup (IF kept = {} THEN {} ELSE {Output(fs, kept, level)})
     /\ UNCHANGED <<lines, now>>

MergeLevel == \E level \in 0 .. LastLevel - 1 :
                \E fs \in SUBSET {f \in files : f.level = level} :
                  fs # {} /\ Merge(fs, level + 1)

RewriteLevel == \E f \in files : f.level = LastLevel /\ Due(f) /\ Merge({f}, LastLevel)

Tick == now < MaxNow /\ now' = now + 1 /\ UNCHANGED <<lines, files>>

Next == Flush \/ MergeLevel \/ RewriteLevel \/ Tick

Spec == Init /\ [][Next]_vars

------------------------------------------------------------------------------

\* A number is read as text, the key having other kinds elsewhere, or no column: a
\* quoted literal may find it, where the live predicate knows it for a number.  Or the
\* key is a number wherever it has a column, and something else in a line whose file
\* has none for it: as a number that is NULL, to all but a bare number.
ReadAsOther(n, resolution, values) ==
  \E value \in values :
    \/ ~resolution.number /\ value.kind = "int" /\ n.literal.kind = "string"
    \/ resolution.number /\ value.kind # "int" /\ n.literal.kind # "number"

\* Retention took the line, and no column of its file holds the value.
LostWithRaw(resolution, field, values, file, row) ==
  /\ ~row.raw
  /\ \/ resolution.form \in {"none", "raw"}
     \/ values # {} /\ ColumnExpr(resolution, field, file, row) = {}

\* The file the row came in had no column to spare for the key (MaxColumns), and the
\* one it was merged into has: the row's cell is empty, and its line is not looked at.
SqueezedOut(resolution, field, values, file, row) ==
  /\ values # {} /\ field.key \notin DOMAIN row.fields
  /\ Present({file}, field.key) # {} /\ resolution.form = "column"

\* The line is not JSON (a syslog record's, whose fields are in columns alone), and the
\* key is read from lines: it has no name of its own, it is not an object everywhere and
\* a member of it is read, or this file has no column for it.
NotInLine(resolution, field, values, file, row) ==
  /\ row.raw /\ ~row.json /\ values # {}
  /\ \/ resolution.form = "raw"
     \/ resolution.form = "both" /\ ColumnExpr(resolution, field, file, row) = {}

\* How a field may be resolved by a query that reads the file f, and whatever others.
Resolutions(f, field) == {Resolve(read, field) : read \in {fs \in SUBSET files : f \in fs}}

\* Whatever files a query reads, and however often their rows have been merged,
\* history finds a row just when the live predicate would have found its line, but
\* for a key of several kinds (the header of predicate.go), a line that was dropped,
\* one that is not JSON where lines are what is read, and a value that was squeezed
\* out of its file before a merge.
HistoryIsLive ==
  \A f \in files, field \in Field :
    \A resolution \in Resolutions(f, field), row \in f.rows :
      LET fields == lines[row.seq].fields
          values == Lookup(fields, field)
          expr == Expr(resolution, field, fields, f, row)
      IN \/ LostWithRaw(resolution, field, values, f, row)
         \/ NotInLine(resolution, field, values, f, row)
         \/ SqueezedOut(resolution, field, values, f, row)
         \/ \A n \in Comparison :
              \/ ReadAsOther(n, resolution, values)
              \/ (Selects(resolution, n, expr) <=> Predicate(n, values))

\* What compaction writes of files is not due for another rewrite as it is: a rewrite
\* clears what it was due for.  Nor does it promise more than was done, or what it still
\* holds would never be dropped: whole files and single records are judged by different
\* horizons (due, floorOf, applyRetention and keepRaw).
RewrittenOnce ==
  \A fs \in SUBSET files :
    LET kept == ApplyRetention(Rows(fs))
        f == Output(fs, kept, LastLevel)
    IN kept # {} => ~Due(f) /\ \A row \in f.rows : row.level >= f.floor

=============================================================================
