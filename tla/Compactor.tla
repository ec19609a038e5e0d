------------------------------ MODULE Compactor ------------------------------
(***************************************************************************)
(* The compactor (internal/compact), which merges the files of one stream  *)
(* into one at the next level, rewrites single files at the last level     *)
(* when retention has caught up with them, and expires whole files.  One   *)
(* goroutine runs it beside the store, and they meet in the catalogue and  *)
(* the object store only.                                                  *)
(*                                                                         *)
(* Which files are worth merging is a matter of ages and counts; here any  *)
(* group may be.  What retention drops from a merge is any part of it.     *)
(***************************************************************************)
EXTENDS Catalog

CONSTANTS
  Retention,    \* whether retention drops records and expires files
  ClusterBy     \* whether files at the last level are ordered by something
                \* before their time

VARIABLES
  merge,        \* the merge in progress
  dropped       \* the records retention has taken out of the live files

NoMerge == [step |-> "idle", ids |-> {}, recs |-> {}, path |-> <<>>]

CompactorInit == merge = NoMerge /\ dropped = {}

LastLevel == 2

\* The records of some files, read from their objects.
Contents(ids) == UNION {objects[cat.rows[id].path] : id \in ids}

\* A group merge can take: live files of one stream at one level, one of them
\* if the level is the last.
Groups ==
  {ids \in (SUBSET Live(cat)) \ {{}} :
     \A i, j \in ids :
       /\ cat.rows[i].path.stream = cat.rows[j].path.stream
       /\ cat.rows[i].level = cat.rows[j].level
       /\ cat.rows[i].level = LastLevel => i = j}

\* A missing object fails the merge before it starts.
Readable(ids) == \A id \in ids : cat.rows[id].path \in DOMAIN objects

\* Order: the records that may come first at a level.
Firsts(recs, level) ==
  IF ClusterBy /\ level = LastLevel THEN recs
  ELSE {r \in recs : \A o \in recs : r.ts < o.ts \/ (r.ts = o.ts /\ r.seq <= o.seq)}

\* Mutant of OutputOf: a rewrite is named like any other output.
OutputOf0(ids, level) == 0

\* Which file an output replaces one for one, for its name: outputName.
OutputOf(ids, level) == IF level = LastLevel THEN CHOOSE id \in ids : TRUE ELSE 0

\* merge, up to the name of its output.  What is kept may be nothing at all,
\* and then there is no output.
StartMerge ==
  /\ merge.step = "idle"
  /\ \E ids \in Groups :
       /\ Readable(ids)
       /\ \E kept \in IF Retention THEN SUBSET Contents(ids) ELSE {Contents(ids)} :
            LET from  == cat.rows[CHOOSE id \in ids : TRUE].level
                level == IF from = LastLevel THEN LastLevel ELSE from + 1
            IN  /\ from = LastLevel => Retention
                /\ IF kept = {}
                   THEN merge' = [NoMerge EXCEPT !.step = "publish", !.ids = ids]
                   ELSE \E first \in Firsts(kept, level) :
                          merge' = [step |-> "intend", ids |-> ids, recs |-> kept,
                                    path |-> Path(level, first, OutputOf(ids, from))]
  /\ UNCHANGED <<cat, objects, dropped>>

\* The output is declared; a name that is registered is never written.
IntendOutput(ok) ==
  /\ merge.step = "intend"
  /\ cat' = IF ok THEN Intend(cat, {merge.path}) ELSE cat
  /\ merge' = IF ok /\ ~Registered(cat, merge.path)
              THEN [merge EXCEPT !.step = "write"] ELSE NoMerge
  /\ UNCHANGED <<objects, dropped>>

\* A commit that fails may have published the object.
WriteOutput(ok) ==
  /\ merge.step = "write"
  /\ LET put == With(objects, merge.path, merge.recs)
     IN  objects' \in IF ok THEN {put} ELSE {put, objects}
  /\ merge' = IF ok THEN [merge EXCEPT !.step = "publish"] ELSE NoMerge
  /\ UNCHANGED <<cat, dropped>>

\* The output becomes live and the inputs are retired, in one transaction.
Publish(ok) ==
  /\ merge.step = "publish"
  /\ merge' = NoMerge
  /\ LET lost == (UNION {cat.rows[id].recs : id \in merge.ids}) \ merge.recs
         done == IF merge.recs = {} THEN Tombstone(cat, merge.ids)
                 ELSE Replace(cat, merge.path, merge.recs, merge.ids)
         may  == ok /\ (merge.recs # {} => CanReplace(cat, merge.path))
     IN  /\ cat' = IF may THEN done ELSE cat
         /\ dropped' = IF may THEN dropped \cup lost ELSE dropped
  /\ UNCHANGED objects

\* expire: every file whose newest record is past some horizon.
Expire ==
  /\ Retention
  /\ merge.step = "idle"
  /\ \E horizon \in {r.ts : r \in Record} :
       LET doomed == {id \in Live(cat) : \A r \in cat.rows[id].recs : r.ts <= horizon}
       IN  /\ doomed # {}
           /\ cat' = Tombstone(cat, doomed)
           /\ dropped' = dropped \cup UNION {cat.rows[id].recs : id \in doomed}
  /\ UNCHANGED <<objects, merge>>
=============================================================================
