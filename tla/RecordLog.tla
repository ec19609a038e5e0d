------------------------------ MODULE RecordLog ------------------------------
(***************************************************************************)
(* What the write-ahead log promises the store above it (internal/wal), as *)
(* a specification of its own.  A log is a set of numbered segments, each  *)
(* a sequence of records with a prefix that survives a power loss.  Module *)
(* Wal is the detailed log and implements this one; module DurableStore is *)
(* built on this one.                                                      *)
(***************************************************************************)
EXTENDS Integers, Sequences, FiniteSets, Maps, Records

VARIABLES
  segs,     \* segment number -> segment: the segments in the directory
  active,   \* the segment appends go to, 0 while no process has the log open
  removed   \* segment number -> segment: unlinked, and a power loss may
            \* bring them back because the directory was not synced since

logVars == <<segs, active, removed>>

\* A segment: its records in order, how many of them an fsync covers, and
\* whether its end is unreadable in a way that is not a torn write.
Segment == [recs: Seq(Record), hard: Nat, damaged: BOOLEAN]

EmptySegment == [recs |-> <<>>, hard |-> 0, damaged |-> FALSE]

LogTypeOK ==
  /\ active \in Nat
  /\ active # 0 => active \in DOMAIN segs
  /\ \A s \in DOMAIN segs : s \in Nat \ {0} /\ segs[s] \in Segment
  /\ \A s \in DOMAIN removed : s \in Nat \ {0} /\ removed[s] \in Segment

------------------------------------------------------------------------------

Sealed == DOMAIN segs \ {active}

\* The records of a segment as a set.
Held(segment) == {segment.recs[i] : i \in 1..Len(segment.recs)}

\* The records of a segment no crash can take.
HardOf(segment) == {segment.recs[i] : i \in 1..segment.hard}

LogInit == segs = <<>> /\ active = 0 /\ removed = <<>>

\* The number after the last segment there is, as the one member of a set.
NextNumber ==
  {n \in {1} \cup {s + 1 : s \in DOMAIN segs} : \A s \in DOMAIN segs : s < n}

\* A new process starts a segment of its own.
LogOpen ==
  /\ active = 0
  /\ active' \in NextNumber
  /\ segs' = With(segs, active', EmptySegment)
  /\ UNCHANGED removed

LogAppend(r) ==
  /\ active # 0
  /\ segs' = [segs EXCEPT ![active].recs = Append(@, r)]
  /\ UNCHANGED <<active, removed>>

\* Every directory of segments made by picking one option for each in dir.
Picks(dir, Options(_)) ==
  {pick \in [DOMAIN dir -> UNION {Options(dir[s]) : s \in DOMAIN dir}] :
     \A s \in DOMAIN dir : pick[s] \in Options(dir[s])}

\* The same records with more of them on disk.
Harder(g) == {[g EXCEPT !.hard = n] : n \in g.hard .. Len(g.recs)}

\* A sync covers some prefix of the active segment, perhaps all of it, and
\* syncing the directory makes every name in it, and every unlink, final.
LogSync ==
  /\ active # 0
  /\ segs' \in Picks(segs, Harder)
  /\ removed' \in {removed, <<>>}
  /\ UNCHANGED active

\* A rotation seals the active segment whole: all of it is on disk first.
LogRotate ==
  /\ active # 0
  /\ \E dir \in Picks(segs, Harder) :
       /\ dir[active].hard = Len(dir[active].recs)
       /\ segs' = With(dir, active + 1, EmptySegment)
  /\ active' = active + 1
  /\ removed' \in {removed, <<>>}

LogRemove(s) ==
  /\ active # 0
  /\ s \in Sealed
  /\ segs' = Without(segs, s)
  /\ removed' = With(removed, s, segs[s])
  /\ UNCHANGED active

\* Moving a segment to quarantine syncs both directories.
LogQuarantine(s) ==
  /\ active # 0
  /\ s \in Sealed
  /\ segs[s].damaged
  /\ segs' \in Picks(Without(segs, s), Harder)
  /\ removed' = <<>>
  /\ UNCHANGED active

\* What a stop can leave of a segment: a prefix that holds at least what was
\* synced, and behind it perhaps something unreadable.
Survivors(g) ==
  {g} \cup {[recs |-> SubSeq(g.recs, 1, k), hard |-> g.hard, damaged |-> b] :
              k \in g.hard .. Len(g.recs) - 1, b \in BOOLEAN}
      \cup {[g EXCEPT !.damaged = b] : b \in IF g.recs = <<>> THEN BOOLEAN ELSE {}}

\* The process is killed: what it had not written out is gone.
LogKill ==
  /\ active' = 0
  /\ segs' \in Picks(segs, Survivors)
  /\ UNCHANGED removed

\* The machine loses power.  A segment with nothing synced in it may vanish,
\* name and all; one that was unlinked may be back.
LogPowerLoss ==
  /\ active' = 0
  /\ removed' = <<>>
  /\ \E lost \in SUBSET {s \in DOMAIN segs : segs[s].hard = 0},
        back \in SUBSET (DOMAIN removed) :
       segs' \in Picks(Joined([s \in DOMAIN segs \ lost |-> segs[s]],
                              [s \in back |-> removed[s]]), Survivors)

LogNext ==
  \/ LogOpen \/ LogSync \/ LogRotate \/ LogKill \/ LogPowerLoss
  \/ \E r \in Record : LogAppend(r)
  \/ \E s \in DOMAIN segs : LogRemove(s) \/ LogQuarantine(s)

LogSpec == LogInit /\ [][LogNext]_logVars

------------------------------------------------------------------------------
(* What a replay reads, and what garbage collection asks of it. *)

\* The first record of the oldest sealed segment that holds one, or {} when
\* none does: no replay can produce a record that sorts before it.
FloorRecords ==
  {segs[s].recs[1] : s \in {t \in Sealed :
     /\ segs[t].recs # <<>>
     /\ \A u \in Sealed : segs[u].recs # <<>> => t <= u}}

\* Whether a segment that is damaged from its start comes before it.
FloorHidden ==
  \E s \in Sealed :
    /\ segs[s].damaged
    /\ \A t \in Sealed : segs[t].recs # <<>> => s < t
=============================================================================
