---------------------------- MODULE Storage_proofs ----------------------------
(***************************************************************************)
(* Proofs about the storage engine, for any records, any number of files,  *)
(* faults and stops, with and without retention, and for every order in    *)
(* which ingest, flush, recovery, collection, sweep and merge interleave.  *)
(*                                                                         *)
(* One inductive invariant, IInv, carries the safety properties.  At its   *)
(* heart is ReplayFits: whatever a replay could still read from the log,   *)
(* now or after a power loss brings unlinked segments back, is in a file   *)
(* or has been dropped exactly if the catalogue has a row by the name the  *)
(* replay would look for.  So a replay neither loses a record nor files it *)
(* twice, and the collector may forget such a row only when nothing in the *)
(* log comes before the floor it has read (CollectFits).  Merges keep this *)
(* because a file is never replaced by one of a lower level (RowsFit), and *)
(* the flush because what it has still to write is declared and unknown    *)
(* (ToDo).  The counters are a second invariant on top of the first.       *)
(*                                                                         *)
(* Those theorems assume that a segment that is there can be read back     *)
(* (~UnreadableSegs).  Where it cannot, the sequence starts over below     *)
(* records that are still in the log, and TLC shows SeqIsAhead violated.   *)
(* That every sealed segment is remembered for another try does not rest   *)
(* on it, and has an invariant of its own, Remembered.                     *)
(***************************************************************************)
EXTENDS Storage, Sets_proofs

------------------------------------------------------------------------------
(* The inductive invariant.  Each part is a predicate of the state it is    *)
(* about: u is the phase, g, a and rm the log, c the catalogue, o the       *)
(* objects, d what retention dropped, f the flush, k the collection, m the  *)
(* merge, un the retry list, b the batch and n the sequence.                *)

RecsOf(dir) == [s \in DOMAIN dir |-> dir[s].recs]

\* The records of every segment there is, or that a power loss can bring back.
Kept(g, rm) == RecsOf(Joined(g, rm))

\* Segments are numbered upwards, the active one last; an unlinked one is
\* older than some segment that is still there.
DirFits(g) ==
  /\ IsFiniteSet(DOMAIN g)
  /\ \A s \in DOMAIN g : /\ s \in Nat \ {0} /\ g[s] \in Segment
                         /\ g[s].hard <= Len(g[s].recs)

LogFits(g, a, rm) ==
  /\ a \in Nat /\ DirFits(g) /\ DirFits(rm)
  /\ DOMAIN g \cap DOMAIN rm = {}
  /\ a # 0 => a \in DOMAIN g /\ \A s \in DOMAIN g \cup DOMAIN rm : s <= a
  /\ \A s \in DOMAIN rm : \E t \in DOMAIN g : s < t

\* Sequence numbers rise through the log.
QueueFits(q) ==
  /\ \A s \in DOMAIN q :
       /\ s \in Nat /\ q[s] \in Seq(Record)
       /\ \A i, j \in 1 .. Len(q[s]) : i < j => q[s][i].seq < q[s][j].seq
  /\ \A s, t \in DOMAIN q :
       s < t => \A x \in ToSet(q[s]), y \in ToSet(q[t]) : x.seq < y.seq

\* A row is named after a record of its file, and a rewrite after the file it
\* took the place of, which is retired.
RowFits(c, id) ==
  LET row == c.rows[id]
  IN  /\ id \in 1 .. c.nextId - 1
      /\ row = [path |-> row.path, level |-> row.level, recs |-> row.recs,
                state |-> row.state, aged |-> row.aged]
      /\ row.state \in {"live", "tombstoned"} /\ row.aged \in BOOLEAN
      /\ row.state = "live" => ~row.aged
      /\ row.level \in 0 .. 2 /\ row.path.level = row.level
      /\ row.recs \in SUBSET Record /\ row.recs # {} /\ IsFiniteSet(row.recs)
      /\ \A r \in row.recs : r.seq <= c.maxSeq /\ r.stream = row.path.stream
      /\ \E r \in row.recs : row.path = Path(row.level, r, row.path.of)
      /\ row.level # 2 => row.path.of = 0
      /\ row.path.of # 0 => row.path.of \in 1 .. c.nextId - 1 \ Live(c)

CatShape(c) ==
  /\ c = [rows |-> c.rows, nextId |-> c.nextId, pending |-> c.pending,
          rollup |-> c.rollup, maxSeq |-> c.maxSeq]
  /\ c.nextId \in Nat \ {0} /\ c.maxSeq \in Nat
  /\ \A p \in DOMAIN c.pending : c.pending[p] \in BOOLEAN

\* A live file shares records with retired ones only, and those are not above
\* its level: what a merge makes is new.
RowsFit(c) ==
  /\ \A id \in DOMAIN c.rows : RowFits(c, id)
  /\ \A i, j \in DOMAIN c.rows : c.rows[i].path = c.rows[j].path => i = j
  /\ \A i \in Live(c), j \in DOMAIN c.rows :
       i # j /\ c.rows[i].recs \cap c.rows[j].recs # {} =>
         j \notin Live(c) /\ c.rows[j].level <= c.rows[i].level

LiveIn(c) == UNION {c.rows[id].recs : id \in Live(c)}

\* The records that reached a file for good.
Filed(c, d) == LiveIn(c) \cup d

DroppedFits(c, d) ==
  /\ d \in SUBSET Record
  /\ LiveIn(c) \cap d = {}
  /\ \A r \in d : r.seq <= c.maxSeq
  /\ \A id \in DOMAIN c.rows : c.rows[id].recs \subseteq Filed(c, d)

ObjectsFit(c, o) ==
  /\ \A p \in DOMAIN o : o[p] \in SUBSET Record
  /\ \A p \in DOMAIN o : Registered(c, p) \/ p \in DOMAIN c.pending
  /\ \A id \in DOMAIN c.rows :
       ~c.rows[id].aged => /\ c.rows[id].path \in DOMAIN o
                           /\ o[c.rows[id].path] = c.rows[id].recs

\* The replay of a segment finds exactly what has been filed: the name it
\* looks for is registered if and only if the records are in a file.
ReplayFits(c, d, q) ==
  \A s \in DOMAIN q : \A r \in ToSet(q[s]) :
    r \in Filed(c, d) <=> Registered(c, ObjectName(q[s], r.stream))

\* No two records have the same number.
SeqsDiffer(c, q) ==
  \A i \in DOMAIN c.rows : \A x \in c.rows[i].recs :
    /\ \A j \in DOMAIN c.rows : \A y \in c.rows[j].recs : x.seq = y.seq => x = y
    /\ \A s \in DOMAIN q : \A y \in ToSet(q[s]) : x.seq = y.seq => x = y

\* The batch is what the active segment holds, and none of it is filed.
BatchFits(u, a, b, g, top) ==
  /\ u \in {"down", "recovering", "serving"}
  /\ u = "down" <=> a = 0
  /\ u # "serving" => b = <<>>
  /\ u # "down" => b = g[a].recs /\ \A r \in ToSet(b) : top < r.seq

\* The sequence is ahead of every record, once it has been read back.
SeqFits(u, n, g, rm, top, f) ==
  /\ n \in Nat
  /\ u # "down" => top <= n
  /\ u = "recovering" =>
       /\ \A s \in DOMAIN g : \/ s \in ToSet(f.left)
                              \/ \A r \in ToSet(g[s].recs) : r.seq <= n
       /\ \A r \in ToSet(f.recs) : r.seq <= n
  /\ u = "serving" => \A s \in DOMAIN g : \A r \in ToSet(g[s].recs) : r.seq <= n
  /\ \A s \in DOMAIN rm : \A r \in ToSet(rm[s].recs) : r.seq <= top

Busy == {"intend", "write", "register", "retire"}

\* Every sealed segment is with the flush or on a list it works through.
FlushFits(u, f, un, g, a) ==
  /\ f = [step |-> f.step, left |-> f.left, kept |-> f.kept, seg |-> f.seg,
          recs |-> f.recs, todo |-> f.todo, failed |-> f.failed, live |-> f.live]
  /\ f.step \in {"idle", "next"} \cup Busy
  /\ f.left \in Seq(Nat) /\ f.kept \in Seq(Nat) /\ un \in Seq(Nat)
  /\ f.live \in BOOLEAN /\ f.failed \in BOOLEAN
  /\ u # "serving" => un = <<>>
  /\ u = "down" => f = NoFlush
  /\ u = "recovering" => f.step # "idle" /\ ~f.live
  /\ f.step \in {"idle", "next"} => ~f.live /\ f.recs = <<>> /\ f.seg = 0
  /\ f.step \in Busy => f.seg \in DOMAIN g \ {a} /\ f.recs = g[f.seg].recs
  /\ f.step \in {"intend", "write", "register"} => f.recs # <<>>
  /\ u # "down" => \A s \in ToSet(f.left) \cup ToSet(f.kept) \cup ToSet(un) : s < a
  /\ u # "down" => \A s \in DOMAIN g \ {a} :
       \/ f.step \in Busy /\ s = f.seg
       \/ IF f.step = "idle" \/ f.live THEN s \in ToSet(un)
          ELSE s \in ToSet(f.left) \cup ToSet(f.kept)

\* What is still to write is declared and not registered; the rest of the
\* segment is registered, unless something failed.
ToDo(f, c, o) ==
  /\ f.todo \in Seq(Names(f.recs))
  /\ \A i, j \in 1 .. Len(f.todo) : f.todo[i] = f.todo[j] => i = j
  /\ \A p \in ToSet(f.todo) : ~Registered(c, p) /\ p \in DOMAIN c.pending /\ ~c.pending[p]
  /\ ~f.failed => \A p \in Names(f.recs) : Registered(c, p) \/ p \in ToSet(f.todo)
  /\ f.step = "register" =>
       /\ f.todo # <<>>
       /\ Head(f.todo) \in DOMAIN o
       /\ o[Head(f.todo)] = OfStream(f.recs, Head(f.todo).stream)

PersistFits(f, c, o) ==
  /\ f.step \in {"write", "register"} => ToDo(f, c, o)
  /\ f.step \notin {"write", "register"} => f.todo = <<>>
  /\ f.step = "retire" => \A p \in Names(f.recs) : Registered(c, p)

\* No segment holds a record that a file has, or that comes before one.
Behind(id, c, g) ==
  \A s \in DOMAIN g : \A r \in ToSet(g[s].recs) :
    \A x \in c.rows[id].recs : x.seq < r.seq

\* The collector forgets a row only when no replay could look for it.
CollectFits(u, k, c, o, g, n) ==
  /\ k = [step |-> k.step, files |-> k.files, floor |-> k.floor,
          bounded |-> k.bounded, current |-> k.current]
  /\ k.step \in {"idle", "floor", "remove", "forget", "sweep"}
  /\ k.bounded \in BOOLEAN
  /\ u # "serving" => k = NoCollection
  /\ k.step \in {"floor", "remove", "forget"} => k.files \subseteq Collectable(c)
  /\ k.step \in {"remove", "forget"} =>
       IF k.bounded
       THEN /\ k.floor \in Nat /\ k.floor <= n + 1
            /\ \A s \in DOMAIN g : \A r \in ToSet(g[s].recs) : k.floor <= r.seq
       ELSE \A id \in k.files : Behind(id, c, g)
  /\ k.step = "forget" =>
       /\ k.current \in Collectable(c) \ k.files
       /\ c.rows[k.current].path \notin DOMAIN o
       /\ c.rows[k.current].level = 0 => Behind(k.current, c, g)

\* A merge's inputs stay live, and its output is theirs, under a name made of
\* one of its records.
MergeFits(u, m, c, o) ==
  /\ m = [step |-> m.step, ids |-> m.ids, recs |-> m.recs, path |-> m.path]
  /\ m.step \in {"idle", "intend", "write", "publish"}
  /\ u # "serving" => m.step = "idle"
  /\ m.step \in {"intend", "write"} => m.recs # {}
  /\ m.step # "idle" =>
       /\ m.ids \subseteq Live(c) /\ m.ids # {}
       /\ m.recs \subseteq UNION {c.rows[id].recs : id \in m.ids}
  /\ m.step # "idle" /\ m.recs # {} =>
       \E lv \in 0 .. 2, first \in m.recs :
         /\ \A id \in m.ids : /\ c.rows[id].level = lv
                              /\ c.rows[id].path.stream = first.stream
         /\ IF lv = 2 THEN \E id \in m.ids : m.ids = {id} /\ m.path = Path(2, first, id)
            ELSE m.path = Path(lv + 1, first, 0)
  /\ m.step \in {"write", "publish"} /\ m.recs # {} =>
       m.path \in DOMAIN c.pending /\ ~c.pending[m.path]
  /\ m.step = "publish" /\ m.recs # {} => m.path \in DOMAIN o /\ o[m.path] = m.recs

AckFits(acks, c, d, g) ==
  \A r \in acks : \/ r \in Filed(c, d)
                  \/ \E s \in DOMAIN g : r \in HardOf(g[s])

IInv ==
  /\ LogFits(segs, active, removed)
  /\ QueueFits(Kept(segs, removed))
  /\ CatShape(cat)
  /\ RowsFit(cat)
  /\ DroppedFits(cat, dropped)
  /\ ObjectsFit(cat, objects)
  /\ ReplayFits(cat, dropped, Kept(segs, removed))
  /\ SeqsDiffer(cat, Kept(segs, removed))
  /\ BatchFits(up, active, batch, segs, cat.maxSeq)
  /\ SeqFits(up, seq, segs, removed, cat.maxSeq, flusher)
  /\ FlushFits(up, flusher, unflushed, segs, active)
  /\ PersistFits(flusher, cat, objects)
  /\ CollectFits(up, collector, cat, objects, segs, seq)
  /\ MergeFits(up, merge, cat, objects)
  /\ AckFits(acked, cat, dropped, segs)

------------------------------------------------------------------------------
(* The log. *)

\* What the log keeps of each segment.
LEMMA KeptIs ==
  ASSUME NEW g, NEW rm
  PROVE  /\ DOMAIN Kept(g, rm) = DOMAIN g \cup DOMAIN rm
         /\ \A s \in DOMAIN g : Kept(g, rm)[s] = g[s].recs
         /\ \A s \in DOMAIN rm \ DOMAIN g : Kept(g, rm)[s] = rm[s].recs
  BY DEF Kept, RecsOf, Joined

\* What is left of a log: some of its segments, or a prefix of them.
Prefix(x, y) ==
  /\ x \in Seq(Record) /\ Len(x) <= Len(y)
  /\ \A i \in 1 .. Len(x) : x[i] = y[i]

Within(p, q) ==
  \A s \in DOMAIN p :
    /\ s \in Nat
    /\ p[s] = <<>> \/ (s \in DOMAIN q /\ Prefix(p[s], q[s]))

\* A prefix holds no record the whole does not.
LEMMA PrefixIs ==
  ASSUME NEW x, NEW y \in Seq(Record), Prefix(x, y)
  PROVE  /\ Len(x) \in Nat /\ Len(y) \in Nat
         /\ \A i \in 1 .. Len(x) : i \in 1 .. Len(y)
         /\ ToSet(x) = {x[i] : i \in 1 .. Len(x)} /\ ToSet(y) = {y[i] : i \in 1 .. Len(y)}
         /\ ToSet(x) \subseteq ToSet(y)
<1>1. ToSet(x) = {x[i] : i \in 1 .. Len(x)} /\ ToSet(y) = {y[i] : i \in 1 .. Len(y)}
  BY ToSetIs DEF Prefix
<1>2. Len(x) \in Nat /\ Len(y) \in Nat /\ Len(x) <= Len(y)
  BY LenProperties DEF Prefix
<1>3. \A i \in 1 .. Len(x) : i \in 1 .. Len(y)
  BY <1>2
<1> QED
  BY <1>1, <1>2, <1>3 DEF Prefix

\* The name of a stream's object is that of its first record.
LEMMA ObjectNameIs ==
  ASSUME NEW q \in Seq(Record), NEW r \in ToSet(q)
  PROVE  \E i \in 1 .. Len(q) :
           /\ q[i] \in Record /\ q[i].stream = r.stream
           /\ \A j \in 1 .. Len(q) : q[j].stream = r.stream => i <= j
           /\ ObjectName(q, r.stream) = Path(0, q[i], 0)
<1> DEFINE I == {i \in DOMAIN q : q[i].stream = r.stream}
<1>1. DOMAIN q = 1 .. Len(q) /\ Len(q) \in Nat /\ \A i \in 1 .. Len(q) : q[i] \in Record
  BY LenProperties
<1>2. IsFiniteSet(I)
  <2>1. IsFiniteSet(1 .. Len(q))
    BY <1>1, FS_Interval
  <2>2. I \subseteq 1 .. Len(q)
    BY <1>1
  <2> QED
    BY <2>1, <2>2, FS_Subset
<1>3. I # {} /\ I \in SUBSET Int
  BY <1>1, ToSetIs
<1>4. Min(I) \in I /\ \A j \in I : Min(I) <= j
  BY <1>2, <1>3, MinIs
<1> QED
  BY <1>1, <1>4 DEF ObjectName

\* What is left of a segment gives a stream the name the whole gives it, so a
\* replay after a crash looks for the same object (objectName).
LEMMA NameOfPrefix ==
  ASSUME NEW x, NEW y \in Seq(Record), Prefix(x, y), NEW r \in ToSet(x)
  PROVE  ObjectName(x, r.stream) = ObjectName(y, r.stream)
<1>1. x \in Seq(Record) /\ r \in ToSet(y)
  BY PrefixIs DEF Prefix
<1>2. PICK i \in 1 .. Len(x) :
        /\ x[i].stream = r.stream
        /\ \A j \in 1 .. Len(x) : x[j].stream = r.stream => i <= j
        /\ ObjectName(x, r.stream) = Path(0, x[i], 0)
  BY <1>1, ObjectNameIs
<1>3. PICK k \in 1 .. Len(y) :
        /\ y[k].stream = r.stream
        /\ \A j \in 1 .. Len(y) : y[j].stream = r.stream => k <= j
        /\ ObjectName(y, r.stream) = Path(0, y[k], 0)
  BY <1>1, ObjectNameIs
<1>4. Len(x) \in Nat /\ Len(y) \in Nat /\ Len(x) <= Len(y)
      /\ \A j \in 1 .. Len(x) : x[j] = y[j]
  BY PrefixIs DEF Prefix
<1>5. k <= i
  BY <1>2, <1>3, <1>4
<1>6. i = k
  BY <1>2, <1>3, <1>4, <1>5
<1> QED
  BY <1>2, <1>3, <1>4, <1>6

LEMMA WithinIs ==
  ASSUME NEW p, NEW q, QueueFits(q), Within(p, q), NEW s \in DOMAIN p
  PROVE  /\ s \in Nat /\ p[s] \in Seq(Record)
         /\ ToSet(p[s]) # {} => s \in DOMAIN q /\ Prefix(p[s], q[s]) /\ q[s] \in Seq(Record)
         /\ s \in DOMAIN q => ToSet(p[s]) \subseteq ToSet(q[s])
<1>1. CASE p[s] = <<>>
  BY <1>1, EmptySeq, ToSetEmpty DEF Within
<1>2. CASE s \in DOMAIN q /\ Prefix(p[s], q[s])
  BY <1>2, PrefixIs DEF Within, Prefix, QueueFits
<1> QED
  BY <1>1, <1>2 DEF Within

\* A log that has only lost something still fits: three facts.
LEMMA QueueWithin ==
  ASSUME NEW p, NEW q, QueueFits(q), Within(p, q)
  PROVE  QueueFits(p)
<1>1. ASSUME NEW s \in DOMAIN p
      PROVE  /\ s \in Nat /\ p[s] \in Seq(Record)
             /\ \A i, j \in 1 .. Len(p[s]) : i < j => p[s][i].seq < p[s][j].seq
  <2>1. s \in Nat /\ p[s] \in Seq(Record)
    BY <1>1, WithinIs
  <2>2. CASE p[s] = <<>>
    BY <2>1, <2>2, EmptySeq
  <2>3. CASE p[s] # <<>>
    BY <1>1, <2>1, <2>3, PrefixIs DEF QueueFits, Within, Prefix
  <2> QED
    BY <2>1, <2>2, <2>3
<1>2. ASSUME NEW s \in DOMAIN p, NEW t \in DOMAIN p, s < t,
             NEW x \in ToSet(p[s]), NEW y \in ToSet(p[t])
      PROVE  x.seq < y.seq
  <2>1. s \in DOMAIN q /\ t \in DOMAIN q
    BY <1>2, WithinIs
  <2>2. x \in ToSet(q[s]) /\ y \in ToSet(q[t])
    BY <1>2, <2>1, WithinIs
  <2> QED
    BY <1>2, <2>1, <2>2 DEF QueueFits
<1> QED
  BY <1>1, <1>2 DEF QueueFits

LEMMA ReplayWithin ==
  ASSUME NEW p, NEW q, QueueFits(q), Within(p, q), NEW c, NEW d, ReplayFits(c, d, q)
  PROVE  ReplayFits(c, d, p)
<1>1. ASSUME NEW s \in DOMAIN p, NEW r \in ToSet(p[s])
      PROVE  r \in Filed(c, d) <=> Registered(c, ObjectName(p[s], r.stream))
  <2>1. s \in DOMAIN q /\ Prefix(p[s], q[s]) /\ q[s] \in Seq(Record) /\ r \in ToSet(q[s])
    BY <1>1, WithinIs
  <2>2. ObjectName(p[s], r.stream) = ObjectName(q[s], r.stream)
    BY <1>1, <2>1, NameOfPrefix
  <2> QED
    BY <2>1, <2>2 DEF ReplayFits
<1> QED
  BY <1>1 DEF ReplayFits

LEMMA DifferWithin ==
  ASSUME NEW p, NEW q, QueueFits(q), Within(p, q), NEW c, SeqsDiffer(c, q)
  PROVE  SeqsDiffer(c, p)
<1>1. ASSUME NEW s \in DOMAIN p, NEW r \in ToSet(p[s])
      PROVE  s \in DOMAIN q /\ r \in ToSet(q[s])
  BY <1>1, WithinIs
<1> QED
  BY <1>1 DEF SeqsDiffer

\* One number, one segment, one place.
LEMMA SameSeqSamePlace ==
  ASSUME NEW q, QueueFits(q), NEW s \in DOMAIN q, NEW t \in DOMAIN q,
         NEW x \in ToSet(q[s]), NEW y \in ToSet(q[t]), x.seq = y.seq
  PROVE  s = t /\ x = y /\ x \in Record
<1>1. s \in Nat /\ t \in Nat /\ q[s] \in Seq(Record) /\ x \in Record /\ y \in Record
  BY ToSetIs DEF QueueFits
<1>2. x.seq \in Nat /\ y.seq \in Nat
  BY <1>1, RecordAssumption
<1>3. s = t
  <2>1. ~ s < t /\ ~ t < s
    BY <1>2 DEF QueueFits
  <2> QED
    BY <1>1, <2>1
<1>4. PICK i \in 1 .. Len(q[s]) : x = q[s][i]
  BY <1>1, ToSetIs
<1>5. PICK j \in 1 .. Len(q[s]) : y = q[s][j]
  BY <1>1, <1>3, ToSetIs
<1>6. ~ i < j /\ ~ j < i
  BY <1>2, <1>4, <1>5 DEF QueueFits
<1>7. Len(q[s]) \in Nat
  BY <1>1, LenProperties
<1> QED
  BY <1>1, <1>3, <1>4, <1>5, <1>6, <1>7

LEMMA HarderIs ==
  ASSUME NEW g, NEW p \in Picks(g, Harder), DirFits(g)
  PROVE  /\ DOMAIN p = DOMAIN g /\ DirFits(p)
         /\ \A s \in DOMAIN g : /\ p[s].recs = g[s].recs
                                /\ g[s].hard <= p[s].hard /\ p[s].hard <= Len(g[s].recs)
<1>1. DOMAIN p = DOMAIN g /\ \A s \in DOMAIN g : p[s] \in Harder(g[s])
  BY DEF Picks
<1>2. ASSUME NEW s \in DOMAIN g
      PROVE  /\ s \in Nat \ {0} /\ p[s] \in Segment /\ p[s].recs = g[s].recs
             /\ g[s].hard <= p[s].hard /\ p[s].hard <= Len(g[s].recs)
  <2>1. g[s] \in Segment /\ g[s].hard \in Nat /\ Len(g[s].recs) \in Nat /\ s \in Nat \ {0}
    BY LenProperties DEF DirFits, Segment
  <2>2. PICK n \in g[s].hard .. Len(g[s].recs) : p[s] = [g[s] EXCEPT !.hard = n]
    BY <1>1 DEF Harder
  <2>3. n \in Nat
    BY <2>1
  <2> QED
    BY <2>1, <2>2, <2>3 DEF Segment
<1> QED
  BY <1>1, <1>2 DEF DirFits

LEMMA SurvivorIs ==
  ASSUME NEW x \in Segment, x.hard <= Len(x.recs), NEW y \in Survivors(x)
  PROVE  /\ y \in Segment /\ y.hard = x.hard /\ y.hard <= Len(y.recs)
         /\ Prefix(y.recs, x.recs)
<1>1. x.recs \in Seq(Record) /\ x.hard \in Nat /\ Len(x.recs) \in Nat
  BY LenProperties DEF Segment
<1>2. CASE y = x
  BY <1>1, <1>2 DEF Prefix
<1>3. ASSUME NEW k \in x.hard .. Len(x.recs) - 1, NEW b \in BOOLEAN,
             y = [recs |-> SubSeq(x.recs, 1, k), hard |-> x.hard, damaged |-> b]
      PROVE  /\ y \in Segment /\ y.hard = x.hard /\ y.hard <= Len(y.recs)
             /\ Prefix(y.recs, x.recs)
  <2>1. k \in Nat /\ k <= Len(x.recs) /\ x.hard <= k
    BY <1>1
  <2>2. \A i \in 1 .. k : x.recs[i] \in Record
    BY <1>1, <2>1, ElementOfSeq
  <2>3. /\ SubSeq(x.recs, 1, k) \in Seq(Record) /\ Len(SubSeq(x.recs, 1, k)) = k
        /\ \A i \in 1 .. k : SubSeq(x.recs, 1, k)[i] = x.recs[i]
    BY <1>1, <2>1, <2>2, SubSeqProperties
  <2> QED
    BY <1>1, <1>3, <2>1, <2>3 DEF Segment, Prefix
<1>4. ASSUME NEW b \in BOOLEAN, y = [x EXCEPT !.damaged = b]
      PROVE  /\ y \in Segment /\ y.hard = x.hard /\ y.hard <= Len(y.recs)
             /\ Prefix(y.recs, x.recs)
  BY <1>1, <1>4 DEF Segment, Prefix
<1> QED
  BY <1>2, <1>3, <1>4 DEF Survivors

LEMMA SurvivorsAre ==
  ASSUME NEW g, NEW p \in Picks(g, Survivors), DirFits(g)
  PROVE  /\ DOMAIN p = DOMAIN g /\ DirFits(p)
         /\ \A s \in DOMAIN g : p[s].hard = g[s].hard /\ Prefix(p[s].recs, g[s].recs)
<1>1. DOMAIN p = DOMAIN g /\ \A s \in DOMAIN g : p[s] \in Survivors(g[s])
  BY DEF Picks
<1>2. \A s \in DOMAIN g : /\ s \in Nat \ {0} /\ p[s] \in Segment /\ p[s].hard <= Len(p[s].recs)
                          /\ p[s].hard = g[s].hard /\ Prefix(p[s].recs, g[s].recs)
  BY <1>1, SurvivorIs DEF DirFits
<1> QED
  BY <1>1, <1>2 DEF DirFits

\* The same records in both.
LEMMA WithinSame ==
  ASSUME NEW g, NEW rm, NEW h, NEW rn, QueueFits(Kept(g, rm)),
         DOMAIN h \cup DOMAIN rn \subseteq DOMAIN g \cup DOMAIN rm,
         DOMAIN g \cap DOMAIN rm = {}, DOMAIN h \cap DOMAIN rn = {},
         \A s \in DOMAIN h : h[s].recs = Kept(g, rm)[s],
         \A s \in DOMAIN rn : rn[s].recs = Kept(g, rm)[s]
  PROVE  Within(Kept(h, rn), Kept(g, rm))
<1>1. /\ DOMAIN Kept(h, rn) = DOMAIN h \cup DOMAIN rn
      /\ \A s \in DOMAIN h : Kept(h, rn)[s] = h[s].recs
      /\ \A s \in DOMAIN rn : Kept(h, rn)[s] = rn[s].recs
      /\ DOMAIN Kept(g, rm) = DOMAIN g \cup DOMAIN rm
  <2>1. \A s \in DOMAIN rn : s \in DOMAIN rn \ DOMAIN h
    OBVIOUS
  <2> QED
    BY <2>1 DEF Kept, RecsOf, Joined
<1>2. ASSUME NEW s \in DOMAIN Kept(h, rn)
      PROVE  s \in Nat /\ s \in DOMAIN Kept(g, rm) /\ Prefix(Kept(h, rn)[s], Kept(g, rm)[s])
  <2>1. s \in DOMAIN Kept(g, rm) /\ Kept(h, rn)[s] = Kept(g, rm)[s]
    BY <1>1, <1>2
  <2>2. s \in Nat /\ Kept(g, rm)[s] \in Seq(Record) /\ Len(Kept(g, rm)[s]) \in Nat
    BY <2>1, LenProperties DEF QueueFits
  <2> QED
    BY <2>1, <2>2 DEF Prefix
<1> QED
  BY <1>2 DEF Within

\* What each operation of the log does to what it keeps: opening it,
LEMMA OpenIs ==
  ASSUME LogFits(segs, active, removed), QueueFits(Kept(segs, removed)), LogOpen
  PROVE  /\ LogFits(segs, active, removed)'
         /\ Within(Kept(segs, removed)', Kept(segs, removed))
         /\ active' \in Nat \ {0} /\ \A s \in DOMAIN segs : s < active'
         /\ DOMAIN segs' = DOMAIN segs \cup {active'}
         /\ segs'[active'] = EmptySegment
         /\ \A s \in DOMAIN segs : segs'[s] = segs[s]
         /\ removed' = removed
<1>1. /\ segs' = With(segs, active', EmptySegment) /\ removed' = removed /\ active = 0
      /\ active' \in {1} \cup {s + 1 : s \in DOMAIN segs}
      /\ \A s \in DOMAIN segs : s < active'
  BY DEF LogOpen, NextNumber
<1>2. \A s \in DOMAIN segs : s \in Nat \ {0}
  BY DEF LogFits, DirFits
<1>3. active' \in Nat \ {0}
  BY <1>1, <1>2
<1>4. /\ DOMAIN segs' = DOMAIN segs \cup {active'} /\ segs'[active'] = EmptySegment
      /\ \A s \in DOMAIN segs : segs'[s] = segs[s]
  <2>1. active' \notin DOMAIN segs
    BY <1>1, <1>2, <1>3
  <2> QED
    BY <1>1, <2>1 DEF With
<1>5. \A s \in DOMAIN removed : s \in Nat /\ s < active'
  BY <1>1, <1>2, <1>3 DEF LogFits, DirFits
<1>6. DirFits(segs')
  <2>1. EmptySegment \in Segment /\ EmptySegment.hard <= Len(EmptySegment.recs)
    BY EmptySeq DEF EmptySegment, Segment
  <2>2. IsFiniteSet(DOMAIN segs \cup {active'})
    BY FS_AddElement DEF LogFits, DirFits
  <2> QED
    BY <1>3, <1>4, <2>1, <2>2 DEF LogFits, DirFits
<1>7. LogFits(segs, active, removed)'
  <2>1. DOMAIN segs' \cap DOMAIN removed = {}
    BY <1>4, <1>5, <1>3 DEF LogFits
  <2>2. \A s \in DOMAIN segs' \cup DOMAIN removed : s <= active'
    BY <1>2, <1>1, <1>3, <1>4, <1>5
  <2>3. \A s \in DOMAIN removed : \E t \in DOMAIN segs' : s < t
    BY <1>4, <1>5
  <2> QED
    BY <1>1, <1>3, <1>4, <1>6, <2>1, <2>2, <2>3 DEF LogFits
<1>8. Within(Kept(segs, removed)', Kept(segs, removed))
  <2> DEFINE q == Kept(segs, removed)
             p == Kept(segs', removed')
  <2>1. /\ DOMAIN p = DOMAIN segs' \cup DOMAIN removed' /\ DOMAIN q = DOMAIN segs \cup DOMAIN removed
        /\ \A s \in DOMAIN segs' : p[s] = segs'[s].recs
        /\ \A s \in DOMAIN removed' \ DOMAIN segs' : p[s] = removed'[s].recs
        /\ \A s \in DOMAIN segs : q[s] = segs[s].recs
        /\ \A s \in DOMAIN removed \ DOMAIN segs : q[s] = removed[s].recs
    BY KeptIs
  <2> HIDE DEF p, q
  <2>2. p[active'] = <<>> /\ active' \in Nat
    BY <1>3, <1>4, <2>1 DEF EmptySegment
  <2>3. \A s \in DOMAIN p \ {active'} : s \in DOMAIN q /\ p[s] = q[s]
    BY <1>1, <1>4, <1>7, <2>1 DEF LogFits
  <2>4. \A s \in DOMAIN q : s \in Nat /\ Prefix(q[s], q[s])
    <3>1. TAKE s \in DOMAIN q
    <3>2. s \in Nat /\ q[s] \in Seq(Record)
      BY DEF QueueFits, q
    <3>3. Len(q[s]) \in Nat
      BY <3>2, LenProperties
    <3> QED
      BY <3>2, <3>3 DEF Prefix
  <2>5. Within(p, q)
    BY <2>2, <2>3, <2>4 DEF Within
  <2> QED
    BY <2>5 DEF p, q
<1> QED
  BY <1>1, <1>3, <1>4, <1>7, <1>8

\* Every segment as it was, with more of it on disk.
Hardened(g, h) ==
  /\ DOMAIN h = DOMAIN g
  /\ \A s \in DOMAIN g : /\ h[s].recs = g[s].recs
                         /\ HardOf(g[s]) \subseteq HardOf(h[s])

LEMMA HardenedIs ==
  ASSUME NEW g, NEW h \in Picks(g, Harder), DirFits(g)
  PROVE  Hardened(g, h)
<1>1. DOMAIN h = DOMAIN g /\ DirFits(h)
      /\ \A s \in DOMAIN g : h[s].recs = g[s].recs /\ g[s].hard <= h[s].hard
  BY HarderIs
<1>2. \A s \in DOMAIN g : g[s].hard \in Nat /\ h[s].hard \in Nat
  BY <1>1 DEF DirFits, Segment
<1>3. ASSUME NEW s \in DOMAIN g, NEW i \in 1 .. g[s].hard PROVE i \in 1 .. h[s].hard
  BY <1>1, <1>2, <1>3
<1> QED
  BY <1>1, <1>3 DEF Hardened, HardOf

\* a sync,
LEMMA SyncIs ==
  ASSUME LogFits(segs, active, removed), QueueFits(Kept(segs, removed)), LogSync
  PROVE  /\ LogFits(segs, active, removed)'
         /\ Within(Kept(segs, removed)', Kept(segs, removed))
         /\ Hardened(segs, segs') /\ active' = active /\ removed' \in {removed, <<>>}
<1>1. segs' \in Picks(segs, Harder) /\ removed' \in {removed, <<>>} /\ active' = active
  BY DEF LogSync
<1>2. Hardened(segs, segs') /\ DOMAIN segs' = DOMAIN segs /\ DirFits(segs')
  BY <1>1, HarderIs, HardenedIs DEF LogFits
<1>3. DOMAIN removed' \subseteq DOMAIN removed /\ \A s \in DOMAIN removed' : removed'[s] = removed[s]
  BY <1>1
<1>4. DirFits(removed')
  BY <1>1, <1>3, FS_Subset DEF LogFits, DirFits
<1>5. LogFits(segs, active, removed)'
  BY <1>1, <1>2, <1>3, <1>4 DEF LogFits
<1>6. Within(Kept(segs', removed'), Kept(segs, removed))
  <2>1. \A s \in DOMAIN segs' : segs'[s].recs = Kept(segs, removed)[s]
    BY <1>2 DEF Hardened, Kept, RecsOf, Joined
  <2>2. \A s \in DOMAIN removed' : removed'[s].recs = Kept(segs, removed)[s]
    BY <1>3 DEF LogFits, Kept, RecsOf, Joined
  <2> QED
    BY <1>2, <1>3, <1>5, <2>1, <2>2, WithinSame DEF LogFits
<1> QED
  BY <1>1, <1>2, <1>5, <1>6

\* a rotation,
LEMMA RotateIs ==
  ASSUME LogFits(segs, active, removed), QueueFits(Kept(segs, removed)), LogRotate
  PROVE  /\ LogFits(segs, active, removed)'
         /\ Within(Kept(segs, removed)', Kept(segs, removed))
         /\ active \in DOMAIN segs /\ active' = active + 1 /\ active' \notin DOMAIN segs
         /\ removed' \in {removed, <<>>}
         /\ \E dir : /\ Hardened(segs, dir) /\ DOMAIN segs' = DOMAIN segs \cup {active'}
                     /\ segs'[active'] = EmptySegment
                     /\ \A s \in DOMAIN segs : segs'[s] = dir[s]
<1>1. PICK dir \in Picks(segs, Harder) : segs' = With(dir, active + 1, EmptySegment)
  BY DEF LogRotate
<1>2. active # 0 /\ active' = active + 1 /\ removed' \in {removed, <<>>}
  BY DEF LogRotate
<1>3. Hardened(segs, dir) /\ DOMAIN dir = DOMAIN segs /\ DirFits(dir)
  BY <1>1, HarderIs, HardenedIs DEF LogFits
<1>4. /\ active \in Nat \ {0} /\ active \in DOMAIN segs
      /\ \A s \in DOMAIN segs \cup DOMAIN removed : s \in Nat /\ s <= active
  BY <1>2 DEF LogFits, DirFits
<1>5. active' \in Nat \ {0} /\ active' \notin DOMAIN segs \cup DOMAIN removed
  BY <1>2, <1>4
<1>6. /\ DOMAIN segs' = DOMAIN segs \cup {active'} /\ segs'[active'] = EmptySegment
      /\ \A s \in DOMAIN segs : segs'[s] = dir[s]
  BY <1>1, <1>2, <1>3, <1>5 DEF With
<1>7. DirFits(segs')
  <2>1. EmptySegment \in Segment /\ EmptySegment.hard <= Len(EmptySegment.recs)
    BY EmptySeq DEF EmptySegment, Segment
  <2>2. IsFiniteSet(DOMAIN segs \cup {active'})
    BY FS_AddElement DEF LogFits, DirFits
  <2> QED
    BY <1>3, <1>5, <1>6, <2>1, <2>2 DEF LogFits, DirFits
<1>8. DOMAIN removed' \subseteq DOMAIN removed /\ \A s \in DOMAIN removed' : removed'[s] = removed[s]
  BY <1>2
<1>9. DirFits(removed')
  BY <1>2, <1>8, FS_Subset DEF LogFits, DirFits
<1>10. LogFits(segs, active, removed)'
  <2>1. DOMAIN segs' \cap DOMAIN removed' = {}
    BY <1>5, <1>6, <1>8 DEF LogFits
  <2>2. \A s \in DOMAIN segs' \cup DOMAIN removed' : s <= active'
    BY <1>2, <1>4, <1>5, <1>6, <1>8
  <2>3. \A s \in DOMAIN removed' : \E t \in DOMAIN segs' : s < t
    BY <1>6, <1>8 DEF LogFits
  <2> QED
    BY <1>5, <1>6, <1>7, <1>9, <2>1, <2>2, <2>3 DEF LogFits
<1>11. Within(Kept(segs', removed'), Kept(segs, removed))
  <2> DEFINE q == Kept(segs, removed)
             p == Kept(segs', removed')
  <2>1. /\ DOMAIN p = DOMAIN segs' \cup DOMAIN removed' /\ DOMAIN q = DOMAIN segs \cup DOMAIN removed
        /\ \A s \in DOMAIN segs' : p[s] = segs'[s].recs
        /\ \A s \in DOMAIN removed' \ DOMAIN segs' : p[s] = removed'[s].recs
        /\ \A s \in DOMAIN segs : q[s] = segs[s].recs
        /\ \A s \in DOMAIN removed \ DOMAIN segs : q[s] = removed[s].recs
    BY KeptIs
  <2> HIDE DEF p, q
  <2>2. p[active'] = <<>> /\ active' \in Nat
    BY <1>5, <1>6, <2>1 DEF EmptySegment
  <2>3. \A s \in DOMAIN segs : p[s] = q[s]
    BY <1>3, <1>6, <2>1 DEF Hardened
  <2>4. \A s \in DOMAIN removed' : p[s] = q[s] /\ s \in DOMAIN q
    BY <1>8, <1>10, <2>1 DEF LogFits
  <2>5. \A s \in DOMAIN q : s \in Nat /\ Prefix(q[s], q[s])
    <3>1. TAKE s \in DOMAIN q
    <3>2. s \in Nat /\ q[s] \in Seq(Record)
      BY DEF QueueFits, q
    <3>3. Len(q[s]) \in Nat
      BY <3>2, LenProperties
    <3> QED
      BY <3>2, <3>3 DEF Prefix
  <2>6. Within(p, q)
    BY <1>6, <2>1, <2>2, <2>3, <2>4, <2>5 DEF Within
  <2> QED
    BY <2>6 DEF p, q
<1> QED
  BY <1>2, <1>3, <1>4, <1>5, <1>6, <1>10, <1>11

\* the removal of a segment,
LEMMA RemoveIs ==
  ASSUME LogFits(segs, active, removed), QueueFits(Kept(segs, removed)),
         NEW s, LogRemove(s)
  PROVE  /\ LogFits(segs, active, removed)'
         /\ Within(Kept(segs, removed)', Kept(segs, removed))
         /\ s \in DOMAIN segs \ {active} /\ active' = active
         /\ DOMAIN segs' = DOMAIN segs \ {s} /\ \A t \in DOMAIN segs' : segs'[t] = segs[t]
         /\ DOMAIN removed' = DOMAIN removed \cup {s} /\ removed'[s] = segs[s]
         /\ \A t \in DOMAIN removed : removed'[t] = removed[t]
<1>1. /\ s \in DOMAIN segs \ {active} /\ active' = active /\ active # 0
      /\ segs' = Without(segs, s) /\ removed' = With(removed, s, segs[s])
  BY DEF LogRemove, Sealed
<1>2. s \notin DOMAIN removed /\ active \in DOMAIN segs /\ s \in Nat \ {0} /\ active \in Nat
  BY <1>1 DEF LogFits, DirFits
<1>3. DOMAIN segs' = DOMAIN segs \ {s} /\ \A t \in DOMAIN segs' : segs'[t] = segs[t]
  BY <1>1 DEF Without
<1>4. /\ DOMAIN removed' = DOMAIN removed \cup {s} /\ removed'[s] = segs[s]
      /\ \A t \in DOMAIN removed : removed'[t] = removed[t]
  BY <1>1, <1>2 DEF With
<1>5. DirFits(segs')
  BY <1>3, FS_Subset DEF LogFits, DirFits
<1>6. DirFits(removed')
  <2>1. IsFiniteSet(DOMAIN removed \cup {s})
    BY FS_AddElement DEF LogFits, DirFits
  <2> QED
    BY <1>1, <1>4, <2>1 DEF LogFits, DirFits
<1>7. LogFits(segs, active, removed)'
  <2>1. \A t \in DOMAIN removed' : t < active
    BY <1>1, <1>2, <1>4 DEF LogFits, DirFits
  <2> QED
    BY <1>1, <1>2, <1>3, <1>4, <1>5, <1>6, <2>1 DEF LogFits
<1>8. Within(Kept(segs', removed'), Kept(segs, removed))
  <2>1. \A t \in DOMAIN segs' : segs'[t].recs = Kept(segs, removed)[t]
    BY <1>3 DEF Kept, RecsOf, Joined
  <2>2. \A t \in DOMAIN removed' : removed'[t].recs = Kept(segs, removed)[t]
    BY <1>1, <1>4 DEF LogFits, Kept, RecsOf, Joined
  <2> QED
    BY <1>1, <1>3, <1>4, <1>7, <2>1, <2>2, WithinSame DEF LogFits
<1> QED
  BY <1>1, <1>3, <1>4, <1>7, <1>8

\* the quarantine of a damaged one,
LEMMA QuarantineIs ==
  ASSUME LogFits(segs, active, removed), QueueFits(Kept(segs, removed)),
         NEW s, LogQuarantine(s)
  PROVE  /\ LogFits(segs, active, removed)'
         /\ Within(Kept(segs, removed)', Kept(segs, removed))
         /\ s \in DOMAIN segs \ {active} /\ active' = active /\ removed' = <<>>
         /\ Hardened(Without(segs, s), segs')
<1>1. /\ s \in DOMAIN segs \ {active} /\ active' = active /\ active # 0 /\ removed' = <<>>
      /\ segs' \in Picks(Without(segs, s), Harder)
  BY DEF LogQuarantine, Sealed
<1>2. /\ DOMAIN Without(segs, s) = DOMAIN segs \ {s}
      /\ \A t \in DOMAIN segs \ {s} : Without(segs, s)[t] = segs[t]
  BY DEF Without
<1>3. DirFits(Without(segs, s))
  BY <1>2, FS_Subset DEF LogFits, DirFits
<1>4. Hardened(Without(segs, s), segs') /\ DirFits(segs') /\ DOMAIN segs' = DOMAIN segs \ {s}
  BY <1>1, <1>2, <1>3, HarderIs, HardenedIs
<1>5. DOMAIN removed' = {} /\ DirFits(removed')
  BY <1>1, FS_EmptySet DEF DirFits
<1>6. LogFits(segs, active, removed)'
  BY <1>1, <1>4, <1>5 DEF LogFits
<1>7. Within(Kept(segs', removed'), Kept(segs, removed))
  <2>1. \A t \in DOMAIN segs' : segs'[t].recs = Kept(segs, removed)[t]
    BY <1>2, <1>4 DEF Hardened, Kept, RecsOf, Joined
  <2> QED
    BY <1>4, <1>5, <2>1, WithinSame DEF LogFits
<1> QED
  BY <1>1, <1>4, <1>6, <1>7

\* The unlinks become final.
LEMMA FinalIs ==
  ASSUME LogFits(segs, active, removed), QueueFits(Kept(segs, removed)),
         UNCHANGED <<segs, active>>, removed' \in {removed, <<>>}
  PROVE  /\ LogFits(segs, active, removed)'
         /\ Within(Kept(segs, removed)', Kept(segs, removed))
<1>1. DOMAIN removed' \subseteq DOMAIN removed /\ \A s \in DOMAIN removed' : removed'[s] = removed[s]
  OBVIOUS
<1>2. DirFits(removed')
  BY <1>1, FS_Subset DEF LogFits, DirFits
<1>3. LogFits(segs, active, removed)'
  BY <1>1, <1>2 DEF LogFits
<1>4. Within(Kept(segs', removed'), Kept(segs, removed))
  <2>1. \A s \in DOMAIN segs' : segs'[s].recs = Kept(segs, removed)[s]
    BY DEF Kept, RecsOf, Joined
  <2>2. \A s \in DOMAIN removed' : removed'[s].recs = Kept(segs, removed)[s]
    BY <1>1 DEF LogFits, Kept, RecsOf, Joined
  <2> QED
    BY <1>1, <1>3, <2>1, <2>2, WithinSame DEF LogFits
<1> QED
  BY <1>3, <1>4

\* No crash takes the part of a segment that is on disk for good.
LEMMA PrefixHard ==
  ASSUME NEW x \in Segment, NEW y \in Segment, x.hard <= Len(x.recs), x.hard = y.hard,
         y.hard <= Len(y.recs), Prefix(y.recs, x.recs)
  PROVE  HardOf(x) = HardOf(y)
<1>1. x.hard \in Nat /\ Len(y.recs) \in Nat
  BY LenProperties DEF Segment
<1>2. \A i \in 1 .. x.hard : i \in 1 .. Len(y.recs) /\ y.recs[i] = x.recs[i]
  BY <1>1 DEF Prefix
<1> QED
  BY <1>2 DEF HardOf

\* What was on disk for good is in what a stop leaves.
StillHard(g, h) ==
  \A s \in DOMAIN g : \A r \in HardOf(g[s]) : s \in DOMAIN h /\ r \in HardOf(h[s])

\* the end of the process,
LEMMA KillIs ==
  ASSUME LogFits(segs, active, removed), QueueFits(Kept(segs, removed)), LogKill
  PROVE  /\ LogFits(segs, active, removed)'
         /\ Within(Kept(segs, removed)', Kept(segs, removed))
         /\ active' = 0 /\ removed' = removed /\ StillHard(segs, segs')
<1>1. active' = 0 /\ removed' = removed /\ segs' \in Picks(segs, Survivors)
  BY DEF LogKill
<1>2. /\ DOMAIN segs' = DOMAIN segs /\ DirFits(segs') /\ DirFits(segs)
      /\ \A s \in DOMAIN segs : segs'[s].hard = segs[s].hard /\ Prefix(segs'[s].recs, segs[s].recs)
  BY <1>1, SurvivorsAre DEF LogFits
<1>3. LogFits(segs, active, removed)'
  BY <1>1, <1>2 DEF LogFits
<1>4. StillHard(segs, segs')
  BY <1>2, PrefixHard DEF StillHard, DirFits
<1>5. Within(Kept(segs', removed'), Kept(segs, removed))
  <2> DEFINE q == Kept(segs, removed)
             p == Kept(segs', removed')
  <2>1. /\ DOMAIN p = DOMAIN segs' \cup DOMAIN removed' /\ DOMAIN q = DOMAIN segs \cup DOMAIN removed
        /\ \A s \in DOMAIN segs' : p[s] = segs'[s].recs
        /\ \A s \in DOMAIN removed' \ DOMAIN segs' : p[s] = removed'[s].recs
        /\ \A s \in DOMAIN segs : q[s] = segs[s].recs
        /\ \A s \in DOMAIN removed \ DOMAIN segs : q[s] = removed[s].recs
    BY KeptIs
  <2> HIDE DEF p, q
  <2>2. \A s \in DOMAIN q : s \in Nat /\ Prefix(q[s], q[s])
    <3>1. TAKE s \in DOMAIN q
    <3>2. s \in Nat /\ q[s] \in Seq(Record)
      BY DEF QueueFits, q
    <3>3. Len(q[s]) \in Nat
      BY <3>2, LenProperties
    <3> QED
      BY <3>2, <3>3 DEF Prefix
  <2>3. DOMAIN p = DOMAIN q
    BY <1>1, <1>2, <2>1
  <2>4. \A s \in DOMAIN segs : Prefix(p[s], q[s])
    BY <1>2, <2>1
  <2>5. \A s \in DOMAIN removed \ DOMAIN segs : p[s] = q[s]
    BY <1>1, <1>2, <2>1
  <2>6. Within(p, q)
    BY <2>1, <2>2, <2>3, <2>4, <2>5 DEF Within
  <2> QED
    BY <2>6 DEF p, q
<1> QED
  BY <1>1, <1>3, <1>4, <1>5

\* the loss of power,
LEMMA PowerLossIs ==
  ASSUME LogFits(segs, active, removed), QueueFits(Kept(segs, removed)), LogPowerLoss
  PROVE  /\ LogFits(segs, active, removed)'
         /\ Within(Kept(segs, removed)', Kept(segs, removed))
         /\ active' = 0 /\ removed' = <<>> /\ StillHard(segs, segs')
<1>1. active' = 0 /\ removed' = <<>>
  BY DEF LogPowerLoss
<1>2. PICK lost \in SUBSET {s \in DOMAIN segs : segs[s].hard = 0},
           back \in SUBSET (DOMAIN removed) :
        segs' \in Picks(Joined([s \in DOMAIN segs \ lost |-> segs[s]],
                               [s \in back |-> removed[s]]), Survivors)
  BY DEF LogPowerLoss
<1> DEFINE h == Joined([s \in DOMAIN segs \ lost |-> segs[s]], [s \in back |-> removed[s]])
<1>3. /\ DOMAIN h = (DOMAIN segs \ lost) \cup back
      /\ \A s \in DOMAIN segs \ lost : h[s] = segs[s]
      /\ \A s \in back : h[s] = removed[s]
  BY DEF Joined, LogFits
<1>4. segs' \in Picks(h, Survivors)
  BY <1>2
<1> HIDE DEF h
<1>5. DirFits(h)
  <2>1. IsFiniteSet((DOMAIN segs \ lost) \cup back)
    <3>1. IsFiniteSet(DOMAIN segs \ lost) /\ IsFiniteSet(back)
      BY FS_Subset DEF LogFits, DirFits
    <3> QED
      BY <3>1, FS_Union
  <2> QED
    BY <1>3, <2>1 DEF LogFits, DirFits
<1>6. /\ DOMAIN segs' = DOMAIN h /\ DirFits(segs')
      /\ \A s \in DOMAIN h : segs'[s].hard = h[s].hard /\ Prefix(segs'[s].recs, h[s].recs)
  BY <1>4, <1>5, SurvivorsAre
<1>7. LogFits(segs, active, removed)'
  <2>1. DOMAIN removed' = {} /\ DirFits(removed')
    BY <1>1, FS_EmptySet DEF DirFits
  <2> QED
    BY <1>1, <1>6, <2>1 DEF LogFits
<1>8. StillHard(segs, segs')
  <2>1. ASSUME NEW s \in DOMAIN segs, NEW r \in HardOf(segs[s])
        PROVE  s \in DOMAIN segs' /\ r \in HardOf(segs'[s])
    <3>1. segs[s].hard # 0
      BY <2>1 DEF HardOf
    <3>2. s \in DOMAIN h /\ h[s] = segs[s]
      BY <1>3, <3>1
    <3>3. HardOf(h[s]) = HardOf(segs'[s])
      BY <1>5, <1>6, <3>2, PrefixHard DEF DirFits
    <3> QED
      BY <1>6, <2>1, <3>2, <3>3
  <2> QED
    BY <2>1 DEF StillHard
<1>9. Within(Kept(segs', removed'), Kept(segs, removed))
  <2> DEFINE q == Kept(segs, removed)
             p == Kept(segs', removed')
  <2>1. /\ DOMAIN p = DOMAIN segs' \cup DOMAIN removed' /\ DOMAIN q = DOMAIN segs \cup DOMAIN removed
        /\ \A s \in DOMAIN segs' : p[s] = segs'[s].recs
        /\ \A s \in DOMAIN segs : q[s] = segs[s].recs
        /\ \A s \in DOMAIN removed \ DOMAIN segs : q[s] = removed[s].recs
    BY KeptIs
  <2> HIDE DEF p, q
  <2>2. DOMAIN p = DOMAIN h
    BY <1>1, <1>6, <2>1
  <2>3. \A s \in DOMAIN h : s \in DOMAIN q /\ h[s].recs = q[s]
    BY <1>3, <2>1 DEF LogFits
  <2>4. \A s \in DOMAIN h : s \in Nat /\ Prefix(p[s], q[s])
    BY <1>5, <1>6, <2>1, <2>3 DEF DirFits
  <2>5. Within(p, q)
    BY <2>2, <2>3, <2>4 DEF Within
  <2> QED
    BY <2>5 DEF p, q
<1> QED
  BY <1>1, <1>7, <1>8, <1>9

\* and an append.
LEMMA AppendIs ==
  ASSUME LogFits(segs, active, removed), QueueFits(Kept(segs, removed)),
         NEW r \in Record, LogAppend(r)
  PROVE  /\ LogFits(segs, active, removed)'
         /\ active \in DOMAIN segs /\ active' = active /\ removed' = removed
         /\ DOMAIN segs' = DOMAIN segs /\ segs[active].recs \in Seq(Record)
         /\ segs'[active].recs = Append(segs[active].recs, r)
         /\ \A s \in DOMAIN segs \ {active} : segs'[s] = segs[s]
         /\ \A s \in DOMAIN segs : HardOf(segs[s]) \subseteq HardOf(segs'[s])
         /\ DOMAIN Kept(segs, removed)' = DOMAIN Kept(segs, removed)
         /\ active \in DOMAIN Kept(segs, removed)
         /\ Kept(segs, removed)[active] = segs[active].recs
         /\ Kept(segs, removed)'[active] = Append(segs[active].recs, r)
         /\ \A s \in DOMAIN Kept(segs, removed) \ {active} :
              Kept(segs, removed)'[s] = Kept(segs, removed)[s]
<1>1. /\ active \in DOMAIN segs /\ active' = active /\ removed' = removed
      /\ segs' = [segs EXCEPT ![active].recs = Append(@, r)]
  BY DEF LogAppend, LogFits
<1>2. /\ segs[active] \in Segment /\ segs[active].recs \in Seq(Record)
      /\ segs[active].hard \in Nat /\ segs[active].hard <= Len(segs[active].recs)
      /\ Len(segs[active].recs) \in Nat
  BY <1>1, LenProperties DEF LogFits, DirFits, Segment
<1> DEFINE x == Append(segs[active].recs, r)
<1>3. /\ x \in Seq(Record) /\ Len(x) = Len(segs[active].recs) + 1
      /\ \A i \in 1 .. Len(segs[active].recs) : x[i] = segs[active].recs[i]
  BY <1>2
<1>4. /\ DOMAIN segs' = DOMAIN segs
      /\ segs'[active] = [segs[active] EXCEPT !.recs = x]
      /\ \A s \in DOMAIN segs \ {active} : segs'[s] = segs[s]
  BY <1>1
<1> HIDE DEF x
<1>5. /\ segs'[active].recs = x /\ segs'[active].hard = segs[active].hard
      /\ segs'[active] \in Segment
  BY <1>2, <1>3, <1>4 DEF Segment
<1>6. HardOf(segs[active]) = HardOf(segs'[active])
  <2>1. \A i \in 1 .. segs[active].hard : i \in 1 .. Len(segs[active].recs)
    BY <1>2
  <2> QED
    BY <1>3, <1>5, <2>1 DEF HardOf
<1>7. DirFits(segs')
  <2>1. segs'[active].hard <= Len(segs'[active].recs)
    BY <1>2, <1>3, <1>5
  <2>2. \A s \in DOMAIN segs' : /\ s \in Nat \ {0} /\ segs'[s] \in Segment
                                /\ segs'[s].hard <= Len(segs'[s].recs)
    BY <1>4, <1>5, <2>1 DEF LogFits, DirFits
  <2> QED
    BY <1>4, <2>2 DEF LogFits, DirFits
<1>8. LogFits(segs, active, removed)'
  BY <1>1, <1>4, <1>7 DEF LogFits
<1>9. /\ DOMAIN Kept(segs', removed') = DOMAIN Kept(segs, removed)
      /\ active \in DOMAIN Kept(segs, removed)
      /\ Kept(segs, removed)[active] = segs[active].recs
      /\ Kept(segs', removed')[active] = x
      /\ \A s \in DOMAIN Kept(segs, removed) \ {active} :
           Kept(segs', removed')[s] = Kept(segs, removed)[s]
  BY <1>1, <1>4, <1>5 DEF Kept, RecsOf, Joined
<1> QED
  BY <1>1, <1>2, <1>4, <1>5, <1>6, <1>8, <1>9 DEF x

------------------------------------------------------------------------------
(* The catalogue. *)

\* What depends on the rows alone.
LEMMA SameRows ==
  ASSUME NEW c, NEW e, e.rows = c.rows, e.nextId = c.nextId, e.maxSeq = c.maxSeq
  PROVE  /\ \A p : Registered(e, p) <=> Registered(c, p)
         /\ Live(e) = Live(c) /\ Collectable(e) = Collectable(c)
         /\ RowsFit(c) => RowsFit(e)
         /\ \A d : /\ Filed(e, d) = Filed(c, d)
                   /\ DroppedFits(c, d) => DroppedFits(e, d)
                   /\ \A q : ReplayFits(c, d, q) => ReplayFits(e, d, q)
                   /\ \A k, g : AckFits(k, c, d, g) => AckFits(k, e, d, g)
         /\ \A q : SeqsDiffer(c, q) => SeqsDiffer(e, q)
         /\ \A id, g : Behind(id, c, g) <=> Behind(id, e, g)
<1>1. /\ \A p : Registered(e, p) <=> Registered(c, p)
      /\ Live(e) = Live(c) /\ Collectable(e) = Collectable(c)
  BY DEF Registered, Live, Collectable
<1>2. \A d : Filed(e, d) = Filed(c, d) /\ LiveIn(e) = LiveIn(c)
  BY <1>1 DEF Filed, LiveIn
<1>3. RowsFit(c) => RowsFit(e)
  BY <1>1 DEF RowsFit, RowFits
<1>4. \A d : DroppedFits(c, d) => DroppedFits(e, d)
  BY <1>2 DEF DroppedFits
<1>5. \A d, q : ReplayFits(c, d, q) => ReplayFits(e, d, q)
  BY <1>1, <1>2 DEF ReplayFits
<1>6. \A d, k, g : AckFits(k, c, d, g) => AckFits(k, e, d, g)
  BY <1>2 DEF AckFits
<1>7. /\ \A q : SeqsDiffer(c, q) => SeqsDiffer(e, q)
      /\ \A id, g : Behind(id, c, g) <=> Behind(id, e, g)
  BY DEF SeqsDiffer, Behind
<1> QED
  BY <1>1, <1>2, <1>3, <1>4, <1>5, <1>6, <1>7

\* What each transaction of the catalogue does: Intend,
LEMMA IntendIs ==
  ASSUME NEW c, CatShape(c), NEW P
  PROVE  LET e == Intend(c, P)
         IN  /\ CatShape(e) /\ e.rows = c.rows /\ e.nextId = c.nextId
             /\ e.maxSeq = c.maxSeq /\ e.rollup = c.rollup
             /\ DOMAIN c.pending \subseteq DOMAIN e.pending
             /\ \A p \in DOMAIN c.pending : ~c.pending[p] => ~e.pending[p]
             /\ \A p \in P : ~Registered(c, p) => p \in DOMAIN e.pending /\ ~e.pending[p]
<1> DEFINE fresh == {p \in P : ~Registered(c, p)}
           pend == Joined([p \in fresh |-> FALSE], c.pending)
           e == Intend(c, P)
<1>1. e = [c EXCEPT !.pending = pend]
  BY DEF Intend
<1>2. /\ DOMAIN pend = fresh \cup DOMAIN c.pending
      /\ \A p \in fresh : pend[p] = FALSE
      /\ \A p \in DOMAIN c.pending \ fresh : pend[p] = c.pending[p]
  BY DEF Joined
<1> HIDE DEF pend, e
<1>3. /\ e.rows = c.rows /\ e.nextId = c.nextId /\ e.maxSeq = c.maxSeq
      /\ e.rollup = c.rollup /\ e.pending = pend
      /\ e = [rows |-> e.rows, nextId |-> e.nextId, pending |-> e.pending,
              rollup |-> e.rollup, maxSeq |-> e.maxSeq]
  BY <1>1 DEF CatShape
<1>4. CatShape(e)
  BY <1>2, <1>3 DEF CatShape
<1> QED
  BY <1>2, <1>3, <1>4 DEF e

\* Discard,
LEMMA DiscardIs ==
  ASSUME NEW c, CatShape(c), NEW path
  PROVE  LET e == Discard(c, path)
         IN  /\ CatShape(e) /\ e.rows = c.rows /\ e.nextId = c.nextId
             /\ e.maxSeq = c.maxSeq /\ e.rollup = c.rollup
             /\ DOMAIN e.pending = DOMAIN c.pending \ {path}
             /\ \A p \in DOMAIN e.pending : e.pending[p] = c.pending[p]
<1> DEFINE e == Discard(c, path)
           pend == Without(c.pending, path)
<1>1. e = [c EXCEPT !.pending = pend]
  BY DEF Discard
<1>2. /\ DOMAIN pend = DOMAIN c.pending \ {path}
      /\ \A p \in DOMAIN pend : pend[p] = c.pending[p]
  BY DEF Without
<1> HIDE DEF pend, e
<1>3. /\ e.rows = c.rows /\ e.nextId = c.nextId /\ e.maxSeq = c.maxSeq
      /\ e.rollup = c.rollup /\ e.pending = pend
      /\ e = [rows |-> e.rows, nextId |-> e.nextId, pending |-> e.pending,
              rollup |-> e.rollup, maxSeq |-> e.maxSeq]
  BY <1>1 DEF CatShape
<1>4. CatShape(e)
  BY <1>2, <1>3 DEF CatShape
<1> QED
  BY <1>2, <1>3, <1>4 DEF e

\* LastSeq of the records of a file.
LEMMA LastSeqIs ==
  ASSUME NEW recs \in SUBSET Record, recs # {}, IsFiniteSet(recs)
  PROVE  /\ \E r \in recs : LastSeq(recs) = r.seq
         /\ \A r \in recs : r.seq <= LastSeq(recs)
         /\ LastSeq(recs) \in Nat
<1> DEFINE S == {r.seq : r \in recs}
           f == [r \in recs |-> r.seq]
<1>1. S \in SUBSET Int /\ S # {} /\ \A r \in recs : r.seq \in Nat
  BY RecordAssumption
<1>2. IsFiniteSet(S)
  <2>1. f \in Surjection(recs, S)
    BY DEF Surjection
  <2> QED
    BY <2>1, FS_Surjection
<1>3. Max(S) \in S /\ \A x \in S : x <= Max(S)
  BY <1>1, <1>2, MaxIs
<1> QED
  BY <1>1, <1>3 DEF LastSeq

NewRow(path, recs) ==
  [path |-> path, level |-> path.level, recs |-> recs, state |-> "live", aged |-> FALSE]

\* insertFileTx,
LEMMA InsertIs ==
  ASSUME NEW c, CatShape(c), \A id \in DOMAIN c.rows : id \in 1 .. c.nextId - 1,
         NEW path, ~Registered(c, path),
         NEW recs \in SUBSET Record, recs # {}, IsFiniteSet(recs)
  PROVE  LET e == InsertFile(c, path, recs)
         IN  /\ CatShape(e) /\ c.nextId \notin DOMAIN c.rows
             /\ DOMAIN e.rows = DOMAIN c.rows \cup {c.nextId}
             /\ e.rows[c.nextId] = NewRow(path, recs)
             /\ \A id \in DOMAIN c.rows : e.rows[id] = c.rows[id]
             /\ e.nextId = c.nextId + 1
             /\ DOMAIN e.pending = DOMAIN c.pending \ {path}
             /\ \A p \in DOMAIN e.pending : e.pending[p] = c.pending[p]
             /\ c.maxSeq <= e.maxSeq /\ \A r \in recs : r.seq <= e.maxSeq
             /\ e.maxSeq = c.maxSeq \/ \E r \in recs : e.maxSeq = r.seq
<1> DEFINE e == InsertFile(c, path, recs)
           pend == Without(c.pending, path)
           rows == With(c.rows, c.nextId, NewRow(path, recs))
           top == Max({c.maxSeq, LastSeq(recs)})
           roll == [c.rollup EXCEPT ![path.stream] = @ + Cardinality(recs)]
<1>1. e = [c EXCEPT !.pending = pend, !.rows = rows, !.nextId = c.nextId + 1,
                    !.rollup = roll, !.maxSeq = top]
  BY DEF InsertFile, NewRow, CatShape
<1>2. DOMAIN pend = DOMAIN c.pending \ {path} /\ \A p \in DOMAIN pend : pend[p] = c.pending[p]
  BY DEF Without
<1>3. c.nextId \in Nat \ {0} /\ c.nextId \notin DOMAIN c.rows
  BY DEF CatShape
<1>4. /\ DOMAIN rows = DOMAIN c.rows \cup {c.nextId} /\ rows[c.nextId] = NewRow(path, recs)
      /\ \A id \in DOMAIN c.rows : rows[id] = c.rows[id]
  BY <1>3 DEF With
<1>5. /\ c.maxSeq <= top /\ top \in Nat /\ \A r \in recs : r.seq <= top
      /\ top = c.maxSeq \/ \E r \in recs : top = r.seq
  <2>1. c.maxSeq \in Nat /\ LastSeq(recs) \in Nat
    BY LastSeqIs DEF CatShape
  <2>2. top = IF c.maxSeq <= LastSeq(recs) THEN LastSeq(recs) ELSE c.maxSeq
    BY <2>1, MaxOfTwo
  <2>3. \A r \in recs : r.seq \in Nat
    BY RecordAssumption
  <2> HIDE DEF top
  <2> QED
    BY <2>1, <2>2, <2>3, LastSeqIs
<1> HIDE DEF e, pend, rows, top, roll
<1>6. /\ e.rows = rows /\ e.nextId = c.nextId + 1 /\ e.maxSeq = top
      /\ e.rollup = roll /\ e.pending = pend
      /\ e = [rows |-> e.rows, nextId |-> e.nextId, pending |-> e.pending,
              rollup |-> e.rollup, maxSeq |-> e.maxSeq]
  BY <1>1 DEF CatShape
<1>7. CatShape(e)
  BY <1>2, <1>3, <1>5, <1>6 DEF CatShape
<1> QED
  BY <1>2, <1>3, <1>4, <1>5, <1>6, <1>7 DEF e

\* retireTx,
LEMMA RetireIs ==
  ASSUME NEW c, CatShape(c), NEW ids,
         \A id \in DOMAIN c.rows :
           c.rows[id] = [path |-> c.rows[id].path, level |-> c.rows[id].level,
                         recs |-> c.rows[id].recs, state |-> c.rows[id].state,
                         aged |-> c.rows[id].aged]
  PROVE  LET e == Retire(c, ids)
         IN  /\ CatShape(e) /\ DOMAIN e.rows = DOMAIN c.rows
             /\ e.nextId = c.nextId /\ e.maxSeq = c.maxSeq /\ e.pending = c.pending
             /\ \A id \in DOMAIN c.rows :
                  e.rows[id] = [path |-> c.rows[id].path, level |-> c.rows[id].level,
                                recs |-> c.rows[id].recs,
                                state |-> IF id \in ids \cap Live(c) THEN "tombstoned"
                                          ELSE c.rows[id].state,
                                aged |-> c.rows[id].aged]
<1> DEFINE e == Retire(c, ids)
           rows == [id \in DOMAIN c.rows |->
                     IF id \in ids \cap Live(c)
                     THEN [c.rows[id] EXCEPT !.state = "tombstoned"] ELSE c.rows[id]]
           roll == [s \in Streams |-> Max({0, c.rollup[s] - RowsIn(c, ids \cap Live(c), s)})]
<1>1. e = [c EXCEPT !.rows = rows, !.rollup = roll]
  BY DEF Retire
<1>2. /\ DOMAIN rows = DOMAIN c.rows
      /\ \A id \in DOMAIN c.rows :
           rows[id] = [path |-> c.rows[id].path, level |-> c.rows[id].level,
                       recs |-> c.rows[id].recs,
                       state |-> IF id \in ids \cap Live(c) THEN "tombstoned"
                                 ELSE c.rows[id].state,
                       aged |-> c.rows[id].aged]
  <2>1. ASSUME NEW row, NEW there \in BOOLEAN,
               row = [path |-> row.path, level |-> row.level, recs |-> row.recs,
                      state |-> row.state, aged |-> row.aged]
        PROVE  (IF there THEN [row EXCEPT !.state = "tombstoned"] ELSE row)
               = [path |-> row.path, level |-> row.level, recs |-> row.recs,
                  state |-> IF there THEN "tombstoned" ELSE row.state, aged |-> row.aged]
    BY <2>1
  <2> QED
    BY <2>1
<1> HIDE DEF e, rows, roll
<1>3. /\ e.rows = rows /\ e.nextId = c.nextId /\ e.maxSeq = c.maxSeq
      /\ e.rollup = roll /\ e.pending = c.pending
      /\ e = [rows |-> e.rows, nextId |-> e.nextId, pending |-> e.pending,
              rollup |-> e.rollup, maxSeq |-> e.maxSeq]
  BY <1>1 DEF CatShape
<1>4. CatShape(e)
  BY <1>3 DEF CatShape
<1> QED
  BY <1>2, <1>3, <1>4 DEF e

\* The counters.
LEMMA RollupIs ==
  ASSUME NEW c, CatShape(c)
  PROVE  /\ \A path, recs : ~Registered(c, path) =>
              InsertFile(c, path, recs).rollup
                = [c.rollup EXCEPT ![path.stream] = @ + Cardinality(recs)]
         /\ \A ids : Retire(c, ids).rollup =
              [s \in Streams |-> Max({0, c.rollup[s] - RowsIn(c, ids \cap Live(c), s)})]
  BY DEF InsertFile, Retire, CatShape

\* and Forget.
LEMMA ForgetIs ==
  ASSUME NEW c, CatShape(c), NEW id
  PROVE  LET e == Forget(c, id)
         IN  /\ CatShape(e) /\ DOMAIN e.rows = DOMAIN c.rows \ {id}
             /\ \A i \in DOMAIN e.rows : e.rows[i] = c.rows[i]
             /\ e.nextId = c.nextId /\ e.maxSeq = c.maxSeq
             /\ e.pending = c.pending /\ e.rollup = c.rollup
<1> DEFINE e == Forget(c, id)
           rows == Without(c.rows, id)
<1>1. e = [c EXCEPT !.rows = rows]
  BY DEF Forget
<1>2. DOMAIN rows = DOMAIN c.rows \ {id} /\ \A i \in DOMAIN rows : rows[i] = c.rows[i]
  BY DEF Without
<1> HIDE DEF e, rows
<1>3. /\ e.rows = rows /\ e.nextId = c.nextId /\ e.maxSeq = c.maxSeq
      /\ e.rollup = c.rollup /\ e.pending = c.pending
      /\ e = [rows |-> e.rows, nextId |-> e.nextId, pending |-> e.pending,
              rollup |-> e.rollup, maxSeq |-> e.maxSeq]
  BY <1>1 DEF CatShape
<1>4. CatShape(e)
  BY <1>3 DEF CatShape
<1> QED
  BY <1>2, <1>3, <1>4 DEF e

\* An object of a flush is named after the first of its records.
LEMMA NameIs ==
  ASSUME NEW x \in Seq(Record), NEW p \in Names(x)
  PROVE  /\ p = ObjectName(x, p.stream)
         /\ p.level = 0 /\ p.of = 0
         /\ \E r \in ToSet(x) : r \in Record /\ r.stream = p.stream /\ p = Path(0, r, 0)
<1>1. PICK r \in ToSet(x) : p = ObjectName(x, r.stream)
  BY DEF Names
<1>2. PICK i \in 1 .. Len(x) : /\ x[i] \in Record /\ x[i].stream = r.stream
                               /\ ObjectName(x, r.stream) = Path(0, x[i], 0)
  BY ObjectNameIs
<1>3. x[i] \in ToSet(x)
  BY ToSetIs
<1>4. p.stream = r.stream /\ p.level = 0 /\ p.of = 0
  BY <1>1, <1>2 DEF Path
<1> QED
  BY <1>1, <1>2, <1>3, <1>4

\* Every record of a segment is in one of the objects of its flush.
LEMMA NameOf ==
  ASSUME NEW x \in Seq(Record), NEW r \in ToSet(x)
  PROVE  /\ ObjectName(x, r.stream) \in Names(x)
         /\ ObjectName(x, r.stream).stream = r.stream
         /\ ObjectName(x, r.stream).level = 0
<1>1. ObjectName(x, r.stream) \in Names(x)
  BY DEF Names
<1>2. PICK i \in 1 .. Len(x) : /\ x[i] \in Record /\ x[i].stream = r.stream
                               /\ ObjectName(x, r.stream) = Path(0, x[i], 0)
  BY ObjectNameIs
<1> QED
  BY <1>1, <1>2 DEF Path

\* The records of one object.
LEMMA OfStreamIs ==
  ASSUME NEW x \in Seq(Record), NEW p \in Names(x)
  PROVE  /\ OfStream(x, p.stream) \in SUBSET Record
         /\ OfStream(x, p.stream) \subseteq ToSet(x)
         /\ IsFiniteSet(OfStream(x, p.stream)) /\ OfStream(x, p.stream) # {}
         /\ \E r \in OfStream(x, p.stream) : p = Path(0, r, 0)
         /\ \A r \in OfStream(x, p.stream) : r.stream = p.stream
         /\ \A r \in ToSet(x) : r.stream = p.stream => r \in OfStream(x, p.stream)
<1>1. ToSet(x) \in SUBSET Record /\ IsFiniteSet(ToSet(x))
  BY ToSetIs
<1>2. OfStream(x, p.stream) \subseteq ToSet(x)
  BY DEF OfStream
<1>3. IsFiniteSet(OfStream(x, p.stream))
  BY <1>1, <1>2, FS_Subset
<1>4. \E r \in OfStream(x, p.stream) : p = Path(0, r, 0)
  BY NameIs DEF OfStream
<1> QED
  BY <1>1, <1>2, <1>3, <1>4 DEF OfStream

\* Two segments never look for the same object.
LEMMA NamesDiffer ==
  ASSUME NEW q, QueueFits(q), NEW s \in DOMAIN q, NEW t \in DOMAIN q,
         NEW p \in Names(q[s]), p \in Names(q[t])
  PROVE  s = t
<1>1. q[s] \in Seq(Record) /\ q[t] \in Seq(Record)
  BY DEF QueueFits
<1>2. PICK x \in ToSet(q[s]) : p = Path(0, x, 0)
  BY <1>1, NameIs
<1>3. PICK y \in ToSet(q[t]) : p = Path(0, y, 0)
  BY <1>1, NameIs
<1>4. x.seq = y.seq
  BY <1>2, <1>3 DEF Path
<1> QED
  BY <1>2, <1>3, <1>4, SameSeqSamePlace

\* The records of one stream of a segment become a file: none was filed
\* before, and all are now.
LEMMA RegisterFits ==
  ASSUME NEW c, NEW d, NEW q, CatShape(c), RowsFit(c), DroppedFits(c, d), QueueFits(q),
         ReplayFits(c, d, q), SeqsDiffer(c, q),
         NEW s \in DOMAIN q, NEW path \in Names(q[s]), ~Registered(c, path)
  PROVE  LET recs == OfStream(q[s], path.stream)
             e == InsertFile(c, path, recs)
         IN  /\ RowsFit(e) /\ DroppedFits(e, d) /\ ReplayFits(e, d, q) /\ SeqsDiffer(e, q)
             /\ CatShape(e) /\ c.nextId \notin DOMAIN c.rows
             /\ DOMAIN e.rows = DOMAIN c.rows \cup {c.nextId}
             /\ e.rows[c.nextId] = NewRow(path, recs)
             /\ \A id \in DOMAIN c.rows : e.rows[id] = c.rows[id]
             /\ DOMAIN e.pending = DOMAIN c.pending \ {path}
             /\ \A p \in DOMAIN e.pending : e.pending[p] = c.pending[p]
             /\ c.maxSeq <= e.maxSeq
             /\ e.maxSeq = c.maxSeq \/ \E r \in recs : e.maxSeq = r.seq
             /\ Live(e) = Live(c) \cup {c.nextId}
             /\ \A p : Registered(e, p) <=> Registered(c, p) \/ p = path
             /\ Filed(e, d) = Filed(c, d) \cup recs
<1> DEFINE recs == OfStream(q[s], path.stream)
           e == InsertFile(c, path, recs)
           N == c.nextId
<1>1. /\ q[s] \in Seq(Record) /\ recs \in SUBSET Record /\ recs \subseteq ToSet(q[s])
      /\ IsFiniteSet(recs) /\ recs # {} /\ \E r \in recs : path = Path(0, r, 0)
      /\ \A r \in recs : r.stream = path.stream
      /\ \A r \in ToSet(q[s]) : r.stream = path.stream => r \in recs
      /\ path = ObjectName(q[s], path.stream) /\ path.level = 0 /\ path.of = 0
  <2>1. q[s] \in Seq(Record)
    BY DEF QueueFits
  <2> QED
    BY <2>1, OfStreamIs, NameIs
<1>2. \A id \in DOMAIN c.rows : id \in 1 .. c.nextId - 1
  BY DEF RowsFit, RowFits
<1>3. /\ CatShape(e) /\ N \notin DOMAIN c.rows
      /\ DOMAIN e.rows = DOMAIN c.rows \cup {N} /\ e.rows[N] = NewRow(path, recs)
      /\ \A id \in DOMAIN c.rows : e.rows[id] = c.rows[id]
      /\ e.nextId = N + 1
      /\ DOMAIN e.pending = DOMAIN c.pending \ {path}
      /\ \A p \in DOMAIN e.pending : e.pending[p] = c.pending[p]
      /\ c.maxSeq <= e.maxSeq /\ \A r \in recs : r.seq <= e.maxSeq
      /\ e.maxSeq = c.maxSeq \/ \E r \in recs : e.maxSeq = r.seq
  <2>1. recs \in SUBSET Record /\ recs # {} /\ IsFiniteSet(recs)
    BY <1>1
  <2> HIDE DEF recs
  <2> QED
    BY <1>2, <2>1, InsertIs
<1> HIDE DEF e, recs
<1>4. /\ Live(e) = Live(c) \cup {N}
      /\ \A p : Registered(e, p) <=> Registered(c, p) \/ p = path
  <2>1. e.rows[N].state = "live" /\ e.rows[N].path = path
    BY <1>3 DEF NewRow
  <2> QED
    BY <1>3, <2>1 DEF Live, Registered
<1>5. LiveIn(e) = LiveIn(c) \cup recs
  <2>1. e.rows[N].recs = recs
    BY <1>3 DEF NewRow
  <2>2. \A id \in Live(c) : id \in DOMAIN c.rows /\ e.rows[id].recs = c.rows[id].recs
    BY <1>3 DEF Live
  <2> QED
    BY <1>4, <2>1, <2>2 DEF LiveIn
<1>6. Filed(e, d) = Filed(c, d) \cup recs
  BY <1>5 DEF Filed
<1>7. \A r \in recs : r \notin Filed(c, d)
  <2>1. ASSUME NEW r \in recs PROVE r \notin Filed(c, d)
    <3>1. r \in ToSet(q[s]) /\ ObjectName(q[s], r.stream) = path
      BY <1>1
    <3> QED
      BY <3>1 DEF ReplayFits
  <2> QED
    BY <2>1
<1>8. \A id \in DOMAIN c.rows : c.rows[id].recs \cap recs = {}
  BY <1>7 DEF DroppedFits
<1>9. RowsFit(e)
  <2>1. ASSUME NEW id \in DOMAIN c.rows PROVE RowFits(e, id)
    <3>1. RowFits(c, id) /\ e.rows[id] = c.rows[id]
      BY <1>3 DEF RowsFit
    <3>2. id \in 1 .. e.nextId - 1 /\ id \in 1 .. N - 1 /\ N \in Nat
      BY <1>2, <1>3 DEF CatShape
    <3>3. \A r \in c.rows[id].recs : r.seq <= e.maxSeq /\ r.stream = c.rows[id].path.stream
      <4>1. c.maxSeq \in Nat /\ e.maxSeq \in Nat /\ c.maxSeq <= e.maxSeq
        BY <1>3 DEF CatShape
      <4>2. \A r \in c.rows[id].recs : r.seq \in Nat /\ r.seq <= c.maxSeq /\ r.stream = c.rows[id].path.stream
        BY <3>1, RecordAssumption DEF RowFits
      <4> QED
        BY <4>1, <4>2
    <3>4. c.rows[id].path.of # 0 => c.rows[id].path.of \in 1 .. e.nextId - 1 \ Live(e)
      <4>1. c.rows[id].path.of # 0 => c.rows[id].path.of \in 1 .. N - 1 \ Live(c)
        BY <3>1 DEF RowFits
      <4>2. \A x \in 1 .. N - 1 : x # N /\ x \in 1 .. e.nextId - 1
        BY <1>3, <3>2
      <4> QED
        BY <1>4, <4>1, <4>2
    <3> QED
      BY <3>1, <3>2, <3>3, <3>4 DEF RowFits
  <2>2. RowFits(e, N)
    <3>1. N \in 1 .. e.nextId - 1
      BY <1>3 DEF CatShape
    <3>2. 0 \in 0 .. 2
      OBVIOUS
    <3> QED
      BY <1>1, <1>3, <3>1, <3>2 DEF RowFits, NewRow
  <2>3. \A i, j \in DOMAIN e.rows : e.rows[i].path = e.rows[j].path => i = j
    <3>1. \A i \in DOMAIN c.rows : e.rows[i].path = c.rows[i].path /\ c.rows[i].path # path
      BY <1>3 DEF Registered
    <3>2. e.rows[N].path = path
      BY <1>3 DEF NewRow
    <3>3. \A i, j \in DOMAIN c.rows : c.rows[i].path = c.rows[j].path => i = j
      BY DEF RowsFit
    <3> QED
      BY <1>3, <3>1, <3>2, <3>3
  <2>4. ASSUME NEW i \in Live(e), NEW j \in DOMAIN e.rows, i # j,
               e.rows[i].recs \cap e.rows[j].recs # {}
        PROVE  j \notin Live(e) /\ e.rows[j].level <= e.rows[i].level
    <3>1. e.rows[N].recs = recs
      BY <1>3 DEF NewRow
    <3>2. i # N /\ j # N
      <4>1. Live(c) \subseteq DOMAIN c.rows
        BY DEF Live
      <4> QED
        BY <1>3, <1>4, <1>8, <2>4, <3>1, <4>1
    <3>3. i \in Live(c) /\ j \in DOMAIN c.rows /\ i \in DOMAIN c.rows
      BY <1>3, <1>4, <2>4, <3>2 DEF Live
    <3>4. c.rows[i].recs \cap c.rows[j].recs # {}
      BY <1>3, <2>4, <3>3
    <3>5. j \notin Live(c) /\ c.rows[j].level <= c.rows[i].level
      BY <2>4, <3>3, <3>4 DEF RowsFit
    <3> QED
      BY <1>3, <1>4, <3>2, <3>3, <3>5
  <2> QED
    BY <1>3, <2>1, <2>2, <2>3, <2>4 DEF RowsFit
<1>10. DroppedFits(e, d)
  <2>1. LiveIn(e) \cap d = {}
    BY <1>5, <1>7 DEF DroppedFits, Filed
  <2>2. \A r \in d : r.seq <= e.maxSeq
    <3>1. c.maxSeq \in Nat /\ e.maxSeq \in Nat /\ c.maxSeq <= e.maxSeq
      BY <1>3 DEF CatShape
    <3>2. \A r \in d : r.seq \in Nat /\ r.seq <= c.maxSeq
      BY RecordAssumption DEF DroppedFits
    <3> QED
      BY <3>1, <3>2
  <2>3. \A id \in DOMAIN e.rows : e.rows[id].recs \subseteq Filed(e, d)
    <3>1. e.rows[N].recs = recs
      BY <1>3 DEF NewRow
    <3> QED
      BY <1>3, <1>6, <3>1 DEF DroppedFits
  <2> QED
    BY <2>1, <2>2, <2>3 DEF DroppedFits
<1>11. ReplayFits(e, d, q)
  <2>1. ASSUME NEW t \in DOMAIN q, NEW r \in ToSet(q[t])
        PROVE  r \in Filed(e, d) <=> Registered(e, ObjectName(q[t], r.stream))
    <3>1. q[t] \in Seq(Record)
      BY DEF QueueFits
    <3>2. r \in Filed(c, d) <=> Registered(c, ObjectName(q[t], r.stream))
      BY DEF ReplayFits
    <3>3. r \in recs => ObjectName(q[t], r.stream) = path
      <4>1. HAVE r \in recs
      <4>2. t = s
        BY <1>1, <2>1, <4>1, SameSeqSamePlace
      <4> QED
        BY <1>1, <4>1, <4>2
    <3>4. ObjectName(q[t], r.stream) = path => r \in recs
      <4>1. HAVE ObjectName(q[t], r.stream) = path
      <4>2. path \in Names(q[t]) /\ path.stream = r.stream
        BY <2>1, <3>1, <4>1, NameOf
      <4>3. t = s
        BY <4>2, NamesDiffer
      <4> QED
        BY <1>1, <2>1, <4>2, <4>3
    <3> QED
      BY <1>4, <1>6, <3>2, <3>3, <3>4
  <2> QED
    BY <2>1 DEF ReplayFits
<1>12. SeqsDiffer(e, q)
  <2>1. ASSUME NEW i \in DOMAIN e.rows, NEW x \in e.rows[i].recs
        PROVE  x \in ToSet(q[s]) \/ (i \in DOMAIN c.rows /\ x \in c.rows[i].recs)
    BY <1>1, <1>3, <2>1 DEF NewRow
  <2>2. ASSUME NEW i \in DOMAIN e.rows, NEW x \in e.rows[i].recs,
               NEW t \in DOMAIN q, NEW y \in ToSet(q[t]), x.seq = y.seq
        PROVE  x = y
    <3>1. CASE x \in ToSet(q[s])
      BY <2>2, <3>1, SameSeqSamePlace
    <3>2. CASE i \in DOMAIN c.rows /\ x \in c.rows[i].recs
      BY <2>2, <3>2 DEF SeqsDiffer
    <3> QED
      BY <2>1, <3>1, <3>2
  <2>3. ASSUME NEW i \in DOMAIN e.rows, NEW x \in e.rows[i].recs,
               NEW j \in DOMAIN e.rows, NEW y \in e.rows[j].recs, x.seq = y.seq
        PROVE  x = y
    <3>1. CASE y \in ToSet(q[s])
      BY <2>2, <2>3, <3>1
    <3>2. CASE x \in ToSet(q[s])
      BY <2>2, <2>3, <3>2
    <3>3. CASE i \in DOMAIN c.rows /\ x \in c.rows[i].recs /\ j \in DOMAIN c.rows /\ y \in c.rows[j].recs
      BY <2>3, <3>3 DEF SeqsDiffer
    <3> QED
      BY <2>1, <3>1, <3>2, <3>3
  <2> QED
    BY <2>2, <2>3 DEF SeqsDiffer
<1> QED
  BY <1>3, <1>4, <1>6, <1>9, <1>10, <1>11, <1>12 DEF e, recs

InputsOf(c, ids) == UNION {c.rows[id].recs : id \in ids}

\* What a merge's output is: it has a record of its inputs first in its name,
\* is above their level, and is new.
LEMMA MergeNameFits ==
  ASSUME NEW c, NEW q, NEW u, NEW m, NEW o, CatShape(c), RowsFit(c), SeqsDiffer(c, q),
         MergeFits(u, m, c, o), m.step # "idle", m.recs # {}
  PROVE  /\ ~Registered(c, m.path)
         /\ m.path.level \in 1 .. 2
         /\ m.path.level # 2 => m.path.of = 0
         /\ m.path.of # 0 => m.path.of \in m.ids
         /\ \E first \in m.recs : m.path = Path(m.path.level, first, m.path.of)
         /\ \A id \in m.ids : /\ c.rows[id].level <= m.path.level
                              /\ c.rows[id].path.stream = m.path.stream
<1>1. m.ids \subseteq Live(c) /\ m.ids # {} /\ m.recs \subseteq InputsOf(c, m.ids)
  BY DEF MergeFits, InputsOf
<1>2. PICK lv \in 0 .. 2, first \in m.recs :
        /\ \A id \in m.ids : c.rows[id].level = lv /\ c.rows[id].path.stream = first.stream
        /\ IF lv = 2 THEN \E id \in m.ids : m.ids = {id} /\ m.path = Path(2, first, id)
           ELSE m.path = Path(lv + 1, first, 0)
  BY DEF MergeFits
<1>3. PICK i \in m.ids : first \in c.rows[i].recs
  BY <1>1, <1>2 DEF InputsOf
<1>4. /\ m.path.stream = first.stream /\ m.path.seq = first.seq
      /\ lv = 2 => m.path.level = 2 /\ m.path.of \in m.ids
      /\ lv # 2 => m.path.level = lv + 1 /\ m.path.of = 0
      /\ m.path = Path(m.path.level, first, m.path.of)
  <2>1. CASE lv = 2
    <3>1. PICK id \in m.ids : m.path = Path(2, first, id)
      BY <1>2, <2>1
    <3> QED
      BY <2>1, <3>1 DEF Path
  <2>2. CASE lv # 2
    BY <1>2, <2>2 DEF Path
  <2> QED
    BY <2>1, <2>2
<1>5. \A id \in m.ids : c.rows[id].level <= m.path.level /\ c.rows[id].path.stream = m.path.stream
  BY <1>2, <1>4
<1>6. \A id \in m.ids : id \in DOMAIN c.rows /\ id \in 1 .. c.nextId - 1
  BY <1>1 DEF Live, RowsFit, RowFits
<1>7. ASSUME NEW j \in DOMAIN c.rows, c.rows[j].path = m.path PROVE FALSE
  <2>1. RowFits(c, j)
    BY DEF RowsFit
  <2>2. CASE lv = 2
    <3>1. m.path.of # 0
      BY <1>4, <1>6, <2>2 DEF CatShape
    <3>2. m.path.of \notin Live(c)
      BY <1>7, <2>1, <3>1 DEF RowFits
    <3> QED
      BY <1>1, <1>4, <2>2, <3>2
  <2>3. CASE lv # 2
    <3>1. c.rows[j].level = lv + 1
      BY <1>4, <1>7, <2>1, <2>3 DEF RowFits
    <3>2. PICK x \in c.rows[j].recs : c.rows[j].path = Path(c.rows[j].level, x, c.rows[j].path.of)
      BY <2>1 DEF RowFits
    <3>3. x.seq = first.seq
      BY <1>4, <1>7, <3>2 DEF Path
    <3>4. x = first
      BY <1>3, <1>6, <3>2, <3>3 DEF SeqsDiffer
    <3>5. i # j /\ c.rows[i].level = lv
      BY <1>2, <1>3, <3>1
    <3>6. c.rows[j].level <= c.rows[i].level
      BY <1>1, <1>3, <3>2, <3>4, <3>5 DEF RowsFit
    <3> QED
      BY <3>1, <3>5, <3>6
  <2> QED
    BY <2>2, <2>3
<1>8. ~Registered(c, m.path)
  BY <1>7 DEF Registered
<1>9. m.path.level \in 1 .. 2 /\ (m.path.level # 2 => m.path.of = 0)
  BY <1>2, <1>4
<1>10. m.path.of # 0 => m.path.of \in m.ids
  BY <1>4
<1> QED
  BY <1>2, <1>4, <1>5, <1>8, <1>9, <1>10

\* A row has the fields it has.
LEMMA RowShape ==
  ASSUME NEW c, RowsFit(c), NEW id \in DOMAIN c.rows
  PROVE  c.rows[id] = [path |-> c.rows[id].path, level |-> c.rows[id].level,
                       recs |-> c.rows[id].recs, state |-> c.rows[id].state,
                       aged |-> c.rows[id].aged]
  BY DEF RowsFit, RowFits

\* Some live files are retired, and what they hold is dropped.
LEMMA TombstoneFits ==
  ASSUME NEW c, NEW d, NEW q, CatShape(c), RowsFit(c), DroppedFits(c, d),
         ReplayFits(c, d, q), SeqsDiffer(c, q), NEW ids \in SUBSET Live(c)
  PROVE  LET e == Retire(c, ids)
             out == d \cup InputsOf(c, ids)
         IN  /\ CatShape(e) /\ RowsFit(e) /\ DroppedFits(e, out)
             /\ ReplayFits(e, out, q) /\ SeqsDiffer(e, q)
             /\ DOMAIN e.rows = DOMAIN c.rows /\ Live(e) = Live(c) \ ids
             /\ \A id \in DOMAIN c.rows : /\ e.rows[id].path = c.rows[id].path
                                          /\ e.rows[id].level = c.rows[id].level
                                          /\ e.rows[id].recs = c.rows[id].recs
                                          /\ e.rows[id].aged = c.rows[id].aged
             /\ Collectable(e) = Collectable(c)
             /\ e.pending = c.pending /\ e.maxSeq = c.maxSeq
             /\ \A p : Registered(e, p) <=> Registered(c, p)
             /\ Filed(e, out) = Filed(c, d)
<1> DEFINE e == Retire(c, ids)
           out == d \cup InputsOf(c, ids)
<1>1. /\ CatShape(e) /\ DOMAIN e.rows = DOMAIN c.rows
      /\ e.nextId = c.nextId /\ e.maxSeq = c.maxSeq /\ e.pending = c.pending
      /\ \A id \in DOMAIN c.rows :
           e.rows[id] = [path |-> c.rows[id].path, level |-> c.rows[id].level,
                         recs |-> c.rows[id].recs,
                         state |-> IF id \in ids \cap Live(c) THEN "tombstoned"
                                   ELSE c.rows[id].state,
                         aged |-> c.rows[id].aged]
  BY RowShape, RetireIs
<1> HIDE DEF e, out
<1>2. \A id \in DOMAIN c.rows :
        /\ e.rows[id] = [path |-> e.rows[id].path, level |-> e.rows[id].level,
                         recs |-> e.rows[id].recs, state |-> e.rows[id].state,
                         aged |-> e.rows[id].aged]
        /\ e.rows[id].path = c.rows[id].path /\ e.rows[id].level = c.rows[id].level
        /\ e.rows[id].recs = c.rows[id].recs /\ e.rows[id].aged = c.rows[id].aged
        /\ e.rows[id].state = IF id \in ids THEN "tombstoned" ELSE c.rows[id].state
  <2>1. TAKE id \in DOMAIN c.rows
  <2>2. id \in ids <=> id \in ids \cap Live(c)
    OBVIOUS
  <2>3. e.rows[id] = [path |-> c.rows[id].path, level |-> c.rows[id].level,
                      recs |-> c.rows[id].recs,
                      state |-> IF id \in ids THEN "tombstoned" ELSE c.rows[id].state,
                      aged |-> c.rows[id].aged]
    BY <1>1, <2>2
  <2> QED
    BY <2>3
<1>3. Live(e) = Live(c) \ ids
  <2>1. \A id \in DOMAIN c.rows : e.rows[id].state = "live" <=> c.rows[id].state = "live" /\ id \notin ids
    BY <1>2
  <2>2. DOMAIN e.rows = DOMAIN c.rows
    BY <1>1
  <2> QED
    BY <2>1, <2>2 DEF Live
<1>4. \A p : Registered(e, p) <=> Registered(c, p)
  BY <1>1, <1>2 DEF Registered
<1>5. ids \subseteq DOMAIN c.rows /\ \A id \in ids : c.rows[id].state = "live" /\ ~c.rows[id].aged
  BY DEF Live, RowsFit, RowFits
<1>6. Collectable(e) = Collectable(c)
  BY <1>1, <1>2, <1>5 DEF Collectable
<1>7. LiveIn(c) = LiveIn(e) \cup InputsOf(c, ids)
  <2>1. LiveIn(e) = UNION {c.rows[id].recs : id \in Live(c) \ ids}
    <3>1. \A id \in Live(e) : e.rows[id].recs = c.rows[id].recs
      BY <1>2, <1>3 DEF Live
    <3> QED
      BY <1>3, <3>1 DEF LiveIn
  <2> QED
    BY <2>1 DEF LiveIn, InputsOf
<1>8. LiveIn(e) \cap InputsOf(c, ids) = {}
  <2>1. ASSUME NEW r \in LiveIn(e), r \in InputsOf(c, ids) PROVE FALSE
    <3>1. PICK i \in Live(e) : r \in e.rows[i].recs
      BY DEF LiveIn
    <3>2. PICK j \in ids : r \in c.rows[j].recs
      BY <2>1 DEF InputsOf
    <3>3. i \in Live(c) /\ i \in DOMAIN c.rows /\ i # j /\ r \in c.rows[i].recs
      BY <1>2, <1>3, <3>1, <3>2 DEF Live
    <3>4. j \notin Live(c)
      BY <1>5, <3>2, <3>3 DEF RowsFit
    <3> QED
      BY <3>2, <3>4
  <2> QED
    BY <2>1
<1>9. Filed(e, out) = Filed(c, d)
  BY <1>7 DEF Filed, out
<1>10. RowsFit(e)
  <2>1. ASSUME NEW id \in DOMAIN c.rows PROVE RowFits(e, id)
    <3>1. RowFits(c, id) /\ (id \in ids => ~c.rows[id].aged)
      BY <1>5 DEF RowsFit
    <3>2. /\ e.rows[id] = [path |-> e.rows[id].path, level |-> e.rows[id].level,
                            recs |-> e.rows[id].recs, state |-> e.rows[id].state,
                            aged |-> e.rows[id].aged]
          /\ e.rows[id].path = c.rows[id].path /\ e.rows[id].level = c.rows[id].level
          /\ e.rows[id].recs = c.rows[id].recs /\ e.rows[id].aged = c.rows[id].aged
          /\ e.rows[id].state = IF id \in ids THEN "tombstoned" ELSE c.rows[id].state
      BY <1>2
    <3>3. e.rows[id].state \in {"live", "tombstoned"} /\ (e.rows[id].state = "live" => ~e.rows[id].aged)
      BY <3>1, <3>2 DEF RowFits
    <3>4. e.nextId = c.nextId /\ e.maxSeq = c.maxSeq /\ Live(e) \subseteq Live(c)
      BY <1>1, <1>3
    <3> QED
      BY <3>1, <3>2, <3>3, <3>4 DEF RowFits
  <2>2. \A i, j \in DOMAIN e.rows : e.rows[i].path = e.rows[j].path => i = j
    BY <1>1, <1>2 DEF RowsFit
  <2>3. \A i \in Live(e), j \in DOMAIN e.rows :
          i # j /\ e.rows[i].recs \cap e.rows[j].recs # {} =>
            j \notin Live(e) /\ e.rows[j].level <= e.rows[i].level
    <3>1. \A i \in Live(e) : i \in Live(c) /\ i \in DOMAIN c.rows
      BY <1>3 DEF Live
    <3> QED
      BY <1>1, <1>2, <1>3, <3>1 DEF RowsFit
  <2> QED
    BY <1>1, <2>1, <2>2, <2>3 DEF RowsFit
<1>11. DroppedFits(e, out)
  <2>1. InputsOf(c, ids) \in SUBSET Record /\ \A r \in InputsOf(c, ids) : r.seq <= c.maxSeq
    <3>1. \A id \in ids : c.rows[id].recs \in SUBSET Record /\ \A r \in c.rows[id].recs : r.seq <= c.maxSeq
      BY <1>5 DEF RowsFit, RowFits
    <3> QED
      BY <3>1 DEF InputsOf
  <2>2. LiveIn(e) \cap out = {}
    BY <1>7, <1>8 DEF DroppedFits, out
  <2>3. \A id \in DOMAIN e.rows : e.rows[id].recs \subseteq Filed(e, out)
    BY <1>1, <1>2, <1>9 DEF DroppedFits
  <2> QED
    BY <1>1, <2>1, <2>2, <2>3 DEF DroppedFits, out
<1>12. ReplayFits(e, out, q)
  BY <1>4, <1>9 DEF ReplayFits
<1>13. SeqsDiffer(e, q)
  <2>1. DOMAIN e.rows = DOMAIN c.rows /\ \A id \in DOMAIN c.rows : e.rows[id].recs = c.rows[id].recs
    BY <1>1, <1>2
  <2> QED
    BY <2>1 DEF SeqsDiffer
<1> QED
  BY <1>1, <1>2, <1>3, <1>4, <1>6, <1>9, <1>10, <1>11, <1>12, <1>13 DEF e, out

\* Some live files, and the one that may take their place: part of what they
\* hold, under a new name made of one of its records.
Replaceable(c, d, q, ids, recs, path) ==
  /\ CatShape(c) /\ RowsFit(c) /\ DroppedFits(c, d)
  /\ ReplayFits(c, d, q) /\ QueueFits(q) /\ SeqsDiffer(c, q)
  /\ ids \in SUBSET Live(c)
  /\ recs # {} /\ recs \subseteq InputsOf(c, ids)
  /\ ~Registered(c, path) /\ path.level \in 1 .. 2
  /\ path.level # 2 => path.of = 0
  /\ path.of # 0 => path.of \in ids
  /\ \E r \in recs : path = Path(path.level, r, path.of)
  /\ \A id \in ids : /\ c.rows[id].level <= path.level
                     /\ c.rows[id].path.stream = path.stream

\* A merge has finitely many records to write.
LEMMA InputsFinite ==
  ASSUME NEW c, CatShape(c), RowsFit(c), NEW ids, ids \subseteq DOMAIN c.rows,
         NEW recs, recs \subseteq InputsOf(c, ids)
  PROVE  recs \in SUBSET Record /\ IsFiniteSet(recs)
<1>1. \A id \in ids : c.rows[id].recs \in SUBSET Record /\ IsFiniteSet(c.rows[id].recs)
  BY DEF RowsFit, RowFits
<1>2. IsFiniteSet(ids)
  <2>1. \A id \in DOMAIN c.rows : id \in 1 .. c.nextId - 1
    BY DEF RowsFit, RowFits
  <2>2. IsFiniteSet(1 .. c.nextId - 1)
    BY FS_Interval DEF CatShape
  <2> QED
    BY <2>1, <2>2, FS_Subset
<1>3. IsFiniteSet(InputsOf(c, ids))
  <2> DEFINE f == [id \in ids |-> c.rows[id].recs]
             T == {c.rows[id].recs : id \in ids}
  <2>1. f \in Surjection(ids, T)
    BY DEF Surjection
  <2>2. IsFiniteSet(T)
    BY <1>2, <2>1, FS_Surjection
  <2>3. \A x \in T : IsFiniteSet(x)
    BY <1>1
  <2>4. IsFiniteSet(UNION T)
    BY <2>2, <2>3, FS_UNION
  <2> QED
    BY <2>4 DEF InputsOf
<1>4. InputsOf(c, ids) \in SUBSET Record
  BY <1>1 DEF InputsOf
<1> QED
  BY <1>3, <1>4, FS_Subset

\* Some live files are replaced by one that holds part of what they hold; the
\* rest is dropped.
LEMMA ReplaceFits ==
  ASSUME NEW c, NEW d, NEW q, NEW ids, NEW recs, NEW path,
         Replaceable(c, d, q, ids, recs, path),
         NEW e, e = Replace(c, path, recs, ids),
         NEW out, out = d \cup (InputsOf(c, ids) \ recs)
  PROVE  /\ CatShape(e) /\ RowsFit(e) /\ DroppedFits(e, out)
         /\ ReplayFits(e, out, q) /\ SeqsDiffer(e, q)
         /\ c.nextId \notin DOMAIN c.rows
         /\ DOMAIN e.rows = DOMAIN c.rows \cup {c.nextId}
         /\ Live(e) = (Live(c) \ ids) \cup {c.nextId}
         /\ \A id \in DOMAIN c.rows : /\ e.rows[id].path = c.rows[id].path
                                      /\ e.rows[id].level = c.rows[id].level
                                      /\ e.rows[id].recs = c.rows[id].recs
                                      /\ e.rows[id].aged = c.rows[id].aged
         /\ e.rows[c.nextId].path = path /\ e.rows[c.nextId].recs = recs
         /\ ~e.rows[c.nextId].aged
         /\ Collectable(e) = Collectable(c)
         /\ DOMAIN e.pending = DOMAIN c.pending \ {path}
         /\ \A p \in DOMAIN e.pending : e.pending[p] = c.pending[p]
         /\ e.maxSeq = c.maxSeq
         /\ \A p : Registered(e, p) <=> Registered(c, p) \/ p = path
         /\ Filed(e, out) = Filed(c, d)
<1> USE DEF Replaceable
<1> DEFINE b == InsertFile(c, path, recs)
           N == c.nextId
<1>1. ids \subseteq DOMAIN c.rows /\ \A id \in ids : c.rows[id].state = "live" /\ ~c.rows[id].aged
  BY DEF Live, RowsFit, RowFits
<1>2. \A id \in ids : /\ c.rows[id].recs \in SUBSET Record /\ IsFiniteSet(c.rows[id].recs)
                      /\ \A r \in c.rows[id].recs : r.seq <= c.maxSeq /\ r.stream = c.rows[id].path.stream
  BY <1>1 DEF RowsFit, RowFits
<1>3. /\ recs \in SUBSET Record /\ InputsOf(c, ids) \in SUBSET Record
      /\ \A r \in InputsOf(c, ids) : r.seq <= c.maxSeq /\ r.stream = path.stream
  <2>1. InputsOf(c, ids) \in SUBSET Record
    BY <1>2 DEF InputsOf
  <2>2. \A r \in InputsOf(c, ids) : r.seq <= c.maxSeq /\ r.stream = path.stream
    BY <1>2 DEF InputsOf
  <2> QED
    BY <2>1, <2>2
<1>4. IsFiniteSet(recs)
  BY <1>1, InputsFinite
<1>5. /\ CatShape(b) /\ N \notin DOMAIN c.rows
      /\ DOMAIN b.rows = DOMAIN c.rows \cup {N} /\ b.rows[N] = NewRow(path, recs)
      /\ \A id \in DOMAIN c.rows : b.rows[id] = c.rows[id]
      /\ b.nextId = N + 1
      /\ DOMAIN b.pending = DOMAIN c.pending \ {path}
      /\ \A p \in DOMAIN b.pending : b.pending[p] = c.pending[p]
      /\ c.maxSeq <= b.maxSeq
      /\ b.maxSeq = c.maxSeq \/ \E r \in recs : b.maxSeq = r.seq
  <2>1. \A id \in DOMAIN c.rows : id \in 1 .. c.nextId - 1
    BY DEF RowsFit, RowFits
  <2> QED
    BY <1>3, <1>4, <2>1, InsertIs
<1> HIDE DEF b
<1>6. b.maxSeq = c.maxSeq
  <2>1. c.maxSeq \in Nat /\ b.maxSeq \in Nat /\ \A r \in recs : r.seq <= c.maxSeq
    BY <1>3, <1>5 DEF CatShape
  <2> QED
    BY <1>5, <2>1
<1>7. Live(b) = Live(c) \cup {N}
  <2>1. b.rows[N].state = "live"
    BY <1>5 DEF NewRow
  <2> QED
    BY <1>5, <2>1 DEF Live
<1>8. \A id \in DOMAIN b.rows :
        b.rows[id] = [path |-> b.rows[id].path, level |-> b.rows[id].level,
                      recs |-> b.rows[id].recs, state |-> b.rows[id].state,
                      aged |-> b.rows[id].aged]
  <2>1. b.rows[N] = [path |-> b.rows[N].path, level |-> b.rows[N].level,
                      recs |-> b.rows[N].recs, state |-> b.rows[N].state,
                      aged |-> b.rows[N].aged]
    BY <1>5 DEF NewRow
  <2> QED
    BY <1>5, <2>1, RowShape
<1>9. e = Retire(b, ids)
  BY DEF Replace, b
<1>10. /\ CatShape(e) /\ DOMAIN e.rows = DOMAIN b.rows
       /\ e.nextId = b.nextId /\ e.maxSeq = b.maxSeq /\ e.pending = b.pending
       /\ \A id \in DOMAIN b.rows :
            e.rows[id] = [path |-> b.rows[id].path, level |-> b.rows[id].level,
                          recs |-> b.rows[id].recs,
                          state |-> IF id \in ids \cap Live(b) THEN "tombstoned"
                                    ELSE b.rows[id].state,
                          aged |-> b.rows[id].aged]
  BY <1>5, <1>8, <1>9, RetireIs
<1>11. \A id \in DOMAIN c.rows :
         /\ e.rows[id] = [path |-> e.rows[id].path, level |-> e.rows[id].level,
                          recs |-> e.rows[id].recs, state |-> e.rows[id].state,
                          aged |-> e.rows[id].aged]
         /\ e.rows[id].path = c.rows[id].path /\ e.rows[id].level = c.rows[id].level
         /\ e.rows[id].recs = c.rows[id].recs /\ e.rows[id].aged = c.rows[id].aged
         /\ e.rows[id].state = IF id \in ids THEN "tombstoned" ELSE c.rows[id].state
  <2>1. TAKE id \in DOMAIN c.rows
  <2>2. (id \in ids <=> id \in ids \cap Live(b)) /\ b.rows[id] = c.rows[id] /\ id \in DOMAIN b.rows
    BY <1>5, <1>7
  <2>3. e.rows[id] = [path |-> c.rows[id].path, level |-> c.rows[id].level,
                      recs |-> c.rows[id].recs,
                      state |-> IF id \in ids THEN "tombstoned" ELSE c.rows[id].state,
                      aged |-> c.rows[id].aged]
    BY <1>10, <2>2
  <2> QED
    BY <2>3
<1>12. e.rows[N] = NewRow(path, recs)
  <2>1. N \notin ids \cap Live(b) /\ N \in DOMAIN b.rows
    BY <1>1, <1>5
  <2>2. e.rows[N] = [path |-> b.rows[N].path, level |-> b.rows[N].level,
                     recs |-> b.rows[N].recs, state |-> b.rows[N].state,
                     aged |-> b.rows[N].aged]
    BY <1>10, <2>1
  <2> QED
    BY <1>5, <2>2 DEF NewRow
<1>13. DOMAIN e.rows = DOMAIN c.rows \cup {N} /\ e.nextId = N + 1 /\ e.maxSeq = c.maxSeq
  BY <1>5, <1>6, <1>10
<1>14. /\ e.rows[N].path = path /\ e.rows[N].recs = recs /\ e.rows[N].level = path.level
       /\ e.rows[N].state = "live" /\ e.rows[N].aged = FALSE
  BY <1>12 DEF NewRow
<1>15. Live(e) = (Live(c) \ ids) \cup {N}
  <2>1. \A id \in DOMAIN c.rows : e.rows[id].state = "live" <=> c.rows[id].state = "live" /\ id \notin ids
    BY <1>11
  <2> QED
    BY <1>1, <1>5, <1>13, <1>14, <2>1 DEF Live
<1>16. \A p : Registered(e, p) <=> Registered(c, p) \/ p = path
  <2>1. \A id \in DOMAIN c.rows : e.rows[id].path = c.rows[id].path
    BY <1>11
  <2> QED
    BY <1>13, <1>14, <2>1 DEF Registered
<1>17. Collectable(e) = Collectable(c)
  <2>1. \A id \in DOMAIN c.rows :
          e.rows[id].state = "tombstoned" /\ e.rows[id].aged <=>
            c.rows[id].state = "tombstoned" /\ c.rows[id].aged
    BY <1>1, <1>11
  <2> QED
    BY <1>13, <1>14, <2>1 DEF Collectable
<1> DEFINE Rest == UNION {c.rows[id].recs : id \in Live(c) \ ids}
<1>18. LiveIn(c) = Rest \cup InputsOf(c, ids)
  BY DEF LiveIn, InputsOf
<1>19. LiveIn(e) = Rest \cup recs
  <2>1. \A id \in Live(c) \ ids : e.rows[id].recs = c.rows[id].recs
    BY <1>11 DEF Live
  <2> QED
    BY <1>14, <1>15, <2>1 DEF LiveIn
<1>20. Rest \cap InputsOf(c, ids) = {}
  <2>1. ASSUME NEW i \in Live(c) \ ids, NEW r \in c.rows[i].recs, r \in InputsOf(c, ids)
        PROVE  FALSE
    <3>1. PICK j \in ids : r \in c.rows[j].recs
      BY <2>1 DEF InputsOf
    <3>2. i \in Live(c) /\ i \in DOMAIN c.rows /\ i # j /\ j \in DOMAIN c.rows
      BY <1>1, <3>1 DEF Live
    <3>3. j \notin Live(c)
      BY <2>1, <3>1, <3>2 DEF RowsFit
    <3> QED
      BY <3>1, <3>3
  <2> QED
    BY <2>1
<1> HIDE DEF Rest
<1>21. Filed(e, out) = Filed(c, d)
  BY <1>18, <1>19 DEF Filed
<1>22. ASSUME NEW j \in DOMAIN c.rows, c.rows[j].recs \cap InputsOf(c, ids) # {}
       PROVE  j \notin Live(c) \ ids /\ c.rows[j].level <= path.level
  <2>1. PICK i \in ids : c.rows[i].recs \cap c.rows[j].recs # {}
    BY <1>22 DEF InputsOf
  <2>2. c.rows[i].level <= path.level /\ i \in Live(c)
    OBVIOUS
  <2>3. CASE i = j
    BY <2>2, <2>3
  <2>4. CASE i # j
    <3>1. j \notin Live(c) /\ c.rows[j].level <= c.rows[i].level
      BY <2>1, <2>2, <2>4 DEF RowsFit
    <3>2. RowFits(c, i) /\ RowFits(c, j)
      BY <1>1 DEF RowsFit
    <3>3. c.rows[j].level \in Int /\ c.rows[i].level \in Int
      BY <3>2 DEF RowFits
    <3> QED
      BY <2>2, <3>1, <3>3
  <2> QED
    BY <2>3, <2>4
<1>23. RowsFit(e)
  <2>1. ASSUME NEW id \in DOMAIN c.rows PROVE RowFits(e, id)
    <3>1. RowFits(c, id) /\ (id \in ids => ~c.rows[id].aged)
      BY <1>1 DEF RowsFit
    <3>2. /\ e.rows[id] = [path |-> e.rows[id].path, level |-> e.rows[id].level,
                            recs |-> e.rows[id].recs, state |-> e.rows[id].state,
                            aged |-> e.rows[id].aged]
          /\ e.rows[id].path = c.rows[id].path /\ e.rows[id].level = c.rows[id].level
          /\ e.rows[id].recs = c.rows[id].recs /\ e.rows[id].aged = c.rows[id].aged
          /\ e.rows[id].state = IF id \in ids THEN "tombstoned" ELSE c.rows[id].state
      BY <1>11
    <3>3. e.rows[id].state \in {"live", "tombstoned"} /\ (e.rows[id].state = "live" => ~e.rows[id].aged)
      BY <3>1, <3>2 DEF RowFits
    <3>4. id \in 1 .. e.nextId - 1 /\ id \in 1 .. N - 1 /\ N \in Nat
      BY <1>13, <3>1 DEF CatShape, RowFits
    <3>5. c.rows[id].path.of # 0 => c.rows[id].path.of \in 1 .. e.nextId - 1 \ Live(e)
      <4>1. c.rows[id].path.of # 0 => c.rows[id].path.of \in 1 .. N - 1 \ Live(c)
        BY <3>1 DEF RowFits
      <4>2. \A x \in 1 .. N - 1 : x # N /\ x \in 1 .. e.nextId - 1
        BY <1>13, <3>4
      <4> QED
        BY <1>15, <4>1, <4>2
    <3> QED
      BY <1>13, <3>1, <3>2, <3>3, <3>4, <3>5 DEF RowFits
  <2>2. RowFits(e, N)
    <3>1. N \in 1 .. e.nextId - 1
      BY <1>13 DEF CatShape
    <3>2. path.of # 0 => path.of \in 1 .. e.nextId - 1 \ Live(e)
      <4>1. \A id \in ids : id \in 1 .. N - 1
        BY <1>1 DEF RowsFit, RowFits
      <4>2. \A x \in 1 .. N - 1 : x # N /\ x \in 1 .. e.nextId - 1
        BY <1>13 DEF CatShape
      <4> QED
        BY <1>15, <4>1, <4>2
    <3>3. e.rows[N] = [path |-> e.rows[N].path, level |-> e.rows[N].level,
                       recs |-> e.rows[N].recs, state |-> e.rows[N].state,
                       aged |-> e.rows[N].aged]
      BY <1>12 DEF NewRow
    <3>4. path.level \in 0 .. 2
      OBVIOUS
    <3>5. \A r \in recs : r.seq <= c.maxSeq /\ r.stream = path.stream
      BY <1>3
    <3> QED
      BY <1>3, <1>4, <1>13, <1>14, <3>1, <3>2, <3>3, <3>4, <3>5 DEF RowFits
  <2>3. \A i, j \in DOMAIN e.rows : e.rows[i].path = e.rows[j].path => i = j
    <3>1. \A i \in DOMAIN c.rows : e.rows[i].path = c.rows[i].path /\ c.rows[i].path # path
      BY <1>11 DEF Registered
    <3>2. \A i, j \in DOMAIN c.rows : c.rows[i].path = c.rows[j].path => i = j
      BY DEF RowsFit
    <3> QED
      BY <1>13, <1>14, <3>1, <3>2
  <2>4. ASSUME NEW i \in Live(e), NEW j \in DOMAIN e.rows, i # j,
               e.rows[i].recs \cap e.rows[j].recs # {}
        PROVE  j \notin Live(e) /\ e.rows[j].level <= e.rows[i].level
    <3>1. CASE i = N
      <4>1. j \in DOMAIN c.rows /\ j # N /\ e.rows[j].recs = c.rows[j].recs /\ e.rows[j].level = c.rows[j].level
        BY <1>5, <1>11, <1>13, <2>4, <3>1
      <4>2. c.rows[j].recs \cap InputsOf(c, ids) # {}
        BY <1>14, <2>4, <3>1, <4>1
      <4> QED
        BY <1>14, <1>15, <1>22, <3>1, <4>1, <4>2
    <3>2. CASE i # N
      <4>1. i \in Live(c) \ ids /\ i \in DOMAIN c.rows /\ e.rows[i].recs = c.rows[i].recs
            /\ e.rows[i].level = c.rows[i].level
        BY <1>11, <1>15, <3>2 DEF Live
      <4>2. j # N
        <5>1. ASSUME j = N PROVE FALSE
          <6>1. c.rows[i].recs \cap InputsOf(c, ids) # {}
            BY <1>14, <2>4, <4>1, <5>1
          <6> QED
            BY <1>22, <4>1, <6>1
        <5> QED
          BY <5>1
      <4>3. j \in DOMAIN c.rows /\ e.rows[j].recs = c.rows[j].recs /\ e.rows[j].level = c.rows[j].level
        BY <1>11, <1>13, <4>2
      <4>4. j \notin Live(c) /\ c.rows[j].level <= c.rows[i].level
        BY <2>4, <4>1, <4>3 DEF RowsFit
      <4> QED
        BY <1>15, <4>1, <4>2, <4>3, <4>4
    <3> QED
      BY <3>1, <3>2
  <2> QED
    BY <1>13, <2>1, <2>2, <2>3, <2>4 DEF RowsFit
<1>24. DroppedFits(e, out)
  <2>1. LiveIn(e) \cap out = {}
    BY <1>18, <1>19, <1>20 DEF DroppedFits
  <2>2. out \in SUBSET Record /\ \A r \in out : r.seq <= e.maxSeq
    BY <1>3, <1>13 DEF DroppedFits
  <2>3. \A id \in DOMAIN c.rows : e.rows[id].recs = c.rows[id].recs
    BY <1>11
  <2>4. \A id \in DOMAIN e.rows : e.rows[id].recs \subseteq Filed(e, out)
    <3>1. recs \subseteq Filed(e, out)
      BY <1>19 DEF Filed
    <3> QED
      BY <1>13, <1>14, <1>21, <2>3, <3>1 DEF DroppedFits
  <2> QED
    BY <2>1, <2>2, <2>4 DEF DroppedFits
<1>25. ReplayFits(e, out, q)
  <2>1. ASSUME NEW s \in DOMAIN q, NEW r \in ToSet(q[s])
        PROVE  r \in Filed(e, out) <=> Registered(e, ObjectName(q[s], r.stream))
    <3>1. q[s] \in Seq(Record)
      BY DEF QueueFits
    <3>2. ObjectName(q[s], r.stream).level = 0
      BY <2>1, <3>1, NameOf
    <3>3. ObjectName(q[s], r.stream) # path
      BY <3>2
    <3> QED
      BY <1>16, <1>21, <2>1, <3>3 DEF ReplayFits
  <2> QED
    BY <2>1 DEF ReplayFits
<1>26. SeqsDiffer(e, q)
  <2>1. ASSUME NEW i \in DOMAIN e.rows, NEW x \in e.rows[i].recs
        PROVE  \E j \in DOMAIN c.rows : x \in c.rows[j].recs
    <3>1. CASE i = N
      BY <1>1, <1>14, <2>1, <3>1 DEF InputsOf
    <3>2. CASE i # N
      BY <1>11, <1>13, <2>1, <3>2
    <3> QED
      BY <3>1, <3>2
  <2> QED
    BY <2>1 DEF SeqsDiffer
<1>27. /\ \A id \in DOMAIN c.rows : /\ e.rows[id].path = c.rows[id].path
                                    /\ e.rows[id].level = c.rows[id].level
                                    /\ e.rows[id].recs = c.rows[id].recs
                                    /\ e.rows[id].aged = c.rows[id].aged
       /\ DOMAIN e.pending = DOMAIN c.pending \ {path}
       /\ \A p \in DOMAIN e.pending : e.pending[p] = c.pending[p]
       /\ CatShape(e) /\ N \notin DOMAIN c.rows
  <2>1. \A id \in DOMAIN c.rows : /\ e.rows[id].path = c.rows[id].path
                                  /\ e.rows[id].level = c.rows[id].level
                                  /\ e.rows[id].recs = c.rows[id].recs
                                  /\ e.rows[id].aged = c.rows[id].aged
    BY <1>11
  <2>2. /\ DOMAIN e.pending = DOMAIN c.pending \ {path}
        /\ \A p \in DOMAIN e.pending : e.pending[p] = c.pending[p]
    BY <1>5, <1>10
  <2>3. CatShape(e) /\ N \notin DOMAIN c.rows
    BY <1>5, <1>10
  <2> HIDE DEF Replaceable
  <2> QED
    BY <2>1, <2>2, <2>3
<1> QED
  BY <1>13, <1>14, <1>15, <1>16, <1>17, <1>21, <1>23, <1>24, <1>25, <1>26, <1>27

\* No segment that is ahead of a file looks for it.
LEMMA AheadOfFile ==
  ASSUME NEW c, NEW id, RowFits(c, id), NEW x \in Seq(Record),
         c.rows[id].level = 0 => \A r \in ToSet(x) : \A y \in c.rows[id].recs : y.seq < r.seq
  PROVE  c.rows[id].path \notin Names(x)
<1>1. ASSUME c.rows[id].path \in Names(x) PROVE FALSE
  <2>1. PICK r \in ToSet(x) : r \in Record /\ c.rows[id].path = Path(0, r, 0)
    BY <1>1, NameIs
  <2>2. PICK y \in c.rows[id].recs :
          y \in Record /\ c.rows[id].path = Path(c.rows[id].level, y, c.rows[id].path.of)
    BY DEF RowFits
  <2>3. c.rows[id].level = 0 /\ y.seq = r.seq
    BY <2>1, <2>2 DEF Path
  <2>4. y.seq < r.seq /\ y.seq \in Nat /\ r.seq \in Nat
    BY <2>1, <2>2, <2>3, RecordAssumption
  <2> QED
    BY <2>3, <2>4
<1> QED
  BY <1>1

\* A retired file is forgotten, once no segment looks for it.
LEMMA ForgetFits ==
  ASSUME NEW c, NEW d, NEW q, CatShape(c), RowsFit(c), DroppedFits(c, d), QueueFits(q),
         ReplayFits(c, d, q), SeqsDiffer(c, q), NEW id \in Collectable(c),
         c.rows[id].level = 0 =>
           \A s \in DOMAIN q : \A r \in ToSet(q[s]) : \A y \in c.rows[id].recs : y.seq < r.seq
  PROVE  LET e == Forget(c, id)
         IN  /\ CatShape(e) /\ RowsFit(e) /\ DroppedFits(e, d)
             /\ ReplayFits(e, d, q) /\ SeqsDiffer(e, q)
             /\ Live(e) = Live(c) /\ Collectable(e) = Collectable(c) \ {id}
             /\ DOMAIN e.rows = DOMAIN c.rows \ {id}
             /\ \A i \in DOMAIN e.rows : e.rows[i] = c.rows[i]
             /\ e.pending = c.pending /\ e.maxSeq = c.maxSeq
             /\ \A p : Registered(e, p) <=> Registered(c, p) /\ p # c.rows[id].path
             /\ Filed(e, d) = Filed(c, d)
<1> DEFINE e == Forget(c, id)
<1>1. /\ CatShape(e) /\ DOMAIN e.rows = DOMAIN c.rows \ {id}
      /\ \A i \in DOMAIN e.rows : e.rows[i] = c.rows[i]
      /\ e.nextId = c.nextId /\ e.maxSeq = c.maxSeq /\ e.pending = c.pending
  BY ForgetIs
<1> HIDE DEF e
<1>2. id \in DOMAIN c.rows /\ c.rows[id].state # "live" /\ RowFits(c, id)
  BY DEF Collectable, RowsFit
<1>3. Live(e) = Live(c) /\ Collectable(e) = Collectable(c) \ {id}
  BY <1>1, <1>2 DEF Live, Collectable
<1>4. \A p : Registered(e, p) <=> Registered(c, p) /\ p # c.rows[id].path
  BY <1>1, <1>2 DEF Registered, RowsFit
<1>5. LiveIn(e) = LiveIn(c) /\ Filed(e, d) = Filed(c, d)
  <2>1. \A i \in Live(c) : e.rows[i] = c.rows[i]
    BY <1>1, <1>2 DEF Live
  <2> QED
    BY <1>3, <2>1 DEF LiveIn, Filed
<1>6. RowsFit(e)
  <2>1. \A i \in DOMAIN e.rows : RowFits(e, i)
    BY <1>1, <1>3 DEF RowsFit, RowFits
  <2> QED
    BY <1>1, <1>3, <2>1 DEF RowsFit, Live
<1>7. DroppedFits(e, d)
  BY <1>1, <1>5 DEF DroppedFits
<1>8. ReplayFits(e, d, q)
  <2>1. ASSUME NEW s \in DOMAIN q, NEW r \in ToSet(q[s])
        PROVE  r \in Filed(e, d) <=> Registered(e, ObjectName(q[s], r.stream))
    <3>1. q[s] \in Seq(Record)
      BY DEF QueueFits
    <3>2. c.rows[id].path \notin Names(q[s])
      BY <1>2, <2>1, <3>1, AheadOfFile
    <3>3. ObjectName(q[s], r.stream) # c.rows[id].path
      BY <2>1, <3>1, <3>2, NameOf
    <3> QED
      BY <1>4, <1>5, <2>1, <3>3 DEF ReplayFits
  <2> QED
    BY <2>1 DEF ReplayFits
<1>9. SeqsDiffer(e, q)
  BY <1>1 DEF SeqsDiffer
<1> QED
  BY <1>1, <1>3, <1>4, <1>5, <1>6, <1>7, <1>8, <1>9 DEF e

\* Ageing a row changes nothing else about it.
LEMMA AgedRow ==
  ASSUME NEW p, NEW l, NEW r, NEW s, NEW a, NEW row,
         row = [path |-> p, level |-> l, recs |-> r, state |-> s, aged |-> a],
         NEW new, new = [row EXCEPT !.aged = TRUE]
  PROVE  /\ new.path = row.path /\ new.level = row.level /\ new.recs = row.recs
         /\ new.state = row.state /\ new.aged = TRUE
         /\ new = [path |-> new.path, level |-> new.level, recs |-> new.recs,
                   state |-> new.state, aged |-> new.aged]
  OBVIOUS

\* A retired file gets old.
LEMMA AgeFits ==
  ASSUME NEW c, NEW d, NEW q, CatShape(c), RowsFit(c), DroppedFits(c, d),
         ReplayFits(c, d, q), SeqsDiffer(c, q),
         NEW id \in DOMAIN c.rows, c.rows[id].state = "tombstoned"
  PROVE  LET e == [c EXCEPT !.rows[id].aged = TRUE]
         IN  /\ CatShape(e) /\ RowsFit(e) /\ DroppedFits(e, d)
             /\ ReplayFits(e, d, q) /\ SeqsDiffer(e, q)
             /\ Live(e) = Live(c) /\ Collectable(c) \subseteq Collectable(e)
             /\ DOMAIN e.rows = DOMAIN c.rows
             /\ \A i \in DOMAIN c.rows : /\ e.rows[i].path = c.rows[i].path
                                         /\ e.rows[i].level = c.rows[i].level
                                         /\ e.rows[i].recs = c.rows[i].recs
                                         /\ c.rows[i].aged => e.rows[i].aged
             /\ e.pending = c.pending /\ e.maxSeq = c.maxSeq /\ e.rollup = c.rollup
             /\ \A p : Registered(e, p) <=> Registered(c, p)
             /\ Filed(e, d) = Filed(c, d)
<1> DEFINE e == [c EXCEPT !.rows[id].aged = TRUE]
           rows == [c.rows EXCEPT ![id].aged = TRUE]
<1>1. e = [c EXCEPT !.rows = rows]
  BY DEF CatShape
<1>2. /\ DOMAIN rows = DOMAIN c.rows
      /\ \A i \in DOMAIN c.rows \ {id} : rows[i] = c.rows[i]
      /\ rows[id] = [c.rows[id] EXCEPT !.aged = TRUE]
  OBVIOUS
<1> HIDE DEF e, rows
<1>3. /\ e.rows = rows /\ e.nextId = c.nextId /\ e.maxSeq = c.maxSeq
      /\ e.rollup = c.rollup /\ e.pending = c.pending
      /\ e = [rows |-> e.rows, nextId |-> e.nextId, pending |-> e.pending,
              rollup |-> e.rollup, maxSeq |-> e.maxSeq]
  BY <1>1 DEF CatShape
<1>4. CatShape(e)
  BY <1>3 DEF CatShape
<1>5. RowFits(c, id)
  BY DEF RowsFit
<1>6. /\ rows[id].path = c.rows[id].path /\ rows[id].level = c.rows[id].level
      /\ rows[id].recs = c.rows[id].recs /\ rows[id].state = "tombstoned" /\ rows[id].aged = TRUE
      /\ rows[id] = [path |-> rows[id].path, level |-> rows[id].level, recs |-> rows[id].recs,
                     state |-> rows[id].state, aged |-> rows[id].aged]
  <2> DEFINE p == c.rows[id].path
             l == c.rows[id].level
             r == c.rows[id].recs
             s == c.rows[id].state
             a == c.rows[id].aged
             row == c.rows[id]
             new == rows[id]
  <2>1. row = [path |-> p, level |-> l, recs |-> r, state |-> s, aged |-> a]
    BY RowShape
  <2>2. new = [row EXCEPT !.aged = TRUE]
    BY <1>2
  <2> HIDE DEF p, l, r, s, a, row, new
  <2>3. /\ new.path = row.path /\ new.level = row.level /\ new.recs = row.recs
        /\ new.state = row.state /\ new.aged = TRUE
        /\ new = [path |-> new.path, level |-> new.level, recs |-> new.recs,
                  state |-> new.state, aged |-> new.aged]
    BY <2>1, <2>2, AgedRow
  <2>4. row.state = "tombstoned"
    BY DEF row
  <2> QED
    BY <2>3, <2>4 DEF row, new
<1>7. \A i \in DOMAIN c.rows :
        /\ e.rows[i].path = c.rows[i].path /\ e.rows[i].level = c.rows[i].level
        /\ e.rows[i].recs = c.rows[i].recs /\ e.rows[i].state = c.rows[i].state
        /\ i # id => e.rows[i].aged = c.rows[i].aged
        /\ c.rows[i].aged => e.rows[i].aged
  BY <1>2, <1>3, <1>6
<1>8. DOMAIN e.rows = DOMAIN c.rows
  BY <1>2, <1>3
<1>9. Live(e) = Live(c) /\ \A p : Registered(e, p) <=> Registered(c, p)
  BY <1>7, <1>8 DEF Live, Registered
<1>10. Collectable(c) \subseteq Collectable(e)
  BY <1>7, <1>8 DEF Collectable
<1>11. LiveIn(e) = LiveIn(c) /\ Filed(e, d) = Filed(c, d)
  <2>1. \A i \in Live(c) : e.rows[i].recs = c.rows[i].recs
    BY <1>7 DEF Live
  <2> QED
    BY <1>9, <2>1 DEF LiveIn, Filed
<1>12. RowsFit(e)
  <2>1. ASSUME NEW i \in DOMAIN c.rows \ {id} PROVE RowFits(e, i)
    <3>1. RowFits(c, i) /\ e.rows[i] = c.rows[i]
      BY <1>2, <1>3 DEF RowsFit
    <3> QED
      BY <1>3, <1>9, <3>1 DEF RowFits
  <2>2. RowFits(e, id)
    <3>1. /\ e.rows[id].path = c.rows[id].path /\ e.rows[id].level = c.rows[id].level
          /\ e.rows[id].recs = c.rows[id].recs /\ e.rows[id].state = "tombstoned"
          /\ e.rows[id].aged = TRUE
          /\ e.rows[id] = [path |-> e.rows[id].path, level |-> e.rows[id].level,
                           recs |-> e.rows[id].recs, state |-> e.rows[id].state,
                           aged |-> e.rows[id].aged]
      BY <1>3, <1>6
    <3>2. e.rows[id].state \in {"live", "tombstoned"} /\ e.rows[id].state # "live"
          /\ e.rows[id].aged \in BOOLEAN
      BY <3>1
    <3> QED
      BY <1>3, <1>5, <1>9, <3>1, <3>2 DEF RowFits
  <2>3. \A i, j \in DOMAIN e.rows : e.rows[i].path = e.rows[j].path => i = j
    BY <1>7, <1>8 DEF RowsFit
  <2>4. \A i \in Live(e) : i \in DOMAIN c.rows
    BY <1>9 DEF Live
  <2>5. \A i \in Live(e), j \in DOMAIN e.rows :
          i # j /\ e.rows[i].recs \cap e.rows[j].recs # {} =>
            j \notin Live(e) /\ e.rows[j].level <= e.rows[i].level
    BY <1>7, <1>8, <1>9, <2>4 DEF RowsFit
  <2> QED
    BY <1>8, <2>1, <2>2, <2>3, <2>5 DEF RowsFit
<1>13. DroppedFits(e, d)
  BY <1>3, <1>7, <1>8, <1>11 DEF DroppedFits
<1>14. ReplayFits(e, d, q)
  BY <1>9, <1>11 DEF ReplayFits
<1>15. SeqsDiffer(e, q)
  <2>1. \A i \in DOMAIN c.rows : e.rows[i].recs = c.rows[i].recs
    BY <1>7
  <2> QED
    BY <1>8, <2>1 DEF SeqsDiffer
<1> QED
  BY <1>3, <1>4, <1>7, <1>8, <1>9, <1>10, <1>11, <1>12, <1>13, <1>14, <1>15 DEF e

------------------------------------------------------------------------------
(* The flush cycle and the boot keep the invariant. *)

\* The invariant holds of an empty store.
LEMMA InitInv ==
  Init => IInv
<1> SUFFICES ASSUME Init PROVE IInv
  OBVIOUS
<1>1. /\ segs = <<>> /\ active = 0 /\ removed = <<>> /\ cat = EmptyCatalog /\ objects = <<>>
      /\ up = "down" /\ seq = 0 /\ batch = <<>> /\ unflushed = <<>> /\ flusher = NoFlush
      /\ collector = NoCollection /\ acked = {} /\ merge = NoMerge /\ dropped = {}
  BY DEF Init, StoreInit, LogInit, CompactorInit
<1>2. DOMAIN segs = {} /\ DOMAIN removed = {} /\ DOMAIN objects = {}
  BY <1>1
<1>3. LogFits(segs, active, removed)
  BY <1>1, <1>2, FS_EmptySet DEF LogFits, DirFits
<1>4. DOMAIN Kept(segs, removed) = {}
  BY <1>2 DEF Kept, RecsOf, Joined
<1>5. /\ cat.rows = <<>> /\ cat.nextId = 1 /\ cat.pending = <<>> /\ cat.maxSeq = 0
      /\ CatShape(cat) /\ DOMAIN cat.rows = {} /\ DOMAIN cat.pending = {}
  BY <1>1 DEF EmptyCatalog, CatShape
<1>6. Live(cat) = {} /\ LiveIn(cat) = {}
  BY <1>5 DEF Live, LiveIn
<1>7. RowsFit(cat) /\ DroppedFits(cat, dropped) /\ ObjectsFit(cat, objects)
  BY <1>1, <1>2, <1>5, <1>6 DEF RowsFit, DroppedFits, ObjectsFit
<1>8. /\ QueueFits(Kept(segs, removed)) /\ ReplayFits(cat, dropped, Kept(segs, removed))
      /\ SeqsDiffer(cat, Kept(segs, removed))
  BY <1>4, <1>5 DEF QueueFits, ReplayFits, SeqsDiffer
<1>9. /\ BatchFits(up, active, batch, segs, cat.maxSeq)
      /\ SeqFits(up, seq, segs, removed, cat.maxSeq, flusher)
  BY <1>1, <1>2 DEF BatchFits, SeqFits
<1>10. FlushFits(up, flusher, unflushed, segs, active) /\ PersistFits(flusher, cat, objects)
  BY <1>1, EmptySeq DEF FlushFits, PersistFits, NoFlush, Busy
<1>11. CollectFits(up, collector, cat, objects, segs, seq) /\ MergeFits(up, merge, cat, objects)
  BY <1>1 DEF CollectFits, MergeFits, NoCollection, NoMerge
<1>12. AckFits(acked, cat, dropped, segs)
  BY <1>1 DEF AckFits
<1> QED
  BY <1>3, <1>5, <1>7, <1>8, <1>9, <1>10, <1>11, <1>12 DEF IInv

\* A boot lists every segment for replay, and starts the sequence from the
\* catalogue.
LEMMA BootInv ==
  ASSUME IInv, Boot, UNCHANGED <<merge, dropped>>
  PROVE  IInv'
<1>1. /\ up = "down" /\ LogOpen /\ up' = "recovering" /\ seq' = cat.maxSeq
      /\ flusher' = [NoFlush EXCEPT !.step = "next", !.left = InOrder(DOMAIN segs)]
      /\ UNCHANGED <<cat, objects, batch, unflushed, collector, acked, merge, dropped>>
  BY DEF Boot, FirstSeq
<1>2. /\ LogFits(segs, active, removed)'
      /\ Within(Kept(segs, removed)', Kept(segs, removed))
      /\ active' \in Nat \ {0} /\ \A s \in DOMAIN segs : s < active'
      /\ DOMAIN segs' = DOMAIN segs \cup {active'}
      /\ segs'[active'] = EmptySegment
      /\ \A s \in DOMAIN segs : segs'[s] = segs[s]
      /\ removed' = removed
  BY <1>1, OpenIs DEF IInv
<1>3. /\ QueueFits(Kept(segs, removed)') /\ ReplayFits(cat, dropped, Kept(segs, removed)')
      /\ SeqsDiffer(cat, Kept(segs, removed)')
  BY <1>2, QueueWithin, ReplayWithin, DifferWithin DEF IInv
<1>4. /\ flusher' = [step |-> "next", left |-> InOrder(DOMAIN segs), kept |-> <<>>, seg |-> 0,
                     recs |-> <<>>, todo |-> <<>>, failed |-> FALSE, live |-> FALSE]
      /\ flusher'.step = "next" /\ flusher'.left = InOrder(DOMAIN segs) /\ flusher'.kept = <<>>
      /\ flusher'.recs = <<>> /\ flusher'.todo = <<>> /\ flusher'.seg = 0
      /\ flusher'.failed = FALSE /\ flusher'.live = FALSE
      /\ flusher' = [step |-> flusher'.step, left |-> flusher'.left, kept |-> flusher'.kept,
                     seg |-> flusher'.seg, recs |-> flusher'.recs, todo |-> flusher'.todo,
                     failed |-> flusher'.failed, live |-> flusher'.live]
      /\ unflushed = <<>> /\ batch = <<>> /\ collector = NoCollection /\ merge.step = "idle"
      /\ cat.maxSeq \in Nat
  BY <1>1 DEF IInv, NoFlush, FlushFits, BatchFits, CollectFits, MergeFits, CatShape
<1>5. InOrder(DOMAIN segs) \in Seq(Nat) /\ ToSet(InOrder(DOMAIN segs)) = DOMAIN segs
  <2> DEFINE key == [n \in DOMAIN segs |-> n]
  <2>1. DOMAIN segs \in SUBSET Nat /\ IsFiniteSet(DOMAIN segs)
    BY DEF IInv, LogFits, DirFits
  <2>2. key \in [DOMAIN segs -> Int] /\ \A x, y \in DOMAIN segs : key[x] = key[y] => x = y
    BY <2>1
  <2>3. /\ SortedBy(DOMAIN segs, key) \in Seq(DOMAIN segs)
        /\ ToSet(SortedBy(DOMAIN segs, key)) = DOMAIN segs
    <3> HIDE DEF key
    <3> QED
      BY <2>1, <2>2, SortedByIs
  <2> QED
    BY <2>1, <2>3, SeqMonotonic DEF InOrder
<1>6. segs'[active'].recs = <<>> /\ ToSet(<<>>) = {}
  BY <1>2, ToSetEmpty DEF EmptySegment
<1>7. BatchFits(up, active, batch, segs, cat.maxSeq)'
  BY <1>1, <1>2, <1>4, <1>6 DEF BatchFits
<1>8. SeqFits(up, seq, segs, removed, cat.maxSeq, flusher)'
  <2>1. \A s \in DOMAIN segs' : s \in ToSet(flusher'.left) \/ \A r \in ToSet(segs'[s].recs) : r.seq <= seq'
    BY <1>2, <1>4, <1>5, <1>6
  <2>2. \A s \in DOMAIN removed : \A r \in ToSet(removed[s].recs) : r.seq <= cat.maxSeq
    BY DEF IInv, SeqFits
  <2> QED
    BY <1>1, <1>2, <1>4, <1>6, <2>1, <2>2 DEF SeqFits
<1>9. FlushFits(up, flusher, unflushed, segs, active)'
  <2>1. ToSet(flusher'.left) = DOMAIN segs /\ ToSet(flusher'.kept) = {} /\ ToSet(unflushed') = {}
    BY <1>1, <1>4, <1>5, <1>6
  <2> QED
    BY <1>1, <1>2, <1>4, <1>5, <2>1, EmptySeq DEF FlushFits, Busy
<1>10. PersistFits(flusher, cat, objects)'
  BY <1>4 DEF PersistFits
<1>11. CollectFits(up, collector, cat, objects, segs, seq)' /\ MergeFits(up, merge, cat, objects)'
  <2>1. CollectFits(up', collector', cat', objects', segs', seq')
    BY <1>1, <1>4 DEF CollectFits, NoCollection
  <2>2. MergeFits(up', merge', cat', objects')
    BY <1>1, <1>4 DEF IInv, MergeFits
  <2> QED
    BY <2>1, <2>2
<1>12. AckFits(acked, cat, dropped, segs)'
  BY <1>1, <1>2 DEF IInv, AckFits
<1> QED
  BY <1>1, <1>2, <1>3, <1>7, <1>8, <1>9, <1>10, <1>11, <1>12 DEF IInv

\* A flush takes over the retry list.
LEMMA StartFlushInv ==
  ASSUME IInv, StartFlush, UNCHANGED <<merge, dropped>>
  PROVE  IInv'
<1>1. /\ up = "serving" /\ flusher.step = "idle"
      /\ flusher' = [NoFlush EXCEPT !.step = "next", !.left = unflushed]
      /\ UNCHANGED <<segs, active, removed, cat, objects, up, seq, batch, unflushed,
                     collector, acked, merge, dropped>>
  BY DEF StartFlush, logVars
<1>2. FlushFits(up, flusher, unflushed, segs, active)'
  BY <1>1, ToSetEmpty, EmptySeq DEF FlushFits, IInv, NoFlush, Busy
<1>3. PersistFits(flusher, cat, objects)'
  BY <1>1 DEF PersistFits, NoFlush
<1>4. SeqFits(up, seq, segs, removed, cat.maxSeq, flusher)'
  BY <1>1 DEF SeqFits, IInv
<1> QED
  BY <1>1, <1>2, <1>3, <1>4 DEF IInv

\* The end of recovery leaves to the retry list what failed, and by then the
\* sequence has passed every record in the log.
LEMMA RecoveredInv ==
  ASSUME IInv, Recovered, UNCHANGED <<merge, dropped>>
  PROVE  IInv'
<1>1. /\ up = "recovering" /\ flusher.step = "next" /\ flusher.left = <<>>
      /\ up' = "serving" /\ unflushed' = flusher.kept /\ flusher' = NoFlush
      /\ UNCHANGED <<segs, active, removed, cat, objects, seq, batch, collector, acked,
                     merge, dropped>>
  BY DEF Recovered, logVars
<1>2. FlushFits(up, flusher, unflushed, segs, active)'
  <2>1. FlushFits(up, flusher, unflushed, segs, active) /\ flusher'.left = <<>> /\ flusher'.kept = <<>>
    BY <1>1 DEF IInv, NoFlush
  <2> QED
    BY <1>1, <2>1, ToSetEmpty, EmptySeq DEF FlushFits, NoFlush, Busy
<1>3. PersistFits(flusher, cat, objects)'
  BY <1>1 DEF PersistFits, NoFlush
<1>4. SeqFits(up, seq, segs, removed, cat.maxSeq, flusher)'
  BY <1>1, ToSetEmpty DEF SeqFits, IInv
<1>5. BatchFits(up, active, batch, segs, cat.maxSeq)'
  BY <1>1 DEF BatchFits, IInv
<1>6. CollectFits(up, collector, cat, objects, segs, seq)'
  <2>1. collector = NoCollection
    BY <1>1 DEF CollectFits, IInv
  <2> QED
    BY <1>1, <2>1 DEF CollectFits, NoCollection
<1>7. MergeFits(up, merge, cat, objects)'
  BY <1>1 DEF MergeFits, IInv
<1> QED
  BY <1>1, <1>2, <1>3, <1>4, <1>5, <1>6, <1>7 DEF IInv

\* What the collector relies on survives as long as no record is new.
LEMMA CollectWithin ==
  ASSUME NEW u, NEW k, NEW c, NEW o, NEW g, NEW h, NEW n \in Nat, NEW m \in Nat,
         CollectFits(u, k, c, o, g, n), n <= m,
         \A s \in DOMAIN h : \A r \in ToSet(h[s].recs) :
           \E t \in DOMAIN g : r \in ToSet(g[t].recs)
  PROVE  CollectFits(u, k, c, o, h, m)
<1>1. ASSUME NEW id, Behind(id, c, g) PROVE Behind(id, c, h)
  BY <1>1 DEF Behind
<1>2. ASSUME NEW lo \in Nat, \A s \in DOMAIN g : \A r \in ToSet(g[s].recs) : lo <= r.seq
      PROVE  \A s \in DOMAIN h : \A r \in ToSet(h[s].recs) : lo <= r.seq
  BY <1>2
<1>3. k.floor \in Nat /\ k.floor <= n + 1 => k.floor <= m + 1
  OBVIOUS
<1>4. ASSUME k.step \in {"remove", "forget"}
      PROVE  IF k.bounded
             THEN /\ k.floor \in Nat /\ k.floor <= m + 1
                  /\ \A s \in DOMAIN h : \A r \in ToSet(h[s].recs) : k.floor <= r.seq
             ELSE \A id \in k.files : Behind(id, c, h)
  BY <1>1, <1>2, <1>3, <1>4 DEF CollectFits
<1> QED
  BY <1>1, <1>4 DEF CollectFits

\* Parts of the invariant that a sync leaves as they were.
LEMMA HardenedFits ==
  ASSUME NEW g, NEW h, Hardened(g, h), NEW u, NEW a
  PROVE  /\ \A b, top : a \in DOMAIN g \/ u = "down" =>
              (BatchFits(u, a, b, g, top) => BatchFits(u, a, b, h, top))
         /\ \A n, rm, rn, top, f : rn \in {rm, <<>>} =>
              (SeqFits(u, n, g, rm, top, f) => SeqFits(u, n, h, rn, top, f))
         /\ \A f, un : FlushFits(u, f, un, g, a) => FlushFits(u, f, un, h, a)
         /\ \A k, c, d : AckFits(k, c, d, g) => AckFits(k, c, d, h)
         /\ \A s \in DOMAIN h : \A r \in ToSet(h[s].recs) :
              \E t \in DOMAIN g : r \in ToSet(g[t].recs)
<1>1. /\ DOMAIN h = DOMAIN g
      /\ \A s \in DOMAIN g : h[s].recs = g[s].recs /\ HardOf(g[s]) \subseteq HardOf(h[s])
  BY DEF Hardened
<1>2. ASSUME NEW b, NEW top, a \in DOMAIN g \/ u = "down", BatchFits(u, a, b, g, top)
      PROVE  BatchFits(u, a, b, h, top)
  BY <1>1, <1>2 DEF BatchFits
<1>3. ASSUME NEW n, NEW rm, NEW rn, NEW top, NEW f, rn \in {rm, <<>>}, SeqFits(u, n, g, rm, top, f)
      PROVE  SeqFits(u, n, h, rn, top, f)
  <2>1. DOMAIN <<>> = {}
    OBVIOUS
  <2>2. \A s \in DOMAIN rn : \A r \in ToSet(rn[s].recs) : r.seq <= top
    BY <1>3, <2>1 DEF SeqFits
  <2> QED
    BY <1>1, <1>3, <2>2 DEF SeqFits
<1>4. ASSUME NEW f, NEW un, FlushFits(u, f, un, g, a) PROVE FlushFits(u, f, un, h, a)
  BY <1>1, <1>4 DEF FlushFits
<1>5. ASSUME NEW k, NEW c, NEW d, AckFits(k, c, d, g) PROVE AckFits(k, c, d, h)
  BY <1>1, <1>5 DEF AckFits
<1>6. \A s \in DOMAIN h : \A r \in ToSet(h[s].recs) : \E t \in DOMAIN g : r \in ToSet(g[t].recs)
  BY <1>1
<1> QED
  BY <1>2, <1>3, <1>4, <1>5, <1>6

\* A record with a number above every file's is not filed, nor a name made
\* of it.
LEMMA AboveFiles ==
  ASSUME NEW c, NEW d, CatShape(c), RowsFit(c), DroppedFits(c, d),
         NEW x \in Record, c.maxSeq < x.seq
  PROVE  /\ x \notin Filed(c, d)
         /\ \A p : p.seq = x.seq => ~Registered(c, p)
         /\ \A i \in DOMAIN c.rows : \A y \in c.rows[i].recs : y.seq < x.seq
<1>1. x.seq \in Nat /\ c.maxSeq \in Nat /\ Live(c) \subseteq DOMAIN c.rows
  BY RecordAssumption DEF CatShape, Live
<1>2. ASSUME NEW i \in DOMAIN c.rows, NEW y \in c.rows[i].recs
      PROVE  y.seq < x.seq /\ y # x
  <2>1. y \in Record /\ y.seq <= c.maxSeq
    BY <1>2 DEF RowsFit, RowFits
  <2>2. y.seq \in Nat
    BY <2>1, RecordAssumption
  <2> QED
    BY <1>1, <2>1, <2>2
<1>3. x \notin d
  BY <1>1 DEF DroppedFits
<1>4. x \notin Filed(c, d)
  BY <1>1, <1>2, <1>3 DEF Filed, LiveIn
<1>5. ASSUME NEW p, p.seq = x.seq, NEW i \in DOMAIN c.rows, c.rows[i].path = p
      PROVE  FALSE
  <2>1. PICK y \in c.rows[i].recs : c.rows[i].path = Path(c.rows[i].level, y, c.rows[i].path.of)
    BY DEF RowsFit, RowFits
  <2>2. p.seq = y.seq
    BY <1>5, <2>1 DEF Path
  <2>3. y.seq < x.seq
    BY <1>2
  <2> QED
    BY <1>1, <1>5, <2>2, <2>3
<1> QED
  BY <1>2, <1>4, <1>5 DEF Registered

\* A record appended to the last segment, above all there is.
LEMMA AppendFits ==
  ASSUME NEW c, NEW d, NEW q, CatShape(c), RowsFit(c), DroppedFits(c, d), QueueFits(q),
         ReplayFits(c, d, q), SeqsDiffer(c, q),
         NEW a \in DOMAIN q, \A s \in DOMAIN q : s <= a,
         \A x \in ToSet(q[a]) : c.maxSeq < x.seq,
         NEW r \in Record, c.maxSeq < r.seq,
         \A s \in DOMAIN q : \A x \in ToSet(q[s]) : x.seq < r.seq,
         NEW p, DOMAIN p = DOMAIN q, p[a] = Append(q[a], r),
         \A s \in DOMAIN q \ {a} : p[s] = q[s]
  PROVE  QueueFits(p) /\ ReplayFits(c, d, p) /\ SeqsDiffer(c, p)
<1>1. q[a] \in Seq(Record) /\ p[a] \in Seq(Record) /\ ToSet(p[a]) = ToSet(q[a]) \cup {r}
  BY ToSetAppend, AppendProperties DEF QueueFits
<1>2. \A x \in ToSet(p[a]) : x \in Record /\ c.maxSeq < x.seq
  <2>1. \A x \in ToSet(q[a]) : x \in Record
    BY <1>1, ToSetIs
  <2> QED
    BY <1>1, <2>1
<1>3. \A s \in DOMAIN p : s \in Nat /\ p[s] \in Seq(Record)
  BY <1>1 DEF QueueFits
<1>4. ASSUME NEW s \in DOMAIN p, NEW i \in 1 .. Len(p[s]), NEW j \in 1 .. Len(p[s]), i < j
      PROVE  p[s][i].seq < p[s][j].seq
  <2>1. CASE s # a
    BY <1>4, <2>1 DEF QueueFits
  <2>2. CASE s = a
    <3>1. /\ Len(p[a]) = Len(q[a]) + 1 /\ p[a][Len(q[a]) + 1] = r
          /\ \A e \in 1 .. Len(q[a]) : p[a][e] = q[a][e]
      BY <1>1, AppendProperties
    <3>2. i \in 1 .. Len(q[a]) /\ (j \in 1 .. Len(q[a]) \/ j = Len(q[a]) + 1)
      BY <1>1, <1>4, <2>2, <3>1
    <3>3. q[a][i] \in ToSet(q[a])
      BY <1>1, <3>2, ToSetIs
    <3> QED
      BY <1>4, <2>2, <3>1, <3>2, <3>3 DEF QueueFits
  <2> QED
    BY <2>1, <2>2
<1>5. ASSUME NEW s \in DOMAIN p, NEW t \in DOMAIN p, s < t,
             NEW x \in ToSet(p[s]), NEW y \in ToSet(p[t])
      PROVE  x.seq < y.seq
  <2>1. s # a /\ x \in ToSet(q[s]) /\ x.seq < r.seq
    BY <1>3, <1>5
  <2>2. y \in ToSet(q[t]) \/ y = r
    BY <1>1, <1>5
  <2> QED
    BY <1>5, <2>1, <2>2 DEF QueueFits
<1>6. QueueFits(p)
  BY <1>3, <1>4, <1>5 DEF QueueFits
<1>7. ReplayFits(c, d, p)
  <2>1. ASSUME NEW s \in DOMAIN p, s # a, NEW x \in ToSet(p[s])
        PROVE  x \in Filed(c, d) <=> Registered(c, ObjectName(p[s], x.stream))
    BY <2>1 DEF ReplayFits
  <2>2. ASSUME NEW x \in ToSet(p[a])
        PROVE  x \notin Filed(c, d) /\ ~Registered(c, ObjectName(p[a], x.stream))
    <3>1. PICK i \in 1 .. Len(p[a]) : ObjectName(p[a], x.stream) = Path(0, p[a][i], 0)
      BY <1>1, ObjectNameIs
    <3>2. p[a][i] \in ToSet(p[a])
      BY <1>1, ToSetIs
    <3>3. ObjectName(p[a], x.stream).seq = p[a][i].seq
      BY <3>1 DEF Path
    <3> QED
      BY <1>2, <3>2, <3>3, AboveFiles
  <2> QED
    BY <2>1, <2>2 DEF ReplayFits
<1>8. SeqsDiffer(c, p)
  <2>1. ASSUME NEW i \in DOMAIN c.rows, NEW x \in c.rows[i].recs,
               NEW s \in DOMAIN p, NEW y \in ToSet(p[s]), x.seq = y.seq
        PROVE  x = y
    <3>1. CASE y \in ToSet(q[s])
      BY <2>1, <3>1 DEF SeqsDiffer
    <3>2. CASE y = r
      <4>1. x.seq < r.seq /\ r.seq \in Nat
        BY AboveFiles, RecordAssumption
      <4> QED
        BY <2>1, <3>2, <4>1
    <3> QED
      BY <1>1, <2>1, <3>1, <3>2
  <2> QED
    BY <2>1 DEF SeqsDiffer
<1> QED
  BY <1>6, <1>7, <1>8

\* A new record is above every other, so nothing is registered under a name
\* made of it.
LEMMA AppendRecordInv ==
  ASSUME IInv, NEW r \in Record, AppendRecord(r), UNCHANGED <<merge, dropped>>
  PROVE  IInv'
<1>1. /\ up = "serving" /\ r.seq = seq + 1 /\ seq' = seq + 1
      /\ \/ LogAppend(r) /\ batch' = Append(batch, r)
         \/ UNCHANGED <<segs, active, removed, batch>>
      /\ UNCHANGED <<cat, objects, up, unflushed, flusher, collector, acked, merge, dropped>>
  BY DEF AppendRecord, logVars
<1>2. seq \in Nat /\ cat.maxSeq \in Nat /\ cat.maxSeq <= seq /\ CatShape(cat)
  BY <1>1 DEF IInv, SeqFits, CatShape
<1>3. CASE UNCHANGED <<segs, active, removed, batch>>
  <2>1. \A s \in DOMAIN segs : \A x \in ToSet(segs[s].recs) : x.seq \in Nat
    <3>1. ASSUME NEW s \in DOMAIN segs, NEW x \in ToSet(segs[s].recs) PROVE x \in Record
      BY ToSetIs DEF IInv, LogFits, DirFits, Segment
    <3> QED
      BY <3>1, RecordAssumption
  <2>2. SeqFits(up, seq, segs, removed, cat.maxSeq, flusher)'
    BY <1>1, <1>2, <1>3, <2>1 DEF IInv, SeqFits
  <2>3. CollectFits(up, collector, cat, objects, segs, seq)'
    <3>1. /\ seq + 1 \in Nat /\ seq <= seq + 1 /\ CollectFits(up, collector, cat, objects, segs, seq)
          /\ \A s \in DOMAIN segs : \A x \in ToSet(segs[s].recs) :
               \E t \in DOMAIN segs : x \in ToSet(segs[t].recs)
      BY <1>2 DEF IInv
    <3>2. CollectFits(up, collector, cat, objects, segs, seq + 1)
      BY <1>2, <3>1, CollectWithin
    <3> QED
      BY <1>1, <1>3, <3>2
  <2> QED
    BY <1>1, <1>3, <2>2, <2>3 DEF IInv
<1>4. CASE LogAppend(r) /\ batch' = Append(batch, r)
  <2> DEFINE q == Kept(segs, removed)
             p == Kept(segs, removed)'
  <2>1. /\ LogFits(segs, active, removed)'
        /\ active \in DOMAIN segs /\ active' = active /\ removed' = removed
        /\ DOMAIN segs' = DOMAIN segs /\ segs[active].recs \in Seq(Record)
        /\ segs'[active].recs = Append(segs[active].recs, r)
        /\ \A s \in DOMAIN segs \ {active} : segs'[s] = segs[s]
        /\ \A s \in DOMAIN segs : HardOf(segs[s]) \subseteq HardOf(segs'[s])
        /\ DOMAIN p = DOMAIN q /\ active \in DOMAIN q
        /\ q[active] = segs[active].recs /\ p[active] = Append(segs[active].recs, r)
        /\ \A s \in DOMAIN q \ {active} : p[s] = q[s]
    BY <1>4, AppendIs DEF IInv
  <2>2. batch = segs[active].recs /\ \A x \in ToSet(batch) : cat.maxSeq < x.seq
    BY <1>1 DEF IInv, BatchFits
  <2>3. /\ DOMAIN q = DOMAIN segs \cup DOMAIN removed
        /\ \A s \in DOMAIN segs : q[s] = segs[s].recs
        /\ \A s \in DOMAIN removed \ DOMAIN segs : q[s] = removed[s].recs
    BY KeptIs
  <2>4. \A s \in DOMAIN q : s \in Nat /\ s <= active
    BY <2>1, <2>3 DEF IInv, LogFits, DirFits
  <2>5. /\ r.seq \in Nat /\ cat.maxSeq < r.seq
        /\ \A s \in DOMAIN q : \A x \in ToSet(q[s]) : x \in Record /\ x.seq \in Nat /\ x.seq < r.seq
    <3>1. ASSUME NEW s \in DOMAIN q, NEW x \in ToSet(q[s]) PROVE x \in Record /\ x.seq <= seq
      <4>1. x \in Record /\ x.seq \in Nat
        BY ToSetIs, RecordAssumption DEF IInv, QueueFits
      <4>2. CASE s \in DOMAIN segs
        BY <1>1, <2>3, <4>1, <4>2 DEF IInv, SeqFits
      <4>3. CASE s \in DOMAIN removed \ DOMAIN segs
        <5>1. x.seq <= cat.maxSeq
          BY <2>3, <4>3 DEF IInv, SeqFits
        <5> QED
          BY <1>2, <4>1, <5>1
      <4> QED
        BY <2>3, <4>2, <4>3
    <3>2. \A x \in Record : x.seq \in Nat
      BY RecordAssumption
    <3> QED
      BY <1>1, <1>2, <3>1, <3>2
  <2> HIDE DEF p, q
  <2>6. QueueFits(p) /\ ReplayFits(cat, dropped, p) /\ SeqsDiffer(cat, p)
    <3>1. /\ CatShape(cat) /\ RowsFit(cat) /\ DroppedFits(cat, dropped) /\ QueueFits(q)
          /\ ReplayFits(cat, dropped, q) /\ SeqsDiffer(cat, q)
      BY DEF IInv, q
    <3>2. p[active] = Append(q[active], r)
      BY <2>1
    <3>3. \A x \in ToSet(q[active]) : cat.maxSeq < x.seq
      BY <2>1, <2>2
    <3> QED
      BY <2>1, <2>4, <2>5, <3>1, <3>2, <3>3, AppendFits
  <2>7. ToSet(segs'[active].recs) = ToSet(segs[active].recs) \cup {r}
    BY <2>1, ToSetAppend
  <2>8. BatchFits(up, active, batch, segs, cat.maxSeq)'
    BY <1>1, <1>4, <2>1, <2>2, <2>5, <2>7 DEF IInv, BatchFits
  <2>9. SeqFits(up, seq, segs, removed, cat.maxSeq, flusher)'
    <3>1. ASSUME NEW s \in DOMAIN segs, NEW x \in ToSet(segs'[s].recs) PROVE x.seq <= seq + 1
      <4>1. CASE s = active /\ x = r
        BY <1>1, <1>2, <4>1
      <4>2. CASE x \in ToSet(segs[s].recs)
        <5>1. x.seq \in Nat /\ x.seq <= seq
          BY <1>1, <2>3, <2>5, <4>2 DEF IInv, SeqFits
        <5> QED
          BY <1>2, <5>1
      <4> QED
        BY <2>1, <2>7, <3>1, <4>1, <4>2
    <3> QED
      BY <1>1, <1>2, <2>1, <3>1 DEF IInv, SeqFits
  <2>10. FlushFits(up, flusher, unflushed, segs, active)'
    BY <1>1, <2>1 DEF IInv, FlushFits
  <2>11. CollectFits(up, collector, cat, objects, segs, seq)'
    <3>1. ASSUME NEW id \in Collectable(cat), Behind(id, cat, segs) PROVE Behind(id, cat, segs')
      <4>1. id \in DOMAIN cat.rows
        BY DEF Collectable
      <4>2. \A x \in cat.rows[id].recs : x.seq < r.seq
        BY <1>2, <2>5, <4>1, AboveFiles DEF IInv
      <4> QED
        BY <2>1, <2>7, <3>1, <4>2 DEF Behind
    <3>2. ASSUME NEW lo \in Nat, lo <= seq + 1,
                 \A s \in DOMAIN segs : \A x \in ToSet(segs[s].recs) : lo <= x.seq
          PROVE  /\ lo <= seq + 2
                 /\ \A s \in DOMAIN segs' : \A x \in ToSet(segs'[s].recs) : lo <= x.seq
      <4>1. lo <= r.seq /\ lo <= seq + 2
        BY <1>1, <1>2, <3>2
      <4>2. ASSUME NEW s \in DOMAIN segs', NEW x \in ToSet(segs'[s].recs)
            PROVE  x = r \/ x \in ToSet(segs[s].recs)
        BY <2>1, <2>7, <4>2
      <4> QED
        BY <2>1, <3>2, <4>1, <4>2
    <3>3. CollectFits(up, collector, cat, objects, segs, seq)
      BY DEF IInv
    <3>4. ASSUME collector.step \in {"remove", "forget"}
          PROVE  IF collector.bounded
                 THEN /\ collector.floor \in Nat /\ collector.floor <= (seq + 1) + 1
                      /\ \A s \in DOMAIN segs' : \A x \in ToSet(segs'[s].recs) :
                           collector.floor <= x.seq
                 ELSE \A id \in collector.files : Behind(id, cat, segs')
      <4>1. CASE collector.bounded
        <5>1. /\ collector.floor \in Nat /\ collector.floor <= seq + 1
              /\ \A s \in DOMAIN segs : \A x \in ToSet(segs[s].recs) : collector.floor <= x.seq
          BY <3>3, <3>4, <4>1 DEF CollectFits
        <5>2. seq + 2 = (seq + 1) + 1
          BY <1>2
        <5> QED
          BY <3>2, <4>1, <5>1, <5>2
      <4>2. CASE ~collector.bounded
        BY <3>1, <3>3, <3>4, <4>2 DEF CollectFits
      <4> QED
        BY <4>1, <4>2
    <3>5. collector.step = "forget" /\ cat.rows[collector.current].level = 0 =>
            Behind(collector.current, cat, segs')
      BY <3>1, <3>3 DEF CollectFits
    <3>6. CollectFits(up, collector, cat, objects, segs', seq + 1)
      BY <3>3, <3>4, <3>5 DEF CollectFits
    <3> QED
      BY <1>1, <3>6
  <2>12. AckFits(acked, cat, dropped, segs)'
    BY <1>1, <2>1 DEF IInv, AckFits
  <2> QED
    BY <1>1, <2>1, <2>6, <2>8, <2>9, <2>10, <2>11, <2>12 DEF IInv, p
<1> QED
  BY <1>1, <1>3, <1>4

\* What is acknowledged is on disk for good.
LEMMA SyncAndAckInv ==
  ASSUME IInv, SyncAndAck, UNCHANGED <<merge, dropped>>
  PROVE  IInv'
<1>1. /\ up = "serving" /\ LogSync /\ segs'[active].hard = Len(segs[active].recs)
      /\ acked' = acked \cup Held(segs[active]) \cup UNION {HardOf(segs[s]) : s \in Sealed}
      /\ UNCHANGED <<cat, objects, up, seq, batch, unflushed, flusher, collector, merge, dropped>>
  BY DEF SyncAndAck
<1>2. /\ LogFits(segs, active, removed)'
      /\ Within(Kept(segs, removed)', Kept(segs, removed))
      /\ Hardened(segs, segs') /\ active' = active /\ removed' \in {removed, <<>>}
  BY <1>1, SyncIs DEF IInv
<1>3. /\ QueueFits(Kept(segs, removed)') /\ ReplayFits(cat, dropped, Kept(segs, removed)')
      /\ SeqsDiffer(cat, Kept(segs, removed)')
  BY <1>2, QueueWithin, ReplayWithin, DifferWithin DEF IInv
<1>4. active \in DOMAIN segs
  BY <1>1 DEF IInv, LogFits, BatchFits
<1>5. BatchFits(up, active, batch, segs, cat.maxSeq)'
  BY <1>1, <1>2, <1>4, HardenedFits DEF IInv
<1>6. SeqFits(up, seq, segs, removed, cat.maxSeq, flusher)'
  BY <1>1, <1>2, HardenedFits DEF IInv
<1>7. FlushFits(up, flusher, unflushed, segs, active)'
  BY <1>1, <1>2, HardenedFits DEF IInv
<1>8. CollectFits(up, collector, cat, objects, segs, seq)'
  <2>1. seq \in Nat /\ seq <= seq /\ CollectFits(up, collector, cat, objects, segs, seq)
    BY DEF IInv, SeqFits
  <2>2. \A s \in DOMAIN segs' : \A r \in ToSet(segs'[s].recs) :
          \E t \in DOMAIN segs : r \in ToSet(segs[t].recs)
    BY <1>2 DEF Hardened
  <2>3. CollectFits(up, collector, cat, objects, segs', seq)
    BY <2>1, <2>2, CollectWithin
  <2> QED
    BY <1>1, <2>3
<1>9. AckFits(acked, cat, dropped, segs)'
  <2>1. AckFits(acked, cat, dropped, segs')
    BY <1>2, HardenedFits DEF IInv
  <2>2. Held(segs[active]) = HardOf(segs'[active])
    BY <1>1, <1>2, <1>4 DEF Held, HardOf, Hardened
  <2>3. active \in DOMAIN segs'
    BY <1>2, <1>4 DEF Hardened
  <2>4. ASSUME NEW s \in Sealed
        PROVE  s \in DOMAIN segs' /\ HardOf(segs[s]) \subseteq HardOf(segs'[s])
    BY <1>2 DEF Hardened, HardOf, Sealed
  <2> QED
    BY <1>1, <2>1, <2>2, <2>3, <2>4 DEF AckFits
<1> QED
  BY <1>1, <1>2, <1>3, <1>5, <1>6, <1>7, <1>8, <1>9 DEF IInv

\* The numbers of the records of a segment, finitely many.
LEMMA NewSegment ==
  ASSUME DirFits(segs), NEW s \in DOMAIN segs
  PROVE  /\ s \in Nat /\ segs[s].recs \in Seq(Record)
         /\ \A r \in ToSet(segs[s].recs) : r \in Record /\ r.seq \in Nat
         /\ IsFiniteSet({r.seq : r \in ToSet(segs[s].recs)})
         /\ {r.seq : r \in ToSet(segs[s].recs)} \in SUBSET Nat
<1>1. s \in Nat /\ segs[s].recs \in Seq(Record)
  BY DEF DirFits, Segment
<1>2. ToSet(segs[s].recs) \in SUBSET Record /\ IsFiniteSet(ToSet(segs[s].recs))
  BY <1>1, ToSetIs
<1>3. \A r \in ToSet(segs[s].recs) : r \in Record /\ r.seq \in Nat
  BY <1>2, RecordAssumption
<1>4. IsFiniteSet({r.seq : r \in ToSet(segs[s].recs)})
  <2> DEFINE S == ToSet(segs[s].recs)
         f == [r \in S |-> r.seq]
  <2>1. IsFiniteSet(S)
    BY <1>2
  <2> HIDE DEF S
  <2>2. f \in Surjection(S, {r.seq : r \in S})
    BY DEF Surjection
  <2>3. IsFiniteSet({r.seq : r \in S})
    BY <2>1, <2>2, FS_Surjection
  <2> QED
    BY <2>3 DEF S
<1> QED
  BY <1>1, <1>3, <1>4

\* A segment that is read moves the sequence past its records.
LEMMA ReadSegmentInv ==
  ASSUME ~UnreadableSegs, IInv, ReadSegment, UNCHANGED <<merge, dropped>>
  PROVE  IInv'
<1> DEFINE s == Head(flusher.left)
           Seen(recs) == IF up = "recovering"
                         THEN Max({seq} \cup {r.seq : r \in ToSet(recs)}) ELSE seq
<1>1. /\ flusher.step = "next" /\ flusher.left # <<>>
      /\ UNCHANGED <<segs, active, removed, cat, objects, up, batch, unflushed, collector,
                     acked, merge, dropped>>
  BY DEF ReadSegment, logVars
<1>2. \/ /\ s \in DOMAIN segs
         /\ flusher' = IF segs[s].recs = <<>>
                       THEN [[flusher EXCEPT !.left = Tail(@), !.seg = s] EXCEPT !.step = "retire"]
                       ELSE [[flusher EXCEPT !.left = Tail(@), !.seg = s] EXCEPT
                               !.step = "intend", !.recs = segs[s].recs]
         /\ seq' = Seen(segs[s].recs)
      \/ /\ s \notin DOMAIN segs
         /\ flusher' = [flusher EXCEPT !.left = Tail(@), !.kept = Append(@, s)]
         /\ seq' = seq
  BY DEF ReadSegment
<1> HIDE DEF s, Seen
<1>3. /\ flusher = [step |-> flusher.step, left |-> flusher.left, kept |-> flusher.kept,
                    seg |-> flusher.seg, recs |-> flusher.recs, todo |-> flusher.todo,
                    failed |-> flusher.failed, live |-> flusher.live]
      /\ flusher.left \in Seq(Nat) /\ flusher.kept \in Seq(Nat) /\ unflushed \in Seq(Nat)
      /\ flusher.live = FALSE /\ flusher.failed \in BOOLEAN
      /\ flusher.recs = <<>> /\ flusher.seg = 0 /\ up \in {"recovering", "serving"}
      /\ \A t \in ToSet(flusher.left) \cup ToSet(flusher.kept) \cup ToSet(unflushed) : t < active
      /\ \A t \in DOMAIN segs \ {active} : t \in ToSet(flusher.left) \cup ToSet(flusher.kept)
  <2>1. up \in {"down", "recovering", "serving"}
    BY DEF IInv, BatchFits
  <2>2. FlushFits(up, flusher, unflushed, segs, active)
    BY DEF IInv
  <2>3. up # "down" /\ flusher.step \notin Busy /\ flusher.step # "idle"
    BY <1>1, <2>2 DEF FlushFits, NoFlush, Busy
  <2> QED
    BY <1>1, <2>1, <2>2, <2>3 DEF FlushFits
<1>4. /\ s \in Nat /\ Tail(flusher.left) \in Seq(Nat)
      /\ ToSet(flusher.left) = {s} \cup ToSet(Tail(flusher.left)) /\ s < active
  <2>1. /\ s \in Nat /\ Tail(flusher.left) \in Seq(Nat)
        /\ ToSet(flusher.left) = {s} \cup ToSet(Tail(flusher.left))
    BY <1>1, <1>3, ToSetTail DEF s
  <2> QED
    BY <1>3, <2>1
<1>5. active \in Nat /\ seq \in Nat /\ DirFits(segs)
  BY DEF IInv, LogFits, SeqFits
<1>6. CASE /\ s \in DOMAIN segs
           /\ flusher' = IF segs[s].recs = <<>>
                         THEN [[flusher EXCEPT !.left = Tail(@), !.seg = s] EXCEPT !.step = "retire"]
                         ELSE [[flusher EXCEPT !.left = Tail(@), !.seg = s] EXCEPT
                                 !.step = "intend", !.recs = segs[s].recs]
           /\ seq' = Seen(segs[s].recs)
  <2>1. /\ seq' \in Nat /\ seq <= seq'
        /\ up = "serving" => seq' = seq
        /\ up = "recovering" => \A r \in ToSet(segs[s].recs) : r.seq <= seq'
    <3>1. CASE up = "serving"
      BY <1>5, <1>6, <3>1 DEF Seen
    <3>2. CASE up = "recovering"
      <4> DEFINE S == {r.seq : r \in ToSet(segs[s].recs)}
      <4>1. S \in SUBSET Nat /\ IsFiniteSet(S)
        BY <1>5, <1>6, NewSegment
      <4>2. seq' = Max({seq} \cup S)
        BY <1>6, <3>2 DEF Seen
      <4>3. \A r \in ToSet(segs[s].recs) : r.seq \in S
        OBVIOUS
      <4> HIDE DEF S
      <4>4. IsFiniteSet(S \cup {seq}) /\ {seq} \cup S = S \cup {seq}
        BY <4>1, FS_AddElement
      <4>5. {seq} \cup S \in SUBSET Int /\ IsFiniteSet({seq} \cup S) /\ {seq} \cup S # {}
        BY <1>5, <4>1, <4>4
      <4>6. seq' \in {seq} \cup S /\ \A x \in {seq} \cup S : x <= seq'
        BY <4>2, <4>5, MaxIs
      <4> QED
        BY <1>5, <3>2, <4>1, <4>3, <4>6
    <3> QED
      BY <1>3, <3>1, <3>2
  <2>2. /\ flusher'.step \in {"retire", "intend"}
        /\ flusher'.step = "intend" <=> segs[s].recs # <<>>
        /\ flusher'.left = Tail(flusher.left) /\ flusher'.kept = flusher.kept
        /\ flusher'.seg = s /\ flusher'.recs = segs[s].recs
        /\ flusher'.todo = flusher.todo /\ flusher'.failed = flusher.failed
        /\ flusher'.live = flusher.live
        /\ flusher' = [step |-> flusher'.step, left |-> flusher'.left, kept |-> flusher'.kept,
                       seg |-> flusher'.seg, recs |-> flusher'.recs, todo |-> flusher'.todo,
                       failed |-> flusher'.failed, live |-> flusher'.live]
    BY <1>3, <1>6
  <2>3. FlushFits(up, flusher, unflushed, segs, active)'
    <3>1. s \in DOMAIN segs \ {active}
      BY <1>4, <1>5, <1>6
    <3>2. \A t \in DOMAIN segs \ {active} :
            t = s \/ t \in ToSet(flusher'.left) \cup ToSet(flusher'.kept)
      BY <1>3, <1>4, <2>2
    <3>3. \A t \in ToSet(flusher'.left) \cup ToSet(flusher'.kept) \cup ToSet(unflushed') : t < active'
      BY <1>1, <1>3, <1>4, <2>2
    <3>4. up' # "serving" => unflushed' = <<>>
      BY <1>1 DEF IInv, FlushFits
    <3> QED
      BY <1>1, <1>3, <1>4, <2>2, <3>1, <3>2, <3>3, <3>4 DEF FlushFits, Busy
  <2>4. PersistFits(flusher, cat, objects)'
    <3>1. flusher'.todo = <<>>
      BY <1>1, <2>2 DEF IInv, PersistFits
    <3>2. flusher'.step = "retire" => Names(flusher'.recs) = {}
      BY <2>2, ToSetEmpty DEF Names
    <3> QED
      BY <2>2, <3>1, <3>2 DEF PersistFits
  <2>5. SeqFits(up, seq, segs, removed, cat.maxSeq, flusher)'
    <3>1. SeqFits(up, seq, segs, removed, cat.maxSeq, flusher) /\ cat.maxSeq \in Nat
      BY DEF IInv, CatShape
    <3>2. ASSUME up = "recovering", NEW t \in DOMAIN segs, t \notin ToSet(flusher'.left),
                 NEW r \in ToSet(segs[t].recs)
          PROVE  r.seq <= seq'
      <4>1. r.seq \in Nat
        BY <1>5, <3>2, NewSegment
      <4>2. t = s \/ r.seq <= seq
        BY <1>4, <2>2, <3>1, <3>2 DEF SeqFits
      <4> QED
        BY <1>5, <2>1, <3>2, <4>1, <4>2
    <3>3. cat.maxSeq <= seq'
      BY <1>3, <1>5, <2>1, <3>1 DEF SeqFits
    <3> QED
      BY <1>1, <2>1, <2>2, <3>1, <3>2, <3>3 DEF SeqFits
  <2>6. CollectFits(up, collector, cat, objects, segs, seq)'
    <3>1. CollectFits(up, collector, cat, objects, segs, seq)
      BY DEF IInv
    <3>2. CASE up = "serving"
      BY <1>1, <2>1, <3>1, <3>2
    <3>3. CASE up = "recovering"
      <4>1. collector = NoCollection
        BY <3>1, <3>3 DEF CollectFits
      <4>2. CollectFits(up, collector, cat, objects, segs, seq')
        BY <3>3, <4>1 DEF CollectFits, NoCollection
      <4> QED
        BY <1>1, <4>2
    <3> QED
      BY <1>3, <3>2, <3>3
  <2> QED
    BY <1>1, <2>3, <2>4, <2>5, <2>6 DEF IInv
<1>7. CASE /\ s \notin DOMAIN segs
           /\ flusher' = [flusher EXCEPT !.left = Tail(@), !.kept = Append(@, s)]
           /\ seq' = seq
  <2>1. /\ flusher'.step = flusher.step /\ flusher'.left = Tail(flusher.left)
        /\ flusher'.kept = Append(flusher.kept, s) /\ flusher'.seg = flusher.seg
        /\ flusher'.recs = flusher.recs /\ flusher'.todo = flusher.todo
        /\ flusher'.failed = flusher.failed /\ flusher'.live = flusher.live
        /\ flusher' = [step |-> flusher'.step, left |-> flusher'.left, kept |-> flusher'.kept,
                       seg |-> flusher'.seg, recs |-> flusher'.recs, todo |-> flusher'.todo,
                       failed |-> flusher'.failed, live |-> flusher'.live]
    BY <1>3, <1>7
  <2>2. /\ flusher'.kept \in Seq(Nat)
        /\ ToSet(flusher'.kept) = ToSet(flusher.kept) \cup {s}
    <3>1. flusher.kept \in Seq(Nat) /\ s \in Nat
      BY <1>3, <1>4
    <3>2. Append(flusher.kept, s) \in Seq(Nat)
      BY <3>1, AppendProperties
    <3> QED
      BY <2>1, <3>1, <3>2, ToSetAppend
  <2>3. FlushFits(up, flusher, unflushed, segs, active)'
    <3>1. \A t \in DOMAIN segs \ {active} : t \in ToSet(flusher'.left) \cup ToSet(flusher'.kept)
      BY <1>3, <1>4, <2>1, <2>2
    <3>2. \A t \in ToSet(flusher'.left) \cup ToSet(flusher'.kept) \cup ToSet(unflushed') : t < active'
      BY <1>1, <1>3, <1>4, <2>1, <2>2
    <3>3. up' # "serving" => unflushed' = <<>>
      BY <1>1 DEF IInv, FlushFits
    <3> QED
      BY <1>1, <1>3, <1>4, <2>1, <2>2, <3>1, <3>2, <3>3 DEF FlushFits, Busy
  <2>4. PersistFits(flusher, cat, objects)'
    BY <1>1, <2>1 DEF IInv, PersistFits
  <2>5. SeqFits(up, seq, segs, removed, cat.maxSeq, flusher)'
    <3>1. SeqFits(up, seq, segs, removed, cat.maxSeq, flusher)
      BY DEF IInv
    <3>2. \A t \in DOMAIN segs : t \in ToSet(flusher.left) => t \in ToSet(flusher'.left)
      BY <1>4, <1>7, <2>1
    <3> QED
      BY <1>1, <1>7, <2>1, <3>1, <3>2 DEF SeqFits
  <2> QED
    BY <1>1, <1>7, <2>3, <2>4, <2>5 DEF IInv
<1> QED
  BY <1>2, <1>6, <1>7

\* A rotation hands the batch to the flush, or leaves it where it is.
LEMMA SealInv ==
  ASSUME IInv, Seal, UNCHANGED <<merge, dropped>>
  PROVE  IInv'
<1>1. /\ up = "serving" /\ flusher.step = "next" /\ flusher.left = <<>>
      /\ unflushed' = flusher.kept
      /\ \/ flusher' = NoFlush /\ UNCHANGED <<segs, active, removed, batch>>
         \/ /\ LogRotate /\ batch # <<>> /\ batch' = <<>>
            /\ flusher' = [NoFlush EXCEPT !.step = "intend", !.seg = active,
                                          !.recs = batch, !.live = TRUE]
      /\ UNCHANGED <<cat, objects, up, seq, collector, acked, merge, dropped>>
  BY DEF Seal, logVars
<1>2. /\ flusher.kept \in Seq(Nat) /\ ~flusher.live
      /\ \A t \in ToSet(flusher.kept) : t < active
      /\ \A t \in DOMAIN segs \ {active} : t \in ToSet(flusher.kept)
  BY <1>1, ToSetEmpty DEF IInv, FlushFits, Busy
<1>3. CASE flusher' = NoFlush /\ UNCHANGED <<segs, active, removed, batch>>
  <2>1. /\ flusher' = [step |-> "idle", left |-> <<>>, kept |-> <<>>, seg |-> 0,
                       recs |-> <<>>, todo |-> <<>>, failed |-> FALSE, live |-> FALSE]
        /\ flusher'.step = "idle" /\ flusher'.left = <<>> /\ flusher'.kept = <<>>
        /\ flusher'.seg = 0 /\ flusher'.recs = <<>> /\ flusher'.todo = <<>>
        /\ flusher'.failed = FALSE /\ flusher'.live = FALSE
        /\ flusher' = [step |-> flusher'.step, left |-> flusher'.left, kept |-> flusher'.kept,
                       seg |-> flusher'.seg, recs |-> flusher'.recs, todo |-> flusher'.todo,
                       failed |-> flusher'.failed, live |-> flusher'.live]
    BY <1>3 DEF NoFlush
  <2>2. FlushFits(up, flusher, unflushed, segs, active)'
    <3>1. \A t \in ToSet(flusher'.left) \cup ToSet(flusher'.kept) \cup ToSet(unflushed') : t < active'
      BY <1>1, <1>2, <1>3, <2>1, ToSetEmpty
    <3>2. \A t \in DOMAIN segs' \ {active'} : t \in ToSet(unflushed')
      BY <1>1, <1>2, <1>3
    <3>3. up' = "serving" /\ unflushed' \in Seq(Nat)
      BY <1>1, <1>2
    <3>4. <<>> \in Seq(Nat)
      BY EmptySeq
    <3>5. flusher'.live \in BOOLEAN /\ flusher'.failed \in BOOLEAN /\ ~flusher'.live
      BY <2>1
    <3>6. /\ flusher'.step = "idle" /\ flusher'.left \in Seq(Nat) /\ flusher'.kept \in Seq(Nat)
          /\ flusher'.recs = <<>> /\ flusher'.seg = 0
      BY <2>1, <3>4
    <3>7. flusher' = [step |-> flusher'.step, left |-> flusher'.left, kept |-> flusher'.kept,
                       seg |-> flusher'.seg, recs |-> flusher'.recs, todo |-> flusher'.todo,
                       failed |-> flusher'.failed, live |-> flusher'.live]
      BY <2>1
    <3> QED
      BY <3>1, <3>2, <3>3, <3>5, <3>6, <3>7 DEF FlushFits, Busy
  <2>3. PersistFits(flusher, cat, objects)'
    BY <2>1 DEF PersistFits
  <2>4. SeqFits(up, seq, segs, removed, cat.maxSeq, flusher)'
    BY <1>1, <1>3 DEF IInv, SeqFits
  <2> QED
    BY <1>1, <1>3, <2>2, <2>3, <2>4 DEF IInv
<1>4. CASE /\ LogRotate /\ batch # <<>> /\ batch' = <<>>
           /\ flusher' = [NoFlush EXCEPT !.step = "intend", !.seg = active,
                                         !.recs = batch, !.live = TRUE]
  <2>1. /\ flusher'.step = "intend" /\ flusher'.left = <<>> /\ flusher'.kept = <<>>
        /\ flusher'.seg = active /\ flusher'.recs = batch /\ flusher'.todo = <<>>
        /\ flusher'.failed = FALSE /\ flusher'.live = TRUE
        /\ flusher' = [step |-> flusher'.step, left |-> flusher'.left, kept |-> flusher'.kept,
                       seg |-> flusher'.seg, recs |-> flusher'.recs, todo |-> flusher'.todo,
                       failed |-> flusher'.failed, live |-> flusher'.live]
    BY <1>4 DEF NoFlush
  <2>2. /\ LogFits(segs, active, removed)'
        /\ Within(Kept(segs, removed)', Kept(segs, removed))
        /\ active \in DOMAIN segs /\ active' = active + 1 /\ active' \notin DOMAIN segs
        /\ removed' \in {removed, <<>>}
        /\ \E dir : /\ Hardened(segs, dir) /\ DOMAIN segs' = DOMAIN segs \cup {active'}
                    /\ segs'[active'] = EmptySegment
                    /\ \A s \in DOMAIN segs : segs'[s] = dir[s]
    BY <1>4, RotateIs DEF IInv
  <2>3. /\ DOMAIN segs' = DOMAIN segs \cup {active'}
        /\ segs'[active'].recs = <<>>
        /\ \A s \in DOMAIN segs : /\ segs'[s].recs = segs[s].recs
                                  /\ HardOf(segs[s]) \subseteq HardOf(segs'[s])
    BY <2>2 DEF Hardened, EmptySegment
  <2>4. /\ QueueFits(Kept(segs, removed)') /\ ReplayFits(cat, dropped, Kept(segs, removed)')
        /\ SeqsDiffer(cat, Kept(segs, removed)')
    BY <2>2, QueueWithin, ReplayWithin, DifferWithin DEF IInv
  <2>5. active \in Nat /\ batch = segs[active].recs
    BY <1>1 DEF IInv, LogFits, BatchFits
  <2>6. BatchFits(up, active, batch, segs, cat.maxSeq)'
    BY <1>1, <1>4, <2>2, <2>3, <2>5, ToSetEmpty DEF BatchFits
  <2>7. FlushFits(up, flusher, unflushed, segs, active)'
    <3>1. \A t \in ToSet(flusher'.left) \cup ToSet(flusher'.kept) \cup ToSet(unflushed') : t < active'
      <4>1. ToSet(flusher'.left) = {} /\ ToSet(flusher'.kept) = {}
        BY <2>1, ToSetEmpty
      <4>2. \A t \in ToSet(flusher.kept) : t \in Nat /\ t < active + 1
        <5>1. ToSet(flusher.kept) \in SUBSET Nat
          BY <1>2, ToSetIs
        <5> QED
          BY <1>2, <2>5, <5>1
      <4> QED
        BY <1>1, <2>2, <4>1, <4>2
    <3>2. \A t \in DOMAIN segs' \ {active'} : t = flusher'.seg \/ t \in ToSet(unflushed')
      BY <1>1, <1>2, <2>1, <2>3
    <3>3. flusher'.seg \in DOMAIN segs' \ {active'} /\ flusher'.recs = segs'[flusher'.seg].recs
      BY <2>1, <2>2, <2>3, <2>5
    <3>4. up' = "serving" /\ unflushed' \in Seq(Nat)
      BY <1>1, <1>2
    <3>5. flusher'.live \in BOOLEAN /\ flusher'.failed \in BOOLEAN /\ flusher'.live
      BY <2>1
    <3>6. /\ flusher'.step = "intend" /\ flusher'.left \in Seq(Nat) /\ flusher'.kept \in Seq(Nat)
          /\ flusher'.recs # <<>>
      <4>1. <<>> \in Seq(Nat)
        BY EmptySeq
      <4>2. batch # <<>>
        BY <1>4
      <4> QED
        BY <2>1, <4>1, <4>2
    <3>7. flusher' = [step |-> flusher'.step, left |-> flusher'.left, kept |-> flusher'.kept,
                       seg |-> flusher'.seg, recs |-> flusher'.recs, todo |-> flusher'.todo,
                       failed |-> flusher'.failed, live |-> flusher'.live]
      BY <2>1
    <3> QED
      BY <3>1, <3>2, <3>3, <3>4, <3>5, <3>6, <3>7 DEF FlushFits, Busy
  <2>8. PersistFits(flusher, cat, objects)'
    BY <2>1 DEF PersistFits
  <2>9. \A s \in DOMAIN segs' : \A r \in ToSet(segs'[s].recs) :
          \E t \in DOMAIN segs : r \in ToSet(segs[t].recs)
    BY <2>3, ToSetEmpty
  <2>10. SeqFits(up, seq, segs, removed, cat.maxSeq, flusher)'
    <3>1. SeqFits(up, seq, segs, removed, cat.maxSeq, flusher)
      BY DEF IInv
    <3>2. \A s \in DOMAIN removed' : \A r \in ToSet(removed'[s].recs) : r.seq <= cat.maxSeq
      <4>1. DOMAIN <<>> = {}
        OBVIOUS
      <4> QED
        BY <2>2, <3>1, <4>1 DEF SeqFits
    <3> QED
      BY <1>1, <2>9, <3>1, <3>2 DEF SeqFits
  <2>11. CollectFits(up, collector, cat, objects, segs, seq)'
    <3>1. seq \in Nat /\ seq <= seq /\ CollectFits(up, collector, cat, objects, segs, seq)
      BY DEF IInv, SeqFits
    <3>2. CollectFits(up, collector, cat, objects, segs', seq)
      BY <2>9, <3>1, CollectWithin
    <3> QED
      BY <1>1, <3>2
  <2>12. AckFits(acked, cat, dropped, segs)'
    BY <1>1, <2>3 DEF IInv, AckFits
  <2> QED
    BY <1>1, <1>4, <2>2, <2>4, <2>6, <2>7, <2>8, <2>10, <2>11, <2>12 DEF IInv
<1> QED
  BY <1>1, <1>3, <1>4

\* The flush lets go of a segment: it is gone, or back on a list.
LEMMA SettleFits ==
  ASSUME IInv, NEW ok \in BOOLEAN, Settle(ok), flusher.step \in Busy,
         up' = up, active' = active, DOMAIN segs' \subseteq DOMAIN segs,
         ok => flusher.seg \notin DOMAIN segs'
  PROVE  /\ FlushFits(up, flusher, unflushed, segs, active)'
         /\ PersistFits(flusher, cat, objects)'
         /\ flusher'.recs = <<>>
         /\ up = "recovering" => flusher'.left = flusher.left
<1>1. FlushFits(up, flusher, unflushed, segs, active) /\ LogFits(segs, active, removed)
  BY DEF IInv
<1>2. /\ flusher.left \in Seq(Nat) /\ flusher.kept \in Seq(Nat) /\ unflushed \in Seq(Nat)
      /\ flusher.live \in BOOLEAN /\ flusher.seg \in DOMAIN segs \ {active}
      /\ up # "serving" => unflushed = <<>>
      /\ up = "recovering" => ~flusher.live
      /\ up # "down" => \A t \in ToSet(flusher.left) \cup ToSet(flusher.kept) \cup ToSet(unflushed) :
                          t < active
      /\ up # "down" => \A t \in DOMAIN segs \ {active} :
           \/ t = flusher.seg
           \/ IF flusher.live THEN t \in ToSet(unflushed)
              ELSE t \in ToSet(flusher.left) \cup ToSet(flusher.kept)
  BY <1>1 DEF FlushFits, Busy
<1>3. up # "down"
  BY <1>1 DEF FlushFits, NoFlush, Busy
<1>4. up \in {"recovering", "serving"}
  BY <1>3 DEF IInv, BatchFits
<1>5. flusher.seg \in Nat /\ active \in Nat /\ active # 0
  <2>1. active # 0
    BY <1>3 DEF IInv, BatchFits
  <2> QED
    BY <1>1, <1>2, <2>1 DEF LogFits, DirFits
<1>6. flusher.seg < active
  <2>1. flusher.seg <= active /\ flusher.seg # active
    BY <1>1, <1>2, <1>5 DEF LogFits
  <2> QED
    BY <1>5, <2>1
<1>7. <<>> \in Seq(Nat)
  BY EmptySeq
<1>8. ASSUME NEW q \in Seq(Nat)
      PROVE  /\ Append(q, flusher.seg) \in Seq(Nat)
             /\ ToSet(Append(q, flusher.seg)) = ToSet(q) \cup {flusher.seg}
  BY <1>5, <1>8, ToSetAppend, AppendProperties
<1>9. CASE flusher.live
  <2>1. /\ flusher' = NoFlush
        /\ unflushed' = IF ok THEN unflushed ELSE Append(unflushed, flusher.seg)
    BY <1>9 DEF Settle
  <2>2. /\ flusher'.step = "idle" /\ flusher'.left = <<>> /\ flusher'.kept = <<>>
        /\ flusher'.seg = 0 /\ flusher'.recs = <<>> /\ flusher'.todo = <<>>
        /\ flusher'.failed = FALSE /\ flusher'.live = FALSE
        /\ flusher' = [step |-> flusher'.step, left |-> flusher'.left, kept |-> flusher'.kept,
                       seg |-> flusher'.seg, recs |-> flusher'.recs, todo |-> flusher'.todo,
                       failed |-> flusher'.failed, live |-> flusher'.live]
    BY <2>1 DEF NoFlush
  <2>3. up = "serving" /\ up' = "serving"
    BY <1>2, <1>4, <1>9
  <2>4. /\ unflushed' \in Seq(Nat)
        /\ ToSet(unflushed') = ToSet(unflushed) \cup (IF ok THEN {} ELSE {flusher.seg})
    BY <1>2, <1>8, <2>1
  <2>5. \A t \in ToSet(flusher'.left) \cup ToSet(flusher'.kept) \cup ToSet(unflushed') : t < active'
    BY <1>2, <1>3, <1>6, <2>2, <2>4, ToSetEmpty
  <2>6. \A t \in DOMAIN segs' \ {active'} : t \in ToSet(unflushed')
    BY <1>2, <1>3, <1>9, <2>4
  <2>7. /\ flusher'.live \in BOOLEAN /\ flusher'.failed \in BOOLEAN /\ ~flusher'.live
        /\ flusher'.left \in Seq(Nat) /\ flusher'.kept \in Seq(Nat)
    BY <1>7, <2>2
  <2>8. FlushFits(up, flusher, unflushed, segs, active)'
    BY <2>2, <2>3, <2>4, <2>5, <2>6, <2>7 DEF FlushFits, Busy
  <2>9. PersistFits(flusher, cat, objects)'
    BY <2>2 DEF PersistFits
  <2> QED
    BY <2>2, <2>3, <2>8, <2>9
<1>10. CASE ~flusher.live
  <2>1. /\ flusher' = [NoFlush EXCEPT !.step = "next", !.left = flusher.left,
             !.kept = IF ok THEN flusher.kept ELSE Append(flusher.kept, flusher.seg)]
        /\ unflushed' = unflushed
    BY <1>10 DEF Settle
  <2>2. /\ flusher'.step = "next" /\ flusher'.left = flusher.left
        /\ flusher'.kept = (IF ok THEN flusher.kept ELSE Append(flusher.kept, flusher.seg))
        /\ flusher'.seg = 0 /\ flusher'.recs = <<>> /\ flusher'.todo = <<>>
        /\ flusher'.failed = FALSE /\ flusher'.live = FALSE
        /\ flusher' = [step |-> flusher'.step, left |-> flusher'.left, kept |-> flusher'.kept,
                       seg |-> flusher'.seg, recs |-> flusher'.recs, todo |-> flusher'.todo,
                       failed |-> flusher'.failed, live |-> flusher'.live]
    BY <2>1 DEF NoFlush
  <2>3. /\ flusher'.kept \in Seq(Nat)
        /\ ToSet(flusher'.kept) = ToSet(flusher.kept) \cup (IF ok THEN {} ELSE {flusher.seg})
    BY <1>2, <1>8, <2>2
  <2>4. \A t \in ToSet(flusher'.left) \cup ToSet(flusher'.kept) \cup ToSet(unflushed') : t < active'
    BY <1>2, <1>3, <1>6, <2>1, <2>2, <2>3
  <2>5. \A t \in DOMAIN segs' \ {active'} : t \in ToSet(flusher'.left) \cup ToSet(flusher'.kept)
    BY <1>2, <1>3, <1>10, <2>2, <2>3
  <2>6. /\ flusher'.live \in BOOLEAN /\ flusher'.failed \in BOOLEAN /\ ~flusher'.live
        /\ flusher'.left \in Seq(Nat) /\ unflushed' \in Seq(Nat)
        /\ up' # "serving" => unflushed' = <<>>
    BY <1>2, <2>1, <2>2
  <2>7. FlushFits(up, flusher, unflushed, segs, active)'
    BY <1>3, <2>2, <2>3, <2>4, <2>5, <2>6 DEF FlushFits, Busy
  <2>8. PersistFits(flusher, cat, objects)'
    BY <2>2 DEF PersistFits
  <2> QED
    BY <2>2, <2>7, <2>8
<1> QED
  BY <1>2, <1>9, <1>10

\* The flush moves a segment in hand from one step to the next.
LEMMA BusyFits ==
  ASSUME NEW u, NEW un, NEW g, NEW a, NEW f, NEW e, FlushFits(u, f, un, g, a),
         f.step \in {"intend", "write", "register"}, e.step \in {"write", "register", "retire"},
         e.left = f.left, e.kept = f.kept, e.seg = f.seg, e.recs = f.recs, e.live = f.live,
         e.failed \in BOOLEAN,
         e = [step |-> e.step, left |-> e.left, kept |-> e.kept, seg |-> e.seg,
              recs |-> e.recs, todo |-> e.todo, failed |-> e.failed, live |-> e.live]
  PROVE  FlushFits(u, e, un, g, a)
<1>1. u # "down"
  BY DEF FlushFits, NoFlush
<1>2. f.step \in Busy /\ e.step \in Busy /\ f.step # "idle" /\ e.step # "idle"
      /\ e.step \notin {"idle", "next"}
  BY DEF Busy
<1>3. f.recs # <<>>
  BY DEF FlushFits
<1>4. /\ f.seg \in DOMAIN g \ {a} /\ f.recs = g[f.seg].recs
      /\ f.left \in Seq(Nat) /\ f.kept \in Seq(Nat) /\ un \in Seq(Nat) /\ f.live \in BOOLEAN
      /\ u # "serving" => un = <<>>
      /\ u = "recovering" => ~f.live
      /\ \A s \in ToSet(f.left) \cup ToSet(f.kept) \cup ToSet(un) : s < a
      /\ \A s \in DOMAIN g \ {a} :
           \/ s = f.seg
           \/ IF f.live THEN s \in ToSet(un) ELSE s \in ToSet(f.left) \cup ToSet(f.kept)
  BY <1>1, <1>2 DEF FlushFits
<1> HIDE DEF Busy
<1> QED
  BY <1>1, <1>2, <1>3, <1>4 DEF FlushFits

\* Only declarations changed, and none that is in use got old.
LEMMA PendingFits ==
  ASSUME NEW c, NEW e, CatShape(e), e.rows = c.rows, e.nextId = c.nextId, e.maxSeq = c.maxSeq,
         NEW f, NEW m, NEW o, NEW u,
         \A p \in DOMAIN c.pending :
           ~c.pending[p] /\ (p \in ToSet(f.todo) \/ (m.step \in {"write", "publish"} /\ p = m.path))
             => p \in DOMAIN e.pending /\ ~e.pending[p]
  PROVE  /\ PersistFits(f, c, o) => PersistFits(f, e, o)
         /\ MergeFits(u, m, c, o) => MergeFits(u, m, e, o)
         /\ \A k, g, n : CollectFits(u, k, c, o, g, n) => CollectFits(u, k, e, o, g, n)
<1>1. /\ \A p : Registered(e, p) <=> Registered(c, p)
      /\ Live(e) = Live(c) /\ Collectable(e) = Collectable(c)
      /\ \A id, g : Behind(id, c, g) <=> Behind(id, e, g)
  BY SameRows
<1>2. PersistFits(f, c, o) => PersistFits(f, e, o)
  BY <1>1 DEF PersistFits, ToDo
<1>3. MergeFits(u, m, c, o) => MergeFits(u, m, e, o)
  BY <1>1 DEF MergeFits
<1>4. ASSUME NEW k, NEW g, NEW n, CollectFits(u, k, c, o, g, n) PROVE CollectFits(u, k, e, o, g, n)
  BY <1>1, <1>4 DEF CollectFits
<1> QED
  BY <1>2, <1>3, <1>4

\* What follows for the rest of the invariant.
LEMMA PendingInv ==
  ASSUME IInv, CatShape(cat'), cat'.rows = cat.rows, cat'.nextId = cat.nextId,
         cat'.maxSeq = cat.maxSeq, UNCHANGED <<segs, removed, dropped, acked>>
  PROVE  /\ RowsFit(cat') /\ DroppedFits(cat', dropped')
         /\ ReplayFits(cat', dropped', Kept(segs, removed)')
         /\ SeqsDiffer(cat', Kept(segs, removed)')
         /\ QueueFits(Kept(segs, removed)')
         /\ AckFits(acked', cat', dropped', segs')
<1> DEFINE q == Kept(segs, removed)
<1>1. Kept(segs, removed)' = q
  OBVIOUS
<1>2. /\ RowsFit(cat) /\ DroppedFits(cat, dropped) /\ ReplayFits(cat, dropped, q)
      /\ SeqsDiffer(cat, q) /\ QueueFits(q) /\ AckFits(acked, cat, dropped, segs)
  BY DEF IInv
<1> HIDE DEF q
<1>3. /\ RowsFit(cat') /\ DroppedFits(cat', dropped) /\ ReplayFits(cat', dropped, q)
      /\ SeqsDiffer(cat', q) /\ AckFits(acked, cat', dropped, segs)
  BY <1>2, SameRows
<1> QED
  BY <1>1, <1>2, <1>3

\* An object written for a declared name that is not registered.
LEMMA PutFits ==
  ASSUME NEW c, NEW o, ObjectsFit(c, o), NEW path, ~Registered(c, path), path \in DOMAIN c.pending,
         NEW recs \in SUBSET Record, NEW e, e = With(o, path, recs)
  PROVE  /\ ObjectsFit(c, e)
         /\ DOMAIN e = DOMAIN o \cup {path} /\ e[path] = recs
         /\ \A p \in DOMAIN o \ {path} : e[p] = o[p]
         /\ \A u, k, g, n : CollectFits(u, k, c, o, g, n) => CollectFits(u, k, c, e, g, n)
<1>1. /\ DOMAIN e = DOMAIN o \cup {path} /\ e[path] = recs
      /\ \A p \in DOMAIN o \ {path} : e[p] = o[p]
  BY DEF With
<1>2. \A id \in DOMAIN c.rows : c.rows[id].path # path
  BY DEF Registered
<1>3. ObjectsFit(c, e)
  BY <1>1, <1>2 DEF ObjectsFit
<1>4. ASSUME NEW u, NEW k, NEW g, NEW n, CollectFits(u, k, c, o, g, n)
      PROVE  CollectFits(u, k, c, e, g, n)
  <2>1. ASSUME k.step = "forget" PROVE c.rows[k.current].path \notin DOMAIN e
    <3>1. k.current \in DOMAIN c.rows
      BY <1>4, <2>1 DEF CollectFits, Collectable
    <3> QED
      BY <1>1, <1>2, <1>4, <2>1, <3>1 DEF CollectFits
  <2> QED
    BY <1>4, <2>1 DEF CollectFits
<1> QED
  BY <1>1, <1>3, <1>4

\* The names of a segment, in the order of their streams.
LEMMA TodoIs ==
  ASSUME NEW x \in Seq(Record), NEW P \in SUBSET Names(x)
  PROVE  /\ Ordered(P) \in Seq(Names(x)) /\ ToSet(Ordered(P)) = P
         /\ \A i, j \in 1 .. Len(Ordered(P)) : Ordered(P)[i] = Ordered(P)[j] => i = j
<1> DEFINE key == [p \in P |-> p.stream]
           S == {r.stream : r \in ToSet(x)}
           f == [s \in S |-> ObjectName(x, s)]
           h == [r \in ToSet(x) |-> r.stream]
<1>1. ToSet(x) \in SUBSET Record /\ IsFiniteSet(ToSet(x))
  BY ToSetIs
<1>2. h \in Surjection(ToSet(x), S)
  BY DEF Surjection
<1>3. f \in Surjection(S, Names(x))
  BY DEF Surjection, Names
<1>4. IsFiniteSet(S)
  <2> HIDE DEF h, S
  <2> QED
    BY <1>1, <1>2, FS_Surjection
<1>5. IsFiniteSet(Names(x))
  <2> HIDE DEF f, S
  <2> QED
    BY <1>3, <1>4, FS_Surjection
<1>6. IsFiniteSet(P)
  BY <1>5, FS_Subset
<1>7. \A p \in P : p.stream \in Int /\ p = ObjectName(x, p.stream)
  <2>1. ASSUME NEW p \in P PROVE p.stream \in Int /\ p = ObjectName(x, p.stream)
    <3>1. p \in Names(x)
      OBVIOUS
    <3>2. PICK r \in ToSet(x) : r \in Record /\ r.stream = p.stream
      BY <3>1, NameIs
    <3>3. p = ObjectName(x, p.stream)
      BY <3>1, NameIs
    <3> QED
      BY <3>2, <3>3, RecordAssumption
  <2> QED
    BY <2>1
<1>8. key \in [P -> Int]
  BY <1>7
<1>9. \A p, r \in P : key[p] = key[r] => p = r
  BY <1>7
<1>10. Ordered(P) = SortedBy(P, key)
  BY DEF Ordered
<1> HIDE DEF key
<1>11. /\ SortedBy(P, key) \in Seq(P) /\ ToSet(SortedBy(P, key)) = P
       /\ \A i, j \in 1 .. Len(SortedBy(P, key)) :
            SortedBy(P, key)[i] = SortedBy(P, key)[j] => i = j
  BY <1>6, <1>8, <1>9, SortedByIs
<1>12. SortedBy(P, key) \in Seq(Names(x))
  BY <1>11, SeqMonotonic
<1> QED
  BY <1>10, <1>11, <1>12

\* What is written after Intend is what no row names.
LEMMA IntendObjectsInv ==
  ASSUME IInv, NEW ok \in BOOLEAN, IntendObjects(ok), UNCHANGED <<merge, dropped>>
  PROVE  IInv'
<1>1. /\ flusher.step = "intend"
      /\ IF ok
         THEN /\ cat' = Intend(cat, Names(flusher.recs))
              /\ flusher' = [flusher EXCEPT
                   !.step = "write",
                   !.todo = Ordered({p \in Names(flusher.recs) : ~Registered(cat, p)})]
              /\ unflushed' = unflushed
         ELSE Settle(FALSE) /\ cat' = cat
      /\ UNCHANGED <<segs, active, removed, objects, up, seq, batch, collector, acked,
                     merge, dropped>>
  BY DEF IntendObjects, logVars
<1>2. FlushFits(up, flusher, unflushed, segs, active) /\ CatShape(cat)
  BY DEF IInv
<1>3. CASE ~ok
  <2>1. Settle(FALSE) /\ cat' = cat /\ flusher.step \in Busy
    BY <1>1, <1>3 DEF Busy
  <2>2. /\ FlushFits(up, flusher, unflushed, segs, active)'
        /\ PersistFits(flusher, cat, objects)'
        /\ flusher'.recs = <<>>
        /\ up = "recovering" => flusher'.left = flusher.left
    BY <1>1, <2>1, SettleFits
  <2>3. SeqFits(up, seq, segs, removed, cat.maxSeq, flusher)'
    BY <1>1, <2>1, <2>2, ToSetEmpty DEF IInv, SeqFits
  <2> QED
    BY <1>1, <2>1, <2>2, <2>3 DEF IInv
<1>4. CASE ok
  <2> DEFINE P == {p \in Names(flusher.recs) : ~Registered(cat, p)}
  <2>1. /\ CatShape(cat') /\ cat'.rows = cat.rows /\ cat'.nextId = cat.nextId
        /\ cat'.maxSeq = cat.maxSeq
        /\ DOMAIN cat.pending \subseteq DOMAIN cat'.pending
        /\ \A p \in DOMAIN cat.pending : ~cat.pending[p] => ~cat'.pending[p]
        /\ \A p \in Names(flusher.recs) : ~Registered(cat, p) =>
             p \in DOMAIN cat'.pending /\ ~cat'.pending[p]
    BY <1>1, <1>2, <1>4, IntendIs
  <2>2. /\ flusher'.step = "write" /\ flusher'.left = flusher.left /\ flusher'.kept = flusher.kept
        /\ flusher'.seg = flusher.seg /\ flusher'.recs = flusher.recs
        /\ flusher'.todo = Ordered(P)
        /\ flusher'.failed = flusher.failed /\ flusher'.live = flusher.live
        /\ flusher' = [step |-> flusher'.step, left |-> flusher'.left, kept |-> flusher'.kept,
                       seg |-> flusher'.seg, recs |-> flusher'.recs, todo |-> flusher'.todo,
                       failed |-> flusher'.failed, live |-> flusher'.live]
    <3>1. flusher = [step |-> flusher.step, left |-> flusher.left, kept |-> flusher.kept,
                       seg |-> flusher.seg, recs |-> flusher.recs, todo |-> flusher.todo,
                       failed |-> flusher.failed, live |-> flusher.live]
      BY <1>2 DEF FlushFits
    <3>2. flusher' = [flusher EXCEPT !.step = "write", !.todo = Ordered(P)]
      BY <1>1, <1>4
    <3> HIDE DEF P
    <3> QED
      BY <3>1, <3>2
  <2>3. /\ flusher.recs \in Seq(Record) /\ flusher.failed \in BOOLEAN
        /\ flusher.seg \in DOMAIN segs
    BY <1>1, <1>2 DEF FlushFits, Busy, IInv, LogFits, DirFits, Segment
  <2>4. /\ Ordered(P) \in Seq(Names(flusher.recs)) /\ ToSet(Ordered(P)) = P
        /\ \A i, j \in 1 .. Len(Ordered(P)) : Ordered(P)[i] = Ordered(P)[j] => i = j
    <3>1. P \in SUBSET Names(flusher.recs)
      OBVIOUS
    <3> HIDE DEF P
    <3> QED
      BY <2>3, <3>1, TodoIs
  <2>5. \A p \in P : ~Registered(cat, p) /\ p \in DOMAIN cat'.pending /\ ~cat'.pending[p]
    BY <2>1
  <2>6. \A p \in Names(flusher.recs) : Registered(cat, p) \/ p \in P
    OBVIOUS
  <2> HIDE DEF P
  <2>7. \A p : Registered(cat', p) <=> Registered(cat, p)
    BY <2>1, SameRows
  <2>8. FlushFits(up, flusher, unflushed, segs, active)'
    <3>1. FlushFits(up, flusher', unflushed, segs, active)
      BY <1>1, <1>2, <2>2, <2>3, BusyFits
    <3> QED
      BY <1>1, <1>4, <3>1
  <2>9. PersistFits(flusher, cat, objects)'
    <3>1. ToDo(flusher', cat', objects)
      BY <2>2, <2>4, <2>5, <2>6, <2>7 DEF ToDo
    <3> QED
      BY <1>1, <2>2, <3>1 DEF PersistFits
  <2>10. /\ MergeFits(up, merge, cat, objects)'
         /\ CollectFits(up, collector, cat, objects, segs, seq)'
    <3>1. /\ MergeFits(up, merge, cat, objects)
          /\ CollectFits(up, collector, cat, objects, segs, seq)
      BY DEF IInv
    <3>2. /\ MergeFits(up, merge, cat', objects)
          /\ CollectFits(up, collector, cat', objects, segs, seq)
      BY <2>1, <3>1, PendingFits
    <3> QED
      BY <1>1, <3>2
  <2>11. ObjectsFit(cat, objects)'
    BY <1>1, <2>1, <2>7 DEF IInv, ObjectsFit
  <2>12. /\ RowsFit(cat') /\ DroppedFits(cat', dropped')
         /\ ReplayFits(cat', dropped', Kept(segs, removed)')
         /\ SeqsDiffer(cat', Kept(segs, removed)')
         /\ QueueFits(Kept(segs, removed)')
         /\ AckFits(acked', cat', dropped', segs')
    BY <1>1, <2>1, PendingInv
  <2>13. SeqFits(up, seq, segs, removed, cat.maxSeq, flusher)'
    BY <1>1, <2>1, <2>2 DEF IInv, SeqFits
  <2>14. BatchFits(up, active, batch, segs, cat.maxSeq)' /\ LogFits(segs, active, removed)'
    BY <1>1, <2>1 DEF IInv, BatchFits
  <2> QED
    BY <2>1, <2>8, <2>9, <2>10, <2>11, <2>12, <2>13, <2>14 DEF IInv
<1> QED
  BY <1>3, <1>4

\* What is left to write, once the first is done with.
LEMMA TodoTail ==
  ASSUME NEW f, NEW c, NEW o, ToDo(f, c, o), f.todo # <<>>
  PROVE  LET path == Head(f.todo)
         IN  /\ path \in Names(f.recs) /\ path \in ToSet(f.todo)
             /\ ~Registered(c, path) /\ path \in DOMAIN c.pending /\ ~c.pending[path]
             /\ Tail(f.todo) \in Seq(Names(f.recs))
             /\ \A i, j \in 1 .. Len(Tail(f.todo)) : Tail(f.todo)[i] = Tail(f.todo)[j] => i = j
             /\ ToSet(Tail(f.todo)) = ToSet(f.todo) \ {path}
<1> DEFINE path == Head(f.todo)
           t == f.todo
<1>1. t \in Seq(Names(f.recs)) /\ t # <<>> /\ \A i, j \in 1 .. Len(t) : t[i] = t[j] => i = j
  BY DEF ToDo
<1> HIDE DEF t
<1>2. /\ Head(t) \in Names(f.recs) /\ Tail(t) \in Seq(Names(f.recs))
      /\ ToSet(t) = {Head(t)} \cup ToSet(Tail(t))
  BY <1>1, ToSetTail
<1>3. /\ Len(Tail(t)) = Len(t) - 1 /\ Len(t) \in Nat /\ Head(t) = t[1] /\ 1 \in 1 .. Len(t)
      /\ \A i \in 1 .. Len(Tail(t)) : i + 1 \in 1 .. Len(t) /\ Tail(t)[i] = t[i + 1]
  BY <1>1
<1>4. \A i, j \in 1 .. Len(Tail(t)) : Tail(t)[i] = Tail(t)[j] => i = j
  <2>1. ASSUME NEW i \in 1 .. Len(Tail(t)), NEW j \in 1 .. Len(Tail(t)), Tail(t)[i] = Tail(t)[j]
        PROVE  i = j
    <3>1. i + 1 = j + 1
      BY <1>1, <1>3, <2>1
    <3> QED
      BY <3>1
  <2> QED
    BY <2>1
<1>5. Head(t) \notin ToSet(Tail(t))
  <2>1. ASSUME NEW i \in 1 .. Len(Tail(t)), Tail(t)[i] = Head(t) PROVE FALSE
    <3>1. i + 1 = 1
      BY <1>1, <1>3, <2>1
    <3> QED
      BY <3>1
  <2>2. ToSet(Tail(t)) = {Tail(t)[i] : i \in 1 .. Len(Tail(t))}
    BY <1>2, ToSetIs
  <2> QED
    BY <2>1, <2>2
<1>6. Head(t) \in ToSet(t)
  BY <1>2
<1>7. ~Registered(c, Head(t)) /\ Head(t) \in DOMAIN c.pending /\ ~c.pending[Head(t)]
  BY <1>6 DEF ToDo, t
<1> QED
  BY <1>2, <1>4, <1>5, <1>6, <1>7 DEF t

\* Writing an object touches none that a row names.
LEMMA WriteObjectInv ==
  ASSUME IInv, NEW ok \in BOOLEAN, WriteObject(ok), UNCHANGED <<merge, dropped>>
  PROVE  IInv'
<1> DEFINE path == Head(flusher.todo)
           recs == OfStream(flusher.recs, path.stream)
           put == With(objects, path, recs)
<1>1. /\ flusher.step = "write" /\ flusher.todo # <<>>
      /\ objects' \in IF ok THEN {put} ELSE {put, objects}
      /\ flusher' = IF ok THEN [flusher EXCEPT !.step = "register"]
                    ELSE [flusher EXCEPT !.todo = Tail(@), !.failed = TRUE]
      /\ UNCHANGED <<segs, active, removed, cat, up, seq, batch, unflushed, collector, acked,
                     merge, dropped>>
  BY DEF WriteObject, logVars
<1>2. FlushFits(up, flusher, unflushed, segs, active) /\ ToDo(flusher, cat, objects)
  BY <1>1 DEF IInv, PersistFits
<1>3. /\ path \in Names(flusher.recs) /\ path \in ToSet(flusher.todo)
      /\ ~Registered(cat, path) /\ path \in DOMAIN cat.pending /\ ~cat.pending[path]
      /\ Tail(flusher.todo) \in Seq(Names(flusher.recs))
      /\ \A i, j \in 1 .. Len(Tail(flusher.todo)) :
           Tail(flusher.todo)[i] = Tail(flusher.todo)[j] => i = j
      /\ ToSet(Tail(flusher.todo)) = ToSet(flusher.todo) \ {path}
  BY <1>1, <1>2, TodoTail
<1>4. /\ flusher.recs \in Seq(Record) /\ flusher.failed \in BOOLEAN
      /\ flusher = [step |-> flusher.step, left |-> flusher.left, kept |-> flusher.kept,
                       seg |-> flusher.seg, recs |-> flusher.recs, todo |-> flusher.todo,
                       failed |-> flusher.failed, live |-> flusher.live]
  BY <1>1, <1>2 DEF FlushFits, Busy, IInv, LogFits, DirFits, Segment
<1>5. path.level = 0 /\ recs \in SUBSET Record
  BY <1>3, <1>4, NameIs, OfStreamIs
<1> HIDE DEF path, recs, put
<1>6. /\ ObjectsFit(cat, put) /\ path \in DOMAIN put /\ put[path] = recs
      /\ \A p \in DOMAIN objects \ {path} : p \in DOMAIN put /\ put[p] = objects[p]
      /\ CollectFits(up, collector, cat, put, segs, seq)
  <2>1. ObjectsFit(cat, objects) /\ CollectFits(up, collector, cat, objects, segs, seq)
    BY DEF IInv
  <2>2. put = With(objects, path, recs)
    BY DEF put
  <2>3. path \in DOMAIN cat.pending /\ ~Registered(cat, path) /\ recs \in SUBSET Record
    BY <1>3, <1>5
  <2>4. /\ ObjectsFit(cat, put)
        /\ DOMAIN put = DOMAIN objects \cup {path} /\ put[path] = recs
        /\ \A p \in DOMAIN objects \ {path} : put[p] = objects[p]
        /\ \A u, k, g, n : CollectFits(u, k, cat, objects, g, n) => CollectFits(u, k, cat, put, g, n)
    BY <2>1, <2>2, <2>3, PutFits
  <2> QED
    BY <2>1, <2>4
<1>7. MergeFits(up, merge, cat, put)
  <2>1. merge.step # "idle" /\ merge.recs # {} => merge.path # path
    <3>1. ASSUME merge.step # "idle", merge.recs # {} PROVE merge.path.level \in 1 .. 2
      BY <3>1, MergeNameFits DEF IInv
    <3> QED
      BY <1>5, <3>1
  <2> QED
    BY <1>6, <2>1 DEF IInv, MergeFits
<1>8. /\ ObjectsFit(cat, objects') /\ CollectFits(up, collector, cat, objects', segs, seq)
      /\ MergeFits(up, merge, cat, objects')
  <2>1. objects' = put \/ objects' = objects
    BY <1>1
  <2> QED
    BY <1>6, <1>7, <2>1 DEF IInv
<1>9. /\ FlushFits(up, flusher', unflushed, segs, active)
      /\ PersistFits(flusher', cat, objects')
      /\ flusher'.left = flusher.left /\ flusher'.recs = flusher.recs
  <2>1. CASE ok
    <3>1. /\ flusher'.step = "register" /\ flusher'.left = flusher.left
          /\ flusher'.kept = flusher.kept
          /\ flusher'.seg = flusher.seg /\ flusher'.recs = flusher.recs
          /\ flusher'.todo = flusher.todo
          /\ flusher'.failed = flusher.failed /\ flusher'.live = flusher.live
          /\ flusher' = [step |-> flusher'.step, left |-> flusher'.left, kept |-> flusher'.kept,
                         seg |-> flusher'.seg, recs |-> flusher'.recs, todo |-> flusher'.todo,
                         failed |-> flusher'.failed, live |-> flusher'.live]
      BY <1>1, <1>4, <2>1
    <3>2. FlushFits(up, flusher', unflushed, segs, active)
      BY <1>1, <1>2, <1>4, <3>1, BusyFits
    <3>3. ToDo(flusher', cat, objects')
      <4>1. path = Head(flusher'.todo) /\ recs = OfStream(flusher'.recs, Head(flusher'.todo).stream)
        BY <3>1 DEF path, recs
      <4>2. objects' = put
        BY <1>1, <2>1
      <4> QED
        BY <1>1, <1>2, <1>6, <3>1, <4>1, <4>2 DEF ToDo
    <3> QED
      BY <3>1, <3>2, <3>3 DEF PersistFits
  <2>2. CASE ~ok
    <3>1. /\ flusher'.step = "write" /\ flusher'.left = flusher.left
          /\ flusher'.kept = flusher.kept
          /\ flusher'.seg = flusher.seg /\ flusher'.recs = flusher.recs
          /\ flusher'.todo = Tail(flusher.todo)
          /\ flusher'.failed = TRUE /\ flusher'.live = flusher.live
          /\ flusher' = [step |-> flusher'.step, left |-> flusher'.left, kept |-> flusher'.kept,
                         seg |-> flusher'.seg, recs |-> flusher'.recs, todo |-> flusher'.todo,
                         failed |-> flusher'.failed, live |-> flusher'.live]
      BY <1>1, <1>4, <2>2
    <3>2. FlushFits(up, flusher', unflushed, segs, active)
      <4>1. flusher'.failed \in BOOLEAN
        BY <3>1
      <4>2. /\ flusher'.step = "write" /\ flusher'.left = flusher.left
            /\ flusher'.kept = flusher.kept /\ flusher'.seg = flusher.seg
            /\ flusher'.recs = flusher.recs /\ flusher'.live = flusher.live
            /\ flusher' = [step |-> flusher'.step, left |-> flusher'.left, kept |-> flusher'.kept,
                           seg |-> flusher'.seg, recs |-> flusher'.recs, todo |-> flusher'.todo,
                           failed |-> flusher'.failed, live |-> flusher'.live]
        BY <3>1
      <4>3. FlushFits(up, flusher, unflushed, segs, active) /\ flusher.step = "write"
        BY <1>1, <1>2
      <4> QED
        BY <4>1, <4>2, <4>3, BusyFits
    <3>3. ToDo(flusher', cat, objects')
      BY <1>2, <1>3, <3>1 DEF ToDo
    <3> QED
      BY <3>1, <3>2, <3>3 DEF PersistFits
  <2> QED
    BY <2>1, <2>2
<1>10. SeqFits(up, seq, segs, removed, cat.maxSeq, flusher)'
  BY <1>1, <1>9 DEF IInv, SeqFits
<1> QED
  BY <1>1, <1>8, <1>9, <1>10 DEF IInv

\* A registration makes the records of one stream, and no others, filed.
LEMMA RegisterObjectInv ==
  ASSUME IInv, NEW ok \in BOOLEAN, RegisterObject(ok), UNCHANGED <<merge, dropped>>
  PROVE  IInv'
<1> DEFINE path == Head(flusher.todo)
           recs == OfStream(flusher.recs, path.stream)
           q == Kept(segs, removed)
<1>1. /\ flusher.step = "register"
      /\ cat' = IF ok THEN InsertFile(cat, path, recs) ELSE cat
      /\ flusher' = [flusher EXCEPT !.step = "write", !.todo = Tail(@), !.failed = @ \/ ~ok]
      /\ UNCHANGED <<segs, active, removed, objects, up, seq, batch, unflushed, collector, acked,
                     merge, dropped>>
  BY DEF RegisterObject, Register, logVars
<1>2. /\ FlushFits(up, flusher, unflushed, segs, active) /\ ToDo(flusher, cat, objects)
      /\ flusher.todo # <<>>
  BY <1>1 DEF IInv, PersistFits, ToDo
<1>3. /\ path \in Names(flusher.recs) /\ path \in ToSet(flusher.todo)
      /\ ~Registered(cat, path) /\ path \in DOMAIN cat.pending /\ ~cat.pending[path]
      /\ Tail(flusher.todo) \in Seq(Names(flusher.recs))
      /\ \A i, j \in 1 .. Len(Tail(flusher.todo)) :
           Tail(flusher.todo)[i] = Tail(flusher.todo)[j] => i = j
      /\ ToSet(Tail(flusher.todo)) = ToSet(flusher.todo) \ {path}
  BY <1>2, TodoTail
<1>4. /\ flusher.recs \in Seq(Record) /\ flusher.failed \in BOOLEAN
      /\ flusher.seg \in DOMAIN segs \ {active} /\ flusher.recs = segs[flusher.seg].recs
      /\ flusher = [step |-> flusher.step, left |-> flusher.left, kept |-> flusher.kept,
                       seg |-> flusher.seg, recs |-> flusher.recs, todo |-> flusher.todo,
                       failed |-> flusher.failed, live |-> flusher.live]
  BY <1>1, <1>2 DEF FlushFits, Busy, IInv, LogFits, DirFits, Segment
<1>5. path.level = 0 /\ recs \in SUBSET Record /\ recs \subseteq ToSet(flusher.recs)
  BY <1>3, <1>4, NameIs, OfStreamIs
<1>6. path \in DOMAIN objects /\ objects[path] = recs
  BY <1>1, <1>2 DEF ToDo
<1> HIDE DEF path, recs
<1>7. /\ flusher'.step = "write" /\ flusher'.left = flusher.left /\ flusher'.kept = flusher.kept
      /\ flusher'.seg = flusher.seg /\ flusher'.recs = flusher.recs
      /\ flusher'.todo = Tail(flusher.todo)
      /\ flusher'.failed = (flusher.failed \/ ~ok) /\ flusher'.live = flusher.live
      /\ flusher' = [step |-> flusher'.step, left |-> flusher'.left, kept |-> flusher'.kept,
                     seg |-> flusher'.seg, recs |-> flusher'.recs, todo |-> flusher'.todo,
                     failed |-> flusher'.failed, live |-> flusher'.live]
  <2> DEFINE b == flusher.failed \/ ~ok
  <2>1. flusher' = [flusher EXCEPT !.step = "write", !.todo = Tail(flusher.todo), !.failed = b]
    BY <1>1
  <2> HIDE DEF b
  <2>2. /\ flusher'.step = "write" /\ flusher'.left = flusher.left /\ flusher'.kept = flusher.kept
        /\ flusher'.seg = flusher.seg /\ flusher'.recs = flusher.recs
        /\ flusher'.todo = Tail(flusher.todo)
        /\ flusher'.failed = b /\ flusher'.live = flusher.live
        /\ flusher' = [step |-> flusher'.step, left |-> flusher'.left, kept |-> flusher'.kept,
                       seg |-> flusher'.seg, recs |-> flusher'.recs, todo |-> flusher'.todo,
                       failed |-> flusher'.failed, live |-> flusher'.live]
    BY <1>4, <2>1
  <2> QED
    BY <2>2 DEF b
<1>8. FlushFits(up, flusher, unflushed, segs, active)'
  <2>1. flusher'.failed \in BOOLEAN
    BY <1>4, <1>7
  <2>2. /\ flusher'.step = "write" /\ flusher'.left = flusher.left
        /\ flusher'.kept = flusher.kept /\ flusher'.seg = flusher.seg
        /\ flusher'.recs = flusher.recs /\ flusher'.live = flusher.live
        /\ flusher' = [step |-> flusher'.step, left |-> flusher'.left, kept |-> flusher'.kept,
                       seg |-> flusher'.seg, recs |-> flusher'.recs, todo |-> flusher'.todo,
                       failed |-> flusher'.failed, live |-> flusher'.live]
    BY <1>7
  <2>3. FlushFits(up, flusher, unflushed, segs, active) /\ flusher.step = "register"
    BY <1>1, <1>2
  <2>4. FlushFits(up, flusher', unflushed, segs, active)
    BY <2>1, <2>2, <2>3, BusyFits
  <2> QED
    BY <1>1, <2>4
<1>9. CASE ~ok
  <2>1. cat' = cat /\ flusher'.failed
    BY <1>1, <1>7, <1>9
  <2>2. ToDo(flusher', cat, objects)
    BY <1>2, <1>3, <1>7, <2>1 DEF ToDo
  <2>3. PersistFits(flusher, cat, objects)'
    BY <1>1, <1>7, <2>1, <2>2 DEF PersistFits
  <2>4. SeqFits(up, seq, segs, removed, cat.maxSeq, flusher)'
    BY <1>1, <1>7, <2>1 DEF IInv, SeqFits
  <2> QED
    BY <1>1, <1>8, <2>1, <2>3, <2>4 DEF IInv
<1>10. CASE ok
  <2>1. /\ CatShape(cat) /\ RowsFit(cat) /\ DroppedFits(cat, dropped) /\ QueueFits(q)
        /\ ReplayFits(cat, dropped, q) /\ SeqsDiffer(cat, q)
    BY DEF IInv
  <2>2. flusher.seg \in DOMAIN q /\ q[flusher.seg] = flusher.recs
    <3>1. DOMAIN q = DOMAIN segs \cup DOMAIN removed /\ \A t \in DOMAIN segs : q[t] = segs[t].recs
      BY KeptIs
    <3> QED
      BY <1>4, <3>1
  <2> HIDE DEF q
  <2>3. /\ path \in Names(q[flusher.seg]) /\ ~Registered(cat, path)
        /\ cat' = InsertFile(cat, path, OfStream(q[flusher.seg], path.stream))
        /\ recs = OfStream(q[flusher.seg], path.stream)
    BY <1>1, <1>3, <1>10, <2>2 DEF recs
  <2>4. /\ RowsFit(cat') /\ DroppedFits(cat', dropped) /\ ReplayFits(cat', dropped, q)
        /\ SeqsDiffer(cat', q)
        /\ CatShape(cat') /\ cat.nextId \notin DOMAIN cat.rows
        /\ DOMAIN cat'.rows = DOMAIN cat.rows \cup {cat.nextId}
        /\ cat'.rows[cat.nextId] = NewRow(path, recs)
        /\ \A id \in DOMAIN cat.rows : cat'.rows[id] = cat.rows[id]
        /\ DOMAIN cat'.pending = DOMAIN cat.pending \ {path}
        /\ \A p \in DOMAIN cat'.pending : cat'.pending[p] = cat.pending[p]
        /\ cat.maxSeq <= cat'.maxSeq
        /\ cat'.maxSeq = cat.maxSeq \/ \E r \in recs : cat'.maxSeq = r.seq
        /\ Live(cat') = Live(cat) \cup {cat.nextId}
        /\ \A p : Registered(cat', p) <=> Registered(cat, p) \/ p = path
        /\ Filed(cat', dropped) = Filed(cat, dropped) \cup recs
    BY <2>1, <2>2, <2>3, RegisterFits
  <2>5. ObjectsFit(cat, objects)'
    <3>1. cat'.rows[cat.nextId].path = path /\ cat'.rows[cat.nextId].recs = recs
      BY <2>4 DEF NewRow
    <3>2. ObjectsFit(cat, objects)
      BY DEF IInv
    <3>3. ASSUME NEW p \in DOMAIN objects PROVE Registered(cat', p) \/ p \in DOMAIN cat'.pending
      BY <2>4, <3>2 DEF ObjectsFit
    <3>4. ASSUME NEW id \in DOMAIN cat'.rows, ~cat'.rows[id].aged
          PROVE  /\ cat'.rows[id].path \in DOMAIN objects
                 /\ objects[cat'.rows[id].path] = cat'.rows[id].recs
      BY <1>6, <2>4, <3>1, <3>2, <3>4 DEF ObjectsFit
    <3> QED
      BY <1>1, <3>2, <3>3, <3>4 DEF ObjectsFit
  <2>6. \A r \in recs : /\ r \in Record /\ r.seq \in Nat
                        /\ up # "down" => r.seq <= seq
                        /\ up # "down" => \A x \in ToSet(batch) : r.seq < x.seq
    <3>1. up # "down"
      BY <1>1, <1>2 DEF FlushFits, NoFlush
    <3>2. active \in DOMAIN segs /\ active \in Nat /\ flusher.seg < active
      <4>1. active # 0 /\ LogFits(segs, active, removed)
        BY <3>1 DEF IInv, BatchFits
      <4>2. active \in DOMAIN segs /\ flusher.seg <= active /\ active \in Nat /\ flusher.seg \in Nat
        BY <1>4, <4>1 DEF LogFits, DirFits
      <4> QED
        BY <1>4, <4>2
    <3>3. active \in DOMAIN q /\ q[active] = segs[active].recs
      BY <3>2, KeptIs DEF q
    <3>4. batch = segs[active].recs
      BY <3>1 DEF IInv, BatchFits
    <3>5. ASSUME NEW r \in recs PROVE r.seq <= seq /\ \A x \in ToSet(batch) : r.seq < x.seq
      <4>1. r \in ToSet(q[flusher.seg])
        BY <1>5, <2>2
      <4>2. \A x \in ToSet(batch) : r.seq < x.seq
        BY <2>1, <2>2, <3>2, <3>3, <3>4, <4>1 DEF QueueFits
      <4>3. CASE up = "recovering"
        BY <1>5, <4>2, <4>3 DEF IInv, SeqFits
      <4>4. CASE up = "serving"
        BY <1>4, <1>5, <4>2, <4>4 DEF IInv, SeqFits
      <4>5. up \in {"recovering", "serving"}
        BY <3>1 DEF IInv, BatchFits
      <4> QED
        BY <4>2, <4>3, <4>4, <4>5
    <3> QED
      BY <1>5, <3>5, RecordAssumption
  <2>7. BatchFits(up, active, batch, segs, cat.maxSeq)'
    <3>1. BatchFits(up, active, batch, segs, cat.maxSeq)
      BY DEF IInv
    <3>2. up # "down" => \A x \in ToSet(batch) : cat'.maxSeq < x.seq
      BY <2>4, <2>6, <3>1 DEF BatchFits
    <3> QED
      BY <1>1, <3>1, <3>2 DEF BatchFits
  <2>8. SeqFits(up, seq, segs, removed, cat.maxSeq, flusher)'
    <3>1. SeqFits(up, seq, segs, removed, cat.maxSeq, flusher)
      BY DEF IInv
    <3>2. up # "down" => cat'.maxSeq <= seq
      BY <2>4, <2>6, <3>1 DEF SeqFits
    <3>3. ASSUME NEW s \in DOMAIN removed, NEW r \in ToSet(removed[s].recs)
          PROVE  r.seq <= cat'.maxSeq
      <4>1. r.seq <= cat.maxSeq
        BY <3>1 DEF SeqFits
      <4>2. r \in Record
        BY ToSetIs DEF IInv, LogFits, DirFits, Segment
      <4>3. r.seq \in Nat /\ cat.maxSeq \in Nat /\ cat'.maxSeq \in Nat
        BY <2>1, <2>4, <4>2, RecordAssumption DEF CatShape
      <4> QED
        BY <2>4, <4>1, <4>3
    <3> QED
      BY <1>1, <1>7, <3>1, <3>2, <3>3 DEF SeqFits
  <2>9. PersistFits(flusher, cat, objects)'
    <3>1. ASSUME NEW p \in ToSet(flusher'.todo)
          PROVE  ~Registered(cat', p) /\ p \in DOMAIN cat'.pending /\ ~cat'.pending[p]
      BY <1>2, <1>3, <1>7, <2>4 DEF ToDo
    <3>2. ASSUME ~flusher'.failed, NEW p \in Names(flusher.recs)
          PROVE  Registered(cat', p) \/ p \in ToSet(flusher'.todo)
      BY <1>2, <1>3, <1>7, <2>4, <3>2 DEF ToDo
    <3>3. ToDo(flusher', cat', objects)
      BY <1>3, <1>7, <3>1, <3>2 DEF ToDo
    <3> QED
      BY <1>1, <1>7, <3>3 DEF PersistFits
  <2>10. Collectable(cat) \subseteq Collectable(cat')
    BY <2>4 DEF Collectable
  <2>11. CollectFits(up, collector, cat, objects, segs, seq)'
    <3>1. CollectFits(up, collector, cat, objects, segs, seq)
      BY DEF IInv
    <3>2. ASSUME NEW id \in Collectable(cat), Behind(id, cat, segs) PROVE Behind(id, cat', segs)
      BY <2>4, <3>2 DEF Behind, Collectable
    <3>3. ASSUME collector.step = "forget"
          PROVE  /\ collector.current \in Collectable(cat') \ collector.files
                 /\ cat'.rows[collector.current] = cat.rows[collector.current]
      <4>1. collector.current \in Collectable(cat) \ collector.files
        BY <3>1, <3>3 DEF CollectFits
      <4> QED
        BY <2>4, <2>10, <4>1 DEF Collectable
    <3>4. collector.step \in {"floor", "remove", "forget"} => collector.files \subseteq Collectable(cat)
      BY <3>1 DEF CollectFits
    <3>5. ASSUME collector.step \in {"remove", "forget"}, ~collector.bounded
          PROVE  \A id \in collector.files : Behind(id, cat', segs)
      BY <3>1, <3>2, <3>4, <3>5 DEF CollectFits
    <3>6. collector.step = "forget" /\ cat'.rows[collector.current].level = 0 =>
            Behind(collector.current, cat', segs)
      BY <3>1, <3>2, <3>3 DEF CollectFits
    <3>7. CollectFits(up, collector, cat', objects, segs, seq)
      BY <2>10, <3>1, <3>3, <3>4, <3>5, <3>6 DEF CollectFits
    <3> QED
      BY <1>1, <3>7
  <2>12. MergeFits(up, merge, cat, objects)'
    <3>1. MergeFits(up, merge, cat, objects)
      BY DEF IInv
    <3>2. ASSUME merge.step # "idle", merge.recs # {} PROVE merge.path # path
      <4>1. merge.path.level \in 1 .. 2
        BY <2>1, <3>1, <3>2, MergeNameFits
      <4> QED
        BY <1>5, <4>1
    <3>3. ASSUME merge.step # "idle", NEW id \in merge.ids
          PROVE  id \in Live(cat') /\ cat'.rows[id] = cat.rows[id]
      <4>1. id \in Live(cat)
        BY <3>1, <3>3 DEF MergeFits
      <4> QED
        BY <2>4, <4>1 DEF Live
    <3>4. merge.step # "idle" =>
            UNION {cat'.rows[id].recs : id \in merge.ids} = UNION {cat.rows[id].recs : id \in merge.ids}
      BY <3>3
    <3>5. MergeFits(up, merge, cat', objects)
      BY <2>4, <3>1, <3>2, <3>3, <3>4 DEF MergeFits
    <3> QED
      BY <1>1, <3>5
  <2>13. AckFits(acked, cat, dropped, segs)'
    BY <1>1, <2>4 DEF IInv, AckFits
  <2> QED
    BY <1>1, <1>8, <2>1, <2>4, <2>5, <2>7, <2>8, <2>9, <2>11, <2>12, <2>13 DEF IInv, q
<1> QED
  BY <1>9, <1>10

\* A segment without a failed stream is filed as a whole.
LEMMA PersistedInv ==
  ASSUME IInv, Persisted, UNCHANGED <<merge, dropped>>
  PROVE  IInv'
<1>1. /\ flusher.step = "write" /\ flusher.todo = <<>>
      /\ IF flusher.failed THEN Settle(FALSE)
         ELSE flusher' = [flusher EXCEPT !.step = "retire"] /\ unflushed' = unflushed
      /\ UNCHANGED <<segs, active, removed, cat, objects, up, seq, batch, collector, acked,
                     merge, dropped>>
  BY DEF Persisted, PersistFailed, logVars
<1>2. FlushFits(up, flusher, unflushed, segs, active) /\ ToDo(flusher, cat, objects)
  BY <1>1 DEF IInv, PersistFits
<1>3. CASE flusher.failed
  <2>1. Settle(FALSE) /\ flusher.step \in Busy
    BY <1>1, <1>3 DEF Busy
  <2>2. /\ FlushFits(up, flusher, unflushed, segs, active)'
        /\ PersistFits(flusher, cat, objects)'
        /\ flusher'.recs = <<>>
        /\ up = "recovering" => flusher'.left = flusher.left
    BY <1>1, <2>1, SettleFits
  <2>3. SeqFits(up, seq, segs, removed, cat.maxSeq, flusher)'
    BY <1>1, <2>2, ToSetEmpty DEF IInv, SeqFits
  <2> QED
    BY <1>1, <2>2, <2>3 DEF IInv
<1>4. CASE ~flusher.failed
  <2>1. flusher = [step |-> flusher.step, left |-> flusher.left, kept |-> flusher.kept,
                   seg |-> flusher.seg, recs |-> flusher.recs, todo |-> flusher.todo,
                   failed |-> flusher.failed, live |-> flusher.live]
    BY <1>2 DEF FlushFits
  <2>2. /\ flusher'.step = "retire" /\ flusher'.left = flusher.left /\ flusher'.kept = flusher.kept
        /\ flusher'.seg = flusher.seg /\ flusher'.recs = flusher.recs
        /\ flusher'.todo = flusher.todo
        /\ flusher'.failed = flusher.failed /\ flusher'.live = flusher.live
        /\ flusher' = [step |-> flusher'.step, left |-> flusher'.left, kept |-> flusher'.kept,
                       seg |-> flusher'.seg, recs |-> flusher'.recs, todo |-> flusher'.todo,
                       failed |-> flusher'.failed, live |-> flusher'.live]
        /\ unflushed' = unflushed
    BY <1>1, <1>4, <2>1
  <2>3. flusher'.failed \in BOOLEAN
    BY <1>2, <2>2 DEF FlushFits
  <2>4. FlushFits(up, flusher', unflushed, segs, active)
    <3>1. flusher.step = "write"
      BY <1>1
    <3> QED
      BY <1>2, <2>2, <2>3, <3>1, BusyFits
  <2>5. FlushFits(up, flusher, unflushed, segs, active)'
    BY <1>1, <2>2, <2>4
  <2>6. PersistFits(flusher, cat, objects)'
    <3>1. \A p \in Names(flusher.recs) : Registered(cat, p)
      BY <1>1, <1>2, <1>4, ToSetEmpty DEF ToDo
    <3> QED
      BY <1>1, <2>2, <3>1 DEF PersistFits
  <2>7. SeqFits(up, seq, segs, removed, cat.maxSeq, flusher)'
    BY <1>1, <2>2 DEF IInv, SeqFits
  <2> QED
    BY <1>1, <2>2, <2>5, <2>6, <2>7 DEF IInv
<1> QED
  BY <1>3, <1>4

\* A segment whose names are all registered has all its records filed.
LEMMA AllFiled ==
  ASSUME NEW c, NEW d, NEW q, CatShape(c), RowsFit(c), DroppedFits(c, d), QueueFits(q),
         ReplayFits(c, d, q), NEW s \in DOMAIN q, \A p \in Names(q[s]) : Registered(c, p),
         NEW r \in ToSet(q[s])
  PROVE  r \in Filed(c, d) /\ r.seq <= c.maxSeq
<1>1. q[s] \in Seq(Record)
  BY DEF QueueFits
<1>2. Registered(c, ObjectName(q[s], r.stream))
  BY <1>1, NameOf
<1>3. r \in Filed(c, d)
  BY <1>2 DEF ReplayFits
<1>4. r \in Record
  BY <1>1, ToSetIs
<1>5. r.seq \in Nat /\ c.maxSeq \in Nat
  BY <1>4, RecordAssumption DEF CatShape
<1>6. ~ (c.maxSeq < r.seq)
  BY <1>3, <1>4, AboveFiles
<1> QED
  BY <1>3, <1>5, <1>6

\* A segment goes when all of it is filed, and its records stay named for as
\* long as a power loss can bring it back.
LEMMA RetireSegmentInv ==
  ASSUME IInv, NEW ok \in BOOLEAN, RetireSegment(ok), UNCHANGED <<merge, dropped>>
  PROVE  IInv'
<1> DEFINE s == flusher.seg
           q == Kept(segs, removed)
<1>1. /\ flusher.step = "retire" /\ Settle(ok)
      /\ \/ LogQuarantine(s) \/ LogRemove(s)
         \/ ~ok /\ UNCHANGED <<segs, active, removed>>
      /\ UNCHANGED <<cat, objects, up, seq, batch, collector, acked, merge, dropped>>
  BY DEF RetireSegment, logVars
<1>2. /\ FlushFits(up, flusher, unflushed, segs, active) /\ LogFits(segs, active, removed)
      /\ \A p \in Names(flusher.recs) : Registered(cat, p)
      /\ s \in DOMAIN segs \ {active} /\ flusher.recs = segs[s].recs
  BY <1>1 DEF IInv, PersistFits, FlushFits, Busy
<1>3. \A r \in ToSet(segs[s].recs) : r \in Filed(cat, dropped) /\ r.seq <= cat.maxSeq
  <2>1. /\ CatShape(cat) /\ RowsFit(cat) /\ DroppedFits(cat, dropped) /\ QueueFits(q)
        /\ ReplayFits(cat, dropped, q)
    BY DEF IInv
  <2>2. s \in DOMAIN q /\ q[s] = segs[s].recs
    <3>1. DOMAIN q = DOMAIN segs \cup DOMAIN removed /\ \A t \in DOMAIN segs : q[t] = segs[t].recs
      BY KeptIs
    <3> QED
      BY <1>2, <3>1
  <2> HIDE DEF q, s
  <2>3. \A p \in Names(q[s]) : Registered(cat, p)
    BY <1>2, <2>2
  <2> QED
    BY <2>1, <2>2, <2>3, AllFiled
<1>4. HardOf(segs[s]) \subseteq ToSet(segs[s].recs)
  <2>1. segs[s].recs \in Seq(Record) /\ segs[s].hard <= Len(segs[s].recs) /\ segs[s].hard \in Nat
    BY <1>2 DEF LogFits, DirFits, Segment
  <2>2. ToSet(segs[s].recs) = {segs[s].recs[i] : i \in 1 .. Len(segs[s].recs)}
    BY <2>1, ToSetIs
  <2>3. \A i \in 1 .. segs[s].hard : i \in 1 .. Len(segs[s].recs)
    BY <2>1
  <2> QED
    BY <2>2, <2>3 DEF HardOf
<1> HIDE DEF s
<1>5. /\ LogFits(segs, active, removed)'
      /\ Within(Kept(segs, removed)', q)
      /\ active' = active /\ DOMAIN segs' \subseteq DOMAIN segs
      /\ ok => s \notin DOMAIN segs'
      /\ \A t \in DOMAIN segs' : segs'[t].recs = segs[t].recs
      /\ \A t \in DOMAIN segs \ {s} : t \in DOMAIN segs' /\ HardOf(segs[t]) \subseteq HardOf(segs'[t])
      /\ \A t \in DOMAIN removed' : \/ removed'[t] = segs[s]
                                    \/ t \in DOMAIN removed /\ removed'[t] = removed[t]
  <2>1. CASE LogRemove(s)
    <3>1. /\ LogFits(segs, active, removed)'
          /\ Within(Kept(segs, removed)', Kept(segs, removed))
          /\ s \in DOMAIN segs \ {active} /\ active' = active
          /\ DOMAIN segs' = DOMAIN segs \ {s} /\ \A t \in DOMAIN segs' : segs'[t] = segs[t]
          /\ DOMAIN removed' = DOMAIN removed \cup {s} /\ removed'[s] = segs[s]
          /\ \A t \in DOMAIN removed : removed'[t] = removed[t]
      BY <2>1, RemoveIs DEF IInv
    <3> QED
      BY <3>1
  <2>2. CASE LogQuarantine(s)
    <3>1. /\ LogFits(segs, active, removed)'
          /\ Within(Kept(segs, removed)', Kept(segs, removed))
          /\ s \in DOMAIN segs \ {active} /\ active' = active /\ removed' = <<>>
          /\ Hardened(Without(segs, s), segs')
      BY <2>2, QuarantineIs DEF IInv
    <3>2. DOMAIN Without(segs, s) = DOMAIN segs \ {s}
          /\ \A t \in DOMAIN segs \ {s} : Without(segs, s)[t] = segs[t]
      BY DEF Without
    <3>3. /\ DOMAIN segs' = DOMAIN segs \ {s}
          /\ \A t \in DOMAIN segs \ {s} : /\ segs'[t].recs = segs[t].recs
                                          /\ HardOf(segs[t]) \subseteq HardOf(segs'[t])
      BY <3>1, <3>2 DEF Hardened
    <3>4. DOMAIN removed' = {}
      BY <3>1
    <3> QED
      BY <3>1, <3>3, <3>4
  <2>3. CASE ~ok /\ UNCHANGED <<segs, active, removed>>
    <3>1. Kept(segs, removed)' = Kept(segs, removed) /\ LogFits(segs, active, removed)'
      BY <1>2, <2>3
    <3>2. Within(Kept(segs, removed)', Kept(segs, removed))
      <4> DEFINE p == Kept(segs, removed)
      <4>1. QueueFits(p)
        BY DEF IInv
      <4>2. Within(p, p)
        <5> HIDE DEF p
        <5> QED
          BY <4>1 DEF Within, Prefix, QueueFits
      <4> QED
        BY <3>1, <4>2
    <3> QED
      BY <2>3, <3>1, <3>2
  <2> QED
    BY <1>1, <2>1, <2>2, <2>3 DEF s
<1>6. /\ FlushFits(up, flusher, unflushed, segs, active)'
      /\ PersistFits(flusher, cat, objects)'
      /\ flusher'.recs = <<>>
      /\ up = "recovering" => flusher'.left = flusher.left
  <2>1. flusher.step \in Busy
    BY <1>1 DEF Busy
  <2> QED
    BY <1>1, <1>5, <2>1, SettleFits DEF s
<1>7. /\ QueueFits(Kept(segs, removed)') /\ ReplayFits(cat, dropped, Kept(segs, removed)')
      /\ SeqsDiffer(cat, Kept(segs, removed)')
  BY <1>5, QueueWithin, ReplayWithin, DifferWithin DEF IInv
<1>8. SeqFits(up, seq, segs, removed, cat.maxSeq, flusher)'
  <2>1. SeqFits(up, seq, segs, removed, cat.maxSeq, flusher)
    BY DEF IInv
  <2>2. \A t \in DOMAIN removed' : \A r \in ToSet(removed'[t].recs) : r.seq <= cat.maxSeq
    BY <1>3, <1>5, <2>1 DEF SeqFits
  <2> QED
    BY <1>1, <1>5, <1>6, <2>1, <2>2, ToSetEmpty DEF SeqFits
<1>9. BatchFits(up, active, batch, segs, cat.maxSeq)'
  <2>1. up # "down" => active \in DOMAIN segs'
    <3>1. up # "down" => active \in DOMAIN segs /\ active # s
      BY <1>2 DEF IInv, BatchFits, LogFits
    <3> QED
      BY <1>5, <3>1
  <2> QED
    BY <1>1, <1>5, <2>1 DEF IInv, BatchFits
<1>10. CollectFits(up, collector, cat, objects, segs, seq)'
  <2>1. seq \in Nat /\ seq <= seq /\ CollectFits(up, collector, cat, objects, segs, seq)
    BY DEF IInv, SeqFits
  <2>2. \A t \in DOMAIN segs' : \A r \in ToSet(segs'[t].recs) :
          \E v \in DOMAIN segs : r \in ToSet(segs[v].recs)
    BY <1>5
  <2>3. CollectFits(up, collector, cat, objects, segs', seq)
    BY <2>1, <2>2, CollectWithin
  <2> QED
    BY <1>1, <2>3
<1>11. AckFits(acked, cat, dropped, segs)'
  <2>1. ASSUME NEW r \in acked
        PROVE  r \in Filed(cat, dropped) \/ \E t \in DOMAIN segs' : r \in HardOf(segs'[t])
    <3>1. CASE \E t \in DOMAIN segs \ {s} : r \in HardOf(segs[t])
      BY <1>5, <3>1
    <3>2. CASE r \in HardOf(segs[s])
      BY <1>3, <1>4, <3>2 DEF s
    <3> QED
      BY <3>1, <3>2 DEF IInv, AckFits
  <2> QED
    BY <1>1, <2>1 DEF AckFits
<1> QED
  BY <1>1, <1>5, <1>6, <1>7, <1>8, <1>9, <1>10, <1>11 DEF IInv

------------------------------------------------------------------------------
(* Garbage collection and ageing keep the invariant. *)

\* An object that no readable row names, and nobody is about to register,
\* may go.
LEMMA DropFits ==
  ASSUME NEW c, NEW o, NEW path, NEW e, e = Without(o, path), ObjectsFit(c, o),
         \A id \in DOMAIN c.rows : ~c.rows[id].aged => c.rows[id].path # path,
         NEW f, path \notin ToSet(f.todo), NEW m, NEW u,
         m.step = "publish" /\ m.recs # {} => m.path # path
  PROVE  /\ ObjectsFit(c, e)
         /\ f.todo \in Seq(Names(f.recs)) => (PersistFits(f, c, o) => PersistFits(f, c, e))
         /\ MergeFits(u, m, c, o) => MergeFits(u, m, c, e)
<1>1. DOMAIN e = DOMAIN o \ {path} /\ \A p \in DOMAIN e : e[p] = o[p]
  BY DEF Without
<1>2. ObjectsFit(c, e)
  BY <1>1 DEF ObjectsFit
<1>3. ASSUME f.todo \in Seq(Names(f.recs)), PersistFits(f, c, o) PROVE PersistFits(f, c, e)
  <2>1. ASSUME f.todo # <<>> PROVE Head(f.todo) # path
    <3>1. ToSet(f.todo) = {Head(f.todo)} \cup ToSet(Tail(f.todo))
      BY <1>3, <2>1, ToSetTail
    <3> QED
      BY <3>1
  <2>2. ASSUME f.step = "register"
        PROVE  Head(f.todo) \in DOMAIN e /\ e[Head(f.todo)] = OfStream(f.recs, Head(f.todo).stream)
    <3>1. /\ f.todo # <<>> /\ Head(f.todo) \in DOMAIN o
          /\ o[Head(f.todo)] = OfStream(f.recs, Head(f.todo).stream)
      BY <1>3, <2>2 DEF PersistFits, ToDo
    <3> QED
      BY <1>1, <2>1, <3>1
  <2> QED
    BY <1>3, <2>2 DEF PersistFits, ToDo
<1>4. ASSUME MergeFits(u, m, c, o) PROVE MergeFits(u, m, c, e)
  BY <1>1, <1>4 DEF MergeFits
<1> QED
  BY <1>2, <1>3, <1>4

\* The collector and the sweep begin with a list.
LEMMA StartCollectInv ==
  ASSUME IInv, StartCollect, UNCHANGED <<merge, dropped>>
  PROVE  IInv'
<1>1. /\ up = "serving"
      /\ collector' = [NoCollection EXCEPT !.step = "floor", !.files = Collectable(cat)]
      /\ UNCHANGED <<segs, active, removed, cat, objects, up, seq, batch, unflushed, flusher,
                     acked, merge, dropped>>
  BY DEF StartCollect, logVars
<1>2. CollectFits(up, collector, cat, objects, segs, seq)'
  BY <1>1 DEF CollectFits, NoCollection
<1> QED
  BY <1>1, <1>2 DEF IInv

\* They end with an empty one.
LEMMA EndCollectInv ==
  ASSUME IInv, EndCollect, UNCHANGED <<merge, dropped>>
  PROVE  IInv'
<1>1. /\ collector' = NoCollection
      /\ UNCHANGED <<segs, active, removed, cat, objects, up, seq, batch, unflushed, flusher,
                     acked, merge, dropped>>
  BY DEF EndCollect, logVars
<1>2. CollectFits(up, collector, cat, objects, segs, seq)'
  BY <1>1 DEF CollectFits, NoCollection
<1> QED
  BY <1>1, <1>2 DEF IInv

\* The sweep lists declarations.
LEMMA StartSweepInv ==
  ASSUME IInv, StartSweep, UNCHANGED <<merge, dropped>>
  PROVE  IInv'
<1>1. /\ up = "serving"
      /\ collector' = [NoCollection EXCEPT !.step = "sweep", !.files = Abandoned(cat)]
      /\ UNCHANGED <<segs, active, removed, cat, objects, up, seq, batch, unflushed, flusher,
                     acked, merge, dropped>>
  BY DEF StartSweep, logVars
<1>2. CollectFits(up, collector, cat, objects, segs, seq)'
  BY <1>1 DEF CollectFits, NoCollection
<1> QED
  BY <1>1, <1>2 DEF IInv

\* What a floor says of the log.
LEMMA FloorIs ==
  ASSUME IInv, up = "serving"
  PROVE  /\ \A r \in FloorRecords :
              /\ r.seq \in Nat /\ r.seq <= seq + 1
              /\ \A s \in DOMAIN segs : \A x \in ToSet(segs[s].recs) : r.seq <= x.seq
         /\ FloorRecords = {} => \A s \in Sealed : segs[s].recs = <<>>
<1> DEFINE Full == {t \in Sealed : segs[t].recs # <<>>}
           q == Kept(segs, removed)
<1>1. /\ LogFits(segs, active, removed) /\ QueueFits(q)
      /\ SeqFits(up, seq, segs, removed, cat.maxSeq, flusher) /\ active # 0
  BY DEF IInv, BatchFits
<1>2. /\ active \in Nat /\ IsFiniteSet(DOMAIN segs)
      /\ \A s \in DOMAIN segs : s \in Nat /\ s <= active /\ segs[s].recs \in Seq(Record)
  BY <1>1 DEF LogFits, DirFits, Segment
<1>3. DOMAIN q = DOMAIN segs \cup DOMAIN removed /\ \A t \in DOMAIN segs : q[t] = segs[t].recs
  BY KeptIs
<1> HIDE DEF q
<1>4. ASSUME NEW t \in Full, \A v \in Full : t <= v
      PROVE  LET r == segs[t].recs[1]
             IN  /\ r.seq \in Nat /\ r.seq <= seq + 1
                 /\ \A s \in DOMAIN segs : \A x \in ToSet(segs[s].recs) : r.seq <= x.seq
  <2> DEFINE r == segs[t].recs[1]
  <2>1. t \in DOMAIN segs /\ segs[t].recs # <<>> /\ t # active
    BY DEF Sealed
  <2>2. 1 \in 1 .. Len(segs[t].recs)
    BY <1>2, <2>1
  <2>3. r \in ToSet(segs[t].recs) /\ r \in Record
    BY <1>2, <2>1, <2>2, ToSetIs
  <2>4. r.seq \in Nat /\ r.seq <= seq /\ seq \in Nat
    BY <1>1, <2>1, <2>3, RecordAssumption DEF SeqFits
  <2>5. ASSUME NEW s \in DOMAIN segs, NEW x \in ToSet(segs[s].recs) PROVE r.seq <= x.seq
    <3>1. segs[s].recs \in Seq(Record) /\ s \in Nat /\ t \in Nat /\ s <= active /\ t <= active
      BY <1>2, <2>1
    <3>2. PICK i \in 1 .. Len(segs[s].recs) : x = segs[s].recs[i]
      BY <3>1, ToSetIs
    <3>3. x \in Record /\ x.seq \in Nat
      BY <3>1, ToSetIs, RecordAssumption
    <3>4. segs[s].recs # <<>>
      BY <3>1, <3>2
    <3>5. s = active \/ t <= s
      BY <1>4, <3>4 DEF Sealed
    <3>6. t <= s
      BY <3>1, <3>5
    <3>7. CASE t = s
      <4>1. i = 1 \/ 1 < i
        BY <3>2
      <4>2. 1 < i => r.seq < x.seq
        BY <1>1, <1>3, <2>1, <2>2, <3>2, <3>7 DEF QueueFits
      <4>3. i = 1 => r = x
        BY <3>2, <3>7
      <4> QED
        BY <2>4, <3>3, <4>1, <4>2, <4>3
    <3>8. CASE t < s
      <4>1. r.seq < x.seq
        BY <1>1, <1>3, <2>1, <2>3, <3>8 DEF QueueFits
      <4> QED
        BY <2>4, <3>3, <4>1
    <3> QED
      BY <3>1, <3>6, <3>7, <3>8
  <2>6. r.seq \in Nat /\ r.seq <= seq + 1
    BY <2>4
  <2> QED
    BY <2>5, <2>6
<1>5. FloorRecords = {segs[t].recs[1] : t \in {v \in Full : \A w \in Full : v <= w}}
  BY DEF FloorRecords
<1>6. ASSUME NEW r \in FloorRecords
      PROVE  /\ r.seq \in Nat /\ r.seq <= seq + 1
             /\ \A s \in DOMAIN segs : \A x \in ToSet(segs[s].recs) : r.seq <= x.seq
  <2>1. PICK t \in Full : r = segs[t].recs[1] /\ \A v \in Full : t <= v
    BY <1>5
  <2> HIDE DEF Full
  <2> QED
    BY <1>4, <2>1
<1>7. ASSUME FloorRecords = {} PROVE \A s \in Sealed : segs[s].recs = <<>>
  <2>1. SUFFICES ASSUME Full # {} PROVE FALSE
    OBVIOUS
  <2>2. Full \in SUBSET Int /\ IsFiniteSet(Full)
    <3>1. Full \subseteq DOMAIN segs
      BY DEF Sealed
    <3> HIDE DEF Full
    <3>2. IsFiniteSet(Full)
      BY <1>2, <3>1, FS_Subset
    <3> QED
      BY <1>2, <3>1, <3>2
  <2> HIDE DEF Full
  <2>3. Min(Full) \in Full /\ \A x \in Full : Min(Full) <= x
    BY <2>1, <2>2, MinIs
  <2>4. segs[Min(Full)].recs[1] \in FloorRecords
    BY <1>5, <2>3
  <2> QED
    BY <1>7, <2>4
<1> QED
  BY <1>6, <1>7

\* The floor is read after the files were listed, and both only get better.
LEMMA ReadFloorInv ==
  ASSUME IInv, NEW ok \in BOOLEAN, ReadFloor(ok), UNCHANGED <<merge, dropped>>
  PROVE  IInv'
<1> DEFINE known == ok /\ ~FloorHidden
           bounded == ~known \/ FloorRecords # {}
           floor == IF known /\ FloorRecords # {}
                    THEN (CHOOSE r \in FloorRecords : TRUE).seq ELSE 0
<1>1. /\ collector.step = "floor"
      /\ collector' = [collector EXCEPT !.step = "remove", !.bounded = bounded, !.floor = floor]
      /\ UNCHANGED <<segs, active, removed, cat, objects, up, seq, batch, unflushed, flusher,
                     acked, merge, dropped>>
  BY DEF ReadFloor, logVars
<1>2. /\ collector = [step |-> collector.step, files |-> collector.files,
                      floor |-> collector.floor, bounded |-> collector.bounded,
                      current |-> collector.current]
      /\ collector.files \subseteq Collectable(cat)
      /\ up = "serving"
  BY <1>1 DEF IInv, CollectFits, NoCollection
<1>3. bounded \in BOOLEAN
  OBVIOUS
<1>4. ASSUME bounded
      PROVE  /\ floor \in Nat /\ floor <= seq + 1
             /\ \A s \in DOMAIN segs : \A r \in ToSet(segs[s].recs) : floor <= r.seq
  <2>1. CASE known /\ FloorRecords # {}
    <3> DEFINE first == CHOOSE r \in FloorRecords : TRUE
    <3>1. floor = first.seq /\ first \in FloorRecords
      BY <2>1
    <3> HIDE DEF first, floor
    <3>2. /\ first.seq \in Nat /\ first.seq <= seq + 1
          /\ \A s \in DOMAIN segs : \A r \in ToSet(segs[s].recs) : first.seq <= r.seq
      BY <1>2, <3>1, FloorIs
    <3> QED
      BY <3>1, <3>2
  <2>2. CASE ~known
    <3>1. floor = 0 /\ seq \in Nat
      BY <2>2 DEF IInv, SeqFits
    <3>2. \A s \in DOMAIN segs : \A r \in ToSet(segs[s].recs) : r.seq \in Nat
      BY NewSegment DEF IInv, LogFits
    <3> HIDE DEF floor
    <3> QED
      BY <3>1, <3>2
  <2>3. (known /\ FloorRecords # {}) \/ ~known
    BY <1>4
  <2> HIDE DEF known, floor, bounded
  <2> QED
    BY <2>1, <2>2, <2>3
<1>5. ASSUME ~bounded, NEW id \in collector.files PROVE Behind(id, cat, segs)
  <2>1. \A s \in Sealed : segs[s].recs = <<>>
    BY <1>2, <1>5, FloorIs
  <2>2. ASSUME NEW s \in DOMAIN segs, NEW r \in ToSet(segs[s].recs), NEW x \in cat.rows[id].recs
        PROVE  x.seq < r.seq
    <3>1. s = active
      BY <2>1, <2>2, ToSetEmpty DEF Sealed
    <3>2. r \in Record /\ cat.maxSeq < r.seq
      <4>1. batch = segs[s].recs /\ \A y \in ToSet(batch) : cat.maxSeq < y.seq
        BY <1>2, <3>1 DEF IInv, BatchFits
      <4>2. r \in Record
        BY <2>2, NewSegment DEF IInv, LogFits
      <4> QED
        BY <2>2, <4>1, <4>2
    <3>3. id \in DOMAIN cat.rows
      BY <1>2 DEF Collectable
    <3> QED
      BY <2>2, <3>2, <3>3, AboveFiles DEF IInv
  <2> QED
    BY <2>2 DEF Behind
<1> HIDE DEF known, bounded, floor
<1>6. /\ collector'.step = "remove" /\ collector'.files = collector.files
      /\ collector'.bounded = bounded /\ collector'.floor = floor
      /\ collector' = [step |-> collector'.step, files |-> collector'.files,
                       floor |-> collector'.floor, bounded |-> collector'.bounded,
                       current |-> collector'.current]
  BY <1>1, <1>2
<1>7. CollectFits(up, collector, cat, objects, segs, seq)'
  <2>1. CollectFits(up, collector', cat, objects, segs, seq)
    BY <1>2, <1>3, <1>4, <1>5, <1>6 DEF CollectFits
  <2> QED
    BY <1>1, <2>1
<1> QED
  BY <1>1, <1>7 DEF IInv

\* An object goes when its grace is over; its row may follow when no segment
\* holds a record below it.
LEMMA CollectObjectInv ==
  ASSUME IInv, NEW id \in collector.files, NEW ok \in BOOLEAN, CollectObject(id, ok),
         UNCHANGED <<merge, dropped>>
  PROVE  IInv'
<1> DEFINE row == cat.rows[id]
           path == row.path
           go == ok /\ ~ReplayMayNeed(row)
           left == collector.files \ {id}
<1>1. /\ collector.step = "remove"
      /\ objects' = IF ok THEN Without(objects, path) ELSE objects
      /\ collector' = IF go
                      THEN [collector EXCEPT !.step = "forget", !.current = id, !.files = left]
                      ELSE [collector EXCEPT !.files = left]
      /\ UNCHANGED <<segs, active, removed, cat, up, seq, batch, unflushed, flusher,
                     acked, merge, dropped>>
  BY DEF CollectObject, logVars
<1>2. /\ collector = [step |-> collector.step, files |-> collector.files,
                      floor |-> collector.floor, bounded |-> collector.bounded,
                      current |-> collector.current]
      /\ collector.files \subseteq Collectable(cat)
      /\ up = "serving" /\ collector.bounded \in BOOLEAN
      /\ IF collector.bounded
         THEN /\ collector.floor \in Nat /\ collector.floor <= seq + 1
              /\ \A s \in DOMAIN segs : \A r \in ToSet(segs[s].recs) : collector.floor <= r.seq
         ELSE \A i \in collector.files : Behind(i, cat, segs)
  BY <1>1 DEF IInv, CollectFits, NoCollection
<1>3. id \in Collectable(cat) /\ id \in DOMAIN cat.rows /\ row.aged /\ RowFits(cat, id)
  BY <1>2 DEF Collectable, IInv, RowsFit
<1>4. Registered(cat, path)
  BY <1>3 DEF Registered
<1>5. \A i \in DOMAIN cat.rows : ~cat.rows[i].aged => cat.rows[i].path # path
  BY <1>3 DEF IInv, RowsFit
<1>6. path \notin ToSet(flusher.todo)
  <2>1. flusher.step \in {"write", "register"} => ToDo(flusher, cat, objects)
    BY DEF IInv, PersistFits
  <2>2. flusher.step \notin {"write", "register"} => flusher.todo = <<>>
    BY DEF IInv, PersistFits
  <2> QED
    BY <1>4, <2>1, <2>2, ToSetEmpty DEF ToDo
<1>7. flusher.todo \in Seq(Names(flusher.recs))
  <2>1. flusher.step \in {"write", "register"} => ToDo(flusher, cat, objects)
    BY DEF IInv, PersistFits
  <2>2. flusher.step \notin {"write", "register"} => flusher.todo = <<>>
    BY DEF IInv, PersistFits
  <2> QED
    BY <2>1, <2>2, EmptySeq DEF ToDo
<1>8. merge.step = "publish" /\ merge.recs # {} => merge.path # path
  <2>1. merge.step = "publish" /\ merge.recs # {} => ~Registered(cat, merge.path)
    BY MergeNameFits DEF IInv
  <2> QED
    BY <1>4, <2>1
<1> HIDE DEF row, path, go, left
<1>9. /\ ObjectsFit(cat, objects') /\ PersistFits(flusher, cat, objects')
      /\ MergeFits(up, merge, cat, objects')
  <2>1. /\ ObjectsFit(cat, objects) /\ PersistFits(flusher, cat, objects)
        /\ MergeFits(up, merge, cat, objects)
    BY DEF IInv
  <2>2. CASE ok
    <3>1. objects' = Without(objects, path)
      BY <1>1, <2>2
    <3> QED
      BY <1>5, <1>6, <1>7, <1>8, <2>1, <3>1, DropFits
  <2>3. CASE ~ok
    BY <1>1, <2>1, <2>3
  <2> QED
    BY <2>2, <2>3
<1>10. CollectFits(up, collector, cat, objects, segs, seq)'
  <2>1. left \subseteq collector.files /\ id \notin left
    BY DEF left
  <2>2. CASE ~go
    <3>1. /\ collector'.step = "remove" /\ collector'.files = left
          /\ collector'.bounded = collector.bounded /\ collector'.floor = collector.floor
          /\ collector' = [step |-> collector'.step, files |-> collector'.files,
                           floor |-> collector'.floor, bounded |-> collector'.bounded,
                           current |-> collector'.current]
      BY <1>1, <1>2, <2>2
    <3>2. CollectFits(up, collector', cat, objects', segs, seq)
      BY <1>2, <2>1, <3>1 DEF CollectFits
    <3> QED
      BY <1>1, <3>2
  <2>3. CASE go
    <3>1. /\ collector'.step = "forget" /\ collector'.files = left /\ collector'.current = id
          /\ collector'.bounded = collector.bounded /\ collector'.floor = collector.floor
          /\ collector' = [step |-> collector'.step, files |-> collector'.files,
                           floor |-> collector'.floor, bounded |-> collector'.bounded,
                           current |-> collector'.current]
      BY <1>1, <1>2, <2>3
    <3>2. cat.rows[id].path \notin DOMAIN objects'
      BY <1>1, <2>3 DEF Without, go, path, row
    <3>3. ASSUME row.level = 0 PROVE Behind(id, cat, segs)
      <4>1. ~collector.bounded \/ ~ (LastSeq(row.recs) >= collector.floor)
        BY <2>3, <3>3 DEF go, ReplayMayNeed
      <4>2. CASE ~collector.bounded
        BY <1>2, <4>2
      <4>3. CASE collector.bounded
        <5>1. /\ row.recs \in SUBSET Record /\ row.recs # {} /\ IsFiniteSet(row.recs)
          BY <1>3 DEF RowFits, row
        <5>2. LastSeq(row.recs) \in Nat /\ \A x \in row.recs : x.seq <= LastSeq(row.recs)
          BY <5>1, LastSeqIs
        <5>3. collector.floor \in Nat /\ LastSeq(row.recs) < collector.floor
          BY <1>2, <4>1, <4>3, <5>2
        <5>4. ASSUME NEW s \in DOMAIN segs, NEW r \in ToSet(segs[s].recs), NEW x \in row.recs
              PROVE  x.seq < r.seq
          <6>1. r.seq \in Nat
            BY NewSegment DEF IInv, LogFits
          <6>2. x.seq \in Nat
            BY <5>1, RecordAssumption
          <6>3. collector.floor <= r.seq
            BY <1>2, <4>3
          <6> QED
            BY <5>2, <5>3, <6>1, <6>2, <6>3
        <5> QED
          BY <5>4 DEF Behind, row
      <4> QED
        BY <4>1, <4>2, <4>3
    <3>4. cat.rows[id].level = 0 => Behind(id, cat, segs)
      BY <3>3 DEF row
    <3>5. id \in Collectable(cat) \ left
      BY <1>3, <2>1
    <3>6. CollectFits(up, collector', cat, objects', segs, seq)
      BY <1>2, <2>1, <3>1, <3>2, <3>4, <3>5 DEF CollectFits
    <3> QED
      BY <1>1, <3>6
  <2> QED
    BY <2>2, <2>3
<1> QED
  BY <1>1, <1>9, <1>10 DEF IInv

\* The sweep takes no object of a row, of a flush or of a merge.
LEMMA SweepPathInv ==
  ASSUME IInv, NEW path, NEW ok \in BOOLEAN, SweepPath(path, ok), UNCHANGED <<merge, dropped>>
  PROVE  IInv'
<1>1. /\ collector.step = "sweep"
      /\ collector' = [collector EXCEPT !.files = @ \ {path}]
      /\ \/ /\ path \in DOMAIN cat.pending /\ cat.pending[path]
            /\ \/ objects' = objects /\ (Registered(cat, path) \/ ~ok)
               \/ objects' = Without(objects, path) /\ ~Registered(cat, path)
            /\ cat' = IF ok THEN Discard(cat, path) ELSE cat
         \/ UNCHANGED <<cat, objects>>
      /\ UNCHANGED <<segs, active, removed, up, seq, batch, unflushed, flusher,
                     acked, merge, dropped>>
  BY DEF SweepPath, StillAbandoned, Abandoned, logVars
<1>2. /\ up = "serving" /\ collector.bounded \in BOOLEAN
      /\ collector = [step |-> collector.step, files |-> collector.files,
                      floor |-> collector.floor, bounded |-> collector.bounded,
                      current |-> collector.current]
  BY <1>1 DEF IInv, CollectFits, NoCollection
<1>3. /\ collector'.step = "sweep" /\ collector'.bounded = collector.bounded
      /\ collector' = [step |-> collector'.step, files |-> collector'.files,
                       floor |-> collector'.floor, bounded |-> collector'.bounded,
                       current |-> collector'.current]
  BY <1>1, <1>2
<1>4. CollectFits(up, collector, cat, objects, segs, seq)'
  BY <1>1, <1>2, <1>3 DEF CollectFits
<1>5. CASE UNCHANGED <<cat, objects>>
  BY <1>1, <1>4, <1>5 DEF IInv
<1>6. CASE /\ path \in DOMAIN cat.pending /\ cat.pending[path]
           /\ \/ objects' = objects /\ (Registered(cat, path) \/ ~ok)
              \/ objects' = Without(objects, path) /\ ~Registered(cat, path)
           /\ cat' = IF ok THEN Discard(cat, path) ELSE cat
  <2>1. /\ ObjectsFit(cat, objects) /\ PersistFits(flusher, cat, objects)
        /\ MergeFits(up, merge, cat, objects) /\ CatShape(cat)
    BY DEF IInv
  <2>2. flusher.todo \in Seq(Names(flusher.recs)) /\ path \notin ToSet(flusher.todo)
    <3>1. CASE flusher.step \in {"write", "register"}
      BY <1>6, <2>1, <3>1 DEF PersistFits, ToDo
    <3>2. CASE flusher.step \notin {"write", "register"}
      BY <2>1, <3>2, ToSetEmpty, EmptySeq DEF PersistFits
    <3> QED
      BY <3>1, <3>2
  <2>3. merge.step \in {"write", "publish"} /\ merge.recs # {} => merge.path # path
    BY <1>6, <2>1 DEF MergeFits
  <2>4. /\ ObjectsFit(cat, objects') /\ PersistFits(flusher, cat, objects')
        /\ MergeFits(up, merge, cat, objects')
    <3>1. CASE objects' = objects
      BY <2>1, <3>1
    <3>2. CASE objects' = Without(objects, path) /\ ~Registered(cat, path)
      <4>1. \A i \in DOMAIN cat.rows : ~cat.rows[i].aged => cat.rows[i].path # path
        BY <3>2 DEF Registered
      <4>2. merge.step = "publish" /\ merge.recs # {} => merge.path # path
        BY <2>3
      <4> QED
        BY <2>1, <2>2, <3>2, <4>1, <4>2, DropFits
    <3> QED
      BY <1>6, <3>1, <3>2
  <2>5. CASE ~ok
    <3>1. cat' = cat
      BY <1>6, <2>5
    <3> QED
      BY <1>1, <1>4, <2>4, <3>1 DEF IInv
  <2>6. CASE ok
    <3>1. /\ CatShape(cat') /\ cat'.rows = cat.rows /\ cat'.nextId = cat.nextId
          /\ cat'.maxSeq = cat.maxSeq
          /\ DOMAIN cat'.pending = DOMAIN cat.pending \ {path}
          /\ \A p \in DOMAIN cat'.pending : cat'.pending[p] = cat.pending[p]
      BY <1>6, <2>1, <2>6, DiscardIs
    <3>2. /\ RowsFit(cat') /\ DroppedFits(cat', dropped')
          /\ ReplayFits(cat', dropped', Kept(segs, removed)')
          /\ SeqsDiffer(cat', Kept(segs, removed)')
          /\ QueueFits(Kept(segs, removed)')
          /\ AckFits(acked', cat', dropped', segs')
      BY <1>1, <3>1, PendingInv
    <3>3. \A p \in DOMAIN cat.pending : ~cat.pending[p] => p \in DOMAIN cat'.pending /\ ~cat'.pending[p]
      BY <1>6, <3>1
    <3>4. /\ PersistFits(flusher, cat', objects') /\ MergeFits(up, merge, cat', objects')
      BY <2>4, <3>1, <3>3, PendingFits
    <3>5. \A p : Registered(cat', p) <=> Registered(cat, p)
      BY <3>1, SameRows
    <3>6. ObjectsFit(cat', objects')
      <4>1. ASSUME NEW p \in DOMAIN objects' PROVE Registered(cat', p) \/ p \in DOMAIN cat'.pending
        <5>1. p = path => Registered(cat, p)
          BY <1>6, <2>6, <4>1 DEF Without
        <5> QED
          BY <2>4, <3>1, <3>5, <5>1 DEF ObjectsFit
      <4> QED
        BY <2>4, <3>1, <4>1 DEF ObjectsFit
    <3>7. SeqFits(up, seq, segs, removed, cat.maxSeq, flusher)'
      BY <1>1, <3>1 DEF IInv, SeqFits
    <3>8. BatchFits(up, active, batch, segs, cat.maxSeq)' /\ LogFits(segs, active, removed)'
      BY <1>1, <3>1 DEF IInv, BatchFits
    <3>9. FlushFits(up, flusher, unflushed, segs, active)'
      BY <1>1 DEF IInv
    <3> QED
      BY <1>1, <1>4, <3>1, <3>2, <3>4, <3>6, <3>7, <3>8, <3>9 DEF IInv
  <2> QED
    BY <2>5, <2>6
<1> QED
  BY <1>1, <1>5, <1>6

\* What the collector holds only depends on the retired rows.
LEMMA CollectAlike ==
  ASSUME NEW u, NEW k, NEW c, NEW e, NEW o, NEW g, NEW n, CollectFits(u, k, c, o, g, n),
         \A id \in Collectable(c) : /\ id \in Collectable(e)
                                    /\ e.rows[id].path = c.rows[id].path
                                    /\ e.rows[id].level = c.rows[id].level
                                    /\ e.rows[id].recs = c.rows[id].recs
  PROVE  CollectFits(u, k, e, o, g, n)
<1>1. ASSUME NEW id \in Collectable(c), Behind(id, c, g) PROVE Behind(id, e, g)
  BY <1>1 DEF Behind
<1>2. Collectable(c) \subseteq Collectable(e)
  OBVIOUS
<1>3. k.step \in {"floor", "remove", "forget"} => k.files \subseteq Collectable(c)
  BY DEF CollectFits
<1>4. ASSUME k.step \in {"remove", "forget"}, ~k.bounded
      PROVE  \A id \in k.files : Behind(id, e, g)
  BY <1>1, <1>3, <1>4 DEF CollectFits
<1>5. ASSUME k.step = "forget"
      PROVE  /\ k.current \in Collectable(e) \ k.files
             /\ e.rows[k.current].path \notin DOMAIN o
             /\ e.rows[k.current].level = 0 => Behind(k.current, e, g)
  <2>1. /\ k.current \in Collectable(c) \ k.files
        /\ c.rows[k.current].path \notin DOMAIN o
        /\ c.rows[k.current].level = 0 => Behind(k.current, c, g)
    BY <1>5 DEF CollectFits
  <2> QED
    BY <1>1, <1>2, <2>1
<1> QED
  BY <1>2, <1>4, <1>5 DEF CollectFits

\* The merge only depends on its inputs, and on the declaration it made.
LEMMA MergeAlike ==
  ASSUME NEW u, NEW m, NEW c, NEW e, NEW o, MergeFits(u, m, c, o), Live(e) = Live(c),
         \A id \in Live(c) : /\ e.rows[id].path = c.rows[id].path
                             /\ e.rows[id].level = c.rows[id].level
                             /\ e.rows[id].recs = c.rows[id].recs,
         e.pending = c.pending
  PROVE  MergeFits(u, m, e, o)
<1>1. ASSUME m.step # "idle", NEW id \in m.ids
      PROVE  /\ id \in Live(c)
             /\ e.rows[id].path = c.rows[id].path
             /\ e.rows[id].level = c.rows[id].level
             /\ e.rows[id].recs = c.rows[id].recs
  BY <1>1 DEF MergeFits
<1>2. m.step # "idle" =>
        UNION {e.rows[id].recs : id \in m.ids} = UNION {c.rows[id].recs : id \in m.ids}
  BY <1>1
<1> QED
  BY <1>1, <1>2 DEF MergeFits

\* A row that is forgotten is not looked for by any replay.
LEMMA ForgetRowInv ==
  ASSUME IInv, NEW ok \in BOOLEAN, ForgetRow(ok), UNCHANGED <<merge, dropped>>
  PROVE  IInv'
<1> DEFINE id == collector.current
           q == Kept(segs, removed)'
<1>1. /\ collector.step = "forget"
      /\ removed' = (IF ok THEN <<>> ELSE removed)
      /\ cat' = IF ok THEN Forget(cat, id) ELSE cat
      /\ collector' = [collector EXCEPT !.step = "remove", !.current = 0]
      /\ UNCHANGED <<segs, active, objects, up, seq, batch, unflushed, flusher, acked,
                     merge, dropped>>
  BY DEF ForgetRow
<1>2. CollectFits(up, collector, cat, objects, segs, seq)
  BY DEF IInv
<1>3. /\ collector'.step = "remove" /\ collector'.files = collector.files
      /\ collector'.bounded = collector.bounded /\ collector'.floor = collector.floor
      /\ collector' = [step |-> collector'.step, files |-> collector'.files,
                       floor |-> collector'.floor, bounded |-> collector'.bounded,
                       current |-> collector'.current]
  <2>1. collector = [step |-> collector.step, files |-> collector.files,
                      floor |-> collector.floor, bounded |-> collector.bounded,
                      current |-> collector.current]
    BY <1>2 DEF CollectFits
  <2> QED
    BY <1>1, <2>1
<1>4. /\ LogFits(segs, active, removed)' /\ Within(q, Kept(segs, removed))
  <2>1. removed' \in {removed, <<>>}
    BY <1>1
  <2> QED
    BY <1>1, <2>1, FinalIs DEF IInv
<1>5. QueueFits(q) /\ ReplayFits(cat, dropped, q) /\ SeqsDiffer(cat, q)
  BY <1>4, QueueWithin, ReplayWithin, DifferWithin DEF IInv
<1>6. CollectFits(up, collector', cat, objects, segs, seq)
  <2>1. up = "serving"
    BY <1>1, <1>2 DEF CollectFits, NoCollection
  <2> QED
    BY <1>1, <1>2, <1>3, <2>1 DEF CollectFits
<1>7. SeqFits(up, seq, segs, removed', cat.maxSeq, flusher)
  <2>1. DOMAIN <<>> = {}
    OBVIOUS
  <2> QED
    BY <1>1, <2>1 DEF IInv, SeqFits
<1> HIDE DEF q
<1>8. CASE ~ok
  <2>1. cat' = cat
    BY <1>1, <1>8
  <2> QED
    BY <1>1, <1>4, <1>5, <1>6, <1>7, <2>1 DEF IInv, q
<1>9. CASE ok
  <2>1. /\ CatShape(cat) /\ RowsFit(cat) /\ DroppedFits(cat, dropped)
        /\ cat' = Forget(cat, id) /\ removed' = <<>>
    BY <1>1, <1>9 DEF IInv
  <2>2. /\ id \in Collectable(cat) \ collector.files /\ cat.rows[id].path \notin DOMAIN objects
        /\ cat.rows[id].level = 0 => Behind(id, cat, segs)
    BY <1>1, <1>2 DEF CollectFits
  <2> HIDE DEF id
  <2>3. DOMAIN q = DOMAIN segs /\ \A s \in DOMAIN segs : q[s] = segs[s].recs
    <3>1. DOMAIN removed' = {}
      BY <2>1
    <3> QED
      BY <1>1, <3>1 DEF q, Kept, RecsOf, Joined
  <2>4. cat.rows[id].level = 0 =>
          \A s \in DOMAIN q : \A r \in ToSet(q[s]) : \A y \in cat.rows[id].recs : y.seq < r.seq
    BY <2>2, <2>3 DEF Behind
  <2>5. /\ CatShape(cat') /\ RowsFit(cat') /\ DroppedFits(cat', dropped)
        /\ ReplayFits(cat', dropped, q) /\ SeqsDiffer(cat', q)
        /\ Live(cat') = Live(cat) /\ Collectable(cat') = Collectable(cat) \ {id}
        /\ DOMAIN cat'.rows = DOMAIN cat.rows \ {id}
        /\ \A i \in DOMAIN cat'.rows : cat'.rows[i] = cat.rows[i]
        /\ cat'.pending = cat.pending /\ cat'.maxSeq = cat.maxSeq
        /\ \A p : Registered(cat', p) <=> Registered(cat, p) /\ p # cat.rows[id].path
        /\ Filed(cat', dropped) = Filed(cat, dropped)
    <3>1. id \in Collectable(cat)
      BY <2>2
    <3> QED
      BY <1>5, <2>1, <2>4, <3>1, ForgetFits
  <2>6. ObjectsFit(cat', objects)
    <3>1. ObjectsFit(cat, objects)
      BY DEF IInv
    <3> QED
      BY <2>2, <2>5, <3>1 DEF ObjectsFit
  <2>7. PersistFits(flusher, cat', objects)
    <3>1. PersistFits(flusher, cat, objects) /\ FlushFits(up, flusher, unflushed, segs, active)
      BY DEF IInv
    <3>2. flusher.step \in Busy => cat.rows[id].path \notin Names(flusher.recs)
      <4>1. ASSUME flusher.step \in Busy PROVE cat.rows[id].path \notin Names(flusher.recs)
        <5>1. flusher.seg \in DOMAIN segs /\ flusher.recs = segs[flusher.seg].recs
          BY <3>1, <4>1 DEF FlushFits
        <5>2. flusher.recs \in Seq(Record)
          BY <5>1, NewSegment DEF IInv, LogFits
        <5>3. RowFits(cat, id)
          BY <2>1, <2>2 DEF RowsFit, Collectable
        <5>4. cat.rows[id].level = 0 =>
                \A r \in ToSet(flusher.recs) : \A y \in cat.rows[id].recs : y.seq < r.seq
          BY <2>3, <2>4, <5>1
        <5> QED
          BY <5>2, <5>3, <5>4, AheadOfFile
      <4> QED
        BY <4>1
    <3>3. ASSUME flusher.step \in {"write", "register"} PROVE ToDo(flusher, cat', objects)
      <4>1. ToDo(flusher, cat, objects) /\ cat.rows[id].path \notin Names(flusher.recs)
        BY <3>1, <3>2, <3>3 DEF PersistFits, Busy
      <4> QED
        BY <2>5, <4>1 DEF ToDo
    <3>4. ASSUME flusher.step = "retire" PROVE \A p \in Names(flusher.recs) : Registered(cat', p)
      <4>1. cat.rows[id].path \notin Names(flusher.recs)
        BY <3>2, <3>4 DEF Busy
      <4> QED
        BY <2>5, <3>1, <3>4, <4>1 DEF PersistFits
    <3> QED
      BY <3>1, <3>3, <3>4 DEF PersistFits
  <2>8. CollectFits(up, collector', cat', objects, segs, seq)
    <3>1. collector.files \subseteq Collectable(cat')
      BY <1>1, <1>2, <2>2, <2>5 DEF CollectFits
    <3>2. \A i \in collector.files : i \in DOMAIN cat'.rows
      BY <3>1 DEF Collectable
    <3>3. ASSUME NEW i \in collector.files, Behind(i, cat, segs) PROVE Behind(i, cat', segs)
      BY <2>5, <3>2, <3>3 DEF Behind
    <3> QED
      BY <1>3, <1>6, <3>1, <3>3 DEF CollectFits
  <2>9. MergeFits(up, merge, cat', objects)
    <3>1. MergeFits(up, merge, cat, objects)
      BY DEF IInv
    <3>2. \A i \in Live(cat) : cat'.rows[i] = cat.rows[i]
      BY <2>5 DEF Live
    <3> QED
      BY <2>5, <3>1, <3>2, MergeAlike
  <2>10. AckFits(acked, cat', dropped, segs)
    BY <2>5 DEF IInv, AckFits
  <2>11. BatchFits(up, active, batch, segs, cat'.maxSeq) /\ SeqFits(up, seq, segs, removed', cat'.maxSeq, flusher)
    BY <1>7, <2>5 DEF IInv
  <2> QED
    BY <1>1, <1>4, <1>5, <2>5, <2>6, <2>7, <2>8, <2>9, <2>10, <2>11 DEF IInv, q
<1> QED
  BY <1>8, <1>9

\* A tombstone that ages lets go of its object, which no query reads any more.
LEMMA TombstoneAgesInv ==
  ASSUME IInv, NEW id, TombstoneAges(id), UNCHANGED <<merge, dropped>>
  PROVE  IInv'
<1> DEFINE q == Kept(segs, removed)'
           e == [cat EXCEPT !.rows[id].aged = TRUE]
<1>1. /\ id \in DOMAIN cat.rows /\ cat.rows[id].state = "tombstoned"
      /\ cat' = e /\ removed' = <<>>
      /\ UNCHANGED <<segs, active, objects, up, seq, batch, unflushed, flusher, collector,
                     acked, merge, dropped>>
  BY DEF TombstoneAges, storeVars
<1>2. /\ LogFits(segs, active, removed)' /\ Within(q, Kept(segs, removed))
  <2>1. removed' \in {removed, <<>>}
    BY <1>1
  <2> QED
    BY <1>1, <2>1, FinalIs DEF IInv
<1>3. QueueFits(q) /\ ReplayFits(cat, dropped, q) /\ SeqsDiffer(cat, q)
  BY <1>2, QueueWithin, ReplayWithin, DifferWithin DEF IInv
<1> HIDE DEF q
<1>4. CatShape(cat) /\ RowsFit(cat) /\ DroppedFits(cat, dropped)
  BY DEF IInv
<1>5. /\ CatShape(e) /\ RowsFit(e) /\ DroppedFits(e, dropped)
      /\ ReplayFits(e, dropped, q) /\ SeqsDiffer(e, q)
      /\ Live(e) = Live(cat) /\ Collectable(cat) \subseteq Collectable(e)
      /\ DOMAIN e.rows = DOMAIN cat.rows
      /\ \A i \in DOMAIN cat.rows : /\ e.rows[i].path = cat.rows[i].path
                                    /\ e.rows[i].level = cat.rows[i].level
                                    /\ e.rows[i].recs = cat.rows[i].recs
                                    /\ cat.rows[i].aged => e.rows[i].aged
      /\ e.pending = cat.pending /\ e.maxSeq = cat.maxSeq /\ e.rollup = cat.rollup
      /\ \A p : Registered(e, p) <=> Registered(cat, p)
      /\ Filed(e, dropped) = Filed(cat, dropped)
  <2>1. id \in DOMAIN cat.rows /\ cat.rows[id].state = "tombstoned"
    BY <1>1
  <2>2. ReplayFits(cat, dropped, q) /\ SeqsDiffer(cat, q)
    BY <1>3
  <2> QED
    BY <2>1, <2>2, <1>4, AgeFits
<1> HIDE DEF e
<1>6. ObjectsFit(e, objects)
  BY <1>5 DEF IInv, ObjectsFit
<1>7. PersistFits(flusher, e, objects)
  BY <1>5 DEF IInv, PersistFits, ToDo
<1>8. CollectFits(up, collector, e, objects, segs, seq)
  <2>1. CollectFits(up, collector, cat, objects, segs, seq)
    BY DEF IInv
  <2>2. \A i \in Collectable(cat) : i \in DOMAIN cat.rows
    BY DEF Collectable
  <2> QED
    BY <1>5, <2>1, <2>2, CollectAlike
<1>9. MergeFits(up, merge, e, objects)
  <2>1. MergeFits(up, merge, cat, objects)
    BY DEF IInv
  <2>2. \A i \in Live(cat) : i \in DOMAIN cat.rows
    BY DEF Live
  <2> QED
    BY <1>5, <2>1, <2>2, MergeAlike
<1>10. AckFits(acked, e, dropped, segs)
  BY <1>5 DEF IInv, AckFits
<1>11. BatchFits(up, active, batch, segs, e.maxSeq) /\ SeqFits(up, seq, segs, removed', e.maxSeq, flusher)
  <2>1. DOMAIN <<>> = {}
    OBVIOUS
  <2> QED
    BY <1>1, <1>5, <2>1 DEF IInv, SeqFits
<1> QED
  BY <1>1, <1>2, <1>3, <1>5, <1>6, <1>7, <1>8, <1>9, <1>10, <1>11 DEF IInv, q

------------------------------------------------------------------------------
(* The compactor, the clocks and the stops keep the invariant. *)

\* A merge takes live files of one stream and level.
LEMMA StartMergeInv ==
  ASSUME IInv, up = "serving", StartMerge, UNCHANGED <<logVars, storeVars>>
  PROVE  IInv'
<1>1. UNCHANGED <<segs, active, removed, cat, objects, up, seq, batch, unflushed, flusher,
                  collector, acked, dropped>>
  BY DEF StartMerge, logVars, storeVars
<1>2. PICK ids \in Groups :
        \E kept \in IF Retention THEN SUBSET Contents(ids) ELSE {Contents(ids)} :
          LET from  == cat.rows[CHOOSE id \in ids : TRUE].level
              level == IF from = LastLevel THEN LastLevel ELSE from + 1
          IN  IF kept = {}
              THEN merge' = [NoMerge EXCEPT !.step = "publish", !.ids = ids]
              ELSE \E first \in Firsts(kept, level) :
                     merge' = [step |-> "intend", ids |-> ids, recs |-> kept,
                               path |-> Path(level, first, OutputOf(ids, from))]
  BY DEF StartMerge
<1> DEFINE one == CHOOSE id \in ids : TRUE
           from == cat.rows[one].level
           level == IF from = LastLevel THEN LastLevel ELSE from + 1
<1>3. PICK kept \in SUBSET Contents(ids) :
        IF kept = {}
        THEN merge' = [NoMerge EXCEPT !.step = "publish", !.ids = ids]
        ELSE \E first \in Firsts(kept, level) :
               merge' = [step |-> "intend", ids |-> ids, recs |-> kept,
                         path |-> Path(level, first, OutputOf(ids, from))]
  <2>1. Contents(ids) \in SUBSET Contents(ids)
    OBVIOUS
  <2> QED
    BY <1>2, <2>1
<1>4. /\ ids \subseteq Live(cat) /\ ids # {}
      /\ \A i, j \in ids : /\ cat.rows[i].path.stream = cat.rows[j].path.stream
                           /\ cat.rows[i].level = cat.rows[j].level
                           /\ cat.rows[i].level = 2 => i = j
  BY DEF Groups, LastLevel
<1>5. one \in ids
  BY <1>4
<1> HIDE DEF one
<1>6. Contents(ids) = UNION {cat.rows[id].recs : id \in ids}
  <2>1. ASSUME NEW id \in ids PROVE objects[cat.rows[id].path] = cat.rows[id].recs
    <3>1. id \in DOMAIN cat.rows /\ cat.rows[id].state = "live"
      BY <1>4 DEF Live
    <3>2. ~cat.rows[id].aged
      BY <3>1 DEF IInv, RowsFit, RowFits
    <3> QED
      BY <3>1, <3>2 DEF IInv, ObjectsFit
  <2> QED
    BY <2>1 DEF Contents
<1>7. MergeFits(up', merge', cat', objects')
  <2>1. CASE kept = {}
    <3>1. merge' = [NoMerge EXCEPT !.step = "publish", !.ids = ids]
      BY <1>3, <2>1
    <3>2. /\ merge'.step = "publish" /\ merge'.ids = ids /\ merge'.recs = {}
          /\ merge' = [step |-> merge'.step, ids |-> merge'.ids, recs |-> merge'.recs,
                       path |-> merge'.path]
      BY <3>1 DEF NoMerge
    <3> QED
      BY <1>1, <1>4, <3>2 DEF MergeFits
  <2>2. CASE kept # {}
    <3>1. PICK first \in Firsts(kept, level) :
            merge' = [step |-> "intend", ids |-> ids, recs |-> kept,
                      path |-> Path(level, first, OutputOf(ids, from))]
      BY <1>3, <2>2
    <3>2. first \in kept
      BY DEF Firsts
    <3>3. from \in 0 .. 2 /\ \A id \in ids : cat.rows[id].level = from
      <4>1. one \in DOMAIN cat.rows
        BY <1>4, <1>5 DEF Live
      <4> QED
        BY <1>4, <1>5, <4>1 DEF IInv, RowsFit, RowFits
    <3>4. \A id \in ids : cat.rows[id].path.stream = first.stream
      <4>1. PICK j \in ids : first \in cat.rows[j].recs
        BY <1>6, <3>2
      <4>2. j \in DOMAIN cat.rows
        BY <1>4 DEF Live
      <4>3. first.stream = cat.rows[j].path.stream
        BY <4>1, <4>2 DEF IInv, RowsFit, RowFits
      <4> QED
        BY <1>4, <4>3
    <3>5. IF from = 2 THEN \E id \in ids : ids = {id} /\ merge'.path = Path(2, first, id)
          ELSE merge'.path = Path(from + 1, first, 0)
      <4>1. CASE from = 2
        <5>1. ids = {one}
          BY <1>4, <1>5, <3>3, <4>1
        <5>2. OutputOf(ids, from) = one
          BY <4>1 DEF OutputOf, LastLevel, one
        <5> QED
          BY <1>5, <3>1, <4>1, <5>1, <5>2 DEF LastLevel
      <4>2. CASE from # 2
        BY <3>1, <4>2 DEF OutputOf, LastLevel
      <4> QED
        BY <4>1, <4>2
    <3> HIDE DEF from, level
    <3>6. /\ merge'.step = "intend" /\ merge'.ids = ids /\ merge'.recs = kept
          /\ merge' = [step |-> merge'.step, ids |-> merge'.ids, recs |-> merge'.recs,
                       path |-> merge'.path]
      BY <3>1
    <3>7. kept \subseteq UNION {cat.rows[id].recs : id \in ids}
      BY <1>6
    <3>8. MergeFits(up, merge', cat, objects)
      BY <1>4, <2>2, <3>2, <3>3, <3>4, <3>5, <3>6, <3>7 DEF MergeFits
    <3> QED
      BY <1>1, <3>8
  <2> QED
    BY <2>1, <2>2
<1> QED
  BY <1>1, <1>7 DEF IInv

\* What expires is dropped, and its rows stay.
LEMMA ExpireInv ==
  ASSUME IInv, up = "serving", Expire, UNCHANGED <<logVars, storeVars>>
  PROVE  IInv'
<1> DEFINE q == Kept(segs, removed)
<1>1. UNCHANGED <<segs, active, removed, objects, up, seq, batch, unflushed, flusher,
                  collector, acked, merge>>
  BY DEF Expire, logVars, storeVars
<1>2. PICK doomed \in SUBSET Live(cat) :
        /\ merge.step = "idle"
        /\ cat' = Retire(cat, doomed) /\ dropped' = dropped \cup InputsOf(cat, doomed)
  <2>1. PICK horizon \in {r.ts : r \in Record} :
          LET doomed == {id \in Live(cat) : \A r \in cat.rows[id].recs : r.ts <= horizon}
          IN  /\ cat' = Tombstone(cat, doomed)
              /\ dropped' = dropped \cup UNION {cat.rows[id].recs : id \in doomed}
    BY DEF Expire
  <2> DEFINE doomed == {id \in Live(cat) : \A r \in cat.rows[id].recs : r.ts <= horizon}
  <2>2. /\ doomed \in SUBSET Live(cat) /\ merge.step = "idle"
        /\ cat' = Retire(cat, doomed) /\ dropped' = dropped \cup InputsOf(cat, doomed)
    BY <2>1 DEF Tombstone, InputsOf, Expire
  <2> HIDE DEF doomed
  <2> QED
    BY <2>2
<1>3. /\ CatShape(cat) /\ RowsFit(cat) /\ DroppedFits(cat, dropped)
      /\ ReplayFits(cat, dropped, q) /\ SeqsDiffer(cat, q)
  BY DEF IInv
<1> HIDE DEF q
<1>4. /\ CatShape(cat') /\ RowsFit(cat') /\ DroppedFits(cat', dropped')
      /\ ReplayFits(cat', dropped', q) /\ SeqsDiffer(cat', q)
      /\ DOMAIN cat'.rows = DOMAIN cat.rows
      /\ \A id \in DOMAIN cat.rows : /\ cat'.rows[id].path = cat.rows[id].path
                                     /\ cat'.rows[id].level = cat.rows[id].level
                                     /\ cat'.rows[id].recs = cat.rows[id].recs
                                     /\ cat'.rows[id].aged = cat.rows[id].aged
      /\ Collectable(cat') = Collectable(cat)
      /\ cat'.pending = cat.pending /\ cat'.maxSeq = cat.maxSeq
      /\ \A p : Registered(cat', p) <=> Registered(cat, p)
      /\ Filed(cat', dropped') = Filed(cat, dropped)
  BY <1>2, <1>3, TombstoneFits
<1>5. Kept(segs, removed)' = q
  BY <1>1 DEF q
<1>6. ObjectsFit(cat', objects)
  BY <1>4 DEF IInv, ObjectsFit
<1>7. PersistFits(flusher, cat', objects)
  BY <1>4 DEF IInv, PersistFits, ToDo
<1>8. CollectFits(up, collector, cat', objects, segs, seq)
  <2>1. CollectFits(up, collector, cat, objects, segs, seq)
    BY DEF IInv
  <2>2. \A i \in Collectable(cat) : i \in DOMAIN cat.rows
    BY DEF Collectable
  <2> QED
    BY <1>4, <2>1, <2>2, CollectAlike
<1>9. MergeFits(up, merge, cat', objects)
  BY <1>2 DEF IInv, MergeFits
<1>10. AckFits(acked, cat', dropped', segs)
  BY <1>4 DEF IInv, AckFits
<1>11. BatchFits(up, active, batch, segs, cat'.maxSeq) /\ SeqFits(up, seq, segs, removed, cat'.maxSeq, flusher)
  BY <1>4 DEF IInv
<1> QED
  BY <1>1, <1>4, <1>5, <1>6, <1>7, <1>8, <1>9, <1>10, <1>11 DEF IInv, q

\* A merge's output is declared under a new name.
LEMMA IntendOutputInv ==
  ASSUME IInv, NEW ok \in BOOLEAN, IntendOutput(ok), UNCHANGED <<logVars, up, seq, batch,
         unflushed, flusher, collector, acked>>
  PROVE  IInv'
<1>1. /\ merge.step = "intend"
      /\ cat' = IF ok THEN Intend(cat, {merge.path}) ELSE cat
      /\ merge' = IF ok /\ ~Registered(cat, merge.path)
                  THEN [merge EXCEPT !.step = "write"] ELSE NoMerge
      /\ UNCHANGED <<segs, active, removed, objects, up, seq, batch, unflushed, flusher,
                     collector, acked, dropped>>
  BY DEF IntendOutput, logVars
<1>2. MergeFits(up, merge, cat, objects) /\ CatShape(cat)
  BY DEF IInv
<1>3. merge.recs # {} /\ ~Registered(cat, merge.path)
  <2>1. merge.recs # {}
    BY <1>1, <1>2 DEF MergeFits
  <2> QED
    BY <1>1, <2>1, MergeNameFits DEF IInv
<1>4. CASE ~ok
  <2>1. cat' = cat /\ merge' = NoMerge
    BY <1>1, <1>4
  <2>2. MergeFits(up, merge', cat, objects)
    BY <2>1 DEF MergeFits, NoMerge
  <2> QED
    BY <1>1, <2>1, <2>2 DEF IInv
<1>5. CASE ok
  <2>1. /\ CatShape(cat') /\ cat'.rows = cat.rows /\ cat'.nextId = cat.nextId
        /\ cat'.maxSeq = cat.maxSeq
        /\ DOMAIN cat.pending \subseteq DOMAIN cat'.pending
        /\ \A p \in DOMAIN cat.pending : ~cat.pending[p] => ~cat'.pending[p]
        /\ merge.path \in DOMAIN cat'.pending /\ ~cat'.pending[merge.path]
    <3> DEFINE P == {merge.path}
    <3>1. cat' = Intend(cat, P)
      BY <1>1, <1>5
    <3>2. \A p \in P : p = merge.path
      OBVIOUS
    <3>3. merge.path \in P
      OBVIOUS
    <3> HIDE DEF P
    <3>4. /\ CatShape(cat') /\ cat'.rows = cat.rows /\ cat'.nextId = cat.nextId
          /\ cat'.maxSeq = cat.maxSeq
          /\ DOMAIN cat.pending \subseteq DOMAIN cat'.pending
          /\ \A p \in DOMAIN cat.pending : ~cat.pending[p] => ~cat'.pending[p]
          /\ \A p \in P : ~Registered(cat, p) =>
               p \in DOMAIN cat'.pending /\ ~cat'.pending[p]
      BY <1>2, <3>1, IntendIs
    <3> QED
      BY <1>3, <3>3, <3>4
  <2>2. /\ RowsFit(cat') /\ DroppedFits(cat', dropped')
        /\ ReplayFits(cat', dropped', Kept(segs, removed)')
        /\ SeqsDiffer(cat', Kept(segs, removed)')
        /\ QueueFits(Kept(segs, removed)')
        /\ AckFits(acked', cat', dropped', segs')
    BY <1>1, <2>1, PendingInv
  <2>3. /\ PersistFits(flusher, cat', objects) /\ MergeFits(up, merge, cat', objects)
        /\ CollectFits(up, collector, cat', objects, segs, seq)
    <3>1. PersistFits(flusher, cat, objects) /\ CollectFits(up, collector, cat, objects, segs, seq)
      BY DEF IInv
    <3>2. \A p \in DOMAIN cat.pending : ~cat.pending[p] => p \in DOMAIN cat'.pending /\ ~cat'.pending[p]
      BY <2>1
    <3> QED
      BY <1>2, <2>1, <3>1, <3>2, PendingFits
  <2>4. MergeFits(up, merge', cat', objects)
    <3>1. merge' = [merge EXCEPT !.step = "write"]
      BY <1>1, <1>3, <1>5
    <3>2. merge = [step |-> merge.step, ids |-> merge.ids, recs |-> merge.recs, path |-> merge.path]
      BY <1>2 DEF MergeFits
    <3>3. /\ merge'.step = "write" /\ merge'.ids = merge.ids /\ merge'.recs = merge.recs
          /\ merge'.path = merge.path
          /\ merge' = [step |-> merge'.step, ids |-> merge'.ids, recs |-> merge'.recs,
                       path |-> merge'.path]
      BY <3>1, <3>2
    <3>4. /\ merge.step # "idle" /\ merge.recs # {} /\ up = "serving"
          /\ merge.ids \subseteq Live(cat') /\ merge.ids # {}
          /\ merge.recs \subseteq UNION {cat'.rows[id].recs : id \in merge.ids}
      BY <1>1, <1>3, <2>3 DEF MergeFits
    <3>5. \E lv \in 0 .. 2, first \in merge.recs :
            /\ \A id \in merge.ids : /\ cat'.rows[id].level = lv
                                      /\ cat'.rows[id].path.stream = first.stream
            /\ IF lv = 2 THEN \E id \in merge.ids : merge.ids = {id} /\ merge.path = Path(2, first, id)
               ELSE merge.path = Path(lv + 1, first, 0)
      BY <2>3, <3>4 DEF MergeFits
    <3> QED
      BY <2>1, <3>3, <3>4, <3>5 DEF MergeFits
  <2>5. \A p : Registered(cat', p) <=> Registered(cat, p)
    BY <2>1, SameRows
  <2>6. ObjectsFit(cat', objects)
    BY <2>1, <2>5 DEF IInv, ObjectsFit
  <2>7. SeqFits(up, seq, segs, removed, cat.maxSeq, flusher)'
    BY <1>1, <2>1 DEF IInv, SeqFits
  <2>8. BatchFits(up, active, batch, segs, cat.maxSeq)' /\ LogFits(segs, active, removed)'
    BY <1>1, <2>1 DEF IInv, BatchFits
  <2>9. FlushFits(up, flusher, unflushed, segs, active)'
    BY <1>1 DEF IInv
  <2> QED
    BY <1>1, <2>1, <2>2, <2>3, <2>4, <2>6, <2>7, <2>8, <2>9 DEF IInv
<1> QED
  BY <1>4, <1>5

\* It is written under that name.
LEMMA WriteOutputInv ==
  ASSUME IInv, NEW ok \in BOOLEAN, WriteOutput(ok), UNCHANGED <<logVars, up, seq, batch,
         unflushed, flusher, collector, acked>>
  PROVE  IInv'
<1> DEFINE path == merge.path
           put == With(objects, path, merge.recs)
<1>1. /\ merge.step = "write"
      /\ objects' \in IF ok THEN {put} ELSE {put, objects}
      /\ merge' = IF ok THEN [merge EXCEPT !.step = "publish"] ELSE NoMerge
      /\ UNCHANGED <<segs, active, removed, cat, up, seq, batch, unflushed, flusher,
                     collector, acked, dropped>>
  BY DEF WriteOutput, logVars
<1>2. MergeFits(up, merge, cat, objects) /\ ObjectsFit(cat, objects)
      /\ CollectFits(up, collector, cat, objects, segs, seq) /\ PersistFits(flusher, cat, objects)
  BY DEF IInv
<1>3. /\ merge.recs # {} /\ path \in DOMAIN cat.pending /\ ~cat.pending[path]
      /\ merge.ids \subseteq Live(cat)
      /\ merge.recs \subseteq UNION {cat.rows[id].recs : id \in merge.ids}
      /\ merge = [step |-> merge.step, ids |-> merge.ids, recs |-> merge.recs, path |-> merge.path]
  BY <1>1, <1>2 DEF MergeFits
<1>4. ~Registered(cat, path) /\ path.level \in 1 .. 2
  BY <1>1, <1>3, MergeNameFits DEF IInv
<1>5. merge.recs \in SUBSET Record
  <2>1. \A id \in merge.ids : cat.rows[id].recs \subseteq Record
    BY <1>3 DEF IInv, RowsFit, RowFits, Live
  <2> QED
    BY <1>3, <2>1
<1> HIDE DEF path, put
<1>6. /\ ObjectsFit(cat, put)
      /\ DOMAIN put = DOMAIN objects \cup {path} /\ put[path] = merge.recs
      /\ \A p \in DOMAIN objects \ {path} : put[p] = objects[p]
      /\ \A u, k, g, n : CollectFits(u, k, cat, objects, g, n) => CollectFits(u, k, cat, put, g, n)
  <2>1. put = With(objects, path, merge.recs)
    BY DEF put
  <2> QED
    BY <1>2, <1>3, <1>4, <1>5, <2>1, PutFits
<1>7. PersistFits(flusher, cat, put)
  <2>1. ASSUME flusher.step = "register" PROVE Head(flusher.todo) # path
    <3>1. /\ ToDo(flusher, cat, objects) /\ flusher.todo # <<>>
      BY <1>2, <2>1 DEF PersistFits, ToDo
    <3>2. Head(flusher.todo) \in Names(flusher.recs)
      BY <3>1, TodoTail
    <3>3. flusher.recs \in Seq(Record)
      BY <2>1 DEF IInv, FlushFits, Busy, LogFits, DirFits, Segment
    <3>4. Head(flusher.todo).level = 0
      BY <3>2, <3>3, NameIs
    <3> QED
      BY <1>4, <3>4
  <2> QED
    BY <1>2, <1>6, <2>1 DEF PersistFits, ToDo
<1>8. /\ ObjectsFit(cat, objects') /\ PersistFits(flusher, cat, objects')
      /\ CollectFits(up, collector, cat, objects', segs, seq)
  <2>1. objects' = put \/ objects' = objects
    BY <1>1
  <2> QED
    BY <1>2, <1>6, <1>7, <2>1
<1>9. MergeFits(up, merge', cat, objects')
  <2>1. CASE ~ok
    BY <1>1, <2>1 DEF MergeFits, NoMerge
  <2>2. CASE ok
    <3>1. /\ merge'.step = "publish" /\ merge'.ids = merge.ids /\ merge'.recs = merge.recs
          /\ merge'.path = path
          /\ merge' = [step |-> merge'.step, ids |-> merge'.ids, recs |-> merge'.recs,
                       path |-> merge'.path]
      BY <1>1, <1>3, <2>2 DEF path
    <3>2. path \in DOMAIN objects' /\ objects'[path] = merge.recs
      BY <1>1, <1>6, <2>2
    <3>3. path = merge.path
      BY DEF path
    <3> QED
      BY <1>1, <1>2, <1>3, <3>1, <3>2, <3>3 DEF MergeFits
  <2> QED
    BY <2>1, <2>2
<1> QED
  BY <1>1, <1>8, <1>9 DEF IInv

\* A commit that registers the output and retires the inputs, or neither.
LEMMA PublishInv ==
  ASSUME IInv, NEW ok \in BOOLEAN, Publish(ok), UNCHANGED <<logVars, up, seq, batch,
         unflushed, flusher, collector, acked>>
  PROVE  IInv'
<1> DEFINE q == Kept(segs, removed)
           path == merge.path
           recs == merge.recs
           ids == merge.ids
           may == ok /\ (recs # {} => ~Registered(cat, path))
<1>1. /\ merge.step = "publish" /\ merge' = NoMerge
      /\ cat' = IF may THEN (IF recs = {} THEN Retire(cat, ids)
                             ELSE Replace(cat, path, recs, ids)) ELSE cat
      /\ dropped' = IF may THEN dropped \cup (InputsOf(cat, ids) \ recs) ELSE dropped
      /\ UNCHANGED <<segs, active, removed, objects, up, seq, batch, unflushed, flusher,
                     collector, acked>>
  <2> DEFINE lost == (UNION {cat.rows[id].recs : id \in ids}) \ recs
             done == IF recs = {} THEN Tombstone(cat, ids) ELSE Replace(cat, path, recs, ids)
             can == ok /\ (recs # {} => CanReplace(cat, path))
  <2>1. /\ merge.step = "publish" /\ merge' = NoMerge
        /\ cat' = IF can THEN done ELSE cat
        /\ dropped' = IF can THEN dropped \cup lost ELSE dropped
        /\ objects' = objects
    BY DEF Publish
  <2>2. lost = InputsOf(cat, ids) \ recs
    BY DEF InputsOf
  <2>3. done = IF recs = {} THEN Retire(cat, ids) ELSE Replace(cat, path, recs, ids)
    BY DEF Tombstone
  <2>4. can <=> may
    BY DEF CanReplace
  <2> HIDE DEF lost, done, can, may, path, recs, ids
  <2> QED
    BY <2>1, <2>2, <2>3, <2>4 DEF logVars
<1>2. /\ MergeFits(up, merge, cat, objects) /\ ObjectsFit(cat, objects)
      /\ CollectFits(up, collector, cat, objects, segs, seq) /\ PersistFits(flusher, cat, objects)
      /\ CatShape(cat) /\ RowsFit(cat) /\ DroppedFits(cat, dropped) /\ QueueFits(q)
      /\ ReplayFits(cat, dropped, q) /\ SeqsDiffer(cat, q)
      /\ AckFits(acked, cat, dropped, segs)
  BY DEF IInv
<1>3. Kept(segs, removed)' = q
  BY <1>1
<1> HIDE DEF q
<1>4. \A c, o : MergeFits(up, merge', c, o)
  BY <1>1 DEF MergeFits, NoMerge
<1>5. /\ ids \subseteq Live(cat) /\ recs \subseteq InputsOf(cat, ids)
      /\ recs # {} => path \in DOMAIN objects /\ objects[path] = recs
  BY <1>1, <1>2 DEF MergeFits, InputsOf
<1>6. CASE ~may
  BY <1>1, <1>4, <1>6 DEF IInv
<1>7. ASSUME may, recs = {}
      PROVE  /\ CatShape(cat') /\ RowsFit(cat') /\ DroppedFits(cat', dropped')
             /\ ReplayFits(cat', dropped', q) /\ SeqsDiffer(cat', q)
             /\ Filed(cat', dropped') = Filed(cat, dropped)
             /\ cat'.maxSeq = cat.maxSeq
             /\ ObjectsFit(cat', objects) /\ PersistFits(flusher, cat', objects)
             /\ CollectFits(up, collector, cat', objects, segs, seq)
  <2>1. cat' = Retire(cat, ids)
    BY <1>1, <1>7
  <2>2. dropped' = dropped \cup InputsOf(cat, ids)
    BY <1>1, <1>7
  <2> HIDE DEF ids, may, recs
  <2>3. /\ CatShape(cat') /\ RowsFit(cat') /\ DroppedFits(cat', dropped')
        /\ ReplayFits(cat', dropped', q) /\ SeqsDiffer(cat', q)
        /\ DOMAIN cat'.rows = DOMAIN cat.rows /\ Live(cat') = Live(cat) \ ids
        /\ \A id \in DOMAIN cat.rows : /\ cat'.rows[id].path = cat.rows[id].path
                                       /\ cat'.rows[id].level = cat.rows[id].level
                                       /\ cat'.rows[id].recs = cat.rows[id].recs
                                       /\ cat'.rows[id].aged = cat.rows[id].aged
        /\ Collectable(cat') = Collectable(cat)
        /\ cat'.pending = cat.pending /\ cat'.maxSeq = cat.maxSeq
        /\ \A p : Registered(cat', p) <=> Registered(cat, p)
        /\ Filed(cat', dropped') = Filed(cat, dropped)
    BY <1>2, <1>5, <2>1, <2>2, TombstoneFits
  <2>4. ObjectsFit(cat', objects)
    BY <1>2, <2>3 DEF ObjectsFit
  <2>5. PersistFits(flusher, cat', objects)
    BY <1>2, <2>3 DEF PersistFits, ToDo
  <2>6. CollectFits(up, collector, cat', objects, segs, seq)
    <3>1. \A i \in Collectable(cat) : i \in DOMAIN cat.rows
      BY DEF Collectable
    <3> QED
      BY <1>2, <2>3, <3>1, CollectAlike
  <2> QED
    BY <2>3, <2>4, <2>5, <2>6
<1>8. ASSUME may, recs # {}
      PROVE  /\ CatShape(cat') /\ RowsFit(cat') /\ DroppedFits(cat', dropped')
             /\ ReplayFits(cat', dropped', q) /\ SeqsDiffer(cat', q)
             /\ Filed(cat', dropped') = Filed(cat, dropped)
             /\ cat'.maxSeq = cat.maxSeq
             /\ ObjectsFit(cat', objects) /\ PersistFits(flusher, cat', objects)
             /\ CollectFits(up, collector, cat', objects, segs, seq)
  <2>1. /\ cat' = Replace(cat, path, recs, ids)
        /\ dropped' = dropped \cup (InputsOf(cat, ids) \ recs)
        /\ ~Registered(cat, path)
    BY <1>1, <1>8
  <2>2. /\ path.level \in 1 .. 2
        /\ path.level # 2 => path.of = 0
        /\ path.of # 0 => path.of \in ids
        /\ \E first \in recs : path = Path(path.level, first, path.of)
        /\ \A id \in ids : /\ cat.rows[id].level <= path.level
                           /\ cat.rows[id].path.stream = path.stream
    <3>1. merge.step # "idle" /\ merge.recs # {}
      BY <1>1, <1>8
    <3> QED
      BY <1>2, <3>1, MergeNameFits
  <2>3. recs # {} /\ recs \subseteq InputsOf(cat, ids) /\ ids \in SUBSET Live(cat)
    BY <1>5, <1>8
  <2>4. path \in DOMAIN objects /\ objects[path] = recs
    BY <1>5, <1>8
  <2> HIDE DEF ids, may, recs, path
  <2>5. /\ CatShape(cat') /\ RowsFit(cat') /\ DroppedFits(cat', dropped')
        /\ ReplayFits(cat', dropped', q) /\ SeqsDiffer(cat', q)
        /\ cat.nextId \notin DOMAIN cat.rows
        /\ DOMAIN cat'.rows = DOMAIN cat.rows \cup {cat.nextId}
        /\ Live(cat') = (Live(cat) \ ids) \cup {cat.nextId}
        /\ \A id \in DOMAIN cat.rows : /\ cat'.rows[id].path = cat.rows[id].path
                                       /\ cat'.rows[id].level = cat.rows[id].level
                                       /\ cat'.rows[id].recs = cat.rows[id].recs
                                       /\ cat'.rows[id].aged = cat.rows[id].aged
        /\ cat'.rows[cat.nextId].path = path /\ cat'.rows[cat.nextId].recs = recs
        /\ ~cat'.rows[cat.nextId].aged
        /\ Collectable(cat') = Collectable(cat)
        /\ DOMAIN cat'.pending = DOMAIN cat.pending \ {path}
        /\ \A p \in DOMAIN cat'.pending : cat'.pending[p] = cat.pending[p]
        /\ cat'.maxSeq = cat.maxSeq
        /\ \A p : Registered(cat', p) <=> Registered(cat, p) \/ p = path
        /\ Filed(cat', dropped') = Filed(cat, dropped)
    <3>1. Replaceable(cat, dropped, q, ids, recs, path)
      BY <1>2, <2>1, <2>2, <2>3 DEF Replaceable
    <3> QED
      BY <2>1, <3>1, ReplaceFits
  <2>6. ObjectsFit(cat', objects)
    <3>1. ASSUME NEW p \in DOMAIN objects PROVE Registered(cat', p) \/ p \in DOMAIN cat'.pending
      BY <1>2, <2>5 DEF ObjectsFit
    <3>2. ASSUME NEW id \in DOMAIN cat'.rows, ~cat'.rows[id].aged
          PROVE  /\ cat'.rows[id].path \in DOMAIN objects
                 /\ objects[cat'.rows[id].path] = cat'.rows[id].recs
      BY <1>2, <2>4, <2>5, <3>2 DEF ObjectsFit
    <3> QED
      BY <1>2, <3>1, <3>2 DEF ObjectsFit
  <2>7. PersistFits(flusher, cat', objects)
    <3>1. ASSUME flusher.step \in {"write", "register"}, NEW p \in ToSet(flusher.todo)
          PROVE  p # path
      <4>1. flusher.todo \in Seq(Names(flusher.recs))
        BY <1>2, <3>1 DEF PersistFits, ToDo
      <4>2. p \in Names(flusher.recs)
        BY <3>1, <4>1, ToSetIs
      <4>3. flusher.recs \in Seq(Record)
        BY <3>1 DEF IInv, FlushFits, Busy, LogFits, DirFits, Segment
      <4>4. p.level = 0
        BY <4>2, <4>3, NameIs
      <4> QED
        BY <2>2, <4>4
    <3>2. ASSUME flusher.step \in {"write", "register"} PROVE ToDo(flusher, cat', objects)
      <4>1. ToDo(flusher, cat, objects)
        BY <1>2, <3>2 DEF PersistFits
      <4>2. \A p \in ToSet(flusher.todo) :
              ~Registered(cat', p) /\ p \in DOMAIN cat'.pending /\ ~cat'.pending[p]
        BY <2>5, <3>1, <3>2, <4>1 DEF ToDo
      <4> QED
        BY <2>5, <4>1, <4>2 DEF ToDo
    <3> QED
      BY <1>2, <2>5, <3>2 DEF PersistFits
  <2>8. CollectFits(up, collector, cat', objects, segs, seq)
    <3>1. \A i \in Collectable(cat) : i \in DOMAIN cat.rows
      BY DEF Collectable
    <3> QED
      BY <1>2, <2>5, <3>1, CollectAlike
  <2> QED
    BY <2>5, <2>6, <2>7, <2>8
<1> HIDE DEF path, recs, ids
<1>9. CASE may
  <2>1. /\ CatShape(cat') /\ RowsFit(cat') /\ DroppedFits(cat', dropped')
        /\ ReplayFits(cat', dropped', q) /\ SeqsDiffer(cat', q)
        /\ Filed(cat', dropped') = Filed(cat, dropped)
        /\ cat'.maxSeq = cat.maxSeq
        /\ ObjectsFit(cat', objects) /\ PersistFits(flusher, cat', objects)
        /\ CollectFits(up, collector, cat', objects, segs, seq)
    BY <1>7, <1>8, <1>9
  <2>2. AckFits(acked, cat', dropped', segs)
    BY <1>2, <2>1 DEF AckFits
  <2>3. /\ LogFits(segs, active, removed) /\ BatchFits(up, active, batch, segs, cat'.maxSeq)
        /\ SeqFits(up, seq, segs, removed, cat'.maxSeq, flusher)
        /\ FlushFits(up, flusher, unflushed, segs, active)
    BY <2>1 DEF IInv
  <2> HIDE DEF may
  <2> QED
    BY <1>1, <1>2, <1>3, <1>4, <2>1, <2>2, <2>3 DEF IInv
<1> QED
  BY <1>6, <1>9

\* A declaration that ages belongs to no write in progress.
LEMMA PendingAgesInv ==
  ASSUME IInv, NEW path, PendingAges(path)
  PROVE  IInv'
<1>1. /\ path \in DOMAIN cat.pending /\ path \notin ToSet(flusher.todo)
      /\ merge.step \in {"write", "publish"} => path # merge.path
      /\ cat' = [cat EXCEPT !.pending[path] = TRUE]
      /\ UNCHANGED <<segs, active, removed, objects, up, seq, batch, unflushed, flusher,
                     collector, acked, merge, dropped>>
  BY DEF PendingAges, FlushPaths, logVars, storeVars
<1> DEFINE pend == [cat.pending EXCEPT ![path] = TRUE]
<1>2. cat' = [cat EXCEPT !.pending = pend]
  BY <1>1
<1>3. /\ DOMAIN pend = DOMAIN cat.pending /\ pend[path] = TRUE
      /\ \A p \in DOMAIN cat.pending \ {path} : pend[p] = cat.pending[p]
  BY <1>1
<1> HIDE DEF pend
<1>4. CatShape(cat)
  BY DEF IInv
<1>5. /\ cat'.rows = cat.rows /\ cat'.nextId = cat.nextId /\ cat'.maxSeq = cat.maxSeq
      /\ cat'.pending = pend
      /\ cat' = [rows |-> cat'.rows, nextId |-> cat'.nextId, pending |-> cat'.pending,
                 rollup |-> cat'.rollup, maxSeq |-> cat'.maxSeq]
  BY <1>2, <1>4 DEF CatShape
<1>6. \A p \in DOMAIN pend : pend[p] \in BOOLEAN
  BY <1>3, <1>4 DEF CatShape
<1>7. CatShape(cat')
  BY <1>4, <1>5, <1>6 DEF CatShape
<1>8. /\ RowsFit(cat') /\ DroppedFits(cat', dropped')
      /\ ReplayFits(cat', dropped', Kept(segs, removed)')
      /\ SeqsDiffer(cat', Kept(segs, removed)')
      /\ QueueFits(Kept(segs, removed)')
      /\ AckFits(acked', cat', dropped', segs')
  BY <1>1, <1>5, <1>7, PendingInv
<1>9. /\ PersistFits(flusher, cat', objects) /\ MergeFits(up, merge, cat', objects)
      /\ CollectFits(up, collector, cat', objects, segs, seq)
  <2>1. /\ PersistFits(flusher, cat, objects) /\ MergeFits(up, merge, cat, objects)
        /\ CollectFits(up, collector, cat, objects, segs, seq)
    BY DEF IInv
  <2>2. \A p \in DOMAIN cat.pending :
          ~cat.pending[p] /\ (\/ p \in ToSet(flusher.todo)
                              \/ merge.step \in {"write", "publish"} /\ p = merge.path)
            => p \in DOMAIN cat'.pending /\ ~cat'.pending[p]
    BY <1>1, <1>3, <1>5
  <2> QED
    BY <1>5, <1>7, <2>1, <2>2, PendingFits
<1>10. \A p : Registered(cat', p) <=> Registered(cat, p)
  BY <1>5, SameRows
<1>11. ObjectsFit(cat', objects)
  BY <1>3, <1>5, <1>10 DEF IInv, ObjectsFit
<1>12. /\ LogFits(segs, active, removed)'
       /\ BatchFits(up, active, batch, segs, cat.maxSeq)'
       /\ SeqFits(up, seq, segs, removed, cat.maxSeq, flusher)'
       /\ FlushFits(up, flusher, unflushed, segs, active)'
  BY <1>1, <1>5 DEF IInv
<1> QED
  BY <1>1, <1>7, <1>8, <1>9, <1>11, <1>12 DEF IInv

\* What a stop leaves is what was there, less the ends of some segments.
LEMMA StopInv ==
  ASSUME IInv, Stop
  PROVE  IInv'
<1> DEFINE q == Kept(segs, removed)'
<1>1. /\ up' = "down" /\ seq' = 0 /\ batch' = <<>> /\ unflushed' = <<>>
      /\ flusher' = NoFlush /\ collector' = NoCollection /\ merge' = NoMerge
      /\ UNCHANGED <<cat, objects, acked, dropped>>
  BY DEF Stop, StoreStop
<1>2. /\ LogFits(segs, active, removed)' /\ Within(q, Kept(segs, removed))
      /\ active' = 0 /\ removed' \in {removed, <<>>} /\ StillHard(segs, segs')
  <2>1. LogKill \/ LogPowerLoss
    BY DEF Stop, StoreStop
  <2>2. LogFits(segs, active, removed) /\ QueueFits(Kept(segs, removed))
    BY DEF IInv
  <2> QED
    BY <2>1, <2>2, KillIs, PowerLossIs
<1>3. QueueFits(q) /\ ReplayFits(cat, dropped, q) /\ SeqsDiffer(cat, q)
  BY <1>2, QueueWithin, ReplayWithin, DifferWithin DEF IInv
<1> HIDE DEF q
<1>4. BatchFits(up, active, batch, segs, cat.maxSeq)'
  BY <1>1, <1>2 DEF BatchFits
<1>5. SeqFits(up, seq, segs, removed, cat.maxSeq, flusher)'
  <2>1. \A s \in DOMAIN removed' : \A r \in ToSet(removed'[s].recs) : r.seq <= cat.maxSeq
    <3>1. DOMAIN <<>> = {}
      OBVIOUS
    <3>2. \A s \in DOMAIN removed : \A r \in ToSet(removed[s].recs) : r.seq <= cat.maxSeq
      BY DEF IInv, SeqFits
    <3> QED
      BY <1>2, <3>1, <3>2
  <2> QED
    BY <1>1, <2>1 DEF SeqFits
<1>6. FlushFits(up, flusher, unflushed, segs, active)'
  <2>1. /\ flusher'.step = "idle" /\ flusher'.left = <<>> /\ flusher'.kept = <<>>
        /\ flusher'.recs = <<>> /\ flusher'.seg = 0
        /\ flusher'.failed = FALSE /\ flusher'.live = FALSE
        /\ flusher' = [step |-> flusher'.step, left |-> flusher'.left, kept |-> flusher'.kept,
                       seg |-> flusher'.seg, recs |-> flusher'.recs, todo |-> flusher'.todo,
                       failed |-> flusher'.failed, live |-> flusher'.live]
    BY <1>1 DEF NoFlush
  <2>2. <<>> \in Seq(Nat)
    BY EmptySeq
  <2> QED
    BY <1>1, <2>1, <2>2 DEF FlushFits, Busy
<1>7. PersistFits(flusher, cat, objects)'
  BY <1>1 DEF PersistFits, NoFlush
<1>8. CollectFits(up, collector, cat, objects, segs, seq)'
  BY <1>1 DEF CollectFits, NoCollection
<1>9. MergeFits(up, merge, cat, objects)'
  BY <1>1 DEF MergeFits, NoMerge
<1>10. AckFits(acked, cat, dropped, segs)'
  BY <1>1, <1>2 DEF IInv, AckFits, StillHard
<1> QED
  BY <1>1, <1>2, <1>3, <1>4, <1>5, <1>6, <1>7, <1>8, <1>9, <1>10 DEF IInv, q

------------------------------------------------------------------------------
(* Every step keeps the invariant. *)

\* Together: the steps of the flusher,
LEMMA FlushStepInv ==
  ASSUME ~UnreadableSegs, IInv, FlushStep, UNCHANGED <<merge, dropped>>
  PROVE  IInv'
<1>1. CASE ReadSegment
  BY <1>1, ReadSegmentInv
<1>2. CASE Recovered
  BY <1>2, RecoveredInv
<1>3. CASE Seal
  BY <1>3, SealInv
<1>4. CASE Persisted
  BY <1>4, PersistedInv
<1>5. ASSUME NEW ok \in BOOLEAN, IntendObjects(ok) PROVE IInv'
  BY <1>5, IntendObjectsInv
<1>6. ASSUME NEW ok \in BOOLEAN, WriteObject(ok) PROVE IInv'
  BY <1>6, WriteObjectInv
<1>7. ASSUME NEW ok \in BOOLEAN, RegisterObject(ok) PROVE IInv'
  BY <1>7, RegisterObjectInv
<1>8. ASSUME NEW ok \in BOOLEAN, RetireSegment(ok) PROVE IInv'
  BY <1>8, RetireSegmentInv
<1> QED
  BY <1>1, <1>2, <1>3, <1>4, <1>5, <1>6, <1>7, <1>8 DEF FlushStep

\* of the collector and the sweep,
LEMMA CollectStepInv ==
  ASSUME IInv, CollectStep, UNCHANGED <<merge, dropped>>
  PROVE  IInv'
<1>1. CASE EndCollect
  BY <1>1, EndCollectInv
<1>2. ASSUME NEW ok \in BOOLEAN, ReadFloor(ok) PROVE IInv'
  BY <1>2, ReadFloorInv
<1>3. ASSUME NEW ok \in BOOLEAN, ForgetRow(ok) PROVE IInv'
  BY <1>3, ForgetRowInv
<1>4. ASSUME NEW ok \in BOOLEAN, NEW file \in collector.files, CollectObject(file, ok)
      PROVE  IInv'
  BY <1>4, CollectObjectInv
<1>5. ASSUME NEW ok \in BOOLEAN, NEW file \in collector.files, SweepPath(file, ok)
      PROVE  IInv'
  BY <1>5, SweepPathInv
<1> QED
  BY <1>1, <1>2, <1>3, <1>4, <1>5 DEF CollectStep

\* of the compactor,
LEMMA CompactInv ==
  ASSUME IInv, CompactStarts \/ CompactRuns
  PROVE  IInv'
<1>1. ASSUME up = "serving", StartMerge, UNCHANGED <<logVars, storeVars>> PROVE IInv'
  BY <1>1, StartMergeInv
<1>2. ASSUME up = "serving", Expire, UNCHANGED <<logVars, storeVars>> PROVE IInv'
  BY <1>2, ExpireInv
<1>3. ASSUME NEW ok \in BOOLEAN, IntendOutput(ok) \/ WriteOutput(ok) \/ Publish(ok),
             UNCHANGED <<logVars, up, seq, batch, unflushed, flusher, collector, acked>>
      PROVE  IInv'
  BY <1>3, IntendOutputInv, WriteOutputInv, PublishInv
<1>4. CASE CompactStarts
  BY <1>1, <1>2, <1>4 DEF CompactStarts
<1>5. CASE CompactRuns
  <2>1. PICK ok \in BOOLEAN : IntendOutput(ok) \/ WriteOutput(ok) \/ Publish(ok)
    BY <1>5 DEF CompactRuns
  <2>2. UNCHANGED <<logVars, up, seq, batch, unflushed, flusher, collector, acked>>
    BY <1>5 DEF CompactRuns
  <2> QED
    BY <1>3, <2>1, <2>2
<1> QED
  BY <1>4, <1>5

\* of the store,
LEMMA StoreNextInv ==
  ASSUME ~UnreadableSegs, IInv, StoreNext, UNCHANGED <<merge, dropped>>
  PROVE  IInv'
<1>1. CASE Boot
  BY <1>1, BootInv
<1>2. CASE SyncAndAck
  BY <1>2, SyncAndAckInv
<1>3. CASE StartFlush
  BY <1>3, StartFlushInv
<1>4. CASE StartCollect
  BY <1>4, StartCollectInv
<1>5. CASE StartSweep
  BY <1>5, StartSweepInv
<1>6. ASSUME NEW r \in Record, AppendRecord(r) PROVE IInv'
  BY <1>6, AppendRecordInv
<1>7. CASE FlushStep
  BY <1>7, FlushStepInv
<1>8. CASE CollectStep
  BY <1>8, CollectStepInv
<1>9. ASSUME NEW id \in DOMAIN cat.rows, TombstoneAges(id) PROVE IInv'
  BY <1>9, TombstoneAgesInv
<1> QED
  BY <1>1, <1>2, <1>3, <1>4, <1>5, <1>6, <1>7, <1>8, <1>9 DEF StoreNext

\* and of the whole engine.
LEMMA StepInv ==
  ASSUME ~UnreadableSegs, IInv, [Next]_vars
  PROVE  IInv'
<1>1. CASE StoreNext /\ UNCHANGED <<merge, dropped>>
  BY <1>1, StoreNextInv
<1>2. CASE CompactStarts \/ CompactRuns
  BY <1>2, CompactInv
<1>3. ASSUME NEW path \in DOMAIN cat.pending, PendingAges(path) PROVE IInv'
  BY <1>3, PendingAgesInv
<1>4. CASE Stop
  BY <1>4, StopInv
<1>5. CASE UNCHANGED vars
  BY <1>5 DEF vars, logVars, storeVars, IInv, Kept, RecsOf, Joined
<1> QED
  BY <1>1, <1>2, <1>3, <1>4, <1>5 DEF Next

------------------------------------------------------------------------------
(* The counters. *)

\* The files of some, that are of one stream.
OneStream(c, ids, s) == {id \in ids : c.rows[id].path.stream = s}

Counts(c) ==
  /\ c.rollup \in [Streams -> Nat]
  /\ \A s \in Streams : c.rollup[s] = RowsIn(c, Live(c), s)

\* There are finitely many files of finitely many records.
Countable(c) ==
  /\ CatShape(c)
  /\ IsFiniteSet(DOMAIN c.rows)
  /\ \A id \in DOMAIN c.rows : IsFiniteSet(c.rows[id].recs)

\* The rows of a catalogue that fits.
LEMMA RowsAreCountable ==
  ASSUME NEW c, CatShape(c), RowsFit(c)
  PROVE  Countable(c)
<1>1. \A id \in DOMAIN c.rows : id \in 1 .. c.nextId - 1 /\ IsFiniteSet(c.rows[id].recs)
  BY DEF RowsFit, RowFits
<1>2. IsFiniteSet(1 .. c.nextId - 1)
  BY FS_Interval DEF CatShape
<1>3. IsFiniteSet(DOMAIN c.rows)
  BY <1>1, <1>2, FS_Subset
<1> QED
  BY <1>1, <1>3 DEF Countable

LEMMA SizesAre ==
  ASSUME NEW c, Countable(c)
  PROVE  \A id \in DOMAIN c.rows : /\ Sizes(c)[id] = Cardinality(c.rows[id].recs)
                                   /\ Sizes(c)[id] \in Nat
<1>1. \A id \in DOMAIN c.rows : Sizes(c)[id] = Cardinality(c.rows[id].recs)
  BY DEF Sizes
<1>2. \A id \in DOMAIN c.rows : Cardinality(c.rows[id].recs) \in Nat
  BY FS_CardinalityType DEF Countable
<1> QED
  BY <1>1, <1>2

LEMMA RowsInIs ==
  ASSUME NEW c, Countable(c), NEW ids \in SUBSET DOMAIN c.rows, NEW s
  PROVE  /\ RowsIn(c, ids, s) = SumFunctionOnSet(Sizes(c), OneStream(c, ids, s))
         /\ RowsIn(c, ids, s) \in Nat
         /\ IsFiniteSet(OneStream(c, ids, s)) /\ OneStream(c, ids, s) \subseteq DOMAIN c.rows
<1>1. RowsIn(c, ids, s) = SumFunctionOnSet(Sizes(c), OneStream(c, ids, s))
  BY DEF RowsIn, OneStream
<1>2. OneStream(c, ids, s) \subseteq DOMAIN c.rows
  BY DEF OneStream
<1>3. IsFiniteSet(OneStream(c, ids, s))
  BY <1>2, FS_Subset DEF Countable
<1>4. \A id \in OneStream(c, ids, s) : Sizes(c)[id] \in Nat
  BY <1>2, SizesAre
<1> QED
  BY <1>1, <1>2, <1>3, <1>4, SumNat

\* The counters stay right if the live files are the same.
LEMMA CountsSame ==
  ASSUME NEW c, NEW e, Countable(c), Countable(e), Counts(c), e.rollup = c.rollup,
         Live(e) = Live(c),
         \A id \in Live(c) : /\ e.rows[id].path = c.rows[id].path
                             /\ e.rows[id].recs = c.rows[id].recs
  PROVE  Counts(e)
<1>1. Live(c) \subseteq DOMAIN c.rows /\ Live(e) \subseteq DOMAIN e.rows
  BY DEF Live
<1>2. ASSUME NEW s PROVE RowsIn(e, Live(e), s) = RowsIn(c, Live(c), s)
  <2> DEFINE S == OneStream(c, Live(c), s)
  <2>1. OneStream(e, Live(e), s) = S
    BY DEF OneStream
  <2>2. \A id \in S : Sizes(c)[id] = Sizes(e)[id]
    BY <1>1, SizesAre DEF OneStream
  <2>3. IsFiniteSet(S)
    BY <1>1, RowsInIs
  <2> HIDE DEF S
  <2>4. SumFunctionOnSet(Sizes(c), S) = SumFunctionOnSet(Sizes(e), S)
    BY <2>2, <2>3, SumSame
  <2>5. RowsIn(c, Live(c), s) = SumFunctionOnSet(Sizes(c), S)
    BY <1>1, RowsInIs DEF S
  <2>6. RowsIn(e, Live(e), s) = SumFunctionOnSet(Sizes(e), S)
    BY <1>1, <2>1, RowsInIs
  <2> QED
    BY <2>4, <2>5, <2>6
<1> QED
  BY <1>2 DEF Counts

\* A new file is counted.
LEMMA InsertCounts ==
  ASSUME NEW c, CatShape(c), RowsFit(c), Counts(c), NEW path, ~Registered(c, path),
         path.stream \in Streams,
         NEW recs \in SUBSET Record, recs # {}, IsFiniteSet(recs),
         NEW e, e = InsertFile(c, path, recs)
  PROVE  Counts(e) /\ Countable(e)
<1> DEFINE N == c.nextId
           n == Cardinality(recs)
<1>1. /\ CatShape(e) /\ N \notin DOMAIN c.rows
      /\ DOMAIN e.rows = DOMAIN c.rows \cup {N}
      /\ e.rows[N] = NewRow(path, recs)
      /\ \A id \in DOMAIN c.rows : e.rows[id] = c.rows[id]
  <2>1. \A id \in DOMAIN c.rows : id \in 1 .. c.nextId - 1
    BY DEF RowsFit, RowFits
  <2> QED
    BY <2>1, InsertIs
<1>2. Countable(c)
  BY RowsAreCountable
<1>3. e.rows[N].path = path /\ e.rows[N].recs = recs /\ e.rows[N].state = "live"
  BY <1>1 DEF NewRow
<1>4. Countable(e)
  <2>1. IsFiniteSet(DOMAIN e.rows)
    BY <1>1, <1>2, FS_AddElement DEF Countable
  <2>2. \A id \in DOMAIN e.rows : IsFiniteSet(e.rows[id].recs)
    BY <1>1, <1>2, <1>3 DEF Countable
  <2> QED
    BY <1>1, <2>1, <2>2 DEF Countable
<1>5. Live(e) = Live(c) \cup {N} /\ N \notin Live(c) /\ Live(c) \subseteq DOMAIN c.rows
  BY <1>1, <1>3 DEF Live
<1>6. n \in Nat
  BY FS_CardinalityType
<1>7. ASSUME NEW s \in Streams
      PROVE  RowsIn(e, Live(e), s) =
               IF s = path.stream THEN RowsIn(c, Live(c), s) + n ELSE RowsIn(c, Live(c), s)
  <2> DEFINE S == OneStream(c, Live(c), s)
             T == OneStream(e, Live(e), s)
  <2>1. T = IF s = path.stream THEN S \cup {N} ELSE S
    BY <1>1, <1>3, <1>5 DEF OneStream
  <2>2. /\ RowsIn(c, Live(c), s) = SumFunctionOnSet(Sizes(c), S)
        /\ IsFiniteSet(S) /\ S \subseteq DOMAIN c.rows
        /\ RowsIn(c, Live(c), s) \in Nat
    BY <1>2, <1>5, RowsInIs
  <2>3. /\ RowsIn(e, Live(e), s) = SumFunctionOnSet(Sizes(e), T)
        /\ IsFiniteSet(T) /\ T \subseteq DOMAIN e.rows
    <3>1. Live(e) \in SUBSET DOMAIN e.rows
      BY DEF Live
    <3> QED
      BY <1>4, <3>1, RowsInIs
  <2>4. N \notin S
    BY <1>1, <2>2
  <2> HIDE DEF S, T
  <2>5. \A id \in S : Sizes(c)[id] = Sizes(e)[id]
    BY <1>1, <1>2, <1>4, <2>2, SizesAre
  <2>6. SumFunctionOnSet(Sizes(c), S) = SumFunctionOnSet(Sizes(e), S)
    BY <2>2, <2>5, SumSame
  <2>7. CASE s = path.stream
    <3>1. T = S \cup {N} /\ N \in T /\ T \ {N} = S
      BY <2>1, <2>4, <2>7
    <3>2. \A id \in T : Sizes(e)[id] \in Int
      BY <1>4, <2>3, SizesAre
    <3>3. SumFunctionOnSet(Sizes(e), T) = Sizes(e)[N] + SumFunctionOnSet(Sizes(e), T \ {N})
      BY <2>3, <3>1, <3>2, SumAdd
    <3>4. Sizes(e)[N] = n
      BY <1>1, <1>3, <1>4, SizesAre
    <3> HIDE DEF n
    <3> QED
      BY <1>6, <2>2, <2>3, <2>6, <2>7, <3>1, <3>3, <3>4
  <2>8. CASE s # path.stream
    BY <2>1, <2>2, <2>3, <2>6, <2>8
  <2> QED
    BY <2>7, <2>8
<1>8. e.rollup = [c.rollup EXCEPT ![path.stream] = @ + n]
  BY RollupIs
<1> HIDE DEF n
<1>9. e.rollup \in [Streams -> Nat]
  BY <1>6, <1>8 DEF Counts
<1>10. \A s \in Streams : e.rollup[s] = RowsIn(e, Live(e), s)
  BY <1>7, <1>8 DEF Counts
<1> QED
  BY <1>4, <1>9, <1>10 DEF Counts

LEMMA RetireRollup ==
  ASSUME NEW c, CatShape(c), NEW ids
  PROVE  Retire(c, ids).rollup
           = [s \in Streams |-> Max({0, c.rollup[s] - RowsIn(c, ids \cap Live(c), s)})]
  BY DEF Retire, CatShape

\* A retired file is not counted any more.
LEMMA RetireCounts ==
  ASSUME NEW c, Countable(c), Counts(c), NEW ids,
         \A id \in DOMAIN c.rows :
           c.rows[id] = [path |-> c.rows[id].path, level |-> c.rows[id].level,
                         recs |-> c.rows[id].recs, state |-> c.rows[id].state,
                         aged |-> c.rows[id].aged],
         NEW e, e = Retire(c, ids)
  PROVE  Counts(e) /\ Countable(e)
<1> DEFINE out == ids \cap Live(c)
<1>1. /\ CatShape(e) /\ DOMAIN e.rows = DOMAIN c.rows
      /\ \A id \in DOMAIN c.rows :
           e.rows[id] = [path |-> c.rows[id].path, level |-> c.rows[id].level,
                         recs |-> c.rows[id].recs,
                         state |-> IF id \in ids \cap Live(c) THEN "tombstoned"
                                   ELSE c.rows[id].state,
                         aged |-> c.rows[id].aged]
  BY RetireIs DEF Countable
<1>2. \A id \in DOMAIN c.rows :
        /\ e.rows[id].path = c.rows[id].path /\ e.rows[id].recs = c.rows[id].recs
        /\ e.rows[id].state = IF id \in out THEN "tombstoned" ELSE c.rows[id].state
  <2> SUFFICES ASSUME NEW id \in DOMAIN c.rows
               PROVE  /\ e.rows[id].path = c.rows[id].path
                      /\ e.rows[id].recs = c.rows[id].recs
                      /\ e.rows[id].state = IF id \in out THEN "tombstoned"
                                            ELSE c.rows[id].state
    OBVIOUS
  <2> DEFINE st == IF id \in ids \cap Live(c) THEN "tombstoned" ELSE c.rows[id].state
             old == c.rows[id]
  <2>1. e.rows[id] = [path |-> old.path, level |-> old.level, recs |-> old.recs,
                      state |-> st, aged |-> old.aged]
    BY <1>1
  <2>2. st = IF id \in out THEN "tombstoned" ELSE old.state
    OBVIOUS
  <2> HIDE DEF st, old, out
  <2>3. e.rows[id].path = old.path /\ e.rows[id].recs = old.recs /\ e.rows[id].state = st
    BY <2>1
  <2> QED
    BY <2>2, <2>3 DEF old
<1>3. Countable(e)
  BY <1>1, <1>2 DEF Countable
<1>4. Live(c) \subseteq DOMAIN c.rows /\ out \subseteq Live(c) /\ Live(e) = Live(c) \ out
  BY <1>1, <1>2 DEF Live
<1> HIDE DEF out
<1>5. ASSUME NEW s \in Streams
      PROVE  /\ RowsIn(e, Live(e), s) \in Nat
             /\ RowsIn(e, Live(e), s) = Max({0, c.rollup[s] - RowsIn(c, out, s)})
  <2> DEFINE S == OneStream(c, Live(c), s)
             T == OneStream(c, out, s)
             all == SumFunctionOnSet(Sizes(c), S)
             less == SumFunctionOnSet(Sizes(c), T)
             rest == SumFunctionOnSet(Sizes(c), S \ T)
  <2>1. /\ RowsIn(c, Live(c), s) = all /\ IsFiniteSet(S) /\ S \subseteq DOMAIN c.rows
        /\ all \in Nat
    BY <1>4, RowsInIs
  <2>2. RowsIn(c, out, s) = less /\ less \in Nat
    BY <1>4, RowsInIs
  <2>3. T \in SUBSET S /\ OneStream(e, Live(e), s) = S \ T
    BY <1>2, <1>4 DEF OneStream
  <2>4. RowsIn(e, Live(e), s) = SumFunctionOnSet(Sizes(e), S \ T)
        /\ RowsIn(e, Live(e), s) \in Nat /\ IsFiniteSet(S \ T)
    <3>1. Live(e) \in SUBSET DOMAIN e.rows
      BY DEF Live
    <3> QED
      BY <1>3, <2>3, <3>1, RowsInIs
  <2> HIDE DEF S, T
  <2>5. \A id \in S \ T : Sizes(c)[id] = Sizes(e)[id]
    BY <1>1, <1>2, <1>3, <2>1, SizesAre
  <2>6. SumFunctionOnSet(Sizes(e), S \ T) = rest
    BY <2>4, <2>5, SumSame
  <2>7. all = less + rest
    <3>1. \A id \in S : Sizes(c)[id] \in Int
      BY <2>1, SizesAre
    <3> QED
      BY <2>1, <2>3, <3>1, SumSplit
  <2> HIDE DEF all, less, rest
  <2>8. c.rollup[s] = all
    BY <2>1 DEF Counts
  <2>9. all - less = rest /\ rest \in Nat
    BY <2>1, <2>2, <2>4, <2>6, <2>7
  <2>10. Max({0, rest}) = rest
    BY <2>9, MaxOfTwo
  <2> QED
    BY <2>2, <2>4, <2>6, <2>8, <2>9, <2>10
<1>6. e.rollup = [s \in Streams |-> Max({0, c.rollup[s] - RowsIn(c, out, s)})]
  <2>1. CatShape(c)
    BY DEF Countable
  <2>2. Retire(c, ids).rollup
          = [s \in Streams |-> Max({0, c.rollup[s] - RowsIn(c, ids \cap Live(c), s)})]
    BY <2>1, RetireRollup
  <2>3. ids \cap Live(c) = out
    BY DEF out
  <2> QED
    BY <2>2, <2>3
<1> QED
  BY <1>3, <1>5, <1>6 DEF Counts

\* Each transaction leaves the counters right: those that touch no row,
LEMMA SameRowsCount ==
  ASSUME NEW c, NEW e, CatShape(c), RowsFit(c), Counts(c), CatShape(e),
         e.rows = c.rows, e.rollup = c.rollup
  PROVE  Counts(e)
<1>1. Countable(c)
  BY RowsAreCountable
<1>2. Countable(e)
  BY <1>1 DEF Countable
<1>3. Live(e) = Live(c)
  BY DEF Live
<1> QED
  BY <1>1, <1>2, <1>3, CountsSame

LEMMA IntendCounts ==
  ASSUME NEW c, CatShape(c), RowsFit(c), Counts(c), NEW P
  PROVE  Counts(Intend(c, P))
<1>1. /\ CatShape(Intend(c, P)) /\ Intend(c, P).rows = c.rows
      /\ Intend(c, P).rollup = c.rollup
  BY IntendIs
<1> QED
  BY <1>1, SameRowsCount

LEMMA DiscardCounts ==
  ASSUME NEW c, CatShape(c), RowsFit(c), Counts(c), NEW path
  PROVE  Counts(Discard(c, path))
<1>1. /\ CatShape(Discard(c, path)) /\ Discard(c, path).rows = c.rows
      /\ Discard(c, path).rollup = c.rollup
  BY DiscardIs
<1> QED
  BY <1>1, SameRowsCount

\* A row that is forgotten was not counted.
LEMMA ForgetCounts ==
  ASSUME NEW c, CatShape(c), RowsFit(c), Counts(c), NEW id \in Collectable(c),
         NEW e, e = Forget(c, id)
  PROVE  Counts(e)
<1>1. /\ CatShape(e) /\ DOMAIN e.rows = DOMAIN c.rows \ {id}
      /\ \A i \in DOMAIN e.rows : e.rows[i] = c.rows[i]
      /\ e.rollup = c.rollup
  BY ForgetIs
<1>2. Countable(c)
  BY RowsAreCountable
<1>3. Countable(e)
  <2>1. IsFiniteSet(DOMAIN e.rows)
    BY <1>1, <1>2, FS_Subset DEF Countable
  <2> QED
    BY <1>1, <1>2, <2>1 DEF Countable
<1>4. c.rows[id].state # "live"
  BY DEF Collectable
<1>5. Live(e) = Live(c)
  BY <1>1, <1>4 DEF Live
<1>6. Live(c) \subseteq DOMAIN e.rows
  BY <1>5 DEF Live
<1> QED
  BY <1>1, <1>2, <1>3, <1>5, <1>6, CountsSame

\* the ageing of a tombstone,
LEMMA AgeCounts ==
  ASSUME NEW c, CatShape(c), RowsFit(c), Counts(c),
         NEW id \in DOMAIN c.rows, c.rows[id].state = "tombstoned",
         NEW e, e = [c EXCEPT !.rows[id].aged = TRUE]
  PROVE  Counts(e)
<1>1. /\ CatShape(e) /\ e.rollup = c.rollup
      /\ e.rows = [c.rows EXCEPT ![id].aged = TRUE]
  BY DEF CatShape
<1>2. /\ DOMAIN e.rows = DOMAIN c.rows
      /\ \A i \in DOMAIN c.rows \ {id} : e.rows[i] = c.rows[i]
      /\ e.rows[id] = [c.rows[id] EXCEPT !.aged = TRUE]
  BY <1>1
<1>3. \A i \in DOMAIN c.rows : /\ e.rows[i].path = c.rows[i].path
                               /\ e.rows[i].recs = c.rows[i].recs
                               /\ e.rows[i].state = c.rows[i].state
  <2>1. /\ e.rows[id].path = c.rows[id].path /\ e.rows[id].recs = c.rows[id].recs
        /\ e.rows[id].state = c.rows[id].state
    <3>1. c.rows[id] = [path |-> c.rows[id].path, level |-> c.rows[id].level,
                        recs |-> c.rows[id].recs, state |-> c.rows[id].state,
                        aged |-> c.rows[id].aged]
      BY RowShape
    <3> QED
      BY <1>2, <3>1, AgedRow
  <2> QED
    BY <1>2, <2>1
<1>4. Countable(c)
  BY RowsAreCountable
<1>5. Countable(e)
  BY <1>1, <1>2, <1>3, <1>4 DEF Countable
<1>6. Live(e) = Live(c) /\ Live(c) \subseteq DOMAIN c.rows
  BY <1>2, <1>3 DEF Live
<1> QED
  BY <1>1, <1>3, <1>4, <1>5, <1>6, CountsSame

\* and a retirement.
LEMMA TombstoneCounts ==
  ASSUME NEW c, CatShape(c), RowsFit(c), Counts(c), NEW ids,
         NEW e, e = Retire(c, ids)
  PROVE  Counts(e)
<1>1. Countable(c)
  BY RowsAreCountable
<1>2. \A id \in DOMAIN c.rows :
        c.rows[id] = [path |-> c.rows[id].path, level |-> c.rows[id].level,
                      recs |-> c.rows[id].recs, state |-> c.rows[id].state,
                      aged |-> c.rows[id].aged]
  BY RowShape
<1> QED
  BY <1>1, <1>2, RetireCounts

\* What a replacement makes is counted, and what it replaces no longer.
LEMMA ReplaceCounts ==
  ASSUME NEW c, CatShape(c), RowsFit(c), Counts(c), NEW path, ~Registered(c, path),
         path.stream \in Streams,
         NEW recs \in SUBSET Record, recs # {}, IsFiniteSet(recs), NEW ids,
         NEW e, e = Replace(c, path, recs, ids)
  PROVE  Counts(e)
<1> DEFINE f == InsertFile(c, path, recs)
<1>1. Counts(f) /\ Countable(f)
  BY InsertCounts
<1>2. e = Retire(f, ids)
  BY DEF Replace
<1>3. \A id \in DOMAIN f.rows :
        f.rows[id] = [path |-> f.rows[id].path, level |-> f.rows[id].level,
                      recs |-> f.rows[id].recs, state |-> f.rows[id].state,
                      aged |-> f.rows[id].aged]
  <2>1. \A id \in DOMAIN c.rows : id \in 1 .. c.nextId - 1
    BY DEF RowsFit, RowFits
  <2>2. /\ DOMAIN f.rows = DOMAIN c.rows \cup {c.nextId}
        /\ f.rows[c.nextId] = NewRow(path, recs)
        /\ \A id \in DOMAIN c.rows : f.rows[id] = c.rows[id]
    BY <2>1, InsertIs
  <2>3. f.rows[c.nextId] = [path |-> f.rows[c.nextId].path, level |-> f.rows[c.nextId].level,
                      recs |-> f.rows[c.nextId].recs, state |-> f.rows[c.nextId].state,
                      aged |-> f.rows[c.nextId].aged]
    BY <2>2 DEF NewRow
  <2> HIDE DEF f
  <2>4. ASSUME NEW id \in DOMAIN c.rows
        PROVE  f.rows[id] = [path |-> f.rows[id].path, level |-> f.rows[id].level,
                             recs |-> f.rows[id].recs, state |-> f.rows[id].state,
                             aged |-> f.rows[id].aged]
    <3>1. f.rows[id] = c.rows[id]
      BY <2>2
    <3>2. c.rows[id] = [path |-> c.rows[id].path, level |-> c.rows[id].level,
                        recs |-> c.rows[id].recs, state |-> c.rows[id].state,
                        aged |-> c.rows[id].aged]
      BY RowShape
    <3> QED
      BY <3>1, <3>2
  <2> QED
    BY <2>2, <2>3, <2>4
<1> HIDE DEF f
<1> QED
  BY <1>1, <1>2, <1>3, RetireCounts

\* The flush registers each stream's records under that stream.
LEMMA RegisterObjectCounts ==
  ASSUME IInv, Counts(cat), NEW ok \in BOOLEAN, RegisterObject(ok)
  PROVE  Counts(cat')
<1> DEFINE path == Head(flusher.todo)
           recs == OfStream(flusher.recs, path.stream)
<1>1. /\ flusher.step = "register"
      /\ cat' = IF ok THEN InsertFile(cat, path, recs) ELSE cat
  BY DEF RegisterObject, Register
<1>2. /\ FlushFits(up, flusher, unflushed, segs, active) /\ ToDo(flusher, cat, objects)
      /\ flusher.todo # <<>> /\ CatShape(cat) /\ RowsFit(cat)
  BY <1>1 DEF IInv, PersistFits, ToDo
<1>3. path \in Names(flusher.recs) /\ ~Registered(cat, path)
  BY <1>2, TodoTail
<1>4. flusher.recs \in Seq(Record)
  BY <1>1, <1>2 DEF FlushFits, Busy, IInv, LogFits, DirFits, Segment
<1>5. /\ recs \in SUBSET Record /\ IsFiniteSet(recs) /\ recs # {}
      /\ \A r \in recs : r.stream = path.stream
  BY <1>3, <1>4, OfStreamIs
<1> HIDE DEF path, recs
<1>6. path.stream \in Streams
  BY <1>5 DEF Streams
<1>7. CASE ok
  <2>1. cat' = InsertFile(cat, path, recs)
    BY <1>1, <1>7
  <2> QED
    BY <1>2, <1>3, <1>5, <1>6, <2>1, InsertCounts
<1> QED
  BY <1>1, <1>7

\* A merge counts its output and no longer its inputs.
LEMMA PublishCounts ==
  ASSUME IInv, Counts(cat), NEW ok \in BOOLEAN, Publish(ok)
  PROVE  Counts(cat')
<1> DEFINE path == merge.path
           recs == merge.recs
           ids == merge.ids
           may == ok /\ (recs # {} => ~Registered(cat, path))
<1>1. /\ merge.step = "publish"
      /\ cat' = IF may THEN (IF recs = {} THEN Retire(cat, ids)
                             ELSE Replace(cat, path, recs, ids)) ELSE cat
  BY DEF Publish, Tombstone, CanReplace
<1>2. MergeFits(up, merge, cat, objects) /\ CatShape(cat) /\ RowsFit(cat)
  BY DEF IInv
<1>3. /\ ids \subseteq Live(cat)
      /\ recs \subseteq UNION {cat.rows[id].recs : id \in ids}
  BY <1>1, <1>2 DEF MergeFits
<1>4. recs \in SUBSET Record /\ IsFiniteSet(recs)
  <2>1. ids \subseteq DOMAIN cat.rows /\ recs \subseteq InputsOf(cat, ids)
    BY <1>3 DEF Live, InputsOf
  <2> QED
    BY <1>2, <2>1, InputsFinite
<1>5. ASSUME recs # {} PROVE path.stream \in Streams
  <2>1. merge.step # "idle" /\ merge.recs # {}
    BY <1>1, <1>5
  <2>2. PICK first \in merge.recs : merge.path = Path(merge.path.level, first, merge.path.of)
    BY <1>2, <2>1, MergeNameFits DEF IInv
  <2> DEFINE l == merge.path.level
             of == merge.path.of
  <2>3. merge.path = Path(l, first, of)
    BY <2>2
  <2> HIDE DEF l, of
  <2>4. merge.path.stream = first.stream
    BY <2>3 DEF Path
  <2> QED
    BY <1>4, <2>4 DEF Streams
<1>6. CASE ~may
  BY <1>1, <1>6
<1>7. CASE may /\ recs = {}
  <2>1. cat' = Retire(cat, ids)
    BY <1>1, <1>7
  <2> QED
    BY <1>2, <2>1, TombstoneCounts
<1>8. CASE may /\ recs # {}
  <2>1. cat' = Replace(cat, path, recs, ids) /\ ~Registered(cat, path)
    BY <1>1, <1>8
  <2> HIDE DEF path, recs, ids
  <2> QED
    BY <1>2, <1>4, <1>5, <1>8, <2>1, ReplaceCounts
<1> QED
  BY <1>6, <1>7, <1>8

\* No step loses count.
LEMMA StepCounts ==
  ASSUME IInv, Counts(cat), [Next]_vars
  PROVE  Counts(cat')
<1>1. CatShape(cat) /\ RowsFit(cat)
  BY DEF IInv
<1>2. ASSUME NEW ok \in BOOLEAN, IntendObjects(ok) PROVE Counts(cat')
  <2>1. cat' = cat \/ cat' = Intend(cat, Names(flusher.recs))
    BY <1>2 DEF IntendObjects
  <2> QED
    BY <1>1, <2>1, IntendCounts
<1>3. ASSUME NEW ok \in BOOLEAN, ForgetRow(ok) PROVE Counts(cat')
  <2>1. collector.step = "forget" /\ (cat' = cat \/ cat' = Forget(cat, collector.current))
    BY <1>3 DEF ForgetRow
  <2>2. collector.current \in Collectable(cat)
    BY <2>1 DEF IInv, CollectFits
  <2> QED
    BY <1>1, <2>1, <2>2, ForgetCounts
<1>4. ASSUME NEW file, NEW ok \in BOOLEAN, SweepPath(file, ok) PROVE Counts(cat')
  <2>1. cat' = cat \/ cat' = Discard(cat, file)
    BY <1>4 DEF SweepPath
  <2> QED
    BY <1>1, <2>1, DiscardCounts
<1>5. ASSUME NEW id \in DOMAIN cat.rows, TombstoneAges(id) PROVE Counts(cat')
  <2>1. cat.rows[id].state = "tombstoned" /\ cat' = [cat EXCEPT !.rows[id].aged = TRUE]
    BY <1>5 DEF TombstoneAges
  <2> QED
    BY <1>1, <2>1, AgeCounts
<1>6. ASSUME NEW ok \in BOOLEAN, IntendOutput(ok) PROVE Counts(cat')
  <2>1. cat' = cat \/ cat' = Intend(cat, {merge.path})
    BY <1>6 DEF IntendOutput
  <2> QED
    BY <1>1, <2>1, IntendCounts
<1>7. CASE Expire
  <2>1. \E ids : cat' = Retire(cat, ids)
    BY <1>7 DEF Expire, Tombstone
  <2> QED
    BY <1>1, <2>1, TombstoneCounts
<1>8. ASSUME NEW path \in DOMAIN cat.pending, PendingAges(path) PROVE Counts(cat')
  <2>1. cat' = [cat EXCEPT !.pending[path] = TRUE]
    BY <1>8 DEF PendingAges
  <2>2. cat'.rows = cat.rows /\ cat'.rollup = cat.rollup /\ CatShape(cat')
    BY <1>1, <2>1 DEF CatShape
  <2> QED
    BY <1>1, <2>2, SameRowsCount
<1>9. CASE FlushStep
  <2>1. \/ UNCHANGED cat
        \/ \E ok \in BOOLEAN : IntendObjects(ok) \/ RegisterObject(ok)
    BY <1>9 DEF FlushStep, ReadSegment, Recovered, Seal, Persisted, WriteObject, RetireSegment
  <2> QED
    BY <1>2, <2>1, RegisterObjectCounts
<1>10. CASE CollectStep
  <2>1. \/ UNCHANGED cat
        \/ \E ok \in BOOLEAN : ForgetRow(ok) \/ \E file \in collector.files : SweepPath(file, ok)
    BY <1>10 DEF CollectStep, EndCollect, ReadFloor, CollectObject
  <2> QED
    BY <1>3, <1>4, <2>1
<1>11. CASE StoreNext
  <2>1. \/ UNCHANGED cat \/ FlushStep \/ CollectStep
        \/ \E id \in DOMAIN cat.rows : TombstoneAges(id)
    BY <1>11 DEF StoreNext, Boot, SyncAndAck, StartFlush, StartCollect, StartSweep, AppendRecord
  <2> QED
    BY <1>5, <1>9, <1>10, <2>1
<1>12. CASE CompactStarts \/ CompactRuns
  <2>1. \/ UNCHANGED cat \/ Expire
        \/ \E ok \in BOOLEAN : IntendOutput(ok) \/ Publish(ok)
    BY <1>12 DEF CompactStarts, CompactRuns, StartMerge, WriteOutput
  <2> QED
    BY <1>6, <1>7, <2>1, PublishCounts
<1>13. CASE Stop
  BY <1>13 DEF Stop, StoreStop
<1>14. CASE UNCHANGED vars
  BY <1>14 DEF vars
<1> QED
  BY <1>8, <1>11, <1>12, <1>13, <1>14 DEF Next

\* An empty catalogue counts nothing.
LEMMA InitCounts ==
  Init => Counts(cat)
<1> SUFFICES ASSUME Init PROVE Counts(cat)
  OBVIOUS
<1>1. cat = EmptyCatalog
  BY DEF Init, StoreInit
<1>2. cat.rows = <<>> /\ cat.rollup = [s \in Streams |-> 0]
  BY <1>1 DEF EmptyCatalog
<1>3. DOMAIN cat.rows = {}
  BY <1>2
<1>4. Live(cat) = {}
  BY <1>3 DEF Live
<1>5. Sizes(cat) = [id \in {} |-> Cardinality(cat.rows[id].recs)]
  BY <1>3 DEF Sizes
<1>6. \A s \in Streams : RowsIn(cat, Live(cat), s) = 0
  <2>1. IsFiniteSet({})
    BY FS_EmptySet
  <2>2. SumFunctionOnSet(Sizes(cat), {}) = 0
    BY <2>1, SumIs
  <2>3. \A s : {id \in {} : cat.rows[id].path.stream = s} = {}
    OBVIOUS
  <2> QED
    BY <1>4, <2>2, <2>3 DEF RowsIn
<1> QED
  BY <1>2, <1>6 DEF Counts

------------------------------------------------------------------------------
(* The retry list, without the assumption that segments can be read.        *)

\* A flush record has these fields and no others, so two with the same fields are equal.
Shaped(f) ==
  f = [step |-> f.step, left |-> f.left, kept |-> f.kept, seg |-> f.seg,
       recs |-> f.recs, todo |-> f.todo, failed |-> f.failed, live |-> f.live]

\* Every sealed segment is with the flush or on a list, whatever can be read of it: on the
\* retry list unless the flush is going through that one, and then on what is left of it
\* or was kept.
Listed(u, f, un, g, a, rm) ==
  /\ a \in Nat
  /\ DOMAIN g \subseteq Nat \ {0} /\ IsFiniteSet(DOMAIN g)
  /\ DOMAIN rm \subseteq Nat \ {0} /\ IsFiniteSet(DOMAIN rm)
  /\ Shaped(f) /\ f.left \in Seq(Nat) /\ f.kept \in Seq(Nat) /\ un \in Seq(Nat) /\ f.seg \in Nat
  /\ f.step \in {"idle", "next"} => ~f.live /\ f.seg = 0
  /\ u = "down" => f.step = "idle"
  /\ u # "down" => \A s \in DOMAIN g \ {a} :
       \/ s = f.seg
       \/ IF f.step = "idle" \/ f.live THEN s \in ToSet(un)
          ELSE s \in ToSet(f.left) \cup ToSet(f.kept)

Remembered == Listed(up, flusher, unflushed, segs, active, removed)

\* What a sync may make durable has the same segments.
LEMMA PicksHarder ==
  ASSUME NEW dir, NEW g \in Picks(dir, Harder)
  PROVE  DOMAIN g = DOMAIN dir
BY DEF Picks

\* What a crash may leave has the same segments.
LEMMA PicksSurvivors ==
  ASSUME NEW dir, NEW g \in Picks(dir, Survivors)
  PROVE  DOMAIN g = DOMAIN dir
BY DEF Picks

\* The empty list holds nothing.
LEMMA NoneListed == <<>> \in Seq(Nat) /\ ToSet(<<>>) = {} /\ IsFiniteSet(DOMAIN <<>>)
<1>1. DOMAIN <<>> = {}
  OBVIOUS
<1> QED
  BY <1>1, FS_EmptySet, ToSetEmpty, EmptySeq

\* No flush: idle, on no segment, with nothing on its lists.
LEMMA NoFlushIs ==
  /\ NoFlush.step = "idle" /\ NoFlush.left = <<>> /\ NoFlush.kept = <<>>
  /\ NoFlush.seg = 0 /\ NoFlush.live = FALSE /\ NoFlush.todo = <<>> /\ NoFlush.recs = <<>>
  /\ NoFlush.failed = FALSE /\ Shaped(NoFlush)
BY DEF NoFlush, Shaped

\* A flush that is about to read the next segment of a list.
FlushOf(left, kept) == [NoFlush EXCEPT !.step = "next", !.left = left, !.kept = kept]

\* Field by field.
LEMMA FlushOfIs ==
  ASSUME NEW f, NEW left, NEW kept, f = FlushOf(left, kept)
  PROVE  f = [step |-> "next", left |-> left, kept |-> kept, seg |-> 0, recs |-> <<>>,
              todo |-> <<>>, failed |-> FALSE, live |-> FALSE]
BY DEF FlushOf, NoFlush

\* A flush that starts has kept nothing yet.
LEMMA FlushStarts ==
  ASSUME NEW f, NEW left, f = [NoFlush EXCEPT !.step = "next", !.left = left]
  PROVE  f = FlushOf(left, <<>>)
<1>1. f = [step |-> "next", left |-> left, kept |-> <<>>, seg |-> 0, recs |-> <<>>,
           todo |-> <<>>, failed |-> FALSE, live |-> FALSE]
  BY DEF NoFlush
<1> QED
  BY <1>1, FlushOfIs

\* A flush between two segments is on none.
LEMMA FreshFlush ==
  ASSUME NEW left, NEW kept
  PROVE  LET f == FlushOf(left, kept)
         IN  /\ f.step = "next" /\ f.left = left /\ f.kept = kept /\ f.seg = 0 /\ ~f.live
             /\ Shaped(f)
<1> DEFINE f == FlushOf(left, kept)
<1>1. f = [step |-> "next", left |-> left, kept |-> kept, seg |-> 0, recs |-> <<>>,
           todo |-> <<>>, failed |-> FALSE, live |-> FALSE]
  BY FlushOfIs
<1> HIDE DEF f
<1>2. /\ f.step = "next" /\ f.left = left /\ f.kept = kept /\ f.seg = 0 /\ f.live = FALSE
      /\ Shaped(f)
  BY <1>1 DEF Shaped
<1> QED
  BY <1>2 DEF f

\* A boot lists every segment there is, and seals the one it finds open.
LEMMA BootRemembers ==
  ASSUME Remembered, Boot
  PROVE  Remembered'
<1> DEFINE all == InOrder(DOMAIN segs)
<1>1. /\ active' \in NextNumber /\ segs' = With(segs, active', EmptySegment)
      /\ removed' = removed /\ unflushed' = unflushed
      /\ flusher' = [NoFlush EXCEPT !.step = "next", !.left = InOrder(DOMAIN segs)]
  BY DEF Boot, LogOpen
<1>2. /\ DOMAIN segs \subseteq Nat \ {0} /\ IsFiniteSet(DOMAIN segs)
      /\ DOMAIN removed \subseteq Nat \ {0} /\ IsFiniteSet(DOMAIN removed)
      /\ unflushed \in Seq(Nat)
  BY DEF Remembered, Listed
<1>3. all \in Seq(Nat) /\ ToSet(all) = DOMAIN segs
  <2> DEFINE key == [n \in DOMAIN segs |-> n]
  <2>1. key \in [DOMAIN segs -> Int] /\ \A x, y \in DOMAIN segs : key[x] = key[y] => x = y
    BY <1>2
  <2>2. all = SortedBy(DOMAIN segs, key)
    BY DEF InOrder
  <2> HIDE DEF key
  <2>3. SortedBy(DOMAIN segs, key) \in Seq(DOMAIN segs)
        /\ ToSet(SortedBy(DOMAIN segs, key)) = DOMAIN segs
    BY <1>2, <2>1, SortedByIs
  <2> QED
    BY <1>2, <2>2, <2>3
<1>4. active' \in Nat \ {0}
  BY <1>1, <1>2 DEF NextNumber
<1>5. DOMAIN segs' = DOMAIN segs \cup {active'}
  BY <1>1 DEF With
<1>6. IsFiniteSet(DOMAIN segs')
  BY <1>2, <1>5, FS_AddElement
<1> HIDE DEF all
<1>7. /\ flusher'.step = "next" /\ flusher'.left = all /\ flusher'.kept = <<>>
      /\ flusher'.seg = 0 /\ ~flusher'.live
  <2>1. flusher' = FlushOf(all, <<>>)
    BY <1>1, FlushStarts DEF all
  <2> QED
    BY <2>1, FreshFlush
<1>8. \A s \in DOMAIN segs' \ {active'} : s \in ToSet(flusher'.left)
  BY <1>3, <1>5, <1>7
<1>9. DOMAIN segs' \subseteq Nat \ {0} /\ active' \in Nat
  BY <1>2, <1>4, <1>5
<1>10. /\ flusher'.left \in Seq(Nat) /\ flusher'.kept \in Seq(Nat) /\ flusher'.seg \in Nat
       /\ unflushed' \in Seq(Nat)
       /\ DOMAIN removed' \subseteq Nat \ {0} /\ IsFiniteSet(DOMAIN removed')
  <2>1. flusher'.left \in Seq(Nat)
    BY <1>3, <1>7
  <2>2. flusher'.kept \in Seq(Nat)
    BY <1>7, NoneListed
  <2>3. flusher'.seg \in Nat
    BY <1>7
  <2> QED
    BY <1>1, <1>2, <2>1, <2>2, <2>3
<1>11. flusher'.step # "idle" /\ ~flusher'.live /\ flusher'.seg = 0 /\ up' = "recovering"
  BY <1>7 DEF Boot
<1>12. Shaped(flusher')
  <2>1. flusher' = FlushOf(all, <<>>)
    BY <1>1, FlushStarts DEF all
  <2> QED
    BY <2>1, FreshFlush
<1> QED
  BY <1>6, <1>8, <1>9, <1>10, <1>11, <1>12 DEF Remembered, Listed

\* The flush that is done with a segment goes on, or ends and hands back what it kept.
LEMMA SettleRemembers ==
  ASSUME NEW ok \in BOOLEAN, Remembered, Settle(ok), up # "down",
         flusher.step \notin {"idle", "next"},
         active' = active, up' = up, DOMAIN segs' \subseteq DOMAIN segs,
         DOMAIN removed' \subseteq Nat \ {0}, IsFiniteSet(DOMAIN removed'),
         ok => flusher.seg \notin DOMAIN segs'
  PROVE  Remembered'
<1>1. /\ active \in Nat /\ DOMAIN segs \subseteq Nat \ {0} /\ IsFiniteSet(DOMAIN segs)
      /\ flusher.left \in Seq(Nat) /\ flusher.kept \in Seq(Nat) /\ unflushed \in Seq(Nat)
      /\ flusher.seg \in Nat
      /\ \A s \in DOMAIN segs \ {active} :
           \/ s = flusher.seg
           \/ IF flusher.live THEN s \in ToSet(unflushed)
              ELSE s \in ToSet(flusher.left) \cup ToSet(flusher.kept)
  BY DEF Remembered, Listed
<1>2. IsFiniteSet(DOMAIN segs') /\ DOMAIN segs' \subseteq Nat \ {0}
  BY <1>1, FS_Subset
<1>3. CASE flusher.live
  <2>1. /\ flusher' = NoFlush
        /\ unflushed' = IF ok THEN unflushed ELSE Append(unflushed, flusher.seg)
    BY <1>3 DEF Settle
  <2>2. /\ unflushed' \in Seq(Nat) /\ ToSet(unflushed) \subseteq ToSet(unflushed')
        /\ ~ok => flusher.seg \in ToSet(unflushed')
    <3>1. CASE ok
      BY <2>1, <1>1, <3>1
    <3>2. CASE ~ok
      <4>1. unflushed' = Append(unflushed, flusher.seg)
        BY <2>1, <3>2
      <4>0. unflushed \in Seq(Nat) /\ flusher.seg \in Nat
        BY <1>1
      <4>2. /\ Append(unflushed, flusher.seg) \in Seq(Nat)
            /\ ToSet(Append(unflushed, flusher.seg)) = ToSet(unflushed) \cup {flusher.seg}
        BY <4>0, ToSetAppend
      <4> QED
        BY <4>1, <4>2
    <3> QED
      BY <3>1, <3>2
  <2>3. \A s \in DOMAIN segs' \ {active'} : s \in ToSet(unflushed')
    BY <2>2, <1>1, <1>3
  <2> QED
    BY <1>1, <1>2, <2>1, <2>2, <2>3, NoFlushIs, NoneListed DEF Remembered, Listed
<1>4. CASE ~flusher.live
  <2> DEFINE kept == IF ok THEN flusher.kept ELSE Append(flusher.kept, flusher.seg)
  <2>1. flusher' = FlushOf(flusher.left, kept) /\ unflushed' = unflushed
    BY <1>4 DEF Settle, FlushOf
  <2>2. /\ kept \in Seq(Nat) /\ ToSet(flusher.kept) \subseteq ToSet(kept)
        /\ ~ok => flusher.seg \in ToSet(kept)
    <3>1. CASE ok
      BY <1>1, <3>1
    <3>2. CASE ~ok
      <4>1. /\ Append(flusher.kept, flusher.seg) \in Seq(Nat)
            /\ ToSet(Append(flusher.kept, flusher.seg)) = ToSet(flusher.kept) \cup {flusher.seg}
        BY <1>1, ToSetAppend
      <4>2. kept = Append(flusher.kept, flusher.seg)
        BY <3>2
      <4> HIDE DEF kept
      <4> QED
        BY <4>1, <4>2
    <3> QED
      BY <3>1, <3>2
  <2> HIDE DEF kept
  <2>3. /\ flusher'.step = "next" /\ flusher'.left = flusher.left /\ flusher'.kept = kept
        /\ flusher'.seg = 0 /\ ~flusher'.live /\ Shaped(flusher')
    BY <2>1, FreshFlush
  <2>4. \A s \in DOMAIN segs' \ {active'} : s \in ToSet(flusher.left) \cup ToSet(kept)
    BY <2>2, <1>1, <1>4
  <2> QED
    BY <1>1, <1>2, <2>1, <2>2, <2>3, <2>4 DEF Remembered, Listed
<1> QED
  BY <1>3, <1>4

\* The flush and its lists are as they were, or the process stopped, and nothing was sealed.
LEMMA SameLists ==
  ASSUME Remembered, flusher' = flusher, unflushed' = unflushed, up' = up, active' = active,
         DOMAIN segs' = DOMAIN segs, removed' = removed \/ removed' = <<>>
  PROVE  Remembered'
<1>1. DOMAIN removed' \subseteq Nat \ {0} /\ IsFiniteSet(DOMAIN removed')
  BY NoneListed DEF Remembered, Listed
<1> QED
  BY <1>1 DEF Remembered, Listed

\* A segment that cannot be read is kept; one that can is the one in hand.
LEMMA ReadSegmentRemembers ==
  ASSUME Remembered, ReadSegment
  PROVE  Remembered'
<1> DEFINE s == Head(flusher.left)
           next == [flusher EXCEPT !.left = Tail(@), !.seg = s]
           again == [flusher EXCEPT !.left = Tail(@), !.kept = Append(@, s)]
<1>1. /\ flusher.step = "next" /\ flusher.left # <<>>
      /\ UNCHANGED <<segs, active, removed, up, unflushed>>
      /\ \/ flusher' = [next EXCEPT !.step = "retire"]
         \/ flusher' = [next EXCEPT !.step = "intend", !.recs = segs[s].recs]
         \/ flusher' = again
  BY DEF ReadSegment, logVars
<1>2. /\ flusher.left \in Seq(Nat) /\ flusher.kept \in Seq(Nat) /\ unflushed \in Seq(Nat)
      /\ flusher.seg = 0 /\ ~flusher.live
      /\ DOMAIN segs \subseteq Nat \ {0}
      /\ up # "down" => \A t \in DOMAIN segs \ {active} :
           t \in ToSet(flusher.left) \cup ToSet(flusher.kept)
  BY <1>1 DEF Remembered, Listed
<1>3. s \in Nat /\ Tail(flusher.left) \in Seq(Nat)
      /\ ToSet(flusher.left) = {s} \cup ToSet(Tail(flusher.left))
  BY <1>1, <1>2, ToSetTail
<1>4. /\ Append(flusher.kept, s) \in Seq(Nat)
      /\ ToSet(Append(flusher.kept, s)) = ToSet(flusher.kept) \cup {s}
  BY <1>2, <1>3, ToSetAppend
<1>0. flusher = [step |-> flusher.step, left |-> flusher.left, kept |-> flusher.kept,
                 seg |-> flusher.seg, recs |-> flusher.recs, todo |-> flusher.todo,
                 failed |-> flusher.failed, live |-> flusher.live]
  BY DEF Remembered, Listed, Shaped
<1>5. CASE flusher' = again
  <2>1. /\ flusher'.step = "next" /\ flusher'.left = Tail(flusher.left) /\ ~flusher'.live
        /\ flusher'.kept = Append(flusher.kept, s) /\ flusher'.seg = 0
    BY <1>0, <1>1, <1>2, <1>5
  <2>s. Shaped(flusher')
    BY <1>0, <1>1, <1>5 DEF Shaped
  <2> HIDE DEF s
  <2>2. up' # "down" => \A t \in DOMAIN segs' \ {active'} :
          t \in ToSet(flusher'.left) \cup ToSet(flusher'.kept)
    BY <2>1, <1>1, <1>2, <1>3, <1>4
  <2> QED
    BY <2>1, <2>s, <2>2, <1>1, <1>2, <1>3, <1>4 DEF Remembered, Listed
<1>6. CASE flusher' = [next EXCEPT !.step = "retire"]
           \/ flusher' = [next EXCEPT !.step = "intend", !.recs = segs[s].recs]
  <2>1. /\ flusher'.step \in {"retire", "intend"} /\ flusher'.left = Tail(flusher.left)
        /\ ~flusher'.live /\ flusher'.kept = flusher.kept /\ flusher'.seg = s
    BY <1>0, <1>1, <1>2, <1>6
  <2>s. Shaped(flusher')
    BY <1>0, <1>1, <1>6 DEF Shaped
  <2> HIDE DEF s
  <2>2. up' # "down" => \A t \in DOMAIN segs' \ {active'} :
          t = flusher'.seg \/ t \in ToSet(flusher'.left) \cup ToSet(flusher'.kept)
    BY <2>1, <1>1, <1>2, <1>3
  <2> QED
    BY <2>1, <2>s, <2>2, <1>1, <1>2, <1>3 DEF Remembered, Listed
<1> QED
  BY <1>1, <1>5, <1>6

\* The segment that is sealed is the one in hand of the live flush.
LEMMA SealRemembers ==
  ASSUME Remembered, Seal
  PROVE  Remembered'
<1>1. /\ up = "serving" /\ up' = up /\ flusher.step = "next" /\ flusher.left = <<>>
      /\ unflushed' = flusher.kept
  BY DEF Seal
<1>2. /\ flusher.kept \in Seq(Nat) /\ active \in Nat
      /\ DOMAIN segs \subseteq Nat \ {0} /\ IsFiniteSet(DOMAIN segs)
      /\ \A t \in DOMAIN segs \ {active} : t \in ToSet(flusher.kept)
  BY <1>1, NoneListed DEF Remembered, Listed
<1>3. CASE flusher' = NoFlush /\ UNCHANGED logVars
  BY <1>1, <1>2, <1>3, NoFlushIs, NoneListed DEF Remembered, Listed, logVars
<1>4. CASE /\ LogRotate
           /\ flusher' = [NoFlush EXCEPT !.step = "intend", !.seg = active,
                                         !.recs = batch, !.live = TRUE]
  <2>1. PICK dir \in Picks(segs, Harder) :
          segs' = With(dir, active + 1, EmptySegment)
    BY <1>4 DEF LogRotate
  <2>2. active' = active + 1 /\ removed' \in {removed, <<>>}
    BY <1>4 DEF LogRotate
  <2>3. DOMAIN segs' = DOMAIN segs \cup {active + 1}
    BY <2>1, PicksHarder DEF With
  <2>4. /\ flusher'.step = "intend" /\ flusher'.seg = active /\ flusher'.live = TRUE
        /\ flusher'.left = <<>> /\ flusher'.kept = <<>> /\ Shaped(flusher')
    BY <1>4 DEF NoFlush, Shaped
  <2>5. IsFiniteSet(DOMAIN segs') /\ DOMAIN segs' \subseteq Nat \ {0}
    BY <1>2, <2>3, FS_AddElement
  <2>6. DOMAIN removed' \subseteq Nat \ {0} /\ IsFiniteSet(DOMAIN removed')
    BY <2>2, NoneListed DEF Remembered, Listed
  <2>7. \A t \in DOMAIN segs' \ {active'} : t = flusher'.seg \/ t \in ToSet(unflushed')
    BY <1>1, <1>2, <2>2, <2>3, <2>4
  <2> QED
    BY <1>1, <1>2, <2>2, <2>4, <2>5, <2>6, <2>7, NoneListed DEF Remembered, Listed
<1> QED
  BY <1>3, <1>4 DEF Seal

\* Recovery ends with what it kept on the retry list.
LEMMA RecoveredRemembers ==
  ASSUME Remembered, Recovered
  PROVE  Remembered'
<1>1. /\ up = "recovering" /\ up' = "serving" /\ flusher.step = "next" /\ flusher.left = <<>>
      /\ unflushed' = flusher.kept /\ flusher' = NoFlush /\ UNCHANGED <<segs, active, removed>>
  BY DEF Recovered, logVars
<1>2. /\ flusher.kept \in Seq(Nat)
      /\ \A t \in DOMAIN segs \ {active} : t \in ToSet(flusher.kept)
  BY <1>1, NoneListed DEF Remembered, Listed
<1> QED
  BY <1>1, <1>2, NoFlushIs, NoneListed DEF Remembered, Listed

\* A retry takes the list over from where the store kept it.
LEMMA StartFlushRemembers ==
  ASSUME Remembered, StartFlush
  PROVE  Remembered'
<1>1. /\ up = "serving" /\ flusher.step = "idle"
      /\ flusher' = [NoFlush EXCEPT !.step = "next", !.left = unflushed]
      /\ UNCHANGED <<segs, active, removed, up, unflushed>>
  BY DEF StartFlush, logVars
<1>2. /\ unflushed \in Seq(Nat) /\ DOMAIN segs \subseteq Nat \ {0}
      /\ \A t \in DOMAIN segs \ {active} : t \in ToSet(unflushed)
  BY <1>1 DEF Remembered, Listed
<1>3. /\ flusher'.step = "next" /\ flusher'.left = unflushed /\ flusher'.kept = <<>>
      /\ flusher'.seg = 0 /\ ~flusher'.live /\ Shaped(flusher')
  <2>1. flusher' = FlushOf(unflushed, <<>>)
    BY <1>1, FlushStarts
  <2> QED
    BY <2>1, FreshFlush
<1>4. \A t \in DOMAIN segs' \ {active'} : t \in ToSet(flusher'.left)
  BY <1>1, <1>2, <1>3
<1> QED
  BY <1>1, <1>2, <1>3, <1>4, NoneListed DEF Remembered, Listed

\* A step of a flush that stays with its segment.
LEMMA SameSegment ==
  ASSUME Remembered, flusher.step \notin {"idle", "next"},
         flusher'.step \notin {"idle", "next"}, Shaped(flusher'),
         flusher'.left = flusher.left, flusher'.kept = flusher.kept,
         flusher'.seg = flusher.seg, flusher'.live = flusher.live,
         UNCHANGED <<segs, active, removed, up, unflushed>>
  PROVE  Remembered'
BY DEF Remembered, Listed

\* A segment is forgotten only when it is unlinked.
LEMMA RetireRemembers ==
  ASSUME Remembered, NEW ok \in BOOLEAN, RetireSegment(ok)
  PROVE  Remembered'
<1> DEFINE s == flusher.seg
<1>0. up # "down"
  BY DEF RetireSegment, Remembered, Listed
<1>1. /\ flusher.step = "retire" /\ Settle(ok) /\ up' = up
      /\ IF segs[s].damaged
         THEN IF ok THEN LogQuarantine(s) ELSE LogRemove(s) \/ UNCHANGED logVars
         ELSE IF ok THEN LogRemove(s) ELSE UNCHANGED logVars
  BY DEF RetireSegment
<1>2. /\ DOMAIN segs \subseteq Nat \ {0}
      /\ DOMAIN removed \subseteq Nat \ {0} /\ IsFiniteSet(DOMAIN removed)
  BY DEF Remembered, Listed
<1>3. CASE LogQuarantine(s)
  <2>1. /\ segs' \in Picks(Without(segs, s), Harder) /\ removed' = <<>> /\ active' = active
    BY <1>3 DEF LogQuarantine
  <2>2. DOMAIN segs' = DOMAIN segs \ {s}
    BY <2>1, PicksHarder DEF Without
  <2> QED
    BY <1>1, <2>1, <2>2, <1>0, SettleRemembers, NoneListed
<1>4. CASE LogRemove(s)
  <2>1. /\ s \in DOMAIN segs /\ segs' = Without(segs, s)
        /\ removed' = With(removed, s, segs[s]) /\ active' = active
    BY <1>4 DEF LogRemove, Sealed
  <2>2. DOMAIN segs' = DOMAIN segs \ {s} /\ DOMAIN removed' = DOMAIN removed \cup {s}
    BY <2>1 DEF With, Without
  <2>3. DOMAIN removed' \subseteq Nat \ {0} /\ IsFiniteSet(DOMAIN removed')
    BY <1>2, <2>1, <2>2, FS_AddElement
  <2> QED
    BY <1>1, <2>1, <2>2, <2>3, <1>0, SettleRemembers
<1>5. CASE ~ok /\ UNCHANGED logVars
  BY <1>1, <1>2, <1>5, <1>0, SettleRemembers DEF logVars
<1> QED
  BY <1>1, <1>3, <1>4, <1>5

\* A flush that gives up on its segment puts it (back) on a list.
LEMMA GiveUpRemembers ==
  ASSUME Remembered, flusher.step \notin {"idle", "next"}, Settle(FALSE),
         UNCHANGED <<segs, active, removed, up>>
  PROVE  Remembered'
<1>1. /\ up # "down" /\ DOMAIN removed \subseteq Nat \ {0} /\ IsFiniteSet(DOMAIN removed)
  BY DEF Remembered, Listed
<1> QED
  BY <1>1, SettleRemembers

\* A segment whose records could not all be filed is kept.
LEMMA PersistRemembers ==
  ASSUME Remembered, NEW ok \in BOOLEAN,
         IntendObjects(ok) \/ WriteObject(ok) \/ RegisterObject(ok) \/ Persisted
  PROVE  Remembered'
<1>1. /\ flusher.step \notin {"idle", "next"} /\ UNCHANGED <<segs, active, removed, up>>
      /\ \/ Settle(FALSE)
         \/ /\ unflushed' = unflushed
            /\ \/ flusher' = [flusher EXCEPT !.step = "write",
                    !.todo = Ordered({p \in Names(flusher.recs) : ~Registered(cat, p)})]
               \/ flusher' = [flusher EXCEPT !.step = "register"]
               \/ flusher' = [flusher EXCEPT !.todo = Tail(@), !.failed = TRUE]
               \/ flusher' = [flusher EXCEPT !.step = "write", !.todo = Tail(@),
                                             !.failed = @ \/ ~ok]
               \/ flusher' = [flusher EXCEPT !.step = "retire"]
  <2>1. CASE IntendObjects(ok)
    BY <2>1 DEF IntendObjects, logVars
  <2>2. CASE WriteObject(ok)
    BY <2>2 DEF WriteObject, logVars
  <2>3. CASE RegisterObject(ok)
    BY <2>3 DEF RegisterObject, logVars
  <2>4. CASE Persisted
    BY <2>4 DEF Persisted, logVars
  <2> QED
    BY <2>1, <2>2, <2>3, <2>4
<1>2. Shaped(flusher)
  BY DEF Remembered, Listed
<1>3. CASE Settle(FALSE)
  BY <1>1, <1>3, GiveUpRemembers
<1>4. ASSUME NEW todo, unflushed' = unflushed,
             \/ flusher' = [flusher EXCEPT !.step = "write", !.todo = todo]
             \/ flusher' = [flusher EXCEPT !.step = "register"]
             \/ flusher' = [flusher EXCEPT !.todo = Tail(@), !.failed = TRUE]
             \/ flusher' = [flusher EXCEPT !.step = "write", !.todo = Tail(@),
                                           !.failed = @ \/ ~ok]
             \/ flusher' = [flusher EXCEPT !.step = "retire"]
      PROVE  Remembered'
  <2>1. /\ Shaped(flusher') /\ flusher'.left = flusher.left /\ flusher'.kept = flusher.kept
        /\ flusher'.seg = flusher.seg /\ flusher'.live = flusher.live
        /\ flusher'.step \notin {"idle", "next"}
    <3>1. CASE flusher' = [flusher EXCEPT !.step = "write", !.todo = todo]
      BY <1>1, <1>2, <3>1 DEF Shaped
    <3>2. CASE flusher' = [flusher EXCEPT !.step = "register"]
      BY <1>1, <1>2, <3>2 DEF Shaped
    <3>3. CASE flusher' = [flusher EXCEPT !.todo = Tail(@), !.failed = TRUE]
      BY <1>1, <1>2, <3>3 DEF Shaped
    <3>4. CASE flusher' = [flusher EXCEPT !.step = "write", !.todo = Tail(@), !.failed = @ \/ ~ok]
      BY <1>1, <1>2, <3>4 DEF Shaped
    <3>5. CASE flusher' = [flusher EXCEPT !.step = "retire"]
      BY <1>1, <1>2, <3>5 DEF Shaped
    <3> QED
      BY <1>4, <3>1, <3>2, <3>3, <3>4, <3>5
  <2> QED
    BY <1>1, <1>4, <2>1, SameSegment
<1> QED
  BY <1>1, <1>3, <1>4

\* Ingest, the collector, the compactor and time leave the lists alone, and the segments
\* there are.
LEMMA ElseRemembers ==
  ASSUME Remembered,
         \/ SyncAndAck \/ StartCollect \/ StartSweep \/ CollectStep
         \/ \E r \in Record : AppendRecord(r)
         \/ \E id \in DOMAIN cat.rows : TombstoneAges(id)
         \/ CompactStarts \/ CompactRuns \/ UNCHANGED vars
         \/ \E path \in DOMAIN cat.pending : PendingAges(path)
  PROVE  Remembered'
<1> SUFFICES /\ flusher' = flusher /\ unflushed' = unflushed /\ up' = up /\ active' = active
             /\ DOMAIN segs' = DOMAIN segs /\ (removed' = removed \/ removed' = <<>>)
  BY SameLists
<1>1. CASE SyncAndAck
  <2>1. segs' \in Picks(segs, Harder) /\ removed' \in {removed, <<>>} /\ active' = active
    BY <1>1 DEF SyncAndAck, LogSync
  <2> QED
    BY <1>1, <2>1, PicksHarder DEF SyncAndAck
<1>2. ASSUME NEW r \in Record, AppendRecord(r)
      PROVE  /\ flusher' = flusher /\ unflushed' = unflushed /\ up' = up /\ active' = active
             /\ DOMAIN segs' = DOMAIN segs /\ removed' = removed
  BY <1>2 DEF AppendRecord, LogAppend, logVars
<1>3. CASE StartCollect \/ StartSweep
  BY <1>3 DEF StartCollect, StartSweep, logVars
<1>4. CASE CollectStep
  <2>1. CASE EndCollect
    BY <2>1 DEF EndCollect, logVars
  <2>2. ASSUME NEW ok \in BOOLEAN, ReadFloor(ok)
        PROVE  UNCHANGED <<flusher, unflushed, up, active, segs, removed>>
    BY <2>2 DEF ReadFloor, logVars
  <2>3. ASSUME NEW ok \in BOOLEAN, ForgetRow(ok)
        PROVE  /\ UNCHANGED <<flusher, unflushed, up, active, segs>>
               /\ (removed' = removed \/ removed' = <<>>)
    BY <2>3 DEF ForgetRow
  <2>4. ASSUME NEW ok \in BOOLEAN, NEW file \in collector.files,
               CollectObject(file, ok) \/ SweepPath(file, ok)
        PROVE  UNCHANGED <<flusher, unflushed, up, active, segs, removed>>
    BY <2>4 DEF CollectObject, SweepPath, logVars
  <2> QED
    BY <1>4, <2>1, <2>2, <2>3, <2>4 DEF CollectStep
<1>5. ASSUME NEW id \in DOMAIN cat.rows, TombstoneAges(id)
      PROVE  /\ flusher' = flusher /\ unflushed' = unflushed /\ up' = up /\ active' = active
             /\ segs' = segs /\ removed' = <<>>
  BY <1>5 DEF TombstoneAges, storeVars
<1>6. CASE CompactStarts \/ CompactRuns \/ UNCHANGED vars
  BY <1>6 DEF CompactStarts, CompactRuns, vars, storeVars, logVars
<1>7. ASSUME NEW path \in DOMAIN cat.pending, PendingAges(path)
      PROVE  UNCHANGED <<flusher, unflushed, up, active, segs, removed>>
  BY <1>7 DEF PendingAges, storeVars, logVars
<1> QED
  BY <1>1, <1>2, <1>3, <1>4, <1>5, <1>6, <1>7

\* When the process is down there is nothing to remember.
LEMMA DownListed ==
  ASSUME NEW u, NEW f, NEW un, NEW g, NEW a, NEW rm, u = "down", f = NoFlush, un = <<>>,
         a \in Nat, DOMAIN g \subseteq Nat \ {0}, IsFiniteSet(DOMAIN g),
         DOMAIN rm \subseteq Nat \ {0}, IsFiniteSet(DOMAIN rm)
  PROVE  Listed(u, f, un, g, a, rm)
<1>1. /\ Shaped(f) /\ f.left = <<>> /\ f.kept = <<>> /\ f.seg = 0 /\ f.live = FALSE
      /\ f.step = "idle"
  BY NoFlushIs
<1>2. f.left \in Seq(Nat) /\ f.kept \in Seq(Nat) /\ un \in Seq(Nat) /\ f.seg \in Nat
  BY <1>1, NoneListed
<1>3. f.step \in {"idle", "next"} => ~f.live /\ f.seg = 0
  BY <1>1
<1> QED
  BY <1>1, <1>2, <1>3 DEF Listed

\* After a kill or a power loss the next boot lists what is on disk.
LEMMA StopRemembers ==
  ASSUME Remembered, StoreStop
  PROVE  Remembered'
<1>1. /\ DOMAIN segs \subseteq Nat \ {0} /\ IsFiniteSet(DOMAIN segs)
      /\ DOMAIN removed \subseteq Nat \ {0} /\ IsFiniteSet(DOMAIN removed)
  BY DEF Remembered, Listed
<1>2. /\ up' = "down" /\ unflushed' = <<>> /\ flusher' = NoFlush /\ (LogKill \/ LogPowerLoss)
  BY DEF StoreStop
<1>3. /\ active' = 0 /\ DOMAIN segs' \subseteq Nat \ {0} /\ IsFiniteSet(DOMAIN segs')
      /\ DOMAIN removed' \subseteq Nat \ {0} /\ IsFiniteSet(DOMAIN removed')
  <2>1. CASE LogKill
    BY <1>1, <2>1, PicksSurvivors DEF LogKill
  <2>2. CASE LogPowerLoss
    <3>1. PICK lost \in SUBSET {s \in DOMAIN segs : segs[s].hard = 0} :
            \E back \in SUBSET (DOMAIN removed) :
              segs' \in Picks(Joined([s \in DOMAIN segs \ lost |-> segs[s]],
                                     [s \in back |-> removed[s]]), Survivors)
      BY <2>2 DEF LogPowerLoss
    <3>2. PICK back \in SUBSET (DOMAIN removed) :
            segs' \in Picks(Joined([s \in DOMAIN segs \ lost |-> segs[s]],
                                   [s \in back |-> removed[s]]), Survivors)
      BY <3>1
    <3> DEFINE dir == Joined([s \in DOMAIN segs \ lost |-> segs[s]], [s \in back |-> removed[s]])
    <3>3. DOMAIN dir = (DOMAIN segs \ lost) \cup back
      BY DEF Joined
    <3> HIDE DEF dir
    <3>4. DOMAIN segs' = DOMAIN dir
      BY <3>2, PicksSurvivors DEF dir
    <3>5. IsFiniteSet((DOMAIN segs \ lost) \cup back)
      <4>1. IsFiniteSet(DOMAIN segs \ lost) /\ IsFiniteSet(back)
        BY <1>1, FS_Subset
      <4> QED
        BY <4>1, FS_Union
    <3>6. active' = 0 /\ removed' = <<>>
      BY <2>2 DEF LogPowerLoss
    <3> QED
      BY <1>1, <3>3, <3>4, <3>5, <3>6, NoneListed
  <2> QED
    BY <1>2, <2>1, <2>2
<1> QED
  BY <1>2, <1>3, DownListed DEF Remembered

\* Nothing to remember in the beginning.
LEMMA InitRemembers == Init => Remembered
<1> SUFFICES ASSUME Init
             PROVE  Remembered
  OBVIOUS
<1>1. up = "down" /\ unflushed = <<>> /\ flusher = NoFlush
  BY DEF Init, StoreInit
<1>2. segs = <<>> /\ active = 0 /\ removed = <<>>
  BY DEF Init, StoreInit, LogInit
<1> QED
  <2>1. /\ active \in Nat /\ DOMAIN segs = {} /\ DOMAIN removed = {}
    BY <1>2
  <2> QED
    BY <1>1, <2>1, FS_EmptySet, DownListed DEF Remembered

\* Every step keeps the invariant.
LEMMA NextRemembers == Remembered /\ [Next]_vars => Remembered'
<1> SUFFICES ASSUME Remembered, [Next]_vars
             PROVE  Remembered'
  OBVIOUS
<1>1. CASE FlushStep
  <2>1. CASE ReadSegment \/ Recovered \/ Seal
    BY <2>1, ReadSegmentRemembers, RecoveredRemembers, SealRemembers
  <2>2. CASE Persisted
    BY <2>2, PersistRemembers
  <2>3. ASSUME NEW ok \in BOOLEAN, IntendObjects(ok) \/ WriteObject(ok) \/ RegisterObject(ok)
        PROVE  Remembered'
    BY <2>3, PersistRemembers
  <2>4. ASSUME NEW ok \in BOOLEAN, RetireSegment(ok)
        PROVE  Remembered'
    BY <2>4, RetireRemembers
  <2> QED
    BY <1>1, <2>1, <2>2, <2>3, <2>4 DEF FlushStep
<1>2. CASE Boot \/ StartFlush \/ StoreStop
  BY <1>2, BootRemembers, StartFlushRemembers, StopRemembers
<1> QED
  BY <1>1, <1>2, ElseRemembers DEF Next, StoreNext, Stop

------------------------------------------------------------------------------
(* The theorems. *)

\* The invariant holds at all times (internal/logstore, internal/catalog,
\* internal/compact and internal/wal together).
THEOREM StorageInvariant ==
  ASSUME ~UnreadableSegs
  PROVE  Spec => []IInv
<1>1. IInv /\ [Next]_vars => IInv'
  BY StepInv
<1> QED
  BY <1>1, InitInv, PTL DEF Spec

\* A record a receiver acknowledged is in a live file or on disk for good in a
\* segment, until retention drops it: across failed writes, retries, merges,
\* collections, stops and power losses (Append, flush, recover, collect).
THEOREM AckedRecordsStay ==
  ASSUME ~UnreadableSegs
  PROVE  Spec => []NothingAckedIsLost
<1>1. IInv => NothingAckedIsLost
  <2>1. LiveIn(cat) = LiveRecords
    BY DEF LiveIn, LiveRecords
  <2>2. Filed(cat, dropped) = LiveRecords \cup dropped
    BY <2>1 DEF Filed
  <2> QED
    BY <2>2 DEF IInv, AckFits, NothingAckedIsLost
<1> QED
  BY <1>1, StorageInvariant, PTL

\* No record is in two live files, however often its segment was replayed
\* (persist, Replace).
THEOREM RecordsCountOnce ==
  ASSUME ~UnreadableSegs
  PROVE  Spec => []NothingTwice
<1>1. IInv => NothingTwice
  <2>1. \A i \in Live(cat) : i \in DOMAIN cat.rows
    BY DEF Live
  <2> QED
    BY <2>1 DEF IInv, RowsFit, NothingTwice
<1> QED
  BY <1>1, StorageInvariant, PTL

\* No replay brings back what retention dropped (collect, ReplayMayNeed).
THEOREM DroppedStaysDropped ==
  ASSUME ~UnreadableSegs
  PROVE  Spec => []NothingComesBack
<1>1. IInv => NothingComesBack
  <2>1. LiveIn(cat) = LiveRecords
    BY DEF LiveIn, LiveRecords
  <2> QED
    BY <2>1 DEF IInv, DroppedFits, NothingComesBack
<1> QED
  BY <1>1, StorageInvariant, PTL

\* A file that a query may be reading has its object (collect, sweep).
THEOREM FilesStayReadable ==
  ASSUME ~UnreadableSegs
  PROVE  Spec => []FilesAreReadable
<1>1. IInv => FilesAreReadable
  BY DEF IInv, ObjectsFit, FilesAreReadable
<1> QED
  BY <1>1, StorageInvariant, PTL

\* No object is left without a row or a declaration (Intend, Register, sweep).
THEOREM ObjectsAccountedFor ==
  ASSUME ~UnreadableSegs
  PROVE  Spec => []NoObjectLeaks
<1>1. IInv => NoObjectLeaks
  BY DEF IInv, ObjectsFit, NoObjectLeaks
<1> QED
  BY <1>1, StorageInvariant, PTL

\* No merge is given up because its output's name is taken (outputName).
THEOREM OutputNamesAreNew ==
  ASSUME ~UnreadableSegs
  PROVE  Spec => []MergeNameIsNew
<1>1. IInv => MergeNameIsNew
  <2>1. ASSUME IInv, merge.step \in {"intend", "write"}
        PROVE  ~Registered(cat, merge.path)
    <3>1. merge.step # "idle" /\ merge.recs # {}
      BY <2>1 DEF IInv, MergeFits
    <3> QED
      BY <2>1, <3>1, MergeNameFits DEF IInv
  <2> QED
    BY <2>1 DEF MergeNameIsNew
<1> QED
  BY <1>1, StorageInvariant, PTL

\* A new record sorts after every record there is (OpenDurable, recover).
THEOREM SequenceIsAhead ==
  ASSUME ~UnreadableSegs
  PROVE  Spec => []SeqIsAhead
<1>1. ASSUME IInv, up = "serving", NEW s \in DOMAIN segs, NEW r \in Held(segs[s])
      PROVE  r.seq <= seq
  <2>1. segs[s].recs \in Seq(Record)
    BY <1>1 DEF IInv, LogFits, DirFits, Segment
  <2>2. r \in ToSet(segs[s].recs)
    BY <2>1, ToSetIs DEF Held
  <2> QED
    BY <1>1, <2>2 DEF IInv, SeqFits
<1>2. ASSUME IInv, up = "serving", NEW id \in DOMAIN cat.rows, NEW r \in cat.rows[id].recs
      PROVE  r.seq <= seq
  <2>1. r \in Record /\ r.seq <= cat.maxSeq
    BY <1>2 DEF IInv, RowsFit, RowFits
  <2>2. cat.maxSeq \in Nat /\ seq \in Nat /\ cat.maxSeq <= seq
    BY <1>2 DEF IInv, CatShape, SeqFits
  <2> QED
    BY <2>1, <2>2, RecordAssumption
<1>3. IInv => SeqIsAhead
  BY <1>1, <1>2 DEF SeqIsAhead
<1> QED
  BY <1>3, StorageInvariant, PTL

\* A sealed segment is with the flush or on its lists, although reading it back may fail
\* any number of times (flush, recover, replay).
THEOREM SegmentsRemembered == Spec => []NoSegmentForgotten
<1>1. Remembered => NoSegmentForgotten
  BY DEF Remembered, Listed, NoSegmentForgotten, Sealed
<1> QED
  BY <1>1, InitRemembers, NextRemembers, PTL DEF Spec

\* The counters are right at all times.
THEOREM CountersInvariant ==
  ASSUME ~UnreadableSegs
  PROVE  Spec => [](IInv /\ Counts(cat))
<1>1. IInv /\ Counts(cat) /\ [Next]_vars => Counts(cat')
  BY StepCounts
<1>2. IInv /\ Counts(cat) /\ [Next]_vars => (IInv /\ Counts(cat))'
  BY <1>1, StepInv
<1>3. Init => IInv /\ Counts(cat)
  BY InitInv, InitCounts
<1> QED
  BY <1>2, <1>3, PTL DEF Spec

\* The counters of a stream are the sum over its live files, so the counts that
\* are answered from them are those a scan would give (insertFileTx, retireTx).
THEOREM CountersAddUp ==
  ASSUME ~UnreadableSegs
  PROVE  Spec => []RollupsAddUp
<1>1. Counts(cat) => RollupsAddUp
  BY DEF Counts, RollupsAddUp
<1> QED
  BY <1>1, CountersInvariant, PTL

\* Every variable keeps its type, the counters included.
THEOREM TypesHold ==
  ASSUME ~UnreadableSegs
  PROVE  Spec => []TypeOK
<1>1. ASSUME IInv PROVE LogTypeOK
  BY <1>1 DEF IInv, LogFits, DirFits, LogTypeOK
<1>2. ASSUME IInv, Counts(cat) PROVE CatalogTypeOK
  <2>1. /\ RowsFit(cat) /\ CatShape(cat) /\ ObjectsFit(cat, objects)
    BY <1>2 DEF IInv
  <2>2. \A id \in DOMAIN cat.rows :
          /\ id \in 1 .. cat.nextId - 1
          /\ cat.rows[id].recs \subseteq Record
          /\ cat.rows[id].state \in {"live", "tombstoned"}
          /\ cat.rows[id].level \in 0 .. 2
    BY <2>1 DEF RowsFit, RowFits
  <2> QED
    BY <1>2, <2>1, <2>2 DEF CatShape, ObjectsFit, Counts, CatalogTypeOK
<1>3. ASSUME IInv PROVE batch \in Seq(Record)
  <2>1. BatchFits(up, active, batch, segs, cat.maxSeq)
    BY <1>3 DEF IInv
  <2>2. CASE up = "down"
    <3>1. batch = <<>>
      BY <2>1, <2>2 DEF BatchFits
    <3> QED
      BY <3>1, EmptySeq
  <2>3. CASE up # "down"
    <3>1. batch = segs[active].recs /\ active # 0
      BY <2>1, <2>3 DEF BatchFits
    <3>2. active \in DOMAIN segs /\ segs[active] \in Segment
      BY <1>3, <3>1 DEF IInv, LogFits, DirFits
    <3> QED
      BY <3>1, <3>2 DEF Segment
  <2> QED
    BY <2>2, <2>3
<1>4. ASSUME IInv PROVE acked \subseteq Record /\ dropped \subseteq Record
  <2>1. /\ AckFits(acked, cat, dropped, segs) /\ DroppedFits(cat, dropped) /\ RowsFit(cat)
        /\ DirFits(segs)
    BY <1>4 DEF IInv, LogFits
  <2>2. dropped \subseteq Record
    BY <2>1 DEF DroppedFits
  <2>3. LiveIn(cat) \subseteq Record
    <3>1. ASSUME NEW id \in DOMAIN cat.rows PROVE cat.rows[id].recs \subseteq Record
      <4>1. RowFits(cat, id)
        BY <2>1 DEF RowsFit
      <4> QED
        BY <4>1 DEF RowFits
    <3> QED
      BY <3>1 DEF LiveIn, Live
  <2>4. ASSUME NEW s \in DOMAIN segs PROVE HardOf(segs[s]) \subseteq Record
    <3>1. segs[s] \in Segment /\ segs[s].recs \in Seq(Record) /\ segs[s].hard \in Nat
          /\ segs[s].hard <= Len(segs[s].recs)
      BY <2>1 DEF DirFits, Segment
    <3> QED
      BY <3>1 DEF HardOf
  <2> QED
    BY <2>1, <2>2, <2>3, <2>4 DEF AckFits, Filed
<1>5. ASSUME IInv
      PROVE  /\ up \in {"down", "recovering", "serving"} /\ seq \in Nat
             /\ flusher.step \in {"idle", "next", "intend", "write", "register", "retire"}
             /\ collector.step \in {"idle", "floor", "remove", "forget", "sweep"}
             /\ merge.step \in {"idle", "intend", "write", "publish"}
  BY <1>5 DEF IInv, BatchFits, SeqFits, FlushFits, CollectFits, MergeFits, Busy
<1>6. IInv /\ Counts(cat) => TypeOK
  BY <1>1, <1>2, <1>3, <1>4, <1>5 DEF TypeOK
<1> QED
  BY <1>6, CountersInvariant, PTL
=============================================================================
