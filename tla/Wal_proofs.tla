------------------------------ MODULE Wal_proofs ------------------------------
(***************************************************************************)
(* What Wal guarantees for every buffer size and every bound, proved.      *)
(***************************************************************************)
EXTENDS Wal, SequenceTheorems, TLAPS

\* The i-th frame of a segment that holds the records b.
Entry(b, i) == IF i = 1 THEN Magic ELSE b[i - 1]

\* The records a sync up to n frames covered.
CoveredBy(n) == IF n = 0 THEN 0 ELSE n - 1

\* The log l, its file f and its buffer hold the records b: what writeLocked,
\* Persist and SyncLocked keep, whatever fails in them.
Fits(l, f, b) ==
  /\ l.written <= Len(f.frames)
  /\ ~l.torn => l.written = Len(f.frames)
  /\ f.tail # "clean" => l.torn
  /\ Len(b) + 1 = l.written + Len(l.buffer)
  /\ \A i \in 1..l.written : f.frames[i] = Entry(b, i)
  /\ \A i \in 1..Len(l.buffer) : l.buffer[i] = Entry(b, l.written + i)
  /\ l.synced <= f.safe
  /\ f.safe <= l.written
  /\ l.listed => f.named
  /\ l.pending = Len(b) - CoveredBy(l.synced)

\* The sync in progress is about the open log, and what it copied from it is
\* still true of it.
SyncFits(y, l, f, b) ==
  y.step # "none" =>
    /\ l.active # 0
    /\ y.upTo = Len(y.due) + 1
    /\ f.safe <= y.upTo
    /\ y.upTo <= l.written
    /\ y.covered = Len(y.due) - CoveredBy(l.synced)
    /\ y.listed => l.listed
    /\ y.step = "dir" => f.safe = y.upTo
    /\ Len(y.due) <= Len(b)
    /\ \A i \in 1..Len(y.due) : y.due[i] = b[i]

\* No stop takes the records p from the file f.
Holds(f, p) ==
  /\ f.named
  /\ Len(p) + 1 <= f.safe
  /\ \A i \in 1..Len(p) + 1 : f.frames[i] = Entry(p, i)

\* What is on disk of f is on disk of g.
Keeps(f, g) ==
  /\ f.named => g.named
  /\ f.safe <= g.safe
  /\ g.safe <= Len(g.frames)
  /\ \A i \in 1..f.safe : g.frames[i] = f.frames[i]

\* The active segment is the last one, and no number is used again.
DirFits(a, d) ==
  /\ \A s \in DOMAIN d.files : d.files[s].safe <= Len(d.files[s].frames)
  /\ a # 0 => \A s \in DOMAIN d.files : s <= a
  /\ \A s \in DOMAIN d.unlinked :
       /\ d.unlinked[s].safe <= Len(d.unlinked[s].frames)
       /\ \E t \in DOMAIN d.files : s < t

\* What is promised is in the directory d, where no stop can take it.
Kept(d, p) ==
  /\ DOMAIN p \subseteq DOMAIN d.files
  /\ DOMAIN p \cap DOMAIN d.unlinked = {}
  /\ \A s \in DOMAIN p : Holds(d.files[s], p[s])

IInv ==
  /\ TypeOK
  /\ log.active # 0 => Fits(log, disk.files[log.active], batch)
  /\ SyncFits(sync, log, disk.files[log.active], batch)
  /\ DirFits(log.active, disk)
  /\ Kept(disk, promised)

------------------------------------------------------------------------------
(* The helpers. *)

\* What every helper does to the log and the disk, whether or not it fails.
Moved(l, d, w) ==
  LET f == d.files[l.active]
      g == w.disk.files[l.active]
  IN  /\ w.log \in Log
      /\ w.log.active = l.active
      /\ w.log.closed = l.closed
      /\ DiskOK(w.disk)
      /\ w.disk.unlinked \in {d.unlinked, <<>>}
      /\ DOMAIN w.disk.files = DOMAIN d.files
      /\ \A s \in DOMAIN d.files \ {l.active} :
           w.disk.files[s] \in {d.files[s], [d.files[s] EXCEPT !.named = TRUE]}
      /\ l.written <= w.log.written
      /\ f.named => g.named
      /\ f.safe <= g.safe
      /\ \A i \in 1..l.written : g.frames[i] = f.frames[i]

\* What a write leaves alone besides.
OnlyWritten(l, d, w) ==
  /\ w.log.synced = l.synced
  /\ w.log.listed = l.listed
  /\ w.log.pending = l.pending
  /\ w.disk.unlinked = d.unlinked
  /\ w.disk.files[l.active].safe = d.files[l.active].safe
  /\ w.disk.files[l.active].named = d.files[l.active].named


LEMMA CutWhole ==
  ASSUME NEW l \in Log, NEW f \in File,
         l.written <= Len(f.frames), ~l.torn => l.written = Len(f.frames),
         f.tail # "clean" => l.torn
  PROVE  /\ Cut(l, f) \in File
         /\ Len(Cut(l, f).frames) = l.written
         /\ Cut(l, f).tail = "clean"
         /\ Cut(l, f).safe = f.safe 
         /\ Cut(l, f).named = f.named
         /\ \A i \in 1..l.written : Cut(l, f).frames[i] = f.frames[i]
<1> DEFINE short == SubSeq(f.frames, 1, l.written)
<1>1. f.frames \in Seq(Nat) /\ l.written \in Nat
  BY DEF File, Frame, Log
<1>2. short \in Seq(Nat) /\ Len(short) = l.written /\ \A i \in 1..l.written : short[i] = f.frames[i]
  BY <1>1
<1>3. CASE l.torn
  <2>1. Cut(l, f) = [f EXCEPT !.frames = short, !.tail = "clean"]
    BY <1>3 DEF Cut
  <2>2. Cut(l, f) \in File
    BY <2>1, <1>2 DEF File, Frame
  <2> QED
    BY <2>1, <2>2, <1>2 DEF File
<1>4. CASE ~l.torn
  BY <1>1, <1>4 DEF Cut, File
<1> QED BY <1>3, <1>4 DEF Log

LEMMA PutFile ==
  ASSUME NEW d, DiskOK(d), NEW s \in DOMAIN d.files, NEW g \in File
      PROVE  LET e == [d EXCEPT !.files[s] = g]
             IN  /\ DiskOK(e)
                 /\ e.unlinked = d.unlinked
                 /\ DOMAIN e.files = DOMAIN d.files
                 /\ e.files[s] = g
                 /\ \A t \in DOMAIN d.files \ {s} : e.files[t] = d.files[t]
<1> DEFINE e == [d EXCEPT !.files[s] = g]
<1>1. d = [files |-> d.files, unlinked |-> d.unlinked]
  BY DEF DiskOK
<1>2. e = [files |-> [d.files EXCEPT ![s] = g], unlinked |-> d.unlinked]
  BY <1>1
<1>3. e.files = [d.files EXCEPT ![s] = g] /\ e.unlinked = d.unlinked
  BY <1>2
<1> QED BY <1>2, <1>3 DEF DiskOK, Files


\* What a write that reaches the file leaves.
Flushed(l) == [l EXCEPT !.torn = FALSE, !.written = @ + Len(l.buffer),
                        !.buffer = <<>>]

Longer(f, part) == [f EXCEPT !.frames = @ \o part]

LEMMA LongerIs ==
  ASSUME NEW f \in File, NEW part \in Seq(Frame)
  PROVE  LET g == Longer(f, part)
         IN  /\ g \in File
             /\ Len(g.frames) = Len(f.frames) + Len(part)
             /\ \A i \in 1..Len(f.frames) : g.frames[i] = f.frames[i]
             /\ \A i \in 1..Len(part) : g.frames[Len(f.frames) + i] = part[i]
             /\ g.safe = f.safe /\ g.named = f.named /\ g.tail = f.tail
<1>1. f.frames \in Seq(Nat) /\ part \in Seq(Nat)
  BY DEF File, Frame
<1> DEFINE both == f.frames \o part
<1>2. /\ both \in Seq(Nat)
      /\ Len(both) = Len(f.frames) + Len(part)
      /\ \A i \in 1..Len(f.frames) : both[i] = f.frames[i]
  BY <1>1
<1>3. \A i \in 1..Len(part) : both[Len(f.frames) + i] = part[i]
  BY <1>1
<1> HIDE DEF both
<1>4. /\ Longer(f, part) = [f EXCEPT !.frames = both]
      /\ Longer(f, part) \in File
  BY <1>1, <1>2 DEF Longer, File, Frame, both
<1>5. /\ Longer(f, part).frames = both
      /\ Longer(f, part).safe = f.safe /\ Longer(f, part).named = f.named
      /\ Longer(f, part).tail = f.tail
  BY <1>4 DEF File
<1> QED
  BY <1>2, <1>3, <1>4, <1>5

LEMMA FlushFits ==
  ASSUME NEW l \in Log, NEW f \in File, NEW b \in Seq(Record), Fits(l, f, b),
         Len(f.frames) = l.written, f.tail = "clean"
  PROVE  /\ Flushed(l) \in Log
         /\ Fits(Flushed(l), Longer(f, l.buffer), b)
<1> DEFINE m == Flushed(l)
           g == Longer(f, l.buffer)
<1>1. l.buffer \in Seq(Frame) /\ l.written \in Nat /\ Len(l.buffer) \in Nat
  BY DEF Log, Frame
<1>2. /\ m.written = l.written + Len(l.buffer)
      /\ m.buffer = <<>> /\ Len(m.buffer) = 0 /\ m.torn = FALSE
      /\ m.synced = l.synced /\ m.listed = l.listed /\ m.pending = l.pending
  BY DEF Log, Flushed
<1>3. m \in Log
  <2>1. l.written + Len(l.buffer) \in Nat /\ <<>> \in Seq(Frame)
    BY <1>1
  <2> QED
    BY <2>1 DEF Log, Flushed
<1>4. /\ g \in File
      /\ Len(g.frames) = Len(f.frames) + Len(l.buffer)
      /\ \A i \in 1..Len(f.frames) : g.frames[i] = f.frames[i]
      /\ \A i \in 1..Len(l.buffer) : g.frames[Len(f.frames) + i] = l.buffer[i]
      /\ g.safe = f.safe /\ g.named = f.named /\ g.tail = f.tail
  BY <1>1, LongerIs
<1> HIDE DEF m, g
<1>5. /\ Len(g.frames) = m.written
      /\ \A i \in 1..l.written : g.frames[i] = f.frames[i]
      /\ \A i \in 1..Len(l.buffer) : g.frames[l.written + i] = l.buffer[i]
      /\ f.safe \in Nat
  BY <1>1, <1>2, <1>4 DEF File
<1>6. \A i \in 1..m.written : g.frames[i] = Entry(b, i)
  <2>1. TAKE i \in 1..m.written
  <2>2. CASE i \in 1..l.written
    BY <2>2, <1>5 DEF Fits
  <2>3. CASE i \notin 1..l.written
    <3>1. i - l.written \in 1..Len(l.buffer) /\ l.written + (i - l.written) = i
      BY <2>3, <1>1, <1>2
    <3>2. g.frames[i] = l.buffer[i - l.written]
      BY <3>1, <1>5
    <3> QED
      BY <3>1, <3>2 DEF Fits
  <2> QED
    BY <2>2, <2>3
<1>7. Len(b) + 1 = m.written + Len(m.buffer)
  BY <1>1, <1>2 DEF Fits
<1>8. Fits(m, g, b)
  BY <1>1, <1>2, <1>4, <1>5, <1>6, <1>7 DEF Fits
<1> QED
  BY <1>3, <1>8 DEF m, g

\* What a write that fails, and cannot be cut off, leaves.
Torn(f, part) == [Longer(f, part) EXCEPT !.tail = "torn"]

LEMMA TearFits ==
  ASSUME NEW l \in Log, NEW f \in File, NEW b \in Seq(Record), Fits(l, f, b),
         NEW part \in Seq(Frame)
  PROVE  /\ Tear(l) \in Log /\ Torn(f, part) \in File
         /\ \A i \in 1..l.written : Torn(f, part).frames[i] = f.frames[i]
         /\ Fits(Tear(l), Torn(f, part), b)
<1> DEFINE g == Longer(f, part)
<1>1. l.written \in Nat /\ Len(f.frames) \in Nat /\ Len(part) \in Nat
  BY DEF Log, File, Frame
<1>2. /\ g \in File
      /\ l.written <= Len(g.frames)
      /\ \A i \in 1..l.written : g.frames[i] = f.frames[i]
      /\ g.safe = f.safe /\ g.named = f.named
  BY <1>1, LongerIs DEF Fits
<1> HIDE DEF g
<1>3. /\ Torn(f, part) \in File
      /\ Torn(f, part).frames = g.frames /\ Torn(f, part).safe = g.safe
      /\ Torn(f, part).named = g.named /\ Torn(f, part).tail = "torn"
  BY <1>2 DEF Torn, File, g
<1>4. /\ Tear(l) \in Log
      /\ Tear(l).written = l.written /\ Tear(l).buffer = l.buffer
      /\ Tear(l).synced = l.synced /\ Tear(l).listed = l.listed
      /\ Tear(l).pending = l.pending /\ Tear(l).torn
  BY DEF Log, Tear
<1> QED
  BY <1>2, <1>3, <1>4, SMTT(30) DEF Fits

\* What cutting leaves.
LEMMA CutFits ==
  ASSUME NEW l \in Log, NEW f \in File, NEW b \in Seq(Record), Fits(l, f, b),
         NEW m, m = [l EXCEPT !.torn = FALSE]
  PROVE  /\ m \in Log
         /\ Fits(m, Cut(l, f), b)
         /\ Fits(l, Cut(l, f), b)
<1>1. /\ m \in Log
      /\ m.written = l.written /\ m.buffer = l.buffer /\ m.torn = FALSE
      /\ m.synced = l.synced /\ m.listed = l.listed /\ m.pending = l.pending
      /\ l.written \in Nat
  BY DEF Log
<1> DEFINE g == Cut(l, f)
<1>2. /\ Len(g.frames) = l.written /\ g.tail = "clean"
      /\ g.safe = f.safe /\ g.named = f.named
      /\ \A i \in 1..l.written : g.frames[i] = f.frames[i]
  BY CutWhole DEF Fits
<1> HIDE DEF g
<1> QED
  BY <1>1, <1>2 DEF Fits, g

LEMMA WriteLockedFits ==
  ASSUME NEW l \in Log, NEW d, DiskOK(d), l.active \in DOMAIN d.files,
         NEW b \in Seq(Record), Fits(l, d.files[l.active], b),
         NEW w \in WriteLocked(l, d)
  PROVE  /\ Moved(l, d, w)
         /\ OnlyWritten(l, d, w)
         /\ Fits(w.log, w.disk.files[l.active], b)
         /\ w.ok => w.log.buffer = <<>> /\ ~w.log.torn
<1> DEFINE f == d.files[l.active]
           cut == Cut(l, f)
           whole == [l EXCEPT !.torn = FALSE]
           Put(g) == [d EXCEPT !.files[l.active] = g]
<1> DEFINE m == w.log
           ok == w.ok
           Wrote(g) == m = [whole EXCEPT !.written = @ + Len(l.buffer), !.buffer = <<>>]
                       /\ g = [cut EXCEPT !.frames = @ \o l.buffer]
           Part(g, k) == g = [cut EXCEPT !.frames = @ \o SubSeq(l.buffer, 1, k),
                                         !.tail = "torn"]
           How(g) == \/ m = l /\ g = f /\ ok = FALSE
                     \/ m = whole /\ g = cut /\ (ok = FALSE \/ l.buffer = <<>>)
                     \/ Wrote(g)
                     \/ /\ m = Tear(l) /\ ok = FALSE
                        /\ \E k \in 0 .. Len(l.buffer) - 1 : Part(g, k)
<1>1. PICK g : w.disk = Put(g) /\ How(g)
  <2>1. d = Put(f)
    BY DEF DiskOK, Files
  <2> DEFINE g1 == [cut EXCEPT !.frames = @ \o l.buffer]
             g2(k) == [cut EXCEPT !.frames = @ \o SubSeq(l.buffer, 1, k),
                                  !.tail = "torn"]
             m1 == [whole EXCEPT !.written = @ + Len(l.buffer), !.buffer = <<>>]
  <2>2. \/ w = Result(l, Put(f), FALSE)
        \/ l.buffer = <<>> /\ w = Result(whole, Put(cut), TRUE)
        \/ w = Result(whole, Put(cut), FALSE)
        \/ w = Result(m1, Put(g1), TRUE)
        \/ \E k \in 0 .. Len(l.buffer) - 1 : w = Result(Tear(l), Put(g2(k)), FALSE)
    BY <2>1 DEF WriteLocked
  <2> HIDE DEF f, cut, whole, Put, g1, g2, m1
  <2>3. \/ m = l /\ w.disk = Put(f) /\ ok = FALSE
        \/ m = whole /\ w.disk = Put(cut) /\ (ok = FALSE \/ l.buffer = <<>>)
        \/ m = m1 /\ w.disk = Put(g1)
        \/ /\ m = Tear(l) /\ ok = FALSE
           /\ \E k \in 0 .. Len(l.buffer) - 1 : w.disk = Put(g2(k))
    BY <2>2 DEF Result
  <2> HIDE DEF m, ok
  <2> QED
    BY <2>3 DEF g1, g2, m1
<1>2. /\ f \in File /\ l.active \in Nat \ {0} /\ f.safe \in Nat
  BY DEF DiskOK, Files, File
<1>3. /\ cut \in File
      /\ Len(cut.frames) = l.written
      /\ cut.tail = "clean"
      /\ cut.safe = f.safe /\ cut.named = f.named
      /\ \A i \in 1..l.written : cut.frames[i] = f.frames[i]
  BY <1>2, CutWhole DEF Fits
<1>4. whole \in Log /\ Fits(whole, cut, b) /\ Fits(l, cut, b)
  BY <1>2, CutFits
<1> HIDE DEF f, cut, whole, m, ok
<1>5. /\ m \in Log /\ g \in File /\ Fits(m, g, b)
      /\ g.safe = f.safe /\ g.named = f.named
      /\ m.active = l.active /\ m.closed = l.closed /\ m.synced = l.synced
      /\ m.listed = l.listed /\ m.pending = l.pending /\ l.written <= m.written
      /\ \A i \in 1..l.written : g.frames[i] = f.frames[i]
      /\ ok => m.buffer = <<>> /\ ~m.torn
  <2>1. CASE m = l /\ g = f /\ ok = FALSE
    BY <2>1, <1>2 DEF f, Log
  <2>2. CASE m = whole /\ g = cut /\ (ok = FALSE \/ l.buffer = <<>>)
    BY <2>2, <1>3, <1>4 DEF whole, Log
  <2>3. CASE Wrote(g)
    <3>1. m = Flushed(l) /\ g = Longer(cut, l.buffer)
      BY <2>3 DEF whole, Log, Flushed, Longer
    <3>2. m \in Log /\ Fits(m, g, b)
      BY <3>1, <1>3, <1>4, FlushFits
    <3>3. /\ g \in File /\ g.safe = cut.safe /\ g.named = cut.named
          /\ \A i \in 1..l.written : g.frames[i] = cut.frames[i]
      BY <3>1, <1>3, LongerIs DEF Log
    <3>4. /\ m.active = l.active /\ m.closed = l.closed /\ m.synced = l.synced
          /\ m.listed = l.listed /\ m.pending = l.pending
          /\ m.written = l.written + Len(l.buffer) /\ m.buffer = <<>> /\ ~m.torn
      BY <3>1 DEF Log, Flushed
    <3>5. l.written <= m.written
      BY <3>4 DEF Log
    <3> QED
      BY <3>2, <3>3, <3>4, <3>5, <1>3
  <2>4. CASE /\ m = Tear(l) /\ ok = FALSE
             /\ \E k \in 0 .. Len(l.buffer) - 1 : Part(g, k)
    <3>1. PICK k \in 0 .. Len(l.buffer) - 1 : Part(g, k)
      BY <2>4
    <3>2. SubSeq(l.buffer, 1, k) \in Seq(Frame)
      BY <3>1 DEF Log
    <3>3. m = Tear(l) /\ g = Torn(cut, SubSeq(l.buffer, 1, k))
      BY <2>4, <3>1, <1>3 DEF Torn, Longer, File
    <3>4. /\ m \in Log /\ g \in File /\ Fits(m, g, b)
          /\ \A i \in 1..l.written : g.frames[i] = cut.frames[i]
      BY <3>2, <3>3, <1>3, <1>4, TearFits
    <3>5. /\ g.safe = cut.safe /\ g.named = cut.named
          /\ m.active = l.active /\ m.closed = l.closed /\ m.synced = l.synced
          /\ m.listed = l.listed /\ m.pending = l.pending /\ m.written = l.written
      BY <3>1, <3>3, <1>3 DEF Log, File, Tear
    <3>6. l.written <= m.written
      BY <3>5 DEF Log
    <3> QED
      BY <2>4, <3>4, <3>5, <3>6, <1>3
  <2> QED
    BY <1>1, <2>1, <2>2, <2>3, <2>4
<1>6. w.log = m /\ w.disk = Put(g) /\ w.ok = ok
  BY <1>1 DEF m, ok
<1>7. /\ DiskOK(w.disk)
      /\ w.disk.unlinked = d.unlinked
      /\ DOMAIN w.disk.files = DOMAIN d.files
      /\ w.disk.files[l.active] = g
      /\ \A s \in DOMAIN d.files \ {l.active} : w.disk.files[s] = d.files[s]
  BY <1>5, <1>6, PutFile
<1> HIDE DEF Put
<1>8. Moved(l, d, w)
  BY <1>2, <1>5, <1>6, <1>7 DEF Moved, f
<1>9. OnlyWritten(l, d, w)
  BY <1>5, <1>6, <1>7 DEF OnlyWritten, f
<1> QED
  BY <1>5, <1>6, <1>7, <1>8, <1>9

LEMMA MovedTwice ==
  ASSUME NEW l \in Log, NEW d, DiskOK(d), l.active \in DOMAIN d.files,
         NEW v, NEW w, Moved(l, d, v), Moved(v.log, v.disk, w)
  PROVE  Moved(l, d, w)
<1>1. /\ v.log \in Log /\ v.log.active = l.active /\ v.log.closed = l.closed
      /\ DOMAIN v.disk.files = DOMAIN d.files
      /\ l.written <= v.log.written
  BY DEF Moved
<1>2. /\ w.log \in Log /\ w.log.active = l.active /\ w.log.closed = l.closed
      /\ DiskOK(w.disk)
      /\ w.disk.unlinked \in {d.unlinked, <<>>}
      /\ DOMAIN w.disk.files = DOMAIN d.files
  BY <1>1 DEF Moved
<1>3. /\ l.written \in Nat /\ v.log.written \in Nat /\ w.log.written \in Nat
  BY <1>1, <1>2 DEF Log
<1>4. l.written <= w.log.written
  <2>1. v.log.written <= w.log.written
    BY DEF Moved
  <2> QED
    BY <1>1, <1>3, <2>1
<1>5. ASSUME NEW s \in DOMAIN d.files \ {l.active}
      PROVE  w.disk.files[s] \in {d.files[s], [d.files[s] EXCEPT !.named = TRUE]}
  <2>1. d.files[s] \in File
    BY DEF DiskOK, Files
  <2>2. v.disk.files[s] \in {d.files[s], [d.files[s] EXCEPT !.named = TRUE]}
    BY DEF Moved
  <2>3. w.disk.files[s] \in {v.disk.files[s], [v.disk.files[s] EXCEPT !.named = TRUE]}
    BY <1>1 DEF Moved
  <2> QED
    BY <2>1, <2>2, <2>3 DEF File
<1>6. /\ d.files[l.active].named => w.disk.files[l.active].named
      /\ d.files[l.active].safe <= w.disk.files[l.active].safe
  <2>1. /\ d.files[l.active] \in File /\ v.disk.files[l.active] \in File
        /\ w.disk.files[l.active] \in File
    BY <1>1, <1>2 DEF DiskOK, Files, Moved
  <2>2. /\ d.files[l.active].safe \in Nat /\ v.disk.files[l.active].safe \in Nat
        /\ w.disk.files[l.active].safe \in Nat
    BY <2>1 DEF File
  <2>3. /\ d.files[l.active].named => v.disk.files[l.active].named
        /\ d.files[l.active].safe <= v.disk.files[l.active].safe
    BY DEF Moved
  <2>4. /\ v.disk.files[l.active].named => w.disk.files[l.active].named
        /\ v.disk.files[l.active].safe <= w.disk.files[l.active].safe
    BY <1>1 DEF Moved
  <2>5. d.files[l.active].named => w.disk.files[l.active].named
    BY <2>3, <2>4
  <2>6. d.files[l.active].safe <= w.disk.files[l.active].safe
    BY <2>2, <2>3, <2>4
  <2> QED
    BY <2>5, <2>6
<1>7. \A i \in 1..l.written :
        w.disk.files[l.active].frames[i] = d.files[l.active].frames[i]
  <2>1. TAKE i \in 1..l.written
  <2>2. i \in 1..v.log.written
    BY <1>1, <1>3
  <2>3. v.disk.files[l.active].frames[i] = d.files[l.active].frames[i]
    BY DEF Moved
  <2>4. w.disk.files[l.active].frames[i] = v.disk.files[l.active].frames[i]
    BY <1>1, <2>2 DEF Moved
  <2> QED
    BY <2>3, <2>4
<1> QED
  BY <1>1, <1>2, <1>4, <1>5, <1>6, <1>7 DEF Moved

LEMMA MovedLog ==
  ASSUME NEW l, NEW d, NEW p, NEW w, Moved(l, d, p), w.disk = p.disk, w.log \in Log,
         w.log.active = p.log.active, w.log.closed = p.log.closed,
         w.log.written = p.log.written
  PROVE  Moved(l, d, w)
<1>1. /\ w.log.active = l.active /\ w.log.closed = l.closed
      /\ l.written <= w.log.written
  BY DEF Moved
<1> QED
  BY <1>1, Zenon DEF Moved

LEMMA FileSyncedIs ==
  ASSUME NEW d, DiskOK(d), NEW s \in DOMAIN d.files, NEW n \in Nat
  PROVE  LET e == FileSynced(d, s, n)
         IN  /\ DiskOK(e)
             /\ e.unlinked = d.unlinked
             /\ DOMAIN e.files = DOMAIN d.files
             /\ e.files[s] = [d.files[s] EXCEPT !.safe = n]
             /\ \A t \in DOMAIN d.files \ {s} : e.files[t] = d.files[t]
<1> DEFINE g == [d.files[s] EXCEPT !.safe = n]
<1>1. g \in File
  BY DEF DiskOK, Files, File
<1>2. FileSynced(d, s, n) = [d EXCEPT !.files[s] = g]
  BY DEF FileSynced, DiskOK, Files
<1> HIDE DEF g
<1>3. /\ DiskOK(FileSynced(d, s, n))
      /\ FileSynced(d, s, n).unlinked = d.unlinked
      /\ DOMAIN FileSynced(d, s, n).files = DOMAIN d.files
      /\ FileSynced(d, s, n).files[s] = g
      /\ \A t \in DOMAIN d.files \ {s} : FileSynced(d, s, n).files[t] = d.files[t]
  BY <1>1, <1>2, PutFile
<1> QED
  BY <1>3 DEF g

LEMMA DirSyncedIs ==
  ASSUME NEW d, DiskOK(d)
  PROVE  LET e == DirSynced(d)
         IN  /\ DiskOK(e)
             /\ e.unlinked = <<>>
             /\ DOMAIN e.files = DOMAIN d.files
             /\ \A t \in DOMAIN d.files : e.files[t] = [d.files[t] EXCEPT !.named = TRUE]
<1> DEFINE e == DirSynced(d)
<1>1. /\ e.files = [s \in DOMAIN d.files |-> [d.files[s] EXCEPT !.named = TRUE]]
      /\ e.unlinked = <<>>
      /\ e = [files |-> e.files, unlinked |-> e.unlinked]
  BY DEF DirSynced
<1>2. \A t \in DOMAIN d.files : [d.files[t] EXCEPT !.named = TRUE] \in File
  BY DEF DiskOK, Files, File
<1>3. DOMAIN <<>> = {}
  OBVIOUS
<1> HIDE DEF e
<1>4. DiskOK(e)
  BY <1>1, <1>2, <1>3 DEF DiskOK, Files
<1> QED
  BY <1>1, <1>4 DEF e

LEMMA PersistFits ==
  ASSUME NEW l \in Log, NEW d, DiskOK(d), l.active \in DOMAIN d.files,
         NEW b \in Seq(Record), Fits(l, d.files[l.active], b),
         NEW p \in Persist(l, d)
  PROVE  LET g == p.disk.files[l.active]
         IN  /\ p.log = l
             /\ Moved(l, d, p)
             /\ Fits(l, g, b)
             /\ g.frames = d.files[l.active].frames
             /\ g.tail = d.files[l.active].tail
             /\ p.ok => g.safe = l.written /\ g.named
<1> DEFINE f == d.files[l.active]
           hard == FileSynced(d, l.active, l.written)
           g == p.disk.files[l.active]
<1>1. /\ f \in File /\ l.written \in Nat /\ l.synced \in Nat /\ f.safe \in Nat
  BY DEF DiskOK, Files, File, Log
<1>2. p.log = l /\ (p.disk = d \/ p.disk = hard \/ p.disk = DirSynced(hard))
  BY DEF Persist, Result
<1>3. p.ok => \/ p.disk = hard /\ l.listed
              \/ p.disk = DirSynced(hard)
  BY DEF Persist, Result
<1>4. /\ DiskOK(hard) /\ hard.unlinked = d.unlinked
      /\ DOMAIN hard.files = DOMAIN d.files
      /\ hard.files[l.active] = [f EXCEPT !.safe = l.written]
      /\ \A t \in DOMAIN d.files \ {l.active} : hard.files[t] = d.files[t]
  BY <1>1, FileSyncedIs
<1> HIDE DEF hard
<1>5. /\ DiskOK(DirSynced(hard)) /\ DirSynced(hard).unlinked = <<>>
      /\ DOMAIN DirSynced(hard).files = DOMAIN d.files
      /\ \A t \in DOMAIN d.files :
           DirSynced(hard).files[t] = [hard.files[t] EXCEPT !.named = TRUE]
  BY <1>4, DirSyncedIs
<1>6. /\ DiskOK(p.disk) /\ p.disk.unlinked \in {d.unlinked, <<>>}
      /\ DOMAIN p.disk.files = DOMAIN d.files
      /\ g \in {f, [f EXCEPT !.safe = l.written],
                [[f EXCEPT !.safe = l.written] EXCEPT !.named = TRUE]}
      /\ \A s \in DOMAIN d.files \ {l.active} :
           p.disk.files[s] \in {d.files[s], [d.files[s] EXCEPT !.named = TRUE]}
  BY <1>2, <1>4, <1>5, ZenonT(40)
<1>7. p.ok => \/ g = [f EXCEPT !.safe = l.written] /\ l.listed
              \/ g = [[f EXCEPT !.safe = l.written] EXCEPT !.named = TRUE]
  BY <1>3, <1>4, <1>5, ZenonT(40)
<1> HIDE DEF f, g
<1>8. /\ g.frames = f.frames /\ g.tail = f.tail
      /\ g.safe \in {f.safe, l.written}
      /\ f.named => g.named
  BY <1>1, <1>6 DEF File
<1>9. p.ok => g.safe = l.written /\ g.named
  BY <1>1, <1>7 DEF File, Fits, f
<1>10. Fits(l, f, b)
  BY DEF f
<1>11. Fits(l, g, b)
  BY <1>1, <1>8, <1>10 DEF Fits
<1>12. f.safe <= g.safe
  BY <1>1, <1>8, <1>10 DEF Fits
<1>13. Moved(l, d, p)
  <2>1. /\ p.log \in Log /\ p.log.active = l.active /\ p.log.closed = l.closed
        /\ l.written <= p.log.written
    BY <1>1, <1>2
  <2>2. \A i \in 1..l.written : g.frames[i] = f.frames[i]
    BY <1>8
  <2> QED
    BY <1>6, <1>8, <1>12, <2>1, <2>2, Zenon DEF Moved, f, g
<1> QED
  BY <1>2, <1>8, <1>9, <1>11, <1>13 DEF f, g

\* What a sync that succeeded leaves.
Whole(l, f, b) ==
  /\ l.buffer = <<>>
  /\ l.pending = 0
  /\ f.tail = "clean"
  /\ f.named
  /\ f.safe = Len(b) + 1
  /\ Len(f.frames) = Len(b) + 1

LEMMA SyncLockedFits ==
  ASSUME NEW l \in Log, NEW d, DiskOK(d), l.active \in DOMAIN d.files,
         NEW b \in Seq(Record), Fits(l, d.files[l.active], b),
         NEW w \in SyncLocked(l, d)
  PROVE  /\ Moved(l, d, w)
         /\ Fits(w.log, w.disk.files[l.active], b)
         /\ w.ok => Whole(w.log, w.disk.files[l.active], b)
<1>1. CASE ~Dirty(l)
  <2> DEFINE f == d.files[l.active]
  <2>1. w.log = l /\ w.disk = d
    BY <1>1 DEF SyncLocked, Result
  <2>2. /\ f \in File /\ f.safe \in Nat /\ l.synced \in Nat /\ l.written \in Nat
        /\ Len(b) \in Nat
    BY DEF DiskOK, Files, File, Log
  <2>3. Moved(l, d, w)
    BY <2>1, <2>2 DEF Moved
  <2>4. /\ l.buffer = <<>> /\ Len(l.buffer) = 0 /\ ~l.torn /\ l.listed
        /\ l.written = l.synced
    BY <1>1 DEF Dirty
  <2> HIDE DEF f
  <2>5. Fits(l, f, b)
    BY DEF f
  <2>6. l.written = Len(b) + 1 /\ f.safe = l.written
    BY <2>2, <2>4, <2>5 DEF Fits
  <2>7. f.tail = "clean" /\ f.named /\ Len(f.frames) = l.written
    BY <2>4, <2>5 DEF Fits
  <2>8. l.pending = 0
    BY <2>2, <2>4, <2>5, <2>6 DEF Fits, CoveredBy
  <2> QED
    BY <2>1, <2>3, <2>4, <2>5, <2>6, <2>7, <2>8 DEF Whole, f
<1>2. CASE Dirty(l)
  <2>1. PICK v \in WriteLocked(l, d) :
          \/ ~v.ok /\ w = v
          \/ v.ok /\ \E p \in Persist(v.log, v.disk) :
               \/ ~p.ok /\ w = p
               \/ p.ok /\ w = Result([p.log EXCEPT !.synced = p.log.written,
                                                   !.listed = TRUE, !.pending = 0],
                                     p.disk, TRUE)
    BY <1>2 DEF SyncLocked
  <2>2. /\ Moved(l, d, v)
        /\ Fits(v.log, v.disk.files[l.active], b)
        /\ v.ok => v.log.buffer = <<>> /\ ~v.log.torn
    BY WriteLockedFits
  <2>3. /\ v.log \in Log /\ DiskOK(v.disk) /\ v.log.active = l.active
        /\ l.active \in DOMAIN v.disk.files
    BY <2>2 DEF Moved
  <2>4. CASE ~v.ok /\ w = v
    BY <2>2, <2>4
  <2>5. CASE v.ok /\ \E p \in Persist(v.log, v.disk) :
               \/ ~p.ok /\ w = p
               \/ p.ok /\ w = Result([p.log EXCEPT !.synced = p.log.written,
                                                   !.listed = TRUE, !.pending = 0],
                                     p.disk, TRUE)
    <3>1. PICK p \in Persist(v.log, v.disk) :
               \/ ~p.ok /\ w = p
               \/ p.ok /\ w = Result([p.log EXCEPT !.synced = p.log.written,
                                                   !.listed = TRUE, !.pending = 0],
                                     p.disk, TRUE)
      BY <2>5
    <3> DEFINE g == p.disk.files[l.active]
    <3>2. /\ p.log = v.log
          /\ Moved(v.log, v.disk, p)
          /\ Fits(v.log, g, b)
          /\ p.ok => g.safe = v.log.written /\ g.named
      BY <2>2, <2>3, PersistFits, SMTT(30)
    <3>3. Moved(l, d, p)
      BY <2>2, <3>2, MovedTwice
    <3>4. CASE ~p.ok /\ w = p
      BY <3>2, <3>3, <3>4
    <3>5. CASE p.ok /\ w = Result([p.log EXCEPT !.synced = p.log.written,
                                                !.listed = TRUE, !.pending = 0],
                                  p.disk, TRUE)
      <4> DEFINE m == [v.log EXCEPT !.synced = v.log.written, !.listed = TRUE,
                                    !.pending = 0]
      <4>1. w.log = m /\ w.disk = p.disk
        BY <3>2, <3>5 DEF Result
      <4>2. /\ m \in Log /\ m.active = v.log.active /\ m.closed = v.log.closed
            /\ m.written = v.log.written /\ m.synced = v.log.written
            /\ m.buffer = <<>> /\ Len(m.buffer) = 0 /\ m.pending = 0
            /\ m.torn = FALSE /\ m.listed
            /\ v.log.written \in Nat /\ Len(b) \in Nat
        <5>1. v.log.written \in Nat /\ v.log.buffer = <<>> /\ v.log.torn = FALSE
          BY <2>2, <2>3, <2>5 DEF Log
        <5>2. m \in Log
          BY <2>3, <5>1 DEF Log
        <5>3. /\ m.active = v.log.active /\ m.closed = v.log.closed
              /\ m.written = v.log.written /\ m.synced = v.log.written
              /\ m.buffer = v.log.buffer /\ m.torn = v.log.torn
              /\ m.listed /\ m.pending = 0
          BY <2>3 DEF Log
        <5>4. Len(<<>>) = 0 /\ Len(b) \in Nat
          OBVIOUS
        <5> QED
          BY <5>1, <5>2, <5>3, <5>4
      <4> HIDE DEF m, g
      <4>3. v.log.written = Len(b) + 1
        BY <2>2, <2>5, <4>2 DEF Fits
      <4>4. ~v.log.torn /\ g.safe = v.log.written /\ g.named /\ v.log.buffer = <<>>
        BY <2>2, <2>5, <3>2, <3>5
      <4>5. Fits(m, g, b)
        BY <3>2, <4>2, <4>3, <4>4 DEF Fits, CoveredBy
      <4>6. Whole(m, g, b)
        BY <3>2, <4>2, <4>3, <4>4 DEF Fits, Whole
      <4>7. Moved(l, d, w)
        BY <3>2, <3>3, <4>1, <4>2, MovedLog
      <4> QED
        BY <4>1, <4>5, <4>6, <4>7 DEF g
    <3> QED
      BY <3>1, <3>4, <3>5
  <2> QED
    BY <2>1, <2>4, <2>5
<1> QED
  BY <1>1, <1>2

------------------------------------------------------------------------------
(* The directory and the promises. *)

LEMMA KeptMoves ==
  ASSUME NEW d, NEW e, NEW p, p \in [DOMAIN p -> Seq(Record)], Kept(d, p),
         DiskOK(d), DiskOK(e),
         \A s \in DOMAIN p : /\ s \in DOMAIN e.files
                             /\ s \notin DOMAIN e.unlinked
                             /\ Keeps(d.files[s], e.files[s])
  PROVE  Kept(e, p)
<1>1. ASSUME NEW s \in DOMAIN p PROVE Holds(e.files[s], p[s])
  <2> DEFINE f == d.files[s]
             g == e.files[s]
             q == p[s]
  <2>1. Holds(f, q) /\ Keeps(f, g)
    BY <1>1 DEF Kept
  <2>2. f \in File /\ g \in File /\ f.safe \in Nat /\ g.safe \in Nat /\ Len(q) \in Nat
    BY <1>1 DEF DiskOK, Files, Kept, File
  <2> HIDE DEF f, g, q
  <2>3. Holds(g, q)
    BY <2>1, <2>2, SMTT(30) DEF Holds, Keeps
  <2> QED
    BY <2>3 DEF g, q
<1> QED
  BY <1>1 DEF Kept

LEMMA KeptPromise ==
  ASSUME NEW d, NEW p, Kept(d, p), NEW s \in DOMAIN d.files,
         s \notin DOMAIN d.unlinked, NEW q, Holds(d.files[s], q)
  PROVE  Kept(d, With(p, s, q))
BY DEF Kept, With

\* A helper keeps the directory and the promises.
LEMMA MovedDir ==
  ASSUME NEW l \in Log, NEW d, DiskOK(d), l.active \in DOMAIN d.files,
         NEW b \in Seq(Record), Fits(l, d.files[l.active], b),
         NEW w, Moved(l, d, w), Fits(w.log, w.disk.files[l.active], b),
         DirFits(l.active, d),
         NEW p, p \in [DOMAIN p -> Seq(Record)]
  PROVE  /\ DirFits(l.active, w.disk)
         /\ Kept(d, p) => Kept(w.disk, p)
<1> DEFINE e == w.disk
<1>1. /\ DiskOK(e) /\ DOMAIN e.files = DOMAIN d.files
      /\ e.unlinked \in {d.unlinked, <<>>}
      /\ DOMAIN <<>> = {}
      /\ w.log \in Log /\ w.log.written \in Nat
  BY DEF Moved, Log
<1>2. ASSUME NEW s \in DOMAIN d.files
      PROVE  Keeps(d.files[s], e.files[s])
  <2> DEFINE f == d.files[s]
             g == e.files[s]
  <2>1. /\ f \in File /\ g \in File /\ f.safe \in Nat /\ g.safe \in Nat
        /\ f.safe <= Len(f.frames) /\ l.written \in Nat
        /\ Len(g.frames) \in Nat
    <3>1. f \in File /\ g \in File /\ l.written \in Nat /\ f.safe <= Len(f.frames)
      BY <1>1 DEF DiskOK, Files, Log, DirFits
    <3> HIDE DEF f, g
    <3> QED
      BY <3>1 DEF File
  <2>2. CASE s = l.active
    <3>1. /\ f.named => g.named
          /\ f.safe <= g.safe
          /\ f.safe <= l.written
          /\ \A i \in 1..l.written : g.frames[i] = f.frames[i]
      BY <2>2 DEF Moved, Fits
    <3>2. g.safe <= Len(g.frames)
      <4>1. g.safe <= w.log.written /\ w.log.written <= Len(g.frames)
        BY <2>2 DEF Fits
      <4> QED
        BY <1>1, <2>1, <4>1
    <3> HIDE DEF f, g
    <3>3. \A i \in 1..f.safe : g.frames[i] = f.frames[i]
      BY <2>1, <3>1
    <3> QED
      BY <3>1, <3>2, <3>3 DEF Keeps, f, g
  <2>3. CASE s # l.active
    <3>1. g \in {f, [f EXCEPT !.named = TRUE]}
      BY <2>3 DEF Moved
    <3>2. g.frames = f.frames /\ g.safe = f.safe /\ (f.named => g.named)
      BY <2>1, <3>1 DEF File
    <3> QED
      BY <2>1, <3>2 DEF Keeps
  <2> QED
    BY <2>2, <2>3
<1>3. DirFits(l.active, e)
  BY <1>1, <1>2 DEF DirFits, Keeps
<1>4. ASSUME Kept(d, p) PROVE Kept(e, p)
  <2>1. \A s \in DOMAIN p : /\ s \in DOMAIN e.files
                            /\ s \notin DOMAIN e.unlinked
                            /\ Keeps(d.files[s], e.files[s])
    BY <1>1, <1>2, <1>4 DEF Kept
  <2> QED
    BY <1>1, <1>4, <2>1, KeptMoves
<1> QED
  BY <1>3, <1>4

\* What an append does to the log in memory.
LEMMA AppendFits ==
  ASSUME NEW l \in Log, NEW f \in File, NEW b \in Seq(Record), Fits(l, f, b),
         NEW r \in Record
  PROVE  LET m == [l EXCEPT !.buffer = Append(@, r), !.pending = @ + 1]
         IN  m \in Log /\ Fits(m, f, Append(b, r))
<1> DEFINE m == [l EXCEPT !.buffer = Append(@, r), !.pending = @ + 1]
           more == Append(l.buffer, r)
           c == Append(b, r)
<1>1. /\ l.buffer \in Seq(Nat) /\ r \in Nat /\ l.pending \in Nat
      /\ l.written \in Nat /\ l.synced \in Nat /\ Len(l.buffer) \in Nat
      /\ Len(b) \in Nat
  BY DEF Log, Frame, Record
<1>2. /\ more \in Seq(Nat) /\ Len(more) = Len(l.buffer) + 1
      /\ \A i \in 1..Len(l.buffer) : more[i] = l.buffer[i]
      /\ more[Len(l.buffer) + 1] = r
  BY <1>1
<1>3. /\ c \in Seq(Record) /\ Len(c) = Len(b) + 1
      /\ \A i \in 1..Len(b) : c[i] = b[i]
      /\ c[Len(b) + 1] = r
  BY <1>1
<1> HIDE DEF more, c
<1>4. /\ m \in Log
      /\ m.written = l.written /\ m.buffer = more /\ m.torn = l.torn
      /\ m.synced = l.synced /\ m.listed = l.listed /\ m.pending = l.pending + 1
  <2>1. m = [l EXCEPT !.buffer = more, !.pending = l.pending + 1]
    BY DEF more
  <2>2. more \in Seq(Frame) /\ l.pending + 1 \in Nat
    BY <1>1, <1>2 DEF Frame
  <2> QED
    BY <2>1, <2>2 DEF Log
<1> HIDE DEF m
<1>5. Len(b) + 1 = l.written + Len(l.buffer)
  BY DEF Fits
<1>6. \A i \in 1..Len(b) + 1 : Entry(c, i) = Entry(b, i)
  <2>1. TAKE i \in 1..Len(b) + 1
  <2>2. i # 1 => i - 1 \in 1..Len(b)
    BY <1>1
  <2> QED
    BY <1>3, <2>2 DEF Entry
<1>7. \A i \in 1..l.written : f.frames[i] = Entry(c, i)
  BY <1>1, <1>5, <1>6 DEF Fits
<1>8. ASSUME NEW i \in 1..Len(more) PROVE more[i] = Entry(c, l.written + i)
  <2>1. CASE i \in 1..Len(l.buffer)
    <3>1. l.written + i \in 1..Len(b) + 1
      <4>1. l.written \in Nat /\ Len(l.buffer) \in Nat /\ Len(b) \in Nat
        BY <1>1
      <4> QED
        BY <4>1, <1>5, <2>1
    <3>2. more[i] = Entry(b, l.written + i)
      BY <1>2, <2>1 DEF Fits
    <3> QED
      BY <1>6, <3>1, <3>2
  <2>2. CASE i = Len(l.buffer) + 1
    <3>1. l.written + i = Len(b) + 2
      BY <1>1, <1>5, <2>2
    <3>2. Entry(c, l.written + i) = r
      BY <1>1, <1>3, <3>1 DEF Entry
    <3> QED
      BY <1>2, <2>2, <3>2
  <2> QED
    BY <1>1, <1>2, <2>1, <2>2
<1>9. /\ Len(c) + 1 = m.written + Len(m.buffer)
      /\ m.pending = Len(c) - CoveredBy(m.synced)
  <2>1. CoveredBy(l.synced) \in Nat /\ CoveredBy(m.synced) = CoveredBy(l.synced)
    BY <1>1, <1>4 DEF CoveredBy
  <2>2. l.pending = Len(b) - CoveredBy(l.synced)
    BY DEF Fits
  <2>3. Len(c) + 1 = m.written + Len(m.buffer)
    BY <1>1, <1>2, <1>3, <1>4, <1>5, SMTT(30)
  <2>4. m.pending = Len(c) - CoveredBy(l.synced)
    BY <1>1, <1>3, <1>4, <2>1, <2>2
  <2> QED
    BY <2>1, <2>3, <2>4
<1>10. Fits(m, f, c)
  BY <1>1, <1>4, <1>7, <1>8, <1>9 DEF Fits
<1> QED
  BY <1>4, <1>10 DEF m, c

\* A new segment.
LEMMA AddFile ==
  ASSUME NEW d, DiskOK(d), NEW n \in Nat \ {0}, \A s \in DOMAIN d.files : s < n,
         NEW a, DirFits(a, d), NEW p
  PROVE  LET e == [d EXCEPT !.files = With(@, n, EmptyFile)]
         IN  /\ DiskOK(e)
             /\ n \in DOMAIN e.files
             /\ e.files[n] = EmptyFile
             /\ DirFits(n, e)
             /\ Kept(d, p) => Kept(e, p)
<1> DEFINE e == [d EXCEPT !.files = With(@, n, EmptyFile)]
<1>1. e = [files |-> With(d.files, n, EmptyFile), unlinked |-> d.unlinked]
  BY DEF DiskOK
<1>2. EmptyFile \in File /\ EmptyFile.safe = 0 /\ EmptyFile.frames = <<>> /\ Len(<<>>) = 0
  BY DEF EmptyFile, File
<1> HIDE DEF e
<1>3. /\ DOMAIN e.files = DOMAIN d.files \cup {n}
      /\ e.files[n] = EmptyFile
      /\ \A s \in DOMAIN d.files : e.files[s] = d.files[s]
      /\ e.unlinked = d.unlinked
      /\ e.files \in [DOMAIN d.files \cup {n} -> File]
      /\ e = [files |-> e.files, unlinked |-> e.unlinked]
  BY <1>1, <1>2 DEF With, DiskOK, Files
<1>4. DiskOK(e)
  BY <1>3 DEF DiskOK, Files
<1>5. DirFits(n, e)
  <2>1. \A s \in DOMAIN e.files : e.files[s].safe <= Len(e.files[s].frames)
    BY <1>2, <1>3 DEF DirFits
  <2>2. \A s \in DOMAIN e.files : s <= n
    BY <1>3 DEF DiskOK, Files
  <2> QED
    BY <1>3, <2>1, <2>2 DEF DirFits
<1>6. Kept(d, p) => Kept(e, p)
  BY <1>3 DEF Kept
<1> QED
  BY <1>3, <1>4, <1>5, <1>6 DEF e

LEMMA StartedFits ==
  ASSUME NEW n \in Nat
  PROVE  /\ Started(n) \in Log
         /\ Started(n).active = n
         /\ Fits(Started(n), EmptyFile, <<>>)
<1>1. <<Magic>> \in Seq(Frame) /\ Len(<<Magic>>) = 1 /\ <<Magic>>[1] = Magic /\ Len(<<>>) = 0
  BY DEF Magic, Frame
<1>2. Started(n) \in Log
  BY <1>1 DEF Log, Started
<1> QED
  BY <1>1, <1>2 DEF Started, Fits, EmptyFile, CoveredBy, Entry

LEMMA NoLogIs == NoLog \in Log /\ NoLog.active = 0
<1>1. <<>> \in Seq(Frame)
  OBVIOUS
<1>2. Started(0) \in Log /\ Started(0).active = 0
  BY StartedFits
<1> HIDE DEF Started
<1> QED
  BY <1>1, <1>2 DEF NoLog, Log

LEMMA NoSyncIs == NoSync \in Syncing /\ NoSync.step = "none"
<1>1. <<>> \in Seq(Record)
  OBVIOUS
<1> QED
  BY <1>1 DEF NoSync, Syncing

------------------------------------------------------------------------------
(* The invariant. *)

LEMMA InitInv == Init => IInv
<1> SUFFICES ASSUME Init PROVE IInv
  OBVIOUS
<1>1. DOMAIN <<>> = {} /\ <<>> \in Seq(Record)
  OBVIOUS
<1>2. DiskOK(disk)
  BY <1>1 DEF Init, DiskOK, Files
<1>3. TypeOK
  BY <1>1, <1>2, NoLogIs, NoSyncIs DEF Init, TypeOK
<1>4. SyncFits(sync, log, disk.files[log.active], batch)
  BY NoSyncIs DEF Init, SyncFits
<1>5. DirFits(log.active, disk) /\ Kept(disk, promised)
  BY <1>1, NoLogIs DEF Init, DirFits, Kept
<1> QED
  BY <1>3, <1>4, <1>5, NoLogIs DEF Init, IInv

LEMMA OpenInv ==
  ASSUME IInv, Open
  PROVE  IInv'
<1>1. PICK n \in NextNumber :
        /\ log' = Started(n)
        /\ disk' = [disk EXCEPT !.files = With(@, n, EmptyFile)]
  BY DEF Open
<1>2. /\ log.active = 0 /\ batch' = <<>> /\ <<>> \in Seq(Record)
      /\ UNCHANGED <<sync, promised, late, issued, faults, stops>>
  BY DEF Open
<1>3. n \in Nat \ {0} /\ \A s \in DOMAIN disk.files : s < n
  BY DEF NextNumber, IInv, TypeOK, DiskOK, Files
<1>4. /\ DiskOK(disk') /\ n \in DOMAIN disk'.files
      /\ disk'.files[n] = EmptyFile
      /\ DirFits(n, disk')
      /\ Kept(disk, promised) => Kept(disk', promised)
  BY <1>1, <1>3, AddFile DEF IInv, TypeOK
<1>5. log' \in Log /\ log'.active = n /\ Fits(log', EmptyFile, <<>>)
  BY <1>1, <1>3, StartedFits
<1>6. TypeOK'
  BY <1>2, <1>4, <1>5 DEF IInv, TypeOK
<1>7. SyncFits(sync', log', disk'.files[log'.active], batch')
  BY <1>2 DEF IInv, SyncFits
<1> QED
  BY <1>2, <1>4, <1>5, <1>6, <1>7 DEF IInv

\* The steps that run a helper on the open log, seen from the invariant.
LEMMA HelperFits ==
  ASSUME IInv, log.active # 0
  PROVE  /\ log \in Log /\ DiskOK(disk) /\ log.active \in DOMAIN disk.files
         /\ disk.files[log.active] \in File
         /\ batch \in Seq(Record)
         /\ Fits(log, disk.files[log.active], batch)
         /\ DirFits(log.active, disk)
         /\ promised \in [DOMAIN promised -> Seq(Record)]
BY DEF IInv, TypeOK, DiskOK, Files

\* An append, a write or a failed call leaves what the sync in progress
\* copied true.
LEMMA SyncStaysFit ==
  ASSUME NEW y \in Syncing, NEW l \in Log, NEW f \in File, NEW b \in Seq(Record),
         SyncFits(y, l, f, b),
         NEW m \in Log, NEW g \in File, NEW c \in Seq(Record),
         m.active = l.active, m.synced = l.synced, l.listed => m.listed,
         l.written <= m.written, g.safe = f.safe,
         Len(b) <= Len(c), \A i \in 1..Len(b) : c[i] = b[i]
  PROVE  SyncFits(y, m, g, c)
<1> SUFFICES ASSUME y.step # "none" PROVE SyncFits(y, m, g, c)
  BY DEF SyncFits
<1>1. /\ y.upTo \in Nat /\ l.written \in Nat /\ m.written \in Nat
      /\ Len(y.due) \in Nat /\ Len(b) \in Nat /\ Len(c) \in Nat
  BY DEF Syncing, Log
<1>2. y.upTo <= m.written /\ Len(y.due) <= Len(c)
  BY <1>1 DEF SyncFits
<1>3. \A i \in 1..Len(y.due) : y.due[i] = c[i]
  BY <1>1 DEF SyncFits
<1> QED
  BY <1>2, <1>3 DEF SyncFits

LEMMA AppendInv ==
  ASSUME IInv, AppendRecord
  PROVE  IInv'
<1> DEFINE f == disk.files[log.active]
<1>0. log.active # 0
  BY DEF AppendRecord, IsOpen
<1>1. /\ log \in Log /\ DiskOK(disk) /\ log.active \in DOMAIN disk.files
      /\ f \in File /\ batch \in Seq(Record) /\ Fits(log, f, batch)
      /\ DirFits(log.active, disk)
      /\ promised \in [DOMAIN promised -> Seq(Record)]
  BY <1>0, HelperFits
<1>2. PICK out \in WriteLocked(log, disk) \cup {Result(log, disk, TRUE)} :
        /\ Spend(out.ok)
        /\ disk' = out.disk
        /\ IF out.ok
           THEN /\ log' = [out.log EXCEPT !.buffer = Append(@, issued'),
                                          !.pending = @ + 1]
                /\ batch' = Append(batch, issued')
           ELSE log' = out.log /\ UNCHANGED batch
  BY DEF AppendRecord
<1>3. /\ issued' \in Record /\ issued' \in Nat
      /\ UNCHANGED <<sync, promised, late, stops>>
      /\ faults' \in Nat
  BY <1>2 DEF AppendRecord, IInv, TypeOK, Record, Spend
<1>4. /\ Moved(log, disk, out) /\ OnlyWritten(log, disk, out)
      /\ Fits(out.log, out.disk.files[log.active], batch)
  <2>1. CASE out \in WriteLocked(log, disk)
    BY <1>1, <2>1, WriteLockedFits
  <2>2. CASE out = Result(log, disk, TRUE)
    <3>1. out.log = log /\ out.disk = disk
      BY <2>2 DEF Result
    <3>2. log.written \in Nat /\ f.safe \in Nat
      BY <1>1 DEF Log, File
    <3> QED
      BY <1>1, <3>1, <3>2 DEF Moved, OnlyWritten
  <2> QED
    BY <2>1, <2>2
<1> DEFINE g == out.disk.files[log.active]
<1>5. /\ out.log \in Log /\ DiskOK(out.disk) /\ log.active \in DOMAIN out.disk.files
      /\ out.log.active = log.active
      /\ g \in File
  BY <1>1, <1>4 DEF Moved, DiskOK, Files
<1>6. /\ DirFits(log.active, out.disk)
      /\ Kept(disk, promised) => Kept(out.disk, promised)
  BY <1>1, <1>4, MovedDir
<1> HIDE DEF f, g
<1>7. /\ log' \in Log /\ batch' \in Seq(Record) /\ Fits(log', g, batch')
      /\ log'.active = log.active /\ log'.synced = out.log.synced
      /\ log'.listed = out.log.listed /\ log'.written = out.log.written
      /\ Len(batch) <= Len(batch') /\ \A i \in 1..Len(batch) : batch'[i] = batch[i]
  <2>1. CASE out.ok
    <3> DEFINE m == [out.log EXCEPT !.buffer = Append(@, issued'), !.pending = @ + 1]
    <3>1. log' = m /\ batch' = Append(batch, issued')
      BY <1>2, <2>1
    <3>2. m \in Log /\ Fits(m, g, Append(batch, issued'))
      BY <1>1, <1>3, <1>4, <1>5, AppendFits DEF g
    <3>3. /\ m.active = out.log.active /\ m.synced = out.log.synced
          /\ m.listed = out.log.listed /\ m.written = out.log.written
      BY <1>5 DEF Log
    <3>4. /\ batch' \in Seq(Record) /\ Len(batch) <= Len(batch')
          /\ \A i \in 1..Len(batch) : batch'[i] = batch[i]
      BY <1>1, <1>3, <3>1
    <3> QED
      BY <1>5, <3>1, <3>2, <3>3, <3>4
  <2>2. CASE ~out.ok
    BY <1>1, <1>2, <1>4, <1>5, <2>2 DEF g
  <2> QED
    BY <2>1, <2>2
<1>8. SyncFits(sync', log', g, batch')
  <2>1. /\ sync \in Syncing /\ SyncFits(sync, log, f, batch)
        /\ log'.synced = log.synced /\ (log.listed => log'.listed)
        /\ log.written <= log'.written /\ g.safe = f.safe
    BY <1>4, <1>7 DEF IInv, TypeOK, Moved, OnlyWritten, f, g
  <2> QED
    BY <1>1, <1>3, <1>5, <1>7, <2>1, SyncStaysFit
<1>9. TypeOK'
  BY <1>2, <1>3, <1>5, <1>7 DEF IInv, TypeOK
<1> QED
  BY <1>2, <1>3, <1>6, <1>7, <1>8, <1>9 DEF IInv, g

\* Beginning a sync.
LEMMA SyncStartInv ==
  ASSUME IInv, SyncStart
  PROVE  IInv'
<1> DEFINE f == disk.files[log.active]
<1>0. log.active # 0 /\ sync.step = "none"
  BY DEF SyncStart, IsOpen
<1>1. /\ log \in Log /\ DiskOK(disk) /\ log.active \in DOMAIN disk.files
      /\ f \in File /\ batch \in Seq(Record) /\ Fits(log, f, batch)
      /\ DirFits(log.active, disk)
      /\ promised \in [DOMAIN promised -> Seq(Record)]
  BY <1>0, HelperFits
<1>2. PICK out \in WriteLocked(log, disk) :
        /\ Spend(out.ok)
        /\ log' = out.log /\ disk' = out.disk
        /\ sync' = IF out.ok
                   THEN [step |-> "file", upTo |-> out.log.written,
                         listed |-> out.log.listed, covered |-> out.log.pending,
                         due |-> batch]
                   ELSE NoSync
  BY DEF SyncStart
<1>3. /\ UNCHANGED <<batch, promised, late, issued, stops>>
      /\ faults' \in Nat
  BY <1>2 DEF SyncStart, IInv, TypeOK, Spend
<1>4. /\ Moved(log, disk, out)
      /\ Fits(out.log, out.disk.files[log.active], batch)
      /\ out.ok => out.log.buffer = <<>> /\ ~out.log.torn
  BY <1>1, <1>2, WriteLockedFits
<1> DEFINE g == out.disk.files[log.active]
<1>5. /\ out.log \in Log /\ DiskOK(out.disk) /\ log.active \in DOMAIN out.disk.files
      /\ out.log.active = log.active
      /\ g \in File
  BY <1>1, <1>4 DEF Moved, DiskOK, Files
<1>6. /\ DirFits(log.active, out.disk)
      /\ Kept(disk, promised) => Kept(out.disk, promised)
  BY <1>1, <1>4, MovedDir
<1> HIDE DEF f, g
<1>7. sync' \in Syncing /\ SyncFits(sync', out.log, g, batch)
  <2>1. CASE out.ok
    <3>1. sync' = [step |-> "file", upTo |-> out.log.written,
                   listed |-> out.log.listed, covered |-> out.log.pending,
                   due |-> batch]
      BY <1>2, <2>1
    <3>2. /\ out.log.written \in Nat /\ out.log.pending \in Nat /\ Len(batch) \in Nat
          /\ out.log.listed \in BOOLEAN
      BY <1>1, <1>5 DEF Log
    <3>3. sync' \in Syncing
      BY <1>1, <3>1, <3>2 DEF Syncing
    <3>4. out.log.buffer = <<>> /\ Len(<<>>) = 0
      BY <1>4, <2>1
    <3>5. out.log.written = Len(batch) + 1
      BY <1>4, <3>2, <3>4 DEF Fits
    <3>6. /\ g.safe <= out.log.written
          /\ out.log.pending = Len(batch) - CoveredBy(out.log.synced)
      BY <1>4 DEF Fits, g
    <3>7. /\ sync'.upTo = out.log.written /\ sync'.due = batch
          /\ sync'.covered = out.log.pending /\ sync'.listed = out.log.listed
          /\ sync'.step = "file"
      BY <3>1
    <3> QED
      BY <1>0, <1>5, <3>2, <3>3, <3>5, <3>6, <3>7 DEF SyncFits
  <2>2. CASE ~out.ok
    BY <1>2, <2>2, NoSyncIs DEF SyncFits
  <2> QED
    BY <2>1, <2>2
<1>8. TypeOK'
  BY <1>2, <1>3, <1>5, <1>7 DEF IInv, TypeOK
<1> QED
  BY <1>2, <1>3, <1>4, <1>5, <1>6, <1>7, <1>8 DEF IInv, g

\* What was written to the open segment and synced is held, up to any prefix
\* of the batch.
LEMMA PrefixHeld ==
  ASSUME NEW l \in Log, NEW f \in File, NEW b \in Seq(Record), Fits(l, f, b),
         NEW q \in Seq(Record), Len(q) <= Len(b),
         \A i \in 1..Len(q) : q[i] = b[i],
         f.named, Len(q) + 1 <= f.safe
  PROVE  Holds(f, q)
<1>1. /\ Len(q) \in Nat /\ Len(b) \in Nat /\ f.safe \in Nat /\ l.written \in Nat
      /\ f.safe <= l.written
  BY DEF File, Log, Fits
<1>2. ASSUME NEW i \in 1..Len(q) + 1 PROVE f.frames[i] = Entry(q, i)
  <2>1. i \in 1..l.written /\ (i # 1 => i - 1 \in 1..Len(q))
    BY <1>1
  <2>2. f.frames[i] = Entry(b, i)
    BY <2>1 DEF Fits
  <2> QED
    BY <2>1, <2>2 DEF Entry
<1> QED
  BY <1>2 DEF Holds

\* A sync that has nothing to do.
LEMMA SyncCleanInv ==
  ASSUME IInv, SyncClean
  PROVE  IInv'
<1> DEFINE f == disk.files[log.active]
<1>0. log.active # 0 /\ sync.step = "none" /\ ~Dirty(log)
  BY DEF SyncClean, IsOpen
<1>1. /\ log \in Log /\ DiskOK(disk) /\ log.active \in DOMAIN disk.files
      /\ f \in File /\ batch \in Seq(Record) /\ Fits(log, f, batch)
      /\ DirFits(log.active, disk)
      /\ promised \in [DOMAIN promised -> Seq(Record)]
  BY <1>0, HelperFits
<1>2. /\ promised' = With(promised, log.active, batch)
      /\ UNCHANGED <<log, disk, sync, batch, late, issued, faults, stops>>
  BY DEF SyncClean
<1>3. promised' \in [DOMAIN promised' -> Seq(Record)]
  BY <1>1, <1>2 DEF With
<1>4. Holds(f, batch)
  <2>1. /\ log.written = log.synced /\ log.listed /\ Len(log.buffer) = 0
        /\ log.written \in Nat /\ f.safe \in Nat /\ Len(batch) \in Nat
    BY <1>0, <1>1 DEF Dirty, Log, File
  <2> HIDE DEF f
  <2>2. f.named /\ Len(batch) + 1 <= f.safe
    BY <1>1, <2>1 DEF Fits
  <2> QED
    BY <1>1, <2>1, <2>2, PrefixHeld
<1>5. log.active \notin DOMAIN disk.unlinked
  BY <1>0, <1>1 DEF DirFits, DiskOK, Files, Log
<1>6. Kept(disk, promised) => Kept(disk', promised')
  BY <1>1, <1>2, <1>4, <1>5, KeptPromise
<1>7. TypeOK'
  BY <1>2, <1>3 DEF IInv, TypeOK
<1> QED
  BY <1>2, <1>6, <1>7 DEF IInv

LEMMA SyncClosedInv ==
  ASSUME IInv, SyncClosed
  PROVE  IInv'
<1>1. /\ late' = With(late, log.active, batch)
      /\ UNCHANGED <<log, disk, sync, batch, promised, issued, faults, stops>>
  BY DEF SyncClosed
<1>2. late' \in [DOMAIN late' -> Seq(Record)]
  BY <1>1 DEF With, IInv, TypeOK
<1>3. TypeOK'
  BY <1>1, <1>2 DEF IInv, TypeOK
<1> QED
  BY <1>1, <1>3 DEF IInv

\* The end of a sync, once the file and its name are on disk.
Settled(l, y) == [l EXCEPT !.synced = y.upTo, !.listed = TRUE,
                           !.pending = l.pending - y.covered]

LEMMA SyncDoneFits ==
  ASSUME NEW l \in Log, NEW f \in File, NEW b \in Seq(Record), Fits(l, f, b),
         NEW y \in Syncing, SyncFits(y, l, f, b), y.step # "none",
         f.safe = y.upTo, f.named
  PROVE  /\ Settled(l, y) \in Log /\ Settled(l, y).active = l.active
         /\ Fits(Settled(l, y), f, b)
         /\ Holds(f, y.due)
<1> DEFINE m == Settled(l, y)
<1>1. /\ y.upTo \in Nat /\ y.due \in Seq(Record) /\ Len(y.due) \in Nat
      /\ y.covered \in Nat /\ l.pending \in Nat /\ l.written \in Nat
      /\ l.synced \in Nat /\ Len(b) \in Nat
  BY DEF Syncing, Log
<1>2. /\ y.upTo = Len(y.due) + 1
      /\ y.covered = Len(y.due) - CoveredBy(l.synced)
      /\ l.pending = Len(b) - CoveredBy(l.synced)
      /\ Len(y.due) <= Len(b)
      /\ y.upTo <= l.written
      /\ \A i \in 1..Len(y.due) : y.due[i] = b[i]
  BY DEF SyncFits, Fits
<1>3. CoveredBy(l.synced) \in Nat /\ CoveredBy(y.upTo) = Len(y.due)
  BY <1>1, <1>2 DEF CoveredBy
<1>4. /\ l.pending - y.covered = Len(b) - CoveredBy(y.upTo)
      /\ l.pending - y.covered \in Nat
  BY <1>1, <1>2, <1>3
<1>5. /\ m \in Log /\ m.active = l.active
      /\ m.synced = y.upTo /\ m.pending = l.pending - y.covered
      /\ m.written = l.written /\ m.buffer = l.buffer /\ m.torn = l.torn
  BY <1>1, <1>4 DEF Log, Settled
<1> HIDE DEF m
<1>6. Fits(m, f, b)
  BY <1>1, <1>2, <1>4, <1>5 DEF Fits
<1>7. Holds(f, y.due)
  BY <1>1, <1>2, PrefixHeld
<1> QED
  BY <1>5, <1>6, <1>7 DEF m

\* A disk on which only more is synced.
LEMMA MovedSynced ==
  ASSUME NEW l \in Log, NEW d, NEW e, DiskOK(e),
         e.unlinked \in {d.unlinked, <<>>},
         DOMAIN e.files = DOMAIN d.files,
         \A s \in DOMAIN d.files \ {l.active} :
           e.files[s] \in {d.files[s], [d.files[s] EXCEPT !.named = TRUE]},
         d.files[l.active].named => e.files[l.active].named,
         d.files[l.active].safe <= e.files[l.active].safe,
         e.files[l.active].frames = d.files[l.active].frames
  PROVE  Moved(l, d, Result(l, e, TRUE))
<1> DEFINE out == Result(l, e, TRUE)
<1>1. out.log = l /\ out.disk = e
  BY DEF Result
<1>2. l.written \in Nat
  BY DEF Log
<1> HIDE DEF out
<1>3. Moved(l, d, out)
  BY <1>1, <1>2 DEF Moved
<1> QED
  BY <1>3 DEF out

\* Either half of a sync, done to the disk d.
LEMMA SyncStepInv ==
  ASSUME IInv, sync.step # "none",
         DiskOK(disk'), Moved(log, disk, Result(log, disk', TRUE)),
         disk'.files[log.active].safe = sync.upTo,
         Fits(log, disk'.files[log.active], batch),
         UNCHANGED <<batch, late, issued, stops>>, faults' \in Nat,
         \/ /\ sync' \in {NoSync, [sync EXCEPT !.step = "dir"]}
            /\ UNCHANGED <<log, promised>>
         \/ disk'.files[log.active].named /\ SyncDone
  PROVE  IInv'
<1> DEFINE f == disk.files[log.active]
           g == disk'.files[log.active]
<1>0. log.active # 0
  BY DEF IInv, SyncFits
<1>1. /\ log \in Log /\ DiskOK(disk) /\ log.active \in DOMAIN disk.files
      /\ f \in File /\ batch \in Seq(Record) /\ Fits(log, f, batch)
      /\ DirFits(log.active, disk)
      /\ promised \in [DOMAIN promised -> Seq(Record)]
      /\ sync \in Syncing /\ SyncFits(sync, log, f, batch)
  BY <1>0, HelperFits DEF IInv, TypeOK
<1> DEFINE out == Result(log, disk', TRUE)
<1>2. out.log = log /\ out.disk = disk'
  BY DEF Result
<1>3. log.active \in DOMAIN disk'.files /\ g \in File
  BY <1>1, <1>2 DEF Moved, DiskOK, Files
<1>4. /\ DirFits(log.active, disk')
      /\ Kept(disk, promised) => Kept(disk', promised)
  <2> HIDE DEF out
  <2>1. Moved(log, disk, out) /\ Fits(out.log, out.disk.files[log.active], batch)
    BY <1>2 DEF out
  <2> QED
    BY <1>1, <1>2, <2>1, MovedDir
<1> HIDE DEF f, g
<1>5. SyncFits(sync, log, g, batch)
  BY <1>1 DEF SyncFits, g, Syncing
<1>6. CASE /\ sync' \in {NoSync, [sync EXCEPT !.step = "dir"]}
           /\ UNCHANGED <<log, promised>>
  <2>1. sync' \in Syncing /\ SyncFits(sync', log, g, batch)
    <3>1. CASE sync' = NoSync
      BY <3>1, NoSyncIs DEF SyncFits
    <3>2. CASE sync' = [sync EXCEPT !.step = "dir"]
      <4>1. /\ sync' \in Syncing
            /\ sync'.upTo = sync.upTo /\ sync'.due = sync.due
            /\ sync'.listed = sync.listed /\ sync'.covered = sync.covered
        BY <1>1, <3>2 DEF Syncing
      <4> QED
        BY <1>5, <4>1 DEF SyncFits, g
    <3> QED
      BY <1>6, <3>1, <3>2
  <2>2. TypeOK'
    BY <1>3, <1>6, <2>1 DEF IInv, TypeOK
  <2> QED
    BY <1>4, <1>6, <2>1, <2>2 DEF IInv, g
<1>7. CASE g.named /\ SyncDone
  <2>1. /\ log' = Settled(log, sync)
        /\ promised' = With(promised, log.active, sync.due)
        /\ sync' = NoSync
    BY <1>7 DEF SyncDone, Uncovered, Settled
  <2>2. /\ log' \in Log /\ log'.active = log.active
        /\ Fits(log', g, batch)
        /\ Holds(g, sync.due)
    <3>1. g.safe = sync.upTo /\ g.named /\ Fits(log, g, batch) /\ sync.step # "none"
      BY <1>7 DEF g
    <3> QED
      BY <1>1, <1>3, <1>5, <2>1, <3>1, SyncDoneFits
  <2>3. promised' \in [DOMAIN promised' -> Seq(Record)]
    BY <1>1, <2>1 DEF With, Syncing
  <2>4. log.active \notin DOMAIN disk'.unlinked
    BY <1>0, <1>1, <1>4 DEF DirFits, DiskOK, Files, Log
  <2>5. Kept(disk', promised) => Kept(disk', promised')
    BY <1>3, <2>1, <2>2, <2>4, KeptPromise DEF g
  <2>6. TypeOK'
    BY <1>3, <2>1, <2>2, <2>3, NoSyncIs DEF IInv, TypeOK
  <2>7. SyncFits(sync', log', g, batch)
    BY <2>1, NoSyncIs DEF SyncFits
  <2> QED
    BY <1>4, <2>2, <2>5, <2>6, <2>7 DEF IInv, g
<1> QED
  BY <1>6, <1>7 DEF g

\* A sync that fails half way.
LEMMA SyncFailsInv ==
  ASSUME IInv, sync' = NoSync, faults' \in Nat,
         UNCHANGED <<log, disk, batch, promised, late, issued, stops>>
  PROVE  IInv'
<1>1. TypeOK'
  BY NoSyncIs DEF IInv, TypeOK
<1>2. SyncFits(sync', log', disk'.files[log'.active], batch')
  BY NoSyncIs DEF SyncFits
<1> QED
  BY <1>1, <1>2 DEF IInv

LEMMA SyncFileInv ==
  ASSUME IInv, NEW ok \in BOOLEAN, SyncFile(ok)
  PROVE  IInv'
<1> DEFINE f == disk.files[log.active]
<1>0. sync.step = "file" /\ log.active # 0 /\ faults' \in Nat
  BY DEF SyncFile, IInv, SyncFits, Spend, TypeOK
<1>1. /\ log \in Log /\ DiskOK(disk) /\ log.active \in DOMAIN disk.files
      /\ f \in File /\ batch \in Seq(Record) /\ Fits(log, f, batch)
      /\ DirFits(log.active, disk)
      /\ sync \in Syncing /\ SyncFits(sync, log, f, batch)
  BY <1>0, HelperFits DEF IInv, TypeOK
<1>2. CASE ok
  <2>1. disk' = FileSynced(disk, log.active, sync.upTo)
    BY <1>2 DEF SyncFile
  <2>2. sync.upTo \in Nat
    BY <1>1 DEF Syncing
  <2>3. /\ DiskOK(disk')
        /\ disk'.unlinked = disk.unlinked
        /\ DOMAIN disk'.files = DOMAIN disk.files
        /\ disk'.files[log.active] = [f EXCEPT !.safe = sync.upTo]
        /\ \A t \in DOMAIN disk.files \ {log.active} : disk'.files[t] = disk.files[t]
    BY <1>1, <2>1, <2>2, FileSyncedIs
  <2> DEFINE g == disk'.files[log.active]
  <2>4. /\ g.safe = sync.upTo /\ g.frames = f.frames /\ g.named = f.named
        /\ g.tail = f.tail
    BY <1>1, <2>3 DEF File
  <2>5. /\ f.safe \in Nat /\ log.written \in Nat /\ log.synced \in Nat
    BY <1>1 DEF File, Log
  <2> HIDE DEF f, g
  <2>6. f.safe <= g.safe /\ log.synced <= g.safe /\ g.safe <= log.written
    BY <1>0, <1>1, <2>2, <2>4, <2>5 DEF SyncFits, Fits
  <2>7. Fits(log, g, batch)
    BY <1>1, <2>4, <2>6 DEF Fits
  <2>8. Moved(log, disk, Result(log, disk', TRUE))
    BY <1>1, <2>3, <2>4, <2>6, MovedSynced DEF f, g
  <2>9. \/ sync' = [sync EXCEPT !.step = "dir"] /\ UNCHANGED <<log, promised>>
        \/ sync.listed /\ SyncDone
    BY <1>2 DEF SyncFile
  <2>10. sync.listed => g.named
    BY <1>0, <1>1, <2>4 DEF SyncFits, Fits
  <2>11. UNCHANGED <<batch, late, issued, stops>>
    BY DEF SyncFile
  <2> QED
    BY <1>0, <2>3, <2>4, <2>7, <2>8, <2>9, <2>10, <2>11, SyncStepInv DEF g
<1>3. CASE ~ok
  BY <1>0, <1>3, SyncFailsInv DEF SyncFile
<1> QED
  BY <1>2, <1>3

LEMMA SyncDirInv ==
  ASSUME IInv, NEW ok \in BOOLEAN, SyncDir(ok)
  PROVE  IInv'
<1> DEFINE f == disk.files[log.active]
<1>0. sync.step = "dir" /\ log.active # 0 /\ faults' \in Nat
  BY DEF SyncDir, IInv, SyncFits, Spend, TypeOK
<1>1. /\ log \in Log /\ DiskOK(disk) /\ log.active \in DOMAIN disk.files
      /\ f \in File /\ batch \in Seq(Record) /\ Fits(log, f, batch)
      /\ DirFits(log.active, disk)
      /\ sync \in Syncing /\ SyncFits(sync, log, f, batch)
  BY <1>0, HelperFits DEF IInv, TypeOK
<1>2. CASE ok
  <2>1. disk' = DirSynced(disk) /\ SyncDone /\ UNCHANGED <<batch, late, issued, stops>>
    BY <1>2 DEF SyncDir
  <2>2. /\ DiskOK(disk')
        /\ disk'.unlinked = <<>>
        /\ DOMAIN disk'.files = DOMAIN disk.files
        /\ \A t \in DOMAIN disk.files :
             disk'.files[t] = [disk.files[t] EXCEPT !.named = TRUE]
    BY <1>1, <2>1, DirSyncedIs
  <2> DEFINE g == disk'.files[log.active]
  <2>3. g = [f EXCEPT !.named = TRUE]
    BY <1>1, <2>2
  <2>4. /\ g.safe = f.safe /\ g.frames = f.frames /\ g.named /\ g.tail = f.tail
        /\ f.safe \in Nat /\ log.written \in Nat
    BY <1>1, <2>3 DEF File, Log
  <2> HIDE DEF f, g
  <2>5. Fits(log, g, batch)
    BY <1>1, <2>4 DEF Fits
  <2>6. Moved(log, disk, Result(log, disk', TRUE))
    <3>1. f.safe <= g.safe /\ (f.named => g.named)
      BY <2>4
    <3> QED
      BY <1>1, <2>2, <2>4, <3>1, MovedSynced DEF f, g
  <2>7. g.safe = sync.upTo
    BY <1>0, <1>1, <2>4 DEF SyncFits
  <2> QED
    BY <1>0, <2>1, <2>2, <2>4, <2>5, <2>6, <2>7, SyncStepInv DEF g
<1>3. CASE ~ok
  BY <1>0, <1>3, SyncFailsInv DEF SyncDir
<1> QED
  BY <1>2, <1>3

\* What a rotation or a close has done by the time syncLocked returns.
LEMMA SyncLockedKeeps ==
  ASSUME IInv, log.active # 0, NEW out \in SyncLocked(log, disk)
  PROVE  LET g == out.disk.files[log.active]
         IN  /\ out.log \in Log /\ out.log.active = log.active
             /\ out.log.closed = log.closed
             /\ DiskOK(out.disk) /\ log.active \in DOMAIN out.disk.files
             /\ g \in File
             /\ Fits(out.log, g, batch)
             /\ DirFits(log.active, out.disk)
             /\ Kept(disk, promised) => Kept(out.disk, promised)
             /\ out.ok => /\ Whole(out.log, g, batch)
                          /\ Holds(g, batch)
                          /\ log.active \notin DOMAIN out.disk.unlinked
<1> DEFINE f == disk.files[log.active]
           g == out.disk.files[log.active]
<1>1. /\ log \in Log /\ DiskOK(disk) /\ log.active \in DOMAIN disk.files
      /\ f \in File /\ batch \in Seq(Record) /\ Fits(log, f, batch)
      /\ DirFits(log.active, disk)
      /\ promised \in [DOMAIN promised -> Seq(Record)]
  BY HelperFits
<1>2. /\ Moved(log, disk, out)
      /\ Fits(out.log, g, batch)
      /\ out.ok => Whole(out.log, g, batch)
  BY <1>1, SyncLockedFits
<1>3. /\ out.log \in Log /\ DiskOK(out.disk) /\ log.active \in DOMAIN out.disk.files
      /\ out.log.active = log.active /\ out.log.closed = log.closed
      /\ g \in File
  BY <1>1, <1>2 DEF Moved, DiskOK, Files
<1>4. /\ DirFits(log.active, out.disk)
      /\ Kept(disk, promised) => Kept(out.disk, promised)
  BY <1>1, <1>2, MovedDir
<1>5. ASSUME out.ok PROVE Holds(g, batch)
  <2>1. g.named /\ g.safe = Len(batch) + 1 /\ Len(batch) \in Nat
    BY <1>1, <1>2, <1>5 DEF Whole
  <2> QED
    BY <1>1, <1>2, <1>3, <2>1, PrefixHeld
<1>6. log.active \notin DOMAIN out.disk.unlinked
  BY <1>1, <1>3, <1>4 DEF DirFits, DiskOK, Files, Log
<1> QED
  BY <1>2, <1>3, <1>4, <1>5, <1>6

LEMMA RotateInv ==
  ASSUME IInv, Rotate
  PROVE  IInv'
<1>0. log.active # 0 /\ sync.step = "none"
  BY DEF Rotate, IsOpen
<1>1. PICK out \in SyncLocked(log, disk), created \in BOOLEAN :
        /\ Spend(out.ok /\ created)
        /\ IF out.ok /\ created
           THEN /\ log' = Started(log.active + 1)
                /\ disk' = [out.disk EXCEPT !.files =
                              With(@, log.active + 1, EmptyFile)]
                /\ promised' = With(promised, log.active, batch)
                /\ batch' = <<>>
           ELSE /\ log' = out.log /\ disk' = out.disk
                /\ UNCHANGED <<promised, batch>>
  BY DEF Rotate
<1>2. UNCHANGED <<sync, late, issued, stops>> /\ faults' \in Nat
  BY <1>1 DEF Rotate, IInv, TypeOK, Spend
<1> DEFINE g == out.disk.files[log.active]
<1>3. /\ out.log \in Log /\ out.log.active = log.active
      /\ DiskOK(out.disk) /\ log.active \in DOMAIN out.disk.files
      /\ Fits(out.log, g, batch)
      /\ DirFits(log.active, out.disk)
      /\ Kept(disk, promised) => Kept(out.disk, promised)
      /\ out.ok => /\ Holds(g, batch)
                   /\ log.active \notin DOMAIN out.disk.unlinked
  BY <1>0, SyncLockedKeeps
<1> HIDE DEF g
<1>4. SyncFits(sync', log', disk'.files[log'.active], batch')
  BY <1>0, <1>2 DEF SyncFits
<1>5. CASE out.ok /\ created
  <2> DEFINE n == log.active + 1
  <2>1. /\ log' = Started(n)
        /\ disk' = [out.disk EXCEPT !.files = With(@, n, EmptyFile)]
        /\ promised' = With(promised, log.active, batch)
        /\ batch' = <<>> /\ <<>> \in Seq(Record)
    BY <1>1, <1>5
  <2>2. /\ n \in Nat \ {0}
        /\ \A s \in DOMAIN out.disk.files : s < n
    BY <1>0, <1>3 DEF DirFits, DiskOK, Files, Log
  <2> HIDE DEF n
  <2>3. Kept(disk, promised) => Kept(out.disk, promised')
    BY <1>3, <1>5, <2>1, KeptPromise DEF g
  <2>4. /\ DiskOK(disk') /\ n \in DOMAIN disk'.files
        /\ disk'.files[n] = EmptyFile
        /\ DirFits(n, disk')
        /\ Kept(out.disk, promised') => Kept(disk', promised')
    BY <1>3, <2>1, <2>2, AddFile
  <2>5. log' \in Log /\ log'.active = n /\ Fits(log', EmptyFile, <<>>)
    BY <2>1, <2>2, StartedFits
  <2>6. promised' \in [DOMAIN promised' -> Seq(Record)]
    BY <2>1 DEF With, IInv, TypeOK
  <2>7. TypeOK'
    BY <1>2, <2>1, <2>4, <2>5, <2>6 DEF IInv, TypeOK
  <2> QED
    BY <1>4, <2>1, <2>3, <2>4, <2>5, <2>7 DEF IInv
<1>6. CASE ~(out.ok /\ created)
  <2>1. log' = out.log /\ disk' = out.disk /\ UNCHANGED <<promised, batch>>
    BY <1>1, <1>6
  <2>2. TypeOK'
    BY <1>2, <1>3, <2>1 DEF IInv, TypeOK
  <2> QED
    BY <1>3, <1>4, <2>1, <2>2 DEF IInv, g
<1> QED
  BY <1>5, <1>6

LEMMA CloseInv ==
  ASSUME IInv, Close
  PROVE  IInv'
<1>0. log.active # 0 /\ sync.step = "none"
  BY DEF Close, IsOpen
<1>1. PICK out \in SyncLocked(log, disk) :
        /\ Spend(out.ok)
        /\ log' = [out.log EXCEPT !.closed = TRUE]
        /\ disk' = out.disk
        /\ promised' = IF out.ok THEN With(promised, log.active, batch)
                       ELSE promised
  BY DEF Close
<1>2. UNCHANGED <<sync, batch, late, issued, stops>> /\ faults' \in Nat
  BY <1>1 DEF Close, IInv, TypeOK, Spend
<1> DEFINE g == out.disk.files[log.active]
<1>3. /\ out.log \in Log /\ out.log.active = log.active
      /\ DiskOK(out.disk) /\ log.active \in DOMAIN out.disk.files
      /\ Fits(out.log, g, batch)
      /\ DirFits(log.active, out.disk)
      /\ Kept(disk, promised) => Kept(out.disk, promised)
      /\ out.ok => /\ Holds(g, batch)
                   /\ log.active \notin DOMAIN out.disk.unlinked
  BY <1>0, SyncLockedKeeps
<1> HIDE DEF g
<1>4. /\ log' \in Log /\ log'.active = log.active
      /\ Fits(log', g, batch)
  <2>1. /\ log' \in Log /\ log'.active = out.log.active
        /\ log'.written = out.log.written /\ log'.buffer = out.log.buffer
        /\ log'.torn = out.log.torn /\ log'.synced = out.log.synced
        /\ log'.listed = out.log.listed /\ log'.pending = out.log.pending
    BY <1>1, <1>3 DEF Log
  <2> QED
    BY <1>3, <2>1 DEF Fits
<1>5. SyncFits(sync', log', g, batch')
  BY <1>0, <1>2 DEF SyncFits
<1>6. promised' \in [DOMAIN promised' -> Seq(Record)]
  BY <1>1 DEF With, IInv, TypeOK
<1>7. Kept(disk, promised) => Kept(disk', promised')
  BY <1>1, <1>3, KeptPromise DEF g
<1>8. TypeOK'
  BY <1>1, <1>2, <1>3, <1>4, <1>6 DEF IInv, TypeOK
<1> QED
  BY <1>1, <1>2, <1>3, <1>4, <1>5, <1>7, <1>8 DEF IInv, g

\* A segment taken out of the directory.
Taken(d, s) == [files |-> Without(d.files, s),
                unlinked |-> With(d.unlinked, s, d.files[s])]

LEMMA TakenIs ==
  ASSUME IInv, log.active # 0, NEW s \in DOMAIN disk.files, s # log.active
  PROVE  LET e == Taken(disk, s)
         IN  /\ DiskOK(e)
             /\ log.active \in DOMAIN e.files
             /\ e.files[log.active] = disk.files[log.active]
             /\ DirFits(log.active, e)
             /\ Kept(disk, promised) => Kept(e, Without(promised, s))
             /\ Without(promised, s) \in [DOMAIN Without(promised, s) -> Seq(Record)]
<1> DEFINE e == Taken(disk, s)
           q == Without(promised, s)
<1>1. /\ log \in Log /\ DiskOK(disk) /\ log.active \in DOMAIN disk.files
      /\ DirFits(log.active, disk)
      /\ promised \in [DOMAIN promised -> Seq(Record)]
  BY HelperFits
<1>2. /\ e = [files |-> e.files, unlinked |-> e.unlinked]
      /\ e.files = Without(disk.files, s)
      /\ e.unlinked = With(disk.unlinked, s, disk.files[s])
  BY DEF Taken
<1> HIDE DEF e
<1>3. /\ DOMAIN e.files = DOMAIN disk.files \ {s}
      /\ \A t \in DOMAIN disk.files \ {s} : e.files[t] = disk.files[t]
      /\ e.files \in [DOMAIN disk.files \ {s} -> File]
  BY <1>1, <1>2 DEF Without, DiskOK, Files
<1>4. /\ DOMAIN e.unlinked = DOMAIN disk.unlinked \cup {s}
      /\ e.unlinked[s] = disk.files[s]
      /\ \A t \in DOMAIN disk.unlinked \ {s} : e.unlinked[t] = disk.unlinked[t]
      /\ e.unlinked \in [DOMAIN disk.unlinked \cup {s} -> File]
  BY <1>1, <1>2 DEF With, DiskOK, Files
<1>5. DiskOK(e)
  BY <1>1, <1>2, <1>3, <1>4 DEF DiskOK, Files
<1>6. DirFits(log.active, e)
  <2>1. s < log.active
    BY <1>1 DEF DirFits, DiskOK, Files, Log
  <2>2. ASSUME NEW t \in DOMAIN disk.unlinked
        PROVE  \E u \in DOMAIN disk.files \ {s} : t < u
    <3>1. PICK u \in DOMAIN disk.files : t < u
      BY <1>1 DEF DirFits
    <3>2. u <= log.active
      BY <1>1 DEF DirFits
    <3>3. t < log.active
      BY <1>1, <3>1, <3>2 DEF DiskOK, Files, Log
    <3> QED
      BY <1>1, <3>3
  <2>3. \A t \in DOMAIN e.files : e.files[t].safe <= Len(e.files[t].frames) /\ t <= log.active
    BY <1>1, <1>3 DEF DirFits
  <2>4. \A t \in DOMAIN e.unlinked :
          /\ e.unlinked[t].safe <= Len(e.unlinked[t].frames)
          /\ \E u \in DOMAIN e.files : t < u
    BY <1>1, <1>3, <1>4, <2>1, <2>2 DEF DirFits
  <2> QED
    BY <2>3, <2>4 DEF DirFits
<1>7. DOMAIN q = DOMAIN promised \ {s} /\ \A t \in DOMAIN q : q[t] = promised[t]
  BY DEF Without
<1> HIDE DEF q
<1>8. Kept(disk, promised) => Kept(e, q)
  BY <1>3, <1>4, <1>7 DEF Kept
<1>9. q \in [DOMAIN q -> Seq(Record)]
  BY <1>1, <1>7 DEF q, Without
<1> QED
  BY <1>1, <1>3, <1>5, <1>6, <1>8, <1>9 DEF e, q

LEMMA WithoutTyped ==
  ASSUME NEW p, p \in [DOMAIN p -> Seq(Record)], NEW s
  PROVE  Without(p, s) \in [DOMAIN Without(p, s) -> Seq(Record)]
  BY DEF Without

LEMMA RemoveInv ==
  ASSUME IInv, NEW s \in DOMAIN disk.files, Remove(s)
  PROVE  IInv'
<1>1. /\ log.active # 0 /\ s # log.active
      /\ disk' = Taken(disk, s)
      /\ promised' = Without(promised, s) /\ late' = Without(late, s)
      /\ UNCHANGED <<log, sync, batch, issued, faults, stops>>
  BY DEF Remove, Taken
<1>2. /\ DiskOK(disk') /\ log.active \in DOMAIN disk'.files
      /\ disk'.files[log.active] = disk.files[log.active]
      /\ DirFits(log.active, disk')
      /\ Kept(disk, promised) => Kept(disk', promised')
      /\ promised' \in [DOMAIN promised' -> Seq(Record)]
  BY <1>1, TakenIs
<1>3. late' \in [DOMAIN late' -> Seq(Record)]
  BY <1>1, WithoutTyped DEF IInv, TypeOK
<1>4. TypeOK'
  BY <1>1, <1>2, <1>3 DEF IInv, TypeOK
<1> QED
  BY <1>1, <1>2, <1>4 DEF IInv

\* Every name becomes final.
LEMMA DirSyncedKeeps ==
  ASSUME NEW d, DiskOK(d), NEW a, DirFits(a, d),
         NEW p, p \in [DOMAIN p -> Seq(Record)]
  PROVE  /\ DirFits(a, DirSynced(d))
         /\ Kept(d, p) => Kept(DirSynced(d), p)
<1> DEFINE e == DirSynced(d)
<1>1. /\ DiskOK(e) /\ e.unlinked = <<>> /\ DOMAIN <<>> = {}
      /\ DOMAIN e.files = DOMAIN d.files
      /\ \A t \in DOMAIN d.files : e.files[t] = [d.files[t] EXCEPT !.named = TRUE]
  BY DirSyncedIs
<1> HIDE DEF e
<1>2. \A t \in DOMAIN d.files : /\ d.files[t] \in File
                                /\ e.files[t].safe = d.files[t].safe
                                /\ e.files[t].frames = d.files[t].frames
                                /\ e.files[t].named
  <2>1. TAKE t \in DOMAIN d.files
  <2>2. d.files[t] \in File
    BY DEF DiskOK, Files
  <2>3. e.files[t] = [d.files[t] EXCEPT !.named = TRUE]
    BY <1>1
  <2> QED
    BY <2>2, <2>3 DEF File
<1>3. DirFits(a, e)
  BY <1>1, <1>2 DEF DirFits
<1>4. Kept(d, p) => Kept(e, p)
  BY <1>1, <1>2 DEF Kept, Holds
<1> QED
  BY <1>3, <1>4 DEF e

LEMMA QuarantineInv ==
  ASSUME IInv, NEW s \in DOMAIN disk.files, NEW ok \in BOOLEAN, Quarantine(s, ok)
  PROVE  IInv'
<1> DEFINE e == Taken(disk, s)
           q == Without(promised, s)
           f == disk.files[log.active]
<1>1. /\ log.active # 0 /\ s # log.active
      /\ disk' = IF ok THEN DirSynced(e) ELSE e
      /\ promised' = q /\ late' = Without(late, s)
      /\ UNCHANGED <<log, sync, batch, issued, stops>> /\ faults' \in Nat
  BY DEF Quarantine, Taken, Spend, IInv, TypeOK
<1>2. /\ DiskOK(e) /\ log.active \in DOMAIN e.files
      /\ e.files[log.active] = f
      /\ DirFits(log.active, e)
      /\ Kept(disk, promised) => Kept(e, q)
      /\ q \in [DOMAIN q -> Seq(Record)]
  BY <1>1, TakenIs
<1>3. log \in Log /\ f \in File /\ batch \in Seq(Record) /\ Fits(log, f, batch) /\ sync \in Syncing
      /\ SyncFits(sync, log, f, batch)
  BY <1>1, HelperFits DEF IInv, TypeOK
<1> HIDE DEF e, q, f
<1> DEFINE g == disk'.files[log.active]
<1>4. /\ DiskOK(disk') /\ log.active \in DOMAIN disk'.files
      /\ DirFits(log.active, disk')
      /\ Kept(e, q) => Kept(disk', q)
      /\ g \in {f, [f EXCEPT !.named = TRUE]}
  <2>1. /\ DiskOK(DirSynced(e)) /\ DOMAIN DirSynced(e).files = DOMAIN e.files
        /\ DirSynced(e).files[log.active] = [f EXCEPT !.named = TRUE]
    BY <1>2, DirSyncedIs
  <2>2. DirFits(log.active, DirSynced(e)) /\ (Kept(e, q) => Kept(DirSynced(e), q))
    BY <1>2, DirSyncedKeeps
  <2> QED
    BY <1>1, <1>2, <2>1, <2>2
<1> HIDE DEF g
<1>5. /\ g.frames = f.frames /\ g.safe = f.safe /\ g.tail = f.tail
      /\ f.named => g.named
  BY <1>3, <1>4 DEF File
<1>6. Fits(log, g, batch)
  BY <1>3, <1>5 DEF Fits
<1>7. SyncFits(sync, log, g, batch)
  BY <1>3, <1>5 DEF SyncFits
<1>8. late' \in [DOMAIN late' -> Seq(Record)]
  BY <1>1, WithoutTyped DEF IInv, TypeOK
<1>9. TypeOK'
  BY <1>1, <1>2, <1>4, <1>8 DEF IInv, TypeOK
<1> QED
  BY <1>1, <1>2, <1>4, <1>6, <1>7, <1>9 DEF IInv, g

LEMMA KillInv ==
  ASSUME IInv, Kill
  PROVE  IInv'
<1>1. /\ log' = NoLog /\ sync' = NoSync /\ batch' = <<>> /\ <<>> \in Seq(Record)
      /\ UNCHANGED <<disk, promised, late, issued, faults>>
      /\ stops' \in Nat
  BY DEF Kill, Stopped, IInv, TypeOK
<1>2. TypeOK'
  BY <1>1, NoLogIs, NoSyncIs DEF IInv, TypeOK
<1>3. SyncFits(sync', log', disk'.files[log'.active], batch')
  BY <1>1, NoSyncIs DEF SyncFits
<1>4. DirFits(log'.active, disk')
  BY <1>1, NoLogIs DEF IInv, DirFits
<1> QED
  BY <1>1, <1>2, <1>3, <1>4, NoLogIs DEF IInv

\* A power loss leaves of a file all that was synced.
LEMMA SurvivorKeeps ==
  ASSUME NEW f \in File, f.safe <= Len(f.frames), NEW g \in Survivors(f)
  PROVE  g \in File /\ Keeps(f, g)
<1>1. f.frames \in Seq(Nat) /\ f.safe \in Nat /\ Len(f.frames) \in Nat
  BY DEF File, Frame
<1>2. CASE g = f
  BY <1>1, <1>2 DEF Keeps
<1>3. CASE \E k \in f.safe .. Len(f.frames) - 1, t \in {"clean", "torn", "damaged"} :
             g = [f EXCEPT !.frames = SubSeq(@, 1, k), !.tail = t]
  <2>1. PICK k \in f.safe .. Len(f.frames) - 1, t \in {"clean", "torn", "damaged"} :
             g = [f EXCEPT !.frames = SubSeq(@, 1, k), !.tail = t]
    BY <1>3
  <2> DEFINE short == SubSeq(f.frames, 1, k)
  <2>2. /\ short \in Seq(Nat) /\ Len(short) = k /\ k \in Nat
        /\ \A i \in 1..k : short[i] = f.frames[i]
    BY <1>1
  <2> HIDE DEF short
  <2>3. /\ g \in File /\ g.frames = short /\ g.safe = f.safe /\ g.named = f.named
    BY <2>1, <2>2 DEF File, Frame, short
  <2>4. f.safe <= k /\ \A i \in 1..f.safe : short[i] = f.frames[i]
    BY <1>1, <2>1, <2>2
  <2> QED
    BY <1>1, <2>1, <2>2, <2>3, <2>4, SMTT(30) DEF Keeps
<1>4. g = f \/ \E k \in f.safe .. Len(f.frames) - 1, t \in {"clean", "torn", "damaged"} :
                  g = [f EXCEPT !.frames = SubSeq(@, 1, k), !.tail = t]
  BY DEF Survivors
<1> QED
  BY <1>2, <1>3, <1>4

LEMMA PowerLossInv ==
  ASSUME IInv, PowerLoss
  PROVE  IInv'
<1>1. /\ log' = NoLog /\ sync' = NoSync /\ batch' = <<>> /\ <<>> \in Seq(Record)
      /\ UNCHANGED <<promised, late, issued, faults>>
      /\ stops' \in Nat
  BY DEF PowerLoss, Stopped, IInv, TypeOK
<1>2. /\ DiskOK(disk) /\ promised \in [DOMAIN promised -> Seq(Record)]
      /\ DirFits(log.active, disk)
  BY DEF IInv, TypeOK
<1>3. PICK lost \in SUBSET {s \in DOMAIN disk.files : ~disk.files[s].named},
           back \in SUBSET DOMAIN disk.unlinked :
        LET dir == [s \in (DOMAIN disk.files \ lost) \cup back |->
                      IF s \in back THEN disk.unlinked[s] ELSE disk.files[s]]
        IN  \E left \in [DOMAIN dir -> UNION {Survivors(dir[s]) : s \in DOMAIN dir}] :
              /\ \A s \in DOMAIN dir : left[s] \in Survivors(dir[s])
              /\ disk' = [files |-> left, unlinked |-> <<>>]
  BY DEF PowerLoss
<1> DEFINE dir == [s \in (DOMAIN disk.files \ lost) \cup back |->
                     IF s \in back THEN disk.unlinked[s] ELSE disk.files[s]]
<1>4. PICK left \in [DOMAIN dir -> UNION {Survivors(dir[s]) : s \in DOMAIN dir}] :
        /\ \A s \in DOMAIN dir : left[s] \in Survivors(dir[s])
        /\ disk' = [files |-> left, unlinked |-> <<>>]
  BY <1>3
<1>5. /\ DOMAIN dir = (DOMAIN disk.files \ lost) \cup back
      /\ \A s \in DOMAIN dir :
           /\ s \in Nat \ {0}
           /\ dir[s] = IF s \in back THEN disk.unlinked[s] ELSE disk.files[s]
           /\ dir[s] \in File
           /\ dir[s].safe <= Len(dir[s].frames)
  BY <1>2, <1>3 DEF DiskOK, Files, DirFits
<1> HIDE DEF dir
<1>6. \A s \in DOMAIN dir : left[s] \in File /\ Keeps(dir[s], left[s])
  BY <1>4, <1>5, SurvivorKeeps
<1>7. disk'.files = left /\ disk'.unlinked = <<>> /\ DOMAIN <<>> = {}
      /\ DOMAIN left = DOMAIN dir /\ left \in [DOMAIN left -> File]
  BY <1>4, <1>6
<1>8. DiskOK(disk')
  BY <1>4, <1>5, <1>7 DEF DiskOK, Files
<1>9. DirFits(log'.active, disk')
  BY <1>1, <1>6, <1>7, NoLogIs DEF DirFits, Keeps
<1>10. ASSUME Kept(disk, promised) PROVE Kept(disk', promised')
  <2>1. ASSUME NEW s \in DOMAIN promised
        PROVE  /\ s \in DOMAIN disk'.files
               /\ s \notin DOMAIN disk'.unlinked
               /\ Keeps(disk.files[s], disk'.files[s])
    <3>1. s \in DOMAIN disk.files /\ s \notin back /\ disk.files[s].named
      BY <1>3, <1>10, <2>1 DEF Kept, Holds
    <3>2. s \in DOMAIN dir /\ dir[s] = disk.files[s]
      BY <1>3, <1>5, <3>1
    <3> QED
      BY <1>6, <1>7, <3>2
  <2> QED
    BY <1>1, <1>2, <1>8, <1>10, <2>1, KeptMoves
<1>11. TypeOK'
  BY <1>1, <1>8, NoLogIs, NoSyncIs DEF IInv, TypeOK
<1>12. SyncFits(sync', log', disk'.files[log'.active], batch')
  BY <1>1, NoSyncIs DEF SyncFits
<1> QED
  BY <1>1, <1>9, <1>10, <1>11, <1>12, NoLogIs DEF IInv

\* Every step keeps the invariant.
LEMMA StepInv == IInv /\ [Next]_vars => IInv'
<1> SUFFICES ASSUME IInv, [Next]_vars PROVE IInv'
  OBVIOUS
<1>1. CASE UNCHANGED vars
  BY <1>1 DEF vars, IInv, TypeOK
<1>2. CASE Open
  BY <1>2, OpenInv
<1>3. CASE AppendRecord
  BY <1>3, AppendInv
<1>4. CASE SyncStart
  BY <1>4, SyncStartInv
<1>5. CASE SyncClean
  BY <1>5, SyncCleanInv
<1>6. CASE SyncClosed
  BY <1>6, SyncClosedInv
<1>7. CASE Rotate
  BY <1>7, RotateInv
<1>8. CASE Close
  BY <1>8, CloseInv
<1>9. CASE \E ok \in BOOLEAN : SyncFile(ok) \/ SyncDir(ok)
  BY <1>9, SyncFileInv, SyncDirInv
<1>10. CASE \E s \in DOMAIN disk.files :
              Remove(s) \/ \E ok \in BOOLEAN : Quarantine(s, ok)
  BY <1>10, RemoveInv, QuarantineInv
<1>11. CASE Kill
  BY <1>11, KillInv
<1>12. CASE PowerLoss
  BY <1>12, PowerLossInv
<1> QED
  BY <1>1, <1>2, <1>3, <1>4, <1>5, <1>6, <1>7, <1>8, <1>9, <1>10, <1>11, <1>12
     DEF Next

\* The strengthened invariant holds for as long as the log runs, stops and
\* starts again (wal.go).
THEOREM LogInvariant == Spec => []IInv
<1>1. Init => IInv
  BY InitInv
<1>2. IInv /\ [Next]_vars => IInv'
  BY StepInv
<1> QED
  BY <1>1, <1>2, PTL DEF Spec

------------------------------------------------------------------------------
(* What follows from it. *)

\* Every variable keeps its type, whatever fails or stops (wal.go).
THEOREM TypeCorrect == Spec => []TypeOK
<1>1. IInv => TypeOK
  BY DEF IInv
<1> QED
  BY <1>1, LogInvariant, PTL

\* Pending always tells exactly how many accepted records the last sync that
\* completed did not cover (Pending, Sync).
THEOREM PendingIsExact == Spec => []PendingCounts
<1>1. IInv => PendingCounts
  BY DEF IInv, Fits, CoveredBy, PendingCounts
<1> QED
  BY <1>1, LogInvariant, PTL

\* No open log has part of a frame at the end of its file without knowing
\* that it must cut it off before it writes again (writeLocked).
THEOREM TearIsRemembered == Spec => []TearIsKnown
<1>1. IInv => TearIsKnown
  BY DEF IInv, Fits, TearIsKnown
<1> QED
  BY <1>1, LogInvariant, PTL

\* A sequence of frames is the one that holds the records b when it has its
\* length and its members.
LEMMA HoldingIs ==
  ASSUME NEW q \in Seq(Frame), NEW b \in Seq(Record), Len(q) = Len(b) + 1,
         \A i \in 1..Len(q) : q[i] = Entry(b, i)
  PROVE  q = <<Magic>> \o b
<1> DEFINE want == <<Magic>> \o b
<1>1. <<Magic>> \in Seq(Nat) /\ b \in Seq(Nat) /\ q \in Seq(Nat) /\ Len(b) \in Nat
  BY DEF Magic, Record, Frame
<1>2. /\ want \in Seq(Nat) /\ Len(want) = Len(b) + 1
      /\ want[1] = Magic
      /\ \A i \in 1..Len(b) : want[i + 1] = b[i]
  BY <1>1
<1> HIDE DEF want
<1>3. ASSUME NEW i \in 1..Len(q) PROVE q[i] = want[i]
  <2>1. CASE i = 1
    BY <1>2, <2>1 DEF Entry
  <2>2. CASE i # 1
    <3>1. i - 1 \in 1..Len(b) /\ (i - 1) + 1 = i
      BY <1>1, <2>2
    <3> QED
      BY <1>2, <2>2, <3>1 DEF Entry
  <2> QED
    BY <2>1, <2>2
<1>4. q = want
  BY <1>1, <1>2, <1>3, SeqEqual
<1> QED
  BY <1>4 DEF want

\* Where the elements of two sequences are in their concatenation.
LEMMA ConcatenationAt ==
  ASSUME NEW s \in Seq(Nat), NEW t \in Seq(Nat)
  PROVE  /\ s \o t \in Seq(Nat) /\ Len(s \o t) = Len(s) + Len(t)
         /\ \A i \in 1..Len(s) : (s \o t)[i] = s[i]
         /\ \A i \in 1..Len(t) : (s \o t)[Len(s) + i] = t[i]
<1>1. s \o t \in Seq(Nat) /\ Len(s \o t) = Len(s) + Len(t)
  OBVIOUS
<1>2. ASSUME NEW i \in 1..Len(s) PROVE (s \o t)[i] = s[i]
  OBVIOUS
<1>3. ASSUME NEW i \in 1..Len(t) PROVE (s \o t)[Len(s) + i] = t[i]
  OBVIOUS
<1> QED
  BY <1>1, <1>2, <1>3

LEMMA HoldsBatch == IInv => SegmentHoldsBatch
<1> SUFFICES ASSUME IInv, log.active # 0
             PROVE  SubSeq(disk.files[log.active].frames, 1, log.written) \o log.buffer
                      = <<Magic>> \o batch
  BY DEF SegmentHoldsBatch
<1> DEFINE f == disk.files[log.active]
           out == SubSeq(f.frames, 1, log.written)
           q == out \o log.buffer
<1>1. /\ log \in Log /\ f \in File /\ batch \in Seq(Record) /\ Fits(log, f, batch)
  BY HelperFits
<1>2. /\ f.frames \in Seq(Nat) /\ log.buffer \in Seq(Nat) /\ log.written \in Nat
      /\ log.written <= Len(f.frames) /\ Len(batch) \in Nat
      /\ Len(log.buffer) \in Nat
      /\ Len(batch) + 1 = log.written + Len(log.buffer)
  BY <1>1 DEF File, Log, Frame, Fits
<1> HIDE DEF f
<1>3. /\ out \in Seq(Nat) /\ Len(out) = log.written
      /\ \A i \in 1..log.written : out[i] = f.frames[i]
  BY <1>2, SMTT(30)
<1> HIDE DEF out
<1>4. /\ q \in Seq(Nat) /\ Len(q) = log.written + Len(log.buffer)
      /\ \A i \in 1..log.written : q[i] = out[i]
      /\ \A i \in 1..Len(log.buffer) : q[log.written + i] = log.buffer[i]
  <2> HIDE DEF q
  <2>1. /\ q \in Seq(Nat) /\ Len(q) = Len(out) + Len(log.buffer)
        /\ \A i \in 1..Len(out) : q[i] = out[i]
        /\ \A i \in 1..Len(log.buffer) : q[Len(out) + i] = log.buffer[i]
    BY <1>2, <1>3, ConcatenationAt, Zenon DEF q
  <2>2. Len(out) = log.written
    BY <1>3
  <2> QED
    BY <2>1, <2>2, Zenon
<1> HIDE DEF q
<1>5. ASSUME NEW i \in 1..Len(q) PROVE q[i] = Entry(batch, i)
  <2>1. CASE i \in 1..log.written
    BY <1>1, <1>3, <1>4, <2>1 DEF Fits
  <2>2. CASE i \notin 1..log.written
    <3>1. i - log.written \in 1..Len(log.buffer) /\ log.written + (i - log.written) = i
      BY <1>2, <1>4, <2>2
    <3> QED
      BY <1>1, <1>4, <3>1 DEF Fits
  <2> QED
    BY <2>1, <2>2
<1>6. q \in Seq(Frame) /\ Len(q) = Len(batch) + 1
  BY <1>2, <1>4 DEF Frame
<1>7. q = <<Magic>> \o batch
  BY <1>1, <1>5, <1>6, HoldingIs
<1> QED
  BY <1>7 DEF q, out, f

\* What is written of the segment and what is in the buffer are the batch,
\* in order, after any failure: a frame is not skipped, repeated or left
\* behind one that was cut (Append, writeLocked).
THEOREM SegmentIsBatch == Spec => []SegmentHoldsBatch
  BY HoldsBatch, LogInvariant, PTL

\* The first frames of a file that holds the records p.
LEMMA HeldPrefix ==
  ASSUME NEW f \in File, NEW p \in Seq(Record), Holds(f, p), f.safe <= Len(f.frames)
  PROVE  SubSeq(f.frames, 1, Len(p) + 1) = <<Magic>> \o p
<1> DEFINE n == Len(p) + 1
           q == SubSeq(f.frames, 1, n)
<1>1. f.frames \in Seq(Nat) /\ n \in Nat /\ f.safe \in Nat /\ Len(f.frames) \in Nat
      /\ n <= f.safe
  BY DEF File, Frame, Holds
<1>2. n <= Len(f.frames)
  BY <1>1
<1>3. /\ q \in Seq(Nat) /\ Len(q) = n
      /\ \A i \in 1..n : q[i] = f.frames[i]
  BY <1>1, <1>2
<1> HIDE DEF q
<1>4. q = <<Magic>> \o p
  BY <1>3, HoldingIs DEF Holds, Frame
<1> QED
  BY <1>4 DEF q

\* No stop, failure or rotation takes a record that some Sync, Rotate or Close
\* of the open log reported on disk (Sync, Rotate, Close).
THEOREM PromisesAreKept == Spec => []PromisedIsSafe
<1>1. IInv => PromisedIsSafe
  <2> SUFFICES ASSUME IInv, NEW s \in DOMAIN promised
               PROVE  /\ s \in DOMAIN disk.files
                      /\ disk.files[s].named
                      /\ disk.files[s].safe >= Len(promised[s]) + 1
                      /\ SubSeq(disk.files[s].frames, 1, Len(promised[s]) + 1)
                           = <<Magic>> \o promised[s]
    BY DEF PromisedIsSafe, OnDisk
  <2> DEFINE f == disk.files[s]
             p == promised[s]
  <2>1. /\ s \in DOMAIN disk.files /\ Holds(f, p)
        /\ f \in File /\ p \in Seq(Record)
        /\ f.safe <= Len(f.frames)
    BY DEF IInv, Kept, TypeOK, DiskOK, Files, DirFits
  <2> HIDE DEF f, p
  <2>2. SubSeq(f.frames, 1, Len(p) + 1) = <<Magic>> \o p
    BY <2>1, HeldPrefix
  <2>3. f.named /\ f.safe >= Len(p) + 1
    <3>1. f.safe \in Nat /\ Len(p) \in Nat /\ f.named /\ Len(p) + 1 <= f.safe
      BY <2>1 DEF File, Holds
    <3> QED
      BY <3>1
  <2> QED
    BY <2>1, <2>2, <2>3 DEF f, p
<1> QED
  BY <1>1, LogInvariant, PTL

\* No other step takes the log to the next segment.
LEMMA OnlyRotate ==
  ASSUME IInv, [Next]_vars, ~Rotate, log.active # 0
  PROVE  log'.active \in {log.active, 0}
<1>1. /\ log \in Log /\ DiskOK(disk) /\ log.active \in DOMAIN disk.files
      /\ batch \in Seq(Record) /\ Fits(log, disk.files[log.active], batch)
  BY HelperFits
<1>2. \A out \in WriteLocked(log, disk) : out.log \in Log /\ out.log.active = log.active
  BY <1>1, WriteLockedFits DEF Moved
<1>3. \A out \in SyncLocked(log, disk) : out.log \in Log /\ out.log.active = log.active
  BY <1>1, SyncLockedFits DEF Moved
<1>4. CASE AppendRecord
  <2>1. PICK out \in WriteLocked(log, disk) \cup {Result(log, disk, TRUE)} :
          log' = IF out.ok
                 THEN [out.log EXCEPT !.buffer = Append(@, issued'), !.pending = @ + 1]
                 ELSE out.log
    BY <1>4 DEF AppendRecord
  <2>2. out.log \in Log /\ out.log.active = log.active
    BY <1>1, <1>2 DEF Result
  <2> QED
    BY <2>1, <2>2 DEF Log
<1>5. CASE SyncStart
  BY <1>2, <1>5 DEF SyncStart
<1>6. CASE Close
  <2>1. PICK out \in SyncLocked(log, disk) : log' = [out.log EXCEPT !.closed = TRUE]
    BY <1>6 DEF Close
  <2> QED
    BY <1>3, <2>1 DEF Log
<1>7. CASE \E ok \in BOOLEAN : SyncFile(ok) \/ SyncDir(ok)
  <2>1. log' = log \/ SyncDone
    BY <1>7 DEF SyncFile, SyncDir
  <2> QED
    BY <1>1, <2>1 DEF SyncDone, Log
<1>8. CASE Kill \/ PowerLoss
  BY <1>8, NoLogIs DEF Kill, PowerLoss, Stopped
<1>9. CASE \/ Open \/ SyncClean \/ SyncClosed \/ UNCHANGED vars
           \/ \E s \in DOMAIN disk.files :
                Remove(s) \/ \E ok \in BOOLEAN : Quarantine(s, ok)
  BY <1>9 DEF Open, SyncClean, SyncClosed, Remove, Quarantine, vars
<1> QED
  BY <1>4, <1>5, <1>6, <1>7, <1>8, <1>9 DEF Next

\* A rotation never seals a segment that is torn, that is not all on disk, or
\* that holds other records than the batch it is paired with (Rotate).
THEOREM RotationIsWhole == Spec => RotationSealsBatch
<1> DEFINE sealed == [frames |-> <<Magic>> \o batch, tail |-> "clean",
                      safe |-> Len(batch) + 1, named |-> TRUE]
           Seals == log.active # 0 /\ log'.active = log.active + 1 =>
                      disk'.files[log.active] = sealed
<1>1. IInv /\ [Next]_vars => Seals
  <2> SUFFICES ASSUME IInv, [Next]_vars, log.active # 0, log'.active = log.active + 1
               PROVE  disk'.files[log.active] = sealed
    OBVIOUS
  <2>1. log.active \in Nat /\ batch \in Seq(Record)
    BY HelperFits DEF Log
  <2>2. Rotate
    BY <2>1, OnlyRotate
  <2>3. PICK out \in SyncLocked(log, disk), created \in BOOLEAN :
          IF out.ok /\ created
          THEN disk' = [out.disk EXCEPT !.files = With(@, log.active + 1, EmptyFile)]
          ELSE log' = out.log
    BY <2>2 DEF Rotate
  <2> DEFINE g == out.disk.files[log.active]
  <2>4. /\ out.log.active = log.active
        /\ DiskOK(out.disk) /\ log.active \in DOMAIN out.disk.files
        /\ g \in File
        /\ out.ok => Whole(out.log, g, batch) /\ Holds(g, batch)
    BY SyncLockedKeeps
  <2>5. out.ok /\ disk' = [out.disk EXCEPT !.files = With(@, log.active + 1, EmptyFile)]
    BY <2>1, <2>3, <2>4
  <2>6. disk'.files[log.active] = g
    BY <2>1, <2>4, <2>5 DEF With, DiskOK
  <2> HIDE DEF g
  <2>7. g = [frames |-> g.frames, tail |-> g.tail, safe |-> g.safe, named |-> g.named]
    BY <2>4 DEF File
  <2>8. /\ g.tail = "clean" /\ g.named = TRUE /\ g.safe = Len(batch) + 1
        /\ Len(g.frames) = Len(batch) + 1 /\ g.frames \in Seq(Frame)
    BY <2>4, <2>5 DEF Whole, File
  <2>9. g.frames = <<Magic>> \o batch
    BY <2>1, <2>4, <2>5, <2>8, HoldingIs DEF Holds
  <2> QED
    BY <2>6, <2>7, <2>8, <2>9
<1>2. Spec => [][Seals]_vars
  BY <1>1, LogInvariant, PTL DEF Spec
<1> QED
  BY <1>2 DEF RotationSealsBatch
------------------------------------------------------------------------------
(* The log implements RecordLog.  That takes an invariant more: what a kill *)
(* leaves of the active file is part of the batch, torn or not, and no     *)
(* number is both in the directory and unlinked.                           *)

Begins(f, b) ==
  /\ f.tail # "damaged"
  /\ Len(f.frames) <= Len(b) + 1
  /\ \A i \in 1..Len(f.frames) : f.frames[i] = Entry(b, i)

Apart(d) == DOMAIN d.files \cap DOMAIN d.unlinked = {}

RefineInv ==
  /\ IInv
  /\ log.active # 0 => Begins(disk.files[log.active], batch)
  /\ Apart(disk)

\* Only a tear leaves frames behind what is written.
LEMMA WholeBegins ==
  ASSUME NEW l \in Log, NEW f \in File, NEW b \in Seq(Record), Fits(l, f, b), ~l.torn
  PROVE  Begins(f, b)
<1>1. /\ l.written \in Nat /\ Len(l.buffer) \in Nat /\ Len(b) \in Nat
      /\ l.written = Len(f.frames) /\ f.tail = "clean"
      /\ Len(b) + 1 = l.written + Len(l.buffer)
      /\ \A i \in 1..l.written : f.frames[i] = Entry(b, i)
  BY DEF Fits, Log
<1>2. \A i \in 1..Len(f.frames) : f.frames[i] = Entry(b, i)
  BY <1>1, Zenon
<1>3. Len(f.frames) <= Len(b) + 1
  <2>1. \A m, n \in Nat : m <= m + n
    OBVIOUS
  <2> QED
    BY <1>1, <2>1, Zenon
<1> QED
  BY <1>1, <1>2, <1>3, Zenon DEF Begins

\* The first elements of a sequence.
LEMMA PrefixIs ==
  ASSUME NEW S, NEW q \in Seq(S), NEW k \in Nat, k <= Len(q)
  PROVE  /\ SubSeq(q, 1, k) \in Seq(S) /\ Len(SubSeq(q, 1, k)) = k
         /\ \A i \in 1..k : SubSeq(q, 1, k)[i] = q[i]
OBVIOUS

\* A write that tears the file leaves part of the buffer in it.
LEMMA TearBegins ==
  ASSUME NEW l \in Log, NEW f \in File, NEW b \in Seq(Record), Fits(l, f, b),
         Len(f.frames) = l.written, NEW k \in 0 .. Len(l.buffer) - 1
  PROVE  Begins(Torn(f, SubSeq(l.buffer, 1, k)), b)
<1> DEFINE part == SubSeq(l.buffer, 1, k)
           g == Longer(f, part)
<1>1. /\ l.written \in Nat /\ l.buffer \in Seq(Nat) /\ Len(l.buffer) \in Nat /\ Len(b) \in Nat
      /\ Len(b) + 1 = l.written + Len(l.buffer)
      /\ k \in Nat /\ k <= Len(l.buffer)
  BY DEF Fits, Log, Frame
<1>2. /\ part \in Seq(Nat) /\ Len(part) = k
      /\ \A i \in 1..k : part[i] = l.buffer[i]
  BY <1>1, PrefixIs
<1> HIDE DEF part
<1>3. /\ g \in File
      /\ Len(g.frames) = l.written + k
      /\ \A i \in 1..l.written : g.frames[i] = f.frames[i]
      /\ \A i \in 1..k : g.frames[l.written + i] = part[i]
  <2>1. part \in Seq(Frame)
    BY <1>2 DEF Frame
  <2>2. /\ g \in File
        /\ Len(g.frames) = Len(f.frames) + Len(part)
        /\ \A i \in 1..Len(f.frames) : g.frames[i] = f.frames[i]
        /\ \A i \in 1..Len(part) : g.frames[Len(f.frames) + i] = part[i]
    BY <2>1, LongerIs
  <2> HIDE DEF g
  <2>3. Len(part) = k /\ Len(f.frames) = l.written
    BY <1>2
  <2> QED
    BY <2>2, <2>3, Zenon
<1> HIDE DEF g
<1>4. Torn(f, part).frames = g.frames /\ Torn(f, part).tail = "torn"
  BY <1>3 DEF Torn, File, g
<1>5. ASSUME NEW i \in 1..Len(g.frames) PROVE g.frames[i] = Entry(b, i)
  <2>1. CASE i \in 1..l.written
    BY <1>3, <2>1 DEF Fits
  <2>2. CASE i \notin 1..l.written
    <3>0. Len(g.frames) = l.written + k
      BY <1>3
    <3>1. i - l.written \in 1..k /\ l.written + (i - l.written) = i
      <4>1. i \in 1..l.written + k /\ k \in Nat /\ l.written \in Nat
        BY <1>1, <3>0
      <4> QED
        BY <4>1, <2>2
    <3>2. g.frames[i] = part[i - l.written]
      BY <1>3, <3>1
    <3>3. part[i - l.written] = l.buffer[i - l.written]
      BY <1>2, <3>1
    <3>4. i - l.written \in 1..Len(l.buffer)
      BY <1>1, <3>1
    <3>5. l.buffer[i - l.written] = Entry(b, l.written + (i - l.written))
      BY <3>4 DEF Fits
    <3> QED
      BY <3>1, <3>2, <3>3, <3>5
  <2> QED
    BY <2>1, <2>2
<1>6. Len(g.frames) <= Len(b) + 1
  BY <1>1, <1>3
<1> QED
  BY <1>4, <1>5, <1>6 DEF Begins, part

LEMMA WriteLockedBegins ==
  ASSUME NEW l \in Log, NEW d, DiskOK(d), l.active \in DOMAIN d.files,
         NEW b \in Seq(Record), Fits(l, d.files[l.active], b),
         Begins(d.files[l.active], b), NEW w \in WriteLocked(l, d)
  PROVE  /\ Begins(w.disk.files[l.active], b)
         /\ \A s \in DOMAIN d.files \ {l.active} : w.disk.files[s] = d.files[s]
<1> DEFINE f == d.files[l.active]
           cut == Cut(l, f)
           whole == [l EXCEPT !.torn = FALSE]
           Put(g) == [d EXCEPT !.files[l.active] = g]
           g1 == [cut EXCEPT !.frames = @ \o l.buffer]
           g2(k) == [cut EXCEPT !.frames = @ \o SubSeq(l.buffer, 1, k),
                                !.tail = "torn"]
           m1 == [whole EXCEPT !.written = @ + Len(l.buffer), !.buffer = <<>>]
<1>1. /\ Moved(l, d, w) /\ Fits(w.log, w.disk.files[l.active], b)
  BY WriteLockedFits
<1>2. /\ f \in File /\ w.log \in Log /\ w.disk.files[l.active] \in File
      /\ d = [files |-> d.files, unlinked |-> d.unlinked]
  BY <1>1 DEF DiskOK, Files, Moved
<1>3. \/ w = Result(l, d, FALSE)
      \/ w = Result(whole, Put(cut), TRUE)
      \/ w = Result(whole, Put(cut), FALSE)
      \/ w = Result(m1, Put(g1), TRUE)
      \/ \E k \in 0 .. Len(l.buffer) - 1 : w = Result(Tear(l), Put(g2(k)), FALSE)
  BY DEF WriteLocked
<1>4. whole.torn = FALSE /\ m1.torn = FALSE
  BY DEF Log
<1>5. \A g : /\ \A s \in DOMAIN d.files \ {l.active} : Put(g).files[s] = d.files[s]
             /\ Put(g).files[l.active] = g
  BY <1>2
<1> HIDE DEF f, cut, whole, Put, g1, g2, m1
<1>6. \/ w.disk = d
      \/ ~w.log.torn /\ \E g : w.disk = Put(g)
      \/ \E k \in 0 .. Len(l.buffer) - 1 : w.disk = Put(g2(k))
  BY <1>3, <1>4 DEF Result
<1>7. \A s \in DOMAIN d.files \ {l.active} : w.disk.files[s] = d.files[s]
  BY <1>5, <1>6
<1>8. CASE w.disk = d
  BY <1>7, <1>8
<1>9. CASE ~w.log.torn
  BY <1>1, <1>2, <1>7, <1>9, WholeBegins
<1>10. CASE \E k \in 0 .. Len(l.buffer) - 1 : w.disk = Put(g2(k))
  <2>1. PICK k \in 0 .. Len(l.buffer) - 1 : w.disk = Put(g2(k))
    BY <1>10
  <2>2. /\ cut \in File /\ Len(cut.frames) = l.written
    BY <1>2, CutWhole DEF Fits, f, cut
  <2>3. Fits(l, cut, b)
    BY <1>2, CutFits DEF f, cut
  <2>4. g2(k) = Torn(cut, SubSeq(l.buffer, 1, k))
    BY <2>2 DEF g2, Torn, Longer, File
  <2>5. Begins(g2(k), b)
    BY <2>2, <2>3, <2>4, TearBegins
  <2> QED
    BY <1>5, <1>7, <2>1, <2>5
<1> QED
  BY <1>6, <1>8, <1>9, <1>10

LEMMA SyncLockedBegins ==
  ASSUME NEW l \in Log, NEW d, DiskOK(d), l.active \in DOMAIN d.files,
         NEW b \in Seq(Record), Fits(l, d.files[l.active], b),
         Begins(d.files[l.active], b), NEW w \in SyncLocked(l, d)
  PROVE  Begins(w.disk.files[l.active], b)
<1>1. CASE ~Dirty(l)
  BY <1>1 DEF SyncLocked, Result
<1>2. CASE Dirty(l)
  <2>1. PICK v \in WriteLocked(l, d) :
          \/ w = v
          \/ v.ok /\ \E p \in Persist(v.log, v.disk) : w.disk = p.disk
    <3>1. PICK v \in WriteLocked(l, d) :
            \/ ~v.ok /\ w = v
            \/ v.ok /\ \E p \in Persist(v.log, v.disk) :
                 \/ ~p.ok /\ w = p
                 \/ p.ok /\ w = Result([p.log EXCEPT !.synced = p.log.written,
                                                     !.listed = TRUE, !.pending = 0],
                                       p.disk, TRUE)
      BY <1>2 DEF SyncLocked
    <3>2. ASSUME NEW p, w = p \/ w = Result([p.log EXCEPT !.synced = p.log.written,
                                                     !.listed = TRUE, !.pending = 0],
                                       p.disk, TRUE)
          PROVE  w.disk = p.disk
      BY <3>2 DEF Result
    <3> QED
      BY <3>1, <3>2
  <2>2. /\ Moved(l, d, v) /\ Fits(v.log, v.disk.files[l.active], b)
        /\ Begins(v.disk.files[l.active], b)
    BY WriteLockedFits, WriteLockedBegins
  <2>3. /\ v.log \in Log /\ DiskOK(v.disk) /\ v.log.active = l.active
        /\ l.active \in DOMAIN v.disk.files
    BY <2>2 DEF Moved
  <2>4. ASSUME NEW p \in Persist(v.log, v.disk), w.disk = p.disk
        PROVE  Begins(w.disk.files[l.active], b)
    <3>1. /\ p.disk.files[l.active].frames = v.disk.files[l.active].frames
          /\ p.disk.files[l.active].tail = v.disk.files[l.active].tail
      BY <2>2, <2>3, PersistFits, SMTT(30)
    <3> QED
      BY <2>2, <2>4, <3>1 DEF Begins
  <2> QED
    BY <2>1, <2>2, <2>4
<1> QED
  BY <1>1, <1>2

\* What a replay reads of a file.
Replayed(f) == IF f.frames = <<>> THEN <<>> ELSE Tail(f.frames)

\* The files of a directory as segments, the file a being open and holding
\* the records b.
View(a, b, files) ==
  [s \in DOMAIN files |->
     Abstracted(files[s], IF s = a THEN b ELSE Replayed(files[s]))]

Past(files) == [s \in DOMAIN files |-> Abstracted(files[s], Replayed(files[s]))]

LEMMA ReplayedIs ==
  ASSUME NEW f \in File
  PROVE  /\ Replayed(f) \in Seq(Nat)
         /\ Len(f.frames) \in Nat
         /\ Len(Replayed(f)) = IF Len(f.frames) = 0 THEN 0 ELSE Len(f.frames) - 1
         /\ \A i \in 1..Len(f.frames) - 1 : Replayed(f)[i] = f.frames[i + 1]
<1> DEFINE q == f.frames
<1>1. q \in Seq(Nat) /\ Len(q) \in Nat
  BY DEF File, Frame
<1>2. Replayed(f) = IF q = <<>> THEN <<>> ELSE Tail(q)
  BY DEF Replayed
<1> HIDE DEF q
<1>3. CASE q = <<>>
  <2>1. Len(q) = 0 /\ Replayed(f) = <<>> /\ <<>> \in Seq(Nat) /\ Len(<<>>) = 0
    BY <1>2, <1>3
  <2> QED
    BY <2>1 DEF q
<1>4. CASE q # <<>>
  <2>1. /\ Tail(q) \in Seq(Nat) /\ Len(Tail(q)) = Len(q) - 1 /\ Len(q) # 0
        /\ \A i \in 1..Len(q) - 1 : Tail(q)[i] = q[i + 1]
    BY <1>1, <1>4
  <2> QED
    BY <1>1, <1>2, <1>4, <2>1 DEF q
<1> QED
  BY <1>3, <1>4

LEMMA AbstractedIs ==
  ASSUME NEW f \in File, NEW b
  PROVE  /\ Abstracted(f, b).recs = b
         /\ Abstracted(f, b).hard = IF f.named /\ f.safe > 0 THEN f.safe - 1 ELSE 0
         /\ Abstracted(f, b).hard \in Nat
         /\ Abstracted(f, b).damaged = (f.tail = "damaged")
         /\ Abstracted(f, b) = [recs |-> b, hard |-> Abstracted(f, b).hard,
                                damaged |-> f.tail = "damaged"]
<1>1. f.safe \in Nat
  BY DEF File
<1>2. (IF f.named /\ f.safe > 0 THEN f.safe - 1 ELSE 0) \in Nat
  BY <1>1
<1> QED
  BY <1>2 DEF Abstracted

\* More of a file on disk, and the same records in it.
LEMMA HarderIs ==
  ASSUME NEW f \in File, NEW g \in File, NEW b, Len(b) \in Nat,
         (g.tail = "damaged") = (f.tail = "damaged"),
         f.named => g.named, f.safe <= g.safe,
         g.safe <= Len(b) + 1
  PROVE  Abstracted(g, b) \in Promise!Harder(Abstracted(f, b))
<1> DEFINE x == Abstracted(f, b)
           y == Abstracted(g, b)
<1>1. /\ x.recs = b /\ x.hard \in Nat /\ x.damaged = (f.tail = "damaged")
      /\ x.hard = IF f.named /\ f.safe > 0 THEN f.safe - 1 ELSE 0
      /\ x = [recs |-> b, hard |-> x.hard, damaged |-> f.tail = "damaged"]
  BY AbstractedIs
<1>2. /\ y.hard \in Nat
      /\ y.hard = IF g.named /\ g.safe > 0 THEN g.safe - 1 ELSE 0
      /\ y = [recs |-> b, hard |-> y.hard, damaged |-> g.tail = "damaged"]
  BY AbstractedIs
<1> HIDE DEF x, y
<1>3. x.hard <= y.hard /\ y.hard <= Len(b)
  <2>1. f.safe \in Nat /\ g.safe \in Nat
    BY DEF File
  <2> QED
    BY <1>1, <1>2, <2>1
<1>4. y.hard \in x.hard .. Len(x.recs)
  BY <1>1, <1>2, <1>3
<1>5. y = [x EXCEPT !.hard = y.hard]
  BY <1>1, <1>2
<1> QED
  BY <1>4, <1>5 DEF Promise!Harder, x, y

LEMMA NamedIs ==
  ASSUME NEW f \in File, f.safe <= Len(f.frames),
         NEW g \in {f, [f EXCEPT !.named = TRUE]}
  PROVE  /\ g \in File /\ g.frames = f.frames /\ g.safe = f.safe /\ g.tail = f.tail
         /\ f.named => g.named
         /\ Replayed(g) = Replayed(f)
         /\ Abstracted(g, Replayed(g)) \in Promise!Harder(Abstracted(f, Replayed(f)))
<1>1. /\ g \in File /\ g.frames = f.frames /\ g.safe = f.safe /\ g.tail = f.tail
      /\ f.named => g.named
  BY DEF File
<1>2. Replayed(g) = Replayed(f)
  BY <1>1 DEF Replayed
<1>3. /\ Len(Replayed(f)) \in Nat /\ f.safe \in Nat
      /\ g.safe <= Len(Replayed(f)) + 1
  <2>1. f.safe \in Nat
    BY DEF File
  <2> QED
    BY <1>1, <2>1, ReplayedIs
<1>4. f.safe <= g.safe
  BY <1>1, <1>3
<1>5. Abstracted(g, Replayed(f)) \in Promise!Harder(Abstracted(f, Replayed(f)))
  BY <1>1, <1>3, <1>4, HarderIs
<1> QED
  BY <1>1, <1>2, <1>5

\* What the helpers and the two halves of a Sync do to the directory.
Hardened(a, b, d, e) ==
  LET f == d.files[a]
      g == e.files[a]
  IN  /\ DiskOK(e)
      /\ DOMAIN e.files = DOMAIN d.files
      /\ e.unlinked \in {d.unlinked, <<>>}
      /\ \A s \in DOMAIN d.files \ {a} :
           e.files[s] \in {d.files[s], [d.files[s] EXCEPT !.named = TRUE]}
      /\ f.named => g.named
      /\ f.safe <= g.safe
      /\ g.safe <= Len(b) + 1
      /\ g.tail # "damaged"

LEMMA MovedHardened ==
  ASSUME NEW l \in Log, NEW d, DiskOK(d), l.active \in DOMAIN d.files,
         NEW b \in Seq(Record), NEW w, Moved(l, d, w),
         Fits(w.log, w.disk.files[l.active], b), Begins(w.disk.files[l.active], b)
  PROVE  Hardened(l.active, b, d, w.disk)
<1> DEFINE g == w.disk.files[l.active]
<1>1. w.log \in Log /\ g \in File
  BY DEF Moved, DiskOK, Files
<1>2. /\ g.safe <= w.log.written /\ Len(b) + 1 = w.log.written + Len(w.log.buffer)
      /\ g.tail # "damaged"
  BY DEF Fits, Begins
<1>3. /\ g.safe \in Nat /\ w.log.written \in Nat /\ Len(w.log.buffer) \in Nat
      /\ Len(b) \in Nat
  <2> HIDE DEF g
  <2>1. g.safe \in Nat
    BY <1>1 DEF File
  <2>2. w.log.written \in Nat /\ w.log.buffer \in Seq(Frame)
    BY <1>1 DEF Log
  <2> QED
    BY <2>1, <2>2
<1> HIDE DEF g
<1>4. g.safe <= Len(b) + 1
  BY <1>2, <1>3
<1> QED
  BY <1>2, <1>4 DEF Moved, Hardened, g

\* The segments of a directory on which only more is synced.
LEMMA HardenedIs ==
  ASSUME NEW a, NEW b \in Seq(Record), NEW d, DiskOK(d), a \in DOMAIN d.files,
         DirFits(a, d), d.files[a].tail # "damaged", NEW e, Hardened(a, b, d, e)
  PROVE  /\ View(a, b, e.files) \in Promise!Picks(View(a, b, d.files), Promise!Harder)
         /\ Past(e.unlinked) \in {Past(d.unlinked), <<>>}
<1> DEFINE x == View(a, b, d.files)
           y == View(a, b, e.files)
<1>1. /\ DOMAIN e.files = DOMAIN d.files /\ DiskOK(e)
      /\ e.unlinked \in {d.unlinked, <<>>}
  BY DEF Hardened
<1>2. /\ DOMAIN x = DOMAIN d.files /\ y = [s \in DOMAIN d.files |-> y[s]]
      /\ \A s \in DOMAIN d.files :
           /\ x[s] = Abstracted(d.files[s], IF s = a THEN b ELSE Replayed(d.files[s]))
           /\ y[s] = Abstracted(e.files[s], IF s = a THEN b ELSE Replayed(e.files[s]))
  BY <1>1 DEF View
<1> HIDE DEF x, y
<1>3. \A s \in DOMAIN d.files : /\ d.files[s] \in File /\ e.files[s] \in File
                                /\ d.files[s].safe <= Len(d.files[s].frames)
  BY <1>1 DEF DiskOK, Files, DirFits
<1>4. ASSUME NEW s \in DOMAIN d.files PROVE y[s] \in Promise!Harder(x[s])
  <2>1. CASE s = a
    <3>1. Abstracted(e.files[a], b) \in Promise!Harder(Abstracted(d.files[a], b))
      BY <1>3, HarderIs DEF Hardened
    <3> QED
      BY <1>2, <2>1, <3>1
  <2>2. CASE s # a
    <3>1. e.files[s] \in {d.files[s], [d.files[s] EXCEPT !.named = TRUE]}
      BY <2>2 DEF Hardened
    <3>2. Abstracted(e.files[s], Replayed(e.files[s]))
            \in Promise!Harder(Abstracted(d.files[s], Replayed(d.files[s])))
      BY <1>3, <3>1, NamedIs
    <3> QED
      BY <1>2, <2>2, <3>2
  <2> QED
    BY <2>1, <2>2
<1>5. y \in Promise!Picks(x, Promise!Harder)
  BY <1>2, <1>4 DEF Promise!Picks
<1>6. Past(<<>>) = <<>>
  BY DEF Past
<1> QED
  BY <1>1, <1>5, <1>6 DEF x, y

\* A write changes nothing a reader of the log could see.
LEMMA WrittenIs ==
  ASSUME NEW l \in Log, NEW d, DiskOK(d), l.active \in DOMAIN d.files, NEW b,
         NEW w, Moved(l, d, w), OnlyWritten(l, d, w),
         \A s \in DOMAIN d.files \ {l.active} : w.disk.files[s] = d.files[s],
         d.files[l.active].tail # "damaged", w.disk.files[l.active].tail # "damaged"
  PROVE  View(l.active, b, w.disk.files) = View(l.active, b, d.files)
<1> DEFINE a == l.active
           f == d.files[a]
           g == w.disk.files[a]
<1>1. /\ DOMAIN w.disk.files = DOMAIN d.files
      /\ g.safe = f.safe /\ g.named = f.named
  BY DEF Moved, OnlyWritten
<1>2. Abstracted(g, b) = Abstracted(f, b)
  BY <1>1 DEF Abstracted
<1>3. \A s \in DOMAIN d.files :
        Abstracted(w.disk.files[s], IF s = a THEN b ELSE Replayed(w.disk.files[s]))
          = Abstracted(d.files[s], IF s = a THEN b ELSE Replayed(d.files[s]))
  BY <1>2
<1> QED
  BY <1>1, <1>3 DEF View

Shortened(f, k, t) == [f EXCEPT !.frames = SubSeq(@, 1, k), !.tail = t]

LEMMA SurvivorShape ==
  ASSUME NEW f, NEW g \in Survivors(f)
  PROVE  g = f \/ \E k \in f.safe .. Len(f.frames) - 1, t \in {"clean", "torn", "damaged"} :
                     g = Shortened(f, k, t)
BY DEF Survivors, Shortened

LEMMA PromisedSurvivors ==
  ASSUME NEW x, NEW y
  PROVE  /\ y = x => y \in Promise!Survivors(x)
         /\ \A k \in x.hard .. Len(x.recs) - 1, c \in BOOLEAN :
              y = [recs |-> SubSeq(x.recs, 1, k), hard |-> x.hard, damaged |-> c]
                => y \in Promise!Survivors(x)
         /\ \A c \in BOOLEAN :
              (x.recs = <<>> /\ y = [x EXCEPT !.damaged = c]) => y \in Promise!Survivors(x)
<1> DEFINE A == {[recs |-> SubSeq(x.recs, 1, k), hard |-> x.hard, damaged |-> c] :
                    k \in x.hard .. Len(x.recs) - 1, c \in BOOLEAN}
           B == {[x EXCEPT !.damaged = c] : c \in IF x.recs = <<>> THEN BOOLEAN ELSE {}}
<1>1. Promise!Survivors(x) = {x} \cup A \cup B
  BY DEF Promise!Survivors
<1>2. ASSUME NEW k \in x.hard .. Len(x.recs) - 1, NEW c \in BOOLEAN,
             y = [recs |-> SubSeq(x.recs, 1, k), hard |-> x.hard, damaged |-> c]
      PROVE  y \in A
  BY <1>2
<1>3. ASSUME NEW c \in BOOLEAN, x.recs = <<>>, y = [x EXCEPT !.damaged = c]
      PROVE  y \in B
  BY <1>3, Zenon
<1> HIDE DEF A, B
<1> QED
  BY <1>1, <1>2, <1>3, Zenon

\* What a stop leaves of a file, seen by the next replay, is what RecordLog
\* allows a stop to leave of the records b it held.
LEMMA SurvivorMaps ==
  ASSUME NEW f \in File, f.safe <= Len(f.frames), NEW b \in Seq(Nat),
         Len(f.frames) <= Len(b) + 1,
         \A i \in 1..Len(f.frames) - 1 : f.frames[i + 1] = b[i],
         NEW g \in Survivors(f)
  PROVE  Abstracted(g, Replayed(g)) \in Promise!Survivors(Abstracted(f, b))
<1> DEFINE n == Len(g.frames)
           m == Len(Replayed(g))
           x == Abstracted(f, b)
           y == Abstracted(g, Replayed(g))
<1>0. g = f \/ \E k \in f.safe .. Len(f.frames) - 1, t \in {"clean", "torn", "damaged"} :
                  g = Shortened(f, k, t)
  BY SurvivorShape, Zenon
<1>1. /\ f.frames \in Seq(Nat) /\ f.safe \in Nat /\ Len(f.frames) \in Nat /\ Len(b) \in Nat
  BY DEF File, Frame
<1>2. g \in File /\ f.safe <= n /\ g.safe = f.safe /\ g.named = f.named
  <2>1. g \in File /\ Keeps(f, g)
    BY SurvivorKeeps
  <2>2. g.safe = f.safe /\ g.named = f.named
    BY <1>0 DEF File, Shortened
  <2> QED
    BY <2>1, <2>2 DEF Keeps
<1>3. \/ g = f
      \/ /\ n < Len(f.frames)
         /\ \A i \in 1..n : g.frames[i] = f.frames[i]
  <2> SUFFICES ASSUME g # f
               PROVE  n < Len(f.frames) /\ \A i \in 1..n : g.frames[i] = f.frames[i]
    OBVIOUS
  <2>1. PICK k \in f.safe .. Len(f.frames) - 1, t \in {"clean", "torn", "damaged"} :
          g = Shortened(f, k, t)
    BY <1>0
  <2> DEFINE short == SubSeq(f.frames, 1, k)
  <2>2. k \in Nat /\ k < Len(f.frames)
    BY <1>1
  <2>3. Len(short) = k /\ \A i \in 1..k : short[i] = f.frames[i]
    BY <1>1, <2>2
  <2>4. g.frames = short
    BY <2>1 DEF File, Shortened
  <2> HIDE DEF short
  <2> QED
    BY <2>2, <2>3, <2>4
<1>4. /\ Replayed(g) \in Seq(Nat) /\ n \in Nat /\ m \in Nat
      /\ m = IF n = 0 THEN 0 ELSE n - 1
      /\ \A i \in 1..n - 1 : Replayed(g)[i] = g.frames[i + 1]
  BY <1>2, ReplayedIs
<1>5. n <= Len(f.frames) /\ \A i \in 1..n : g.frames[i] = f.frames[i]
  BY <1>1, <1>3, <1>4
<1>6. m <= Len(b)
  BY <1>1, <1>4, <1>5
<1>7. Replayed(g) = SubSeq(b, 1, m)
  <2> DEFINE q == Replayed(g)
             p == SubSeq(b, 1, m)
  <2>1. p \in Seq(Nat) /\ Len(p) = m /\ \A i \in 1..m : p[i] = b[i]
    <3>1. m \in Nat /\ m <= Len(b)
      BY <1>4, <1>6
    <3> HIDE DEF m
    <3> QED
      BY <3>1, PrefixIs
  <2>2. ASSUME NEW i \in 1..m PROVE q[i] = p[i]
    <3>1. i \in 1..n - 1 /\ i + 1 \in 1..n /\ i \in 1..Len(f.frames) - 1
      BY <1>1, <1>4, <1>5
    <3>2. q[i] = g.frames[i + 1] /\ g.frames[i + 1] = f.frames[i + 1]
      BY <1>4, <1>5, <3>1
    <3>3. f.frames[i + 1] = b[i]
      BY <3>1
    <3> QED
      BY <2>1, <3>2, <3>3
  <2> HIDE DEF p, q
  <2>3. q = p
    BY <1>4, <2>1, <2>2, SeqEqual DEF q
  <2> QED
    BY <2>3 DEF p, q
<1>8. /\ x.recs = b /\ x.hard \in Nat /\ x.damaged = (f.tail = "damaged")
      /\ x.hard = IF f.named /\ f.safe > 0 THEN f.safe - 1 ELSE 0
      /\ x = [recs |-> b, hard |-> x.hard, damaged |-> f.tail = "damaged"]
      /\ y.hard = IF g.named /\ g.safe > 0 THEN g.safe - 1 ELSE 0
      /\ y = [recs |-> Replayed(g), hard |-> y.hard, damaged |-> g.tail = "damaged"]
  BY <1>2, AbstractedIs
<1> HIDE DEF x, y, m, n
<1>9. y.hard = x.hard /\ x.hard <= m
  BY <1>1, <1>2, <1>4, <1>8
<1>10. CASE m < Len(b)
  <2>1. m \in x.hard .. Len(x.recs) - 1 /\ (g.tail = "damaged") \in BOOLEAN
    BY <1>1, <1>4, <1>8, <1>9, <1>10
  <2>2. y = [recs |-> SubSeq(x.recs, 1, m), hard |-> x.hard, damaged |-> g.tail = "damaged"]
    BY <1>7, <1>8, <1>9
  <2> QED
    BY <2>1, <2>2, PromisedSurvivors, Zenon DEF x, y
<1>11. CASE m = Len(b)
  <2>1. Replayed(g) = b
    BY <1>1, <1>7, <1>11
  <2>2. CASE b = <<>>
    <3>1. y = [x EXCEPT !.damaged = (g.tail = "damaged")] /\ (g.tail = "damaged") \in BOOLEAN
      BY <1>8, <1>9, <2>1
    <3>2. x.recs = <<>>
      BY <1>8, <2>2
    <3> QED
      BY <3>1, <3>2, PromisedSurvivors, Zenon DEF x, y
  <2>3. CASE b # <<>>
    <3>1. Len(b) # 0
      BY <1>1, <2>3
    <3>2. g = f
      BY <1>1, <1>3, <1>4, <1>11, <3>1
    <3>3. y = x
      BY <1>8, <1>9, <2>1, <3>2
    <3> QED
      BY <3>3, PromisedSurvivors, Zenon DEF x, y
  <2> QED
    BY <2>2, <2>3
<1> QED
  BY <1>4, <1>1, <1>6, <1>10, <1>11

LEMMA MagicTail ==
  ASSUME NEW b \in Seq(Record)
  PROVE  <<Magic>> \o b # <<>> /\ Tail(<<Magic>> \o b) = b
<1> DEFINE q == <<Magic>> \o b
<1>1. /\ <<Magic>> \in Seq(Nat) /\ b \in Seq(Nat) /\ Len(b) \in Nat /\ Len(<<Magic>>) = 1
  BY DEF Magic, Record
<1>2. /\ q \in Seq(Nat) /\ Len(q) = Len(<<Magic>>) + Len(b)
      /\ \A i \in 1..Len(b) : q[Len(<<Magic>>) + i] = b[i]
  BY <1>1, ConcatenationAt, Zenon
<1> HIDE DEF q
<1>3. Len(q) = Len(b) + 1 /\ \A i \in 1..Len(b) : q[i + 1] = b[i]
  BY <1>1, <1>2
<1>4. q # <<>>
  <2>1. Len(<<>>) = 0
    OBVIOUS
  <2> QED
    BY <1>1, <1>3, <2>1
<1>5. /\ Tail(q) \in Seq(Nat) /\ Len(Tail(q)) = Len(b)
      /\ \A i \in 1..Len(b) : Tail(q)[i] = q[i + 1]
  BY <1>1, <1>2, <1>3, <1>4
<1>6. Tail(q) = b
  BY <1>1, <1>3, <1>5, SeqEqual
<1> QED
  BY <1>4, <1>6 DEF q

LEMMA SegsAre == IInv => Segs = View(log.active, batch, disk.files)
<1> SUFFICES ASSUME IInv PROVE Segs = View(log.active, batch, disk.files)
  OBVIOUS
<1>1. /\ log \in Log /\ DiskOK(disk) /\ batch \in Seq(Record) /\ SegmentHoldsBatch
  BY HoldsBatch DEF IInv, TypeOK
<1>2. ASSUME NEW s \in DOMAIN disk.files
      PROVE  Readable(s) = IF s = log.active THEN batch ELSE Replayed(disk.files[s])
  <2>1. CASE s = log.active
    <3>1. log.active # 0
      BY <1>1, <2>1 DEF DiskOK, Files
    <3> DEFINE q == SubSeq(disk.files[s].frames, 1, log.written) \o log.buffer
    <3>2. q = <<Magic>> \o batch
      BY <1>1, <2>1, <3>1 DEF SegmentHoldsBatch
    <3> HIDE DEF q
    <3>3. q # <<>> /\ Tail(q) = batch
      BY <1>1, <3>2, MagicTail
    <3>4. Readable(s) = IF q = <<>> THEN <<>> ELSE Tail(q)
      BY <2>1 DEF Readable, q
    <3> QED
      BY <2>1, <3>3, <3>4
  <2>2. CASE s # log.active
    BY <2>2 DEF Readable, Replayed
  <2> QED
    BY <2>1, <2>2
<1> QED
  BY <1>2 DEF Segs, View

LEMMA RemovedAre == Removed = Past(disk.unlinked)
BY DEF Removed, Past, Replayed

\* An open log, seen from the invariant.
LEMMA OpenFits ==
  ASSUME RefineInv, log.active # 0
  PROVE  /\ IInv /\ log \in Log /\ log.active \in Nat /\ DiskOK(disk)
         /\ log.active \in DOMAIN disk.files
         /\ disk.files[log.active] \in File
         /\ batch \in Seq(Record)
         /\ Fits(log, disk.files[log.active], batch)
         /\ DirFits(log.active, disk)
         /\ Begins(disk.files[log.active], batch)
         /\ disk.files[log.active].tail # "damaged"
<1>1. IInv /\ Begins(disk.files[log.active], batch)
  BY DEF RefineInv
<1>2. disk.files[log.active].tail # "damaged"
  BY <1>1 DEF Begins
<1>3. log.active \in Nat
  BY <1>1 DEF IInv, TypeOK, Log
<1> QED
  BY <1>1, <1>2, <1>3, HelperFits

------------------------------------------------------------------------------
(* Every step is a step of RecordLog, and keeps the invariant. *)

\* Syncing some of an open log is RecordLog's LogSync.
LEMMA PicksHarder ==
  ASSUME NEW a \in Nat \ {0}, log.active = a, log'.active = a,
         NEW b \in Seq(Record), DiskOK(disk), a \in DOMAIN disk.files,
         DirFits(a, disk), disk.files[a].tail # "damaged",
         Hardened(a, b, disk, disk'),
         Segs = View(a, b, disk.files), Segs' = View(a, b, disk'.files)
  PROVE  Promise!LogSync
<1>1. /\ Segs' \in Promise!Picks(Segs, Promise!Harder)
      /\ Past(disk'.unlinked) \in {Past(disk.unlinked), <<>>}
  BY HardenedIs
<1>2. Removed = Past(disk.unlinked) /\ Removed' = Past(disk'.unlinked)
  BY DEF Removed, Past, Replayed
<1> QED
  BY <1>1, <1>2 DEF Promise!LogSync

LEMMA OpenMaps ==
  ASSUME RefineInv, Open, IInv'
  PROVE  RefineInv' /\ Promise!LogOpen
<1>1. PICK n \in NextNumber :
        /\ log' = Started(n)
        /\ disk' = [disk EXCEPT !.files = With(@, n, EmptyFile)]
  BY DEF Open
<1>2. /\ IInv /\ log.active = 0 /\ batch' = <<>> /\ DiskOK(disk) /\ DirFits(0, disk)
      /\ Apart(disk)
  BY DEF Open, RefineInv, IInv, TypeOK
<1>3. /\ n \in Nat \ {0} /\ \A s \in DOMAIN disk.files : s < n
      /\ log'.active = n
  BY <1>1, <1>2 DEF NextNumber, DiskOK, Files, Started
<1>4. /\ disk'.files = With(disk.files, n, EmptyFile) /\ disk'.unlinked = disk.unlinked
  BY <1>1, <1>2 DEF DiskOK
<1>5. /\ Segs = View(0, batch, disk.files)
      /\ Segs' = View(n, <<>>, disk'.files)
  <2>1. (Segs = View(log.active, batch, disk.files))'
    BY SegsAre, PTL
  <2> QED
    BY <1>2, <1>3, <2>1, SegsAre
<1>6. Abstracted(EmptyFile, <<>>) = Promise!EmptySegment
  BY DEF Abstracted, EmptyFile, Promise!EmptySegment
<1>7. Segs' = Promise!With(Segs, n, Promise!EmptySegment)
  <2>1. \A s \in DOMAIN disk.files : s # 0 /\ s # n
    BY <1>2, <1>3 DEF DiskOK, Files
  <2> QED
    BY <1>4, <1>5, <1>6, <2>1 DEF View, With, Promise!With
<1>8. DOMAIN Segs = DOMAIN disk.files
  BY DEF Segs
<1>9. n \in Promise!NextNumber
  BY <1>8 DEF Promise!NextNumber, NextNumber
<1>10. Removed' = Removed
  BY <1>4 DEF Removed
<1>11. Promise!LogOpen
  BY <1>2, <1>3, <1>7, <1>9, <1>10 DEF Promise!LogOpen
<1>12. Begins(disk'.files[n], <<>>)
  <2>1. disk'.files[n] = EmptyFile /\ Len(<<>>) = 0
    BY <1>4 DEF With
  <2> QED
    BY <2>1 DEF Begins, EmptyFile
<1>13. Apart(disk')
  <2>1. n \notin DOMAIN disk.unlinked
    BY <1>2, <1>3 DEF DirFits, DiskOK, Files
  <2>2. DOMAIN disk'.files = DOMAIN disk.files \cup {n}
    BY <1>4 DEF With
  <2> QED
    BY <1>2, <1>4, <2>1, <2>2 DEF Apart
<1> QED
  BY <1>2, <1>3, <1>11, <1>12, <1>13 DEF RefineInv

LEMMA BeginsLonger ==
  ASSUME NEW f \in File, NEW b \in Seq(Record), Begins(f, b), NEW r \in Record
  PROVE  Begins(f, Append(b, r))
<1> DEFINE c == Append(b, r)
<1>1. /\ Len(b) \in Nat /\ Len(f.frames) \in Nat
      /\ Len(c) = Len(b) + 1 /\ \A i \in 1..Len(b) : c[i] = b[i]
  BY DEF File
<1> HIDE DEF c
<1>2. Len(f.frames) <= Len(c) + 1
  BY <1>1 DEF Begins
<1>3. ASSUME NEW i \in 1..Len(f.frames) PROVE f.frames[i] = Entry(c, i)
  <2>1. f.frames[i] = Entry(b, i) /\ Len(f.frames) <= Len(b) + 1
    BY DEF Begins
  <2>2. CASE i = 1
    BY <2>1, <2>2 DEF Entry
  <2>3. CASE i # 1
    <3>1. i - 1 \in 1..Len(b)
      BY <1>1, <2>1, <2>3
    <3> QED
      BY <1>1, <2>1, <2>3, <3>1 DEF Entry
  <2> QED
    BY <2>2, <2>3
<1> QED
  BY <1>2, <1>3 DEF Begins, c

\* One record more in the segment that is open.
Grown(segments, a, r) == [segments EXCEPT ![a].recs = Append(@, r)]

\* A segment with other records in it.
WithRecs(segment, recs) == [segment EXCEPT !.recs = recs]

LEMMA OtherRecs ==
  ASSUME NEW f, NEW recs, NEW more
  PROVE  Abstracted(f, more) = WithRecs(Abstracted(f, recs), more)
BY DEF WithRecs, Abstracted

LEMMA ViewAppend ==
  ASSUME NEW a, NEW b, NEW files, a \in DOMAIN files, files[a] \in File, NEW r
  PROVE  View(a, Append(b, r), files) = Grown(View(a, b, files), a, r)
<1> DEFINE x == View(a, b, files)
<1>1. /\ x \in [DOMAIN files -> {x[s] : s \in DOMAIN files}]
      /\ x[a] = Abstracted(files[a], b)
      /\ \A s \in DOMAIN files \ {a} : x[s] = Abstracted(files[s], Replayed(files[s]))
  BY DEF View
<1> HIDE DEF x
<1>2. Abstracted(files[a], Append(b, r)) = [x[a] EXCEPT !.recs = Append(@, r)]
  <2>1. x[a].recs = b
    BY <1>1 DEF Abstracted
  <2>2. Abstracted(files[a], Append(b, r)) = WithRecs(x[a], Append(b, r))
    BY <1>1, OtherRecs
  <2> QED
    BY <2>1, <2>2 DEF WithRecs
<1>3. [x EXCEPT ![a].recs = Append(@, r)]
        = [s \in DOMAIN files |-> IF s = a THEN [x[a] EXCEPT !.recs = Append(@, r)] ELSE x[s]]
  BY <1>1
<1>4. View(a, Append(b, r), files)
        = [s \in DOMAIN files |-> IF s = a THEN [x[a] EXCEPT !.recs = Append(@, r)] ELSE x[s]]
  BY <1>1, <1>2 DEF View
<1> QED
  BY <1>3, <1>4 DEF Grown, x

LEMMA AppendMaps ==
  ASSUME RefineInv, AppendRecord, IInv'
  PROVE  /\ RefineInv'
         /\ \/ \E r \in 1..MaxRecords : Promise!LogAppend(r)
            \/ UNCHANGED Promise!logVars
<1> DEFINE a == log.active
           f == disk.files[a]
<1>1. a # 0 /\ issued < MaxRecords /\ issued' = issued + 1
  BY DEF AppendRecord, IsOpen
<1>2. /\ IInv /\ log \in Log /\ DiskOK(disk) /\ a \in DOMAIN disk.files /\ f \in File
      /\ batch \in Seq(Record) /\ Fits(log, f, batch) /\ Begins(f, batch)
      /\ f.tail # "damaged" /\ Apart(disk)
  BY <1>1, OpenFits DEF RefineInv
<1>3. issued' \in Record /\ issued' \in 1..MaxRecords
  BY <1>1, <1>2, WalAssumption DEF IInv, TypeOK, Record
<1>4. PICK out \in WriteLocked(log, disk) \cup {Result(log, disk, TRUE)} :
        /\ disk' = out.disk
        /\ IF out.ok
           THEN /\ log' = [out.log EXCEPT !.buffer = Append(@, issued'),
                                          !.pending = @ + 1]
                /\ batch' = Append(batch, issued')
           ELSE log' = out.log /\ UNCHANGED batch
  BY DEF AppendRecord
<1> DEFINE g == disk'.files[a]
<1>5. /\ Moved(log, disk, out) /\ OnlyWritten(log, disk, out)
      /\ \A s \in DOMAIN disk.files \ {a} : out.disk.files[s] = disk.files[s]
      /\ Begins(g, batch)
  <2>1. CASE out \in WriteLocked(log, disk)
    BY <1>2, <1>4, <2>1, WriteLockedFits, WriteLockedBegins
  <2>2. CASE out = Result(log, disk, TRUE)
    <3>1. out.log = log /\ out.disk = disk
      BY <2>2 DEF Result
    <3>2. log.written \in Nat /\ f.safe \in Nat
      BY <1>2 DEF Log, File
    <3> QED
      BY <1>2, <1>4, <3>1, <3>2 DEF Moved, OnlyWritten
  <2> QED
    BY <2>1, <2>2
<1>6. /\ out.log \in Log /\ out.log.active = a /\ DOMAIN disk'.files = DOMAIN disk.files
      /\ disk'.unlinked = disk.unlinked /\ g \in File
  BY <1>4, <1>5, <1>2 DEF Moved, OnlyWritten, DiskOK, Files
<1>7. log'.active = a
  BY <1>4, <1>6 DEF Log
<1>8. Begins(g, batch')
  BY <1>2, <1>3, <1>4, <1>5, <1>6, BeginsLonger
<1>9. RefineInv'
  BY <1>1, <1>2, <1>6, <1>7, <1>8 DEF RefineInv, Apart
<1>10. Segs = View(a, batch, disk.files) /\ Segs' = View(a, batch', disk'.files)
  <2>1. (Segs = View(log.active, batch, disk.files))'
    BY SegsAre, PTL
  <2> QED
    BY <1>2, <1>7, <2>1, SegsAre
<1>11. Segs' = View(a, batch', disk.files)
  <2>1. g.tail # "damaged" /\ out.disk = disk'
    BY <1>4, <1>5 DEF Begins
  <2> QED
    BY <1>2, <1>5, <1>10, <2>1, WrittenIs
<1>12. Removed' = Removed
  BY <1>6 DEF Removed
<1>13. CASE out.ok
  <2>1. Segs' = Grown(Segs, log.active, issued')
    <3>1. View(a, Append(batch, issued'), disk.files)
            = Grown(View(a, batch, disk.files), a, issued')
      BY <1>2, ViewAppend
    <3>2. Segs' = View(a, Append(batch, issued'), disk.files)
      BY <1>4, <1>11, <1>13
    <3> QED
      BY <1>10, <3>1, <3>2, Zenon
  <2>2. Promise!LogAppend(issued')
    BY <1>1, <1>7, <1>12, <2>1 DEF Promise!LogAppend, Grown
  <2> QED
    BY <1>3, <1>9, <2>2
<1>14. CASE ~out.ok
  BY <1>4, <1>7, <1>9, <1>10, <1>11, <1>12, <1>14 DEF Promise!logVars
<1> QED
  BY <1>13, <1>14

LEMMA SyncStartMaps ==
  ASSUME RefineInv, SyncStart, IInv'
  PROVE  RefineInv' /\ UNCHANGED Promise!logVars
<1> DEFINE a == log.active
           f == disk.files[a]
           g == disk'.files[a]
<1>1. a # 0 /\ batch' = batch
  BY DEF SyncStart, IsOpen
<1>2. /\ IInv /\ log \in Log /\ DiskOK(disk) /\ a \in DOMAIN disk.files /\ f \in File
      /\ batch \in Seq(Record) /\ Fits(log, f, batch) /\ Begins(f, batch)
      /\ f.tail # "damaged" /\ Apart(disk)
  BY <1>1, OpenFits DEF RefineInv
<1>3. PICK out \in WriteLocked(log, disk) : log' = out.log /\ disk' = out.disk
  BY DEF SyncStart
<1>4. /\ Moved(log, disk, out) /\ OnlyWritten(log, disk, out)
      /\ \A s \in DOMAIN disk.files \ {a} : out.disk.files[s] = disk.files[s]
      /\ Begins(g, batch)
  BY <1>2, <1>3, WriteLockedFits, WriteLockedBegins
<1>5. /\ log'.active = a /\ DOMAIN disk'.files = DOMAIN disk.files
      /\ disk'.unlinked = disk.unlinked
  BY <1>3, <1>4 DEF Moved, OnlyWritten
<1>6. RefineInv'
  BY <1>1, <1>2, <1>4, <1>5 DEF RefineInv, Apart
<1>7. Segs = View(a, batch, disk.files) /\ Segs' = View(a, batch, disk'.files)
  <2>1. (Segs = View(log.active, batch, disk.files))'
    BY SegsAre, PTL
  <2> QED
    BY <1>1, <1>2, <1>5, <2>1, SegsAre
<1>8. Segs' = Segs
  <2>1. g.tail # "damaged" /\ out.disk = disk'
    BY <1>3, <1>4 DEF Begins
  <2> QED
    BY <1>2, <1>4, <1>7, <2>1, WrittenIs
<1>9. Removed' = Removed
  BY <1>5 DEF Removed
<1> QED
  BY <1>5, <1>6, <1>8, <1>9 DEF Promise!logVars

\* The directory after one of the system calls of a Sync, or one of the
\* helpers, for an open log.
LEMMA HardenedMaps ==
  ASSUME RefineInv, log.active # 0, IInv', log'.active = log.active, batch' = batch,
         Hardened(log.active, batch, disk, disk'), Begins(disk'.files[log.active], batch)
  PROVE  RefineInv' /\ Promise!LogSync
<1> DEFINE a == log.active
<1>1. /\ IInv /\ a \in Nat \ {0} /\ DiskOK(disk) /\ a \in DOMAIN disk.files
      /\ batch \in Seq(Record) /\ DirFits(a, disk)
      /\ disk.files[a].tail # "damaged" /\ Apart(disk)
  BY OpenFits DEF RefineInv
<1>2. Segs = View(a, batch, disk.files) /\ Segs' = View(a, batch, disk'.files)
  <2>1. (Segs = View(log.active, batch, disk.files))'
    BY SegsAre, PTL
  <2> QED
    BY <1>1, <2>1, SegsAre
<1>3. Promise!LogSync
  BY <1>1, <1>2, PicksHarder
<1>4. DOMAIN <<>> = {}
  OBVIOUS
<1>5. Apart(disk')
  BY <1>1, <1>4 DEF Hardened, Apart
<1> QED
  BY <1>3, <1>5 DEF RefineInv

LEMMA SyncFileMaps ==
  ASSUME RefineInv, NEW ok \in BOOLEAN, SyncFile(ok), IInv'
  PROVE  RefineInv' /\ (Promise!LogSync \/ UNCHANGED Promise!logVars)
<1> DEFINE a == log.active
           f == disk.files[a]
           g == disk'.files[a]
<1>1. sync.step = "file" /\ batch' = batch /\ a # 0 /\ SyncFits(sync, log, f, batch)
      /\ sync \in Syncing
  BY DEF SyncFile, RefineInv, IInv, SyncFits, TypeOK
<1>2. /\ IInv /\ log \in Log /\ DiskOK(disk) /\ a \in DOMAIN disk.files /\ f \in File
      /\ batch \in Seq(Record) /\ Fits(log, f, batch) /\ Begins(f, batch)
      /\ f.tail # "damaged"
  BY <1>1, OpenFits
<1>3. log'.active = a
  BY <1>2 DEF SyncFile, SyncDone, Log
<1>4. CASE ok
  <2>1. disk' = FileSynced(disk, a, sync.upTo) /\ sync.upTo \in Nat
    BY <1>1, <1>4 DEF SyncFile, Syncing
  <2>2. /\ DiskOK(disk')
        /\ disk'.unlinked = disk.unlinked
        /\ DOMAIN disk'.files = DOMAIN disk.files
        /\ g = [f EXCEPT !.safe = sync.upTo]
        /\ \A t \in DOMAIN disk.files \ {a} : disk'.files[t] = disk.files[t]
    BY <1>2, <2>1, FileSyncedIs
  <2>3. /\ g.safe = sync.upTo /\ g.frames = f.frames /\ g.named = f.named
        /\ g.tail = f.tail
    BY <1>2, <2>2 DEF File
  <2>4. f.safe <= g.safe /\ g.safe <= Len(batch) + 1
    <3>1. /\ f.safe <= sync.upTo /\ sync.upTo <= log.written
          /\ Len(batch) + 1 = log.written + Len(log.buffer)
      BY <1>1, <1>2 DEF SyncFits, Fits
    <3>2. log.written \in Nat /\ Len(log.buffer) \in Nat /\ Len(batch) \in Nat
      BY <1>2 DEF Log
    <3> QED
      BY <2>1, <2>3, <3>1, <3>2
  <2>5. Hardened(a, batch, disk, disk')
    BY <1>2, <2>2, <2>3, <2>4 DEF Hardened
  <2>6. Begins(g, batch)
    BY <1>2, <2>3 DEF Begins
  <2> QED
    BY <1>1, <1>3, <2>5, <2>6, HardenedMaps
<1>5. CASE ~ok
  <2>1. disk' = disk /\ log' = log
    BY <1>5 DEF SyncFile
  <2>2. Segs' = Segs /\ Removed' = Removed
    BY <2>1 DEF Segs, Removed, Readable
  <2> QED
    BY <1>1, <1>2, <2>1, <2>2 DEF RefineInv, Promise!logVars
<1> QED
  BY <1>4, <1>5

LEMMA SyncDirMaps ==
  ASSUME RefineInv, NEW ok \in BOOLEAN, SyncDir(ok), IInv'
  PROVE  RefineInv' /\ (Promise!LogSync \/ UNCHANGED Promise!logVars)
<1> DEFINE a == log.active
           f == disk.files[a]
           g == disk'.files[a]
<1>1. sync.step = "dir" /\ batch' = batch /\ a # 0
  BY DEF SyncDir, RefineInv, IInv, SyncFits
<1>2. /\ IInv /\ log \in Log /\ DiskOK(disk) /\ a \in DOMAIN disk.files /\ f \in File
      /\ batch \in Seq(Record) /\ Fits(log, f, batch) /\ Begins(f, batch)
      /\ f.tail # "damaged"
  BY <1>1, OpenFits
<1>3. log'.active = a
  BY <1>2 DEF SyncDir, SyncDone, Log
<1>4. CASE ok
  <2>1. disk' = DirSynced(disk)
    BY <1>4 DEF SyncDir
  <2>2. /\ DiskOK(disk') /\ disk'.unlinked = <<>>
        /\ DOMAIN disk'.files = DOMAIN disk.files
        /\ \A t \in DOMAIN disk.files : disk'.files[t] = [disk.files[t] EXCEPT !.named = TRUE]
    BY <1>2, <2>1, DirSyncedIs
  <2>3. /\ g.safe = f.safe /\ g.frames = f.frames /\ g.named /\ g.tail = f.tail
    <3>1. g = [f EXCEPT !.named = TRUE]
      BY <1>2, <2>2
    <3> HIDE DEF f, g
    <3> QED
      BY <1>2, <3>1 DEF File
  <2>4. f.safe <= g.safe /\ g.safe <= Len(batch) + 1
    <3>1. /\ f.safe <= log.written
          /\ Len(batch) + 1 = log.written + Len(log.buffer)
      BY <1>2 DEF Fits
    <3>2. /\ log.written \in Nat /\ Len(log.buffer) \in Nat /\ Len(batch) \in Nat
          /\ f.safe \in Nat
      BY <1>2 DEF Log, File
    <3> QED
      BY <2>3, <3>1, <3>2
  <2>5. Hardened(a, batch, disk, disk')
    BY <1>2, <2>2, <2>3, <2>4 DEF Hardened
  <2>6. Begins(g, batch)
    BY <1>2, <2>3 DEF Begins
  <2> QED
    BY <1>1, <1>3, <2>5, <2>6, HardenedMaps
<1>5. CASE ~ok
  <2>1. disk' = disk /\ log' = log
    BY <1>5 DEF SyncDir
  <2>2. Segs' = Segs /\ Removed' = Removed
    BY <2>1 DEF Segs, Removed, Readable
  <2> QED
    BY <1>1, <1>2, <2>1, <2>2 DEF RefineInv, Promise!logVars
<1> QED
  BY <1>4, <1>5

\* What a helper that keeps both locks leaves, for Rotate and Close.
LEMMA SyncLockedIs ==
  ASSUME RefineInv, log.active # 0, NEW out \in SyncLocked(log, disk)
  PROVE  LET g == out.disk.files[log.active]
         IN  /\ Hardened(log.active, batch, disk, out.disk)
             /\ Begins(g, batch)
             /\ out.log.active = log.active /\ out.log \in Log
             /\ DiskOK(out.disk) /\ log.active \in DOMAIN out.disk.files
             /\ DirFits(log.active, out.disk) /\ Apart(out.disk)
             /\ out.ok => /\ g.named /\ g.safe = Len(batch) + 1
                          /\ Replayed(g) = batch
<1> DEFINE a == log.active
           g == out.disk.files[a]
<1>1. /\ IInv /\ log \in Log /\ DiskOK(disk) /\ a \in DOMAIN disk.files
      /\ batch \in Seq(Record) /\ Fits(log, disk.files[a], batch)
      /\ Begins(disk.files[a], batch) /\ Apart(disk)
  BY OpenFits DEF RefineInv
<1>2. /\ Moved(log, disk, out) /\ Fits(out.log, g, batch) /\ Begins(g, batch)
  BY <1>1, SyncLockedFits, SyncLockedBegins
<1>3. Hardened(a, batch, disk, out.disk)
  BY <1>1, <1>2, MovedHardened
<1>4. /\ out.log \in Log /\ out.log.active = a /\ DiskOK(out.disk) /\ g \in File
      /\ a \in DOMAIN out.disk.files /\ DirFits(a, out.disk)
      /\ out.ok => Whole(out.log, g, batch) /\ Holds(g, batch)
  BY <1>1, SyncLockedKeeps
<1>5. Apart(out.disk)
  <2>1. DOMAIN <<>> = {}
    OBVIOUS
  <2> QED
    BY <1>1, <1>3, <2>1 DEF Hardened, Apart
<1>6. ASSUME out.ok
      PROVE  g.named /\ g.safe = Len(batch) + 1 /\ Replayed(g) = batch
  <2>1. /\ g.named /\ g.safe = Len(batch) + 1
        /\ Len(g.frames) = Len(batch) + 1 /\ g.frames \in Seq(Frame)
        /\ \A i \in 1..Len(batch) + 1 : g.frames[i] = Entry(batch, i)
    BY <1>4, <1>6 DEF Whole, Holds, File
  <2>2. g.frames = <<Magic>> \o batch
    BY <1>1, <2>1, HoldingIs
  <2>3. Replayed(g) = batch
    <3> HIDE DEF g
    <3> QED
      BY <1>1, <2>2, MagicTail DEF Replayed
  <2> QED
    BY <2>1, <2>3
<1> QED
  BY <1>2, <1>3, <1>4, <1>5, <1>6

LEMMA RotateMaps ==
  ASSUME RefineInv, Rotate, IInv'
  PROVE  RefineInv' /\ (Promise!LogSync \/ Promise!LogRotate)
<1> DEFINE a == log.active
<1>1. a # 0
  BY DEF Rotate, IsOpen
<1>2. /\ IInv /\ log \in Log /\ a \in Nat \ {0} /\ DiskOK(disk) /\ a \in DOMAIN disk.files
      /\ batch \in Seq(Record) /\ DirFits(a, disk)
      /\ disk.files[a].tail # "damaged"
  BY <1>1, OpenFits
<1>3. PICK out \in SyncLocked(log, disk), created \in BOOLEAN :
        IF out.ok /\ created
        THEN /\ log' = Started(a + 1)
             /\ disk' = [out.disk EXCEPT !.files = With(@, a + 1, EmptyFile)]
             /\ batch' = <<>>
        ELSE log' = out.log /\ disk' = out.disk /\ UNCHANGED batch
  BY DEF Rotate
<1> DEFINE g == out.disk.files[a]
<1>4. /\ Hardened(a, batch, disk, out.disk) /\ Begins(g, batch)
      /\ out.log.active = a
      /\ DiskOK(out.disk) /\ a \in DOMAIN out.disk.files
      /\ DirFits(a, out.disk) /\ Apart(out.disk)
      /\ out.ok => g.named /\ g.safe = Len(batch) + 1 /\ Replayed(g) = batch
  BY <1>1, SyncLockedIs
<1>5. CASE ~(out.ok /\ created)
  <2>1. log' = out.log /\ disk' = out.disk /\ batch' = batch
    BY <1>3, <1>5
  <2> QED
    BY <1>1, <1>4, <2>1, HardenedMaps
<1>6. CASE out.ok /\ created
  <2> DEFINE n == a + 1
             dir == View(a, batch, out.disk.files)
  <2>1. /\ log' = Started(n) /\ batch' = <<>>
        /\ disk' = [out.disk EXCEPT !.files = With(@, n, EmptyFile)]
    BY <1>3, <1>6
  <2>2. /\ n \in Nat \ {0} /\ n # a /\ log'.active = n
        /\ \A s \in DOMAIN out.disk.files : s < n
    BY <1>2, <1>4, <2>1 DEF DirFits, DiskOK, Files, Started
  <2>3. disk'.files = With(out.disk.files, n, EmptyFile) /\ disk'.unlinked = out.disk.unlinked
    BY <1>4, <2>1 DEF DiskOK
  <2>4. Segs = View(a, batch, disk.files) /\ Segs' = View(n, <<>>, disk'.files)
    <3>1. (Segs = View(log.active, batch, disk.files))'
      BY SegsAre, PTL
    <3> QED
      BY <1>2, <2>1, <2>2, <3>1, SegsAre
  <2>5. /\ dir \in Promise!Picks(Segs, Promise!Harder)
        /\ Past(out.disk.unlinked) \in {Past(disk.unlinked), <<>>}
    BY <1>2, <1>4, <2>4, HardenedIs
  <2>6. dir[a] = Abstracted(g, batch)
    BY <1>4 DEF View
  <2>7. dir[a].hard = Len(dir[a].recs)
    <3>1. g \in File /\ Len(batch) \in Nat
      BY <1>2, <1>4 DEF DiskOK, Files
    <3>2. /\ Abstracted(g, batch).recs = batch
          /\ Abstracted(g, batch).hard = IF g.named /\ g.safe > 0 THEN g.safe - 1 ELSE 0
      BY <3>1, AbstractedIs
    <3>3. g.named /\ g.safe = Len(batch) + 1
      BY <1>4, <1>6
    <3> HIDE DEF g, dir
    <3> QED
      BY <2>6, <3>1, <3>2, <3>3
  <2>8. Abstracted(EmptyFile, <<>>) = Promise!EmptySegment
    BY DEF Abstracted, EmptyFile, Promise!EmptySegment
  <2>9. Segs' = Promise!With(dir, n, Promise!EmptySegment)
    <3>1. \A s \in DOMAIN out.disk.files : s # n
      BY <2>2
    <3>2. \A s \in DOMAIN out.disk.files :
            Abstracted(out.disk.files[s], IF s = a THEN batch ELSE Replayed(out.disk.files[s]))
              = Abstracted(out.disk.files[s], Replayed(out.disk.files[s]))
      BY <1>4, <1>6
    <3>3. /\ DOMAIN disk'.files = DOMAIN out.disk.files \cup {n}
          /\ disk'.files[n] = EmptyFile
          /\ \A s \in DOMAIN out.disk.files : disk'.files[s] = out.disk.files[s]
      BY <2>3, <3>1 DEF With
    <3> HIDE DEF n
    <3>4. /\ DOMAIN dir = DOMAIN out.disk.files
          /\ \A s \in DOMAIN out.disk.files :
               dir[s] = Abstracted(out.disk.files[s], Replayed(out.disk.files[s]))
      BY <3>2 DEF View
    <3> HIDE DEF dir
    <3>5. /\ DOMAIN Segs' = DOMAIN out.disk.files \cup {n}
          /\ Segs'[n] = Promise!EmptySegment
          /\ \A s \in DOMAIN out.disk.files : Segs'[s] = dir[s]
          /\ Segs' = [s \in DOMAIN Segs' |-> Segs'[s]]
      BY <2>4, <2>8, <3>1, <3>3, <3>4 DEF View
    <3> QED
      BY <3>1, <3>4, <3>5 DEF Promise!With
  <2>10. Removed' \in {Removed, <<>>}
    <3>1. Removed = Past(disk.unlinked) /\ Removed' = Past(disk'.unlinked)
      BY DEF Removed, Past, Replayed
    <3> QED
      BY <2>3, <2>5, <3>1
  <2> HIDE DEF dir
  <2>11. Promise!LogRotate
    BY <1>1, <2>2, <2>5, <2>7, <2>9, <2>10 DEF Promise!LogRotate
  <2>12. Begins(disk'.files[n], <<>>)
    <3>1. disk'.files[n] = EmptyFile /\ Len(<<>>) = 0
      BY <2>3 DEF With
    <3> QED
      BY <3>1 DEF Begins, EmptyFile
  <2>13. Apart(disk')
    <3>1. n \notin DOMAIN out.disk.unlinked
      BY <1>4, <2>2 DEF DirFits, DiskOK, Files
    <3>2. DOMAIN disk'.files = DOMAIN out.disk.files \cup {n}
      BY <2>3 DEF With
    <3> QED
      BY <1>4, <2>3, <3>1, <3>2 DEF Apart
  <2> QED
    BY <2>1, <2>2, <2>11, <2>12, <2>13 DEF RefineInv
<1> QED
  BY <1>5, <1>6

LEMMA CloseMaps ==
  ASSUME RefineInv, Close, IInv'
  PROVE  RefineInv' /\ Promise!LogSync
<1>1. log.active # 0 /\ batch' = batch
  BY DEF Close, IsOpen
<1>2. PICK out \in SyncLocked(log, disk) :
        log' = [out.log EXCEPT !.closed = TRUE] /\ disk' = out.disk
  BY DEF Close
<1>3. /\ Hardened(log.active, batch, disk, disk') /\ Begins(disk'.files[log.active], batch)
      /\ out.log.active = log.active /\ out.log \in Log
  BY <1>1, <1>2, SyncLockedIs
<1>4. log'.active = log.active
  BY <1>2, <1>3 DEF Log
<1> QED
  BY <1>1, <1>3, <1>4, HardenedMaps

------------------------------------------------------------------------------

\* A segment taken out of the directory.
LEMMA TakenView ==
  ASSUME NEW a, NEW b, NEW d, NEW s \in DOMAIN d.files, s # a
  PROVE  /\ View(a, b, Taken(d, s).files) = Promise!Without(View(a, b, d.files), s)
         /\ Past(Taken(d, s).unlinked)
              = Promise!With(Past(d.unlinked), s, View(a, b, d.files)[s])
<1> DEFINE e == Taken(d, s)
<1>1. e.files = Without(d.files, s) /\ e.unlinked = With(d.unlinked, s, d.files[s])
  BY DEF Taken
<1> HIDE DEF e
<1>2. View(a, b, e.files) = Promise!Without(View(a, b, d.files), s)
  BY <1>1 DEF View, Without, Promise!Without
<1>3. /\ DOMAIN e.unlinked = DOMAIN d.unlinked \cup {s} /\ e.unlinked[s] = d.files[s]
      /\ \A t \in DOMAIN d.unlinked \ {s} : e.unlinked[t] = d.unlinked[t]
  BY <1>1 DEF With
<1>4. View(a, b, d.files)[s] = Abstracted(d.files[s], Replayed(d.files[s]))
  BY DEF View
<1> DEFINE x == View(a, b, d.files)[s]
<1>5. x = Abstracted(d.files[s], Replayed(d.files[s]))
  BY <1>4
<1> HIDE DEF x
<1>6. Past(e.unlinked) = Promise!With(Past(d.unlinked), s, x)
  BY <1>3, <1>5 DEF Past, Promise!With
<1> QED
  BY <1>2, <1>6 DEF e, x

\* The directory without a segment.
LEMMA TakenApart ==
  ASSUME NEW d, Apart(d), NEW s
  PROVE  Apart(Taken(d, s))
BY DEF Apart, Taken, With, Without

LEMMA RemoveMaps ==
  ASSUME RefineInv, NEW s \in DOMAIN disk.files, Remove(s), IInv'
  PROVE  RefineInv' /\ s \in DOMAIN Segs /\ Promise!LogRemove(s)
<1> DEFINE a == log.active
<1>1. /\ a # 0 /\ s # a /\ disk' = Taken(disk, s) /\ log' = log /\ batch' = batch
  BY DEF Remove, Taken
<1>2. /\ IInv /\ DiskOK(disk) /\ a \in DOMAIN disk.files /\ Apart(disk)
      /\ Begins(disk.files[a], batch)
  BY <1>1, OpenFits DEF RefineInv
<1>3. Segs = View(a, batch, disk.files) /\ Segs' = View(a, batch, disk'.files)
  <2>1. (Segs = View(log.active, batch, disk.files))'
    BY SegsAre, PTL
  <2> QED
    BY <1>1, <1>2, <2>1, SegsAre
<1>4. Segs' = Promise!Without(Segs, s) /\ Removed' = Promise!With(Removed, s, Segs[s])
  <2>1. Removed = Past(disk.unlinked) /\ Removed' = Past(disk'.unlinked)
    BY DEF Removed, Past, Replayed
  <2> QED
    BY <1>1, <1>3, <2>1, TakenView
<1>5. s \in DOMAIN Segs /\ s \in Promise!Sealed
  BY <1>1 DEF Promise!Sealed, Segs
<1>6. Promise!LogRemove(s)
  BY <1>1, <1>4, <1>5 DEF Promise!LogRemove
<1>7. disk'.files[a] = disk.files[a]
  BY <1>1, <1>2 DEF Taken, Without
<1> QED
  BY <1>1, <1>2, <1>5, <1>6, <1>7, TakenApart DEF RefineInv

LEMMA QuarantineMaps ==
  ASSUME RefineInv, NEW s \in DOMAIN disk.files, NEW ok \in BOOLEAN, Quarantine(s, ok),
         IInv'
  PROVE  /\ RefineInv' /\ s \in DOMAIN Segs
         /\ Promise!LogRemove(s) \/ Promise!LogQuarantine(s)
<1> DEFINE a == log.active
           d == Taken(disk, s)
           f == disk.files[a]
<1>1. /\ a # 0 /\ s # a /\ log' = log /\ batch' = batch
      /\ disk' = IF ok THEN DirSynced(d) ELSE d
      /\ disk.files[s].tail = "damaged"
  BY DEF Quarantine, Taken
<1>2. /\ IInv /\ log \in Log /\ DiskOK(disk) /\ a \in DOMAIN disk.files /\ f \in File /\ Apart(disk)
      /\ Begins(f, batch) /\ f.tail # "damaged" /\ batch \in Seq(Record)
      /\ Fits(log, f, batch)
  BY <1>1, OpenFits DEF RefineInv
<1>3. /\ DiskOK(d) /\ a \in DOMAIN d.files /\ d.files[a] = f /\ DirFits(a, d)
  BY <1>1, <1>2, TakenIs
<1>4. Apart(d)
  BY <1>2, TakenApart
<1>5. Segs = View(a, batch, disk.files) /\ Segs' = View(a, batch, disk'.files)
  <2>1. (Segs = View(log.active, batch, disk.files))'
    BY SegsAre, PTL
  <2> QED
    BY <1>1, <1>2, <2>1, SegsAre
<1>6. /\ View(a, batch, d.files) = Promise!Without(Segs, s)
      /\ Past(d.unlinked) = Promise!With(Removed, s, Segs[s])
  <2>1. Removed = Past(disk.unlinked)
    BY DEF Removed, Past, Replayed
  <2>2. /\ View(a, batch, d.files) = Promise!Without(View(a, batch, disk.files), s)
        /\ Past(d.unlinked) = Promise!With(Past(disk.unlinked), s, View(a, batch, disk.files)[s])
    BY <1>1, TakenView
  <2> HIDE DEF d
  <2> QED
    BY <1>5, <2>1, <2>2
<1>7. Removed' = Past(disk'.unlinked)
  BY DEF Removed, Past, Replayed
<1>8. s \in DOMAIN Segs /\ s \in Promise!Sealed
  BY <1>1 DEF Promise!Sealed, Segs
<1>9. CASE ~ok
  <2>1. disk' = d
    BY <1>1, <1>9
  <2>2. Promise!LogRemove(s)
    BY <1>1, <1>5, <1>6, <1>7, <1>8, <2>1 DEF Promise!LogRemove
  <2>3. RefineInv'
    BY <1>1, <1>2, <1>3, <1>4, <2>1 DEF RefineInv
  <2> QED
    BY <1>8, <2>2, <2>3
<1>10. CASE ok
  <2> HIDE DEF d
  <2> DEFINE g == disk'.files[a]
  <2>1. /\ disk' = DirSynced(d) /\ DiskOK(disk') /\ disk'.unlinked = <<>>
        /\ DOMAIN disk'.files = DOMAIN d.files
        /\ \A t \in DOMAIN d.files : disk'.files[t] = [d.files[t] EXCEPT !.named = TRUE]
    BY <1>1, <1>3, <1>10, DirSyncedIs
  <2>2. /\ g.safe = f.safe /\ g.frames = f.frames /\ g.named /\ g.tail = f.tail
    <3>1. g = [f EXCEPT !.named = TRUE]
      BY <1>3, <2>1
    <3> HIDE DEF f, g
    <3> QED
      BY <1>2, <3>1 DEF File
  <2>3. f.safe <= g.safe /\ g.safe <= Len(batch) + 1
    <3>1. /\ f.safe <= log.written
          /\ Len(batch) + 1 = log.written + Len(log.buffer)
      BY <1>2 DEF Fits
    <3>2. /\ log.written \in Nat /\ Len(log.buffer) \in Nat /\ Len(batch) \in Nat
          /\ f.safe \in Nat
      BY <1>2 DEF Log, File
    <3> QED
      BY <2>2, <3>1, <3>2
  <2>4. Hardened(a, batch, d, disk')
    BY <1>2, <1>3, <2>1, <2>2, <2>3 DEF Hardened
  <2>5. Begins(g, batch)
    BY <1>2, <2>2 DEF Begins
  <2>6. Segs' \in Promise!Picks(Promise!Without(Segs, s), Promise!Harder)
    BY <1>2, <1>3, <1>5, <1>6, <2>4, HardenedIs
  <2>7. Removed' = <<>>
    BY <1>7, <2>1 DEF Past
  <2>8. Segs[s].damaged
    <3>1. Segs[s] = Abstracted(disk.files[s], Replayed(disk.files[s]))
      BY <1>1, <1>5 DEF View
    <3>2. disk.files[s] \in File
      BY <1>2 DEF DiskOK, Files
    <3>3. disk.files[s].tail = "damaged"
      BY <1>1
    <3>4. Abstracted(disk.files[s], Replayed(disk.files[s])).damaged
            = (disk.files[s].tail = "damaged")
      BY <3>2, AbstractedIs
    <3> QED
      BY <3>1, <3>3, <3>4, Zenon
  <2>9. Promise!LogQuarantine(s)
    BY <1>1, <1>8, <2>6, <2>7, <2>8 DEF Promise!LogQuarantine
  <2>10. Apart(disk')
    <3>1. DOMAIN <<>> = {}
      OBVIOUS
    <3> QED
      BY <2>1, <3>1 DEF Apart
  <2> QED
    BY <1>1, <1>8, <2>5, <2>9, <2>10 DEF RefineInv
<1> QED
  BY <1>9, <1>10

\* What is behind the first frame of f is a prefix of the records b.
InFile(f, b) ==
  /\ b \in Seq(Nat)
  /\ Len(f.frames) <= Len(b) + 1
  /\ \A i \in 1..Len(f.frames) - 1 : f.frames[i + 1] = b[i]

LEMMA BeginsInFile ==
  ASSUME NEW f \in File, NEW b \in Seq(Record), Begins(f, b)
  PROVE  InFile(f, b)
<1>1. b \in Seq(Nat) /\ Len(f.frames) \in Nat /\ Len(f.frames) <= Len(b) + 1
  BY DEF Record, File, Begins
<1>2. ASSUME NEW i \in 1..Len(f.frames) - 1 PROVE f.frames[i + 1] = b[i]
  <2>1. i + 1 \in 1..Len(f.frames) /\ i + 1 # 1 /\ (i + 1) - 1 = i
    BY <1>1
  <2>2. f.frames[i + 1] = Entry(b, i + 1)
    BY <2>1 DEF Begins
  <2> QED
    BY <2>1, <2>2 DEF Entry
<1> QED
  BY <1>1, <1>2 DEF InFile

LEMMA ReplayedInFile ==
  ASSUME NEW f \in File
  PROVE  InFile(f, Replayed(f))
<1>1. /\ Replayed(f) \in Seq(Nat) /\ Len(f.frames) \in Nat
      /\ Len(Replayed(f)) = IF Len(f.frames) = 0 THEN 0 ELSE Len(f.frames) - 1
      /\ \A i \in 1..Len(f.frames) - 1 : Replayed(f)[i] = f.frames[i + 1]
  BY ReplayedIs
<1>2. Len(f.frames) <= Len(Replayed(f)) + 1
  BY <1>1
<1> QED
  BY <1>1, <1>2 DEF InFile

\* The directories a stop can leave, before and after, each segment with the
\* records it held.
LEMMA StopMaps ==
  ASSUME NEW dir, NEW left, NEW x, DOMAIN left = DOMAIN dir, DOMAIN x = DOMAIN dir,
         \A s \in DOMAIN dir : /\ dir[s] \in File /\ dir[s].safe <= Len(dir[s].frames)
                               /\ left[s] \in Survivors(dir[s])
                               /\ \E b : InFile(dir[s], b) /\ x[s] = Abstracted(dir[s], b)
  PROVE  Past(left) \in Promise!Picks(x, Promise!Survivors)
<1>1. ASSUME NEW s \in DOMAIN dir
      PROVE  Abstracted(left[s], Replayed(left[s])) \in Promise!Survivors(x[s])
  <2>1. PICK b : InFile(dir[s], b) /\ x[s] = Abstracted(dir[s], b)
    OBVIOUS
  <2>2. Abstracted(left[s], Replayed(left[s])) \in Promise!Survivors(Abstracted(dir[s], b))
    BY <2>1, SurvivorMaps DEF InFile
  <2> QED
    BY <2>1, <2>2
<1> DEFINE y == Past(left)
<1>2. /\ y = [s \in DOMAIN x |-> y[s]]
      /\ \A s \in DOMAIN x : y[s] \in Promise!Survivors(x[s])
  BY <1>1 DEF Past
<1> HIDE DEF y
<1>3. y \in Promise!Picks(x, Promise!Survivors)
  <2>1. \A s \in DOMAIN x : y[s] \in UNION {Promise!Survivors(x[t]) : t \in DOMAIN x}
    BY <1>2
  <2>2. y \in [DOMAIN x -> UNION {Promise!Survivors(x[t]) : t \in DOMAIN x}]
    BY <1>2, <2>1
  <2> QED
    BY <1>2, <2>2 DEF Promise!Picks
<1> QED
  BY <1>3 DEF y

LEMMA ViewClosed ==
  ASSUME NEW b, NEW files, 0 \notin DOMAIN files
  PROVE  View(0, b, files) = Past(files)
BY DEF View, Past

\* What each file of an open log holds.
LEMMA ViewInFile ==
  ASSUME RefineInv, log.active # 0, NEW s \in DOMAIN disk.files
  PROVE  \E b : InFile(disk.files[s], b) /\ Segs[s] = Abstracted(disk.files[s], b)
<1>1. /\ disk.files[s] \in File /\ IInv /\ batch \in Seq(Record)
      /\ Begins(disk.files[log.active], batch)
  BY OpenFits DEF DiskOK, Files
<1>2. Segs[s] = Abstracted(disk.files[s],
                           IF s = log.active THEN batch ELSE Replayed(disk.files[s]))
  BY <1>1, SegsAre DEF View
<1>3. CASE s = log.active
  BY <1>1, <1>2, <1>3, BeginsInFile
<1>4. CASE s # log.active
  BY <1>1, <1>2, <1>4, ReplayedInFile
<1> QED
  BY <1>3, <1>4

LEMMA StoppedIs ==
  ASSUME RefineInv, Stopped, IInv'
  PROVE  /\ log.active # 0 /\ log'.active = 0
         /\ Segs' = Past(disk'.files)
         /\ \A s \in DOMAIN disk.files :
              disk.files[s] \in File /\ disk.files[s].safe <= Len(disk.files[s].frames)
         /\ \A s \in DOMAIN disk.unlinked :
              /\ disk.unlinked[s] \in File
              /\ disk.unlinked[s].safe <= Len(disk.unlinked[s].frames)
<1>1. log.active # 0 /\ log'.active = 0
  BY NoLogIs DEF Stopped
<1>2. Segs' = Past(disk'.files)
  <2>1. (Segs = View(log.active, batch, disk.files))'
    BY SegsAre, PTL
  <2>2. 0 \notin DOMAIN disk'.files
    BY DEF IInv, TypeOK, DiskOK, Files
  <2> QED
    BY <1>1, <2>1, <2>2, ViewClosed
<1>3. DiskOK(disk) /\ DirFits(log.active, disk)
  BY <1>1, OpenFits
<1> QED
  BY <1>1, <1>2, <1>3 DEF DiskOK, Files, DirFits

LEMMA KillMaps ==
  ASSUME RefineInv, Kill, IInv'
  PROVE  RefineInv' /\ Promise!LogKill
<1>1. Stopped /\ disk' = disk
  BY DEF Kill
<1>2. /\ log.active # 0 /\ log'.active = 0 /\ Segs' = Past(disk.files)
      /\ \A s \in DOMAIN disk.files :
           disk.files[s] \in File /\ disk.files[s].safe <= Len(disk.files[s].frames)
  BY <1>1, StoppedIs
<1>3. \A s \in DOMAIN disk.files : disk.files[s] \in Survivors(disk.files[s])
  BY Zenon DEF Survivors
<1>4. DOMAIN Segs = DOMAIN disk.files
  BY DEF Segs
<1>5. \A s \in DOMAIN disk.files :
        \E b : InFile(disk.files[s], b) /\ Segs[s] = Abstracted(disk.files[s], b)
  BY <1>2, ViewInFile
<1>6. Segs' \in Promise!Picks(Segs, Promise!Survivors)
  <2>1. Past(disk.files) \in Promise!Picks(Segs, Promise!Survivors)
    BY <1>2, <1>3, <1>4, <1>5, StopMaps
  <2> QED
    BY <1>2, <2>1
<1>7. Removed' = Removed
  BY <1>1 DEF Removed
<1>8. Promise!LogKill
  BY <1>2, <1>6, <1>7 DEF Promise!LogKill
<1> QED
  BY <1>1, <1>2, <1>8 DEF RefineInv

LEMMA PowerLossMaps ==
  ASSUME RefineInv, PowerLoss, IInv'
  PROVE  RefineInv' /\ Promise!LogPowerLoss
<1>1. Stopped
  BY DEF PowerLoss
<1>2. PICK lost \in SUBSET {s \in DOMAIN disk.files : ~disk.files[s].named},
           back \in SUBSET DOMAIN disk.unlinked :
        LET dir == [s \in (DOMAIN disk.files \ lost) \cup back |->
                      IF s \in back THEN disk.unlinked[s] ELSE disk.files[s]]
        IN  \E left \in [DOMAIN dir -> UNION {Survivors(dir[s]) : s \in DOMAIN dir}] :
              /\ \A s \in DOMAIN dir : left[s] \in Survivors(dir[s])
              /\ disk' = [files |-> left, unlinked |-> <<>>]
  BY DEF PowerLoss
<1> DEFINE dir == [s \in (DOMAIN disk.files \ lost) \cup back |->
                     IF s \in back THEN disk.unlinked[s] ELSE disk.files[s]]
<1>3. PICK left \in [DOMAIN dir -> UNION {Survivors(dir[s]) : s \in DOMAIN dir}] :
        /\ \A s \in DOMAIN dir : left[s] \in Survivors(dir[s])
        /\ disk' = [files |-> left, unlinked |-> <<>>]
  BY <1>2
<1>4. /\ log.active # 0 /\ log'.active = 0 /\ Segs' = Past(disk'.files)
      /\ \A s \in DOMAIN disk.files :
           disk.files[s] \in File /\ disk.files[s].safe <= Len(disk.files[s].frames)
      /\ \A s \in DOMAIN disk.unlinked :
           /\ disk.unlinked[s] \in File
           /\ disk.unlinked[s].safe <= Len(disk.unlinked[s].frames)
      /\ Apart(disk)
  BY <1>1, StoppedIs DEF RefineInv
<1>5. /\ DOMAIN dir = (DOMAIN disk.files \ lost) \cup back
      /\ \A s \in DOMAIN dir : dir[s] = IF s \in back THEN disk.unlinked[s] ELSE disk.files[s]
  OBVIOUS
<1> HIDE DEF dir
<1>6. /\ DOMAIN left = DOMAIN dir /\ \A s \in DOMAIN dir : left[s] \in Survivors(dir[s])
      /\ disk'.files = left /\ disk'.unlinked = <<>>
  BY <1>3
<1>7. /\ DOMAIN Segs = DOMAIN disk.files /\ DOMAIN Removed = DOMAIN disk.unlinked
      /\ \A s \in DOMAIN disk.unlinked :
           Removed[s] = Abstracted(disk.unlinked[s], Replayed(disk.unlinked[s]))
  BY DEF Segs, Removed, Replayed
<1> DEFINE x == Promise!Joined([s \in DOMAIN Segs \ lost |-> Segs[s]],
                               [s \in back |-> Removed[s]])
<1>8. /\ DOMAIN x = DOMAIN dir
      /\ \A s \in DOMAIN disk.files \ lost : x[s] = Segs[s]
      /\ \A s \in back \ (DOMAIN disk.files \ lost) : x[s] = Removed[s]
  BY <1>5, <1>7 DEF Promise!Joined
<1> HIDE DEF x
<1>9. ASSUME NEW s \in DOMAIN dir
      PROVE  /\ dir[s] \in File /\ dir[s].safe <= Len(dir[s].frames)
             /\ \E b : InFile(dir[s], b) /\ x[s] = Abstracted(dir[s], b)
  <2>1. CASE s \in back
    <3>1. s \in DOMAIN disk.unlinked /\ s \notin DOMAIN disk.files
      BY <1>2, <1>4, <2>1 DEF Apart
    <3>2. dir[s] = disk.unlinked[s] /\ x[s] = Removed[s] /\ dir[s] \in File
          /\ dir[s].safe <= Len(dir[s].frames)
      BY <1>4, <1>5, <1>8, <2>1, <3>1
    <3>3. x[s] = Abstracted(dir[s], Replayed(dir[s])) /\ InFile(dir[s], Replayed(dir[s]))
      BY <1>7, <3>1, <3>2, ReplayedInFile
    <3> QED
      BY <3>2, <3>3
  <2>2. CASE s \notin back
    <3>1. s \in DOMAIN disk.files \ lost /\ dir[s] = disk.files[s] /\ x[s] = Segs[s]
      BY <1>5, <1>8, <1>9, <2>2
    <3>2. \E b : InFile(disk.files[s], b) /\ Segs[s] = Abstracted(disk.files[s], b)
      BY <1>4, <3>1, ViewInFile
    <3> QED
      BY <1>4, <3>1, <3>2
  <2> QED
    BY <2>1, <2>2
<1>10. Segs' \in Promise!Picks(x, Promise!Survivors)
  <2>1. Past(left) \in Promise!Picks(x, Promise!Survivors)
    BY <1>6, <1>8, <1>9, StopMaps
  <2> QED
    BY <1>4, <1>6, <2>1
<1>11. lost \in SUBSET {s \in DOMAIN Segs : Segs[s].hard = 0}
  <2> SUFFICES ASSUME NEW s \in lost PROVE s \in DOMAIN Segs /\ Segs[s].hard = 0
    OBVIOUS
  <2>1. s \in DOMAIN disk.files /\ ~disk.files[s].named
    BY <1>2
  <2>2. PICK b : Segs[s] = Abstracted(disk.files[s], b)
    BY <1>4, <2>1, ViewInFile
  <2>3. Segs[s].hard = 0
    BY <2>1, <2>2 DEF Abstracted
  <2> QED
    BY <1>7, <2>1, <2>3
<1>12. back \in SUBSET (DOMAIN Removed)
  BY <1>2, <1>7
<1>13. Removed' = <<>>
  BY <1>6 DEF Removed
<1>14. Promise!LogPowerLoss
  BY <1>4, <1>10, <1>11, <1>12, <1>13 DEF Promise!LogPowerLoss, x
<1>15. Apart(disk')
  <2>1. DOMAIN <<>> = {}
    OBVIOUS
  <2> QED
    BY <1>6, <2>1 DEF Apart
<1> QED
  BY <1>4, <1>14, <1>15 DEF RefineInv

LEMMA InitMaps == Init => RefineInv /\ Promise!LogInit
<1> SUFFICES ASSUME Init PROVE RefineInv /\ Promise!LogInit
  OBVIOUS
<1>1. /\ log.active = 0 /\ disk.files = <<>> /\ disk.unlinked = <<>> /\ DOMAIN <<>> = {}
  BY NoLogIs DEF Init
<1>2. RefineInv
  BY <1>1, InitInv DEF RefineInv, Apart
<1>3. Segs = <<>> /\ Removed = <<>>
  BY <1>1 DEF Segs, Removed
<1> QED
  BY <1>1, <1>2, <1>3 DEF Promise!LogInit

\* A step that touches neither the log nor the directory.
LEMMA StutterMaps ==
  ASSUME RefineInv, UNCHANGED <<log, disk, batch>>, IInv'
  PROVE  RefineInv' /\ UNCHANGED Promise!logVars
BY DEF RefineInv, Promise!logVars, Segs, Removed, Readable

LEMMA StepMaps ==
  RefineInv /\ [Next]_vars => RefineInv' /\ [Promise!LogNext]_(Promise!logVars)
<1> SUFFICES ASSUME RefineInv, [Next]_vars
             PROVE  RefineInv' /\ [Promise!LogNext]_(Promise!logVars)
  OBVIOUS
<1>0. IInv'
  BY StepInv DEF RefineInv
<1>1. CASE UNCHANGED vars \/ SyncClean \/ SyncClosed
  BY <1>0, <1>1, StutterMaps DEF vars, SyncClean, SyncClosed
<1>2. CASE Open
  BY <1>0, <1>2, OpenMaps DEF Promise!LogNext
<1>3. CASE AppendRecord
  BY <1>0, <1>3, AppendMaps DEF Promise!LogNext
<1>4. CASE SyncStart
  BY <1>0, <1>4, SyncStartMaps
<1>5. CASE Rotate
  BY <1>0, <1>5, RotateMaps DEF Promise!LogNext
<1>6. CASE Close
  BY <1>0, <1>6, CloseMaps DEF Promise!LogNext
<1>7. CASE \E ok \in BOOLEAN : SyncFile(ok) \/ SyncDir(ok)
  BY <1>0, <1>7, SyncFileMaps, SyncDirMaps DEF Promise!LogNext
<1>8. CASE \E s \in DOMAIN disk.files :
             Remove(s) \/ \E ok \in BOOLEAN : Quarantine(s, ok)
  BY <1>0, <1>8, RemoveMaps, QuarantineMaps DEF Promise!LogNext
<1>9. CASE Kill
  BY <1>0, <1>9, KillMaps DEF Promise!LogNext
<1>10. CASE PowerLoss
  BY <1>0, <1>10, PowerLossMaps DEF Promise!LogNext
<1> QED
  BY <1>1, <1>2, <1>3, <1>4, <1>5, <1>6, <1>7, <1>8, <1>9, <1>10 DEF Next

\* The log in detail does only what the store above is promised: whatever
\* fails, and wherever the process or the machine stops, each step is one of
\* RecordLog or changes nothing the store could see (wal.go).
THEOREM LogImplementsRecordLog == Spec => ImplementsRecordLog
<1>1. Init => RefineInv /\ Promise!LogInit
  BY InitMaps
<1>2. RefineInv /\ [Next]_vars => RefineInv' /\ [Promise!LogNext]_(Promise!logVars)
  BY StepMaps
<1> QED
  BY <1>1, <1>2, PTL DEF Spec, ImplementsRecordLog, Promise!LogSpec
=============================================================================
