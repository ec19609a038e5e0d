--------------------------- MODULE LocalStore_proofs --------------------------
(***************************************************************************)
(* Proofs about the local object store, for every set of names, any number *)
(* of writers and all bounds.                                              *)
(*                                                                         *)
(* That a power loss takes a committed object only with a directory whose  *)
(* maker did not finish rests on what each Create in progress knows: every *)
(* directory it made is one it found missing, so one whose entry it has    *)
(* synced or is about to (Fits).  A Create that gets past mkdirAll has     *)
(* therefore made all of its directories durable.                          *)
(***************************************************************************)
EXTENDS LocalStore, Functions, SequenceTheorems, TLAPS

------------------------------------------------------------------------------
(* Paths. *)

\* What is above a path is a shorter path, and not empty.
LEMMA AbovePaths ==
  ASSUME NEW p \in Seq(Segment), NEW d \in Above(p)
  PROVE  d \in Seq(Segment) /\ d # Root /\ Len(d) \in 1 .. Len(p) - 1
<1>1. PICK k \in 1 .. Len(p) - 1 : d = SubSeq(p, 1, k)
  BY DEF Above
<1>2. d \in Seq(Segment) /\ Len(d) = k
  BY <1>1
<1> QED
  BY <1>1, <1>2 DEF Root

\* What is above a directory on the way to a path is on the way too.
LEMMA AboveTransitive ==
  ASSUME NEW p \in Seq(Segment), NEW d \in Above(p), NEW e \in Above(d)
  PROVE  e \in Above(p)
<1>1. PICK k \in 1 .. Len(p) - 1 : d = SubSeq(p, 1, k)
  BY DEF Above
<1>2. d \in Seq(Segment) /\ Len(d) = k
  BY <1>1
<1>3. PICK j \in 1 .. Len(d) - 1 : e = SubSeq(d, 1, j)
  BY DEF Above
<1>4. e = SubSeq(p, 1, j)
  BY <1>1, <1>2, <1>3
<1> QED
  BY <1>2, <1>3, <1>4 DEF Above

\* The directory a path is in, and what is above that one, are all there is
\* above the path.
LEMMA AboveParent ==
  ASSUME NEW p \in Seq(Segment), p # <<>>
  PROVE  /\ Parent(p) \in Seq(Segment)
         /\ Above(p) \subseteq Above(Parent(p)) \cup {Parent(p)}
         /\ Parent(p) \in Above(p) \cup {Root}
<1> DEFINE n == Len(p) - 1
<1>0. Len(p) \in Nat /\ n \in Nat
  BY EmptySeq
<1>1. n \in 0 .. Len(p) /\ Parent(p) = SubSeq(p, 1, n)
  BY <1>0 DEF Parent
<1>2. \A k \in 1 .. Len(p) : p[k] \in Segment
  OBVIOUS
<1>3. Parent(p) \in Seq(Segment) /\ Len(Parent(p)) = n
  <2> HIDE DEF n
  <2>1. \A i \in 1 .. n : p[i] \in Segment
    BY <1>1, <1>2
  <2> QED
    BY <1>1, <2>1, SubSeqProperties
<1>4. ASSUME NEW d \in Above(p)
      PROVE  d \in Above(Parent(p)) \cup {Parent(p)}
  <2>1. PICK k \in 1 .. n : d = SubSeq(p, 1, k)
    BY DEF Above
  <2>2. CASE k = n
    BY <1>1, <2>1, <2>2
  <2>3. CASE k < n
    <3>1. n \in 1 .. Len(p) /\ 1 \in 1 .. Len(p) /\ 1 \in 1 .. n - 1 + 1
          /\ k \in 1 .. n - 1 + 1
      BY <1>1, <2>1
    <3>2. SubSeq(SubSeq(p, 1, n), 1, k) = SubSeq(p, 1, k)
      BY <3>1, SubSeqOfSubSeq
    <3> QED
      BY <1>1, <1>3, <2>1, <2>3, <3>2 DEF Above
  <2> QED
    BY <1>1, <2>1, <2>2, <2>3
<1>5. Parent(p) \in Above(p) \cup {Root}
  <2>1. CASE n = 0
    BY <1>1, <2>1, SubSeqEmpty DEF Root
  <2>2. CASE n # 0
    <3>1. n \in 1 .. Len(p) - 1
      <4>1. Len(p) - 1 = n
        OBVIOUS
      <4> HIDE DEF n
      <4>2. n \in 1 .. n
        BY <1>0, <2>2
      <4> QED
        BY <4>1, <4>2
    <3>2. SubSeq(p, 1, n) \in Above(p)
      BY <3>1, Zenon DEF Above
    <3> QED
      BY <1>1, <3>2
  <2> QED
    BY <2>1, <2>2
<1> QED
  BY <1>3, <1>4, <1>5

LEMMA AboveRoot == Above(Root) = {}
BY DEF Above, Root

\* Directories are paths, and so is what they are in.
LEMMA DirPaths ==
  ASSUME NEW d \in Dir
  PROVE  d \in Seq(Segment) \ {Root} /\ Above(d) \subseteq Dir
<1>1. PICK o \in Object : d \in Above(o)
  BY DEF Dir
<1>2. o \in Seq(Segment)
  BY LocalAssumption
<1>3. d \in Seq(Segment) \ {Root}
  BY <1>1, <1>2, AbovePaths
<1>4. Above(d) \subseteq Above(o)
  BY <1>1, <1>2, AboveTransitive
<1> QED
  BY <1>3, <1>4 DEF Dir

LEMMA ObjectPaths ==
  ASSUME NEW o \in Object
  PROVE  o \in Seq(Segment) \ {Root} /\ Above(o) \subseteq Dir
BY LocalAssumption DEF Dir, Root

LEMMA ParentIsDir ==
  ASSUME NEW p \in Object \cup Dir
  PROVE  Parent(p) \in Dir \cup {Root}
BY AboveParent, DirPaths, ObjectPaths DEF Root

\* The range of a sequence that grows or shrinks by an element.
LEMMA RangeAppend ==
  ASSUME NEW S, NEW s \in Seq(S), NEW x \in S
  PROVE  Range(Append(s, x)) = Range(s) \cup {x}
<1>1. DOMAIN s = 1 .. Len(s) /\ DOMAIN Append(s, x) = 1 .. Len(s) + 1
  OBVIOUS
<1>2. \A i \in 1 .. Len(s) : Append(s, x)[i] = s[i]
  OBVIOUS
<1>3. Append(s, x)[Len(s) + 1] = x
  OBVIOUS
<1> QED
  BY <1>1, <1>2, <1>3 DEF Range

LEMMA RangeTail ==
  ASSUME NEW S, NEW s \in Seq(S), s # <<>>
  PROVE  Range(s) = Range(Tail(s)) \cup {Head(s)}
<1>1. DOMAIN s = 1 .. Len(s) /\ DOMAIN Tail(s) = 1 .. Len(s) - 1
  OBVIOUS
<1>2. \A i \in 1 .. Len(s) - 1 : Tail(s)[i] = s[i + 1]
  OBVIOUS
<1>3. Head(s) = s[1] /\ 1 \in DOMAIN s
  OBVIOUS
<1>4. ASSUME NEW x \in Range(s) PROVE x \in Range(Tail(s)) \cup {Head(s)}
  <2>1. PICK i \in 1 .. Len(s) : x = s[i]
    BY <1>1 DEF Range
  <2>2. CASE i = 1
    BY <1>3, <2>1, <2>2
  <2>3. CASE i > 1
    <3>1. i - 1 \in 1 .. Len(s) - 1 /\ Tail(s)[i - 1] = s[i]
      BY <2>1, <2>3, <1>2
    <3> QED
      BY <1>1, <2>1, <3>1 DEF Range
  <2> QED
    BY <2>2, <2>3
<1>5. ASSUME NEW x \in Range(Tail(s)) PROVE x \in Range(s)
  <2>1. PICK i \in 1 .. Len(s) - 1 : x = Tail(s)[i]
    BY <1>1 DEF Range
  <2> QED
    BY <1>1, <1>2, <2>1 DEF Range
<1> QED
  BY <1>3, <1>4, <1>5 DEF Range

------------------------------------------------------------------------------
(* The inductive invariant. *)

\* A tree of directories and objects: what is in it has its directories in it,
\* a directory whose maker finished is on disk, and so are an object's bytes.
TreeOK(ds, fs) ==
  /\ DOMAIN ds \subseteq Dir
  /\ ds \in [DOMAIN ds -> [named : BOOLEAN, settled : BOOLEAN]]
  /\ DOMAIN fs \subseteq Object
  /\ fs \in [DOMAIN fs -> [synced : BOOLEAN, named : BOOLEAN]]
  /\ \A p \in DOMAIN ds \cup DOMAIN fs : Above(p) \subseteq DOMAIN ds
  /\ \A d \in DOMAIN ds : ds[d].settled => ds[d].named
  /\ \A o \in DOMAIN fs : fs[o].synced

\* What a writer knows at each step, of the tree and of what it has done.
Fits(r, ds, fs) ==
  /\ r.step = "idle" <=> r.object = Root
  /\ r.step = "stat" =>
       /\ r.made = {}
       /\ Above(r.object) \subseteq Above(r.at) \cup {r.at} \cup Range(r.missing)
  /\ r.step = "mkdir" =>
       /\ r.made \subseteq Range(r.missing)
       /\ Above(r.object) \subseteq DOMAIN ds \cup Range(r.missing)
  /\ r.step = "settle" => \A d \in r.made : ds[d].named \/ d \in Range(r.missing)
  /\ r.step \in {"settle", "write", "rename", "publish"} =>
       Above(r.object) \subseteq DOMAIN ds
  /\ r.step = "rename" => r.synced
  /\ r.step = "publish" => r.object \in DOMAIN fs
  /\ r.made \subseteq DOMAIN ds

WritersFit ==
  /\ writer \in [Writer -> WriterState]
  /\ \A w \in Writer : Fits(writer[w], dirs, files)

\* The entry of a committed object is on disk.
CommittedIsNamed ==
  /\ committed \subseteq Object /\ broken \subseteq Object
  /\ \A o \in committed : o \in DOMAIN files /\ files[o].named

CountsOK == faults \in Nat /\ stops \in Nat

IInv == TreeOK(dirs, files) /\ WritersFit /\ CommittedIsNamed /\ CountsOK

\* Nothing a writer relies on goes away.
Grows(r, ds, fs, ds2, fs2) ==
  /\ DOMAIN ds \subseteq DOMAIN ds2
  /\ \A d \in DOMAIN ds : ds[d].named => ds2[d].named
  /\ r.object \in DOMAIN fs => r.object \in DOMAIN fs2

LEMMA FitsGrows ==
  ASSUME NEW r, NEW ds, NEW fs, NEW ds2, NEW fs2,
         Fits(r, ds, fs), Grows(r, ds, fs, ds2, fs2)
  PROVE  Fits(r, ds2, fs2)
<1>1. r.step = "settle" => \A d \in r.made : ds2[d].named \/ d \in Range(r.missing)
  BY DEF Fits, Grows
<1> QED
  BY <1>1 DEF Fits, Grows

\* A step of one writer, which takes nothing from the others.
LEMMA GoesFits ==
  ASSUME WritersFit, NEW w \in Writer, NEW next \in WriterState,
         Goes(w, next), Fits(next, dirs', files'),
         \A v \in Writer \ {w} : Grows(writer[v], dirs, files, dirs', files')
  PROVE  WritersFit'
<1>1. writer' \in [Writer -> WriterState] /\ writer'[w] = next
  BY DEF Goes, WritersFit
<1>2. ASSUME NEW v \in Writer PROVE Fits(writer'[v], dirs', files')
  <2>1. CASE v = w
    BY <1>1, <2>1
  <2>2. CASE v # w
    <3>1. writer'[v] = writer[v]
      BY <2>2 DEF Goes, WritersFit
    <3>2. Fits(writer[v], dirs, files)
      BY DEF WritersFit
    <3> QED
      BY <2>2, <3>1, <3>2, FitsGrows
  <2> QED
    BY <2>1, <2>2
<1> QED
  BY <1>1, <1>2 DEF WritersFit

LEMMA IdleFits == Idle \in WriterState /\ \A ds, fs : Fits(Idle, ds, fs)
<1>1. Idle \in WriterState
  BY EmptySeq DEF Idle, WriterState
<1>2. ASSUME NEW ds, NEW fs PROVE Fits(Idle, ds, fs)
  BY DEF Fits, Idle
<1> QED
  BY <1>1, <1>2

LEMMA SpendCounts ==
  ASSUME CountsOK, NEW ok \in BOOLEAN, Spend(ok)
  PROVE  faults' \in Nat
BY DEF CountsOK, Spend

LEMMA InitInv == Init => IInv
<1> SUFFICES ASSUME Init PROVE IInv
  OBVIOUS
<1>1. TreeOK(dirs, files)
  BY DEF Init, TreeOK
<1>2. WritersFit
  BY IdleFits DEF Init, WritersFit
<1>3. CommittedIsNamed /\ CountsOK
  BY DEF Init, CommittedIsNamed, CountsOK
<1> QED
  BY <1>1, <1>2, <1>3 DEF IInv

------------------------------------------------------------------------------
(* Create. *)

\* A step that leaves the tree as it is.
LEMMA SameTree ==
  ASSUME IInv, NEW w \in Writer, NEW next \in WriterState, Goes(w, next),
         Fits(next, dirs, files),
         UNCHANGED <<dirs, files, committed, broken>>, CountsOK'
  PROVE  IInv'
<1>1. TreeOK(dirs, files)' /\ CommittedIsNamed'
  BY DEF IInv, CommittedIsNamed
<1>2. \A v \in Writer \ {w} : Grows(writer[v], dirs, files, dirs', files')
  BY DEF Grows
<1>3. WritersFit'
  BY <1>2, GoesFits DEF IInv
<1> QED
  BY <1>1, <1>3 DEF IInv

\* A writer that gives up.
LEMMA GivesUpInv ==
  ASSUME IInv, NEW w \in Writer, GivesUp(w),
         UNCHANGED <<dirs, files, committed, broken>>, CountsOK'
  PROVE  IInv'
BY IdleFits, SameTree DEF GivesUp

\* What a writer is like before a step.
LEMMA WriterIs ==
  ASSUME IInv, NEW w \in Writer
  PROVE  writer[w] \in WriterState /\ Fits(writer[w], dirs, files)
BY DEF IInv, WritersFit

LEMMA CreateInv ==
  ASSUME IInv, NEW w \in Writer, NEW o \in Object, Create(w, o)
  PROVE  IInv'
<1> DEFINE next == [Idle EXCEPT !.step = "stat", !.object = o, !.at = Parent(o)]
<1>1. /\ next.step = "stat" /\ next.object = o /\ next.at = Parent(o)
      /\ next.missing = <<>> /\ next.made = {} /\ next \in WriterState
  BY ParentIsDir, IdleFits DEF Idle, WriterState
<1>2. o # Root /\ Above(o) \subseteq Above(Parent(o)) \cup {Parent(o)}
  BY ObjectPaths, AboveParent DEF Root
<1>3. Goes(w, next)
  BY DEF Create
<1> HIDE DEF next
<1>4. Fits(next, dirs, files)
  BY <1>1, <1>2 DEF Fits
<1>5. CountsOK'
  BY DEF Create, IInv, CountsOK
<1> QED
  BY <1>1, <1>3, <1>4, <1>5, SameTree DEF Create

LEMMA StatInv ==
  ASSUME IInv, NEW w \in Writer, NEW ok \in BOOLEAN, Stat(w, ok)
  PROVE  IInv'
<1> DEFINE r == writer[w]
           found == [r EXCEPT !.step = "mkdir"]
           next == [r EXCEPT !.missing = Append(@, r.at), !.at = Parent(r.at)]
<1>1. /\ r \in WriterState /\ Fits(r, dirs, files) /\ r.step = "stat"
      /\ CountsOK' /\ UNCHANGED <<dirs, files, committed, broken>>
  BY WriterIs, SpendCounts DEF Stat, IInv, CountsOK
<1>2. /\ r.object \in Object /\ r.at \in Dir \cup {Root}
      /\ r.missing \in Seq(Dir) /\ r.made = {}
      /\ Above(r.object) \subseteq Above(r.at) \cup {r.at} \cup Range(r.missing)
  BY <1>1 DEF Fits, WriterState
<1>3. CASE ~ok
  BY <1>1, <1>3, GivesUpInv DEF Stat
<1>4. CASE ok /\ (r.at = Root \/ r.at \in DOMAIN dirs)
  <2>1. Goes(w, found)
    BY <1>4 DEF Stat
  <2>2. /\ found.step = "mkdir" /\ found.object = r.object
        /\ found.missing = r.missing /\ found.made = r.made
        /\ found \in WriterState
    BY <1>1 DEF WriterState
  <2>3. \A d \in Above(r.object) : d # Root
    BY <1>2, ObjectPaths, AbovePaths
  <2>4. Above(r.at) \subseteq DOMAIN dirs
    BY <1>1, <1>4, AboveRoot DEF IInv, TreeOK
  <2>5. Above(r.object) \subseteq DOMAIN dirs \cup Range(r.missing)
    BY <1>2, <1>4, <2>3, <2>4
  <2>6. r.object # Root
    BY <1>1 DEF Fits
  <2> HIDE DEF found, r
  <2>7. Fits(found, dirs, files)
    BY <1>2, <2>2, <2>5, <2>6 DEF Fits
  <2> QED
    BY <1>1, <2>1, <2>2, <2>7, SameTree
<1>5. CASE ok /\ r.at # Root /\ r.at \notin DOMAIN dirs
  <2>1. Goes(w, next)
    BY <1>5 DEF Stat
  <2>2. r.at \in Dir /\ r.at \in Seq(Segment) /\ r.at # <<>>
    BY <1>2, <1>5, DirPaths DEF Root
  <2>3. Append(r.missing, r.at) \in Seq(Dir) /\ Parent(r.at) \in Dir \cup {Root}
    BY <1>2, <2>2, ParentIsDir
  <2>4. /\ next.step = "stat" /\ next.object = r.object /\ next.at = Parent(r.at)
        /\ next.missing = Append(r.missing, r.at) /\ next.made = {}
        /\ next \in WriterState
    BY <1>1, <1>2, <2>3 DEF WriterState
  <2>5. Range(next.missing) = Range(r.missing) \cup {r.at}
    BY <1>2, <2>2, <2>4, RangeAppend
  <2>6. Above(r.at) \subseteq Above(Parent(r.at)) \cup {Parent(r.at)}
    BY <2>2, AboveParent
  <2>7. r.object # Root
    BY <1>1 DEF Fits
  <2> HIDE DEF next, r
  <2>8. Fits(next, dirs, files)
    BY <1>2, <2>4, <2>5, <2>6, <2>7 DEF Fits
  <2> QED
    BY <1>1, <2>1, <2>4, <2>8, SameTree
<1> QED
  BY <1>3, <1>4, <1>5

LEMMA MkdirInv ==
  ASSUME IInv, NEW w \in Writer, NEW ok \in BOOLEAN, Mkdir(w, ok)
  PROVE  IInv'
<1> DEFINE r == writer[w]
           done == [r EXCEPT !.step = "settle"]
<1>1. /\ r \in WriterState /\ Fits(r, dirs, files) /\ r.step = "mkdir"
      /\ CountsOK' /\ UNCHANGED <<files, committed, broken>>
  BY WriterIs, SpendCounts DEF Mkdir, IInv, CountsOK
<1>2. /\ r.object \in Object /\ r.object # Root /\ r.made \subseteq Range(r.missing)
      /\ Above(r.object) \subseteq DOMAIN dirs \cup Range(r.missing)
      /\ r.made \subseteq DOMAIN dirs /\ r.made \subseteq Dir
  BY <1>1 DEF Fits, WriterState
<1>3. CASE ~ok
  BY <1>1, <1>3, GivesUpInv DEF Mkdir
<1>4. CASE ok /\ Above(r.object) \subseteq DOMAIN dirs
  <2>1. Goes(w, done) /\ dirs' = dirs
    BY <1>4 DEF Mkdir
  <2>2. /\ done.step = "settle" /\ done.object = r.object
        /\ done.missing = r.missing /\ done.made = r.made
        /\ done \in WriterState
    BY <1>1 DEF WriterState
  <2> HIDE DEF done, r
  <2>3. Fits(done, dirs, files)
    BY <1>2, <1>4, <2>2 DEF Fits
  <2> QED
    BY <1>1, <2>1, <2>2, <2>3, SameTree
<1>5. CASE ok /\ ~(Above(r.object) \subseteq DOMAIN dirs)
  <2>1. PICK d \in Above(r.object) \ DOMAIN dirs :
          /\ Above(d) \subseteq DOMAIN dirs
          /\ dirs' = With(dirs, d, [named |-> FALSE, settled |-> FALSE])
          /\ Goes(w, [r EXCEPT !.made = @ \cup {d}])
    BY <1>5 DEF Mkdir
  <2> DEFINE next == [r EXCEPT !.made = @ \cup {d}]
  <2>2. d \in Dir /\ d \in Range(r.missing)
    BY <1>2, <2>1, ObjectPaths
  <2>3. /\ next.step = "mkdir" /\ next.object = r.object
        /\ next.missing = r.missing /\ next.made = r.made \cup {d}
        /\ next \in WriterState
    BY <1>1, <1>2, <2>2 DEF WriterState
  <2>4. /\ DOMAIN dirs' = DOMAIN dirs \cup {d}
        /\ dirs'[d] = [named |-> FALSE, settled |-> FALSE]
        /\ \A e \in DOMAIN dirs : dirs'[e] = dirs[e]
        /\ dirs' \in [DOMAIN dirs' -> [named : BOOLEAN, settled : BOOLEAN]]
    BY <2>1 DEF With, IInv, TreeOK
  <2>5. TreeOK(dirs', files')
    BY <1>1, <2>1, <2>2, <2>4 DEF IInv, TreeOK
  <2>6. \A v \in Writer : Grows(writer[v], dirs, files, dirs', files')
    BY <1>1, <2>4 DEF Grows
  <2> HIDE DEF next, r
  <2>7. Fits(next, dirs', files')
    BY <1>2, <2>2, <2>3, <2>4 DEF Fits
  <2>8. WritersFit'
    BY <2>1, <2>3, <2>6, <2>7, GoesFits DEF IInv, next
  <2> QED
    BY <1>1, <2>5, <2>8 DEF IInv, CommittedIsNamed
<1> QED
  BY <1>3, <1>4, <1>5

\* A directory's sync: what it does, and that it takes nothing from anybody.
LEMMA SyncDirIs ==
  ASSUME IInv, NEW path, SyncDir(path)
  PROVE  /\ TreeOK(dirs', files')
         /\ \A v \in Writer : Grows(writer[v], dirs, files, dirs', files')
         /\ DOMAIN dirs' = DOMAIN dirs /\ DOMAIN files' = DOMAIN files
         /\ \A d \in DOMAIN dirs :
              dirs'[d].named <=> dirs[d].named \/ Parent(d) = path
         /\ \A o \in DOMAIN files :
              files'[o].named <=> files[o].named \/ Parent(o) = path
<1>1. /\ DOMAIN dirs' = DOMAIN dirs /\ DOMAIN files' = DOMAIN files
      /\ dirs' = [d \in DOMAIN dirs |->
                    [dirs[d] EXCEPT !.named = dirs[d].named \/ Parent(d) = path]]
      /\ files' = [o \in DOMAIN files |->
                    [files[o] EXCEPT !.named = files[o].named \/ Parent(o) = path]]
  BY DEF SyncDir
<1>2. ASSUME NEW d \in DOMAIN dirs
      PROVE  /\ dirs'[d] \in [named : BOOLEAN, settled : BOOLEAN]
             /\ dirs'[d].settled = dirs[d].settled
             /\ dirs'[d].named <=> dirs[d].named \/ Parent(d) = path
  <2>1. dirs[d] \in [named : BOOLEAN, settled : BOOLEAN]
    BY DEF IInv, TreeOK
  <2>2. dirs'[d] = [dirs[d] EXCEPT !.named = dirs[d].named \/ Parent(d) = path]
    BY <1>1
  <2> QED
    BY <2>1, <2>2
<1>3. ASSUME NEW o \in DOMAIN files
      PROVE  /\ files'[o] \in [synced : BOOLEAN, named : BOOLEAN]
             /\ files'[o].synced = files[o].synced
             /\ files'[o].named <=> files[o].named \/ Parent(o) = path
  <2>1. files[o] \in [synced : BOOLEAN, named : BOOLEAN]
    BY DEF IInv, TreeOK
  <2>2. files'[o] = [files[o] EXCEPT !.named = files[o].named \/ Parent(o) = path]
    BY <1>1
  <2> QED
    BY <2>1, <2>2
<1>4. /\ dirs' \in [DOMAIN dirs' -> [named : BOOLEAN, settled : BOOLEAN]]
      /\ files' \in [DOMAIN files' -> [synced : BOOLEAN, named : BOOLEAN]]
  <2>1. dirs' = [d \in DOMAIN dirs' |-> dirs'[d]]
    BY <1>1
  <2>2. files' = [o \in DOMAIN files' |-> files'[o]]
    BY <1>1
  <2> QED
    BY <1>1, <1>2, <1>3, <2>1, <2>2
<1>5. TreeOK(dirs', files')
  BY <1>1, <1>2, <1>3, <1>4 DEF IInv, TreeOK
<1>6. \A v \in Writer : Grows(writer[v], dirs, files, dirs', files')
  BY <1>1, <1>2 DEF Grows
<1> QED
  BY <1>1, <1>2, <1>3, <1>5, <1>6

LEMMA SettleDirInv ==
  ASSUME IInv, NEW w \in Writer, NEW ok \in BOOLEAN, SettleDir(w, ok)
  PROVE  IInv'
<1> DEFINE r == writer[w]
           next == [r EXCEPT !.missing = Tail(@)]
<1>1. /\ r \in WriterState /\ Fits(r, dirs, files) /\ r.step = "settle"
      /\ r.missing # <<>> /\ CountsOK' /\ UNCHANGED <<committed, broken>>
  BY WriterIs, SpendCounts DEF SettleDir, IInv, CountsOK
<1>2. CASE ~ok
  BY <1>1, <1>2, GivesUpInv DEF SettleDir
<1>3. CASE ok
  <2>1. SyncDir(Parent(Head(r.missing))) /\ Goes(w, next)
    BY <1>3 DEF SettleDir, EntryIn
  <2>2. /\ TreeOK(dirs', files')
        /\ \A v \in Writer : Grows(writer[v], dirs, files, dirs', files')
        /\ DOMAIN dirs' = DOMAIN dirs /\ DOMAIN files' = DOMAIN files
        /\ \A d \in DOMAIN dirs : dirs'[d].named <=>
             dirs[d].named \/ Parent(d) = Parent(Head(r.missing))
        /\ \A o \in DOMAIN files : files[o].named => files'[o].named
    BY <2>1, SyncDirIs
  <2>3. r.missing \in Seq(Dir)
    BY <1>1 DEF WriterState
  <2>4. /\ Tail(r.missing) \in Seq(Dir)
        /\ Range(r.missing) = Range(Tail(r.missing)) \cup {Head(r.missing)}
    BY <1>1, <2>3, RangeTail
  <2>5. /\ next.step = "settle" /\ next.object = r.object /\ next.made = r.made
        /\ next.missing = Tail(r.missing) /\ next \in WriterState
    BY <1>1, <2>4 DEF WriterState
  <2> HIDE DEF next, r
  <2>6. \A d \in r.made : dirs'[d].named \/ d \in Range(next.missing)
    BY <1>1, <2>2, <2>4, <2>5 DEF Fits
  <2>7. Fits(next, dirs', files')
    BY <1>1, <2>2, <2>5, <2>6 DEF Fits
  <2>8. WritersFit'
    BY <2>1, <2>2, <2>5, <2>7, GoesFits DEF IInv
  <2>9. CommittedIsNamed'
    BY <1>1, <2>2 DEF IInv, CommittedIsNamed
  <2> QED
    BY <1>1, <2>2, <2>8, <2>9 DEF IInv
<1> QED
  BY <1>2, <1>3

LEMMA CreateTempInv ==
  ASSUME IInv, NEW w \in Writer, NEW ok \in BOOLEAN, CreateTemp(w, ok)
  PROVE  IInv'
<1> DEFINE r == writer[w]
           done == [r EXCEPT !.step = "write"]
<1>1. /\ r \in WriterState /\ Fits(r, dirs, files) /\ r.step = "settle"
      /\ r.missing = <<>> /\ CountsOK' /\ UNCHANGED <<files, committed, broken>>
  BY WriterIs, SpendCounts DEF CreateTemp, IInv, CountsOK
<1>2. \A d \in r.made : d \in DOMAIN dirs /\ dirs[d].named
  BY <1>1 DEF Fits, Range
<1>3. /\ DOMAIN dirs' = DOMAIN dirs
      /\ dirs' = [d \in DOMAIN dirs |->
                    [dirs[d] EXCEPT !.settled = dirs[d].settled \/ d \in r.made]]
  BY DEF CreateTemp
<1>4. ASSUME NEW d \in DOMAIN dirs
      PROVE  /\ dirs'[d] \in [named : BOOLEAN, settled : BOOLEAN]
             /\ dirs'[d].named = dirs[d].named
             /\ dirs'[d].settled => dirs[d].named
  <2>1. /\ dirs[d] \in [named : BOOLEAN, settled : BOOLEAN]
        /\ dirs[d].settled => dirs[d].named
    BY DEF IInv, TreeOK
  <2>2. dirs'[d] = [dirs[d] EXCEPT !.settled = dirs[d].settled \/ d \in r.made]
    BY <1>3
  <2>3. /\ dirs'[d] \in [named : BOOLEAN, settled : BOOLEAN]
        /\ dirs'[d].named = dirs[d].named
        /\ dirs'[d].settled = (dirs[d].settled \/ d \in r.made)
    BY <2>1, <2>2
  <2> QED
    BY <1>2, <2>1, <2>3
<1>5. dirs' \in [DOMAIN dirs' -> [named : BOOLEAN, settled : BOOLEAN]]
  <2>1. dirs' = [d \in DOMAIN dirs' |-> dirs'[d]]
    BY <1>3
  <2> QED
    BY <1>3, <1>4, <2>1
<1>6. TreeOK(dirs', files')
  BY <1>1, <1>3, <1>4, <1>5, SMTT(30) DEF IInv, TreeOK
<1>7. \A v \in Writer : Grows(writer[v], dirs, files, dirs', files')
  BY <1>1, <1>3, <1>4 DEF Grows
<1>8. WritersFit'
  <2>1. CASE ok
    <3>1. Goes(w, done)
      BY <2>1 DEF CreateTemp
    <3>2. /\ done.step = "write" /\ done.object = r.object
          /\ done.made = r.made /\ done \in WriterState
      BY <1>1 DEF WriterState
    <3> HIDE DEF done, r
    <3>3. Fits(done, dirs', files')
      BY <1>1, <1>3, <3>2 DEF Fits
    <3> QED
      BY <1>7, <3>1, <3>2, <3>3, GoesFits DEF IInv
  <2>2. CASE ~ok
    <3>1. Goes(w, Idle)
      BY <2>2 DEF CreateTemp, GivesUp
    <3> QED
      BY <1>7, <3>1, IdleFits, GoesFits DEF IInv
  <2> QED
    BY <2>1, <2>2
<1> QED
  BY <1>1, <1>6, <1>8 DEF IInv, CommittedIsNamed

------------------------------------------------------------------------------
(* Commit and Remove. *)

LEMMA SyncFileInv ==
  ASSUME IInv, NEW w \in Writer, NEW ok \in BOOLEAN, SyncFile(w, ok)
  PROVE  IInv'
<1> DEFINE r == writer[w]
           next == [r EXCEPT !.step = "rename", !.synced = TRUE]
<1>1. /\ r \in WriterState /\ Fits(r, dirs, files) /\ r.step = "write"
      /\ CountsOK' /\ UNCHANGED <<dirs, files, committed, broken>>
  BY WriterIs, SpendCounts DEF SyncFile, IInv, CountsOK
<1>2. CASE ~ok
  BY <1>1, <1>2, GivesUpInv DEF SyncFile
<1>3. CASE ok
  <2>1. Goes(w, next)
    BY <1>3 DEF SyncFile, FileStep
  <2>2. /\ next.step = "rename" /\ next.object = r.object /\ next.made = r.made
        /\ next.synced = TRUE /\ next \in WriterState
    BY <1>1 DEF WriterState
  <2> HIDE DEF next, r
  <2>3. Fits(next, dirs, files)
    BY <1>1, <2>2 DEF Fits
  <2> QED
    BY <1>1, <2>1, <2>2, <2>3, SameTree
<1> QED
  BY <1>2, <1>3

LEMMA RenameInv ==
  ASSUME IInv, NEW w \in Writer, NEW ok \in BOOLEAN, Rename(w, ok)
  PROVE  IInv'
<1> DEFINE r == writer[w]
           o == r.object
           was == o \in DOMAIN files /\ files[o].named
           next == [r EXCEPT !.step = "publish"]
<1>1. /\ r \in WriterState /\ Fits(r, dirs, files) /\ r.step = "rename"
      /\ CountsOK' /\ UNCHANGED <<dirs, committed, broken>>
  BY WriterIs, SpendCounts DEF Rename, IInv, CountsOK
<1>2. CASE ~ok
  BY <1>1, <1>2, GivesUpInv DEF Rename
<1>3. CASE ok
  <2>1. /\ files' = With(files, o, [synced |-> r.synced, named |-> was])
        /\ Goes(w, next)
    BY <1>3 DEF Rename
  <2>2. /\ o \in Object /\ Above(o) \subseteq DOMAIN dirs /\ r.synced = TRUE
    BY <1>1 DEF Fits, WriterState
  <2>3. /\ next.step = "publish" /\ next.object = o /\ next.made = r.made
        /\ next \in WriterState
    BY <1>1 DEF WriterState
  <2>4. was \in BOOLEAN
    BY DEF IInv, TreeOK
  <2> HIDE DEF was
  <2>5. /\ DOMAIN files' = DOMAIN files \cup {o}
        /\ files'[o] = [synced |-> TRUE, named |-> was]
        /\ \A p \in DOMAIN files \ {o} : files'[p] = files[p]
        /\ files' \in [DOMAIN files' -> [synced : BOOLEAN, named : BOOLEAN]]
    BY <2>1, <2>2, <2>4 DEF With, IInv, TreeOK
  <2>6. TreeOK(dirs', files')
    BY <1>1, <2>2, <2>5 DEF IInv, TreeOK
  <2>7. \A v \in Writer : Grows(writer[v], dirs, files, dirs', files')
    BY <1>1, <2>5 DEF Grows
  <2>8. CommittedIsNamed'
    BY <1>1, <2>5 DEF IInv, CommittedIsNamed, was
  <2> HIDE DEF next, r
  <2>9. Fits(next, dirs', files')
    BY <1>1, <2>2, <2>3, <2>5 DEF Fits
  <2>10. WritersFit'
    BY <2>1, <2>3, <2>7, <2>9, GoesFits DEF IInv
  <2> QED
    BY <1>1, <2>6, <2>8, <2>10 DEF IInv
<1> QED
  BY <1>2, <1>3

LEMMA PublishInv ==
  ASSUME IInv, NEW w \in Writer, NEW ok \in BOOLEAN, Publish(w, ok)
  PROVE  IInv'
<1> DEFINE o == writer[w].object
<1>1. /\ writer[w] \in WriterState /\ Fits(writer[w], dirs, files)
      /\ writer[w].step = "publish" /\ CountsOK'
      /\ Goes(w, Idle) /\ UNCHANGED broken
  BY WriterIs, SpendCounts DEF Publish, GivesUp, IInv, CountsOK
<1>2. o \in Object /\ o \in DOMAIN files
  BY <1>1 DEF Fits, WriterState
<1>3. CASE ~ok
  BY <1>1, <1>3, GivesUpInv DEF Publish, GivesUp
<1>4. CASE ok
  <2>1. SyncDir(Parent(o)) /\ committed' = committed \cup {o}
    BY <1>4 DEF Publish
  <2>2. /\ TreeOK(dirs', files')
        /\ \A v \in Writer : Grows(writer[v], dirs, files, dirs', files')
        /\ DOMAIN files' = DOMAIN files
        /\ \A p \in DOMAIN files :
             files'[p].named <=> files[p].named \/ Parent(p) = Parent(o)
    BY <2>1, SyncDirIs
  <2>3. WritersFit'
    BY <1>1, <2>2, IdleFits, GoesFits DEF IInv
  <2> HIDE DEF o
  <2>4. CommittedIsNamed'
    BY <1>1, <1>2, <2>1, <2>2 DEF IInv, CommittedIsNamed
  <2> QED
    BY <1>1, <2>2, <2>3, <2>4 DEF IInv
<1> QED
  BY <1>3, <1>4

LEMMA RemoveInv ==
  ASSUME IInv, NEW o \in Object, Remove(o)
  PROVE  IInv'
<1>1. /\ DOMAIN files' = DOMAIN files \ {o}
      /\ \A p \in DOMAIN files \ {o} : files'[p] = files[p]
      /\ files' \in [DOMAIN files' -> [synced : BOOLEAN, named : BOOLEAN]]
      /\ dirs' = dirs
  BY DEF Remove, Without, IInv, TreeOK
<1>2. TreeOK(dirs', files')
  BY <1>1 DEF IInv, TreeOK
<1>3. ASSUME NEW w \in Writer PROVE Fits(writer'[w], dirs', files')
  <2>1. writer[w].object # o /\ writer' = writer
    BY DEF Remove
  <2>2. Grows(writer[w], dirs, files, dirs', files')
    BY <1>1, <2>1 DEF Grows
  <2> QED
    BY <2>1, <2>2, WriterIs, FitsGrows
<1>4. WritersFit'
  BY <1>3 DEF Remove, IInv, WritersFit
<1>5. CommittedIsNamed' /\ CountsOK'
  BY <1>1 DEF Remove, IInv, CommittedIsNamed, CountsOK
<1> QED
  BY <1>2, <1>4, <1>5 DEF IInv

------------------------------------------------------------------------------
(* Stops. *)

\* When everything stops, nobody writes.
LEMMA StoppedFits ==
  ASSUME IInv, Stopped
  PROVE  WritersFit' /\ CountsOK'
BY IdleFits DEF Stopped, WritersFit, IInv, CountsOK

\* What a power loss leaves: directories whose own directories are left, and
\* objects in them.
LEMMA LeftIs ==
  ASSUME IInv, NEW gone \in SUBSET DOMAIN dirs,
         NEW left, left = {d \in DOMAIN dirs : (Above(d) \cup {d}) \cap gone = {}}
  PROVE  \A d \in left : Above(d) \subseteq left
<1> SUFFICES ASSUME NEW d \in left, NEW e \in Above(d) PROVE e \in left
  OBVIOUS
<1>1. d \in DOMAIN dirs /\ d \in Seq(Segment) /\ e \in DOMAIN dirs
  BY DirPaths DEF IInv, TreeOK
<1>2. Above(e) \subseteq Above(d)
  BY <1>1, AboveTransitive
<1> QED
  BY <1>1, <1>2

LEMMA PowerLossInv ==
  ASSUME IInv, PowerLoss
  PROVE  IInv'
<1>1. PICK gone \in SUBSET {d \in DOMAIN dirs : ~dirs[d].named},
           lost \in SUBSET {o \in DOMAIN files : ~files[o].named} :
        LET left == {d \in DOMAIN dirs : (Above(d) \cup {d}) \cap gone = {}}
            kept == {o \in DOMAIN files \ lost : Above(o) \subseteq left}
        IN  /\ dirs' = [d \in left |-> [named |-> TRUE, settled |-> TRUE]]
            /\ files' = [o \in kept |-> [files[o] EXCEPT !.named = TRUE]]
            /\ committed' = committed \cap kept
            /\ broken' = broken \cup (committed \ kept)
  BY DEF PowerLoss
<1> DEFINE left == {d \in DOMAIN dirs : (Above(d) \cup {d}) \cap gone = {}}
           kept == {o \in DOMAIN files \ lost : Above(o) \subseteq left}
<1>2. \A d \in left : Above(d) \subseteq left
  BY LeftIs
<1>3. left \subseteq DOMAIN dirs /\ kept \subseteq DOMAIN files
      /\ \A o \in kept : Above(o) \subseteq left
  OBVIOUS
<1>4. /\ dirs' = [d \in left |-> [named |-> TRUE, settled |-> TRUE]]
      /\ files' = [o \in kept |-> [files[o] EXCEPT !.named = TRUE]]
      /\ committed' = committed \cap kept
      /\ broken' = broken \cup (committed \ kept)
  BY <1>1
<1> HIDE DEF left, kept
<1>5. ASSUME NEW o \in kept
      PROVE  /\ files'[o] \in [synced : BOOLEAN, named : BOOLEAN]
             /\ files'[o].synced /\ files'[o].named
  <2>1. files[o] \in [synced : BOOLEAN, named : BOOLEAN] /\ files[o].synced
    BY <1>3 DEF IInv, TreeOK
  <2> QED
    BY <1>4, <2>1
<1>6. /\ DOMAIN dirs' = left /\ DOMAIN files' = kept
      /\ dirs' \in [left -> [named : BOOLEAN, settled : BOOLEAN]]
      /\ \A d \in left : dirs'[d].named
  BY <1>4
<1>7. files' \in [kept -> [synced : BOOLEAN, named : BOOLEAN]]
  BY <1>4, <1>5
<1>8. left \subseteq Dir /\ kept \subseteq Object
  BY <1>3 DEF IInv, TreeOK
<1>9. TreeOK(dirs', files')
  BY <1>2, <1>3, <1>5, <1>6, <1>7, <1>8 DEF TreeOK
<1>10. CommittedIsNamed'
  BY <1>4, <1>5, <1>6 DEF IInv, CommittedIsNamed
<1>11. WritersFit' /\ CountsOK'
  BY StoppedFits DEF PowerLoss
<1> QED
  BY <1>9, <1>10, <1>11 DEF IInv

LEMMA KillInv ==
  ASSUME IInv, Kill
  PROVE  IInv'
BY StoppedFits DEF Kill, IInv, CommittedIsNamed

LEMMA StepInv == IInv /\ [Next]_vars => IInv'
<1> SUFFICES ASSUME IInv, [Next]_vars PROVE IInv'
  OBVIOUS
<1>1. CASE \E w \in Writer : \E o \in Object : Create(w, o)
  BY <1>1, CreateInv
<1>2. ASSUME NEW w \in Writer, NEW ok \in BOOLEAN,
             \/ Stat(w, ok) \/ Mkdir(w, ok) \/ SettleDir(w, ok)
             \/ CreateTemp(w, ok)
      PROVE  IInv'
  BY <1>2, StatInv, MkdirInv, SettleDirInv, CreateTempInv
<1>3. ASSUME NEW w \in Writer, NEW ok \in BOOLEAN,
             SyncFile(w, ok) \/ Rename(w, ok) \/ Publish(w, ok)
      PROVE  IInv'
  BY <1>3, SyncFileInv, RenameInv, PublishInv
<1>4. CASE \E o \in Object : Remove(o)
  BY <1>4, RemoveInv
<1>5. CASE Kill \/ PowerLoss
  BY <1>5, KillInv, PowerLossInv
<1>6. CASE UNCHANGED vars
  BY <1>6 DEF vars, IInv, WritersFit, CommittedIsNamed, CountsOK
<1> QED
  BY <1>1, <1>2, <1>3, <1>4, <1>5, <1>6 DEF Next

------------------------------------------------------------------------------
(* The theorems. *)

\* The invariant the others rest on.
THEOREM StoreInvariant == Spec => []IInv
<1>1. Init => IInv
  BY InitInv
<1>2. IInv /\ [Next]_vars => IInv'
  BY StepInv
<1> QED
  BY <1>1, <1>2, PTL DEF Spec

\* Every variable stays in its type, and what is in the store has its
\* directories there (mkdirAll, Commit).
THEOREM TypeCorrect == Spec => []TypeOK
<1>1. IInv => TypeOK
  BY DEF IInv, TreeOK, WritersFit, CommittedIsNamed, CountsOK, TypeOK
<1> QED
  BY <1>1, StoreInvariant, PTL

\* No failure, kill or power loss leaves an object under its name without its
\* bytes on disk (Commit).
THEOREM ObjectsStayWhole == Spec => []ObjectsAreWhole
<1>1. IInv => ObjectsAreWhole
  BY DEF IInv, TreeOK, ObjectsAreWhole
<1> QED
  BY <1>1, StoreInvariant, PTL

\* A power loss takes a committed object only with a directory whose maker did
\* not get past mkdirAll, however many writers there are (mkdirAll, Commit).
THEOREM OnlyHasteCanLose == Spec => OnlyHasteLoses
<1> DEFINE Loses == \A o \in broken' \ broken :
                      \E d \in Above(o) : d \in DOMAIN dirs /\ ~dirs[d].settled
<1>1. IInv /\ [Next]_vars => Loses
  <2> SUFFICES ASSUME IInv, [Next]_vars, NEW o \in broken' \ broken
               PROVE  \E d \in Above(o) : d \in DOMAIN dirs /\ ~dirs[d].settled
    OBVIOUS
  <2>1. PowerLoss
    <3>1. CASE \E w \in Writer : \E p \in Object : Create(w, p)
      BY <3>1 DEF Create
    <3>2. CASE \E w \in Writer, ok \in BOOLEAN :
                 \/ Stat(w, ok) \/ Mkdir(w, ok) \/ SettleDir(w, ok)
                 \/ CreateTemp(w, ok)
                 \/ SyncFile(w, ok) \/ Rename(w, ok) \/ Publish(w, ok)
      BY <3>2 DEF Stat, Mkdir, SettleDir, CreateTemp, SyncFile, Rename, Publish
    <3>3. CASE (\E p \in Object : Remove(p)) \/ Kill \/ UNCHANGED vars
      BY <3>3 DEF Remove, Kill, vars
    <3> QED
      BY <3>1, <3>2, <3>3 DEF Next
  <2>2. PICK gone \in SUBSET {d \in DOMAIN dirs : ~dirs[d].named},
             lost \in SUBSET {p \in DOMAIN files : ~files[p].named} :
          LET left == {d \in DOMAIN dirs : (Above(d) \cup {d}) \cap gone = {}}
              kept == {p \in DOMAIN files \ lost : Above(p) \subseteq left}
          IN  broken' = broken \cup (committed \ kept)
    BY <2>1 DEF PowerLoss
  <2> DEFINE left == {d \in DOMAIN dirs : (Above(d) \cup {d}) \cap gone = {}}
  <2>3. /\ o \in committed /\ o \in DOMAIN files /\ files[o].named
        /\ ~(Above(o) \subseteq left)
    BY <2>2 DEF IInv, CommittedIsNamed
  <2>4. PICK e \in Above(o) : e \notin left
    BY <2>3
  <2>5. o \in Seq(Segment) /\ e \in DOMAIN dirs
    BY <2>3, ObjectPaths DEF IInv, TreeOK
  <2>6. PICK d \in Above(e) \cup {e} : d \in gone
    BY <2>4, <2>5
  <2>7. d \in Above(o)
    BY <2>5, <2>6, AboveTransitive
  <2>8. d \in DOMAIN dirs /\ ~dirs[d].named
    BY <2>6
  <2> QED
    BY <2>7, <2>8 DEF IInv, TreeOK
<1>2. Spec => [][Loses]_vars
  BY <1>1, StoreInvariant, PTL DEF Spec
<1> QED
  BY <1>2 DEF OnlyHasteLoses
=============================================================================
