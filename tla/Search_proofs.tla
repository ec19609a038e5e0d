----------------------------- MODULE Search_proofs -----------------------------
(***************************************************************************)
(* Proofs about the query engine, for any number of clients and permits,   *)
(* any files and all bounds.                                               *)
(*                                                                         *)
(* That permits come back is inductive once the shape of a request is      *)
(* known.  What there is to show is that every path of a handler, through  *)
(* retries, restored fields and failures, goes from its statement to a     *)
(* step that holds no permit, with what it held when the statement ended   *)
(* (Rests).                                                                *)
(*                                                                         *)
(* The rest is about what a request knows of files that change between its *)
(* statements.  A file of its plan is as it was planned, unless the plan   *)
(* has outlived the grace of a retired file, after which the request may   *)
(* fail (PlanKept, MayFail).  So a record without its fields is in a file  *)
(* still to be looked at (FieldsAhead), and a record it owes is in a file  *)
(* of the plan, on the page, or behind the cursor that comes with the page *)
(* (Turning, Pages).                                                       *)
(***************************************************************************)
EXTENDS Search, Sets_proofs, TLAPS

Names == {"step", "kind", "stage", "hurt", "holds", "plan", "reads", "since", "from", "to",
          "asc", "limit", "cursor", "page", "more", "missing", "looked", "names", "kept",
          "toBind", "shown", "due"}

Shape == /\ client = [c \in Client |-> client[c]]
         /\ \A c \in Client : DOMAIN client[c] = Names
         /\ permits \in Int

Running == {c \in Client : client[c].step = "run"}

IInv == Shape /\ PermitsComeBack

\* A request that was s is t, with no statement running.
Rests(s, t) == DOMAIN t = Names /\ t.step # "run" /\ t.holds = s.holds

------------------------------------------------------------------------------
(* Where the steps of a request leave it. *)

LEMMA IdleShape ==
  DOMAIN Idle = Names /\ Idle.step = "answered" /\ Idle.holds = 0
BY DEF Idle, Names

LEMMA PlanRests ==
  ASSUME NEW s, DOMAIN s = Names, NEW from, NEW to
  PROVE  Rests(s, Plan(s, from, to))
BY DEF Plan, Names, Rests

LEMMA ReturnRests ==
  ASSUME NEW s, DOMAIN s = Names, NEW step, step # "run"
  PROVE  Rests(s, Return(s, step))
BY DEF Return, Names, Rests

LEMMA BindNextRests ==
  ASSUME NEW s, DOMAIN s = Names, NEW kept, NEW toBind
  PROVE  Rests(s, BindNext(s, kept, toBind))
<1> DEFINE t == [s EXCEPT !.kept = kept, !.toBind = toBind]
<1>1. DOMAIN t = Names /\ t.holds = s.holds
  BY DEF Names
<1> HIDE DEF t
<1>2. /\ Rests(s, [t EXCEPT !.step = "wait", !.stage = "bind"])
      /\ Rests(s, [t EXCEPT !.step = "wait", !.stage = "recount"])
  BY <1>1 DEF Rests, Names
<1>3. Rests(s, Return(t, "failed"))
  BY <1>1, ReturnRests DEF Rests
<1>4. BindNext(s, kept, toBind) =
        IF toBind # {} THEN [t EXCEPT !.step = "wait", !.stage = "bind"]
        ELSE IF kept \in {{}, s.names} THEN Return(t, "failed")
        ELSE [t EXCEPT !.step = "wait", !.stage = "recount"]
  BY DEF BindNext, t
<1> QED
  BY <1>2, <1>3, <1>4

LEMMA FailedRests ==
  ASSUME NEW s, DOMAIN s = Names
  PROVE  Rests(s, Failed(s))
<1>1. CASE s.stage = "count"
  BY <1>1, BindNextRests DEF Failed
<1>2. CASE s.stage = "bind"
  BY <1>2, BindNextRests DEF Failed
<1>3. CASE s.stage \notin {"count", "bind"}
  BY <1>3, ReturnRests DEF Failed
<1> QED
  BY <1>1, <1>2, <1>3

LEMMA RestoreNextRests ==
  ASSUME NEW s, DOMAIN s = Names, NEW looked
  PROVE  Rests(s, RestoreNext(s, looked))
<1> DEFINE left == {f \in s.plan \ looked : Holding(f, s.missing)}
           t == [s EXCEPT !.shown = @ \o s.page, !.cursor = IF s.more THEN Last(s.page) ELSE @]
<1>1. DOMAIN t = Names /\ t.holds = s.holds
  BY DEF Names
<1>2. Rests(s, [s EXCEPT !.step = "wait", !.stage = "restore",
                         !.looked = looked, !.reads = {Min(left)}])
  BY DEF Rests, Names
<1>3. \A step \in {"page", "answered"} : Rests(s, Return(t, step))
  BY <1>1, ReturnRests DEF Rests
<1> QED
  BY <1>2, <1>3 DEF RestoreNext

------------------------------------------------------------------------------
(* Permits. *)

LEMMA RunningIsFinite ==
  IsFiniteSet(Running) /\ Cardinality(Running) \in Nat
<1>1. IsFiniteSet(Client) /\ Running \subseteq Client
  BY SearchAssumption DEF Running
<1> QED
  BY <1>1, FS_Subset, FS_CardinalityType

\* A statement is over, or never came to run, and gives back what it held.
LEMMA EndStep ==
  ASSUME IInv, NEW c \in Client, NEW t, Rests(client[c], t), End(c, t)
  PROVE  IInv'
<1> DEFINE s == client[c]
           u == [t EXCEPT !.holds = @ - s.holds]
<1>1. /\ permits' = permits + s.holds /\ permits \in Int
      /\ client' = [client EXCEPT ![c] = u]
      /\ permits = Concurrency - Cardinality(Running)
      /\ \A d \in Client : client[d].holds = IF client[d].step = "run" THEN 1 ELSE 0
  BY DEF End, GivesBack, IInv, Shape, PermitsComeBack, Running
<1>2. DOMAIN u = Names /\ u.step = t.step /\ u.holds = t.holds - s.holds
  BY DEF Rests, Names
<1>3. u.step # "run" /\ u.holds = 0
  BY <1>1, <1>2 DEF Rests
<1> HIDE DEF u
<1>4. /\ client'[c] = u /\ \A d \in Client \ {c} : client'[d] = client[d]
      /\ client' = [d \in Client |-> client'[d]]
  BY <1>1 DEF IInv, Shape
<1>5. Running' = Running \ {c}
  BY <1>3, <1>4 DEF Running
<1>6. permits' = Concurrency - Cardinality(Running') /\ permits' \in Int
  <2>1. Concurrency \in Nat
    BY SearchAssumption
  <2>2. CASE s.step = "run"
    <3>1. c \in Running /\ s.holds = 1
      BY <1>1, <2>2 DEF Running
    <3>2. Cardinality(Running') = Cardinality(Running) - 1
      BY <1>5, <3>1, RunningIsFinite, FS_RemoveElement
    <3> QED
      BY <1>1, <2>1, <3>1, <3>2, RunningIsFinite
  <2>3. CASE s.step # "run"
    <3>1. Running' = Running /\ s.holds = 0
      BY <1>1, <1>5, <2>3 DEF Running
    <3> QED
      BY <1>1, <2>1, <3>1
  <2> QED
    BY <2>2, <2>3
<1>7. \A d \in Client : client'[d].holds = IF client'[d].step = "run" THEN 1 ELSE 0
  BY <1>1, <1>3, <1>4
<1>8. Shape'
  BY <1>2, <1>4, <1>6 DEF IInv, Shape
<1> QED
  BY <1>6, <1>7, <1>8 DEF IInv, PermitsComeBack, Running

\* A request comes from a client that holds nothing, and waits.
LEMMA AskStep ==
  ASSUME IInv, NEW c \in Client, NEW s, Rests(client[c], s), Ask(c, s)
  PROVE  IInv'
<1>1. /\ client' = [client EXCEPT ![c] = s] /\ permits' = permits /\ client[c].step # "run"
  BY DEF Ask, AtRest
<1>2. /\ client'[c] = s /\ \A d \in Client \ {c} : client'[d] = client[d]
      /\ client' = [d \in Client |-> client'[d]]
  BY <1>1 DEF IInv, Shape
<1>3. {d \in Client : client'[d].step = "run"} = {d \in Client : client[d].step = "run"}
  BY <1>1, <1>2 DEF Rests
<1>4. \A d \in Client : client'[d].holds = IF client'[d].step = "run" THEN 1 ELSE 0
  BY <1>1, <1>2 DEF Rests, IInv, PermitsComeBack
<1>5. Shape'
  BY <1>1, <1>2 DEF Rests, IInv, Shape
<1> QED
  BY <1>1, <1>3, <1>4, <1>5 DEF IInv, PermitsComeBack

LEMMA AcquireStep ==
  ASSUME IInv, NEW c \in Client, Acquire(c)
  PROVE  IInv'
<1> DEFINE u == [client[c] EXCEPT !.step = "run", !.holds = @ + 1]
<1>1. /\ client[c].step = "wait" /\ permits' = permits - 1 /\ permits \in Int
      /\ client' = [client EXCEPT ![c].step = "run", ![c].holds = @ + 1]
      /\ permits = Concurrency - Cardinality(Running)
      /\ \A d \in Client : client[d].holds = IF client[d].step = "run" THEN 1 ELSE 0
      /\ DOMAIN client[c] = Names /\ client = [d \in Client |-> client[d]]
  BY DEF Acquire, IInv, Shape, PermitsComeBack, Running
<1>2. client' = [client EXCEPT ![c] = u]
  BY <1>1 DEF Names
<1>3. DOMAIN u = Names /\ u.step = "run" /\ u.holds = 1
  BY <1>1 DEF Names
<1> HIDE DEF u
<1>4. /\ client'[c] = u /\ \A d \in Client \ {c} : client'[d] = client[d]
      /\ client' = [d \in Client |-> client'[d]]
  BY <1>1, <1>2
<1>5. Running' = Running \cup {c} /\ c \notin Running
  BY <1>1, <1>3, <1>4 DEF Running
<1>6. permits' = Concurrency - Cardinality(Running') /\ permits' \in Int
  <2>1. Concurrency \in Nat
    BY SearchAssumption
  <2>2. Cardinality(Running') = Cardinality(Running) + 1
    BY <1>5, RunningIsFinite, FS_AddElement
  <2> QED
    BY <1>1, <2>1, <2>2, RunningIsFinite
<1>7. \A d \in Client : client'[d].holds = IF client'[d].step = "run" THEN 1 ELSE 0
  BY <1>1, <1>3, <1>4
<1>8. Shape'
  BY <1>1, <1>3, <1>4, <1>6 DEF IInv, Shape
<1> QED
  BY <1>6, <1>7, <1>8 DEF IInv, PermitsComeBack, Running

LEMMA QuietStep ==
  ASSUME IInv, UNCHANGED <<permits, client>>
  PROVE  IInv'
BY DEF IInv, Shape, PermitsComeBack

LEMMA QueryStep ==
  ASSUME IInv, NEW c \in Client, Query(c)
  PROVE  IInv'
<1> DEFINE s == client[c]
<1>1. DOMAIN s = Names
  BY DEF IInv, Shape
<1>2. CASE AskSearch(c) \/ AskScan(c) \/ AskCounts(c) \/ AskNextPage(c)
  <2> SUFFICES ASSUME NEW t, Ask(c, t), Rests(s, t)
               PROVE  IInv'
    <3>1. CASE AskSearch(c)
      <4>1. PICK asc \in BOOLEAN, asked \in Asked :
              LET t == [Idle EXCEPT !.kind = "search", !.stage = "page", !.asc = asc,
                                    !.limit = LimitOf(asked), !.holds = client[c].holds]
                  planned == Plan(t, WindowOf(t).from, WindowOf(t).to)
              IN  Ask(c, [planned EXCEPT !.due = {r \in Queryable : InWindow(r, planned)}])
        BY <3>1 DEF AskSearch
      <4> DEFINE t == [Idle EXCEPT !.kind = "search", !.stage = "page", !.asc = asc,
                                   !.limit = LimitOf(asked), !.holds = client[c].holds]
                 planned == Plan(t, WindowOf(t).from, WindowOf(t).to)
      <4>2. DOMAIN t = Names /\ t.holds = s.holds
        BY IdleShape DEF Names
      <4> HIDE DEF t
      <4>3. Rests(t, planned)
        BY <4>2, PlanRests
      <4> HIDE DEF planned
      <4>4. Rests(s, [planned EXCEPT !.due = {r \in Queryable : InWindow(r, planned)}])
        BY <4>2, <4>3 DEF Rests, Names
      <4> QED
        BY <4>1, <4>4 DEF t, planned
    <3>2. CASE AskScan(c)
      <4> DEFINE t == [Idle EXCEPT !.holds = client[c].holds]
                 planned == Plan(t, now - Window, now)
      <4>1. DOMAIN t = Names /\ t.holds = s.holds
        BY IdleShape DEF Names
      <4>2. Ask(c, [planned EXCEPT !.from = 0, !.to = 0])
        BY <3>2 DEF AskScan
      <4> HIDE DEF t
      <4>3. Rests(t, planned)
        BY <4>1, PlanRests
      <4> HIDE DEF planned
      <4> QED
        BY <4>1, <4>2, <4>3 DEF Rests, Names
    <3>3. CASE AskCounts(c)
      <4> DEFINE t == [Idle EXCEPT !.kind = "counts", !.stage = "count", !.names = Field,
                                   !.kept = Field, !.holds = client[c].holds]
                 planned == Plan(t, now - Window, now)
      <4>1. DOMAIN t = Names /\ t.holds = s.holds
        BY IdleShape DEF Names
      <4>2. Ask(c, [planned EXCEPT !.from = 0, !.to = 0])
        BY <3>3 DEF AskCounts
      <4> HIDE DEF t
      <4>3. Rests(t, planned)
        BY <4>1, PlanRests
      <4> HIDE DEF planned
      <4> QED
        BY <4>1, <4>2, <4>3 DEF Rests, Names
    <3>4. CASE AskNextPage(c)
      <4> DEFINE t == [client[c] EXCEPT !.stage = "page", !.hurt = FALSE, !.missing = {}]
      <4>1. DOMAIN t = Names /\ t.holds = s.holds
        BY <1>1 DEF Names
      <4>2. Ask(c, Plan(t, WindowOf(t).from, WindowOf(t).to))
        BY <3>4 DEF AskNextPage
      <4> HIDE DEF t
      <4> QED
        BY <4>1, <4>2, PlanRests DEF Rests
    <3> QED
      BY <1>2, <3>1, <3>2, <3>3, <3>4
  <2> QED
    BY AskStep
<1>3. CASE Acquire(c)
  BY <1>3, AcquireStep
<1>4. CASE Fail(c)
  <2> DEFINE t == [Failed(s) EXCEPT !.hurt = @ \/ ~MustFail(s)]
  <2>1. Rests(s, t)
    <3>1. Rests(s, Failed(s))
      BY <1>1, FailedRests
    <3> QED
      BY <3>1 DEF Rests, Names
  <2>2. End(c, t)
    BY <1>4 DEF Fail
  <2> QED
    BY <2>1, <2>2, EndStep
<1>5. CASE Page(c)
  <2> DEFINE rows == [i \in 1 .. Len(Rows(s)) |-> Rows(s)[i][1]]
             page == SubSeq(rows, 1, Min({Len(rows), s.limit}))
             more == Len(rows) > s.limit
  <2>1. PICK missing \in SUBSET ToSet(page) :
          End(c, RestoreNext([s EXCEPT !.page = page, !.missing = missing, !.more = more], {}))
    BY <1>5 DEF Page
  <2> HIDE DEF rows, page, more
  <2> DEFINE t == [s EXCEPT !.page = page, !.missing = missing, !.more = more]
  <2>2. DOMAIN t = Names /\ t.holds = s.holds
    BY <1>1 DEF Names
  <2> HIDE DEF t
  <2>3. Rests(s, RestoreNext(t, {}))
    BY <2>2, RestoreNextRests DEF Rests
  <2> QED
    BY <2>1, <2>3, EndStep DEF t
<1>6. CASE Restore(c)
  <2> DEFINE found == UNION {files[f].records : f \in s.reads}
             t == [s EXCEPT !.missing = @ \ found]
  <2>1. End(c, RestoreNext(t, s.looked \cup s.reads))
    BY <1>6 DEF Restore
  <2> HIDE DEF found
  <2>2. DOMAIN t = Names /\ t.holds = s.holds
    BY <1>1 DEF Names
  <2> HIDE DEF t
  <2>3. Rests(s, RestoreNext(t, s.looked \cup s.reads))
    BY <2>2, RestoreNextRests DEF Rests
  <2> QED
    BY <2>1, <2>3, EndStep
<1>7. CASE Succeed(c)
  <2>1. CASE s.stage = "bind"
    BY <1>1, <1>7, <2>1, BindNextRests, EndStep DEF Succeed
  <2>2. CASE s.stage # "bind"
    BY <1>1, <1>7, <2>2, ReturnRests, EndStep DEF Succeed
  <2> QED
    BY <2>1, <2>2
<1>8. CASE Leave(c)
  <2> DEFINE t == [s EXCEPT !.hurt = TRUE]
  <2>1. DOMAIN t = Names /\ t.holds = s.holds
    BY <1>1 DEF Names
  <2>2. End(c, Return(t, "failed"))
    BY <1>8 DEF Leave
  <2> HIDE DEF t
  <2>3. Rests(s, Return(t, "failed"))
    BY <2>1, ReturnRests DEF Rests
  <2> QED
    BY <2>2, <2>3, EndStep
<1> QED
  BY <1>2, <1>3, <1>4, <1>5, <1>6, <1>7, <1>8 DEF Query

LEMMA InitPermits == Init => IInv
<1> SUFFICES ASSUME Init
             PROVE  IInv
  OBVIOUS
<1>1. Shape
  BY SearchAssumption, IdleShape DEF Init, Shape
<1>2. /\ {c \in Client : client[c].step = "run"} = {}
      /\ \A c \in Client : client[c].step # "run" /\ client[c].holds = 0
  BY IdleShape DEF Init
<1>3. permits = Concurrency - Cardinality({c \in Client : client[c].step = "run"})
  <2>1. Cardinality({c \in Client : client[c].step = "run"}) = 0
    BY <1>2, FS_EmptySet
  <2>2. permits = Concurrency /\ Concurrency \in Nat
    BY SearchAssumption DEF Init
  <2> QED
    BY <2>1, <2>2
<1> QED
  BY <1>1, <1>2, <1>3 DEF IInv, PermitsComeBack

LEMMA NextPermits == IInv /\ [Next]_vars => IInv'
<1> SUFFICES ASSUME IInv, [Next]_vars
             PROVE  IInv'
  OBVIOUS
<1>1. CASE \E c \in Client : Query(c)
  BY <1>1, QueryStep
<1>2. CASE Flush \/ Merge \/ Collect \/ Tick \/ UNCHANGED vars
  <2>1. UNCHANGED <<permits, client>>
    BY <1>2 DEF Flush, Merge, Collect, Tick, Others, vars
  <2> QED
    BY <2>1, QuietStep
<1> QED
  BY <1>1, <1>2 DEF Next

\* However many clients and permits there are, and whatever fails, is retried or is
\* cancelled, the permits nobody holds and those of running statements are all the
\* permits (acquire and query).
THEOREM PermitsAreConserved == Spec => []PermitsComeBack
<1>1. IInv => PermitsComeBack
  BY DEF IInv
<1> QED
  BY <1>1, InitPermits, NextPermits, PTL DEF Spec

FilesFit ==
  /\ seq \in Nat /\ now \in 0 .. MaxNow
  /\ files \in Seq(File)
  /\ \A f \in DOMAIN files : \A r \in files[f].records : r.seq <= seq
  /\ \A f, g \in Live : f # g => files[f].records \cap files[g].records = {}

\* No record is in two of these files.
Apart(plan) == \A f, g \in plan : f # g => files[f].records \cap files[g].records = {}

Ordered(q, asc) == \A i \in 1 .. Len(q) - 1 : Before(q[i], q[i + 1], asc)

LEMMA BeforeIsAnOrder ==
  ASSUME NEW asc \in BOOLEAN
  PROVE  /\ \A a \in Record : ~ Before(a, a, asc)
         /\ \A a, b \in Record : a # b => Before(a, b, asc) \/ Before(b, a, asc)
         /\ \A a, b, c \in Record : Before(a, b, asc) /\ Before(b, c, asc) => Before(a, c, asc)
<1>1. \A a \in Record : a.ts \in Int /\ a.seq \in Int
  BY SearchAssumption DEF Record
<1>2. \A a, b \in Record : a.ts = b.ts /\ a.seq = b.seq => a = b
  BY DEF Record
<1>3. \A a \in Record : ~ Before(a, a, asc)
  BY <1>1 DEF Before
<1>4. \A a, b \in Record : a # b => Before(a, b, asc) \/ Before(b, a, asc)
  <2>1. TAKE a, b \in Record
  <2>2. HAVE a # b
  <2>3. a.ts # b.ts \/ a.seq # b.seq
    BY <1>2, <2>2
  <2> QED
    BY <1>1, <2>3 DEF Before
<1>5. ASSUME NEW a \in Record, NEW b \in Record, NEW c \in Record,
             Before(a, b, asc), Before(b, c, asc)
      PROVE  Before(a, c, asc)
  BY <1>1, <1>5 DEF Before
<1> QED
  BY <1>3, <1>4, <1>5

LEMMA RecordsAreFinite == IsFiniteSet(Record)
<1> DEFINE P == (1 .. MaxSeq) \X (0 .. MaxNow)
           g == [p \in P |-> [seq |-> p[1], ts |-> p[2]]]
<1>1. IsFiniteSet(1 .. MaxSeq) /\ IsFiniteSet(0 .. MaxNow)
  BY SearchAssumption, FS_Interval
<1>2. IsFiniteSet(P)
  BY <1>1, FS_Product
<1>3. ASSUME NEW r \in Record PROVE \E p \in P : g[p] = r
  <2>1. <<r.seq, r.ts>> \in P /\ r = [seq |-> r.seq, ts |-> r.ts]
    BY DEF Record
  <2>2. g[<<r.seq, r.ts>>] = [seq |-> r.seq, ts |-> r.ts]
    BY <2>1
  <2> QED
    BY <2>1, <2>2
<1>4. g \in [P -> Record]
  BY DEF Record
<1>5. g \in Surjection(P, Record)
  BY <1>3, <1>4 DEF Surjection
<1> QED
  BY <1>2, <1>5, FS_Surjection

LEMMA FilesAreFinite ==
  ASSUME FilesFit
  PROVE  /\ DOMAIN files = 1 .. Len(files) /\ Len(files) \in Nat /\ IsFiniteSet(DOMAIN files)
         /\ \A f \in DOMAIN files : /\ files[f] \in File /\ files[f].records \subseteq Record
                                    /\ IsFiniteSet(files[f].records)
<1>1. DOMAIN files = 1 .. Len(files) /\ Len(files) \in Nat
  BY LenProperties DEF FilesFit
<1>2. \A f \in DOMAIN files : files[f] \in File
  BY <1>1, ElementOfSeq DEF FilesFit
<1>3. IsFiniteSet(DOMAIN files)
  BY <1>1, FS_Interval
<1>4. \A f \in DOMAIN files : files[f].records \subseteq Record
  BY <1>2 DEF File
<1> QED
  BY <1>1, <1>2, <1>3, <1>4, RecordsAreFinite, FS_Subset

LEMMA MatchingIs ==
  ASSUME FilesFit, NEW s, s.plan \subseteq DOMAIN files
  PROVE  /\ IsFiniteSet(Matching(s))
         /\ \A row \in Matching(s) : row[1] \in Record /\ row[2] \in Int
         /\ \A a, b \in Matching(s) : a[1] = b[1] /\ a[2] = b[2] => a = b
<1>1. IsFiniteSet(s.plan)
  BY FilesAreFinite, FS_Subset
<1>2. IsFiniteSet(Record \X s.plan)
  BY <1>1, RecordsAreFinite, FS_Product
<1>3. Matching(s) \subseteq Record \X s.plan
  BY DEF Matching
<1>4. IsFiniteSet(Matching(s))
  BY <1>2, <1>3, FS_Subset
<1>5. s.plan \subseteq Int
  BY FilesAreFinite
<1> QED
  BY <1>3, <1>4, <1>5

\* The rows a statement returns are those that match, in order.
LEMMA RowsAre ==
  ASSUME FilesFit, NEW s, s.plan \subseteq DOMAIN files, s.asc \in BOOLEAN
  PROVE  /\ Rows(s) \in Seq(Matching(s)) /\ Len(Rows(s)) \in Nat
         /\ \A i \in 1 .. Len(Rows(s)) : Rows(s)[i] \in Matching(s)
         /\ \A row \in Matching(s) : \E i \in 1 .. Len(Rows(s)) : Rows(s)[i] = row
         /\ \A i, j \in 1 .. Len(Rows(s)) : i < j => Rows(s)[i] \in Ahead(Rows(s)[j], s)
<1> DEFINE S == Matching(s)
           ahead == [row \in S |-> Ahead(row, s)]
           key == [row \in S |-> Cardinality(Ahead(row, s))]
<1>1. /\ IsFiniteSet(S)
      /\ \A row \in S : row[1] \in Record /\ row[2] \in Int
      /\ \A a, b \in S : a[1] = b[1] /\ a[2] = b[2] => a = b
  BY MatchingIs
<1>2. \A a, b \in S : a \in Ahead(b, s) <=>
                        \/ Before(a[1], b[1], s.asc)
                        \/ (a[1] = b[1] /\ a[2] < b[2])
  BY DEF Ahead
<1>3. \A x \in S : Ahead(x, s) \subseteq S
  BY DEF Ahead
<1> HIDE DEF S
<1>4. \A x \in S : x \notin Ahead(x, s)
  BY <1>1, <1>2, BeforeIsAnOrder
<1>5. \A x, y \in S : x # y => x \in Ahead(y, s) \/ y \in Ahead(x, s)
  <2>1. TAKE x, y \in S
  <2>2. HAVE x # y
  <2>3. CASE x[1] = y[1]
    <3>1. x[2] # y[2] /\ x[2] \in Int /\ y[2] \in Int
      BY <1>1, <2>2, <2>3
    <3>2. x[2] < y[2] \/ y[2] < x[2]
      BY <3>1
    <3> QED
      BY <1>2, <2>3, <3>2
  <2>4. CASE x[1] # y[1]
    BY <1>1, <1>2, <2>4, BeforeIsAnOrder
  <2> QED
    BY <2>3, <2>4
<1>6. ASSUME NEW x \in S, NEW y \in S, x \in Ahead(y, s), NEW z \in Ahead(x, s)
      PROVE  z \in Ahead(y, s)
  <2>1. z \in S
    BY <1>3
  <2>2. \/ Before(x[1], y[1], s.asc)
        \/ (x[1] = y[1] /\ x[2] < y[2])
    BY <1>2, <1>6
  <2>3. \/ Before(z[1], x[1], s.asc)
        \/ (z[1] = x[1] /\ z[2] < x[2])
    BY <1>2, <1>6, <2>1
  <2>4. /\ x[1] \in Record /\ y[1] \in Record /\ z[1] \in Record
        /\ x[2] \in Int /\ y[2] \in Int /\ z[2] \in Int
    BY <1>1, <2>1
  <2>5. \/ Before(z[1], y[1], s.asc)
        \/ (z[1] = y[1] /\ z[2] < y[2])
    <3>1. CASE Before(x[1], y[1], s.asc) /\ Before(z[1], x[1], s.asc)
      BY <2>4, <3>1, BeforeIsAnOrder
    <3>2. CASE Before(x[1], y[1], s.asc) /\ z[1] = x[1]
      BY <3>2
    <3>3. CASE x[1] = y[1] /\ Before(z[1], x[1], s.asc)
      BY <3>3
    <3>4. CASE x[1] = y[1] /\ x[2] < y[2] /\ z[1] = x[1] /\ z[2] < x[2]
      BY <2>4, <3>4
    <3> QED
      BY <2>2, <2>3, <3>1, <3>2, <3>3, <3>4
  <2> QED
    BY <1>2, <2>1, <2>5
<1>7. /\ ahead \in [S -> SUBSET S]
      /\ \A x \in S : ahead[x] = Ahead(x, s)
      /\ key = [x \in S |-> Cardinality(ahead[x])]
  BY <1>3
<1> HIDE DEF ahead, key
<1>8. /\ key \in [S -> Int]
      /\ \A x, y \in S : key[x] = key[y] => x = y
      /\ \A x, y \in S : key[x] < key[y] => x \in ahead[y]
  <2>1. \A x \in S : x \notin ahead[x]
    BY <1>4, <1>7
  <2>2. \A x, y \in S : x # y => x \in ahead[y] \/ y \in ahead[x]
    BY <1>5, <1>7
  <2>3. \A x, y \in S : x \in ahead[y] => ahead[x] \subseteq ahead[y]
    BY <1>6, <1>7
  <2> QED
    BY <1>1, <1>7, <2>1, <2>2, <2>3, RankIs
<1>9. Rows(s) = SortedBy(S, key)
  BY DEF Rows, S, key
<1>10. /\ Rows(s) \in Seq(S) /\ ToSet(Rows(s)) = S
       /\ \A i, j \in 1 .. Len(Rows(s)) : i < j => key[Rows(s)[i]] < key[Rows(s)[j]]
  BY <1>1, <1>8, <1>9, SortedByIs
<1>11. Len(Rows(s)) \in Nat /\ \A i \in 1 .. Len(Rows(s)) : Rows(s)[i] \in S
  BY <1>10, LenProperties, ElementOfSeq
<1>12. \A row \in S : \E i \in 1 .. Len(Rows(s)) : Rows(s)[i] = row
  BY <1>10, ToSetIs
<1>13. \A i, j \in 1 .. Len(Rows(s)) : i < j => Rows(s)[i] \in Ahead(Rows(s)[j], s)
  <2>1. TAKE i, j \in 1 .. Len(Rows(s))
  <2>2. HAVE i < j
  <2>3. Rows(s)[i] \in S /\ Rows(s)[j] \in S /\ key[Rows(s)[i]] < key[Rows(s)[j]]
    BY <1>10, <1>11, <2>2
  <2>4. Rows(s)[i] \in ahead[Rows(s)[j]]
    BY <1>8, <2>3
  <2> QED
    BY <1>7, <2>3, <2>4
<1> QED
  BY <1>10, <1>11, <1>12, <1>13 DEF S

(* What may become of the files between two steps of a request. *)

Ages ==
  /\ seq <= seq' /\ now <= now' /\ client' = client
  /\ DOMAIN files \subseteq DOMAIN files'
  /\ \A f \in DOMAIN files :
       \/ files'[f] = files[f]
       \/ /\ files[f].state = "live" /\ files'[f].state = "tombstoned"
          /\ files'[f].at = now /\ files'[f].records = files[f].records
       \/ files[f].state = "tombstoned" /\ files[f].at + Grace <= now /\ files'[f] = Gone
  /\ \A r \in Queryable' : r \in Queryable \/ r.seq > seq

LEMMA GrowsFiles ==
  ASSUME NEW q \in Seq(File), NEW R \in SUBSET Record
  PROVE  /\ Append(q, NewFile(R)) \in Seq(File)
         /\ Len(q) \in Nat /\ Len(Append(q, NewFile(R))) = Len(q) + 1
         /\ DOMAIN q = 1 .. Len(q) /\ DOMAIN Append(q, NewFile(R)) = (1 .. Len(q)) \cup {Len(q) + 1}
         /\ \A f \in 1 .. Len(q) : Append(q, NewFile(R))[f] = q[f]
         /\ Append(q, NewFile(R))[Len(q) + 1] = NewFile(R)
         /\ NewFile(R).records = R /\ NewFile(R).state = "live"
<1>1. NewFile(R) \in File
  <2>1. 0 \in 0 .. MaxNow
    BY SearchAssumption
  <2> QED
    BY <2>1 DEF NewFile, File
<1>2. DOMAIN q = 1 .. Len(q) /\ Len(q) \in Nat
  BY LenProperties
<1>3. /\ Append(q, NewFile(R)) \in Seq(File) /\ Len(Append(q, NewFile(R))) = Len(q) + 1
      /\ \A f \in 1 .. Len(q) : Append(q, NewFile(R))[f] = q[f]
      /\ Append(q, NewFile(R))[Len(q) + 1] = NewFile(R)
  BY <1>1, AppendProperties
<1>4. DOMAIN Append(q, NewFile(R)) = (1 .. Len(q)) \cup {Len(q) + 1}
  <2>1. DOMAIN Append(q, NewFile(R)) = 1 .. Len(q) + 1
    BY <1>3, LenProperties
  <2> QED
    BY <1>2, <2>1
<1> QED
  BY <1>2, <1>3, <1>4 DEF NewFile

LEMMA FlushFiles ==
  ASSUME FilesFit, Flush
  PROVE  FilesFit' /\ Ages
<1>0. PICK n \in 1 .. BatchSize : \E ts \in [1 .. n -> 0 .. now] :
         /\ seq + n <= MaxSeq /\ seq' = seq + n
         /\ files' = Append(files, NewFile({[seq |-> seq + i, ts |-> ts[i]] : i \in 1 .. n}))
  BY DEF Flush
<1>1. PICK ts \in [1 .. n -> 0 .. now] :
         /\ seq + n <= MaxSeq /\ seq' = seq + n
         /\ files' = Append(files, NewFile({[seq |-> seq + i, ts |-> ts[i]] : i \in 1 .. n}))
  BY <1>0
<1> DEFINE R == {[seq |-> seq + i, ts |-> ts[i]] : i \in 1 .. n}
           m == Len(files) + 1
<1>2. now' = now /\ client' = client
  BY DEF Flush, Others
<1>3. seq \in Nat /\ now \in Nat /\ now <= MaxNow /\ n \in Nat /\ seq' \in Nat /\ seq <= seq'
  BY <1>1, SearchAssumption DEF FilesFit
<1>4. \A r \in R : r \in Record /\ r.seq > seq /\ r.seq <= seq'
  <2>1. ASSUME NEW i \in 1 .. n
        PROVE  /\ [seq |-> seq + i, ts |-> ts[i]] \in Record
               /\ seq + i > seq /\ seq + i <= seq'
    <3>1. seq + i \in 1 .. MaxSeq /\ seq + i > seq /\ seq + i <= seq'
      BY <1>1, <1>3, SearchAssumption
    <3>2. ts[i] \in 0 .. MaxNow
      BY <1>3, SearchAssumption
    <3> QED
      BY <3>1, <3>2 DEF Record
  <2> QED
    BY <2>1
<1>5. files' = Append(files, NewFile(R)) /\ R \in SUBSET Record
  BY <1>1, <1>4
<1> HIDE DEF R
<1>6. /\ files' \in Seq(File) /\ Len(files) \in Nat /\ m \notin DOMAIN files
      /\ DOMAIN files = 1 .. Len(files) /\ DOMAIN files' = DOMAIN files \cup {m}
      /\ \A f \in DOMAIN files : files'[f] = files[f]
      /\ files'[m] = NewFile(R) /\ files'[m].records = R /\ files'[m].state = "live"
  BY <1>5, GrowsFiles DEF FilesFit
<1> HIDE DEF m
<1>7. Live' = Live \cup {m}
  BY <1>6 DEF Live
<1>8. \A f \in DOMAIN files' : \A r \in files'[f].records : r.seq <= seq'
  <2>1. ASSUME NEW f \in DOMAIN files, NEW r \in files[f].records PROVE r.seq <= seq'
    <3>1. r.seq <= seq /\ r.seq \in Int
      BY FilesAreFinite DEF FilesFit, Record
    <3> QED
      BY <1>3, <3>1
  <2> QED
    BY <1>4, <1>6, <2>1
<1>9. \A f \in Live : \A r \in R : r \notin files[f].records
  <2>1. TAKE f \in Live
  <2>2. TAKE r \in R
  <2>3. f \in DOMAIN files
    BY DEF Live
  <2>4. r.seq \in Int /\ r.seq > seq
    BY <1>4 DEF Record
  <2>5. ~ (r.seq <= seq)
    BY <1>3, <2>4
  <2> QED
    BY <2>3, <2>5 DEF FilesFit
<1>10. ASSUME NEW f \in Live', NEW g \in Live', f # g
       PROVE  files'[f].records \cap files'[g].records = {}
  <2>1. \A h \in Live : h \in DOMAIN files /\ files'[h] = files[h]
    BY <1>6 DEF Live
  <2>2. CASE f \in Live /\ g \in Live
    BY <1>10, <2>1, <2>2 DEF FilesFit
  <2>3. CASE f = m /\ g \in Live
    BY <1>6, <1>9, <2>1, <2>3
  <2>4. CASE f \in Live /\ g = m
    BY <1>6, <1>9, <2>1, <2>4
  <2> QED
    BY <1>7, <1>10, <2>2, <2>3, <2>4
<1>11. ASSUME NEW r \in Queryable' PROVE r \in Queryable \/ r.seq > seq
  <2>1. PICK f \in Live' : r \in files'[f].records
    BY DEF Queryable
  <2>2. CASE f = m
    BY <1>4, <1>6, <2>1, <2>2
  <2>3. CASE f \in Live
    BY <1>6, <2>1, <2>3 DEF Queryable, Live
  <2> QED
    BY <1>7, <2>2, <2>3
<1>12. FilesFit'
  BY <1>2, <1>3, <1>6, <1>8, <1>10 DEF FilesFit
<1>13. Ages
  BY <1>2, <1>3, <1>6, <1>11 DEF Ages
<1> QED
  BY <1>12, <1>13

LEMMA TickFiles ==
  ASSUME FilesFit, Tick
  PROVE  FilesFit' /\ Ages
<1>1. now' = now + 1 /\ seq' = seq /\ files' = files /\ client' = client /\ now < MaxNow
  BY DEF Tick, Others
<1>2. seq \in Nat /\ now \in Nat /\ now' \in 0 .. MaxNow /\ now <= now' /\ seq <= seq'
  BY <1>1, SearchAssumption DEF FilesFit
<1>3. Live' = Live /\ Queryable' = Queryable
  BY <1>1 DEF Live, Queryable
<1> QED
  BY <1>1, <1>2, <1>3 DEF FilesFit, Ages

LEMMA CollectFiles ==
  ASSUME FilesFit, Collect
  PROVE  FilesFit' /\ Ages
<1>1. PICK f \in DOMAIN files : /\ files[f].state = "tombstoned" /\ files[f].at + Grace <= now
                                /\ files' = [files EXCEPT ![f] = Gone]
  BY DEF Collect
<1>2. now' = now /\ seq' = seq /\ client' = client
  BY DEF Collect, Others
<1>3. Gone \in File /\ Gone.state = "gone" /\ Gone.records = {}
  BY SearchAssumption DEF Gone, File
<1>4. /\ files' \in Seq(File) /\ DOMAIN files' = DOMAIN files
      /\ files'[f] = Gone /\ \A g \in DOMAIN files : g # f => files'[g] = files[g]
  <2>1. files' \in Seq(File)
    BY <1>1, <1>3, ExceptSeq, FilesAreFinite DEF FilesFit
  <2> QED
    BY <1>1, <2>1
<1>5. seq \in Nat /\ now \in Nat
  BY SearchAssumption DEF FilesFit
<1>6. Live' = Live /\ f \notin Live
  BY <1>1, <1>3, <1>4 DEF Live
<1>7. \A g \in Live : files'[g] = files[g]
  BY <1>4, <1>6 DEF Live
<1>8. Queryable' = Queryable
  BY <1>6, <1>7 DEF Queryable
<1>9. \A g \in DOMAIN files' : \A r \in files'[g].records : r.seq <= seq'
  BY <1>2, <1>3, <1>4 DEF FilesFit
<1>10. \A g, h \in Live' : g # h => files'[g].records \cap files'[h].records = {}
  BY <1>6, <1>7 DEF FilesFit
<1>11. FilesFit'
  BY <1>2, <1>4, <1>9, <1>10 DEF FilesFit
<1>12. Ages
  <2>1. seq <= seq' /\ now <= now'
    BY <1>2, <1>5
  <2>2. \A g \in DOMAIN files :
          \/ files'[g] = files[g]
          \/ files[g].state = "tombstoned" /\ files[g].at + Grace <= now /\ files'[g] = Gone
    BY <1>1, <1>4
  <2> QED
    BY <1>2, <1>4, <1>8, <2>1, <2>2 DEF Ages
<1> QED
  BY <1>11, <1>12

LEMMA MergeFiles ==
  ASSUME FilesFit, Merge
  PROVE  FilesFit' /\ Ages
<1>1. PICK F \in SUBSET Live, horizon \in 0 .. now + 1 :
       LET all == UNION {files[f].records : f \in F}
           kept == {r \in all : r.ts >= horizon}
       IN  IF kept = {} THEN files' = Retired(F)
           ELSE Len(files) < MaxFiles /\ files' = Append(Retired(F), NewFile(kept))
  BY DEF Merge
<1> DEFINE all == UNION {files[f].records : f \in F}
           R == {r \in all : r.ts >= horizon}
           q == Retired(F)
           m == Len(files) + 1
<1>2. now' = now /\ seq' = seq /\ client' = client
  BY DEF Merge, Others
<1>3. /\ DOMAIN files = 1 .. Len(files) /\ Len(files) \in Nat
      /\ \A f \in DOMAIN files : files[f] \in File /\ files[f].records \subseteq Record
  BY FilesAreFinite
<1>4. F \subseteq DOMAIN files /\ \A f \in F : files[f].state = "live"
  BY DEF Live
<1>5. now \in 0 .. MaxNow /\ now \in Nat /\ seq \in Nat
  BY SearchAssumption DEF FilesFit
<1>6. /\ DOMAIN q = DOMAIN files
      /\ \A f \in DOMAIN files \ F : q[f] = files[f]
      /\ \A f \in F : /\ q[f].state = "tombstoned" /\ q[f].at = now
                      /\ q[f].records = files[f].records
      /\ \A f \in DOMAIN files : q[f] \in File
  <2>1. DOMAIN q = DOMAIN files /\ \A f \in DOMAIN files \ F : q[f] = files[f]
    BY DEF Retired
  <2>2. ASSUME NEW f \in F
        PROVE  /\ q[f].state = "tombstoned" /\ q[f].at = now
               /\ q[f].records = files[f].records /\ q[f] \in File
    <3>1. q[f] = [files[f] EXCEPT !.state = "tombstoned", !.at = now]
      BY <1>4 DEF Retired
    <3>2. files[f] \in File
      BY <1>3, <1>4
    <3> QED
      BY <1>5, <3>1, <3>2 DEF File
  <2> QED
    BY <1>3, <2>1, <2>2
<1>7. q \in Seq(File) /\ Len(q) = Len(files)
  <2>1. q = [f \in 1 .. Len(files) |-> q[f]]
    BY <1>3, <1>6 DEF Retired
  <2>2. q \in [1 .. Len(files) -> File]
    BY <1>3, <1>6, <2>1
  <2> QED
    BY <1>3, <2>2
<1>8. R \in SUBSET Record /\ (\A r \in R : r.seq <= seq) /\ R \subseteq Queryable
      /\ \A g \in Live \ F : files[g].records \cap R = {}
  <2>1. ASSUME NEW r \in R
        PROVE  r \in Record /\ r.seq <= seq /\ r \in Queryable
               /\ \A g \in Live \ F : r \notin files[g].records
    <3>1. PICK f \in F : r \in files[f].records
      OBVIOUS
    <3>2. f \in Live /\ f \in DOMAIN files
      BY <1>4
    <3>3. r \in Record /\ r.seq <= seq
      BY <1>3, <3>1, <3>2 DEF FilesFit
    <3>4. r \in Queryable
      BY <3>1, <3>2 DEF Queryable
    <3>5. \A g \in Live \ F : r \notin files[g].records
      BY <3>1, <3>2 DEF FilesFit
    <3> QED
      BY <3>3, <3>4, <3>5
  <2> HIDE DEF R
  <2> QED
    BY <2>1
<1>9. \/ files' = q
      \/ files' = Append(q, NewFile(R))
  BY <1>1
<1> HIDE DEF all, R, q
<1>10. /\ files' \in Seq(File)
       /\ DOMAIN files \subseteq DOMAIN files' /\ \A f \in DOMAIN files : files'[f] = q[f]
       /\ \A f \in DOMAIN files' \ DOMAIN files :
            f = m /\ files'[f].records = R /\ files'[f].state = "live"
  <2>1. CASE files' = q
    BY <1>6, <1>7, <2>1
  <2>2. CASE files' = Append(q, NewFile(R))
    BY <1>3, <1>7, <1>8, <2>2, GrowsFiles
  <2> QED
    BY <1>9, <2>1, <2>2
<1> HIDE DEF m
<1>11. \A f \in Live' : \/ f \in Live \ F /\ files'[f] = files[f]
                        \/ f = m /\ f \notin Live /\ files'[f].records = R
  <2>1. TAKE f \in Live'
  <2>2. f \in DOMAIN files' /\ files'[f].state = "live"
    BY DEF Live
  <2>3. CASE f \in F
    <3>1. files'[f].state = "tombstoned"
      BY <1>4, <1>6, <1>10, <2>3
    <3> QED
      BY <2>2, <3>1
  <2>4. CASE f \in DOMAIN files \ F
    BY <1>6, <1>10, <2>2, <2>4 DEF Live
  <2> QED
    BY <1>10, <2>2, <2>3, <2>4 DEF Live
<1>12. \A f \in DOMAIN files' : \A r \in files'[f].records : r.seq <= seq'
  <2>1. \A f \in DOMAIN files : files'[f].records = files[f].records
    BY <1>6, <1>10
  <2>2. \A f \in DOMAIN files' \ DOMAIN files : files'[f].records = R
    BY <1>10
  <2> QED
    BY <1>2, <1>8, <2>1, <2>2 DEF FilesFit
<1>13. ASSUME NEW f \in Live', NEW g \in Live', f # g
       PROVE  files'[f].records \cap files'[g].records = {}
  <2>1. CASE f \in Live /\ g \in Live
    <3>1. files'[f] = files[f] /\ files'[g] = files[g]
      BY <1>11, <2>1
    <3> QED
      BY <1>13, <2>1, <3>1 DEF FilesFit
  <2>2. CASE f \notin Live /\ g \in Live
    <3>1. files'[f].records = R /\ files'[g] = files[g] /\ g \in Live \ F
      BY <1>11, <2>2
    <3> QED
      BY <1>8, <3>1
  <2>3. CASE f \in Live /\ g \notin Live
    <3>1. files'[f] = files[f] /\ files'[g].records = R /\ f \in Live \ F
      BY <1>11, <2>3
    <3> QED
      BY <1>8, <3>1
  <2> QED
    BY <1>11, <1>13, <2>1, <2>2, <2>3
<1>14. Queryable' \subseteq Queryable
  <2>1. ASSUME NEW r \in Queryable' PROVE r \in Queryable
    <3>1. PICK f \in Live' : r \in files'[f].records
      BY DEF Queryable
    <3> QED
      BY <1>8, <1>11, <3>1 DEF Queryable
  <2> QED
    BY <2>1
<1>15. FilesFit'
  BY <1>2, <1>5, <1>10, <1>12, <1>13 DEF FilesFit
<1>16. Ages
  <2>1. seq <= seq' /\ now <= now'
    BY <1>2, <1>5
  <2>2. \A f \in DOMAIN files :
          \/ files'[f] = files[f]
          \/ /\ files[f].state = "live" /\ files'[f].state = "tombstoned"
             /\ files'[f].at = now /\ files'[f].records = files[f].records
    BY <1>4, <1>6, <1>10
  <2> QED
    BY <1>2, <1>10, <1>14, <2>1, <2>2 DEF Ages
<1> QED
  BY <1>15, <1>16

------------------------------------------------------------------------------
(* What is known of a request. *)

Fits(s) ==
  /\ s.step \in {"wait", "run", "page", "answered", "failed"}
  /\ s.kind \in {"search", "scan", "counts"}
  /\ s.hurt \in BOOLEAN /\ s.asc \in BOOLEAN /\ s.more \in BOOLEAN
  /\ s.since \in Nat /\ s.since <= now /\ s.from \in Int /\ s.to \in Int
  /\ s.limit \in Nat \ {0}
  /\ s.plan \subseteq DOMAIN files /\ s.reads \subseteq s.plan
  /\ s.cursor \in Record \cup {NoCursor}
  /\ s.page \in Seq(Record) /\ s.shown \in Seq(Record)
  /\ s.missing \subseteq Record /\ s.due \subseteq Record

\* Its plan may name a file whose object is gone, or it has been marked for failing.
Late(s) == now >= s.since + Grace

MayFail(s) == s.hurt \/ Late(s)

\* A file of the plan is as the plan found it, or retired since.
PlanKept(s) ==
  \A f \in s.plan : \/ Late(s) \/ files[f].state = "live"
                    \/ files[f].state = "tombstoned" /\ files[f].at >= s.since

\* A record that lacks its fields is in a file yet to be looked at.
FieldsAhead(s) == \A r \in s.missing : \E f \in s.plan \ s.looked : r \in files[f].records

\* How far a request has come, where it cannot fail but by itself.
Going(s) ==
  /\ s.kind = "search" => s.stage \in {"page", "restore"}
  /\ s.kind = "scan" => s.stage = "scan"
  /\ s.kind = "counts" => s.stage \in {"count", "bind", "recount"}
  /\ s.stage = "page" => s.reads = s.plan
  /\ PlanKept(s)
  /\ s.stage = "count" => s.kept = s.names
  /\ s.stage = "bind" => /\ s.toBind # {} /\ s.toBind \subseteq s.names
                         /\ \/ MayFail(s)
                            \/ s.names \cap Odd # {} /\ s.kept = (s.names \ s.toBind) \ Odd
  /\ s.stage = "recount" => MayFail(s) \/ s.kept = s.names \ Odd
  /\ s.stage = "restore" => MayFail(s) \/ FieldsAhead(s)

\* Why it comes to rest as it does.
ExplainedAt(s, step) ==
  \/ s.hurt
  \/ /\ step = "failed" => s.kind = "counts" /\ s.names \subseteq Odd
     /\ s.kind = "counts" /\ step = "answered" => s.kept = s.names \ Odd
     /\ s.kind = "search" /\ step \in {"page", "answered"} => s.missing = {}

Explained(s) == ExplainedAt(s, s.step)

\* The records it has yet to show, of those it was to show, unless they are behind
\* the cursor.
Owed(s) == {r \in s.due : r \in Queryable /\ r \notin ToSet(s.shown)}

PagesAt(s, step) ==
  /\ Ordered(s.shown, s.asc)
  /\ step = "answered" => Owed(s) = {}
  /\ step # "answered" => /\ s.cursor = IF s.shown = <<>> THEN NoCursor ELSE Last(s.shown)
                          /\ \A r \in Owed(s) : Behind(r, s)
  /\ step = "page" => s.shown # <<>>
  /\ s.cursor = NoCursor \/ \A r \in s.due : InWindow(r, s)
  /\ \A r \in s.due : r.seq <= seq

Pages(s) == PagesAt(s, s.step)

\* The page asked for will hold, or holds, what comes next of the records owed.
Turning(s) ==
  /\ Apart(s.plan)
  /\ \A r \in s.due : InWindow(r, s)
  /\ s.stage = "page" =>
       \A r \in Owed(s) : \E f \in s.plan : files[f].state = "gone" \/ r \in files[f].records
  /\ s.stage = "restore" =>
       /\ Ordered(s.page, s.asc)
       /\ \A i \in 1 .. Len(s.page) : Behind(s.page[i], s)
       /\ s.more => s.page # <<>>
       /\ \A r \in Owed(s) : \/ r \in ToSet(s.page)
                             \/ s.more /\ Before(Last(s.page), r, s.asc)

Knows(s) ==
  /\ DOMAIN s = Names /\ Fits(s)
  /\ s.cursor # NoCursor => s.kind = "search"
  /\ s.step = "page" => s.kind = "search"
  /\ AtRest(s) => Explained(s)
  /\ ~AtRest(s) => Going(s)
  /\ s.kind = "search" => Pages(s)
  /\ s.kind = "search" /\ ~AtRest(s) => Turning(s)

SearchInv == FilesFit /\ \A c \in Client : Knows(client[c])

------------------------------------------------------------------------------

LEMMA AgedFile ==
  ASSUME FilesFit, Ages, NEW f \in DOMAIN files
  PROVE  /\ files'[f].records \subseteq files[f].records
         /\ files'[f].state = "gone" \/ files'[f].records = files[f].records
         /\ files[f].state = "gone" => files'[f].state = "gone"
<1>1. Gone.records = {} /\ Gone.state = "gone"
  BY DEF Gone
<1>2. CASE files'[f] = files[f]
  BY <1>2
<1>3. CASE files[f].state = "live" /\ files'[f].records = files[f].records
  BY <1>3
<1>4. CASE files[f].state = "tombstoned" /\ files'[f] = Gone
  BY <1>1, <1>4
<1> QED
  BY <1>2, <1>3, <1>4 DEF Ages

\* The storage engine, whatever it does, leaves a request knowing what it did.
LEMMA AgesKnows ==
  ASSUME FilesFit, Ages, FilesFit', NEW c \in Client, Knows(client[c])
  PROVE  Knows(client[c])'
<1> DEFINE s == client[c]
<1>1. client' = client
  BY DEF Ages
<1>2. /\ now \in Nat /\ now' \in Nat /\ now <= now' /\ seq \in Nat /\ seq' \in Nat /\ seq <= seq'
      /\ Grace \in Nat \ {0} /\ s.since \in Nat /\ s.since <= now
  <2>1. now \in Nat /\ seq \in Nat /\ now' \in Nat /\ seq' \in Nat
    BY SearchAssumption DEF FilesFit
  <2>2. now <= now' /\ seq <= seq'
    BY DEF Ages
  <2>3. s.since \in Nat /\ s.since <= now
    BY DEF Knows, Fits
  <2> QED
    BY <2>1, <2>2, <2>3, SearchAssumption
<1>3. Late(s) => Late(s)'
  BY <1>1, <1>2 DEF Late
<1>4. MayFail(s) => MayFail(s)'
  BY <1>1, <1>3 DEF MayFail
<1>5. AtRest(s)' <=> AtRest(s)
  BY <1>1 DEF AtRest
<1>6. Fits(s)'
  <2>1. s.plan \subseteq DOMAIN files'
    BY DEF Knows, Fits, Ages
  <2>2. s.since <= now'
    BY <1>2
  <2> QED
    BY <1>1, <2>1, <2>2 DEF Knows, Fits
<1>7. Explained(s)' <=> Explained(s)
  BY <1>1 DEF Explained, ExplainedAt
<1>8. s.plan \subseteq DOMAIN files
  BY DEF Knows, Fits
<1>9. ASSUME NEW f \in s.plan, Going(s)
      PROVE  /\ \/ Late(s)' \/ files'[f].state = "live"
                \/ files'[f].state = "tombstoned" /\ files'[f].at >= s.since
             /\ Late(s)' \/ files'[f].records = files[f].records
  <2>1. f \in DOMAIN files /\ files[f] \in File
    BY <1>8, FilesAreFinite
  <2>2. \/ Late(s) \/ files[f].state = "live"
        \/ files[f].state = "tombstoned" /\ files[f].at >= s.since
    BY <1>9 DEF Going, PlanKept
  <2>3. CASE Late(s)
    BY <1>3, <2>3
  <2>4. CASE ~Late(s) /\ files'[f] = files[f]
    BY <2>2, <2>4
  <2>5. CASE files[f].state = "live" /\ files'[f].state = "tombstoned"
               /\ files'[f].at = now /\ files'[f].records = files[f].records
    BY <1>2, <2>5
  <2>6. CASE ~Late(s) /\ files[f].state = "tombstoned" /\ files[f].at + Grace <= now
    <3>1. files[f].at >= s.since /\ files[f].at \in Nat
      BY <2>1, <2>2, <2>6, SearchAssumption DEF File
    <3>2. now >= s.since + Grace
      BY <1>2, <2>6, <3>1
    <3> QED
      BY <2>6, <3>2 DEF Late
  <2> QED
    BY <2>1, <2>3, <2>4, <2>5, <2>6 DEF Ages
<1>10. Going(s) => Going(s)'
  <2> SUFFICES ASSUME Going(s) PROVE Going(s)'
    OBVIOUS
  <2>1. PlanKept(s)'
    BY <1>1, <1>9 DEF PlanKept
  <2>2. MayFail(s) \/ FieldsAhead(s) => MayFail(s)' \/ FieldsAhead(s)'
    <3>1. CASE Late(s)' \/ MayFail(s)
      BY <1>4, <3>1 DEF MayFail
    <3>2. CASE ~Late(s)' /\ FieldsAhead(s)
      BY <1>1, <1>9, <3>2 DEF FieldsAhead
    <3> QED
      BY <3>1, <3>2
  <2> QED
    BY <1>1, <1>4, <2>1, <2>2 DEF Going
<1>11. s.kind = "search" => Pages(s) /\ \A r \in s.due : r.seq <= seq /\ r \in Record
  BY DEF Knows, Pages, PagesAt, Fits
<1>12. s.kind = "search" => Owed(s)' \subseteq Owed(s)
  <2>1. ASSUME s.kind = "search", NEW r \in s.due, r \in Queryable'
        PROVE  r \in Queryable
    <3>1. r.seq \in Int /\ ~ (r.seq > seq)
      BY <1>2, <1>11, <2>1 DEF Record
    <3> QED
      BY <2>1, <3>1 DEF Ages
  <2> QED
    BY <1>1, <2>1 DEF Owed
<1>13. s.kind = "search" => Pages(s)'
  <2> SUFFICES ASSUME s.kind = "search" PROVE Pages(s)'
    OBVIOUS
  <2>1. /\ Ordered(s.shown, s.asc)' <=> Ordered(s.shown, s.asc)
        /\ \A r : Behind(r, s)' <=> Behind(r, s)
        /\ \A r : InWindow(r, s)' <=> InWindow(r, s)
    BY <1>1 DEF Ordered, Behind, Before, InWindow
  <2>2. \A r \in s.due : r.seq <= seq'
    <3>1. \A r \in s.due : r.seq \in Int /\ r.seq <= seq
      BY <1>11 DEF Record
    <3> QED
      BY <1>2, <3>1
  <2> QED
    BY <1>1, <1>11, <1>12, <2>1, <2>2 DEF Pages, PagesAt
<1>14. s.kind = "search" /\ Turning(s) => Turning(s)'
  <2> SUFFICES ASSUME s.kind = "search", Turning(s) PROVE Turning(s)'
    OBVIOUS
  <2>1. /\ Ordered(s.page, s.asc)' <=> Ordered(s.page, s.asc)
        /\ \A r : Behind(r, s)' <=> Behind(r, s)
        /\ \A r : InWindow(r, s)' <=> InWindow(r, s)
        /\ \A r : Before(Last(s.page), r, s.asc)' <=> Before(Last(s.page), r, s.asc)
    BY <1>1 DEF Ordered, Behind, Before, InWindow
  <2>2. \A f \in s.plan : /\ files'[f].records \subseteq files[f].records
                          /\ files'[f].state = "gone" \/ files'[f].records = files[f].records
                          /\ files[f].state = "gone" => files'[f].state = "gone"
    BY <1>8, AgedFile
  <2>3. Apart(s.plan)'
    BY <1>1, <2>2 DEF Turning, Apart
  <2>4. s.stage = "page" => \A r \in Owed(s)' : \E f \in s.plan :
          files'[f].state = "gone" \/ r \in files'[f].records
    BY <1>12, <2>2 DEF Turning
  <2> QED
    BY <1>1, <1>12, <2>1, <2>3, <2>4 DEF Turning
<1> QED
  BY <1>1, <1>5, <1>6, <1>7, <1>10, <1>13, <1>14 DEF Knows

------------------------------------------------------------------------------
(* Requests that differ in little. *)

\* All but where it is and what it holds.
Alike(s, t) ==
  /\ t.kind = s.kind /\ t.stage = s.stage /\ t.hurt = s.hurt /\ t.plan = s.plan
  /\ t.reads = s.reads /\ t.since = s.since /\ t.from = s.from /\ t.to = s.to
  /\ t.asc = s.asc /\ t.limit = s.limit /\ t.cursor = s.cursor /\ t.page = s.page
  /\ t.more = s.more /\ t.missing = s.missing /\ t.looked = s.looked
  /\ t.names = s.names /\ t.kept = s.kept /\ t.toBind = s.toBind
  /\ t.shown = s.shown /\ t.due = s.due

\* What is known of a request does not depend on the permit it holds.
LEMMA AlikeKnows ==
  ASSUME NEW s, NEW t, Knows(s), Alike(s, t), DOMAIN t = Names,
         t.step = s.step \/ (s.step = "wait" /\ t.step = "run")
  PROVE  Knows(t)
<1>1. /\ AtRest(t) <=> AtRest(s)
      /\ t.step \in {"wait", "run", "page", "answered", "failed"}
      /\ t.step = s.step \/ (t.step = "run" /\ s.step = "wait")
  BY DEF AtRest, Knows, Fits
<1>2. Fits(t)
  BY <1>1 DEF Alike, Knows, Fits
<1>3. (Late(t) <=> Late(s)) /\ (MayFail(t) <=> MayFail(s))
  BY DEF Alike, Late, MayFail
<1>4. (PlanKept(t) <=> PlanKept(s)) /\ (FieldsAhead(t) <=> FieldsAhead(s))
  BY <1>3 DEF Alike, PlanKept, FieldsAhead
<1>5. Going(t) <=> Going(s)
  BY <1>3, <1>4 DEF Alike, Going
<1>6. AtRest(s) => (Explained(t) <=> Explained(s))
  BY <1>1 DEF Alike, Explained, ExplainedAt, AtRest
<1>7. /\ Owed(t) = Owed(s)
      /\ \A r : Behind(r, t) <=> Behind(r, s)
      /\ \A r : InWindow(r, t) <=> InWindow(r, s)
  BY DEF Alike, Owed, Behind, InWindow
<1>8. Pages(s) => Pages(t)
  BY <1>1, <1>7 DEF Alike, Pages, PagesAt
<1>9. Turning(s) => Turning(t)
  BY <1>7 DEF Alike, Turning
<1> QED
  BY <1>1, <1>2, <1>5, <1>6, <1>8, <1>9 DEF Alike, Knows

\* Nor on what other requests do, where the files and the clock do not move.
LEMMA StillKnows ==
  ASSUME UNCHANGED <<seq, files, now>>, NEW c \in Client, NEW s, client'[c] = s, Knows(s)
  PROVE  Knows(client[c])'
<1>1. Fits(client[c])'
  BY DEF Knows, Fits
<1>2. (AtRest(client[c])' <=> AtRest(s)) /\ (Explained(client[c])' <=> Explained(s))
  BY DEF AtRest, Explained, ExplainedAt
<1>3. (Late(client[c])' <=> Late(s)) /\ (MayFail(client[c])' <=> MayFail(s))
  BY DEF Late, MayFail
<1>4. (PlanKept(client[c])' <=> PlanKept(s)) /\ (FieldsAhead(client[c])' <=> FieldsAhead(s))
  BY <1>3 DEF PlanKept, FieldsAhead
<1>5. Going(client[c])' <=> Going(s)
  BY <1>3, <1>4 DEF Going
<1>6. Queryable' = Queryable
  BY DEF Queryable, Live
<1>7. /\ Owed(client[c])' = Owed(s)
      /\ \A r : Behind(r, client[c])' <=> Behind(r, s)
      /\ \A r : InWindow(r, client[c])' <=> InWindow(r, s)
      /\ \A a, b : Before(a, b, client[c].asc)' <=> Before(a, b, s.asc)
  BY <1>6 DEF Owed, Behind, InWindow, Before
<1>8. /\ Ordered(client[c].shown, client[c].asc)' <=> Ordered(s.shown, s.asc)
      /\ Ordered(client[c].page, client[c].asc)' <=> Ordered(s.page, s.asc)
      /\ Apart(client[c].plan)' <=> Apart(s.plan)
  BY <1>7 DEF Ordered, Apart
<1>9. Pages(s) => Pages(client[c])'
  BY <1>7, <1>8 DEF Pages, PagesAt
<1>10. Turning(s) => Turning(client[c])'
  BY <1>7, <1>8 DEF Turning
<1> QED
  BY <1>1, <1>2, <1>5, <1>9, <1>10 DEF Knows

LEMMA FilesStay ==
  ASSUME FilesFit, UNCHANGED <<seq, files, now>>
  PROVE  FilesFit'
BY DEF FilesFit, Live

LEMMA EndKnows ==
  ASSUME IInv, SearchInv, NEW c \in Client, NEW t, Knows(t), End(c, t)
  PROVE  SearchInv'
<1> DEFINE n == GivesBack(client[c], t)
           u == [t EXCEPT !.holds = @ - n]
<1>1. client' = [client EXCEPT ![c] = u] /\ UNCHANGED <<seq, files, now>>
  BY DEF End
<1> HIDE DEF n
<1>2. DOMAIN t = Names
  BY DEF Knows
<1>3. DOMAIN u = Names /\ u.step = t.step /\ Alike(t, u)
  BY <1>2 DEF Names, Alike
<1> HIDE DEF u
<1>4. Knows(u)
  BY <1>3, AlikeKnows
<1>5. client'[c] = u /\ \A d \in Client \ {c} : client'[d] = client[d]
  BY <1>1 DEF IInv, Shape
<1>6. Knows(client[c])'
  BY <1>1, <1>4, <1>5, StillKnows
<1>7. ASSUME NEW d \in Client \ {c} PROVE Knows(client[d])'
  BY <1>1, <1>5, StillKnows DEF SearchInv
<1>8. FilesFit'
  BY <1>1, FilesStay DEF SearchInv
<1> QED
  BY <1>6, <1>7, <1>8 DEF SearchInv

LEMMA AskKnows ==
  ASSUME IInv, SearchInv, NEW c \in Client, NEW t, Knows(t), Ask(c, t)
  PROVE  SearchInv'
<1>1. client' = [client EXCEPT ![c] = t] /\ UNCHANGED <<seq, files, now>>
  BY DEF Ask
<1>2. client'[c] = t /\ \A d \in Client \ {c} : client'[d] = client[d]
  BY <1>1 DEF IInv, Shape
<1>3. Knows(client[c])'
  BY <1>1, <1>2, StillKnows
<1>4. ASSUME NEW d \in Client \ {c} PROVE Knows(client[d])'
  BY <1>1, <1>2, StillKnows DEF SearchInv
<1>5. FilesFit'
  BY <1>1, FilesStay DEF SearchInv
<1> QED
  BY <1>3, <1>4, <1>5 DEF SearchInv

LEMMA AcquireKnows ==
  ASSUME IInv, SearchInv, NEW c \in Client, Acquire(c)
  PROVE  SearchInv'
<1> DEFINE s == client[c]
           u == [s EXCEPT !.step = "run", !.holds = @ + 1]
<1>1. /\ s.step = "wait" /\ DOMAIN s = Names /\ Knows(s)
      /\ client' = [client EXCEPT ![c].step = "run", ![c].holds = @ + 1]
      /\ UNCHANGED <<seq, files, now>> /\ client = [d \in Client |-> client[d]]
  BY DEF Acquire, IInv, Shape, SearchInv
<1>2. client' = [client EXCEPT ![c] = u]
  BY <1>1 DEF Names
<1>3. DOMAIN u = Names /\ u.step = "run" /\ Alike(s, u)
  BY <1>1 DEF Names, Alike
<1> HIDE DEF u
<1>4. Knows(u)
  BY <1>1, <1>3, AlikeKnows
<1>5. client'[c] = u /\ \A d \in Client \ {c} : client'[d] = client[d]
  BY <1>1, <1>2
<1>6. Knows(client[c])'
  BY <1>1, <1>4, <1>5, StillKnows
<1>7. ASSUME NEW d \in Client \ {c} PROVE Knows(client[d])'
  BY <1>1, <1>5, StillKnows DEF SearchInv
<1>8. FilesFit'
  BY <1>1, FilesStay DEF SearchInv
<1> QED
  BY <1>6, <1>7, <1>8 DEF SearchInv

------------------------------------------------------------------------------
(* Where a handler returns. *)

\* t is what s leaves as it returns.
Returned(s, t, step) ==
  /\ DOMAIN t = Names /\ t.step = step /\ t.hurt \in BOOLEAN /\ (MayFail(s) => t.hurt)
  /\ t.plan = {} /\ t.reads = {} /\ t.since = 0 /\ t.page = <<>> /\ t.more = FALSE
  /\ t.from = (IF s.cursor = NoCursor THEN 0 ELSE s.from)
  /\ t.to = (IF s.cursor = NoCursor THEN 0 ELSE s.to)
  /\ t.kind = s.kind /\ t.asc = s.asc /\ t.limit = s.limit /\ t.cursor = s.cursor
  /\ t.missing = s.missing /\ t.names = s.names /\ t.kept = s.kept
  /\ t.shown = s.shown /\ t.due = s.due

LEMMA ReturnIs ==
  ASSUME NEW s, DOMAIN s = Names, NEW step
  PROVE  Returned(s, Return(s, step), step)
<1> DEFINE t == Return(s, step)
<1>1. t.hurt = (s.hurt \/ now >= s.since + Grace)
  BY DEF Return, Names
<1>2. t.hurt \in BOOLEAN /\ (MayFail(s) => t.hurt)
  BY <1>1, Zenon DEF MayFail, Late
<1>3. /\ DOMAIN t = Names /\ t.step = step
      /\ t.plan = {} /\ t.reads = {} /\ t.since = 0 /\ t.page = <<>> /\ t.more = FALSE
      /\ t.from = (IF s.cursor = NoCursor THEN 0 ELSE s.from)
      /\ t.to = (IF s.cursor = NoCursor THEN 0 ELSE s.to)
      /\ t.kind = s.kind /\ t.asc = s.asc /\ t.limit = s.limit /\ t.cursor = s.cursor
      /\ t.missing = s.missing /\ t.names = s.names /\ t.kept = s.kept
      /\ t.shown = s.shown /\ t.due = s.due
  BY DEF Return, Names
<1> QED
  BY <1>2, <1>3 DEF Returned

LEMMA HurtReturned ==
  ASSUME NEW s, NEW t, NEW step, Returned(s, t, step), NEW b
  PROVE  /\ Returned(s, [t EXCEPT !.hurt = @ \/ b], step)
         /\ b => [t EXCEPT !.hurt = @ \/ b].hurt
<1> DEFINE u == [t EXCEPT !.hurt = @ \/ b]
<1>1. DOMAIN t = Names /\ t.hurt \in BOOLEAN
  BY DEF Returned
<1>2. u.hurt = (t.hurt \/ b)
  BY <1>1 DEF Names
<1>3. u.hurt \in BOOLEAN /\ (t.hurt => u.hurt) /\ (b => u.hurt)
  BY <1>2, Zenon
<1>4. /\ DOMAIN u = Names /\ u.step = t.step
      /\ u.plan = t.plan /\ u.reads = t.reads /\ u.since = t.since /\ u.page = t.page
      /\ u.more = t.more /\ u.from = t.from /\ u.to = t.to
      /\ u.kind = t.kind /\ u.asc = t.asc /\ u.limit = t.limit /\ u.cursor = t.cursor
      /\ u.missing = t.missing /\ u.names = t.names /\ u.kept = t.kept
      /\ u.shown = t.shown /\ u.due = t.due
  BY <1>1 DEF Names
<1> HIDE DEF u
<1>5. Returned(s, u, step)
  BY <1>3, <1>4 DEF Returned
<1> QED
  BY <1>3, <1>5 DEF u

LEMMA ReturnedKnows ==
  ASSUME FilesFit, NEW s, Fits(s), NEW step \in {"page", "answered", "failed"},
         NEW t, Returned(s, t, step),
         ExplainedAt(t, step),
         s.cursor # NoCursor => s.kind = "search",
         step = "page" => s.kind = "search",
         s.kind = "search" => PagesAt(s, step)
  PROVE  Knows(t)
<1>1. AtRest(t) /\ DOMAIN t = Names
  BY DEF AtRest, Returned
<1>2. Fits(t)
  <2>1. 0 <= now /\ 0 \in Int /\ 0 \in Nat
    BY SearchAssumption DEF FilesFit
  <2>2. <<>> \in Seq(Record)
    OBVIOUS
  <2> QED
    BY <2>1, <2>2 DEF Fits, Returned
<1>3. Explained(t)
  BY DEF Explained, Returned
<1>4. /\ Owed(t) = Owed(s)
      /\ \A r : Behind(r, t) <=> Behind(r, s)
      /\ s.cursor # NoCursor => \A r : InWindow(r, t) <=> InWindow(r, s)
  BY DEF Returned, Owed, Behind, InWindow
<1>5. s.kind = "search" => Pages(t)
  BY <1>4 DEF Pages, PagesAt, Returned
<1> QED
  BY <1>1, <1>2, <1>3, <1>5 DEF Knows, Returned

\* A statement that fails for another reason than what it reads leaves a request
\* hurt, and so does one whose plan is too old.
LEMMA FailedReturn ==
  ASSUME SearchInv, NEW s, Knows(s), ~AtRest(s), NEW t, Returned(s, t, "failed"), t.hurt
  PROVE  Knows(t)
<1>1. s.kind = "search" => PagesAt(s, "failed")
  BY DEF Knows, Pages, PagesAt, AtRest
<1>2. ExplainedAt(t, "failed")
  BY DEF ExplainedAt
<1> QED
  BY <1>1, <1>2, ReturnedKnows DEF Knows, SearchInv

\* What makes a statement fail: a file is gone, or it names a field that cannot be
\* read.
LEMMA GoneIsLate ==
  ASSUME NEW s, Knows(s), ~AtRest(s), NEW f \in s.reads, files[f].state = "gone"
  PROVE  Late(s)
BY DEF Knows, Fits, Going, PlanKept

LEMMA LeaveKnows ==
  ASSUME IInv, SearchInv, NEW c \in Client, Leave(c)
  PROVE  SearchInv'
<1> DEFINE s == client[c]
           u == [s EXCEPT !.hurt = TRUE]
           t == Return(u, "failed")
<1>1. ~AtRest(s) /\ End(c, t) /\ Knows(s) /\ DOMAIN s = Names
  BY DEF Leave, SearchInv, Knows
<1>2. /\ DOMAIN u = Names /\ u.hurt = TRUE
      /\ u.cursor = s.cursor /\ u.from = s.from /\ u.to = s.to
      /\ u.kind = s.kind /\ u.asc = s.asc /\ u.limit = s.limit
      /\ u.missing = s.missing /\ u.names = s.names /\ u.kept = s.kept
      /\ u.shown = s.shown /\ u.due = s.due
  BY <1>1 DEF Names
<1> HIDE DEF u
<1>3. Returned(u, t, "failed")
  BY <1>2, ReturnIs
<1> HIDE DEF t
<1>4. t.hurt /\ t.hurt \in BOOLEAN
  <2>1. MayFail(u)
    BY <1>2 DEF MayFail
  <2> QED
    BY <1>3, <2>1 DEF Returned
<1>5. Returned(s, t, "failed")
  BY <1>2, <1>3, <1>4 DEF Returned
<1>6. Knows(t)
  BY <1>1, <1>4, <1>5, FailedReturn
<1> QED
  BY <1>1, <1>6, EndKnows

------------------------------------------------------------------------------
(* Counting fields. *)

\* t is what BindNext makes of s, but for hurt.
Binds(s, t, kept, toBind) ==
  /\ DOMAIN t = Names /\ t.hurt \in BOOLEAN /\ (s.hurt => t.hurt)
  /\ t.kind = s.kind /\ t.asc = s.asc /\ t.limit = s.limit /\ t.cursor = s.cursor
  /\ t.missing = s.missing /\ t.names = s.names /\ t.kept = kept
  /\ t.shown = s.shown /\ t.due = s.due
  /\ IF toBind # {} \/ kept \notin {{}, s.names}
     THEN /\ t.step = "wait" /\ t.stage = (IF toBind # {} THEN "bind" ELSE "recount")
          /\ t.toBind = toBind /\ t.plan = s.plan /\ t.reads = s.reads /\ t.since = s.since
          /\ t.from = s.from /\ t.to = s.to /\ t.page = s.page /\ t.more = s.more
     ELSE /\ t.step = "failed" /\ (Late(s) => t.hurt)
          /\ t.plan = {} /\ t.reads = {} /\ t.since = 0 /\ t.page = <<>> /\ t.more = FALSE
          /\ t.from = (IF s.cursor = NoCursor THEN 0 ELSE s.from)
          /\ t.to = (IF s.cursor = NoCursor THEN 0 ELSE s.to)

LEMMA BindNextBinds ==
  ASSUME NEW s, DOMAIN s = Names, s.hurt \in BOOLEAN, NEW kept, NEW toBind
  PROVE  Binds(s, BindNext(s, kept, toBind), kept, toBind)
<1> DEFINE u == [s EXCEPT !.kept = kept, !.toBind = toBind]
           t == BindNext(s, kept, toBind)
           v == [u EXCEPT !.step = "wait", !.stage = "bind"]
           w == [u EXCEPT !.step = "wait", !.stage = "recount"]
<1>1. /\ DOMAIN u = Names /\ u.hurt = s.hurt /\ u.kind = s.kind /\ u.asc = s.asc
      /\ u.limit = s.limit /\ u.cursor = s.cursor /\ u.missing = s.missing
      /\ u.names = s.names /\ u.kept = kept /\ u.toBind = toBind /\ u.shown = s.shown
      /\ u.due = s.due /\ u.plan = s.plan /\ u.reads = s.reads /\ u.since = s.since
      /\ u.from = s.from /\ u.to = s.to /\ u.page = s.page /\ u.more = s.more
  BY DEF Names
<1>2. t = IF toBind # {} THEN v
          ELSE IF kept \in {{}, s.names} THEN Return(u, "failed") ELSE w
  BY DEF BindNext
<1> HIDE DEF u, t
<1>3. CASE toBind # {}
  <2>1. t = v
    BY <1>2, <1>3
  <2>2. /\ DOMAIN v = Names /\ v.hurt = u.hurt /\ v.kind = u.kind /\ v.asc = u.asc
        /\ v.limit = u.limit /\ v.cursor = u.cursor /\ v.missing = u.missing
        /\ v.names = u.names /\ v.kept = u.kept /\ v.toBind = u.toBind /\ v.shown = u.shown
        /\ v.due = u.due /\ v.plan = u.plan /\ v.reads = u.reads /\ v.since = u.since
        /\ v.from = u.from /\ v.to = u.to /\ v.page = u.page /\ v.more = u.more
        /\ v.step = "wait" /\ v.stage = "bind"
    BY <1>1 DEF Names
  <2> HIDE DEF v
  <2> QED
    BY <1>1, <1>3, <2>1, <2>2 DEF Binds, t
<1>4. CASE toBind = {} /\ kept \notin {{}, s.names}
  <2>1. t = w
    BY <1>2, <1>4
  <2>2. /\ DOMAIN w = Names /\ w.hurt = u.hurt /\ w.kind = u.kind /\ w.asc = u.asc
        /\ w.limit = u.limit /\ w.cursor = u.cursor /\ w.missing = u.missing
        /\ w.names = u.names /\ w.kept = u.kept /\ w.toBind = u.toBind /\ w.shown = u.shown
        /\ w.due = u.due /\ w.plan = u.plan /\ w.reads = u.reads /\ w.since = u.since
        /\ w.from = u.from /\ w.to = u.to /\ w.page = u.page /\ w.more = u.more
        /\ w.step = "wait" /\ w.stage = "recount"
    BY <1>1 DEF Names
  <2> HIDE DEF w
  <2> QED
    BY <1>1, <1>4, <2>1, <2>2 DEF Binds, t
<1>5. CASE toBind = {} /\ kept \in {{}, s.names}
  <2>1. t = Return(u, "failed")
    BY <1>2, <1>5
  <2>2. Returned(u, t, "failed")
    BY <1>1, <2>1, ReturnIs
  <2>3. (Late(u) <=> Late(s)) /\ (MayFail(u) <=> MayFail(s))
    BY <1>1 DEF Late, MayFail
  <2> QED
    BY <1>1, <1>5, <2>2, <2>3 DEF Binds, Returned, MayFail, t
<1> QED
  BY <1>3, <1>4, <1>5

LEMMA HurtBinds ==
  ASSUME NEW s, NEW t, NEW kept, NEW toBind, Binds(s, t, kept, toBind), NEW b
  PROVE  /\ Binds(s, [t EXCEPT !.hurt = @ \/ b], kept, toBind)
         /\ b => [t EXCEPT !.hurt = @ \/ b].hurt
<1> DEFINE u == [t EXCEPT !.hurt = @ \/ b]
<1>1. DOMAIN t = Names /\ t.hurt \in BOOLEAN
  BY DEF Binds
<1>2. u.hurt = (t.hurt \/ b)
  BY <1>1 DEF Names
<1>3. u.hurt \in BOOLEAN /\ (t.hurt => u.hurt) /\ (b => u.hurt)
  BY <1>2, Zenon
<1>4. /\ DOMAIN u = Names /\ u.step = t.step /\ u.stage = t.stage /\ u.toBind = t.toBind
      /\ u.plan = t.plan /\ u.reads = t.reads /\ u.since = t.since /\ u.page = t.page
      /\ u.more = t.more /\ u.from = t.from /\ u.to = t.to
      /\ u.kind = t.kind /\ u.asc = t.asc /\ u.limit = t.limit /\ u.cursor = t.cursor
      /\ u.missing = t.missing /\ u.names = t.names /\ u.kept = t.kept
      /\ u.shown = t.shown /\ u.due = t.due
  BY <1>1 DEF Names
<1> HIDE DEF u
<1>5. Binds(s, u, kept, toBind)
  BY <1>3, <1>4 DEF Binds
<1> QED
  BY <1>3, <1>5 DEF u

\* Unless it may fail, what is kept is what can be read of the fields bound so far,
\* and the first statement failed for a field.
LEMMA BindsKnows ==
  ASSUME SearchInv, NEW s, Knows(s), ~AtRest(s), s.kind = "counts",
         NEW kept, NEW toBind \in SUBSET s.names, NEW t, Binds(s, t, kept, toBind),
         \/ t.hurt \/ Late(s)
         \/ /\ s.names = {} \/ s.names \cap Odd # {}
            /\ kept = (s.names \ toBind) \ Odd
  PROVE  Knows(t)
<1>1. s.cursor = NoCursor /\ Fits(s) /\ Going(s) /\ t.kind = "counts"
  BY DEF Knows, Binds
<1>2. CASE toBind # {} \/ kept \notin {{}, s.names}
  <2>1. /\ DOMAIN t = Names /\ t.kind = s.kind /\ t.asc = s.asc /\ t.limit = s.limit
        /\ t.cursor = s.cursor /\ t.missing = s.missing /\ t.names = s.names
        /\ t.kept = kept /\ t.shown = s.shown /\ t.due = s.due
        /\ t.step = "wait" /\ t.stage = (IF toBind # {} THEN "bind" ELSE "recount")
        /\ t.toBind = toBind /\ t.plan = s.plan /\ t.reads = s.reads /\ t.since = s.since
        /\ t.from = s.from /\ t.to = s.to /\ t.page = s.page /\ t.more = s.more
        /\ t.hurt \in BOOLEAN
    BY <1>2 DEF Binds
  <2>2. Fits(t) /\ ~AtRest(t)
    BY <1>1, <2>1 DEF Fits, AtRest
  <2>3. Late(t) <=> Late(s)
    BY <2>1 DEF Late
  <2>4. PlanKept(t)
    BY <1>1, <2>1, <2>3 DEF Going, PlanKept
  <2>5. t.stage = "bind" =>
          /\ t.toBind # {} /\ t.toBind \subseteq t.names
          /\ \/ MayFail(t)
             \/ t.names \cap Odd # {} /\ t.kept = (t.names \ t.toBind) \ Odd
    BY <2>1, <2>3 DEF MayFail
  <2>6. t.stage = "recount" => MayFail(t) \/ t.kept = t.names \ Odd
    BY <2>1, <2>3 DEF MayFail
  <2>7. Going(t)
    BY <1>1, <2>1, <2>4, <2>5, <2>6 DEF Going
  <2> QED
    BY <1>1, <2>1, <2>2, <2>7 DEF Knows
<1>3. CASE toBind = {} /\ kept \in {{}, s.names}
  <2>2. /\ DOMAIN t = Names /\ t.kind = s.kind /\ t.asc = s.asc /\ t.limit = s.limit
        /\ t.cursor = s.cursor /\ t.missing = s.missing /\ t.names = s.names
        /\ t.kept = kept /\ t.shown = s.shown /\ t.due = s.due /\ t.step = "failed"
        /\ t.plan = {} /\ t.reads = {} /\ t.since = 0 /\ t.page = <<>> /\ t.more = FALSE
        /\ t.from = 0 /\ t.to = 0 /\ t.hurt \in BOOLEAN /\ (Late(s) => t.hurt)
    BY <1>1, <1>3 DEF Binds
  <2>3. Fits(t) /\ AtRest(t)
    <3>1. 0 <= now /\ 0 \in Int /\ 0 \in Nat /\ <<>> \in Seq(Record)
      BY SearchAssumption DEF SearchInv, FilesFit
    <3> QED
      BY <1>1, <2>2, <3>1 DEF Fits, AtRest
  <2>4. t.hurt \/ t.names \subseteq Odd
    BY <1>3, <2>2
  <2>5. Explained(t)
    BY <1>1, <2>2, <2>4 DEF Explained, ExplainedAt
  <2> QED
    BY <1>1, <2>2, <2>3, <2>5 DEF Knows
<1> QED
  BY <1>2, <1>3

LEMMA WhyItFails ==
  ASSUME NEW s, Knows(s), ~AtRest(s), MustFail(s), ~Late(s)
  PROVE  Named(s) \cap Odd # {}
BY GoneIsLate DEF MustFail

LEMMA FailKnows ==
  ASSUME IInv, SearchInv, NEW c \in Client, Fail(c)
  PROVE  SearchInv'
<1> DEFINE s == client[c]
           b == ~MustFail(s)
           t == [Failed(s) EXCEPT !.hurt = @ \/ b]
<1>1. /\ s.step = "run" /\ End(c, t) /\ Knows(s) /\ ~AtRest(s) /\ DOMAIN s = Names
      /\ s.hurt \in BOOLEAN /\ Fits(s) /\ Going(s)
  BY DEF Fail, SearchInv, Knows, Fits, AtRest
<1> SUFFICES Knows(t)
  BY <1>1, EndKnows
<1>2. b <=> ~MustFail(s)
  OBVIOUS
<1> HIDE DEF b
<1>3. CASE s.stage \in {"page", "restore", "scan", "recount"}
  <2>1. Failed(s) = Return(s, "failed")
    BY <1>3 DEF Failed
  <2> DEFINE r == Return(s, "failed")
  <2>2. Returned(s, r, "failed")
    BY <1>1, ReturnIs
  <2> HIDE DEF r
  <2>3. Returned(s, [r EXCEPT !.hurt = @ \/ b], "failed") /\ (b => [r EXCEPT !.hurt = @ \/ b].hurt)
    BY <2>2, HurtReturned
  <2>4. Returned(s, t, "failed") /\ (b => t.hurt)
    BY <2>1, <2>3 DEF r
  <2> HIDE DEF t
  <2>5. ~b /\ ~Late(s) => MayFail(s)
    <3>1. SUFFICES ASSUME ~b, ~Late(s) PROVE MayFail(s)
      OBVIOUS
    <3>2. Named(s) \cap Odd # {}
      BY <1>1, <1>2, <3>1, WhyItFails
    <3>3. s.stage = "recount" /\ s.kept \cap Odd # {}
      BY <1>3, <3>2 DEF Named
    <3> QED
      BY <1>1, <3>3 DEF Going
  <2>6. t.hurt
    BY <2>4, <2>5 DEF Returned, MayFail
  <2> QED
    BY <1>1, <2>4, <2>6, FailedReturn
<1>4. CASE s.stage = "count"
  <2> DEFINE r == BindNext(s, {}, s.names)
  <2>1. Failed(s) = r /\ s.kind = "counts" /\ s.kept = s.names /\ Named(s) = s.kept
    BY <1>1, <1>4 DEF Failed, Going, Named, Knows, Fits
  <2>2. Binds(s, r, {}, s.names)
    BY <1>1, BindNextBinds
  <2> HIDE DEF r
  <2>3. Binds(s, [r EXCEPT !.hurt = @ \/ b], {}, s.names) /\ (b => [r EXCEPT !.hurt = @ \/ b].hurt)
    BY <2>2, HurtBinds
  <2>4. Binds(s, t, {}, s.names) /\ (b => t.hurt)
    BY <2>1, <2>3
  <2> HIDE DEF t
  <2>5. t.hurt \/ Late(s) \/ s.names \cap Odd # {}
    BY <1>1, <1>2, <2>1, <2>4, WhyItFails
  <2>6. {} = (s.names \ s.names) \ Odd
    OBVIOUS
  <2> QED
    BY <1>1, <2>1, <2>4, <2>5, <2>6, BindsKnows
<1>5. CASE s.stage = "bind"
  <2> DEFINE B == Binding(s)
             rest == s.toBind \ B
             r == BindNext(s, s.kept, rest)
  <2>1. Failed(s) = r /\ s.kind = "counts" /\ Named(s) = B
    BY <1>1, <1>5 DEF Failed, Going, Named, Knows, Fits
  <2>2. Binds(s, r, s.kept, rest)
    BY <1>1, BindNextBinds
  <2>3. PICK f \in s.toBind : B = {f}
    BY <1>1, <1>5 DEF Binding, Going
  <2>4. s.toBind \subseteq s.names
    BY <1>1, <1>5 DEF Going
  <2> HIDE DEF r, B
  <2>5. Binds(s, [r EXCEPT !.hurt = @ \/ b], s.kept, rest) /\ (b => [r EXCEPT !.hurt = @ \/ b].hurt)
    BY <2>2, HurtBinds
  <2>6. Binds(s, t, s.kept, rest) /\ (b => t.hurt)
    BY <2>1, <2>5
  <2> HIDE DEF t
  <2>7. rest \in SUBSET s.names
    BY <2>4
  <2>8. t.hurt \/ Late(s) \/ (f \in Odd /\ s.names \cap Odd # {} /\ s.kept = (s.names \ s.toBind) \ Odd)
    <3>1. CASE b \/ Late(s) \/ s.hurt
      BY <2>6, <3>1 DEF Binds
    <3>2. CASE ~b /\ ~Late(s) /\ ~s.hurt
      <4>1. f \in Odd
        BY <1>1, <1>2, <2>1, <2>3, <3>2, WhyItFails
      <4> QED
        BY <1>1, <1>5, <3>2, <4>1 DEF Going, MayFail
    <3> QED
      BY <3>1, <3>2
  <2>9. f \in Odd => (s.names \ rest) \ Odd = (s.names \ s.toBind) \ Odd
    BY <2>3
  <2> HIDE DEF rest
  <2> QED
    BY <1>1, <2>1, <2>6, <2>7, <2>8, <2>9, BindsKnows
<1> QED
  BY <1>1, <1>3, <1>4, <1>5 DEF Going, Knows, Fits

LEMMA SucceedKnows ==
  ASSUME IInv, SearchInv, NEW c \in Client, Succeed(c)
  PROVE  SearchInv'
<1> DEFINE s == client[c]
<1>1. /\ s.step = "run" /\ s.kind # "search" /\ ~MustFail(s)
      /\ End(c, IF s.stage = "bind"
                THEN BindNext(s, s.kept \cup Binding(s), s.toBind \ Binding(s))
                ELSE Return(s, "answered"))
  BY DEF Succeed
<1>2. /\ Knows(s) /\ ~AtRest(s) /\ DOMAIN s = Names /\ s.hurt \in BOOLEAN /\ Fits(s) /\ Going(s)
      /\ FilesFit
  BY <1>1 DEF SearchInv, Knows, Fits, AtRest
<1>3. CASE s.stage = "bind"
  <2> DEFINE B == Binding(s)
             rest == s.toBind \ B
             kept == s.kept \cup B
             t == BindNext(s, kept, rest)
  <2>1. End(c, t) /\ s.kind = "counts" /\ Named(s) = B
    BY <1>1, <1>2, <1>3 DEF Going, Named, Fits
  <2>2. Binds(s, t, kept, rest)
    BY <1>2, BindNextBinds
  <2>3. PICK f \in s.toBind : B = {f}
    BY <1>2, <1>3 DEF Binding, Going
  <2>4. s.toBind \subseteq s.names
    BY <1>2, <1>3 DEF Going
  <2> HIDE DEF t, B
  <2>5. f \notin Odd
    BY <1>1, <2>1, <2>3 DEF MustFail
  <2>6. rest \in SUBSET s.names
    BY <2>4
  <2>7. t.hurt \/ Late(s) \/ (s.names \cap Odd # {} /\ s.kept = (s.names \ s.toBind) \ Odd)
    BY <1>2, <1>3, <2>2 DEF Going, MayFail, Binds
  <2>8. s.kept = (s.names \ s.toBind) \ Odd => kept = (s.names \ rest) \ Odd
    BY <2>3, <2>4, <2>5
  <2> HIDE DEF rest, kept
  <2>9. Knows(t)
    BY <1>2, <2>1, <2>2, <2>6, <2>7, <2>8, BindsKnows
  <2> QED
    BY <2>1, <2>9, EndKnows
<1>4. CASE s.stage # "bind"
  <2> DEFINE t == Return(s, "answered")
  <2>1. End(c, t)
    BY <1>1, <1>4
  <2>2. Returned(s, t, "answered")
    BY <1>2, ReturnIs
  <2> HIDE DEF t
  <2>3. MayFail(s) => t.hurt
    BY <2>2 DEF Returned
  <2>4. s.kind = "counts" => MayFail(s) \/ s.kept = s.names \ Odd
    <3>1. CASE s.kind = "counts" /\ s.stage = "count"
      <4>1. s.kept = s.names /\ Named(s) = s.kept
        BY <1>2, <3>1 DEF Going, Named
      <4>2. s.names \cap Odd = {}
        BY <1>1, <4>1 DEF MustFail
      <4> QED
        BY <4>1, <4>2
    <3>2. CASE s.kind = "counts" /\ s.stage = "recount"
      BY <1>2, <3>2 DEF Going
    <3> QED
      BY <1>2, <1>4, <3>1, <3>2 DEF Going
  <2>5. ExplainedAt(t, "answered")
    BY <1>1, <2>2, <2>3, <2>4 DEF ExplainedAt, Returned
  <2>6. Knows(t)
    BY <1>1, <1>2, <2>2, <2>5, ReturnedKnows DEF Knows
  <2> QED
    BY <2>1, <2>6, EndKnows
<1> QED
  BY <1>3, <1>4

------------------------------------------------------------------------------
(* Planning. *)

\* t is s planned, over this window.
Planned(s, t, from, to) ==
  /\ DOMAIN t = Names /\ t.step = "wait" /\ t.from = from /\ t.to = to /\ t.since = now
  /\ t.plan = {f \in DOMAIN files : PrunedBy(f, from, to)} /\ t.reads = t.plan
  /\ t.kind = s.kind /\ t.stage = s.stage /\ t.hurt = s.hurt /\ t.asc = s.asc
  /\ t.limit = s.limit /\ t.cursor = s.cursor /\ t.page = s.page /\ t.more = s.more
  /\ t.missing = s.missing /\ t.looked = s.looked /\ t.names = s.names
  /\ t.kept = s.kept /\ t.toBind = s.toBind /\ t.shown = s.shown /\ t.due = s.due

LEMMA PlanIs ==
  ASSUME NEW s, DOMAIN s = Names, NEW from, NEW to
  PROVE  Planned(s, Plan(s, from, to), from, to)
<1> DEFINE plan == {f \in DOMAIN files : PrunedBy(f, from, to)}
           t == [s EXCEPT !.step = "wait", !.from = from, !.to = to, !.since = now,
                          !.plan = plan, !.reads = plan]
<1>1. Plan(s, from, to) = t
  BY DEF Plan
<1> HIDE DEF plan
<1>2. Planned(s, t, from, to) <=> t.plan = {f \in DOMAIN files : PrunedBy(f, from, to)}
  BY DEF Planned, Names
<1>3. t.plan = plan
  BY DEF Names
<1> QED
  BY <1>1, <1>2, <1>3 DEF plan

\* A plan is of live files; each record of the window is in one of them.
LEMMA PlanHolds ==
  ASSUME FilesFit, NEW s, NEW t, NEW from, NEW to, Planned(s, t, from, to)
  PROVE  /\ t.plan \subseteq DOMAIN files /\ PlanKept(t) /\ Apart(t.plan)
         /\ \A r \in Queryable : from <= r.ts /\ r.ts <= to =>
              \E f \in t.plan : r \in files[f].records
<1>1. t.plan \subseteq Live
  BY DEF Planned, PrunedBy, Live
<1>2. t.plan \subseteq DOMAIN files /\ PlanKept(t) /\ Apart(t.plan)
  BY <1>1 DEF Live, PlanKept, Apart, FilesFit
<1>3. ASSUME NEW r \in Queryable, from <= r.ts, r.ts <= to
      PROVE  \E f \in t.plan : r \in files[f].records
  <2>1. PICK f \in Live : r \in files[f].records
    BY DEF Queryable
  <2>2. r.ts \in Int
    BY <2>1, FilesAreFinite DEF Live, Record
  <2>3. r.ts >= from
    BY <1>3, Zenon
  <2>4. PrunedBy(f, from, to)
    BY <1>3, <2>1, <2>3 DEF PrunedBy, Live
  <2> QED
    BY <2>1, <2>4 DEF Planned, Live
<1> QED
  BY <1>2, <1>3

LEMMA IdleFields ==
  /\ DOMAIN Idle = Names /\ Idle.kind = "scan" /\ Idle.stage = "scan" /\ Idle.hurt = FALSE
  /\ Idle.asc = FALSE /\ Idle.limit = 1 /\ Idle.cursor = NoCursor /\ Idle.page = <<>>
  /\ Idle.more = FALSE /\ Idle.missing = {} /\ Idle.looked = {} /\ Idle.shown = <<>>
  /\ Idle.due = {} /\ Idle.since = 0 /\ Idle.from = 0 /\ Idle.to = 0 /\ Idle.plan = {}
  /\ Idle.reads = {} /\ Idle.names = {} /\ Idle.kept = {} /\ Idle.step = "answered"
BY DEF Idle, Names

LEMMA IdleKnows ==
  ASSUME FilesFit
  PROVE  Knows(Idle)
<1>1. 0 <= now /\ 0 \in Int /\ 0 \in Nat /\ 1 \in Nat \ {0} /\ <<>> \in Seq(Record)
  BY SearchAssumption DEF FilesFit
<1>2. Fits(Idle)
  BY <1>1, IdleFields DEF Fits
<1> QED
  BY <1>2, IdleFields DEF Knows, AtRest, Explained, ExplainedAt

\* A request that starts with one statement of everything.
LEMMA AskOther ==
  ASSUME IInv, SearchInv, NEW c \in Client,
         NEW s, DOMAIN s = Names, s.kind \in {"scan", "counts"},
         s.kind = "scan" => s.stage = "scan",
         s.kind = "counts" => s.stage = "count" /\ s.kept = s.names,
         s.hurt = FALSE, s.asc = FALSE, s.limit = 1, s.cursor = NoCursor, s.page = <<>>,
         s.more = FALSE, s.missing = {}, s.shown = <<>>, s.due = {},
         NEW from, NEW to,
         Ask(c, [Plan(s, from, to) EXCEPT !.from = 0, !.to = 0])
  PROVE  SearchInv'
<1> DEFINE p == Plan(s, from, to)
           t == [p EXCEPT !.from = 0, !.to = 0]
<1>1. Planned(s, p, from, to)
  BY PlanIs
<1>2. p.plan \subseteq DOMAIN files /\ PlanKept(p) /\ DOMAIN p = Names
  BY <1>1, PlanHolds DEF SearchInv, Planned
<1> HIDE DEF p
<1>3. /\ DOMAIN t = Names /\ t.from = 0 /\ t.to = 0
      /\ t.step = p.step /\ t.since = p.since /\ t.plan = p.plan /\ t.reads = p.reads
      /\ t.kind = p.kind /\ t.stage = p.stage /\ t.hurt = p.hurt /\ t.asc = p.asc
      /\ t.limit = p.limit /\ t.cursor = p.cursor /\ t.page = p.page /\ t.more = p.more
      /\ t.missing = p.missing /\ t.looked = p.looked /\ t.names = p.names
      /\ t.kept = p.kept /\ t.toBind = p.toBind /\ t.shown = p.shown /\ t.due = p.due
  BY <1>2 DEF Names
<1>4. Ask(c, t)
  BY DEF p
<1> HIDE DEF t
<1>5. now \in Nat /\ now <= now /\ 0 \in Int /\ 1 \in Nat \ {0} /\ <<>> \in Seq(Record)
  BY SearchAssumption DEF SearchInv, FilesFit
<1>6. Fits(t)
  BY <1>1, <1>2, <1>3, <1>5 DEF Fits, Planned
<1>7. PlanKept(t)
  BY <1>2, <1>3 DEF PlanKept, Late
<1>8. Going(t) /\ ~AtRest(t)
  BY <1>1, <1>3, <1>7 DEF Going, Planned, AtRest
<1>9. Knows(t)
  BY <1>1, <1>3, <1>6, <1>8 DEF Knows, Planned
<1> QED
  BY <1>4, <1>9, AskKnows

LEMMA AskScanKnows ==
  ASSUME IInv, SearchInv, NEW c \in Client, AskScan(c)
  PROVE  SearchInv'
<1> DEFINE s == [Idle EXCEPT !.holds = client[c].holds]
<1>1. Ask(c, [Plan(s, now - Window, now) EXCEPT !.from = 0, !.to = 0])
  BY DEF AskScan
<1>2. /\ DOMAIN s = Names /\ s.kind = "scan" /\ s.stage = "scan" /\ s.hurt = FALSE
      /\ s.asc = FALSE /\ s.limit = 1 /\ s.cursor = NoCursor /\ s.page = <<>>
      /\ s.more = FALSE /\ s.missing = {} /\ s.shown = <<>> /\ s.due = {}
  BY IdleFields DEF Names
<1> HIDE DEF s
<1> QED
  BY <1>1, <1>2, AskOther

LEMMA AskCountsKnows ==
  ASSUME IInv, SearchInv, NEW c \in Client, AskCounts(c)
  PROVE  SearchInv'
<1> DEFINE s == [Idle EXCEPT !.kind = "counts", !.stage = "count", !.names = Field,
                             !.kept = Field, !.holds = client[c].holds]
<1>1. Ask(c, [Plan(s, now - Window, now) EXCEPT !.from = 0, !.to = 0])
  BY DEF AskCounts
<1>2. /\ DOMAIN s = Names /\ s.kind = "counts" /\ s.stage = "count" /\ s.hurt = FALSE
      /\ s.kept = s.names
      /\ s.asc = FALSE /\ s.limit = 1 /\ s.cursor = NoCursor /\ s.page = <<>>
      /\ s.more = FALSE /\ s.missing = {} /\ s.shown = <<>> /\ s.due = {}
  BY IdleFields DEF Names
<1> HIDE DEF s
<1> QED
  BY <1>1, <1>2, AskOther

LEMMA LimitIs ==
  ASSUME NEW asked \in Asked
  PROVE  LimitOf(asked) \in Nat \ {0}
<1>1. ASSUME NEW a \in Nat \ {0}, NEW b \in Nat \ {0} PROVE Min({a, b}) \in Nat \ {0}
  <2>1. IsFiniteSet({a, b})
    <3>1. {a, b} = {a} \cup {b} /\ IsFiniteSet({a}) /\ IsFiniteSet({b})
      BY FS_Singleton
    <3> QED
      BY <3>1, FS_Union
  <2>2. {a, b} \in SUBSET Int /\ {a, b} # {}
    OBVIOUS
  <2>3. Min({a, b}) \in {a, b}
    BY <2>1, <2>2, MinIs
  <2> QED
    BY <2>3
<1>2. MaxRows \in Nat \ {0} /\ DefaultLimit \in Nat \ {0} /\ asked \in Nat
  BY SearchAssumption
<1> QED
  BY <1>1, <1>2 DEF LimitOf

LEMMA AskSearchKnows ==
  ASSUME IInv, SearchInv, NEW c \in Client, AskSearch(c)
  PROVE  SearchInv'
<1>1. PICK asc \in BOOLEAN, asked \in Asked :
        LET s == [Idle EXCEPT !.kind = "search", !.stage = "page", !.asc = asc,
                              !.limit = LimitOf(asked), !.holds = client[c].holds]
            planned == Plan(s, WindowOf(s).from, WindowOf(s).to)
        IN  Ask(c, [planned EXCEPT !.due = {r \in Queryable : InWindow(r, planned)}])
  BY DEF AskSearch
<1> DEFINE s == [Idle EXCEPT !.kind = "search", !.stage = "page", !.asc = asc,
                             !.limit = LimitOf(asked), !.holds = client[c].holds]
           from == WindowOf(s).from
           to == WindowOf(s).to
           p == Plan(s, from, to)
           due == {r \in Queryable : InWindow(r, p)}
           t == [p EXCEPT !.due = due]
<1>2. /\ DOMAIN s = Names /\ s.kind = "search" /\ s.stage = "page" /\ s.hurt = FALSE
      /\ s.asc = asc /\ s.limit = LimitOf(asked) /\ s.cursor = NoCursor /\ s.page = <<>>
      /\ s.more = FALSE /\ s.missing = {} /\ s.shown = <<>>
  BY IdleFields DEF Names
<1>3. Ask(c, t)
  BY <1>1
<1> HIDE DEF s
<1>4. from = now - Window /\ to = now
  BY <1>2 DEF WindowOf
<1> HIDE DEF from, to
<1>5. Planned(s, p, from, to)
  BY <1>2, PlanIs
<1>6. /\ p.plan \subseteq DOMAIN files /\ PlanKept(p) /\ Apart(p.plan) /\ DOMAIN p = Names
      /\ \A r \in Queryable : from <= r.ts /\ r.ts <= to =>
           \E f \in p.plan : r \in files[f].records
  BY <1>5, PlanHolds DEF SearchInv, Planned
<1> HIDE DEF p, due
<1>7. /\ DOMAIN t = Names /\ t.from = p.from /\ t.to = p.to /\ t.due = due
      /\ t.step = p.step /\ t.since = p.since /\ t.plan = p.plan /\ t.reads = p.reads
      /\ t.kind = p.kind /\ t.stage = p.stage /\ t.hurt = p.hurt /\ t.asc = p.asc
      /\ t.limit = p.limit /\ t.cursor = p.cursor /\ t.page = p.page /\ t.more = p.more
      /\ t.missing = p.missing /\ t.looked = p.looked /\ t.names = p.names
      /\ t.kept = p.kept /\ t.toBind = p.toBind /\ t.shown = p.shown
  BY <1>6 DEF Names
<1> HIDE DEF t
<1>8. \A r \in due : /\ r \in Queryable /\ from <= r.ts /\ r.ts <= to
                     /\ r \in Record /\ r.seq <= seq
  <2>1. TAKE r \in due
  <2>2. r \in Queryable /\ InWindow(r, p)
    BY DEF due
  <2>3. r \in Record /\ r.seq <= seq
    BY <2>2, FilesAreFinite DEF Queryable, Live, SearchInv, FilesFit
  <2> QED
    BY <1>5, <2>2, <2>3 DEF InWindow, Planned
<1>9. now \in Nat /\ now <= now /\ from \in Int /\ to \in Int /\ <<>> \in Seq(Record)
  BY <1>4, SearchAssumption DEF SearchInv, FilesFit
<1>10. Fits(t)
  BY <1>2, <1>5, <1>6, <1>7, <1>8, <1>9, LimitIs DEF Fits, Planned
<1>11. PlanKept(t)
  BY <1>6, <1>7 DEF PlanKept, Late
<1>12. Going(t) /\ ~AtRest(t)
  BY <1>2, <1>5, <1>7, <1>11 DEF Going, Planned, AtRest
<1>13. Owed(t) \subseteq due
  BY <1>7 DEF Owed
<1>14. Pages(t)
  <2>1. Ordered(t.shown, t.asc)
    <3>1. Len(t.shown) = 0
      BY <1>2, <1>5, <1>7 DEF Planned
    <3> QED
      BY <3>1 DEF Ordered
  <2>2. t.cursor = NoCursor /\ t.step = "wait" /\ t.shown = <<>>
    BY <1>2, <1>5, <1>7 DEF Planned
  <2> QED
    BY <1>7, <1>8, <2>1, <2>2 DEF Pages, PagesAt, Behind
<1>15. Turning(t)
  <2>1. \A r \in t.due : InWindow(r, t)
    BY <1>5, <1>7, <1>8 DEF InWindow, Planned
  <2>2. t.stage = "page"
    BY <1>2, <1>5, <1>7 DEF Planned
  <2>3. Apart(t.plan)
    BY <1>6, <1>7
  <2>4. \A r \in Owed(t) : \E f \in t.plan : r \in files[f].records
    BY <1>6, <1>7, <1>8, <1>13
  <2> QED
    BY <2>1, <2>2, <2>3, <2>4 DEF Turning
<1>16. Knows(t)
  BY <1>2, <1>5, <1>7, <1>10, <1>12, <1>14, <1>15 DEF Knows, Planned
<1> QED
  BY <1>3, <1>16, AskKnows

LEMMA LastShown ==
  ASSUME NEW q \in Seq(Record), q # <<>>
  PROVE  Last(q) \in Record /\ Last(q) # NoCursor /\ Len(q) \in Nat \ {0}
<1>1. Len(q) \in Nat \ {0} /\ q[Len(q)] \in Record
  BY EmptySeq, LenProperties, ElementOfSeq
<1>2. \A r \in Record : r.seq # 0
  BY SearchAssumption DEF Record
<1>3. NoCursor.seq = 0
  BY DEF NoCursor
<1> QED
  BY <1>1, <1>2, <1>3 DEF Last

LEMMA AskNextPageKnows ==
  ASSUME IInv, SearchInv, NEW c \in Client, AskNextPage(c)
  PROVE  SearchInv'
<1> DEFINE u == client[c]
           s == [u EXCEPT !.stage = "page", !.hurt = FALSE, !.missing = {}]
           from == WindowOf(s).from
           to == WindowOf(s).to
           t == Plan(s, from, to)
<1>1. /\ s.step = "page" \/ (s.step = "failed" /\ s.cursor # NoCursor)
      /\ Ask(c, t)
  BY DEF AskNextPage
<1>2. Knows(u) /\ DOMAIN u = Names
  BY DEF SearchInv, Knows
<1>3. /\ DOMAIN s = Names /\ s.stage = "page" /\ s.hurt = FALSE /\ s.missing = {}
      /\ s.step = u.step /\ s.since = u.since /\ s.plan = u.plan /\ s.reads = u.reads
      /\ s.kind = u.kind /\ s.asc = u.asc /\ s.from = u.from /\ s.to = u.to
      /\ s.limit = u.limit /\ s.cursor = u.cursor /\ s.page = u.page /\ s.more = u.more
      /\ s.looked = u.looked /\ s.names = u.names
      /\ s.kept = u.kept /\ s.toBind = u.toBind /\ s.shown = u.shown /\ s.due = u.due
  BY <1>2 DEF Names
<1> HIDE DEF s
<1>4. u.kind = "search" /\ Pages(u) /\ u.step # "answered"
  BY <1>1, <1>2, <1>3 DEF Knows
<1>5. u.cursor # NoCursor
  <2>1. ASSUME u.step = "page" PROVE u.cursor # NoCursor
    <3>1. u.shown # <<>> /\ u.cursor = Last(u.shown) /\ u.shown \in Seq(Record)
      BY <1>2, <1>4, <2>1 DEF Pages, PagesAt, Knows, Fits
    <3> QED
      BY <3>1, LastShown
  <2> QED
    BY <1>1, <1>3, <2>1
<1>6. from = u.from /\ to = u.to
  BY <1>3, <1>5 DEF WindowOf
<1> HIDE DEF from, to
<1>7. Planned(s, t, from, to)
  BY <1>3, PlanIs
<1>8. /\ t.plan \subseteq DOMAIN files /\ PlanKept(t) /\ Apart(t.plan)
      /\ \A r \in Queryable : from <= r.ts /\ r.ts <= to =>
           \E f \in t.plan : r \in files[f].records
  BY <1>7, PlanHolds DEF SearchInv
<1> HIDE DEF t
<1>9. now \in Nat /\ now <= now
  BY SearchAssumption DEF SearchInv, FilesFit
<1>10. Fits(t)
  BY <1>2, <1>3, <1>6, <1>7, <1>8, <1>9 DEF Fits, Planned, Knows
<1>11. Going(t) /\ ~AtRest(t)
  BY <1>3, <1>4, <1>7, <1>8 DEF Going, Planned, AtRest
<1>12. /\ Owed(t) = Owed(u)
       /\ \A r : Behind(r, t) <=> Behind(r, u)
       /\ \A r : InWindow(r, t) <=> InWindow(r, u)
  BY <1>3, <1>6, <1>7 DEF Planned, Owed, Behind, InWindow
<1>13. \A r \in u.due : InWindow(r, u)
  BY <1>4, <1>5 DEF Pages, PagesAt
<1>14. Pages(t)
  BY <1>3, <1>4, <1>7, <1>12 DEF Planned, Pages, PagesAt
<1>15. Turning(t)
  <2>1. \A r \in Owed(t) : \E f \in t.plan : r \in files[f].records
    <3>1. \A r \in Owed(t) : r \in Queryable /\ r \in u.due
      BY <1>12 DEF Owed
    <3>2. \A r \in u.due : from <= r.ts /\ r.ts <= to
      BY <1>6, <1>13 DEF InWindow
    <3> QED
      BY <1>8, <3>1, <3>2
  <2> QED
    BY <1>3, <1>7, <1>8, <1>12, <1>13, <2>1 DEF Turning, Planned
<1>16. Knows(t)
  BY <1>3, <1>4, <1>7, <1>10, <1>11, <1>14, <1>15 DEF Knows, Planned
<1> QED
  BY <1>1, <1>16, AskKnows

------------------------------------------------------------------------------
(* The page. *)

LEMMA SpanHolds ==
  ASSUME FilesFit, NEW f \in DOMAIN files, NEW r \in files[f].records
  PROVE  r.seq \in SpanOf(f)
<1> DEFINE R == files[f].records
           S == {x.seq : x \in R}
           key == [x \in R |-> x.seq]
<1>1. R \subseteq Record /\ IsFiniteSet(R)
  BY FilesAreFinite
<1>2. \A x \in R : x.seq \in Int
  BY <1>1, SearchAssumption DEF Record
<1>3. S \subseteq Int /\ r.seq \in S /\ S # {}
  BY <1>2
<1>4. key \in Surjection(R, S)
  BY DEF Surjection
<1>5. IsFiniteSet(S)
  BY <1>1, <1>4, FS_Surjection
<1> HIDE DEF S, R
<1>6. /\ Min(S) \in S /\ Min(S) <= r.seq
      /\ Max(S) \in S /\ r.seq <= Max(S)
  BY <1>3, <1>5, MinIs, MaxIs
<1>7. SpanOf(f) = Min(S) .. Max(S)
  BY DEF SpanOf, S, R
<1>8. Min(S) \in Int /\ Max(S) \in Int /\ r.seq \in Int
  BY <1>3, <1>6
<1> QED
  BY <1>6, <1>7, <1>8

LEMMA MinOfTwo ==
  ASSUME NEW a \in Nat, NEW b \in Nat
  PROVE  Min({a, b}) = IF a <= b THEN a ELSE b
<1>1. IsFiniteSet({a, b})
  <2>1. {a, b} = {a} \cup {b} /\ IsFiniteSet({a}) /\ IsFiniteSet({b})
    BY FS_Singleton
  <2> QED
    BY <2>1, FS_Union
<1>2. {a, b} \in SUBSET Int /\ {a, b} # {}
  OBVIOUS
<1>3. Min({a, b}) \in {a, b} /\ \A x \in {a, b} : Min({a, b}) <= x
  BY <1>1, <1>2, MinIs
<1> QED
  BY <1>3

LEMMA OrderedConcat ==
  ASSUME NEW p \in Seq(Record), NEW q \in Seq(Record), NEW asc,
         Ordered(p, asc), Ordered(q, asc),
         p # <<>> /\ q # <<>> => Before(Last(p), q[1], asc)
  PROVE  /\ p \o q \in Seq(Record) /\ Ordered(p \o q, asc)
         /\ ToSet(p \o q) = ToSet(p) \cup ToSet(q)
         /\ q # <<>> => p \o q # <<>> /\ Last(p \o q) = Last(q)
<1>1. /\ p \o q \in Seq(Record) /\ Len(p \o q) = Len(p) + Len(q)
      /\ \A i \in 1 .. Len(p) + Len(q) :
           (p \o q)[i] = IF i <= Len(p) THEN p[i] ELSE q[i - Len(p)]
  BY ConcatProperties
<1>2. Len(p) \in Nat /\ Len(q) \in Nat /\ (p = <<>> <=> Len(p) = 0) /\ (q = <<>> <=> Len(q) = 0)
  BY EmptySeq, LenProperties
<1> DEFINE m == Len(p)
           n == Len(q)
           w == p \o q
<1>3. /\ \A i \in 1 .. m : w[i] = p[i] /\ i \in 1 .. m + n
      /\ \A i \in 1 .. n : w[m + i] = q[i] /\ m + i \in 1 .. m + n
  <2>1. \A i \in 1 .. m : i \in 1 .. m + n /\ i <= m
    BY <1>2
  <2>2. \A i \in 1 .. n : m + i \in 1 .. m + n /\ ~ (m + i <= m) /\ (m + i) - m = i
    BY <1>2
  <2> QED
    BY <1>1, <2>1, <2>2
<1>4. w \in Seq(Record) /\ Len(w) = m + n
  BY <1>1
<1> HIDE DEF w
<1>5. ToSet(w) = ToSet(p) \cup ToSet(q)
  <2>1. /\ ToSet(w) = {w[i] : i \in 1 .. m + n}
        /\ ToSet(p) = {p[i] : i \in 1 .. m}
        /\ ToSet(q) = {q[i] : i \in 1 .. n}
    BY <1>4, ToSetIs
  <2>2. ASSUME NEW i \in 1 .. m + n PROVE w[i] \in ToSet(p) \cup ToSet(q)
    <3>1. CASE i <= m
      BY <1>2, <1>3, <2>1, <3>1
    <3>2. CASE ~ (i <= m)
      <4>1. i - m \in 1 .. n /\ m + (i - m) = i
        BY <1>2, <3>2
      <4>2. w[i] = q[i - m]
        BY <1>3, <4>1
      <4> QED
        BY <2>1, <4>1, <4>2
    <3> QED
      BY <3>1, <3>2
  <2>3. \A i \in 1 .. m : p[i] \in ToSet(w)
    BY <1>3, <2>1
  <2>4. \A i \in 1 .. n : q[i] \in ToSet(w)
    BY <1>3, <2>1
  <2> QED
    BY <2>1, <2>2, <2>3, <2>4
<1>6. Ordered(w, asc)
  <2> SUFFICES ASSUME NEW i \in 1 .. (m + n) - 1 PROVE Before(w[i], w[i + 1], asc)
    BY <1>4 DEF Ordered
  <2>1. CASE i + 1 <= m
    <3>1. i \in 1 .. m /\ i + 1 \in 1 .. m /\ i \in 1 .. m - 1
      BY <1>2, <2>1
    <3>2. w[i] = p[i] /\ w[i + 1] = p[i + 1]
      BY <1>3, <3>1
    <3> QED
      BY <3>1, <3>2 DEF Ordered
  <2>2. CASE i = m
    <3>1. i \in 1 .. m /\ 1 \in 1 .. n /\ m # 0 /\ n # 0
      BY <1>2, <2>2
    <3>2. w[i] = p[m] /\ w[i + 1] = q[1]
      BY <1>3, <2>2, <3>1
    <3> QED
      BY <1>2, <3>1, <3>2 DEF Last
  <2>3. CASE i > m
    <3>1. /\ i - m \in 1 .. n - 1 /\ i - m \in 1 .. n /\ (i - m) + 1 \in 1 .. n
          /\ m + (i - m) = i /\ m + ((i - m) + 1) = i + 1
      BY <1>2, <2>3
    <3>2. w[i] = q[i - m] /\ w[i + 1] = q[(i - m) + 1]
      BY <1>3, <3>1
    <3> QED
      BY <3>1, <3>2 DEF Ordered
  <2> QED
    BY <1>2, <2>1, <2>2, <2>3
<1>7. q # <<>> => w # <<>> /\ Last(w) = Last(q)
  <2> SUFFICES ASSUME q # <<>> PROVE w # <<>> /\ Last(w) = Last(q)
    OBVIOUS
  <2>1. n \in 1 .. n /\ m + n # 0
    BY <1>2
  <2>2. w[m + n] = q[n]
    BY <1>3, <2>1
  <2> QED
    BY <1>4, <2>1, <2>2, EmptySeq DEF Last
<1> QED
  BY <1>4, <1>5, <1>6, <1>7 DEF w

\* What a search has to know to restore fields, or return.
Filled(s) ==
  /\ Ordered(s.page, s.asc)
  /\ \A i \in 1 .. Len(s.page) : Behind(s.page[i], s)
  /\ s.more => s.page # <<>>
  /\ \A r \in Owed(s) : \/ r \in ToSet(s.page)
                        \/ s.more /\ Before(Last(s.page), r, s.asc)

LEMMA RestoreNextKnows ==
  ASSUME FilesFit, NEW s, DOMAIN s = Names, Fits(s), s.kind = "search",
         PlanKept(s), PagesAt(s, "wait"), Apart(s.plan), \A r \in s.due : InWindow(r, s),
         Filled(s), NEW looked,
         MayFail(s) \/ \A r \in s.missing : \E f \in s.plan \ looked : r \in files[f].records
  PROVE  Knows(RestoreNext(s, looked))
<1> DEFINE left == {f \in s.plan \ looked : Holding(f, s.missing)}
           v == [s EXCEPT !.step = "wait", !.stage = "restore",
                          !.looked = looked, !.reads = {Min(left)}]
           u == [s EXCEPT !.shown = @ \o s.page, !.cursor = IF s.more THEN Last(s.page) ELSE @]
           step == IF s.more THEN "page" ELSE "answered"
<1>1. RestoreNext(s, looked) = IF left # {} THEN v ELSE Return(u, step)
  BY DEF RestoreNext
<1>2. s.plan \subseteq DOMAIN files
  BY DEF Fits
<1>3. CASE left # {}
  <2>1. Min(left) \in s.plan
    <3>1. left \in SUBSET s.plan /\ left \in SUBSET Int
      BY <1>2, FilesAreFinite
    <3>2. IsFiniteSet(left)
      BY <1>2, <3>1, FilesAreFinite, FS_Subset
    <3> HIDE DEF left
    <3> QED
      BY <1>3, <3>1, <3>2, MinIs
  <2> HIDE DEF left
  <2>2. /\ DOMAIN v = Names /\ v.step = "wait" /\ v.stage = "restore" /\ v.looked = looked
        /\ v.reads = {Min(left)} /\ v.kind = s.kind /\ v.hurt = s.hurt /\ v.plan = s.plan
        /\ v.since = s.since /\ v.from = s.from /\ v.to = s.to
        /\ v.asc = s.asc /\ v.limit = s.limit /\ v.cursor = s.cursor /\ v.page = s.page
        /\ v.more = s.more /\ v.missing = s.missing /\ v.names = s.names /\ v.kept = s.kept
        /\ v.toBind = s.toBind /\ v.shown = s.shown /\ v.due = s.due
    BY DEF Names
  <2>3. RestoreNext(s, looked) = v
    BY <1>1, <1>3
  <2> HIDE DEF v
  <2>4. Fits(v) /\ ~AtRest(v)
    BY <2>1, <2>2 DEF Fits, AtRest
  <2>5. (Late(v) <=> Late(s)) /\ (MayFail(v) <=> MayFail(s))
    BY <2>2 DEF Late, MayFail
  <2>6. PlanKept(v) /\ (MayFail(v) \/ FieldsAhead(v))
    BY <2>2, <2>5 DEF PlanKept, FieldsAhead
  <2>7. Going(v)
    BY <2>2, <2>6 DEF Going
  <2>8. /\ Owed(v) = Owed(s)
        /\ \A r : Behind(r, v) <=> Behind(r, s)
        /\ \A r : InWindow(r, v) <=> InWindow(r, s)
    BY <2>2 DEF Owed, Behind, InWindow
  <2>9. Pages(v)
    BY <2>2, <2>8 DEF Pages, PagesAt
  <2>10. Turning(v)
    BY <2>2, <2>8 DEF Turning, Filled
  <2> QED
    BY <2>2, <2>3, <2>4, <2>7, <2>9, <2>10 DEF Knows
<1>4. CASE left = {}
  <2> DEFINE cursor == IF s.more THEN Last(s.page) ELSE s.cursor
             t == Return(u, step)
  <2>1. /\ DOMAIN u = Names /\ u.shown = s.shown \o s.page /\ u.cursor = cursor
        /\ u.step = s.step /\ u.kind = s.kind /\ u.hurt = s.hurt /\ u.plan = s.plan
        /\ u.reads = s.reads /\ u.since = s.since /\ u.from = s.from /\ u.to = s.to
        /\ u.asc = s.asc /\ u.limit = s.limit /\ u.page = s.page
        /\ u.more = s.more /\ u.missing = s.missing /\ u.names = s.names /\ u.kept = s.kept
        /\ u.due = s.due
    BY DEF Names
  <2>2. RestoreNext(s, looked) = t /\ step \in {"page", "answered"}
    BY <1>1, <1>4
  <2> HIDE DEF u
  <2>3. s.page \in Seq(Record) /\ s.shown \in Seq(Record) /\ s.more \in BOOLEAN
    BY DEF Fits
  <2>4. s.shown # <<>> /\ s.page # <<>> => Before(Last(s.shown), s.page[1], s.asc)
    <3> SUFFICES ASSUME s.shown # <<>>, s.page # <<>>
                 PROVE  Before(Last(s.shown), s.page[1], s.asc)
      OBVIOUS
    <3>1. s.cursor = Last(s.shown) /\ s.cursor # NoCursor
      BY <2>3, LastShown DEF PagesAt
    <3>2. 1 \in 1 .. Len(s.page)
      BY <2>3, EmptySeq, LenProperties
    <3> QED
      BY <3>1, <3>2 DEF Filled, Behind
  <2>5. /\ u.shown \in Seq(Record) /\ Ordered(u.shown, s.asc)
        /\ ToSet(u.shown) = ToSet(s.shown) \cup ToSet(s.page)
        /\ s.page # <<>> => u.shown # <<>> /\ Last(u.shown) = Last(s.page)
    BY <2>1, <2>3, <2>4, OrderedConcat DEF PagesAt, Filled
  <2>6. Fits(u)
    <3>1. cursor \in Record \cup {NoCursor}
      BY <2>3, LastShown DEF Fits, Filled
    <3> HIDE DEF cursor
    <3> QED
      BY <2>1, <2>5, <3>1 DEF Fits
  <2>7. Returned(u, t, step)
    BY <2>1, ReturnIs
  <2> HIDE DEF t
  <2>8. MayFail(u) <=> MayFail(s)
    BY <2>1 DEF MayFail, Late
  <2>9. ExplainedAt(t, step)
    <3>1. CASE MayFail(s)
      BY <2>7, <2>8, <3>1 DEF ExplainedAt, Returned
    <3>2. CASE ~MayFail(s)
      <4>1. ASSUME NEW r \in s.missing PROVE FALSE
        <5>1. PICK f \in s.plan \ looked : r \in files[f].records
          BY <3>2
        <5>2. r.seq \in SpanOf(f)
          BY <1>2, <5>1, SpanHolds
        <5>3. Holding(f, s.missing)
          BY <5>2 DEF Holding
        <5> QED
          BY <1>4, <5>1, <5>3
      <4>2. t.missing = {} /\ t.kind = "search"
        BY <2>1, <2>7, <4>1 DEF Returned
      <4> QED
        BY <2>2, <4>2 DEF ExplainedAt
    <3> QED
      BY <3>1, <3>2
  <2>10. Owed(u) \subseteq Owed(s) /\ \A r \in Owed(u) : r \notin ToSet(s.page)
    BY <2>1, <2>5 DEF Owed
  <2>11. \A r \in Owed(u) : s.more /\ Before(Last(s.page), r, s.asc)
    BY <2>10 DEF Filled
  <2>12. PagesAt(u, step)
    <3>1. \A r \in u.due : InWindow(r, u) /\ r.seq <= seq
      BY <2>1 DEF InWindow, PagesAt
    <3>2. CASE s.more
      <4>1. u.cursor = Last(s.page) /\ u.shown # <<>> /\ u.cursor = Last(u.shown)
        BY <2>1, <2>5, <3>2 DEF Filled
      <4>2. \A r \in Owed(u) : Behind(r, u)
        BY <2>1, <2>11, <4>1 DEF Behind
      <4> QED
        BY <2>1, <2>5, <3>1, <3>2, <4>1, <4>2 DEF PagesAt
    <3>3. CASE ~s.more
      <4>1. Owed(u) = {}
        BY <2>11, <3>3
      <4> QED
        BY <2>1, <2>5, <3>1, <3>3, <4>1 DEF PagesAt
    <3> QED
      BY <3>2, <3>3
  <2>13. Knows(t)
    BY <2>1, <2>2, <2>6, <2>7, <2>9, <2>12, ReturnedKnows
  <2> QED
    BY <2>2, <2>13
<1> QED
  BY <1>3, <1>4

LEMMA PrefixIs ==
  ASSUME NEW S, NEW q \in Seq(S), NEW k \in Nat, k <= Len(q)
  PROVE  /\ SubSeq(q, 1, k) \in Seq(S) /\ Len(SubSeq(q, 1, k)) = k
         /\ \A i \in 1 .. k : SubSeq(q, 1, k)[i] = q[i]
<1>1. \A i \in 1 .. k : q[i] \in S
  BY LenProperties, ElementOfSeq
<1>2. /\ SubSeq(q, 1, k) \in Seq(S)
      /\ Len(SubSeq(q, 1, k)) = (IF 1 <= k THEN k - 1 + 1 ELSE 0)
      /\ \A i \in 1 .. k - 1 + 1 : SubSeq(q, 1, k)[i] = q[1 + i - 1]
  BY <1>1, SubSeqProperties
<1> QED
  BY <1>2

PageOf(s, rows, page) ==
  /\ rows = [i \in 1 .. Len(Rows(s)) |-> Rows(s)[i][1]]
  /\ page = SubSeq(rows, 1, Min({Len(rows), s.limit}))

\* A page is the first rows there are, of records not in two files; what it leaves out
\* comes after it.
LEMMA PageIs ==
  ASSUME FilesFit, NEW s, s.plan \subseteq DOMAIN files, s.asc \in BOOLEAN,
         s.limit \in Nat \ {0}, Apart(s.plan),
         NEW rows, NEW page, PageOf(s, rows, page)
  PROVE  /\ page \in Seq(Record) /\ Ordered(page, s.asc)
         /\ \A i \in 1 .. Len(page) : Behind(page[i], s)
         /\ Len(rows) > s.limit => page # <<>>
         /\ \A r \in ToSet(page) : \E f \in s.plan : r \in files[f].records
         /\ \A row \in Matching(s) :
              \/ row[1] \in ToSet(page)
              \/ Len(rows) > s.limit /\ Before(Last(page), row[1], s.asc)
<1> DEFINE n == Len(Rows(s))
           k == Min({n, s.limit})
<1>1. /\ n \in Nat
      /\ \A i \in 1 .. n : Rows(s)[i] \in Matching(s)
      /\ \A row \in Matching(s) : \E i \in 1 .. n : Rows(s)[i] = row
      /\ \A i, j \in 1 .. n : i < j => Rows(s)[i] \in Ahead(Rows(s)[j], s)
  BY RowsAre
<1> HIDE DEF n
<1>2. /\ rows = [i \in 1 .. n |-> Rows(s)[i][1]]
      /\ page = SubSeq(rows, 1, Min({Len(rows), s.limit}))
  BY DEF n, PageOf
<1>3. Len(rows) = n /\ \A i \in 1 .. n : rows[i] = Rows(s)[i][1]
  BY <1>1, <1>2
<1>4. k \in Nat /\ k <= n /\ (n > s.limit => k = s.limit) /\ (~ (n > s.limit) => k = n)
  BY <1>1, MinOfTwo
<1>5. page = SubSeq(rows, 1, k)
  BY <1>2, <1>3
<1> HIDE DEF k
<1>6. \A row \in Matching(s) : /\ row[1] \in Record /\ row[2] \in s.plan
                               /\ row[1] \in files[row[2]].records
                               /\ Behind(row[1], s)
  BY DEF Matching
<1>7. \A i, j \in 1 .. n : i < j => Before(rows[i], rows[j], s.asc)
  <2>1. TAKE i, j \in 1 .. n
  <2>2. HAVE i < j
  <2> DEFINE a == Rows(s)[i]
             b == Rows(s)[j]
  <2>3. a \in Matching(s) /\ b \in Matching(s) /\ a \in Ahead(b, s)
    BY <1>1, <2>2
  <2>4. \/ Before(a[1], b[1], s.asc)
        \/ (a[1] = b[1] /\ a[2] < b[2])
    BY <2>3 DEF Ahead
  <2>5. a[2] # b[2] => a[1] # b[1]
    BY <1>6, <2>3 DEF Apart
  <2>6. a[2] \in Int /\ b[2] \in Int
    BY <1>6, <2>3, FilesAreFinite
  <2>7. a[2] < b[2] => a[2] # b[2]
    BY <2>6
  <2> HIDE DEF a, b
  <2>8. Before(a[1], b[1], s.asc)
    BY <2>4, <2>5, <2>7
  <2> QED
    BY <1>3, <2>8 DEF a, b
<1>8. \A i \in 1 .. n : rows[i] \in Record
  BY <1>1, <1>3, <1>6
<1>9. /\ page \in Seq(Record) /\ Len(page) = k
      /\ \A i \in 1 .. k : page[i] = rows[i] /\ i \in 1 .. n
  <2>1. rows \in Seq(Record)
    BY <1>1, <1>2, <1>3, <1>8
  <2>2. /\ SubSeq(rows, 1, k) \in Seq(Record) /\ Len(SubSeq(rows, 1, k)) = k
        /\ \A i \in 1 .. k : SubSeq(rows, 1, k)[i] = rows[i]
    BY <1>3, <1>4, <2>1, PrefixIs
  <2>3. \A i \in 1 .. k : i \in 1 .. n
    BY <1>1, <1>4
  <2> QED
    BY <1>5, <2>2, <2>3, Zenon
<1>10. Ordered(page, s.asc)
  <2>1. \A i \in 1 .. k - 1 : i \in 1 .. k /\ i + 1 \in 1 .. k /\ i < i + 1
    BY <1>4
  <2>2. \A i \in 1 .. k - 1 : Before(page[i], page[i + 1], s.asc)
    BY <1>7, <1>9, <2>1
  <2> QED
    BY <1>9, <2>2 DEF Ordered
<1>11. \A i \in 1 .. k : Behind(page[i], s) /\ \E f \in s.plan : page[i] \in files[f].records
  <2>1. TAKE i \in 1 .. k
  <2>2. page[i] = Rows(s)[i][1] /\ Rows(s)[i] \in Matching(s)
    BY <1>1, <1>3, <1>9
  <2> QED
    BY <1>6, <2>2
<1>12. n > s.limit => page # <<>>
  <2>1. n > s.limit => k # 0
    BY <1>4
  <2> QED
    BY <1>9, <2>1, EmptySeq
<1>13. ToSet(page) = {page[i] : i \in 1 .. k}
  <2>1. ToSet(page) = {page[i] : i \in 1 .. Len(page)}
    BY <1>9, ToSetIs, Zenon
  <2> QED
    BY <1>9, <2>1, Zenon
<1>14. ASSUME NEW row \in Matching(s)
       PROVE  \/ row[1] \in ToSet(page)
              \/ n > s.limit /\ Before(Last(page), row[1], s.asc)
  <2>1. PICK i \in 1 .. n : Rows(s)[i] = row
    BY <1>1
  <2>2. rows[i] = row[1]
    BY <1>3, <2>1
  <2>3. CASE i <= k
    <3>1. i \in 1 .. k
      BY <1>4, <2>3
    <3> QED
      BY <1>9, <1>13, <2>2, <3>1
  <2>4. CASE ~ (i <= k)
    <3>1. n > s.limit /\ k \in 1 .. k /\ k \in 1 .. n /\ k < i
      BY <1>1, <1>4, <2>4
    <3>2. Last(page) = rows[k]
      BY <1>9, <3>1 DEF Last
    <3> QED
      BY <1>7, <2>2, <3>1, <3>2
  <2> QED
    BY <2>3, <2>4
<1> QED
  BY <1>3, <1>9, <1>10, <1>11, <1>12, <1>13, <1>14

LEMMA PageKnows ==
  ASSUME IInv, SearchInv, NEW c \in Client, Page(c)
  PROVE  SearchInv'
<1> DEFINE s == client[c]
           rows == [i \in 1 .. Len(Rows(s)) |-> Rows(s)[i][1]]
           page == SubSeq(rows, 1, Min({Len(rows), s.limit}))
           more == Len(rows) > s.limit
<1>1. s.step = "run" /\ s.stage = "page" /\ ~MustFail(s)
  BY DEF Page
<1>2. PICK missing \in SUBSET ToSet(page) :
        End(c, RestoreNext([s EXCEPT !.page = page, !.missing = missing, !.more = more], {}))
  BY DEF Page
<1>3. /\ Knows(s) /\ ~AtRest(s) /\ DOMAIN s = Names /\ Fits(s) /\ Going(s) /\ FilesFit
  BY <1>1 DEF SearchInv, Knows, AtRest
<1>4. s.kind = "search" /\ Pages(s) /\ Turning(s)
  BY <1>1, <1>3 DEF Going, Knows, Fits
<1>5. /\ page \in Seq(Record) /\ Ordered(page, s.asc)
      /\ \A i \in 1 .. Len(page) : Behind(page[i], s)
      /\ more => page # <<>>
      /\ \A r \in ToSet(page) : \E f \in s.plan : r \in files[f].records
      /\ \A row \in Matching(s) :
           \/ row[1] \in ToSet(page)
           \/ more /\ Before(Last(page), row[1], s.asc)
  <2> HIDE DEF rows
  <2> DEFINE q == page
  <2>1. rows = [i \in 1 .. Len(Rows(s)) |-> Rows(s)[i][1]]
    BY DEF rows
  <2>2. q = SubSeq(rows, 1, Min({Len(rows), s.limit}))
    OBVIOUS
  <2> HIDE DEF q
  <2>4. PageOf(s, rows, q)
    BY <2>1, <2>2 DEF PageOf
  <2>3. /\ q \in Seq(Record) /\ Ordered(q, s.asc)
        /\ \A i \in 1 .. Len(q) : Behind(q[i], s)
        /\ Len(rows) > s.limit => q # <<>>
        /\ \A r \in ToSet(q) : \E f \in s.plan : r \in files[f].records
        /\ \A row \in Matching(s) :
             \/ row[1] \in ToSet(q)
             \/ Len(rows) > s.limit /\ Before(Last(q), row[1], s.asc)
    BY <1>3, <1>4, <2>4, PageIs DEF Fits, Turning
  <2> QED
    BY <2>3 DEF q
<1>6. more \in BOOLEAN
  OBVIOUS
<1> HIDE DEF rows, page, more
<1> DEFINE t == [s EXCEPT !.page = page, !.missing = missing, !.more = more]
<1>7. /\ DOMAIN t = Names /\ t.page = page /\ t.missing = missing /\ t.more = more
      /\ t.step = s.step /\ t.stage = s.stage /\ t.looked = s.looked
      /\ t.reads = s.reads /\ t.kind = s.kind /\ t.hurt = s.hurt /\ t.plan = s.plan
      /\ t.since = s.since /\ t.from = s.from /\ t.to = s.to
      /\ t.asc = s.asc /\ t.limit = s.limit /\ t.cursor = s.cursor
      /\ t.names = s.names /\ t.kept = s.kept
      /\ t.toBind = s.toBind /\ t.shown = s.shown /\ t.due = s.due
  BY <1>3 DEF Names
<1>8. End(c, RestoreNext(t, {}))
  BY <1>2
<1> HIDE DEF t
<1>9. missing \subseteq Record
  BY <1>5, ToSetIs
<1>10. Fits(t)
  BY <1>3, <1>5, <1>6, <1>7, <1>9 DEF Fits
<1>11. PlanKept(t)
  BY <1>3, <1>7 DEF Going, PlanKept, Late
<1>12. /\ Owed(t) = Owed(s)
       /\ \A r : Behind(r, t) <=> Behind(r, s)
       /\ \A r : InWindow(r, t) <=> InWindow(r, s)
  BY <1>7 DEF Owed, Behind, InWindow
<1>13. PagesAt(t, "wait")
  BY <1>1, <1>4, <1>7, <1>12 DEF Pages, PagesAt
<1>14. Apart(t.plan) /\ \A r \in t.due : InWindow(r, t)
  BY <1>4, <1>7, <1>12 DEF Turning
<1>15. \A r \in Owed(s) : r \in ToSet(page) \/ (more /\ Before(Last(page), r, s.asc))
  <2>1. TAKE r \in Owed(s)
  <2>2. PICK f \in s.plan : files[f].state = "gone" \/ r \in files[f].records
    BY <1>1, <1>4 DEF Turning
  <2>3. files[f].state # "gone"
    BY <1>1, <1>3 DEF Going, MustFail
  <2>4. r \in s.due /\ InWindow(r, s) /\ Behind(r, s) /\ r \in Record
    BY <1>1, <1>3, <1>4 DEF Turning, Owed, Pages, PagesAt, Fits
  <2>5. <<r, f>> \in Matching(s)
    BY <2>2, <2>3, <2>4 DEF Matching
  <2>6. <<r, f>>[1] = r
    OBVIOUS
  <2> QED
    BY <1>5, <2>5, <2>6
<1>16. Filled(t)
  BY <1>5, <1>7, <1>12, <1>15 DEF Filled
<1>17. \A r \in t.missing : \E f \in t.plan \ {} : r \in files[f].records
  BY <1>5, <1>7
<1>18. Knows(RestoreNext(t, {}))
  BY <1>3, <1>4, <1>7, <1>10, <1>11, <1>13, <1>14, <1>16, <1>17, RestoreNextKnows
<1> QED
  BY <1>8, <1>18, EndKnows

LEMMA RestoreKnows ==
  ASSUME IInv, SearchInv, NEW c \in Client, Restore(c)
  PROVE  SearchInv'
<1> DEFINE s == client[c]
           found == UNION {files[f].records : f \in s.reads}
           looked == s.looked \cup s.reads
           t == [s EXCEPT !.missing = @ \ found]
<1>1. s.step = "run" /\ s.stage = "restore" /\ End(c, RestoreNext(t, looked))
  BY DEF Restore
<1>2. /\ Knows(s) /\ ~AtRest(s) /\ DOMAIN s = Names /\ Fits(s) /\ Going(s) /\ FilesFit
  BY <1>1 DEF SearchInv, Knows, AtRest
<1>3. s.kind = "search" /\ Pages(s) /\ Turning(s)
  BY <1>1, <1>2 DEF Going, Knows, Fits
<1>4. \A f \in s.reads : files[f].records \subseteq found
  OBVIOUS
<1> HIDE DEF found
<1>5. /\ DOMAIN t = Names /\ t.missing = s.missing \ found
      /\ t.page = s.page /\ t.more = s.more
      /\ t.step = s.step /\ t.stage = s.stage /\ t.looked = s.looked
      /\ t.reads = s.reads /\ t.kind = s.kind /\ t.hurt = s.hurt /\ t.plan = s.plan
      /\ t.since = s.since /\ t.from = s.from /\ t.to = s.to
      /\ t.asc = s.asc /\ t.limit = s.limit /\ t.cursor = s.cursor
      /\ t.names = s.names /\ t.kept = s.kept
      /\ t.toBind = s.toBind /\ t.shown = s.shown /\ t.due = s.due
  BY <1>2 DEF Names
<1> HIDE DEF t
<1>6. Fits(t)
  BY <1>2, <1>5 DEF Fits
<1>7. PlanKept(t) /\ (MayFail(t) <=> MayFail(s))
  BY <1>2, <1>5 DEF Going, PlanKept, MayFail, Late
<1>8. /\ Owed(t) = Owed(s)
      /\ \A r : Behind(r, t) <=> Behind(r, s)
      /\ \A r : InWindow(r, t) <=> InWindow(r, s)
  BY <1>5 DEF Owed, Behind, InWindow
<1>9. PagesAt(t, "wait")
  BY <1>1, <1>3, <1>5, <1>8 DEF Pages, PagesAt
<1>10. Apart(t.plan) /\ \A r \in t.due : InWindow(r, t)
  BY <1>3, <1>5, <1>8 DEF Turning
<1>11. Filled(t)
  BY <1>1, <1>3, <1>5, <1>8 DEF Filled, Turning
<1>12. MayFail(t) \/ \A r \in t.missing : \E f \in t.plan \ looked : r \in files[f].records
  <2>1. CASE MayFail(s)
    BY <1>7, <2>1
  <2>2. CASE FieldsAhead(s)
    BY <1>4, <1>5, <2>2 DEF FieldsAhead
  <2> QED
    BY <1>1, <1>2, <2>1, <2>2 DEF Going
<1> HIDE DEF looked
<1>13. Knows(RestoreNext(t, looked))
  BY <1>2, <1>3, <1>5, <1>6, <1>7, <1>9, <1>10, <1>11, <1>12, RestoreNextKnows
<1> QED
  BY <1>1, <1>13, EndKnows

------------------------------------------------------------------------------

LEMMA InitKnows ==
  ASSUME Init
  PROVE  SearchInv
<1>1. seq = 0 /\ files = <<>> /\ now = 0 /\ client = [c \in Client |-> Idle]
  BY DEF Init
<1>2. FilesFit
  <2>1. 0 \in 0 .. MaxNow /\ 0 \in Nat /\ <<>> \in Seq(File) /\ DOMAIN files = {}
    BY <1>1, SearchAssumption
  <2> QED
    BY <1>1, <2>1 DEF FilesFit, Live
<1> QED
  BY <1>1, <1>2, IdleKnows DEF SearchInv

LEMMA StorageKnows ==
  ASSUME SearchInv, Flush \/ Merge \/ Collect \/ Tick
  PROVE  SearchInv'
<1>1. FilesFit' /\ Ages
  BY FlushFiles, MergeFiles, CollectFiles, TickFiles DEF SearchInv
<1> QED
  BY <1>1, AgesKnows DEF SearchInv

LEMMA NextKnows ==
  ASSUME IInv, SearchInv, [Next]_vars
  PROVE  SearchInv'
<1>1. CASE Flush \/ Merge \/ Collect \/ Tick
  BY <1>1, StorageKnows
<1>2. ASSUME NEW c \in Client, Query(c)
      PROVE  SearchInv'
  BY <1>2, AskSearchKnows, AskNextPageKnows, AskScanKnows, AskCountsKnows, AcquireKnows,
     FailKnows, PageKnows, RestoreKnows, SucceedKnows, LeaveKnows DEF Query
<1>3. CASE UNCHANGED vars
  <2>1. UNCHANGED <<seq, files, now>> /\ client' = client
    BY <1>3 DEF vars
  <2>2. FilesFit'
    BY <2>1, FilesStay DEF SearchInv
  <2>3. ASSUME NEW c \in Client PROVE Knows(client[c])'
    BY <2>1, StillKnows DEF SearchInv
  <2> QED
    BY <2>2, <2>3 DEF SearchInv
<1> QED
  BY <1>1, <1>2, <1>3 DEF Next

\* What each request knows of its plan, of what it may fail of and of what it has yet
\* to show, through flushes, merges, retention and deletion between its statements
\* (query, Search, restoreFields, FieldCounts; Prune, Replace and collect beside them).
THEOREM SearchInvariant == Spec => [](IInv /\ SearchInv)
<1>1. Init => IInv /\ SearchInv
  BY InitPermits, InitKnows
<1>2. (IInv /\ SearchInv) /\ [Next]_vars => (IInv /\ SearchInv)'
  BY NextPermits, NextKnows
<1> QED
  BY <1>1, <1>2, PTL DEF Spec

\* However many files, records, fields and requests there are, a request that fails
\* has failed for a cause the client can be told, counts leave out just the fields that
\* cannot be read, and a page comes with all its fields (Search, restoreFields,
\* FieldCounts).
THEOREM FailuresAreExplained == Spec => []FailuresHaveCauses
<1>1. IInv /\ SearchInv => FailuresHaveCauses
  BY DEF SearchInv, Knows, Explained, ExplainedAt, FailuresHaveCauses
<1> QED
  BY <1>1, SearchInvariant, PTL

\* The pages of a search, put together, are in order and without repetition, and the
\* last of them completes what could be queried at first, whatever was flushed, merged,
\* dropped or deleted between them and whichever were asked for again (Search and its
\* Cursor).
THEOREM PagesArePartition == Spec => []PagesPartition
<1>1. IInv /\ SearchInv => PagesPartition
  <2> SUFFICES ASSUME SearchInv, NEW c \in Client, client[c].kind = "search"
               PROVE  LET s == client[c]
                      IN  /\ \A i \in 1 .. Len(s.shown) - 1 :
                               Before(s.shown[i], s.shown[i + 1], s.asc)
                          /\ s.step = "answered" => s.due \cap Queryable \subseteq ToSet(s.shown)
    BY DEF PagesPartition
  <2>1. Pages(client[c])
    BY DEF SearchInv, Knows
  <2> QED
    BY <2>1 DEF Pages, PagesAt, Ordered, Owed
<1> QED
  BY <1>1, SearchInvariant, PTL
=============================================================================
