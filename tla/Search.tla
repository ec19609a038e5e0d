-------------------------------- MODULE Search --------------------------------
(***************************************************************************)
(* The query engine (internal/query).  A request plans against the         *)
(* catalogue, waits for one of a few permits, and runs its statement over  *)
(* the files it planned.  A search returns a page and a cursor, and reads  *)
(* the columns of some files again, with a permit for each; field counts   *)
(* fall back to a statement for each field.  Meanwhile files are flushed,  *)
(* merged, expired and, a grace period after that, deleted.                *)
(*                                                                         *)
(* The filter is left out: every record of the window matches, and every   *)
(* file has columns.  Planning is one step, between which and the reading  *)
(* anything may happen.                                                    *)
(***************************************************************************)
EXTENDS Sorting, Sequences, FiniteSetsExt, SequencesExt

CONSTANTS
  Client,       \* connections that send requests, one at a time
  Asks,         \* the kinds of request each sends
  Concurrency,  \* permits
  DefaultLimit, \* rows of a page when the request does not say
  MaxRows,      \* most rows of a page
  Asked,        \* the sizes requests ask for
  Window,       \* how far back a request looks
  Grace,        \* how long the object of a retired file is kept
  Field,        \* fields there are counts of
  Odd,          \* those the database cannot read
  BatchSize,    \* bound: records of a flush
  MaxSeq,       \* bound: records
  MaxFiles,     \* bound: files
  MaxNow,       \* bound: time
  MaxRequests   \* bound: requests of each, later pages included

ASSUME SearchAssumption ==
  /\ IsFiniteSet(Client) /\ Asks \in [Client -> SUBSET {"search", "scan", "counts"}]
  /\ Concurrency \in Nat \ {0} /\ MaxRows \in Nat \ {0}
  /\ DefaultLimit \in Nat \ {0} /\ Asked \subseteq Nat
  /\ Window \in Nat /\ Grace \in Nat \ {0} /\ Odd \subseteq Field
  /\ {BatchSize, MaxSeq, MaxFiles, MaxNow} \subseteq Nat
  /\ MaxRequests \in [Client -> Nat]

VARIABLES
  seq,       \* the last number given to a record
  files,     \* the files of the catalogue, by ID
  now,       \* the time
  permits,   \* permits nobody holds
  client,    \* what each client's request is doing
  requests   \* requests so far, of each

vars == <<seq, files, now, permits, client, requests>>

\* A record is stored with the time it is of, which may be long ago.
Record == [seq : 1 .. MaxSeq, ts : 0 .. MaxNow]

NoCursor == [ts |-> 0, seq |-> 0]

(* at is when the file was tombstoned; a file whose object has been deleted is *)
(* gone.                                                                       *)
File == [records : SUBSET Record, state : {"live", "tombstoned", "gone"},
         at : 0 .. MaxNow]

NewFile(records) == [records |-> records, state |-> "live", at |-> 0]

Gone == [records |-> {}, state |-> "gone", at |-> 0]

Live == {f \in DOMAIN files : files[f].state = "live"}

Queryable == UNION {files[f].records : f \in Live}

------------------------------------------------------------------------------
(* A request.  step is "wait" (for a permit), "run" (with one), or where it    *)
(* came to rest: "page" has more pages to ask for, "answered", "failed".       *)

Idle ==
  [step |-> "answered", kind |-> "scan", stage |-> "scan",
   hurt |-> FALSE, holds |-> 0, plan |-> {}, reads |-> {}, since |-> 0,
   from |-> 0, to |-> 0, asc |-> FALSE, limit |-> 1, cursor |-> NoCursor,
   page |-> <<>>, more |-> FALSE, missing |-> {}, looked |-> {},
   names |-> {}, kept |-> {}, toBind |-> {}, shown |-> <<>>, due |-> {}]

\* Where the handler returns: what it worked with is gone.  hurt: a statement
\* failed of itself, the client left, or the plan had outlived the grace period.
Return(s, step) ==
  [s EXCEPT !.step = step, !.hurt = @ \/ now >= s.since + Grace,
            !.plan = {}, !.reads = {}, !.since = 0, !.looked = {},
            !.from = IF s.cursor = NoCursor THEN 0 ELSE @,
            !.to = IF s.cursor = NoCursor THEN 0 ELSE @,
            !.page = <<>>, !.more = FALSE, !.toBind = {}]

AtRest(s) == s.step \in {"page", "answered", "failed"}

\* Prune: the live files whose range of time overlaps the window.
PrunedBy(f, from, to) ==
  files[f].state = "live" /\ \E a, b \in files[f].records : a.ts >= from /\ b.ts <= to

Plan(s, from, to) ==
  LET plan == {f \in DOMAIN files : PrunedBy(f, from, to)}
  IN  [s EXCEPT !.step = "wait", !.from = from, !.to = to, !.since = now,
                !.plan = plan, !.reads = plan]

\* Mutant of WindowOf: each page resolves the window anew.
WindowOfNow(s) == [from |-> now - Window, to |-> now]

\* A later page reads the window the first one did.
WindowOf(s) == IF s.cursor # NoCursor THEN [from |-> s.from, to |-> s.to]
               ELSE [from |-> now - Window, to |-> now]

LimitOf(asked) == IF asked = 0 THEN Min({MaxRows, DefaultLimit})
                  ELSE Min({MaxRows, asked})

Ask(c, s) == /\ AtRest(client[c]) /\ s.kind \in Asks[c] /\ requests[c] < MaxRequests[c]
             /\ requests' = [requests EXCEPT ![c] = @ + 1]
             /\ client' = [client EXCEPT ![c] = s]
             /\ UNCHANGED <<seq, files, now, permits>>

InWindow(r, s) == s.from <= r.ts /\ r.ts <= s.to

AskSearch(c) ==
  \E asc \in BOOLEAN, asked \in Asked :
    LET s == [Idle EXCEPT !.kind = "search", !.stage = "page", !.asc = asc,
                          !.limit = LimitOf(asked), !.holds = client[c].holds]
        planned == Plan(s, WindowOf(s).from, WindowOf(s).to)
    IN  Ask(c, [planned EXCEPT !.due = {r \in Queryable : InWindow(r, planned)}])

\* With the cursor of the last page it has: again, if the page asked for failed.
AskNextPage(c) ==
  LET s == [client[c] EXCEPT !.stage = "page", !.hurt = FALSE, !.missing = {}]
  IN  /\ s.step = "page" \/ (s.step = "failed" /\ s.cursor # NoCursor)
      /\ Ask(c, Plan(s, WindowOf(s).from, WindowOf(s).to))

\* Histogram, FieldValues and SQL: one statement, whose rows are read before
\* the permit goes back.
AskScan(c) ==
  LET s == [Idle EXCEPT !.holds = client[c].holds]
  IN  Ask(c, [Plan(s, now - Window, now) EXCEPT !.from = 0, !.to = 0])

\* FieldCounts, of every field the schema endpoint lists.
AskCounts(c) ==
  LET s == [Idle EXCEPT !.kind = "counts", !.stage = "count", !.names = Field,
                        !.kept = Field, !.holds = client[c].holds]
  IN  Ask(c, [Plan(s, now - Window, now) EXCEPT !.from = 0, !.to = 0])

------------------------------------------------------------------------------
(* Statements. *)

\* acquire.
Acquire(c) ==
  LET s == client[c]
  IN  /\ s.step = "wait" /\ permits > 0
      /\ permits' = permits - 1
      /\ client' = [client EXCEPT ![c].step = "run", ![c].holds = @ + 1]
      /\ UNCHANGED <<seq, files, now, requests>>

\* Mutants of GivesBack: Search keeps its permit until it returns; query does
\* not release when the statement fails.
GivesBackLate(s, t) == IF s.stage = "page" /\ t.stage = "restore" THEN 0 ELSE s.holds

GivesBackUnlessFailed(s, t) == IF t.step = "failed" THEN 0 ELSE s.holds

\* What a request that goes from s to t, its statement over, gives back.
GivesBack(s, t) == s.holds

End(c, t) == LET n == GivesBack(client[c], t)
             IN  /\ permits' = permits + n
                 /\ client' = [client EXCEPT ![c] = [t EXCEPT !.holds = @ - n]]
                 /\ UNCHANGED <<seq, files, now, requests>>

\* The field to be bound next.
Binding(s) == {CHOOSE f \in s.toBind : TRUE}

\* The fields a statement names.
Named(s) == CASE s.stage = "bind" -> Binding(s)
              [] s.stage \in {"count", "recount"} -> s.kept
              [] OTHER -> {}

\* A statement fails for want of an object, or for a field it cannot read.
MustFail(s) == \/ \E f \in s.reads : files[f].state = "gone"
               \/ Named(s) \cap Odd # {}

\* The fields are bound one at a time, and counted again without those that fail.
BindNext(s, kept, toBind) ==
  LET t == [s EXCEPT !.kept = kept, !.toBind = toBind]
  IN  IF toBind # {} THEN [t EXCEPT !.step = "wait", !.stage = "bind"]
      ELSE IF kept \in {{}, s.names} THEN Return(t, "failed")
      ELSE [t EXCEPT !.step = "wait", !.stage = "recount"]

\* What comes of a request when its statement fails.
Failed(s) ==
  CASE s.stage = "count" -> BindNext(s, {}, s.names)
    [] s.stage = "bind" -> BindNext(s, s.kept, s.toBind \ Binding(s))
    [] OTHER -> Return(s, "failed")

Fail(c) ==
  LET s == client[c]
  IN  /\ s.step = "run"
      /\ End(c, [Failed(s) EXCEPT !.hurt = @ \/ ~MustFail(s)])

------------------------------------------------------------------------------
(* The page. *)

Before(a, b, asc) == IF asc THEN a.ts < b.ts \/ (a.ts = b.ts /\ a.seq < b.seq)
                     ELSE a.ts > b.ts \/ (a.ts = b.ts /\ a.seq > b.seq)

\* The keyset predicate.
Behind(r, s) == s.cursor = NoCursor \/ Before(s.cursor, r, s.asc)

\* The rows of the window in the planned files, a record as often as there are
\* files that hold it, in order.
Matching(s) == {row \in Record \X s.plan : /\ row[1] \in files[row[2]].records
                                           /\ InWindow(row[1], s) /\ Behind(row[1], s)}

Ahead(row, s) == {other \in Matching(s) : \/ Before(other[1], row[1], s.asc)
                                          \/ (other[1] = row[1] /\ other[2] < row[2])}

Rows(s) == SortedBy(Matching(s), [row \in Matching(s) |-> Cardinality(Ahead(row, s))])

\* The first file of the plan whose numbers span a record that has no fields, of
\* those yet to be looked at, if there is one.
SpanOf(f) == Min({r.seq : r \in files[f].records}) .. Max({r.seq : r \in files[f].records})

\* Mutant of Holding: strictly between the file's numbers.
HoldingInside(f, missing) ==
  \E r \in missing : r.seq > Min(SpanOf(f)) /\ r.seq < Max(SpanOf(f))

Holding(f, missing) == \E r \in missing : r.seq \in SpanOf(f)

\* The page is answered when no record of it lacks its fields, or no file is left
\* to look in; a cursor goes with it if there was a row more.
RestoreNext(s, looked) ==
  LET left == {f \in s.plan \ looked : Holding(f, s.missing)}
  IN  IF left # {}
      THEN [s EXCEPT !.step = "wait", !.stage = "restore",
                     !.looked = looked, !.reads = {Min(left)}]
      ELSE Return([s EXCEPT !.shown = @ \o s.page,
                            !.cursor = IF s.more THEN Last(s.page) ELSE @],
                  IF s.more THEN "page" ELSE "answered")

\* Search asks for a row more than the page holds.  Which records' fields raw
\* cannot supply is up to the data.
Page(c) ==
  LET s == client[c]
      rows == [i \in 1 .. Len(Rows(s)) |-> Rows(s)[i][1]]
      page == SubSeq(rows, 1, Min({Len(rows), s.limit}))
  IN  /\ s.step = "run" /\ s.stage = "page" /\ ~MustFail(s)
      /\ \E missing \in SUBSET ToSet(page) :
           End(c, RestoreNext([s EXCEPT !.page = page, !.missing = missing,
                                        !.more = Len(rows) > s.limit], {}))

\* readFields: the records of one file get their fields.
Restore(c) ==
  LET s == client[c]
      found == UNION {files[f].records : f \in s.reads}
  IN  /\ s.step = "run" /\ s.stage = "restore" /\ ~MustFail(s)
      /\ End(c, RestoreNext([s EXCEPT !.missing = @ \ found], s.looked \cup s.reads))

\* countFields, or binds, or the single statement of the others, succeeds.
Succeed(c) ==
  LET s == client[c]
  IN  /\ s.step = "run" /\ s.kind # "search" /\ ~MustFail(s)
      /\ End(c, IF s.stage = "bind"
                THEN BindNext(s, s.kept \cup Binding(s), s.toBind \ Binding(s))
                ELSE Return(s, "answered"))

\* The client goes away: what it waits for fails, and every statement it would still
\* have run fails at once, giving back its permit.
Leave(c) ==
  LET s == client[c]
  IN  ~AtRest(s) /\ End(c, Return([s EXCEPT !.hurt = TRUE], "failed"))

------------------------------------------------------------------------------
(* The storage engine, as far as a query sees it (Storage has the detail). *)

Others == UNCHANGED <<permits, client, requests>>

\* A record may be of any time there has been.
Flush ==
  /\ Len(files) < MaxFiles
  /\ \E n \in 1 .. BatchSize : \E ts \in [1 .. n -> 0 .. now] :
       /\ seq + n <= MaxSeq /\ seq' = seq + n
       /\ files' = Append(files, NewFile({[seq |-> seq + i, ts |-> ts[i]] : i \in 1 .. n}))
  /\ now' = now /\ Others

Retired(F) == [f \in DOMAIN files |->
                 IF f \in F THEN [files[f] EXCEPT !.state = "tombstoned", !.at = now]
                 ELSE files[f]]

\* Replace, or Tombstone if retention leaves nothing.
Merge ==
  /\ \E F \in SUBSET Live, horizon \in 0 .. now + 1 :
       LET all == UNION {files[f].records : f \in F}
           kept == {r \in all : r.ts >= horizon}
       IN  /\ Cardinality(F) > 1 \/ kept # all
           /\ IF kept = {} THEN files' = Retired(F)
              ELSE Len(files) < MaxFiles /\ files' = Append(Retired(F), NewFile(kept))
  /\ UNCHANGED <<seq, now>> /\ Others

\* collect.
Collect ==
  /\ \E f \in DOMAIN files :
       /\ files[f].state = "tombstoned" /\ files[f].at + Grace <= now
       /\ files' = [files EXCEPT ![f] = Gone]
  /\ UNCHANGED <<seq, now>> /\ Others

Tick == now < MaxNow /\ now' = now + 1 /\ UNCHANGED <<seq, files>> /\ Others

------------------------------------------------------------------------------

Init == /\ seq = 0 /\ files = <<>> /\ now = 0 /\ permits = Concurrency
        /\ client = [c \in Client |-> Idle] /\ requests = [c \in Client |-> 0]

Query(c) == \/ AskSearch(c) \/ AskNextPage(c) \/ AskScan(c) \/ AskCounts(c)
            \/ Acquire(c) \/ Fail(c) \/ Page(c) \/ Restore(c) \/ Succeed(c)
            \/ Leave(c)

Next == Flush \/ Merge \/ Collect \/ Tick \/ \E c \in Client : Query(c)

Spec == Init /\ [][Next]_vars

\* Receivers of a channel are served in turn, and the timeout ends a statement.
FairSpec ==
  /\ Spec
  /\ \A c \in Client : SF_vars(Acquire(c)) /\ WF_vars(Fail(c) \/ Page(c) \/ Restore(c) \/ Succeed(c))

------------------------------------------------------------------------------

\* The permits nobody holds and those that are held are all there are, and only a
\* request whose statement runs holds one (acquire and query, whatever fails or is
\* cancelled).
PermitsComeBack ==
  /\ permits = Concurrency - Cardinality({c \in Client : client[c].step = "run"})
  /\ \A c \in Client : client[c].holds = IF client[c].step = "run" THEN 1 ELSE 0

\* The pages of a search, put together, are in order and show no record twice; and
\* once the last is there, every record that could be queried when the first was
\* planned has been shown, unless retention dropped it (the cursor, and the window
\* it carries, over files that come, merge and go).
PagesPartition ==
  \A c \in Client :
    LET s == client[c]
    IN  s.kind = "search" =>
          /\ \A i \in 1 .. Len(s.shown) - 1 : Before(s.shown[i], s.shown[i + 1], s.asc)
          /\ s.step = "answered" => s.due \cap Queryable \subseteq ToSet(s.shown)

\* A request whose client stays fails only when a statement did by itself (memory,
\* the timeout), or its plan outlived the grace of a file in it, or there is no
\* field it could count; and counts come back for every field that can be read,
\* unless its own statement failed (FieldCounts, query and collect).
FailuresHaveCauses ==
  \A c \in Client :
    LET s == client[c]
    IN  AtRest(s) => \/ s.hurt
        \/ /\ s.step = "failed" => s.kind = "counts" /\ s.names \subseteq Odd
           /\ s.kind = "counts" /\ s.step = "answered" => s.kept = s.names \ Odd
           /\ s.kind = "search" /\ s.step \in {"page", "answered"} => s.missing = {}

\* Every request is answered or fails, however many search at once (acquire,
\* and a search that waits for permits to restore fields).
RequestsEnd == \A c \in Client : ~AtRest(client[c]) ~> AtRest(client[c])

=============================================================================
