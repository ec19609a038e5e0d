------------------------------- MODULE LiveTail -------------------------------
(***************************************************************************)
(* The live tail: an append numbers a record, puts it into the backlog in  *)
(* memory and publishes it (internal/logstore), and each open tail shows   *)
(* its client the list of streams, the backlog, and then what it hears     *)
(* (internal/api/sse.go).  Appends hold one lock from the number to the    *)
(* publish; tails subscribe, read the backlog and leave at any point of    *)
(* it.  A tail's queue is bounded, and what does not fit is counted.       *)
(*                                                                         *)
(* The filter of a tail is abstracted to records that are wanted, by every *)
(* tail that hears of them, or by none.                                    *)
(***************************************************************************)
EXTENDS Integers, Sequences, FiniteSets, SequencesExt, Maps, Sorting

CONSTANTS
  Stream,     \* the streams
  All,        \* the subscription to all of them
  Conn,       \* connections to the tail endpoint
  QueueSize,  \* events a subscription can hold
  RingSize,   \* records kept in memory for each stream
  OldRecords, \* bound: records on disk at boot
  MaxSeq,     \* bound: sequence numbers given out
  MaxOpens    \* bound: tails opened

ASSUME TailAssumption ==
  /\ All \notin Stream
  /\ QueueSize \in Nat \ {0} /\ RingSize \in Nat \ {0}
  /\ OldRecords \in Nat /\ MaxSeq \in Nat /\ MaxOpens \in Nat

VARIABLES
  seq,      \* the last number given out
  rings,    \* stream -> its newest records in memory, oldest first
  history,  \* history variable: every record there has been
  pending,  \* events the append in progress has yet to publish
  closed,   \* whether the fan-out has been closed
  conn,     \* what each connection is doing, and what its client has seen
  opens

vars == <<seq, rings, history, pending, closed, conn, opens>>

Record == [seq : Nat \ {0}, stream : Stream, wanted : BOOLEAN]

Event == [kind : {"line"}, record : Record]
           \cup [kind : {"streams"}, streams : SUBSET Stream]

Line(rec) == [kind |-> "line", record |-> rec]

List(known, s) == [kind |-> "streams", streams |-> known \cup {s}]

\* step is the next thing the handler does; open says whether the channel is;
\* list and shown are what the client has on its screen, floor the highest
\* number in the backlog it was sent.
Tailing ==
  [step : {"gone", "list", "backlog", "lines"}, stream : Stream \cup {All},
   open : BOOLEAN, queue : Seq(Event), dropped : Nat, reported : Nat,
   floor : Nat, list : SUBSET Stream, shown : Seq(Record)]

Gone == [step |-> "gone", stream |-> All, open |-> FALSE, queue |-> <<>>,
         dropped |-> 0, reported |-> 0, floor |-> 0, list |-> {}, shown |-> <<>>]

------------------------------------------------------------------------------
(* The backlog. *)

InOrder(records) == SortedBy(records, [r \in records |-> r.seq])

\* The last n elements of a sequence.
LastOf(s, n) == SubSeq(s, IF Len(s) > n THEN Len(s) - n + 1 ELSE 1, Len(s))

HighestSeq(records) == IF records = {} THEN 0 ELSE Max({r.seq : r \in records})

\* Mutant of Enough: as soon as the ring is full.
EnoughFull(found, file) == Len(found) >= RingSize

\* No file left can hold a record newer than the oldest one found.
Enough(found, file) ==
  Len(found) >= RingSize /\ HighestSeq(file) < found[1].seq

\* One file more; of what was found, the newest records are kept.
Read(found, file) ==
  IF Enough(found, file) THEN found
  ELSE LET batch == ToSet(LastOf(InOrder(file), RingSize))
       IN  LastOf(InOrder(ToSet(found) \cup batch), RingSize)

\* newest: what a walk over the files of a stream finds, those with the highest
\* numbers first.
Newest(files) ==
  FoldLeft(Read, <<>>, SortedBy(files, [f \in files |-> 0 - HighestSeq(f)]))

\* The files some records may be in: of one stream each.
Files(records) ==
  {files \in SUBSET ((SUBSET records) \ {{}}) :
     /\ UNION files = records
     /\ \A f, g \in files : f # g => f \cap g = {}
     /\ \A f \in files : \A a, b \in f : a.stream = b.stream}

\* loadBacklog.  Streams it does not get to, because a file cannot be read, start
\* out empty and unknown: for the tail their records do not exist, and history
\* leaves them out.
Init ==
  /\ \E n \in 0 .. OldRecords :
       /\ seq = n
       /\ \E s \in [1 .. n -> Stream], w \in [1 .. n -> BOOLEAN] :
            history = {[seq |-> i, stream |-> s[i], wanted |-> w[i]] : i \in 1 .. n}
  /\ \E files \in Files(history) :
       rings = [s \in {r.stream : r \in history} |->
                  Newest({f \in files : \A r \in f : r.stream = s})]
  /\ pending = <<>> /\ closed = FALSE
  /\ conn = [c \in Conn |-> Gone] /\ opens = 0

Push(ring, rec) == LastOf(Append(ring, rec), RingSize)

\* Backlog: of all streams, the newest records of any.
Backlog(s) ==
  IF s = All
  THEN LastOf(InOrder(UNION {ToSet(rings[t]) : t \in DOMAIN rings}), RingSize)
  ELSE IF s \in DOMAIN rings THEN rings[s] ELSE <<>>

------------------------------------------------------------------------------
(* Appending and publishing. *)

\* An append that fails has used up a number.
AppendRecord(s, wanted, ok) ==
  /\ pending = <<>> /\ seq < MaxSeq
  /\ seq' = seq + 1
  /\ LET rec == [seq |-> seq + 1, stream |-> s, wanted |-> wanted]
         ring == IF s \in DOMAIN rings THEN rings[s] ELSE <<>>
     IN  IF ok THEN /\ rings' = With(rings, s, Push(ring, rec))
                    /\ history' = history \cup {rec}
                    /\ pending' = IF s \in DOMAIN rings THEN <<Line(rec)>>
                                  ELSE <<List(DOMAIN rings, s), Line(rec)>>
         ELSE UNCHANGED <<rings, history, pending>>
  /\ UNCHANGED <<closed, conn, opens>>

\* Mutant of Selects: no stream selects nothing.
SelectsOne(s, event) == event.kind = "streams" \/ s = event.record.stream

\* The events a subscription to s is for.
Selects(s, event) ==
  event.kind = "streams" \/ s = All \/ s = event.record.stream

\* Mutant of Sent: the queue holds one more.
SentOver(c, event) ==
  IF Len(c.queue) <= QueueSize THEN [c EXCEPT !.queue = Append(@, event)]
  ELSE [c EXCEPT !.dropped = @ + 1]

\* send: what does not fit is dropped, and counted.
Sent(c, event) ==
  IF Len(c.queue) < QueueSize THEN [c EXCEPT !.queue = Append(@, event)]
  ELSE [c EXCEPT !.dropped = @ + 1]

\* PublishStreams and PublishLine.
Publish ==
  /\ pending # <<>>
  /\ pending' = Tail(pending)
  /\ conn' = [c \in Conn |->
                IF conn[c].open /\ Selects(conn[c].stream, Head(pending))
                THEN Sent(conn[c], Head(pending)) ELSE conn[c]]
  /\ UNCHANGED <<seq, rings, history, closed, opens>>

\* Fanout.Close: every channel is closed; what is in them can still be read.
CloseFanout ==
  /\ ~closed
  /\ closed' = TRUE
  /\ conn' = [c \in Conn |-> [conn[c] EXCEPT !.open = FALSE]]
  /\ UNCHANGED <<seq, rings, history, pending, opens>>

------------------------------------------------------------------------------
(* One tail. *)

Goes(c, next) ==
  /\ conn' = [conn EXCEPT ![c] = next]
  /\ UNCHANGED <<seq, rings, history, pending, closed>>

\* Mutant of Subscribed: a closed fan-out hands out open channels.
SubscribedAnyway(s) == [Gone EXCEPT !.step = "list", !.stream = s, !.open = TRUE]

Subscribed(s) == [Gone EXCEPT !.step = "list", !.stream = s, !.open = ~closed]

Subscribe(c, s) ==
  /\ conn[c].step = "gone"
  /\ opens < MaxOpens /\ opens' = opens + 1
  /\ Goes(c, Subscribed(s))

SendStreams(c) ==
  /\ conn[c].step = "list"
  /\ Goes(c, [conn[c] EXCEPT !.step = "backlog", !.list = DOMAIN rings])
  /\ UNCHANGED opens

\* The wanted records of a backlog, in its order.
Wanted(backlog) ==
  LET places == {i \in DOMAIN backlog : backlog[i].wanted}
      at == SortedBy(places, [i \in places |-> i])
  IN  [n \in DOMAIN at |-> backlog[at[n]]]

SendBacklog(c) ==
  /\ conn[c].step = "backlog"
  /\ LET backlog == Backlog(conn[c].stream)
     IN  Goes(c, [conn[c] EXCEPT !.step = "lines",
                    !.floor = HighestSeq(ToSet(backlog)),
                    !.shown = Wanted(backlog)])
  /\ UNCHANGED opens

\* Mutant of IsNew: the last line of the backlog too.
IsNewOrLast(c, rec) == rec.seq >= c.floor /\ rec.wanted

\* Not in the backlog, and wanted.
IsNew(c, rec) == rec.seq > c.floor /\ rec.wanted

\* An event is received and shown.
Received(c) ==
  LET event == Head(c.queue)
      rest == [c EXCEPT !.queue = Tail(@)]
  IN  IF event.kind = "streams" THEN [rest EXCEPT !.list = event.streams]
      ELSE IF IsNew(c, event.record)
      THEN [rest EXCEPT !.shown = Append(@, event.record)] ELSE rest

\* Mutant of Notice: after an event only.
NoticeLate(c) == IF c.queue = <<>> THEN c ELSE [c EXCEPT !.reported = c.dropped]

\* The client is told how many events were dropped.
Notice(c) == [c EXCEPT !.reported = c.dropped]

\* due: it is a second since the last notice.
Receive(c, due) ==
  /\ conn[c].step = "lines" /\ conn[c].queue # <<>>
  /\ Goes(c, IF due THEN Notice(Received(conn[c])) ELSE Received(conn[c]))
  /\ UNCHANGED opens

\* The ticker: a ping, and what there is to report.
Heartbeat(c) ==
  /\ conn[c].step = "lines" /\ conn[c].dropped > conn[c].reported
  /\ Goes(c, Notice(conn[c]))
  /\ UNCHANGED opens

\* The channel is closed and empty.
Ends(c) ==
  /\ conn[c].step = "lines" /\ conn[c].queue = <<>> /\ ~conn[c].open
  /\ Goes(c, Gone)
  /\ UNCHANGED opens

\* The client has gone, a write has stalled, or the server drains.
Leave(c) ==
  /\ conn[c].step # "gone"
  /\ Goes(c, Gone)
  /\ UNCHANGED opens

Next ==
  \/ \E s \in Stream, wanted, ok \in BOOLEAN : AppendRecord(s, wanted, ok)
  \/ Publish \/ CloseFanout
  \/ \E c \in Conn :
       \/ \E s \in Stream \cup {All} : Subscribe(c, s)
       \/ SendStreams(c) \/ SendBacklog(c)
       \/ \E due \in BOOLEAN : Receive(c, due)
       \/ Heartbeat(c) \/ Ends(c) \/ Leave(c)

Spec == Init /\ [][Next]_vars

\* Publishing does not wait for anybody.  A write to a client returns, or stalls
\* and ends the tail; the ticker fires for as long as there is one.
FairSpec ==
  /\ Spec
  /\ WF_vars(Publish)
  /\ \A c \in Conn :
       /\ WF_vars(SendStreams(c)) /\ WF_vars(SendBacklog(c))
       /\ WF_vars(\E due \in BOOLEAN : Receive(c, due))
       /\ WF_vars(Heartbeat(c)) /\ WF_vars(Ends(c))

------------------------------------------------------------------------------
(* What the live tail guarantees. *)

TypeOK ==
  /\ seq \in Nat /\ opens \in Nat /\ closed \in BOOLEAN
  /\ history \subseteq Record
  /\ DOMAIN rings \subseteq Stream
  /\ \A s \in DOMAIN rings : rings[s] \in Seq(Record) /\ Len(rings[s]) <= RingSize
  /\ pending \in Seq(Event)
  /\ conn \in [Conn -> Tailing]
  /\ \A c \in Conn : Len(conn[c].queue) <= QueueSize

Of(s) == {r \in history : s \in {All, r.stream}}

\* After a restart as before it, the backlog of a stream is its newest records
\* (newest, Append).
RingIsNewest ==
  \A s \in DOMAIN rings : rings[s] = LastOf(InOrder(Of(s)), RingSize)

\* A tail shows every record once, in the order of their numbers, however its
\* subscription and its backlog fell among the appends (tail).
ShownOnce ==
  \A c \in Conn : \A i, j \in DOMAIN conn[c].shown :
    i < j => conn[c].shown[i].seq < conn[c].shown[j].seq

\* What a tail owes its client: the newest RingSize records up to the backlog,
\* and every later one.
Owed(c) ==
  {r \in Of(c.stream) :
     /\ r.wanted
     /\ RingSize >=
          Cardinality({x \in Of(c.stream) : r.seq <= x.seq /\ x.seq <= c.floor})}

\* What its client will not see any more.
Missed(c) ==
  {r \in Owed(c) :
     r \notin ToSet(c.shown) /\ Line(r) \notin ToSet(c.queue \o pending)}

\* A tail never skips a record without counting it (tail, send).
LossIsCounted ==
  \A c \in Conn : conn[c].step = "lines" /\ conn[c].open =>
    Cardinality(Missed(conn[c])) <= conn[c].dropped

\* Every tail ends, or shows what it has heard and reports what it has dropped,
\* the last of a burst included (tail).
TailsSettle ==
  <>[](\A c \in Conn :
         \/ conn[c].step = "gone"
         \/ conn[c].step = "lines" /\ conn[c].queue = <<>>
              /\ conn[c].reported = conn[c].dropped)

\* A store that closes ends every tail, those opened on the way included
\* (Fanout.Close, Fanout.Subscribe).
CloseEndsTails == \A c \in Conn : closed ~> conn[c].step = "gone"
=============================================================================
