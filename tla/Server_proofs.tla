----------------------------- MODULE Server_proofs -----------------------------
(***************************************************************************)
(* Proofs about the receivers and the process, for any number of lines,    *)
(* any of them blank, any number of connections and all bounds.            *)
(*                                                                         *)
(* That an upload can be resumed where the answer says rests on what a     *)
(* handler knows at each step: every line it has passed is stored, if only *)
(* in the tail, and what it will report is what it has passed (Handling).  *)
(* That no line is stored twice without a lost answer or a failing store   *)
(* rests on the reverse: behind the line the handler is at, nothing is     *)
(* stored that the shipper has not been told it may have to repeat         *)
(* (NothingAhead).                                                         *)
(***************************************************************************)
EXTENDS Server, FiniteSetTheorems, SequenceTheorems, TLAPS

\* How often a line is stored.
Total(i) == disk[i] + Times(i, tail)

Records == Line \cup {Message}

\* The lines that are stored on their own account.
Full == Line \ shipper.blank

Active == request.step # "none"

\* A line that is on disk, or that a closed log has vouched for.
Vouched(i) == disk[i] > 0 \/ i \in shipper.late

\* The lines the handler has passed.
Passed == {i \in Full : shipper.acked < i /\ i < request.at}

\* The last line the shipper or its handler is past.
Reached == IF Active THEN request.at - 1 ELSE shipper.acked

Types ==
  /\ disk \in [Line -> Nat] /\ tail \in Seq(Records)
  /\ shipper \in Shipper /\ request \in Request /\ process \in Process
  /\ Active \/ request = NoRequest

AckedIsStored == \A i \in Full : i <= shipper.acked => Vouched(i)

OnceOrAgain == \A i \in Full : Total(i) > 1 => i <= shipper.again

NothingAhead == \A i \in Full : i > Reached /\ i > shipper.again => Total(i) = 0

Handling ==
  Active =>
    /\ shipper.acked < request.at /\ shipper.acked < Lines
    /\ request.accepted <= request.at - 1 - shipper.acked
    /\ request.step # "answer" => \A i \in Passed : Total(i) > 0

HandlingLines ==
  Active /\ shipper.kind = "lines" =>
    \/ /\ request.accepted = request.at - 1 - shipper.acked
       /\ request.step = "answer" => \A i \in Passed : Vouched(i)
    \/ /\ request.step = "answer" /\ request.accepted = 0
       /\ request.at - 1 <= shipper.again

HandlingBatch ==
  shipper.kind = "otlp" =>
    /\ shipper.acked \in {0, Lines}
    /\ request.step = "read" => request.at = 1
    /\ request.step = "store" /\ request.accepted = 0 => Passed = {}
    /\ request.step = "sync" => request.ok /\ request.at > Lines
    /\ request.step = "answer" =>
         \/ request.ok /\ request.at > Lines /\ \A i \in Passed : Vouched(i)
         \/ ~request.ok /\ (request.at = 1 \/ request.at - 1 <= shipper.again)

IInv == /\ Types /\ AckedIsStored /\ OnceOrAgain /\ NothingAhead
        /\ Handling /\ HandlingLines /\ HandlingBatch
        /\ ClosedKeepsAll

------------------------------------------------------------------------------
(* Counting. *)

LEMMA TimesIsFinite ==
  ASSUME NEW i, NEW t \in Seq(Records)
  PROVE  /\ IsFiniteSet({n \in DOMAIN t : t[n] = i})
         /\ Times(i, t) \in Nat
<1>1. IsFiniteSet(1 .. Len(t))
  BY FS_Interval
<1>2. {n \in DOMAIN t : t[n] = i} \subseteq 1 .. Len(t)
  OBVIOUS
<1> QED
  BY <1>1, <1>2, FS_Subset, FS_CardinalityType DEF Times

LEMMA TimesOfNone ==
  ASSUME NEW i
  PROVE  Times(i, <<>>) = 0
<1>1. {n \in DOMAIN <<>> : <<>>[n] = i} = {}
  OBVIOUS
<1> QED
  BY <1>1, FS_EmptySet DEF Times

LEMMA TimesAfterAppend ==
  ASSUME NEW i, NEW t \in Seq(Records), NEW r \in Records
  PROVE  Times(i, Append(t, r)) = Times(i, t) + (IF r = i THEN 1 ELSE 0)
<1> DEFINE before == {n \in DOMAIN t : t[n] = i}
           after == {n \in DOMAIN Append(t, r) : Append(t, r)[n] = i}
           last == Len(t) + 1
<1>1. /\ DOMAIN t = 1 .. Len(t) /\ DOMAIN Append(t, r) = 1 .. last
      /\ Append(t, r)[last] = r /\ \A n \in 1 .. Len(t) : Append(t, r)[n] = t[n]
      /\ Len(t) \in Nat
  OBVIOUS
<1>2. last \notin before
  BY <1>1
<1>a. /\ IsFiniteSet(before) /\ Times(i, t) \in Nat
      /\ Times(i, t) = Cardinality(before)
      /\ Times(i, Append(t, r)) = Cardinality(after)
  BY TimesIsFinite DEF Times
<1> HIDE DEF before, after
<1>3. CASE r = i
  <2>1. after = before \cup {last}
    BY <1>1, <1>3 DEF before, after
  <2>2. Cardinality(after) = Cardinality(before) + 1
    BY <1>2, <1>a, <2>1, FS_AddElement
  <2> QED
    BY <1>3, <1>a, <2>2
<1>4. CASE r # i
  <2>1. after = before
    BY <1>1, <1>4 DEF before, after
  <2> QED
    BY <1>4, <1>a, <2>1
<1> QED
  BY <1>3, <1>4

LEMMA TimesOfPart ==
  ASSUME NEW i, NEW t \in Seq(Records), NEW n \in 0 .. Len(t)
  PROVE  /\ SubSeq(t, 1, n) \in Seq(Records)
         /\ Times(i, SubSeq(t, 1, n)) <= Times(i, t)
<1> DEFINE part == SubSeq(t, 1, n)
<1>1. /\ part \in Seq(Records) /\ Len(part) = n
      /\ \A k \in 1 .. n : part[k] = t[k]
  OBVIOUS
<1>2. {k \in DOMAIN part : part[k] = i} \subseteq {k \in DOMAIN t : t[k] = i}
  BY <1>1
<1>3. Times(i, part) <= Times(i, t)
  BY <1>2, TimesIsFinite, FS_Subset DEF Times
<1> QED
  BY <1>1, <1>3

LEMMA OnDiskIsTotal ==
  ASSUME Types, NEW t \in Seq(Records)
  PROVE  /\ OnDisk(t) \in [Line -> Nat]
         /\ \A i \in Line : OnDisk(t)[i] = disk[i] + Times(i, t)
         /\ \A i \in Line : Total(i) \in Nat /\ disk[i] \in Nat
<1>1. \A i : Times(i, t) \in Nat /\ Times(i, tail) \in Nat
  BY TimesIsFinite DEF Types
<1>2. disk \in [Line -> Nat]
  BY DEF Types
<1>3. \A i \in Line : disk[i] + Times(i, t) \in Nat
  BY <1>1, <1>2
<1> QED
  BY <1>1, <1>2, <1>3 DEF OnDisk, Total

------------------------------------------------------------------------------
(* Steps of the store. *)

\* What the store may do under the shipper and its handler: records go to disk,
\* and records of others come in.
Undisturbed ==
  /\ disk' \in [Line -> Nat] /\ tail' \in Seq(Records)
  /\ \A i \in Line : Total(i)' = Total(i) /\ disk'[i] >= disk[i]

LEMMA StoreStays ==
  ASSUME Types, UNCHANGED store
  PROVE  Undisturbed
BY OnDiskIsTotal DEF Undisturbed, Types, store, Total

LEMMA SyncUndisturbed ==
  ASSUME Types, Sync
  PROVE  /\ Undisturbed /\ tail' = <<>>
         /\ \A i \in Line : disk'[i] = Total(i)
<1>1. tail \in Seq(Records) /\ <<>> \in Seq(Records)
  BY DEF Types
<1>2. disk' = OnDisk(tail) /\ tail' = <<>>
  BY DEF Sync
<1>3. disk' \in [Line -> Nat] /\ \A i \in Line : disk'[i] = Total(i)
  BY <1>1, <1>2, OnDiskIsTotal DEF Total
<1>4. \A i \in Line : Total(i)' = Total(i)
  BY <1>2, <1>3, TimesOfNone, OnDiskIsTotal, <1>1 DEF Total
<1>5. \A i \in Line : disk'[i] >= disk[i]
  <2>1. \A i : Times(i, tail) \in Nat
    BY <1>1, TimesIsFinite
  <2> QED
    BY <1>3, <2>1 DEF Total, Types
<1> QED
  BY <1>1, <1>2, <1>3, <1>4, <1>5 DEF Undisturbed

LEMMA AppendCounts ==
  ASSUME Types, NEW r \in Records, AppendRecord(r)
  PROVE  /\ disk' \in [Line -> Nat] /\ tail' \in Seq(Records)
         /\ \A i \in Line : /\ Total(i)' = Total(i) + (IF r = i THEN 1 ELSE 0)
                            /\ disk'[i] = disk[i]
<1>1. tail' = Append(tail, r) /\ disk' = disk /\ tail \in Seq(Records)
  BY DEF AppendRecord, Types
<1>2. tail' \in Seq(Records)
  BY <1>1
<1>3. ASSUME NEW i \in Line
      PROVE  Total(i)' = Total(i) + (IF r = i THEN 1 ELSE 0)
  <2>1. Times(i, tail') = Times(i, tail) + (IF r = i THEN 1 ELSE 0)
    BY <1>1, TimesAfterAppend
  <2>2. Times(i, tail) \in Nat /\ disk[i] \in Nat
    BY <1>1, TimesIsFinite DEF Types
  <2> QED
    BY <1>1, <2>1, <2>2 DEF Total
<1> QED
  BY <1>1, <1>2, <1>3 DEF Types

LEMMA MessageUndisturbed ==
  ASSUME Types, AppendRecord(Message)
  PROVE  Undisturbed
<1>1. Message \in Records /\ \A i \in Line : Message # i
  BY ServerAssumption DEF Records, Message, Line
<1>2. \A i \in Line : Total(i) \in Nat /\ disk[i] \in Nat
  BY OnDiskIsTotal DEF Types
<1> QED
  BY <1>1, <1>2, AppendCounts DEF Undisturbed

------------------------------------------------------------------------------
(* Steps that leave the upload alone. *)

LEMMA QuietStep ==
  ASSUME IInv, Undisturbed, UNCHANGED http, process' \in Process, ClosedKeepsAll'
  PROVE  IInv'
<1>1. shipper' = shipper /\ request' = request
  BY DEF http
<1>2. Types' /\ Full' = Full /\ Passed' = Passed /\ Reached' = Reached /\ Active' = Active
  BY <1>1 DEF IInv, Types, Undisturbed, Full, Passed, Reached, Active
<1>3. \A i \in Full : i \in Line /\ Total(i) \in Nat /\ disk[i] \in Nat /\ disk'[i] \in Nat
  BY OnDiskIsTotal DEF IInv, Types, Full, Undisturbed
<1>4. \A i \in Full : Total(i)' = Total(i) /\ (Vouched(i) => Vouched(i)')
  BY <1>1, <1>3 DEF Undisturbed, Vouched
<1>5. AckedIsStored' /\ OnceOrAgain' /\ NothingAhead'
  BY <1>1, <1>2, <1>4 DEF IInv, AckedIsStored, OnceOrAgain, NothingAhead
<1>6. Passed \subseteq Full
  BY DEF Passed
<1>7. Handling'
  BY <1>1, <1>2, <1>4, <1>6 DEF IInv, Handling
<1>8. HandlingLines'
  BY <1>1, <1>2, <1>4, <1>6 DEF IInv, HandlingLines
<1>9. HandlingBatch'
  BY <1>1, <1>2, <1>4, <1>6 DEF IInv, HandlingBatch
<1> QED
  BY <1>2, <1>5, <1>7, <1>8, <1>9 DEF IInv

LEMMA SyslogStep ==
  ASSUME IInv,
         \/ Accepting \/ Datagram
         \/ \E k \in Sender : Connect(k) \/ Receive(k) \/ ConnEnds(k)
  PROVE  IInv'
<1>0. Types /\ ClosedKeepsAll /\ process \in Process
  BY DEF IInv, Types
<1>1. UNCHANGED http /\ process' = process
  BY DEF Accepting, Datagram, Connect, Receive, ConnEnds, TakeSlot, AcceptFails, PauseEnds,
         StopAccepting, CloseListener, Accept, Syslog
<1>2. CASE UNCHANGED store
  <2>1. Undisturbed
    BY <1>0, <1>2, StoreStays
  <2>2. ClosedKeepsAll'
    BY <1>0, <1>1, <1>2 DEF ClosedKeepsAll, store
  <2> QED
    BY <1>0, <1>1, <2>1, <2>2, QuietStep
<1>3. CASE AppendRecord(Message)
  <2>1. Undisturbed
    BY <1>0, <1>3, MessageUndisturbed
  <2>2. ClosedKeepsAll'
    BY <1>1, <1>3 DEF ClosedKeepsAll, AppendRecord, LogIsOpen
  <2> QED
    BY <1>0, <1>1, <2>1, <2>2, QuietStep
<1>4. UNCHANGED store \/ AppendRecord(Message)
  BY DEF Accepting, Datagram, Connect, Receive, ConnEnds, TakeSlot, AcceptFails, PauseEnds,
         StopAccepting, CloseListener, Accept
<1> QED
  BY <1>2, <1>3, <1>4

LEMMA PeriodicSyncStep ==
  ASSUME IInv, PeriodicSync
  PROVE  IInv'
<1>1. Types /\ Sync /\ UNCHANGED http /\ process' = process /\ process \in Process
  BY DEF IInv, Types, PeriodicSync
<1>2. Undisturbed /\ ClosedKeepsAll'
  BY <1>1, SyncUndisturbed DEF ClosedKeepsAll
<1> QED
  BY <1>1, <1>2, QuietStep

\* The process between its start and its end.
LEMMA ProcessStep ==
  ASSUME IInv,
         \/ Serve \/ StartDrain \/ EndDrain \/ CloseReceivers \/ AwaitCompactor
         \/ CloseFlush \/ CloseLog \/ BindFails \/ Signal \/ ServerFails
         \/ CompactorEnds \/ Start
  PROVE  IInv'
<1>0. Types /\ ClosedKeepsAll /\ process \in Process
  BY DEF IInv, Types
<1>1. UNCHANGED http
  BY DEF Serve, StartDrain, EndDrain, CloseReceivers, AwaitCompactor, CloseFlush, CloseLog,
         BindFails, Signal, ServerFails, CompactorEnds, Start
<1>2. /\ process' \in Process /\ (Sync \/ UNCHANGED store)
      /\ process'.phase = "closed" /\ ~process'.failed
           => Sync \/ (process.phase = "closed" /\ ~process.failed)
  <2>1. CASE Serve \/ StartDrain \/ EndDrain \/ BindFails \/ ServerFails
    BY <1>0, <2>1 DEF Process, Main, Serve, StartDrain, EndDrain, BindFails, ServerFails
  <2>2. CASE CloseReceivers \/ AwaitCompactor
    BY <1>0, <2>2 DEF Process, Main, Stopped, CloseReceivers, AwaitCompactor
  <2>3. CASE CloseFlush
    BY <1>0, <2>3 DEF Process, Main, Closing, CloseFlush
  <2>4. CASE CloseLog
    BY <1>0, <2>4 DEF Process, Main, Closing, CloseLog
  <2>5. CASE Signal \/ CompactorEnds
    BY <1>0, <2>5 DEF Process, Main, Signal, CompactorEnds
  <2>6. CASE Start
    BY <2>6 DEF Process, Start, Started
  <2> QED
    BY <2>1, <2>2, <2>3, <2>4, <2>5, <2>6
<1>5. CASE Sync
  <2>1. Undisturbed /\ ClosedKeepsAll'
    BY <1>0, <1>5, SyncUndisturbed DEF ClosedKeepsAll
  <2> QED
    BY <1>1, <1>2, <2>1, QuietStep
<1>6. CASE UNCHANGED store /\ ~Sync
  <2>1. Undisturbed
    BY <1>0, <1>6, StoreStays
  <2>2. ClosedKeepsAll'
    BY <1>0, <1>2, <1>6 DEF ClosedKeepsAll, store
  <2> QED
    BY <1>1, <1>2, <2>1, <2>2, QuietStep
<1> QED
  BY <1>2, <1>5, <1>6

------------------------------------------------------------------------------
(* Steps of the shipper and its handler. *)

LEMMA MaxOfTwo ==
  ASSUME NEW a \in Int, NEW b \in Int
  PROVE  /\ Max({a, b}) \in {a, b}
         /\ Max({a, b}) >= a /\ Max({a, b}) >= b
<1>1. \E x \in {a, b} : \A y \in {a, b} : x >= y
  OBVIOUS
<1>2. /\ Max({a, b}) \in {a, b}
      /\ \A y \in {a, b} : Max({a, b}) >= y
  BY <1>1 DEF Max
<1> QED
  BY <1>2

\* The shipper still knows what it knew.
Reminded == /\ shipper' \in Shipper
            /\ shipper'.kind = shipper.kind /\ shipper'.blank = shipper.blank
            /\ shipper'.acked = shipper.acked /\ shipper'.again >= shipper.again
            /\ shipper.late \subseteq shipper'.late

LEMMA UnchangedIsReminded ==
  ASSUME Types, shipper' = shipper
  PROVE  Reminded
BY DEF Types, Shipper, Reminded

LEMMA RepeatIsReminded ==
  ASSUME Types, MayRepeat
  PROVE  Reminded /\ shipper'.again >= request.at - 1
<1> DEFINE again == Max({shipper.again, request.at - 1})
<1>1. /\ shipper \in Shipper /\ request \in Request /\ Lines \in Nat
      /\ shipper.again \in 0 .. Lines /\ request.at - 1 \in Int /\ request.at - 1 <= Lines
  BY ServerAssumption DEF Types, Shipper, Request
<1>2. again \in 0 .. Lines /\ again >= shipper.again /\ again >= request.at - 1
  <2>1. /\ again \in {shipper.again, request.at - 1}
        /\ again >= shipper.again /\ again >= request.at - 1
    <3>1. shipper.again \in Int /\ request.at - 1 \in Int
      BY <1>1
    <3> QED
      BY <3>1, MaxOfTwo
  <2> QED
    BY <1>1, <2>1
<1>3. shipper' = [shipper EXCEPT !.again = again]
  BY DEF MayRepeat
<1> HIDE DEF again
<1> QED
  BY <1>1, <1>2, <1>3 DEF Shipper, Reminded

\* A step of the handler that leaves the records as they are.
LEMMA HandlerStep ==
  ASSUME IInv, Undisturbed, process' = process, ClosedKeepsAll', Reminded,
         request' \in Request, Active', request'.at - 1 >= Reached,
         Handling', HandlingLines', HandlingBatch'
  PROVE  IInv'
<1>1. Full' = Full /\ Reached' = request'.at - 1
  BY DEF Reminded, Full, Reached
<1>2. Types'
  BY DEF IInv, Types, Undisturbed, Reminded
<1>3. \A i \in Full : /\ i \in Line /\ i \in Nat /\ disk[i] \in Nat /\ disk'[i] \in Nat
                      /\ Total(i)' = Total(i) /\ disk'[i] >= disk[i]
  BY ServerAssumption DEF IInv, Types, Full, Line, Undisturbed
<1>4. AckedIsStored'
  BY <1>1, <1>3 DEF IInv, AckedIsStored, Vouched, Reminded
<1>5. /\ shipper.again \in Nat /\ shipper'.again \in Nat /\ Reached \in Int /\ Reached' \in Int
  BY <1>1, ServerAssumption DEF IInv, Types, Reminded, Shipper, Request, Reached
<1>6. OnceOrAgain' /\ NothingAhead'
  BY <1>1, <1>3, <1>5 DEF IInv, OnceOrAgain, NothingAhead, Reminded
<1> QED
  BY <1>2, <1>4, <1>6 DEF IInv

\* A step of the handler at the line it is at, and what it knows of it.
LEMMA HandlerTypes ==
  ASSUME Types
  PROVE  /\ shipper \in Shipper /\ request \in Request /\ process \in Process
         /\ Lines \in Nat /\ shipper.acked \in 0 .. Lines /\ shipper.again \in 0 .. Lines
         /\ request.at \in 0 .. Lines + 1 /\ request.accepted \in 0 .. Lines
         /\ shipper.kind \in {"lines", "otlp"}
         /\ Line = 1 .. Lines /\ Full \subseteq Line /\ Passed \subseteq Full
         /\ \A i \in Line : i \in Nat /\ Total(i) \in Nat /\ disk[i] \in Nat
<1>1. shipper \in Shipper /\ request \in Request /\ process \in Process /\ Lines \in Nat
  BY ServerAssumption DEF Types
<1>2. /\ shipper.acked \in 0 .. Lines /\ shipper.again \in 0 .. Lines
      /\ shipper.kind \in {"lines", "otlp"}
  BY <1>1 DEF Shipper
<1>3. request.at \in 0 .. Lines + 1 /\ request.accepted \in 0 .. Lines
  BY <1>1 DEF Request
<1>4. Line = 1 .. Lines /\ Full \subseteq Line /\ Passed \subseteq Full
  BY DEF Line, Full, Passed
<1>5. \A i \in Line : Total(i) \in Nat /\ disk[i] \in Nat
  BY OnDiskIsTotal DEF Types
<1>6. \A i \in Line : i \in Nat
  BY <1>1, <1>4
<1> QED
  BY <1>1, <1>2, <1>3, <1>4, <1>5, <1>6

\* A step of the handler that changes nothing but where it stands.
LEMMA Moves ==
  ASSUME IInv, UNCHANGED store, process' = process, Reminded, Active,
         request' \in Request, Active', request'.at >= request.at,
         Handling', HandlingLines', HandlingBatch'
  PROVE  IInv'
<1>1. Types /\ ClosedKeepsAll
  BY DEF IInv
<1>2. Undisturbed
  BY <1>1, StoreStays
<1>3. ClosedKeepsAll'
  BY <1>1 DEF ClosedKeepsAll, store
<1>4. request'.at - 1 >= Reached
  BY <1>1, HandlerTypes DEF Reached, Request
<1> QED
  BY <1>2, <1>3, <1>4, HandlerStep

LEMMA SendStep ==
  ASSUME IInv, Send
  PROVE  IInv'
<1>1. Types /\ ClosedKeepsAll /\ HandlingBatch
  BY DEF IInv
<1>2. /\ UNCHANGED store /\ shipper' = shipper /\ process' = process
      /\ request = NoRequest /\ shipper.acked < Lines
      /\ request' = [step |-> "read", at |-> shipper.acked + 1, accepted |-> 0, ok |-> FALSE]
  BY DEF Send, Handled
<1>3. Undisturbed /\ Reminded /\ ClosedKeepsAll'
  BY <1>1, <1>2, StoreStays, UnchangedIsReminded DEF ClosedKeepsAll, store
<1>4. request' \in Request /\ Active' /\ request'.at - 1 >= Reached
  BY <1>1, <1>2, HandlerTypes DEF Request, Active, NoRequest, Reached
<1>5. Passed' = {}
  BY <1>1, <1>2, HandlerTypes DEF Passed, Full
<1>6. Handling' /\ HandlingLines'
  BY <1>1, <1>2, <1>5, HandlerTypes DEF Handling, HandlingLines
<1>7. HandlingBatch'
  BY <1>1, <1>2, <1>5, HandlerTypes DEF HandlingBatch
<1> QED
  BY <1>2, <1>3, <1>4, <1>6, <1>7, HandlerStep

\* The handler goes on with what it read, and moves no further.
LEMMA ToStore ==
  ASSUME IInv, UNCHANGED store, process' = process, shipper' = shipper,
         request.step = "read", request' = [request EXCEPT !.step = "store"]
  PROVE  IInv'
<1>1. Types /\ Handling /\ HandlingLines /\ HandlingBatch /\ Active
  BY DEF IInv, Active
<1>2. Reminded
  BY <1>1, UnchangedIsReminded
<1>3. /\ request' \in Request /\ Active' /\ request'.at = request.at
      /\ request'.accepted = request.accepted /\ request'.step = "store"
  BY <1>1, HandlerTypes DEF Request, Active
<1>4. Passed' = Passed /\ \A i \in Line : Total(i)' = Total(i)
  BY <1>3 DEF Passed, Full, Total, store
<1>5. Handling' /\ HandlingLines'
  BY <1>1, <1>3, <1>4, HandlerTypes DEF Handling, HandlingLines
<1>6. shipper.kind = "otlp" => Passed = {}
  BY <1>1, HandlerTypes DEF HandlingBatch, Handling, Passed
<1>7. HandlingBatch'
  BY <1>1, <1>3, <1>4, <1>6 DEF HandlingBatch
<1> QED
  BY <1>1, <1>2, <1>3, <1>5, <1>7, HandlerTypes, Moves

\* Past a line with nothing to store.
LEMMA SkipStep ==
  ASSUME IInv, UNCHANGED store, process' = process, shipper' = shipper,
         request.step = "store" \/ (request.step = "read" /\ shipper.kind = "lines"),
         request.at <= Lines, request.at \in shipper.blank, request' = Skip(request)
  PROVE  IInv'
<1>1. Types /\ Handling /\ HandlingLines /\ HandlingBatch /\ Active
  BY DEF IInv, Active
<1>2. Reminded
  BY <1>1, UnchangedIsReminded
<1>3. /\ shipper.acked < request.at /\ request.accepted <= request.at - 1 - shipper.acked
      /\ \A i \in Passed : Total(i) > 0
  BY <1>1, HandlerTypes DEF Handling
<1>4. request' = IF shipper.kind = "otlp" THEN [request EXCEPT !.at = @ + 1]
                 ELSE [request EXCEPT !.at = @ + 1, !.accepted = @ + 1]
  BY DEF Skip
<1>5. /\ request' \in Request /\ Active' /\ request'.at = request.at + 1
      /\ request'.step = request.step
      /\ request'.accepted = IF shipper.kind = "otlp" THEN request.accepted
                             ELSE request.accepted + 1
  <2>1. /\ request.at + 1 \in 0 .. Lines + 1 /\ request.accepted + 1 \in 0 .. Lines
        /\ request \in Request
    BY <1>1, <1>3, HandlerTypes
  <2>2. CASE shipper.kind = "otlp"
    BY <1>1, <1>4, <2>1, <2>2 DEF Request, Active
  <2>3. CASE shipper.kind # "otlp"
    BY <1>1, <1>4, <2>1, <2>3 DEF Request, Active
  <2> QED
    BY <2>2, <2>3
<1>6. Passed' = Passed /\ \A i \in Line : Total(i)' = Total(i)
  BY <1>1, <1>5, HandlerTypes DEF Passed, Full, Total, store
<1>7. Handling'
  BY <1>1, <1>3, <1>5, <1>6, HandlerTypes DEF Handling
<1>8. HandlingLines'
  BY <1>1, <1>5, <1>6, HandlerTypes, SMTT(30) DEF HandlingLines
<1>9. HandlingBatch'
  BY <1>1, <1>5, <1>6, HandlerTypes DEF HandlingBatch
<1> QED
  BY <1>1, <1>2, <1>5, <1>7, <1>8, <1>9, HandlerTypes, Moves

\* The end of the body, or of a batch, or of what can be had of a body.
LEMMA FinishStep ==
  ASSUME IInv, UNCHANGED store, process' = process, shipper' = shipper,
         request.step \in {"read", "store"}, NEW ok \in BOOLEAN,
         request' = Finish(request, ok),
         shipper.kind = "otlp" => request.step = "store" /\ request.at > Lines /\ ok
  PROVE  IInv'
<1>1. Types /\ Handling /\ HandlingLines /\ HandlingBatch /\ Active
  BY DEF IInv, Active
<1>2. Reminded
  BY <1>1, UnchangedIsReminded
<1>3. /\ request' \in Request /\ Active' /\ request'.at = request.at
      /\ request'.accepted = request.accepted /\ request'.ok = ok
      /\ request'.step = IF request.accepted # 0 THEN "sync" ELSE "answer"
  BY <1>1, HandlerTypes DEF Request, Active, Finish
<1>4. Passed' = Passed /\ \A i \in Line : Total(i)' = Total(i)
  BY <1>3 DEF Passed, Full, Total, store
<1>5. Handling'
  BY <1>1, <1>3, <1>4, HandlerTypes DEF Handling
<1>6. request.accepted = 0 => Passed = {}
  <2>1. CASE shipper.kind = "lines"
    <3>1. request.accepted = request.at - 1 - shipper.acked
      BY <1>1, <2>1 DEF HandlingLines
    <3> QED
      BY <1>1, <3>1, HandlerTypes DEF Passed
  <2>2. CASE shipper.kind = "otlp"
    BY <1>1, <2>2 DEF HandlingBatch
  <2> QED
    BY <1>1, <2>1, <2>2, HandlerTypes
<1>7. HandlingLines'
  BY <1>1, <1>3, <1>4, <1>6, HandlerTypes DEF HandlingLines
<1>8. HandlingBatch'
  BY <1>1, <1>3, <1>4, <1>6, HandlerTypes DEF HandlingBatch
<1> QED
  BY <1>1, <1>2, <1>3, <1>5, <1>7, <1>8, HandlerTypes, Moves

\* The handler gives up, with nothing to report.
LEMMA RefuseStep ==
  ASSUME IInv, UNCHANGED store, process' = process, Reminded,
         Active, request' = Refuse(request),
         \/ shipper.kind = "otlp" /\ request.at = 1
         \/ shipper'.again >= request.at - 1
  PROVE  IInv'
<1>1. Types /\ Handling /\ HandlingBatch
  BY DEF IInv
<1>2. /\ request' \in Request /\ Active' /\ request'.at = request.at
      /\ request'.accepted = 0 /\ request'.ok = FALSE /\ request'.step = "answer"
  <2>1. request \in Request /\ 0 \in 0 .. Lines
    BY <1>1, HandlerTypes
  <2>2. request' = [request EXCEPT !.ok = FALSE, !.accepted = 0, !.step = "answer"]
    BY DEF Refuse
  <2> QED
    BY <2>1, <2>2 DEF Request, Active
<1>3. Handling'
  BY <1>1, <1>2, HandlerTypes DEF Handling, Reminded
<1>4. HandlingLines'
  BY <1>1, <1>2, HandlerTypes DEF HandlingLines, Reminded
<1>5. HandlingBatch'
  BY <1>1, <1>2, HandlerTypes DEF HandlingBatch, Reminded
<1> QED
  BY <1>1, <1>2, <1>3, <1>4, <1>5, HandlerTypes, Moves

LEMMA StoredStep ==
  ASSUME IInv, process' = process, shipper' = shipper, request.step = "store",
         request.at <= Lines, request.at \notin shipper.blank,
         AppendRecord(request.at), request' = Stored(request)
  PROVE  IInv'
<1> DEFINE at == request.at
<1>1. /\ Types /\ AckedIsStored /\ OnceOrAgain /\ NothingAhead
      /\ Handling /\ HandlingLines /\ HandlingBatch /\ Active /\ ClosedKeepsAll
  BY DEF IInv, Active
<1>2. /\ shipper.acked < at /\ request.accepted <= at - 1 - shipper.acked
      /\ \A i \in Passed : Total(i) > 0
  BY <1>1, HandlerTypes DEF Handling
<1>3. at \in Full /\ at \in Line /\ at \in Records
  BY <1>1, <1>2, HandlerTypes DEF Full, Records
<1>4. /\ disk' \in [Line -> Nat] /\ tail' \in Seq(Records)
      /\ \A i \in Line : /\ Total(i)' = Total(i) + (IF at = i THEN 1 ELSE 0)
                         /\ disk'[i] = disk[i]
  BY <1>1, <1>3, AppendCounts
<1>5. ClosedKeepsAll'
  BY DEF ClosedKeepsAll, AppendRecord, LogIsOpen
<1>6. /\ request' \in Request /\ Active' /\ request'.at = at + 1
      /\ request'.accepted = request.accepted + 1
      /\ request'.step = IF shipper.kind = "otlp" THEN "store" ELSE "read"
  <2>1. /\ at + 1 \in 0 .. Lines + 1 /\ request.accepted + 1 \in 0 .. Lines
        /\ request \in Request
    BY <1>1, <1>2, HandlerTypes
  <2>2. request' = [request EXCEPT !.at = @ + 1, !.accepted = @ + 1,
                      !.step = IF shipper.kind = "otlp" THEN "store" ELSE "read"]
    BY DEF Stored
  <2>3. CASE shipper.kind = "otlp"
    BY <2>1, <2>2, <2>3 DEF Request, Active
  <2>4. CASE shipper.kind # "otlp"
    BY <2>1, <2>2, <2>4 DEF Request, Active
  <2> QED
    BY <2>3, <2>4
<1>7. /\ Full' = Full /\ Passed' = Passed \cup {at}
      /\ Reached = at - 1 /\ Reached' = at
  BY <1>1, <1>2, <1>3, <1>6, HandlerTypes, SMTT(30) DEF Passed, Full, Reached
<1>8. Types'
  BY <1>1, <1>4, <1>6 DEF Types
<1>9. AckedIsStored'
  BY <1>1, <1>4, <1>7, HandlerTypes DEF AckedIsStored, Vouched
<1>10. OnceOrAgain'
  <2> SUFFICES ASSUME NEW i \in Full, Total(i)' > 1
               PROVE  i <= shipper.again
    BY <1>7 DEF OnceOrAgain
  <2>1. CASE i = at
    BY <1>1, <1>3, <1>4, <1>7, <2>1, HandlerTypes, SMTT(30) DEF NothingAhead
  <2>2. CASE i # at
    BY <1>1, <1>4, <2>2, HandlerTypes DEF OnceOrAgain
  <2> QED
    BY <2>1, <2>2
<1>11. NothingAhead'
  BY <1>1, <1>4, <1>7, HandlerTypes DEF NothingAhead
<1>12. \A i \in Passed' : Total(i)' > 0
  BY <1>1, <1>2, <1>3, <1>4, <1>7, HandlerTypes
<1>13. Handling'
  BY <1>1, <1>2, <1>6, <1>12, HandlerTypes DEF Handling
<1>14. HandlingLines'
  BY <1>1, <1>6, HandlerTypes DEF HandlingLines
<1>15. HandlingBatch'
  BY <1>1, <1>6, HandlerTypes DEF HandlingBatch
<1> QED
  BY <1>5, <1>8, <1>9, <1>10, <1>11, <1>13, <1>14, <1>15 DEF IInv

LEMMA SyncStep ==
  ASSUME IInv, SyncRecords
  PROVE  IInv'
<1>1. Types /\ Handling /\ HandlingLines /\ HandlingBatch /\ ClosedKeepsAll /\ Active
  BY DEF IInv, Active, SyncRecords, Handler
<1>2. /\ SyncLog /\ process' = process /\ request.step = "sync"
      /\ shipper' = [shipper EXCEPT !.late = @ \cup Unsynced]
      /\ request' = [request EXCEPT !.step = "answer"]
  BY DEF SyncRecords, Handled, Handler
<1>3. /\ Reminded /\ shipper'.kind = shipper.kind /\ shipper'.again = shipper.again
      /\ Unsynced \subseteq shipper'.late
  <2>1. Unsynced \subseteq Line
    BY DEF Unsynced
  <2>2. shipper \in Shipper
    BY <1>1, HandlerTypes
  <2> HIDE DEF Unsynced
  <2> QED
    BY <1>2, <2>1, <2>2 DEF Shipper, Reminded
<1>4. Undisturbed /\ ClosedKeepsAll' /\ \A i \in Line : Total(i) > 0 => Vouched(i)'
  <2>1. CASE LogIsOpen
    <3>1. Sync
      BY <1>2, <2>1 DEF SyncLog
    <3> QED
      BY <1>1, <3>1, SyncUndisturbed DEF ClosedKeepsAll, Vouched
  <2>2. CASE ~LogIsOpen
    <3>1. UNCHANGED store
      BY <1>2, <2>2 DEF SyncLog
    <3>2. Undisturbed /\ ClosedKeepsAll'
      BY <1>1, <1>2, <3>1, StoreStays DEF ClosedKeepsAll, store
    <3>3. ASSUME NEW i \in Line, Total(i) > 0
          PROVE  Vouched(i)'
      <4>1. disk[i] \in Nat /\ Times(i, tail) \in Nat
        BY <1>1, HandlerTypes, TimesIsFinite DEF Types
      <4>2. disk[i] > 0 \/ Times(i, tail) > 0
        BY <4>1, <3>3 DEF Total
      <4>3. Times(i, tail) > 0 => i \in Unsynced
        BY <2>2 DEF Unsynced
      <4>4. disk' = disk
        BY <3>1 DEF store
      <4> QED
        BY <1>3, <4>2, <4>3, <4>4 DEF Vouched
    <3> QED
      BY <3>2, <3>3
  <2> QED
    BY <2>1, <2>2
<1>5. /\ request' \in Request /\ Active' /\ request'.at = request.at
      /\ request'.accepted = request.accepted /\ request'.step = "answer"
      /\ request'.ok = request.ok
  BY <1>1, <1>2, HandlerTypes DEF Request, Active
<1>6. Passed' = Passed /\ \A i \in Passed : Vouched(i)'
  <2>1. Passed' = Passed
    BY <1>3, <1>5 DEF Reminded, Passed, Full
  <2> QED
    BY <1>1, <1>2, <1>4, <2>1, HandlerTypes DEF Handling
<1>7. Handling'
  BY <1>1, <1>2, <1>3, <1>5, HandlerTypes DEF Handling, Reminded
<1>8. HandlingLines'
  BY <1>1, <1>2, <1>3, <1>5, <1>6, HandlerTypes DEF HandlingLines, Reminded
<1>9. HandlingBatch'
  BY <1>1, <1>2, <1>3, <1>5, <1>6, HandlerTypes DEF HandlingBatch, Reminded
<1>10. request'.at - 1 >= Reached
  BY <1>1, <1>5, HandlerTypes DEF Reached
<1> QED
  BY <1>2, <1>3, <1>4, <1>5, <1>7, <1>8, <1>9, <1>10, HandlerStep

\* The handler is gone, with its answer or without: what it had taken of the
\* shipper's is stored, and will come again.
LEMMA HandlerEnds ==
  ASSUME IInv, disk' \in [Line -> Nat], tail' \in Seq(Records),
         \A i \in Line : Total(i)' <= Total(i) /\ disk'[i] >= disk[i],
         process' \in Process, ClosedKeepsAll', Reminded, request' = NoRequest,
         shipper'.again >= Reached \/ ~Active
  PROVE  IInv'
<1>1. Types /\ Handling /\ HandlingBatch
  BY DEF IInv
<1>2. NoRequest \in Request /\ ~Active' /\ request'.step = "none"
  BY <1>1, HandlerTypes DEF NoRequest, Request, Active
<1>3. Types'
  BY <1>2 DEF Types, Reminded
<1>4. Full' = Full /\ Reached' = shipper.acked
  BY <1>2 DEF Reminded, Full, Reached
<1>5. \A i \in Full : /\ i \in Nat /\ disk[i] \in Nat /\ disk'[i] \in Nat /\ disk'[i] >= disk[i]
                      /\ Total(i) \in Nat /\ Total(i)' \in Nat /\ Total(i)' <= Total(i)
  <2>1. \A i \in Line : Total(i)' \in Nat
    <3>1. \A i : Times(i, tail') \in Nat
      BY TimesIsFinite
    <3> QED
      BY <3>1 DEF Total
  <2> QED
    BY <1>1, <2>1, HandlerTypes
<1>6. shipper.again \in Nat /\ shipper'.again \in Nat
  BY <1>1, HandlerTypes DEF Reminded, Shipper
<1>7. AckedIsStored'
  BY <1>4, <1>5 DEF IInv, AckedIsStored, Vouched, Reminded
<1>8. OnceOrAgain'
  BY <1>4, <1>5, <1>6 DEF IInv, OnceOrAgain, Reminded
<1>9. NothingAhead'
  <2> SUFFICES ASSUME NEW i \in Full, i > shipper.acked, i > shipper'.again
               PROVE  Total(i)' = 0
    BY <1>4 DEF NothingAhead
  <2>1. i > shipper.again
    BY <1>5, <1>6 DEF Reminded
  <2>2. Reached \in Int
    BY <1>1, HandlerTypes DEF Reached
  <2>3. i > Reached
    BY <1>5, <1>6, <2>2 DEF Reached
  <2>4. Total(i) = 0
    BY <2>1, <2>3 DEF IInv, NothingAhead
  <2> QED
    BY <1>5, <2>4
<1>10. Handling' /\ HandlingLines'
  BY <1>2 DEF Handling, HandlingLines
<1>11. HandlingBatch'
  BY <1>1, <1>2 DEF HandlingBatch, Reminded
<1> QED
  BY <1>3, <1>7, <1>8, <1>9, <1>10, <1>11 DEF IInv

LEMMA LostStep ==
  ASSUME IInv, AnswerIsLost
  PROVE  IInv'
<1>1. Types /\ ClosedKeepsAll /\ Active
  BY DEF IInv, AnswerIsLost, Handler, Active
<1>2. /\ UNCHANGED store /\ process' = process /\ request' = NoRequest /\ MayRepeat
      /\ process' \in Process
  BY <1>1, HandlerTypes DEF AnswerIsLost, Handled
<1>3. Reminded /\ shipper'.again >= Reached
  BY <1>1, <1>2, RepeatIsReminded DEF Reached
<1>4. Undisturbed /\ ClosedKeepsAll'
  BY <1>1, <1>2, StoreStays DEF ClosedKeepsAll, store
<1>5. \A i \in Line : Total(i)' <= Total(i)
  BY <1>1, <1>4, HandlerTypes DEF Undisturbed
<1> QED
  BY <1>2, <1>3, <1>4, <1>5, HandlerEnds DEF Undisturbed

LEMMA GoneStep ==
  ASSUME IInv, (Exit \/ Kill)
  PROVE  IInv'
<1>1. Types
  BY DEF IInv
<1>2. /\ Gone /\ process'.phase = "exited" /\ process' \in Process /\ ClosedKeepsAll'
      /\ request' = NoRequest
  BY <1>1, HandlerTypes DEF Exit, Kill, Gone, Process, ClosedKeepsAll
<1>3. Reminded /\ (shipper'.again >= Reached \/ ~Active)
  <2>1. CASE request = NoRequest
    BY <1>1, <1>2, <2>1, UnchangedIsReminded DEF Gone, Active, NoRequest
  <2>2. CASE request # NoRequest
    BY <1>1, <1>2, <2>2, RepeatIsReminded DEF Gone, Reached, Types
  <2> QED
    BY <2>1, <2>2
<1>4. /\ disk' \in [Line -> Nat] /\ tail' \in Seq(Records)
      /\ \A i \in Line : Total(i)' <= Total(i) /\ disk'[i] >= disk[i]
  <2>1. tail \in Seq(Records) /\ <<>> \in Seq(Records)
    BY <1>1 DEF Types
  <2>2. PICK n \in 0 .. Len(tail) : disk' = OnDisk(SubSeq(tail, 1, n))
    BY DEF Exit, Kill, Left
  <2>3. SubSeq(tail, 1, n) \in Seq(Records)
    BY <2>1, TimesOfPart
  <2>4. /\ disk' \in [Line -> Nat]
        /\ \A i \in Line : disk'[i] = disk[i] + Times(i, SubSeq(tail, 1, n))
    BY <1>1, <2>2, <2>3, OnDiskIsTotal
  <2>5. tail' = <<>>
    BY DEF Exit, Kill, Left
  <2>6. ASSUME NEW i \in Line
        PROVE  Total(i)' <= Total(i) /\ disk'[i] >= disk[i]
    <3>1. /\ Times(i, SubSeq(tail, 1, n)) <= Times(i, tail)
          /\ Times(i, SubSeq(tail, 1, n)) \in Nat /\ Times(i, tail) \in Nat
      BY <2>1, <2>3, TimesOfPart, TimesIsFinite
    <3>2. Times(i, tail') = 0 /\ disk[i] \in Nat
      BY <1>1, <2>5, TimesOfNone, HandlerTypes
    <3> QED
      BY <2>4, <3>1, <3>2 DEF Total
  <2> QED
    BY <2>1, <2>4, <2>5, <2>6
<1> QED
  BY <1>2, <1>3, <1>4, HandlerEnds

\* The answer arrives: the shipper knows what its handler knew.
LEMMA AnswerStep ==
  ASSUME IInv, Answer
  PROVE  IInv'
<1> DEFINE acked == IF shipper.kind = "lines" THEN shipper.acked + request.accepted
                    ELSE IF request.ok THEN Lines ELSE shipper.acked
<1>1. /\ Types /\ AckedIsStored /\ OnceOrAgain /\ NothingAhead /\ ClosedKeepsAll
      /\ Handling /\ HandlingLines /\ HandlingBatch /\ Active /\ request.step = "answer"
  BY DEF IInv, Answer, Handler, Active
<1>2. /\ UNCHANGED store /\ process' = process /\ request' = NoRequest
      /\ shipper' = [shipper EXCEPT !.acked = acked]
  BY DEF Answer, Handled
<1>3. /\ acked \in shipper.acked .. Lines
      /\ \A i \in Full : i <= acked => Vouched(i)
      /\ \A i \in Full : i > acked /\ i > shipper.again => i > Reached
      /\ shipper.kind = "otlp" => acked \in {0, Lines}
  <2>1. /\ shipper.acked < request.at /\ request.accepted <= request.at - 1 - shipper.acked
        /\ Reached = request.at - 1
    BY <1>1 DEF Handling, Reached
  <2>2. CASE shipper.kind = "lines"
    <3>1. CASE request.accepted = request.at - 1 - shipper.acked
                 /\ \A i \in Passed : Vouched(i)
      <4>1. acked = request.at - 1 /\ acked = Reached /\ acked \in shipper.acked .. Lines
        BY <1>1, <2>1, <2>2, <3>1, HandlerTypes
      <4>2. \A i \in Full : i \in Nat /\ (i < request.at => i <= shipper.acked \/ i \in Passed)
        BY <1>1, HandlerTypes DEF Passed
      <4>3. \A i \in Full : i <= acked => Vouched(i)
        BY <1>1, <3>1, <4>1, <4>2, HandlerTypes DEF AckedIsStored
      <4>4. shipper.kind # "otlp"
        BY <2>2
      <4> HIDE DEF acked
      <4> QED
        BY <4>1, <4>3, <4>4
    <3>2. CASE request.accepted = 0 /\ request.at - 1 <= shipper.again
      BY <1>1, <2>1, <2>2, <3>2, HandlerTypes DEF AckedIsStored
    <3> QED
      BY <1>1, <2>2, <3>1, <3>2 DEF HandlingLines
  <2>3. CASE shipper.kind = "otlp"
    <3>1. CASE request.ok /\ request.at > Lines /\ \A i \in Passed : Vouched(i)
      <4>1. acked = Lines /\ Lines \in shipper.acked .. Lines
        BY <1>1, <2>3, <3>1, HandlerTypes
      <4>2. \A i \in Full : i \in Nat /\ i <= Lines /\ (i <= shipper.acked \/ i \in Passed)
        BY <1>1, <3>1, HandlerTypes DEF Passed
      <4>3. \A i \in Full : Vouched(i)
        BY <1>1, <3>1, <4>2 DEF AckedIsStored
      <4> HIDE DEF acked
      <4> QED
        BY <4>1, <4>2, <4>3
    <3>2. CASE ~request.ok /\ (request.at = 1 \/ request.at - 1 <= shipper.again)
      BY <1>1, <2>1, <2>3, <3>2, HandlerTypes DEF AckedIsStored, HandlingBatch
    <3> QED
      BY <1>1, <2>3, <3>1, <3>2 DEF HandlingBatch
  <2> QED
    <3>1. shipper.kind \in {"lines", "otlp"}
      BY <1>1, HandlerTypes
    <3> HIDE DEF acked
    <3> QED
      BY <2>2, <2>3, <3>1
<1> HIDE DEF acked
<1>4. /\ shipper' \in Shipper /\ shipper'.acked = acked /\ shipper'.kind = shipper.kind
      /\ shipper'.blank = shipper.blank /\ shipper'.again = shipper.again
      /\ shipper'.late = shipper.late
  <2>1. acked \in 0 .. Lines /\ shipper \in Shipper
    BY <1>1, <1>3, HandlerTypes
  <2> QED
    BY <1>2, <2>1 DEF Shipper
<1>5. request' \in Request /\ ~Active' /\ request'.step = "none"
  BY <1>1, <1>2, HandlerTypes DEF Request, NoRequest, Active
<1>6. Types'
  BY <1>1, <1>2, <1>4, <1>5 DEF Types, store
<1>7. /\ Full' = Full /\ Reached' = acked
      /\ \A i \in Full : Total(i)' = Total(i) /\ (Vouched(i)' <=> Vouched(i))
  BY <1>2, <1>4, <1>5 DEF Full, Reached, Total, Vouched, store
<1>8. AckedIsStored' /\ OnceOrAgain' /\ NothingAhead'
  BY <1>1, <1>2, <1>3, <1>4, <1>7 DEF AckedIsStored, OnceOrAgain, NothingAhead, store
<1>9. Handling' /\ HandlingLines' /\ HandlingBatch'
  BY <1>3, <1>4, <1>5 DEF Handling, HandlingLines, HandlingBatch
<1>10. ClosedKeepsAll'
  BY <1>1, <1>2 DEF ClosedKeepsAll, store
<1> QED
  BY <1>6, <1>8, <1>9, <1>10 DEF IInv

LEMMA HttpStep ==
  ASSUME IInv, Http
  PROVE  IInv'
<1>1. Types /\ Handling /\ HandlingBatch
  BY DEF IInv
<1>2. CASE Send
  BY <1>2, SendStep
<1>3. CASE Read
  <2>1. UNCHANGED store /\ process' = process /\ shipper' = shipper /\ request.step = "read"
    BY <1>3 DEF Read, Handled, Handler
  <2>2. CASE shipper.kind = "lines" /\ request.at > Lines
    <3>1. request' = Finish(request, TRUE)
      BY <1>3, <2>2 DEF Read, Handled
    <3> QED
      BY <2>1, <2>2, <3>1, FinishStep
  <2>3. CASE shipper.kind = "lines" /\ ~(request.at > Lines) /\ request.at \in shipper.blank
    <3>1. request' = Skip(request)
      BY <1>3, <2>3 DEF Read, Handled
    <3>2. request.at <= Lines
      BY <1>1, <2>3, HandlerTypes
    <3> QED
      BY <2>1, <2>3, <3>1, <3>2, SkipStep
  <2>4. CASE request' = [request EXCEPT !.step = "store"]
    BY <2>1, <2>4, ToStore
  <2> QED
    BY <1>3, <2>2, <2>3, <2>4 DEF Read, Handled
<1>4. CASE ReadFails
  <2>1. UNCHANGED store /\ process' = process /\ shipper' = shipper /\ request.step = "read"
        /\ Active
    BY <1>4 DEF ReadFails, Handled, Handler, Active
  <2>2. CASE shipper.kind = "otlp"
    <3>1. request' = Refuse(request) /\ request.at = 1 /\ Reminded
      BY <1>1, <1>4, <2>1, <2>2, UnchangedIsReminded
         DEF ReadFails, Handled, CutShort, HandlingBatch
    <3> QED
      BY <2>1, <2>2, <3>1, RefuseStep
  <2>3. CASE shipper.kind = "lines"
    <3>1. request' = Finish(request, FALSE)
      BY <1>4, <2>3 DEF ReadFails, Handled, CutShort
    <3> QED
      BY <2>1, <2>3, <3>1, FinishStep
  <2> QED
    BY <1>1, <2>2, <2>3, HandlerTypes
<1>5. CASE Store
  <2>1. process' = process /\ shipper' = shipper /\ request.step = "store"
    BY <1>5 DEF Store, Handled, Handler
  <2>2. CASE request.at > Lines
    <3>1. request' = Finish(request, TRUE) /\ UNCHANGED store
      BY <1>5, <2>2 DEF Store, Handled
    <3> QED
      BY <2>1, <2>2, <3>1, FinishStep
  <2>3. CASE ~(request.at > Lines) /\ request.at \in shipper.blank
    <3>1. request' = Skip(request) /\ UNCHANGED store
      BY <1>5, <2>3 DEF Store, Handled
    <3>2. request.at <= Lines
      BY <1>1, <2>3, HandlerTypes
    <3> QED
      BY <2>1, <2>3, <3>1, <3>2, SkipStep
  <2>4. CASE ~(request.at > Lines) /\ request.at \notin shipper.blank
    <3>1. request' = Stored(request) /\ AppendRecord(request.at)
      BY <1>5, <2>4 DEF Store, Handled
    <3>2. request.at <= Lines
      BY <1>1, <2>4, HandlerTypes
    <3> QED
      BY <2>1, <2>4, <3>1, <3>2, StoredStep
  <2> QED
    BY <2>2, <2>3, <2>4
<1>6. CASE StoreFails
  <2>1. UNCHANGED store /\ process' = process /\ request.step = "store" /\ Active
    BY <1>6 DEF StoreFails, Handled, Handler, Active
  <2>2. CASE shipper.kind = "otlp"
    <3>1. request' = Refuse(request) /\ MayRepeat
      BY <1>6, <2>2 DEF StoreFails, Handled, CutShort
    <3> QED
      BY <1>1, <2>1, <3>1, RepeatIsReminded, RefuseStep
  <2>3. CASE shipper.kind = "lines"
    <3>1. request' = Finish(request, FALSE) /\ shipper' = shipper
      BY <1>6, <2>3 DEF StoreFails, Handled, CutShort
    <3> QED
      BY <2>1, <2>3, <3>1, FinishStep
  <2> QED
    BY <1>1, <2>2, <2>3, HandlerTypes
<1>7. CASE SyncRecords
  BY <1>7, SyncStep
<1>8. CASE SyncFails
  <2>1. /\ UNCHANGED store /\ process' = process /\ Active
        /\ request' = Refuse(request) /\ MayRepeat
    BY <1>8 DEF SyncFails, Handled, Handler, Active
  <2> QED
    BY <1>1, <2>1, RepeatIsReminded, RefuseStep
<1>9. CASE Answer
  BY <1>9, AnswerStep
<1>10. CASE AnswerIsLost
  BY <1>10, LostStep
<1> QED
  BY <1>2, <1>3, <1>4, <1>5, <1>6, <1>7, <1>8, <1>9, <1>10 DEF Http

------------------------------------------------------------------------------
(* The invariant, and what follows from it. *)

LEMMA InitInv ==
  ASSUME Init
  PROVE  IInv
<1>1. /\ disk = [i \in Line |-> 0] /\ tail = <<>> /\ process = Started /\ request = NoRequest
      /\ shipper \in [kind : {"lines", "otlp"}, blank : Blanks, acked : {0}, again : {0},
                      late : {{}}]
      /\ Lines \in Nat /\ Blanks \subseteq SUBSET Line
  BY ServerAssumption DEF Init, Line
<1>2. ~Active /\ request.step = "none" /\ shipper.acked = 0 /\ shipper.again = 0
  BY <1>1 DEF Active, NoRequest
<1>3. Types
  <2>1. disk \in [Line -> Nat] /\ tail \in Seq(Records)
    BY <1>1
  <2>2. shipper \in Shipper
    BY <1>1 DEF Shipper
  <2>3. request \in Request /\ process \in Process
    BY <1>1 DEF Request, NoRequest, Process, Started
  <2> QED
    BY <1>1, <2>1, <2>2, <2>3 DEF Types
<1>4. \A i \in Full : Total(i) = 0 /\ i > 0
  <2>1. \A i \in Line : Total(i) = 0 /\ i > 0
    BY <1>1, TimesOfNone DEF Total, Line
  <2> QED
    BY <2>1 DEF Full
<1>5. Full \subseteq Nat
  BY <1>1 DEF Full, Line
<1>6. AckedIsStored /\ OnceOrAgain /\ NothingAhead
  BY <1>2, <1>4, <1>5 DEF AckedIsStored, OnceOrAgain, NothingAhead
<1>7. Handling /\ HandlingLines /\ HandlingBatch
  BY <1>2 DEF Handling, HandlingLines, HandlingBatch
<1>8. ClosedKeepsAll
  BY <1>1 DEF ClosedKeepsAll
<1> QED
  BY <1>3, <1>6, <1>7, <1>8 DEF IInv

LEMMA StepInv ==
  ASSUME IInv, [Next]_vars
  PROVE  IInv'
<1>1. CASE PeriodicSync
  BY <1>1, PeriodicSyncStep
<1>2. CASE Http
  BY <1>2, HttpStep
<1>3. CASE Accepting \/ Datagram \/ \E k \in Sender : Connect(k) \/ Receive(k) \/ ConnEnds(k)
  BY <1>3, SyslogStep
<1>4. CASE Exit \/ Kill
  BY <1>4, GoneStep
<1>5. CASE \/ Serve \/ StartDrain \/ EndDrain \/ CloseReceivers \/ AwaitCompactor
           \/ CloseFlush \/ CloseLog \/ BindFails \/ Signal \/ ServerFails
           \/ CompactorEnds \/ Start
  BY <1>5, ProcessStep
<1>6. CASE UNCHANGED vars
  <2>1. UNCHANGED store /\ UNCHANGED http /\ process' = process
    BY <1>6 DEF vars, store, http
  <2>2. Undisturbed /\ process' \in Process /\ ClosedKeepsAll'
    BY <2>1, StoreStays DEF IInv, Types, ClosedKeepsAll, store
  <2> QED
    BY <2>1, <2>2, QuietStep
<1> QED
  BY <1>1, <1>2, <1>3, <1>4, <1>5, <1>6 DEF Next, Run

\* What a handler knows at each of its steps is so at all times, whatever fails,
\* is lost, cut or killed meanwhile (the handlers of internal/ingest).
THEOREM UploadInvariant == Spec => []IInv
<1>1. Init => IInv
  BY InitInv
<1>2. IInv /\ [Next]_vars => IInv'
  BY StepInv
<1> QED
  BY <1>1, <1>2, PTL DEF Spec

\* Every line a shipper was told is accepted is on disk, but for one that the Sync of a
\* log closed without it has vouched for; and a line is stored twice only if its answer
\* was lost or the store failed it.
THEOREM UploadsResumeAlways == Spec => []UploadsResume
<1>1. IInv => UploadsResume
  <2> SUFFICES ASSUME IInv, NEW i \in Line \ shipper.blank
               PROVE  /\ i <= shipper.acked => disk[i] > 0 \/ i \in shipper.late
                      /\ OnDisk(tail)[i] > 1 => i <= shipper.again
    BY DEF UploadsResume
  <2>1. i \in Full /\ i \in Line /\ tail \in Seq(Records) /\ Types
    BY DEF Full, IInv, Types
  <2>2. OnDisk(tail)[i] = Total(i)
    BY <2>1, OnDiskIsTotal DEF Total
  <2> QED
    BY <2>1, <2>2 DEF IInv, AckedIsStored, OnceOrAgain, Vouched
<1> QED
  BY <1>1, UploadInvariant, PTL

\* A store whose Close returns no error has left nothing it accepted off the disk, also
\* where receivers went on appending behind its last flush (Close, closeParts, and the
\* log's Close).
THEOREM CloseKeepsAll == Spec => []ClosedKeepsAll
<1>1. IInv => ClosedKeepsAll
  BY DEF IInv
<1> QED
  BY <1>1, UploadInvariant, PTL

===============================================================================
