-------------------------------- MODULE Server --------------------------------
(***************************************************************************)
(* The server process: the receivers (internal/ingest), which append to    *)
(* the store and, over HTTP, answer for what they appended; and the        *)
(* process around them (cmd/rtail-server), which starts, stops on a signal *)
(* or on its own, or is killed at any point and started again.             *)
(*                                                                         *)
(* The store is what Wal and DurableStore show it to be: a tail of         *)
(* appended records nothing has synced, which the end of the process may   *)
(* cut anywhere, and the records behind it, which are on disk.  A sync that*)
(* fails leaves them as they were, and the one of the log's Close closes   *)
(* the log all the same.                                                   *)
(***************************************************************************)
EXTENDS Integers, Sequences, FiniteSets, FiniteSetsExt

CONSTANTS
  Lines,      \* the lines, or records, a shipper has to send
  Blanks,     \* the sets of those that may be blank
  MaxConns,   \* TCP connections the syslog receiver serves at once
  Sender,     \* what connects to it
  MaxTail,    \* bound: records nothing has synced
  MaxFaults,  \* bound: calls and reads that fail, answers that get lost
  MaxStarts   \* bound: starts of the process

ASSUME ServerAssumption ==
  /\ Lines \in Nat /\ Blanks \subseteq SUBSET (1 .. Lines) /\ MaxConns \in Nat \ {0}
  /\ MaxTail \in Nat /\ MaxFaults \in Nat /\ MaxStarts \in Nat \ {0}

VARIABLES
  disk,      \* how often each line of the shipper's is on disk
  tail,      \* what was appended since, oldest first
  process,   \* phase, and what main has done so far
  shipper,   \* the body, and how far it knows it has been accepted
  request,   \* the handler of the shipper's request
  listener,  \* serveTCP
  sender,    \* the connection of each sender
  faults, starts

store == <<disk, tail>>
http == <<shipper, request>>
syslog == <<listener, sender>>
vars == <<disk, tail, process, shipper, request, listener, sender, faults, starts>>

Line == 1 .. Lines

\* A message of a syslog sender.
Message == 0

(* phase: "starting" until the HTTP port is bound, "serving", "draining" while *)
(* Shutdown waits, then the deferred calls of main in turn.  live: the signal  *)
(* context is; cut: no HTTP client is connected, not yet or not any more;      *)
(* failed: what the store's Close returns is an error, which main drops.       *)
Process ==
  [phase : {"starting", "serving", "draining", "receivers", "compactor", "flush",
            "close", "closed", "exited"},
   live : BOOLEAN, cut : BOOLEAN, compacting : BOOLEAN, failed : BOOLEAN]

Started == [phase |-> "starting", live |-> TRUE, cut |-> TRUE, compacting |-> TRUE,
            failed |-> FALSE]

Up == process.phase # "exited"

Fault == faults < MaxFaults /\ faults' = faults + 1

------------------------------------------------------------------------------
(* The store. *)

Times(i, records) == Cardinality({n \in DOMAIN records : records[n] = i})

\* The disk with records on it as well.
OnDisk(records) == [i \in Line |-> disk[i] + Times(i, records)]

Sync == disk' = OnDisk(tail) /\ tail' = <<>>

\* Mutant of LogIsOpen: a log that is closed takes what comes.
LogIsOpenStill == process.phase # "exited"

\* The log refuses appends once it is closed.
LogIsOpen == process.phase \notin {"closed", "exited"}

\* Sync, which finds nothing to do in a log that is closed.
SyncLog == IF LogIsOpen THEN Sync ELSE UNCHANGED store

\* What is left where the process ends: any part of the tail, from its start.
Left == /\ \E n \in 0 .. Len(tail) : disk' = OnDisk(SubSeq(tail, 1, n))
        /\ tail' = <<>>

AppendRecord(r) == /\ LogIsOpen /\ Len(tail) < MaxTail
                   /\ tail' = Append(tail, r) /\ disk' = disk

\* The periodic sync, or a flush.
PeriodicSync == /\ LogIsOpen /\ tail # <<>> /\ Sync
                /\ UNCHANGED <<process, http, syslog, faults, starts>>

------------------------------------------------------------------------------
(* The shipper, and the handler of its request.  kind is the endpoint: Lines   *)
(* takes a body line by line and reports how many it accepted, OTLP takes all  *)
(* of a batch or nothing.  blank has what is taken with nothing to store: a    *)
(* blank line, or a record OTLP refuses for its size.  again is a history      *)
(* variable: how far a line may be stored twice, its answer having been lost   *)
(* or the store having failed; and so is late: the lines that were vouched for *)
(* by the Sync of a log that had been closed without them.                     *)

Shipper == [kind : {"lines", "otlp"}, blank : SUBSET Line,
            acked : 0 .. Lines, again : 0 .. Lines, late : SUBSET Line]

\* at is the line the handler is at, accepted how many it has taken.
Request == [step : {"none", "read", "store", "sync", "answer"},
            at : 0 .. Lines + 1, accepted : 0 .. Lines, ok : BOOLEAN]

NoRequest == [step |-> "none", at |-> 0, accepted |-> 0, ok |-> FALSE]

Handler(step) == request.step = step /\ Up

Handled(r) == /\ request' = r
              /\ UNCHANGED <<process, syslog, starts>>

\* What the handler has taken and does not get to report may be sent again.
MayRepeat == shipper' = [shipper EXCEPT !.again = Max({@, request.at - 1})]

\* A server that is not shut down accepts requests until the process ends.
Send ==
  /\ ~process.cut /\ process.phase # "draining"
  /\ request = NoRequest /\ shipper.acked < Lines
  /\ Handled([step |-> "read", at |-> shipper.acked + 1, accepted |-> 0, ok |-> FALSE])
  /\ UNCHANGED <<store, shipper, faults>>

\* finish: what was accepted is synced before it is reported.
Finish(r, ok) ==
  [r EXCEPT !.ok = ok, !.step = IF r.accepted # 0 THEN "sync" ELSE "answer"]

\* fail: nothing is reported.
Refuse(r) == [r EXCEPT !.ok = FALSE, !.accepted = 0, !.step = "answer"]

\* Mutant of Skip: a blank line does not count as accepted.
SkipUncounted(r) == [r EXCEPT !.at = @ + 1]

\* Past a blank line, or a record that is refused.
Skip(r) == IF shipper.kind = "otlp" THEN [r EXCEPT !.at = @ + 1]
           ELSE [r EXCEPT !.at = @ + 1, !.accepted = @ + 1]

\* Past a record that has been appended.
Stored(r) == [r EXCEPT !.at = @ + 1, !.accepted = @ + 1,
                       !.step = IF shipper.kind = "otlp" THEN "store" ELSE "read"]

\* OTLP reads its whole body, Lines the next line, or the end of it: from what has
\* come in before the connection was closed, perhaps.
Read ==
  /\ Handler("read")
  /\ Handled(IF shipper.kind = "lines" /\ request.at > Lines THEN Finish(request, TRUE)
             ELSE IF shipper.kind = "lines" /\ request.at \in shipper.blank THEN Skip(request)
             ELSE [request EXCEPT !.step = "store"])
  /\ UNCHANGED <<store, shipper, faults>>

\* What the handler answers when it cannot go on.
CutShort(r) == IF shipper.kind = "otlp" THEN Refuse(r) ELSE Finish(r, FALSE)

\* The body is too large, late or broken, or its connection is closed.
ReadFails ==
  /\ Handler("read") /\ (Fault \/ (process.cut /\ faults' = faults))
  /\ Handled(CutShort(request)) /\ UNCHANGED <<store, shipper>>

Store ==
  /\ Handler("store") /\ faults' = faults /\ shipper' = shipper
  /\ IF request.at > Lines THEN Handled(Finish(request, TRUE)) /\ UNCHANGED store
     ELSE IF request.at \in shipper.blank THEN Handled(Skip(request)) /\ UNCHANGED store
     ELSE Handled(Stored(request)) /\ AppendRecord(request.at)

\* What OTLP has stored of the batch will come again.
StoreFails ==
  /\ Handler("store") /\ (Fault \/ (~LogIsOpen /\ faults' = faults))
  /\ Handled(CutShort(request)) /\ UNCHANGED store
  /\ IF shipper.kind = "otlp" THEN MayRepeat ELSE shipper' = shipper

\* What a Sync that does nothing vouches for all the same: the lines that the last sync
\* of a log that is closed has left in it.
Unsynced == IF LogIsOpen THEN {} ELSE {i \in Line : Times(i, tail) > 0}

SyncRecords ==
  /\ Handler("sync") /\ SyncLog
  /\ shipper' = [shipper EXCEPT !.late = @ \cup Unsynced]
  /\ Handled([request EXCEPT !.step = "answer"]) /\ faults' = faults

SyncFails ==
  /\ Handler("sync") /\ LogIsOpen /\ Fault
  /\ Handled(Refuse(request)) /\ MayRepeat /\ UNCHANGED store

\* A shipper resumes behind the lines that were accepted; a collector takes a
\* batch for stored when it is told so.
Answer ==
  /\ Handler("answer") /\ ~process.cut
  /\ shipper' = [shipper EXCEPT !.acked =
                   IF shipper.kind = "lines" THEN @ + request.accepted
                   ELSE IF request.ok THEN Lines ELSE @]
  /\ Handled(NoRequest) /\ UNCHANGED <<store, faults>>

AnswerIsLost ==
  /\ Handler("answer") /\ (Fault \/ (process.cut /\ faults' = faults))
  /\ MayRepeat /\ Handled(NoRequest) /\ UNCHANGED store

------------------------------------------------------------------------------
(* Syslog over TCP.  A sender is "out", in the kernel's "queue", "served", or  *)
(* "over".  bound: the listener is, and the UDP sockets with it.               *)

Listener == [step : {"slot", "accept", "pause", "done"}, slots : Nat, bound : BOOLEAN]

Listening == [step |-> "slot", slots |-> 0, bound |-> TRUE]

Syslog(l, s) == /\ Up /\ listener' = l /\ sender' = s
                /\ UNCHANGED <<process, http, starts>>

Connect(k) == /\ sender[k] = "out" /\ listener.bound
              /\ Syslog(listener, [sender EXCEPT ![k] = "queue"])
              /\ UNCHANGED <<store, faults>>

\* A slot before the accept.
TakeSlot == /\ listener.step = "slot" /\ listener.slots < MaxConns
            /\ Syslog([listener EXCEPT !.step = "accept", !.slots = @ + 1], sender)
            /\ UNCHANGED <<store, faults>>

Accept(k) == /\ listener.step = "accept" /\ listener.bound /\ sender[k] = "queue"
             /\ Syslog([listener EXCEPT !.step = "slot"], [sender EXCEPT ![k] = "served"])
             /\ UNCHANGED <<store, faults>>

\* Mutant of GiveBack: a failed accept keeps its slot.
GiveBackNone(l) == l

GiveBack(l) == [l EXCEPT !.slots = @ - 1]

AcceptFails ==
  /\ listener.step = "accept"
  /\ (Fault \/ (~listener.bound /\ faults' = faults))
  /\ Syslog([GiveBack(listener) EXCEPT
               !.step = IF process.live /\ listener.bound THEN "pause" ELSE "done"], sender)
  /\ UNCHANGED store

PauseEnds == /\ listener.step = "pause"
             /\ Syslog([listener EXCEPT !.step = "slot"], sender)
             /\ UNCHANGED <<store, faults>>

StopAccepting == /\ listener.step \in {"slot", "pause"} /\ ~process.live
                 /\ Syslog([listener EXCEPT !.step = "done"], sender)
                 /\ UNCHANGED <<store, faults>>

\* A message over TCP: read before the connection was closed, perhaps.  One the
\* log refuses is dropped.
Receive(k) == /\ sender[k] = "served" /\ AppendRecord(Message)
              /\ Syslog(listener, sender) /\ faults' = faults

\* One over UDP, to either receiver.
Datagram == /\ listener.bound /\ AppendRecord(Message)
            /\ Syslog(listener, sender) /\ faults' = faults

\* serveConn ends: with its sender, for its idleness, or at shutdown.
ConnEnds(k) == /\ sender[k] = "served"
               /\ Syslog([listener EXCEPT !.slots = @ - 1], [sender EXCEPT ![k] = "over"])
               /\ UNCHANGED <<store, faults>>

\* Those in the queue of a listener that is closed are refused.
Closed == /\ listener' = [listener EXCEPT !.bound = FALSE]
          /\ sender' = [k \in Sender |-> IF sender[k] = "queue" THEN "over" ELSE sender[k]]

\* Serve closes its sockets with the context.
CloseListener == /\ Up /\ ~process.live /\ listener.bound /\ Closed
                 /\ UNCHANGED <<store, process, http, faults, starts>>

------------------------------------------------------------------------------
(* The process. *)

Main(p) == process' = p /\ starts' = starts

Serve == /\ process.phase = "starting"
         /\ Main([process EXCEPT !.phase = "serving", !.cut = FALSE])
         /\ UNCHANGED <<store, http, syslog, faults>>

\* The port is in use: main returns with the signal context live.
BindFails == /\ process.phase = "starting"
             /\ Main([process EXCEPT !.phase = "receivers"])
             /\ UNCHANGED <<store, http, syslog, faults>>

Signal == /\ Up /\ process.live /\ Main([process EXCEPT !.live = FALSE])
          /\ UNCHANGED <<store, http, syslog, faults>>

\* A server fails, the UDP one perhaps: main returns, with requests still running, and
\* more of them coming.
ServerFails == /\ process.phase = "serving"
               /\ Main([process EXCEPT !.live = FALSE, !.phase = "receivers"])
               /\ UNCHANGED <<store, http, syslog, faults>>

StartDrain == /\ process.phase = "serving" /\ ~process.live
              /\ Main([process EXCEPT !.phase = "draining"])
              /\ UNCHANGED <<store, http, syslog, faults>>

\* Shutdown returns when no request is left, or when its time is up, and what is
\* left is cut off.
EndDrain == /\ process.phase = "draining"
            /\ Main([process EXCEPT !.phase = "receivers", !.cut = TRUE])
            /\ UNCHANGED <<store, http, syslog, faults>>

\* Mutant of Stopped: who waits for the compactor does not stop it.
StoppedNot(p) == [p EXCEPT !.phase = "compactor"]

Stopped(p) == [p EXCEPT !.phase = "compactor", !.live = FALSE]

CloseReceivers == /\ process.phase = "receivers" /\ Main(Stopped(process)) /\ Closed
                  /\ UNCHANGED <<store, http, faults>>

\* A pass in progress ends with the context.
CompactorEnds == /\ Up /\ process.compacting /\ ~process.live
                 /\ Main([process EXCEPT !.compacting = FALSE])
                 /\ UNCHANGED <<store, http, syslog, faults>>

AwaitCompactor == /\ process.phase = "compactor" /\ ~process.compacting
                  /\ Main([process EXCEPT !.phase = "flush"])
                  /\ UNCHANGED <<store, http, syslog, faults>>

\* A step of the store's Close, which goes on to the next if it fails.
Closing(phase, step) ==
  \/ step /\ Main([process EXCEPT !.phase = phase]) /\ faults' = faults
  \/ Fault /\ Main([process EXCEPT !.phase = phase, !.failed = TRUE]) /\ UNCHANGED store

\* The store's last flush.
CloseFlush == process.phase = "flush" /\ Closing("close", Sync) /\ UNCHANGED <<http, syslog>>

\* The log's own Close, which syncs what came behind the flush, and closes the log
\* whether it could or not.
CloseLog == /\ process.phase = "close" /\ Closing("closed", Sync)
            /\ UNCHANGED <<http, syslog>>

\* What is left of the process goes with it.  Bound: no sender connects to another.
Gone == /\ process' = [process EXCEPT !.phase = "exited", !.compacting = FALSE,
                                      !.live = FALSE, !.cut = TRUE]
        /\ IF request = NoRequest THEN shipper' = shipper ELSE MayRepeat
        /\ request' = NoRequest
        /\ listener' = [step |-> "done", slots |-> 0, bound |-> FALSE]
        /\ sender' = [k \in Sender |-> "over"]
        /\ UNCHANGED <<faults, starts>>

Exit == process.phase = "closed" /\ Gone /\ Left

\* The kill may also be the machine's.
Kill == Up /\ starts < MaxStarts /\ Gone /\ Left

Start == /\ ~Up /\ starts < MaxStarts /\ starts' = starts + 1
         /\ process' = Started /\ listener' = Listening
         /\ UNCHANGED <<store, http, sender, faults>>

------------------------------------------------------------------------------

Init == /\ disk = [i \in Line |-> 0] /\ tail = <<>> /\ process = Started
        /\ shipper \in [kind : {"lines", "otlp"}, blank : Blanks, acked : {0}, again : {0},
                        late : {{}}]
        /\ request = NoRequest /\ listener = Listening
        /\ sender = [k \in Sender |-> "out"] /\ faults = 0 /\ starts = 1

Http == Send \/ Read \/ ReadFails \/ Store \/ StoreFails \/ SyncRecords \/ SyncFails
          \/ Answer \/ AnswerIsLost

Accepting == \/ TakeSlot \/ AcceptFails \/ PauseEnds \/ StopAccepting \/ CloseListener
             \/ \E k \in Sender : Accept(k)

\* What main does by itself.
Run == Serve \/ StartDrain \/ EndDrain \/ CloseReceivers \/ AwaitCompactor
         \/ CloseFlush \/ CloseLog \/ Exit

Next == \/ PeriodicSync \/ Http \/ Accepting \/ Datagram
        \/ \E k \in Sender : Connect(k) \/ Receive(k) \/ ConnEnds(k)
        \/ Run \/ BindFails \/ Signal \/ ServerFails \/ CompactorEnds
        \/ Kill \/ Start

Spec == Init /\ [][Next]_vars

\* The process runs; the grace period and the idle timeout pass.
FairSpec == /\ Spec
            /\ WF_vars(Run) /\ WF_vars(CompactorEnds)
            /\ WF_vars(Accepting) /\ \A k \in Sender : WF_vars(ConnEnds(k))

------------------------------------------------------------------------------

\* Every line a shipper was told is accepted is on disk, whatever was lost, cut or
\* killed, but for one vouched for by the Sync of a log whose Close had failed to sync it
\* (a server has failed, the disk has, and a request is still running); and a line is
\* stored twice only if its answer was lost or the store failed it (Lines, where accepted
\* is the line to resume at, and OTLP).
UploadsResume ==
  \A i \in Line \ shipper.blank :
    /\ i <= shipper.acked => disk[i] > 0 \/ i \in shipper.late
    /\ OnDisk(tail)[i] > 1 => i <= shipper.again

\* A store whose Close returns no error leaves nothing it has accepted off the disk: what
\* receivers nobody waits for append behind its last flush the log's Close syncs, and
\* what they append behind that is refused, for as long as the process lasts.  One whose
\* Close fails may, and the process exits as cleanly (Close, closeParts, the log's Close
\* and Append, and main's deferred call, which drops the error).
ClosedKeepsAll == process.phase = "closed" /\ ~process.failed => tail = <<>>

\* Every slot is held by a connection that is served, or by the next accept, and a
\* connection is served before long, failed accepts and idle senders
\* notwithstanding, or the receiver closes (serveTCP).
ConnectionsAreServed == \A k \in Sender : sender[k] = "queue" ~> sender[k] # "queue"

\* A signal, and an early return, end the process, whatever a request or a sender
\* is doing (run's deferred calls, Shutdown's deadline).
ShutdownEnds == (Up /\ (~process.live \/ process.phase = "receivers")) ~> ~Up

=============================================================================
