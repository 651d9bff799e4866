---------------------------- MODULE TraceBatch ----------------------------
(***************************************************************************)
(* The execution trace of a run on its way from the page to the browser's  *)
(* database.                                                               *)
(*                                                                         *)
(* The page numbers its events, queues them and sends the head of the      *)
(* queue as a batch over a port that breaks whenever the service worker    *)
(* is stopped (content/telemetry/).  The worker puts a batch into the      *)
(* database under the keys <<run, number>> and only then acknowledges it;  *)
(* all its trace work, the records it writes itself included, goes         *)
(* through one serial queue (background/telemetry/, background/index.ts).  *)
(* A batch is sent again when its acknowledgement is late, so a batch or   *)
(* an acknowledgement may arrive twice, late, or after the page has gone   *)
(* on to the next run.                                                     *)
(*                                                                         *)
(* An event is its number.  A message posted on an open port is in the     *)
(* worker's queue at once.                                                 *)
(***************************************************************************)
EXTENDS Integers, Sequences, FiniteSets, SequencesExt, FiniteSetsExt

CONSTANTS
  Runs,          \* runs a page executes, and attempts of one run
  NoRun,         \* the page has not been started yet
  BatchSize,     \* 20 in the code
  QueueSize,     \* 512 in the code
  Critical,      \* the events of a run, by number, whose code is in CRITICAL_TRACE_CODES
  Length,        \* bound: the number of events of each run
  MaxPending,    \* bound: no timer and no record of the worker while so many tasks and answers wait
  MaxFaults      \* bound: broken ports, failed writes, pages that die

ASSUME BatchAssumption ==
  /\ IsFiniteSet(Runs) /\ Runs # {}
  /\ BatchSize \in Nat \ {0}
  /\ QueueSize \in Nat \ {0}
  /\ Length \in [Runs -> Nat \ {0}]
  /\ Critical \subseteq Nat
  /\ {MaxPending, MaxFaults} \subseteq Nat
  /\ NoRun \notin Runs

VARIABLES
  page,      \* the processor: run, queue, inflight, timer (armed or not)
  phase,     \* the run in the page: "idle", "running", "flushing"
  tries,     \* forceFlush calls of the ending run
  recorded,  \* per run, the number of its last event (seq)
  dropped,   \* per run, the events removed from a full queue (droppedCount)
  flushOk,   \* per run, the flush result the page reports: "none", "yes", "no"
  port,      \* the page's port: "none", "open", "broken" (not noticed yet)
  acks,      \* acknowledgements on their way to the page
  tasks,     \* the worker's serial queue of trace work
  store,     \* per run and number: the record in the database
  noted,     \* runs the worker has been asked to write a record about
  faults

vars == <<page, phase, tries, recorded, dropped, flushOk, port, acks, tasks, store, noted, faults>>
pageSide == <<page, phase, tries, recorded, dropped, flushOk>>
workerSide == <<tasks, store, noted>>

Number == 1 .. Max({Length[r] : r \in Runs})
Key == 1 .. Max({Length[r] : r \in Runs}) + 1

Fresh(r) == [run |-> r, queue |-> <<>>, inflight |-> FALSE, timer |-> FALSE]

Init ==
  /\ page = Fresh(NoRun)
  /\ phase = "idle"
  /\ tries = 0
  /\ recorded = [r \in Runs |-> 0]
  /\ dropped = [r \in Runs |-> {}]
  /\ flushOk = [r \in Runs |-> "none"]
  /\ port = "none"
  /\ acks = <<>>
  /\ tasks = <<>>
  /\ store = [r \in Runs |-> [k \in Key |-> "none"]]
  /\ noted = {}
  /\ faults = 0

-----------------------------------------------------------------------------
(* The page: BatchTraceProcessor and PortTraceTransport *)

\* Mutant: an acknowledgement empties the queue.
unacknowledgedNone(queue, last) == <<>>

\* acknowledge(): what is left of the queue (seq > lastSeq), its tail, as the queue is in
\* the order of recording.
unacknowledged(queue, last) ==
  LET left == {n \in DOMAIN queue : queue[n] > last}
  IN  IF left = {} THEN <<>> ELSE SubSeq(queue, Min(left), Len(queue))

\* Mutant: the newest events are sent first.
batchNewest(p) ==
  [kind |-> "batch", run |-> p.run, alive |-> TRUE, stage |-> "queued", key |-> 0,
   events |-> SubSeq(p.queue, IF Len(p.queue) < BatchSize THEN 1
                              ELSE Len(p.queue) - BatchSize + 1, Len(p.queue))]

\* Mutant: the whole queue is sent.
batchWhole(p) ==
  [kind |-> "batch", run |-> p.run, alive |-> TRUE, stage |-> "queued", key |-> 0,
   events |-> p.queue]

batch(p) ==
  [kind |-> "batch", run |-> p.run, alive |-> TRUE, stage |-> "queued", key |-> 0,
   events |-> SubSeq(p.queue, 1, IF Len(p.queue) < BatchSize THEN Len(p.queue) ELSE BatchSize)]

\* send(): a port found broken is forgotten together with the batch; the next send reconnects.
Send(message) ==
  IF port = "broken"
  THEN port' = "none" /\ UNCHANGED tasks
  ELSE port' = "open" /\ tasks' = Append(tasks, message)

\* Mutant: the timer is not armed for a batch in flight.
FlushOnce(p) ==
  \/ /\ p.inflight
     /\ page' = p
     /\ UNCHANGED <<port, tasks>>
  \/ /\ ~p.inflight
     /\ p.queue = <<>>
     /\ page' = [p EXCEPT !.timer = FALSE]
     /\ UNCHANGED <<port, tasks>>
  \/ /\ ~p.inflight
     /\ p.queue # <<>>
     /\ page' = [p EXCEPT !.inflight = TRUE, !.timer = FALSE]
     /\ Send(batch(p))

\* flush(): one batch in flight at a time; the timer armed here sends it again.
Flush(p) ==
  \/ /\ p.inflight
     /\ page' = p
     /\ UNCHANGED <<port, tasks>>
  \/ /\ ~p.inflight
     /\ p.queue = <<>>
     /\ page' = [p EXCEPT !.timer = FALSE]
     /\ UNCHANGED <<port, tasks>>
  \/ /\ ~p.inflight
     /\ p.queue # <<>>
     /\ page' = [p EXCEPT !.inflight = TRUE, !.timer = TRUE]
     /\ Send(batch(p))

\* TraceLogger.start and startRun: the next run begins with an empty queue, its
\* RUN_STARTED event in it, whatever of the last run was not acknowledged.
StartRun(r) ==
  /\ phase = "idle"
  /\ recorded[r] = 0
  /\ page' = [Fresh(r) EXCEPT !.queue = <<1>>, !.timer = TRUE]
  /\ phase' = "running"
  /\ tries' = 0
  /\ recorded' = [recorded EXCEPT ![r] = 1]
  /\ UNCHANGED <<dropped, flushOk, port, acks, workerSide, faults>>

\* A full queue gives up its oldest event that is not critical, if it has one.
oldestOrdinary(queue) ==
  LET ordinary == {n \in DOMAIN queue : queue[n] \notin Critical}
  IN  IF ordinary = {} THEN 0 ELSE Min(ordinary)

\* Mutant: one event too many before the queue is full.
victimLate(queue) == IF Len(queue) > QueueSize THEN oldestOrdinary(queue) ELSE 0

victim(queue) == IF Len(queue) >= QueueSize THEN oldestOrdinary(queue) ELSE 0

\* record(): never sends; the timer, with no delay once a batch is complete, does.
Record ==
  LET r == page.run
      seq == recorded[r] + 1
      n == victim(page.queue)
  IN  /\ phase = "running"
      /\ seq <= Length[r]
      /\ recorded' = [recorded EXCEPT ![r] = seq]
      /\ dropped' = IF n = 0 THEN dropped ELSE [dropped EXCEPT ![r] = @ \cup {page.queue[n]}]
      /\ page' = [page EXCEPT
           !.queue = Append(IF n = 0 THEN @ ELSE RemoveAt(@, n), seq), !.timer = TRUE]
      /\ UNCHANGED <<phase, tries, flushOk, port, acks, workerSide, faults>>

\* The timer of schedule(): whatever was in flight counts as lost and is sent again.
TimerFires ==
  /\ page.timer
  /\ Len(tasks) + Len(acks) < MaxPending
  /\ Flush([page EXCEPT !.timer = FALSE, !.inflight = FALSE])
  /\ UNCHANGED <<phase, tries, recorded, dropped, flushOk, acks, store, noted, faults>>

\* The result the page sends with its outcome, and the page is free for the next run.
Report(result) ==
  /\ flushOk' = [flushOk EXCEPT ![page.run] = result]
  /\ phase' = "idle"

\* forceFlush(): the kernel calls it once when the run ends, the page once more before
\* it reports the outcome, and a third time if that one timed out.
ForceFlush(n) ==
  /\ tries' = n
  /\ IF page.queue = <<>>
     THEN Report("yes") /\ UNCHANGED <<page, port, tasks>>
     ELSE Flush(page) /\ phase' = "flushing" /\ UNCHANGED flushOk

EndRun ==
  /\ phase = "running"
  /\ ForceFlush(1)
  /\ UNCHANGED <<recorded, dropped, acks, store, noted, faults>>

FlushTimesOut ==
  /\ phase = "flushing"
  /\ IF tries < 3
     THEN ForceFlush(tries + 1)
     ELSE Report("no") /\ UNCHANGED <<page, port, tasks, tries>>
  /\ UNCHANGED <<recorded, dropped, acks, store, noted, faults>>

\* Mutant: the acknowledgement of any run counts.
concernsAny(p, ack) == TRUE

\* Does this acknowledgement concern the run the page is recording?
concerns(p, ack) == p.run = ack.run

\* acknowledge(): one of another run is ignored; the queue empty, a waiting flush is done.
AckArrives ==
  LET ack == Head(acks)
      p == [page EXCEPT !.inflight = FALSE, !.queue = unacknowledged(@, ack.last)]
  IN  /\ acks # <<>>
      /\ acks' = Tail(acks)
      /\ IF concerns(page, ack)
         THEN /\ Flush(p)
              /\ IF phase = "flushing" /\ p.queue = <<>>
                 THEN Report("yes")
                 ELSE UNCHANGED <<phase, flushOk>>
         ELSE UNCHANGED <<page, port, tasks, phase, flushOk>>
      /\ UNCHANGED <<tries, recorded, dropped, store, noted, faults>>

\* The tab is reloaded or closed: the queue and the page's end of the port go with it.
PageGone ==
  /\ faults < MaxFaults
  /\ page.run # NoRun
  /\ faults' = faults + 1
  /\ page' = Fresh(NoRun)
  /\ phase' = "idle"
  /\ port' = "none"
  /\ acks' = <<>>
  /\ tasks' = [n \in DOMAIN tasks |-> [tasks[n] EXCEPT !.alive = FALSE]]
  /\ UNCHANGED <<tries, recorded, dropped, flushOk, store, noted>>

-----------------------------------------------------------------------------
(* The worker: traceWrites, TraceIngestor and IndexedDbTraceRepository *)

\* Mutant: trace work is not serialised.
runnableAny(queue) == DOMAIN queue

\* SerialTaskQueue: only the first task runs.
runnable(queue) == IF queue = <<>> THEN {} ELSE {1}

put(r, keys, who) ==
  [store EXCEPT ![r] = [k \in Key |-> IF k \in keys THEN who ELSE @[k]]]

lastKey(r) == Max({0} \cup {k \in Key : store[r][k] # "none"})

\* ingest(): one transaction puts the events of the batch ...
Put(n) ==
  /\ tasks[n].kind = "batch"
  /\ tasks[n].stage = "queued"
  /\ store' = put(tasks[n].run, ToSet(tasks[n].events), "content")
  /\ tasks' = [tasks EXCEPT ![n].stage = "stored"]
  /\ UNCHANGED <<acks, noted>>

\* ... then the batch is acknowledged; posting to a port that is gone fails.
Acknowledge(n) ==
  /\ tasks[n].kind = "batch"
  /\ tasks[n].stage = "stored"
  /\ acks' = IF tasks[n].alive
             THEN Append(acks, [run |-> tasks[n].run, last |-> Last(tasks[n].events)])
             ELSE acks
  /\ tasks' = RemoveAt(tasks, n)
  /\ UNCHANGED <<store, noted>>

\* recordRecovery and recordBackgroundTerminal read the last number in the database ...
ReadLast(n) ==
  /\ tasks[n].kind = "note"
  /\ tasks[n].stage = "queued"
  /\ tasks' = [tasks EXCEPT ![n].stage = "read", ![n].key = lastKey(tasks[n].run) + 1]
  /\ UNCHANGED <<acks, store, noted>>

\* ... and put the worker's own record under the next one.
WriteNote(n) ==
  /\ tasks[n].kind = "note"
  /\ tasks[n].stage = "read"
  /\ store' = put(tasks[n].run, {tasks[n].key}, "background")
  /\ tasks' = RemoveAt(tasks, n)
  /\ UNCHANGED <<acks, noted>>

Work ==
  /\ \E n \in runnable(tasks) : Put(n) \/ Acknowledge(n) \/ ReadLast(n) \/ WriteNote(n)
  /\ UNCHANGED <<pageSide, port, faults>>

\* The supervisor writes about a run whenever its queue comes to it: the recovery or the
\* termination of a run that has ended, whose page is gone or is still recording.
Note(r) ==
  /\ recorded[r] # 0
  /\ r \notin noted
  /\ Len(tasks) + Len(acks) < MaxPending
  /\ noted' = noted \cup {r}
  /\ tasks' = Append(tasks, [kind |-> "note", run |-> r, alive |-> FALSE,
                             stage |-> "queued", key |-> 0, events |-> <<>>])
  /\ UNCHANGED <<pageSide, port, acks, store, faults>>

\* A database error: the task is given up, nothing is acknowledged.
WriteFails ==
  /\ faults < MaxFaults
  /\ tasks # <<>>
  /\ Head(tasks).stage # "stored"
  /\ tasks' = Tail(tasks)
  /\ faults' = faults + 1
  /\ UNCHANGED <<pageSide, port, acks, store, noted>>

\* The browser stops the worker: its tasks are gone, and the port with what was on it.
WorkerStops ==
  /\ faults < MaxFaults
  /\ tasks' = <<>>
  /\ acks' \in {acks, <<>>}
  /\ port' = IF port = "open" THEN "broken" ELSE port
  /\ faults' = faults + 1
  /\ UNCHANGED <<pageSide, store, noted>>

\* onDisconnect
Disconnected ==
  /\ port = "broken"
  /\ port' = "none"
  /\ UNCHANGED <<pageSide, acks, workerSide, faults>>

-----------------------------------------------------------------------------
Next ==
  \/ \E r \in Runs : StartRun(r) \/ Note(r)
  \/ Record
  \/ TimerFires
  \/ EndRun
  \/ FlushTimesOut
  \/ AckArrives
  \/ PageGone
  \/ Work
  \/ WriteFails
  \/ WorkerStops
  \/ Disconnected

Spec == Init /\ [][Next]_vars

\* Timers fire, messages arrive and the worker goes on with its queue; nothing obliges a
\* run to record, to end or to be followed by another, nor the page to stay.
Fairness == WF_vars(TimerFires) /\ WF_vars(AckArrives) /\ WF_vars(Work)

FairSpec == Spec /\ Fairness
-----------------------------------------------------------------------------
(* Properties *)

Batch == [kind : {"batch", "note"}, run : Runs, alive : BOOLEAN,
          stage : {"queued", "stored", "read"}, key : {0} \cup Key, events : Seq(Number)]

ascending(s) == \A m, n \in DOMAIN s : m < n => s[m] < s[n]

\* Types; besides, the queue is in the order of recording and a batch has a legal size.
TypeOK ==
  /\ page \in [run : Runs \cup {NoRun}, queue : Seq(Number), inflight : BOOLEAN, timer : BOOLEAN]
  /\ ascending(page.queue)
  /\ phase \in {"idle", "running", "flushing"}
  /\ phase # "idle" => page.run \in Runs
  /\ tries \in 0 .. 3
  /\ recorded \in [Runs -> {0} \cup Number]
  /\ dropped \in [Runs -> SUBSET Number]
  /\ flushOk \in [Runs -> {"none", "yes", "no"}]
  /\ port \in {"none", "open", "broken"}
  /\ acks \in Seq([run : Runs, last : Number])
  /\ tasks \in Seq(Batch)
  /\ \A n \in DOMAIN tasks : tasks[n].kind = "batch" => Len(tasks[n].events) \in 1 .. BatchSize
  /\ store \in [Runs -> [Key -> {"none", "content", "background"}]]
  /\ noted \subseteq Runs
  /\ faults \in 0 .. MaxFaults

stored(r, i) == store[r][i] = "content"

\* An event of the run the page is recording that is not in the queue any more is in the
\* database, as the page recorded it, unless the full queue gave it up; and a critical
\* event is never given up.  Repeated batches, acknowledgements that arrive late or belong
\* to the last run, and records the worker writes for the same run do not change that.
NothingSilentlyLost ==
  page.run # NoRun =>
    \A i \in 1 .. recorded[page.run] :
      \/ i \in ToSet(page.queue)
      \/ stored(page.run, i)
      \/ i \in dropped[page.run] /\ i \notin Critical

\* "Everything was flushed", as the page reports it with the outcome, stays true: every
\* event of the run that was not given up is in the database, and no later batch or record
\* of the worker replaces it.  (Old runs are pruned, and deleted by the user, as a whole.)
FlushMeansStored ==
  \A r \in Runs : flushOk[r] = "yes" =>
    \A i \in 1 .. recorded[r] : stored(r, i) \/ i \in dropped[r]

\* The trace of a run has no hole: when an event is in the database, so is every earlier
\* one that a full queue did not give up.  What a dying page or a fault costs is the end.
GapsAreDeclared ==
  \A r \in Runs : \A i \in 1 .. recorded[r], j \in 1 .. recorded[r] :
    stored(r, i) /\ j < i => stored(r, j) \/ j \in dropped[r]

\* The queue outgrows its limit for critical events only: beyond the limit nothing in it is
\* ordinary but, perhaps, the event recorded last.
OverflowIsCritical ==
  Len(page.queue) > QueueSize => ToSet(Front(page.queue)) \subseteq Critical

\* However ports break and writes fail, the queue is empty again and again: the events of a
\* run the page stays with are acknowledged, hence stored, in the end.
QueueDrains == []<>(page.queue = <<>>)
=============================================================================
