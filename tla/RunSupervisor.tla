--------------------------- MODULE RunSupervisor ---------------------------
(***************************************************************************)
(* The control plane of an open-run: the background RunSupervisor, the     *)
(* storage it shares with the event recorder, the content script that      *)
(* drives each tab, and the messages between them.                         *)
(*                                                                         *)
(* The supervisor runs one task at a time (SerialTaskQueue).  A task is    *)
(* cut at its awaits that matter: every storage write, every call into a   *)
(* page and every terminal effect is an action of its own, because the     *)
(* service worker may be killed, the user may act, and the recorder or a   *)
(* content script may move between two of them.  sv.pc names the next one. *)
(*                                                                         *)
(* A killed worker loses its queue, the running task and its memory; only  *)
(* logicalRun (lr) and activeRun (ar) survive.  It starts again with the   *)
(* bootstrap reconcile at the head of a new queue.                         *)
(***************************************************************************)
EXTENDS LogicalRun, AttemptEndings, Sequences

CONSTANTS MaxStarts,       \* bounds of the model: starts requested,
          MaxDisruptions,  \* stops, clearings, worker deaths and tab movements,
          MaxQueue,        \* tasks waiting in the supervisor's queue and
          MaxEvents,       \* run events waiting in the recorder's queue,
          EventStates      \* what they say: the state ACTIVE, or none ("kept")

ASSUME BoundsAssumption ==
  MaxStarts \in Nat /\ MaxDisruptions \in Nat /\ MaxQueue \in Nat /\ MaxEvents \in Nat
  /\ EventStates \subseteq {"ACTIVE", "kept"}

VARIABLES
  lr,         \* storage.logicalRun (NoRun: null)
  ar,         \* storage.activeRun (NoActive: null), the side panel's projection
  up,         \* the service worker is running
  queue,      \* the supervisor's waiting tasks
  sv,         \* the task the supervisor is executing
  pending,    \* pendingStartRunId
  cancelled,  \* cancelledPendingRuns
  page,       \* the document of each tab and its content script
  events,     \* run events waiting in the recorder's queue
  recorder,   \* the recorder's write between its read and its write
  early,      \* now is more than RESET_MIN_LEAD_MS before open and stop
  used,       \* attempt ids drawn so far
  budget,     \* starts and disruptions made so far (bounds)
  \* History, read by properties only; indexed by logical run.
  grants,     \* dispatchGranted: true answers, per phase
  clicks,     \* submit clicks, per phase
  announced,  \* run states the terminal effects have announced
  halted      \* logical runs current when a stop was answered ok

storage == <<lr, ar>>
worker  == <<up, queue, sv, pending, cancelled>>
projection == <<events, recorder>>
history == <<grants, clicks, announced, halted>>
vars == <<storage, worker, page, projection, early, used, budget, history>>

-----------------------------------------------------------------------------
(* Values *)

ActiveStates == {"CONFIGURED", "ACTIVE"} \cup TerminalStates
NoActive == [run |-> NoId, tab |-> NoId, state |-> "none"]
active(run, t, state) == [run |-> run, tab |-> t, state |-> state]
Quiet == [writing |-> FALSE, value |-> NoActive]
isTerminal(state) == state \in TerminalStates

\* A task: the tab it is about, the tab its sender waits in, and the message.
task(op, t) == [op |-> op, tab |-> t, from |-> NoId, run |-> NoId, attempt |-> NoId,
                arg |-> "none", fp |-> NoId]

\* stop: the stop marker the task read; then: where the task goes after the marker.
Idle == [pc |-> "idle", tab |-> NoId, from |-> NoId, run |-> NoId, arg |-> "none",
         stop |-> FALSE, then |-> "idle"]

\* step is the progress of the completion flow: a phase is requested, dispatched
\* ("_done") or the flow may not dispatch any more ("over").
Blank == [doc |-> "blank", attempt |-> NoId, run |-> NoId, phase |-> "none",
          running |-> FALSE, abort |-> FALSE, outcome |-> "none", pending |-> FALSE,
          tries |-> 0, wait |-> "none", reply |-> "none", step |-> "none", fp |-> NoId]
Closed   == [Blank EXCEPT !.doc = "closed"]
Injected == [Blank EXCEPT !.doc = "live"]
Started(a, run) == [Injected EXCEPT !.attempt = a, !.run = run,
                                    !.phase = "PREPARING", !.running = TRUE]

lrActive == lr.status \in {"PREPARING", "EXECUTING", "RECOVERING"}
newId == CHOOSE a \in AttemptIds \ used : TRUE

Init ==
  /\ lr = NoRun /\ ar = NoActive
  /\ up = TRUE /\ queue = <<>> /\ sv = Idle /\ pending = NoId /\ cancelled = {}
  /\ page = [t \in Tabs |-> Blank]
  /\ events = <<>> /\ recorder = Quiet /\ early = TRUE /\ used = {}
  /\ budget = [starts |-> 0, disruptions |-> 0]
  /\ grants = [a \in AttemptIds |-> [outer |-> 0, pin |-> 0]]
  /\ clicks = [a \in AttemptIds |-> [outer |-> 0, pin |-> 0]]
  /\ announced = [a \in AttemptIds |-> {}]
  /\ halted = {}

-----------------------------------------------------------------------------
(* Queue and pages *)

enqueue(m) == queue' = Append(queue, m)
room == up /\ Len(queue) < MaxQueue
disruption == /\ budget.disruptions < MaxDisruptions
              /\ budget' = [budget EXCEPT !.disruptions = @ + 1]

\* The supervisor takes the task at the head of its queue.
Take(op) == /\ up /\ sv.pc = "idle" /\ queue # <<>>
            /\ Head(queue).op = op
            /\ queue' = Tail(queue)

At(pc) == up /\ sv.pc = pc
Goto(pc) == sv' = [sv EXCEPT !.pc = pc]
Done == sv' = Idle

\* sendResponse: the sender still waits unless its document is gone.
answer(t, reply) ==
  page' = IF t = NoId THEN page ELSE [page EXCEPT ![t].reply = reply]

\* A document that goes away takes its pending responses with it.
orphan(m, t) == IF m.from = t THEN [m EXCEPT !.from = NoId] ELSE m
orphans(t) == [i \in DOMAIN queue |-> orphan(queue[i], t)]

attemptRunning(t, a) ==
  page[t].doc = "live" /\ page[t].attempt = a /\ page[t].running /\ page[t].phase # "FINISHING"
abortPage(t) ==
  page' = [page EXCEPT ![t].abort = @ \/ (page[t].running /\ page[t].phase # "FINISHING")]

-----------------------------------------------------------------------------
(* startManual, startScheduled: both end in startLogical *)

RequestStart(t) ==
  /\ room /\ budget.starts < MaxStarts /\ page[t].doc # "closed"
  /\ enqueue(task("start", t))
  /\ budget' = [budget EXCEPT !.starts = @ + 1]
  /\ UNCHANGED <<storage, up, sv, pending, cancelled, page, projection, early, used, history>>

\* busyError, then the first write.  NAVIGATING and CONFIGURED are one state: no
\* reader tells them apart.
StartTask ==
  /\ Take("start")
  /\ IF ar.run # NoId /\ ~isTerminal(ar.state)
     THEN Done /\ UNCHANGED <<ar, pending, used>>
     ELSE /\ used # AttemptIds
          /\ used' = used \cup {newId}
          /\ pending' = newId
          /\ ar' = active(newId, Head(queue).tab, "CONFIGURED")
          /\ sv' = [Idle EXCEPT !.pc = "start_navigate", !.tab = Head(queue).tab, !.run = newId]
  /\ UNCHANGED <<lr, up, cancelled, page, projection, early, budget, history>>

\* navigateIfNeeded: the tab is there already, or cannot be loaded, or is loaded anew,
\* which may still fail after the old document is gone.
StartNavigate ==
  /\ At("start_navigate")
  /\ \/ /\ page[sv.tab].doc # "closed"
        /\ page' = [page EXCEPT ![sv.tab] = Blank]
        /\ queue' = orphans(sv.tab)
        /\ \E pc \in {"start_inject", "start_fail"} : Goto(pc)
     \/ /\ \/ page[sv.tab].doc # "closed" /\ Goto("start_inject")
           \/ Goto("start_fail")
        /\ UNCHANGED <<page, queue>>
  /\ UNCHANGED <<storage, up, pending, cancelled, projection, early, used, budget, history>>

assertPending == sv.run \notin cancelled /\ ar.run = sv.run /\ ~isTerminal(ar.state)

\* assertPending, inject and probe, assertPending again.
StartInject ==
  /\ At("start_inject")
  /\ IF assertPending /\ page[sv.tab].doc # "closed"
     THEN /\ page' = [page EXCEPT ![sv.tab] = IF @.doc = "live" THEN @ ELSE Injected]
          /\ Goto("start_commit")
     ELSE Goto("start_fail") /\ UNCHANGED page
  /\ UNCHANGED <<storage, up, queue, pending, cancelled, projection, early, used, budget, history>>

StartCommit ==
  /\ At("start_commit")
  /\ ar' = active(sv.run, sv.tab, "CONFIGURED")
  /\ lr' = createLogicalRun(sv.run, sv.tab)
  /\ Goto("start_send")
  /\ UNCHANGED <<up, queue, pending, cancelled, page, projection, early, used, budget, history>>

\* The START handler of the content script answers within this step.
StartSend ==
  /\ At("start_send")
  /\ IF assertPending /\ page[sv.tab].doc = "live" /\ ~page[sv.tab].running
     THEN /\ page' = [page EXCEPT ![sv.tab] = Started(sv.run, sv.run)]
          /\ Done
          /\ pending' = NoId /\ cancelled' = cancelled \ {sv.run}
     ELSE Goto("start_fail") /\ UNCHANGED <<page, pending, cancelled>>
  /\ UNCHANGED <<storage, up, queue, projection, early, used, budget, history>>

\* The catch block: first the projection ...
StartFail ==
  /\ At("start_fail")
  /\ ar' = IF ar.run = sv.run /\ ~isTerminal(ar.state)
           THEN [ar EXCEPT !.state = IF sv.run \in cancelled THEN "STOPPED" ELSE "FAILED"]
           ELSE ar
  /\ Goto("start_discard")
  /\ UNCHANGED <<lr, up, queue, pending, cancelled, page, projection, early, used, budget, history>>

\* ... then the logical run that did not come about.
StartDiscard ==
  /\ At("start_discard")
  /\ lr' = IF lr.cur = sv.run /\ lr.status # "TERMINAL" THEN NoRun ELSE lr
  /\ pending' = NoId /\ cancelled' = cancelled \ {sv.run}
  /\ Done
  /\ UNCHANGED <<ar, up, queue, page, projection, early, used, budget, history>>

-----------------------------------------------------------------------------
(* stop *)

\* The side panel offers Stop until the projection is terminal.  A start in progress
\* is cancelled at once; the rest waits its turn in the queue.
RequestStop ==
  /\ room /\ disruption
  /\ ar.run = NoId \/ ~isTerminal(ar.state)
  /\ enqueue(task("stop", NoId))
  /\ cancelled' = IF pending = NoId THEN cancelled ELSE cancelled \cup {pending}
  /\ UNCHANGED <<storage, up, sv, pending, page, projection, early, used, history>>

\* terminateLogical begins with a look at the run the task has read.
terminateThen(t, run, state, then) ==
  sv' = IF lrActive
        THEN [Idle EXCEPT !.pc = "terminate", !.tab = t, !.run = run, !.arg = state,
                          !.stop = lr.dispatch.stop, !.then = then]
        ELSE IF then = "idle" THEN Idle
             ELSE [Idle EXCEPT !.pc = then, !.tab = t]

\* The stop command is answered { ok: true }.
stopAnswered == halted' = IF lrActive THEN halted \cup {lr.id} ELSE halted

StopNothing ==
  /\ Take("stop") /\ ar.run = NoId
  /\ Done
  /\ UNCHANGED <<storage, up, pending, cancelled, page, projection, early, used, budget, history>>

\* A granted outer claim: the stop is recorded, nothing is aborted.
StopClaimed ==
  /\ Take("stop") /\ ar.run # NoId /\ isAcknowledgedCompletionClaim(lr)
  /\ lr' = requestCompletionStop(lr)
  /\ stopAnswered /\ Done
  /\ UNCHANGED <<ar, up, pending, cancelled, page, projection, early, used, budget,
                 grants, clicks, announced>>

\* Mutant: the projection is believed before the stored claim.
StopPreparingFirst ==
  /\ Take("stop") /\ ar.state = "CONFIGURED"
  /\ cancelled' = cancelled \cup {ar.run}
  /\ ar' = [ar EXCEPT !.state = "STOPPED"]
  /\ terminateThen(ar.tab, ar.run, "STOPPED", "stop_send")
  /\ UNCHANGED <<lr, up, pending, page, projection, early, used, budget, history>>

\* The page is still being prepared: stopped here, then terminated, then told.
StopPreparing ==
  /\ Take("stop") /\ ~isAcknowledgedCompletionClaim(lr) /\ ar.state = "CONFIGURED"
  /\ cancelled' = cancelled \cup {ar.run}
  /\ ar' = [ar EXCEPT !.state = "STOPPED"]
  /\ terminateThen(ar.tab, ar.run, "STOPPED", "stop_send")
  /\ UNCHANGED <<lr, up, pending, page, projection, early, used, budget, history>>

\* Any other projection, terminal ones included: a stop marker while EXECUTING.
StopRunning ==
  /\ Take("stop") /\ ~isAcknowledgedCompletionClaim(lr)
  /\ ar.run # NoId /\ ar.state # "CONFIGURED"
  /\ lr' = IF lr.status = "EXECUTING" THEN requestCompletionStop(lr) ELSE lr
  /\ sv' = [Idle EXCEPT !.pc = "stop_live", !.tab = ar.tab, !.run = ar.run,
                        !.stop = lr.dispatch.stop]
  /\ UNCHANGED <<ar, up, pending, cancelled, page, projection, early, used, budget, history>>

\* stopAttempt: a live document takes the STOP whether or not it runs an attempt.
StopDelivered ==
  /\ At("stop_live") /\ page[sv.tab].doc = "live"
  /\ abortPage(sv.tab)
  /\ stopAnswered /\ Done
  /\ UNCHANGED <<storage, up, queue, pending, cancelled, projection, early, used, budget,
                 grants, clicks, announced>>

\* No document takes it: the background ends the run, from the state it read before
\* it wrote the stop marker.
StopUndelivered ==
  /\ At("stop_live") /\ page[sv.tab].doc # "live"
  /\ ar' = active(sv.run, sv.tab, "STOPPED")
  /\ sv' = IF lrActive THEN [sv EXCEPT !.pc = "terminate", !.arg = "STOPPED"] ELSE Idle
  /\ stopAnswered
  /\ UNCHANGED <<lr, up, queue, pending, cancelled, page, projection, early, used, budget,
                 grants, clicks, announced>>

StopSend ==
  /\ At("stop_send")
  /\ abortPage(sv.tab)
  /\ stopAnswered /\ Done
  /\ UNCHANGED <<storage, up, queue, pending, cancelled, projection, early, used, budget,
                 grants, clicks, announced>>

-----------------------------------------------------------------------------
(* Attempt control messages *)

\* ATTEMPT_FINISHED: decide and persist ...
FinishedTask ==
  /\ Take("finished")
  /\ LET m == Head(queue)
         kind == IF lr.id = NoId \/ lr.id # m.run THEN "unknown_logical_run"
                 ELSE outcomeKind(lr, m.attempt, m.arg)
         next == applyAttemptOutcome(lr, m.attempt, m.arg, early, newId)
     IN IF kind = "ack"
        THEN /\ next.status = "RECOVERING" => used # AttemptIds
             /\ lr' = next
             /\ used' = IF next.status = "RECOVERING" THEN used \cup {newId} ELSE used
             /\ sv' = [Idle EXCEPT !.pc = "reply_finished", !.from = m.from,
                                   !.arg = next.attempts[m.attempt].decision]
             /\ UNCHANGED page
        ELSE /\ answer(m.from, IF kind = "replay" THEN lr.attempts[m.attempt].decision
                               ELSE "refused")
             /\ Done
             /\ UNCHANGED <<lr, used>>
  /\ UNCHANGED <<ar, up, pending, cancelled, projection, early, budget, history>>

\* ... then acknowledge; the action waits for its own turn at the end of the queue.
FinishedReply ==
  /\ At("reply_finished")
  /\ answer(sv.from, sv.arg)
  /\ enqueue(task(IF sv.arg = "RESET_PAGE" THEN "recovery" ELSE "complete", NoId))
  /\ Done
  /\ UNCHANGED <<storage, up, pending, cancelled, projection, early, used, budget, history>>

\* ATTEMPT_PHASE_CHANGED: nobody waits for the answer.
PhaseTask ==
  /\ Take("phase")
  /\ lr' = IF lr.id # NoId /\ lr.id = Head(queue).run
           THEN applyPhaseChange(lr, Head(queue).attempt, Head(queue).arg) ELSE lr
  /\ Done
  /\ UNCHANGED <<ar, up, pending, cancelled, page, projection, early, used, budget, history>>

\* COMPLETION_DISPATCH_CLAIM: the permission is stored ...
ClaimTask ==
  /\ Take("claim")
  /\ LET m == Head(queue)
     IN IF /\ lr.id # NoId /\ lr.id = m.run
           /\ claimKind(lr, m.attempt, m.arg, m.fp) = "ack"
        THEN /\ lr' = applyCompletionDispatchClaim(lr, m.arg, m.fp)
             /\ sv' = [Idle EXCEPT !.pc = "reply_claim", !.from = m.from, !.run = lr.id,
                                   !.arg = m.arg]
             /\ UNCHANGED page
        ELSE /\ answer(m.from, "refused")
             /\ Done
             /\ UNCHANGED lr
  /\ UNCHANGED <<ar, up, pending, cancelled, projection, early, used, budget, history>>

\* ... before it is granted.
ClaimReply ==
  /\ At("reply_claim")
  /\ answer(sv.from, "granted")
  /\ grants' = [grants EXCEPT ![sv.run][sv.arg] = @ + 1]
  /\ Done
  /\ UNCHANGED <<storage, up, queue, pending, cancelled, projection, early, used, budget,
                 clicks, announced, halted>>

-----------------------------------------------------------------------------
(* Tabs *)

\* Mutant: a closed or left tab is a stop, whatever was submitted.
externalStateStopped == "STOPPED"

externalState == IF isAcknowledgedCompletionClaim(lr) THEN "HANDED_OFF" ELSE "STOPPED"

\* The common tail of onTabRemoved and onTabUrlChanged.
leaveTab(t) ==
  /\ ar' = IF ar.run # NoId /\ ar.tab = t /\ ~isTerminal(ar.state)
           THEN [ar EXCEPT !.state = externalState] ELSE ar
  /\ IF lr.tab = t THEN terminateThen(t, NoId, externalState, "idle") ELSE Done

TabRemovedTask ==
  /\ Take("removed")
  /\ leaveTab(Head(queue).tab)
  /\ UNCHANGED <<lr, up, pending, cancelled, page, projection, early, used, budget, history>>

\* The success path is a way out of the flow only without a granted claim.
TabUrlTask ==
  /\ Take("url")
  /\ IF Head(queue).arg = "planned" /\ isAcknowledgedCompletionClaim(lr)
     THEN Done /\ UNCHANGED ar
     ELSE leaveTab(Head(queue).tab)
  /\ UNCHANGED <<lr, up, pending, cancelled, page, projection, early, used, budget, history>>

-----------------------------------------------------------------------------
(* Terminal effects *)

Terminate ==
  /\ At("terminate")
  /\ lr' = [applyBackgroundTerminal(lr, sv.arg) EXCEPT !.dispatch.stop = sv.stop]
  /\ Goto("effects")
  /\ UNCHANGED <<ar, up, queue, pending, cancelled, page, projection, early, used, budget, history>>

\* Mutant: the final state of the attempt as it is.
announcedStateRaw(run) == run.attempts[run.cur].final

announcedState(run) ==
  LET final == run.attempts[run.cur].final
  IN IF final = "none" THEN "FAILED" ELSE stateOf(final)

\* Badge, notification and job of the run.
Effects ==
  /\ At("effects")
  /\ announced' = [announced EXCEPT ![lr.id] = @ \cup {announcedState(lr)}]
  /\ Goto("mark")
  /\ UNCHANGED <<storage, up, queue, pending, cancelled, page, projection, early, used, budget,
                 grants, clicks, halted>>

EffectsMark ==
  /\ At("mark")
  /\ lr' = markTerminalEffectsCompleted(lr)
  /\ sv' = IF sv.then = "idle" THEN Idle ELSE [Idle EXCEPT !.pc = sv.then, !.tab = sv.tab]
  /\ UNCHANGED <<ar, up, queue, pending, cancelled, page, projection, early, used, budget, history>>

\* Mutant: the effects marker is not looked at.
completeTerminalAlways ==
  IF lr.status = "TERMINAL" THEN sv' = [Idle EXCEPT !.pc = "effects"] ELSE Done

\* completeTerminal: nothing when the marker is there already.
completeTerminal ==
  IF lr.status = "TERMINAL" /\ ~lr.effectsDone
  THEN sv' = [Idle EXCEPT !.pc = "effects"] ELSE Done

CompleteTask ==
  /\ Take("complete")
  /\ completeTerminal
  /\ UNCHANGED <<storage, up, pending, cancelled, page, projection, early, used, budget, history>>

-----------------------------------------------------------------------------
(* executeRecovery *)

\* Mutant: a lapsed intent is announced without being written off.
executeRecoveryUnwritten ==
  IF lr.status # "RECOVERING" THEN Done /\ UNCHANGED lr
  ELSE IF decide(lr.attempts[lr.cur].final, lr.resetCount - 1, early) # "RESET_PAGE"
  THEN sv' = [Idle EXCEPT !.pc = "effects"] /\ UNCHANGED lr
  ELSE lr' = markRecoveryDispatched(lr) /\ sv' = [Idle EXCEPT !.pc = "recovery_reenter"]

\* The intent is re-examined: it may have lapsed, or its attempt may already run.
executeRecovery ==
  IF lr.status # "RECOVERING" THEN Done /\ UNCHANGED lr
  ELSE IF decide(lr.attempts[lr.cur].final, lr.resetCount - 1, early) # "RESET_PAGE"
  THEN lr' = applyRecoveryLapse(lr) /\ sv' = [Idle EXCEPT !.pc = "effects"]
  ELSE IF lr.dispatched /\ attemptRunning(lr.tab, lr.next)
  THEN sv' = [Idle EXCEPT !.pc = "recovery_commit"] /\ UNCHANGED lr
  ELSE lr' = markRecoveryDispatched(lr) /\ sv' = [Idle EXCEPT !.pc = "recovery_reenter"]

RecoveryTask ==
  /\ Take("recovery")
  /\ executeRecovery
  /\ UNCHANGED <<ar, up, pending, cancelled, page, projection, early, used, budget, history>>

\* forceReenter loads a new document, or fails before or after it did.
RecoveryReenter ==
  /\ At("recovery_reenter")
  /\ \/ /\ page[lr.tab].doc # "closed"
        /\ page' = [page EXCEPT ![lr.tab] = Blank]
        /\ queue' = orphans(lr.tab)
        /\ \E pc \in {"recovery_start", "recovery_fail"} : Goto(pc)
     \/ /\ Goto("recovery_fail")
        /\ UNCHANGED <<page, queue>>
  /\ UNCHANGED <<storage, up, pending, cancelled, projection, early, used, budget, history>>

\* inject, probe and START of the pre-drawn attempt.
RecoveryStart ==
  /\ At("recovery_start")
  /\ IF page[lr.tab].doc # "closed"
     THEN page' = [page EXCEPT ![lr.tab] = Started(lr.next, lr.id)] /\ Goto("recovery_commit")
     ELSE Goto("recovery_fail") /\ UNCHANGED page
  /\ UNCHANGED <<storage, up, queue, pending, cancelled, projection, early, used, budget, history>>

\* One write installs the next attempt and its projection.
RecoveryCommit ==
  /\ At("recovery_commit")
  /\ lr' = beginNextAttempt(lr)
  /\ ar' = active(lr.next, lr.tab, "CONFIGURED")
  /\ Done
  /\ UNCHANGED <<up, queue, pending, cancelled, page, projection, early, used, budget, history>>

RecoveryFail ==
  /\ At("recovery_fail")
  /\ ar' = IF ar.run # NoId /\ ~isTerminal(ar.state) THEN [ar EXCEPT !.state = "FAILED"] ELSE ar
  /\ sv' = [sv EXCEPT !.pc = "terminate", !.arg = "FAILED", !.stop = lr.dispatch.stop]
  /\ UNCHANGED <<lr, up, queue, pending, cancelled, page, projection, early, used, budget, history>>

-----------------------------------------------------------------------------
(* Death and bootstrap of the service worker *)

Crash ==
  /\ up /\ disruption
  /\ up' = FALSE /\ queue' = <<>> /\ sv' = Idle /\ pending' = NoId /\ cancelled' = {}
  /\ events' = <<>> /\ recorder' = Quiet
  /\ page' = [t \in Tabs |-> IF page[t].wait # "none" /\ page[t].reply = "none"
                             THEN [page[t] EXCEPT !.reply = "failed"] ELSE page[t]]
  /\ UNCHANGED <<storage, early, used, history>>

\* Any browser event starts the worker; reconcile is its first task.
Boot ==
  /\ ~up
  /\ up' = TRUE
  /\ queue' = <<task("reconcile", NoId)>>
  /\ UNCHANGED <<storage, sv, pending, cancelled, page, projection, early, used, budget, history>>

\* GET_ATTEMPT_STATUS of the current attempt.
outcomePending ==
  /\ page[lr.tab].doc = "live" /\ page[lr.tab].attempt = lr.cur
  /\ page[lr.tab].phase = "FINISHING" /\ page[lr.tab].pending

\* Mutant: a terminal run needs nothing any more.
ReconcileSettledSkip ==
  /\ Take("reconcile")
  /\ lr.status \in {"NONE", "TERMINAL", "RECOVERING"}
  /\ IF lr.status = "RECOVERING" THEN executeRecovery ELSE Done /\ UNCHANGED lr
  /\ UNCHANGED <<ar, up, pending, cancelled, page, projection, early, used, budget, history>>

ReconcileSettled ==
  /\ Take("reconcile")
  /\ lr.status \in {"NONE", "TERMINAL", "RECOVERING"}
  /\ IF lr.status = "RECOVERING" THEN executeRecovery
     ELSE completeTerminal /\ UNCHANGED lr
  /\ UNCHANGED <<ar, up, pending, cancelled, page, projection, early, used, budget, history>>

ReconcileRunning ==
  /\ Take("reconcile")
  /\ lr.status \in {"PREPARING", "EXECUTING"} /\ attemptRunning(lr.tab, lr.cur)
  /\ Done
  /\ UNCHANGED <<storage, up, pending, cancelled, page, projection, early, used, budget, history>>

\* The status answer carries the outcome; its follow-up runs in the same task.
ReconcileOutcome ==
  /\ Take("reconcile")
  /\ lr.status \in {"PREPARING", "EXECUTING"} /\ outcomePending
  /\ LET next == applyAttemptOutcome(lr, lr.cur, page[lr.tab].outcome, early, newId)
     IN /\ next.status = "RECOVERING" => used # AttemptIds
        /\ lr' = next
        /\ used' = IF next.status = "RECOVERING" THEN used \cup {newId} ELSE used
        /\ sv' = [Idle EXCEPT !.pc = IF next.status = "RECOVERING" THEN "reconcile_recover"
                                     ELSE "effects"]
  /\ UNCHANGED <<ar, up, pending, cancelled, page, projection, early, budget, history>>

ReconcileRecover ==
  /\ At("reconcile_recover")
  /\ executeRecovery
  /\ UNCHANGED <<ar, up, queue, pending, cancelled, page, projection, early, used, budget, history>>

\* The attempt is neither running nor reporting: its context is taken for lost.
ReconcileLost ==
  /\ Take("reconcile")
  /\ lr.status \in {"PREPARING", "EXECUTING"}
  /\ ~attemptRunning(lr.tab, lr.cur) /\ ~outcomePending
  /\ LET state == IF isAcknowledgedCompletionClaim(lr) THEN "HANDED_OFF" ELSE "FAILED"
     IN /\ lr' = applyBackgroundTerminal(lr, state)
        /\ sv' = [Idle EXCEPT !.pc = "reconcile_project", !.arg = state]
  /\ UNCHANGED <<ar, up, pending, cancelled, page, projection, early, used, budget, history>>

ReconcileProject ==
  /\ At("reconcile_project")
  /\ ar' = IF ar.run = lr.cur /\ ~isTerminal(ar.state) THEN [ar EXCEPT !.state = sv.arg] ELSE ar
  /\ Goto("effects")
  /\ UNCHANGED <<lr, up, queue, pending, cancelled, page, projection, early, used, budget, history>>

-----------------------------------------------------------------------------
(* The recorder (background/index.ts), on a queue of its own *)

\* recordEvent reads the projection and writes a new one, whatever activeRun says by
\* then.  Only an event without a state ("kept") uses what was read, so only there the
\* two are apart.
RecordEvent ==
  /\ up /\ ~recorder.writing /\ events # <<>> /\ Head(events).state # "kept"
  /\ ar' = Head(events)
  /\ events' = Tail(events)
  /\ UNCHANGED <<lr, worker, page, recorder, early, used, budget, history>>

RecordKept ==
  /\ up /\ ~recorder.writing /\ events # <<>> /\ Head(events).state = "kept"
  /\ recorder' = [writing |-> TRUE,
                  value |-> [Head(events) EXCEPT
                               !.state = IF ar.run = NoId THEN "CONFIGURED" ELSE ar.state]]
  /\ events' = Tail(events)
  /\ UNCHANGED <<storage, worker, page, early, used, budget, history>>

\* CLEAR_RUN_EVENTS drops a terminal or missing projection; the same queue, read and
\* write apart.  (A projection it leaves alone does not change.)
ClearRunEvents ==
  /\ up /\ disruption
  /\ ~recorder.writing /\ events = <<>> /\ (ar.run = NoId \/ isTerminal(ar.state))
  /\ recorder' = [writing |-> TRUE, value |-> NoActive]
  /\ UNCHANGED <<storage, worker, page, events, early, used, history>>

RecorderWrite ==
  /\ recorder.writing
  /\ ar' = recorder.value
  /\ recorder' = Quiet
  /\ UNCHANGED <<lr, worker, page, events, early, used, budget, history>>

-----------------------------------------------------------------------------
(* The attempt in the page (content/index.ts) *)

executing(t) == page[t].running /\ page[t].phase = "EXECUTING"

\* A message of the attempt in tab t; from is the tab that waits for its answer.
message(op, t, from, arg, fp) ==
  [op |-> op, tab |-> t, from |-> from, run |-> page[t].run, attempt |-> page[t].attempt,
   arg |-> arg, fp |-> fp]

\* Preparation is over; the phase message is fire-and-forget.  (The PREPARING one
\* sent by START never changes anything and is left out.)
PageExecute(t) ==
  /\ room /\ page[t].running /\ page[t].phase = "PREPARING" /\ ~page[t].abort
  /\ page' = [page EXCEPT ![t].phase = "EXECUTING"]
  /\ enqueue(message("phase", t, NoId, "EXECUTING", NoId))
  /\ UNCHANGED <<storage, up, sv, pending, cancelled, projection, early, used, budget, history>>

\* The completion flow asks for the permission to submit the form ...
PageClaimOuter(t, fp) ==
  /\ room /\ executing(t) /\ ~page[t].abort
  /\ page[t].wait = "none" /\ page[t].step = "none"
  /\ page' = [page EXCEPT ![t].step = "outer", ![t].fp = fp, ![t].wait = "claim"]
  /\ enqueue(message("claim", t, t, "outer", fp))
  /\ UNCHANGED <<storage, up, sv, pending, cancelled, projection, early, used, budget, history>>

\* ... and then, of a paid reservation, to submit the PIN.
PageClaimPin(t) ==
  /\ room /\ executing(t) /\ ~page[t].abort
  /\ page[t].wait = "none" /\ page[t].step = "outer_done"
  /\ page' = [page EXCEPT ![t].step = "pin", ![t].wait = "claim"]
  /\ enqueue(message("claim", t, t, "pin", page[t].fp))
  /\ UNCHANGED <<storage, up, sv, pending, cancelled, projection, early, used, budget, history>>

\* A granted claim is clicked without looking at the abort signal again; the flow is
\* over when the claim is refused or lost, or the form changed meanwhile.
PageClaimed(t) ==
  /\ page[t].wait = "claim" /\ page[t].reply # "none"
  /\ \/ /\ page[t].reply = "granted"
        /\ clicks' = [clicks EXCEPT ![page[t].run][page[t].step] = @ + 1]
        /\ page' = [page EXCEPT ![t].wait = "none", ![t].reply = "none",
                                ![t].step = IF @ = "outer" THEN "outer_done" ELSE "pin_done"]
     \/ /\ page' = [page EXCEPT ![t].wait = "none", ![t].reply = "none", ![t].step = "over"]
        /\ UNCHANGED clicks
  /\ UNCHANGED <<storage, worker, projection, early, used, budget, grants, announced, halted>>

\* A RUN_EVENT before the end, with a state or (metric, detect, action) without one.
PageEmit(t, state) ==
  /\ up /\ Len(events) < MaxEvents
  /\ page[t].running /\ page[t].phase # "FINISHING"
  /\ events' = Append(events, active(page[t].attempt, t, state))
  /\ UNCHANGED <<storage, worker, page, recorder, early, used, budget, history>>

\* How the attempt in the page may end: the promise HonoursContract checks of OpenRun.
endings(p) ==
  attemptEndings(p.phase, IF p.step \in {"none", "over"} THEN p.step ELSE "made", p.abort)

\* The orchestrator resolved.  Its last RUN_EVENT may be lost; the outcome is not
\* published before the trace has been flushed.
PageFinish(t, outcome) ==
  /\ page[t].running /\ page[t].phase # "FINISHING" /\ page[t].wait = "none"
  /\ outcome \in endings(page[t])
  /\ page' = [page EXCEPT ![t].phase = "FINISHING", ![t].outcome = outcome]
  /\ \/ /\ up /\ Len(events) < MaxEvents
        /\ events' = Append(events, active(page[t].attempt, t, stateOf(outcome)))
     \/ UNCHANGED events
  /\ UNCHANGED <<storage, worker, recorder, early, used, budget, history>>

\* deliverOutcome: up to three sends.
Tries == 3
PageDeliver(t) ==
  /\ room /\ page[t].running /\ page[t].phase = "FINISHING"
  /\ page[t].wait = "none" /\ page[t].tries < Tries
  /\ page' = [page EXCEPT ![t].pending = TRUE, ![t].tries = @ + 1, ![t].wait = "finished"]
  /\ enqueue(message("finished", t, t, page[t].outcome, NoId))
  /\ UNCHANGED <<storage, up, sv, pending, cancelled, projection, early, used, budget, history>>

\* Any answer ends the attempt, and so does the third failure.
PageDelivered(t) ==
  /\ page[t].wait = "finished" /\ page[t].reply # "none"
  /\ page' = [page EXCEPT ![t].wait = "none", ![t].reply = "none",
                          ![t].running = page[t].reply = "failed" /\ page[t].tries < Tries]
  /\ UNCHANGED <<storage, worker, projection, early, used, budget, history>>

-----------------------------------------------------------------------------
(* The user's hand on the tab, and time *)

dropWaits(t, m) == /\ queue' = (IF m = <<>> THEN orphans(t) ELSE Append(orphans(t), m[1]))
                   /\ sv' = orphan(sv, t)

CloseTab(t) ==
  /\ room /\ disruption /\ page[t].doc # "closed"
  /\ page' = [page EXCEPT ![t] = Closed]
  /\ dropWaits(t, <<task("removed", t)>>)
  /\ UNCHANGED <<storage, up, pending, cancelled, projection, early, used, history>>

\* The tab shows another URL.  "planned" is the success path, where the page goes
\* after a submit; "left" any other path outside the reservation flow.  The site may
\* keep the document (and the content script) or load another one.
ChangeUrl(t, where) ==
  /\ room /\ disruption /\ page[t].doc # "closed"
  /\ where = "planned" => page[t].step \in {"outer_done", "pin_done"}
  /\ \/ /\ page' = page
        /\ enqueue([task("url", t) EXCEPT !.arg = where]) /\ UNCHANGED sv
     \/ /\ page[t].doc = "live"
        /\ page' = [page EXCEPT ![t] = Blank]
        /\ dropWaits(t, <<[task("url", t) EXCEPT !.arg = where]>>)
  /\ UNCHANGED <<storage, up, pending, cancelled, projection, early, used, history>>

\* A reload of the same URL tells the worker nothing.
Reload(t) ==
  /\ disruption /\ page[t].doc = "live"
  /\ page' = [page EXCEPT ![t] = Blank]
  /\ dropWaits(t, <<>>)
  /\ UNCHANGED <<storage, up, pending, cancelled, projection, early, used, history>>

\* The task at hand compares the time: the outcome of a stalled preparation is decided,
\* or an intent is re-examined.
timeCompared ==
  \/ sv.pc = "reconcile_recover"
  \/ /\ sv.pc = "idle" /\ queue # <<>>
     /\ \/ /\ lr.status = "RECOVERING"
           /\ Head(queue).op \in {"recovery", "reconcile"}
        \/ /\ lr.status = "PREPARING"
           /\ \/ Head(queue).op = "finished" /\ Head(queue).arg = "PREP_STALLED"
              \/ Head(queue).op = "reconcile" /\ page[lr.tab].outcome = "PREP_STALLED"

\* Time passes all along, but is seen only here.
Tick ==
  /\ up /\ timeCompared
  /\ early /\ early' = FALSE
  /\ UNCHANGED <<storage, worker, page, projection, used, budget, history>>

\* Chrome puts an idle worker to sleep; only what is in storage stays.
Sleep ==
  /\ up /\ sv.pc = "idle" /\ queue = <<>> /\ events = <<>> /\ ~recorder.writing
  /\ up' = FALSE /\ pending' = NoId /\ cancelled' = {}
  /\ UNCHANGED <<storage, queue, sv, page, projection, early, used, budget, history>>

-----------------------------------------------------------------------------
(* Specification *)

SupervisorStep ==
  \/ StartTask \/ StartNavigate \/ StartInject \/ StartCommit \/ StartSend
  \/ StartFail \/ StartDiscard
  \/ StopNothing \/ StopClaimed \/ StopPreparing \/ StopRunning
  \/ StopDelivered \/ StopUndelivered \/ StopSend
  \/ FinishedTask \/ FinishedReply \/ PhaseTask \/ ClaimTask \/ ClaimReply
  \/ TabRemovedTask \/ TabUrlTask
  \/ Terminate \/ Effects \/ EffectsMark \/ CompleteTask
  \/ RecoveryTask \/ RecoveryReenter \/ RecoveryStart \/ RecoveryCommit \/ RecoveryFail
  \/ ReconcileSettled \/ ReconcileRunning \/ ReconcileOutcome \/ ReconcileRecover
  \/ ReconcileLost \/ ReconcileProject

RecorderStep == RecordEvent \/ RecordKept \/ RecorderWrite

PageStep(t) ==
  \/ PageExecute(t) \/ PageClaimPin(t) \/ PageClaimed(t)
  \/ \E state \in EventStates : PageEmit(t, state)
  \/ PageDeliver(t) \/ PageDelivered(t)
  \/ \E fp \in Fingerprints : PageClaimOuter(t, fp)
  \/ \E outcome \in Outcomes : PageFinish(t, outcome)

UserStep ==
  \/ RequestStop \/ ClearRunEvents
  \/ \E t \in Tabs : \/ RequestStart(t) \/ CloseTab(t) \/ Reload(t)
                     \/ \E where \in {"left", "planned"} : ChangeUrl(t, where)

Next ==
  \/ SupervisorStep \/ RecorderStep
  \/ \E t \in Tabs : PageStep(t)
  \/ UserStep \/ Tick \/ Sleep \/ Crash \/ Boot

Spec == Init /\ [][Next]_vars

\* The worker runs whenever it has something to do and is woken again some time; an
\* attempt ends (at stopAtMs at the latest) and tries to deliver its outcome.  Nothing
\* is assumed of the user, of crashes, or of a running attempt's progress.
Fairness ==
  /\ WF_vars(SupervisorStep) /\ WF_vars(RecorderStep) /\ WF_vars(Boot)
  /\ \A t \in Tabs : /\ WF_vars(\E outcome \in Outcomes : PageFinish(t, outcome))
                     /\ WF_vars(PageClaimed(t))
                     /\ WF_vars(PageDeliver(t))
                     /\ WF_vars(PageDelivered(t))
  /\ WF_vars(Sleep)

FairSpec == Spec /\ Fairness

-----------------------------------------------------------------------------
(* Properties *)

Ids == AttemptIds \cup {NoId}
TabIds == Tabs \cup {NoId}
PageType ==
  [doc : {"blank", "live", "closed"}, attempt : Ids, run : Ids,
   phase : {"none", "PREPARING", "EXECUTING", "FINISHING"}, running : BOOLEAN,
   abort : BOOLEAN, outcome : Outcomes \cup {"none"}, pending : BOOLEAN, tries : 0..Tries,
   wait : {"none", "claim", "finished"},
   reply : {"none", "failed", "refused", "granted"} \cup Decisions,
   step : {"none", "outer", "outer_done", "pin", "pin_done", "over"},
   fp : Fingerprints \cup {NoId}]

\* Every variable has its type.
TypeOK ==
  /\ lr \in LogicalRuns
  /\ ar \in [run : Ids, tab : TabIds, state : ActiveStates \cup {"none"}]
  /\ up \in BOOLEAN /\ early \in BOOLEAN /\ used \subseteq AttemptIds
  /\ Len(queue) <= MaxQueue + 1
  /\ \A i \in DOMAIN queue : queue[i].tab \in TabIds /\ queue[i].from \in TabIds
  /\ sv.run \in Ids /\ sv.tab \in TabIds
  /\ pending \in Ids /\ cancelled \subseteq AttemptIds
  /\ page \in [Tabs -> PageType]
  /\ Len(events) <= MaxEvents /\ recorder.writing \in BOOLEAN
  /\ recorder.value \in [run : Ids, tab : TabIds, state : ActiveStates \cup {"none"}]
  /\ \A a \in AttemptIds, p \in {"outer", "pin"} : grants[a][p] \in Nat /\ clicks[a][p] \in Nat
  /\ announced \in [AttemptIds -> SUBSET TerminalStates] /\ halted \subseteq AttemptIds

\* A permission to submit is in storage before it is granted, is granted once, and is
\* used at most once; the PIN is never submitted before the form
\* (onCompletionDispatchClaim, CompletionCoordinator).
ClaimIsDurable ==
  \A l \in AttemptIds :
    /\ \A p \in {"outer", "pin"} : clicks[l][p] <= grants[l][p] /\ grants[l][p] <= 1
    /\ clicks[l].pin <= clicks[l].outer
    /\ l = lr.id => /\ (grants[l].outer > 0 => lr.dispatch.fp # NoId)
                    /\ (grants[l].pin > 0 => lr.dispatch.pin)

\* A run whose form was submitted is announced as completed or handed off, never as
\* stopped, failed or timed out: the reservation may exist (onTabRemoved,
\* onTabUrlChanged, reconcile).
SubmitNeverDisowned ==
  \A l \in AttemptIds :
    clicks[l].outer > 0 => announced[l] \subseteq {"HANDED_OFF", "COMPLETED"}

\* However often the worker dies, and whatever outcome arrives late, badge and
\* notification of a run tell one story (completeTerminal, runTerminalEffects).
EffectsTellOneStory == \A l \in AttemptIds : Cardinality(announced[l]) <= 1

\* A decision the content script was told is the one in storage (ACK after the write,
\* onAttemptFinished).
AckIsDurable ==
  \A t \in Tabs :
    page[t].wait = "finished" /\ page[t].reply \in Decisions /\ page[t].run = lr.id
    => lr.attempts[page[t].attempt].decision = page[t].reply

\* A run is reset at most once, has an intent exactly while it recovers, and never
\* holds more attempts than resets plus one (decide, executeRecovery).
RecoveryShape ==
  /\ lr.resetCount <= 1
  /\ (lr.next # NoId <=> lr.status = "RECOVERING")
  /\ Cardinality({a \in AttemptIds : lr.attempts[a].known}) <= 1 + lr.resetCount

\* The record of a decided attempt never changes, a terminal run never comes back and
\* a stored permission is never taken back (applyAttemptOutcome and its callers).
DecisionIsFinal ==
  [][lr'.id = lr.id =>
       /\ \A a \in AttemptIds :
            lr.attempts[a].decision # "none" => lr'.attempts[a] = lr.attempts[a]
       /\ (lr.status = "TERMINAL" => lr'.status = "TERMINAL")
       /\ (isAcknowledgedCompletionClaim(lr) => lr'.dispatch.fp = lr.dispatch.fp)]_vars

\* Once the stop marker is in storage no permission is granted any more (stop against
\* onCompletionDispatchClaim).
StopMarkerWins == [][lr.dispatch.stop => grants'[lr.id] = grants[lr.id]]_vars

\* Badge, notification and job run only while the run is terminal in storage and their
\* marker is not: a crash before the marker repeats them, no resent outcome and no
\* reconcile repeats them after it (completeTerminal, terminateLogical, executeRecovery).
EffectsAfterDecision == [][Effects => lr.status = "TERMINAL" /\ ~lr.effectsDone]_vars

\* Once a claim is stored no stop aborts the page that holds it, whatever the projection
\* says by then: it may lag behind, be put back by the recorder or be lost (stop, "the
\* durable claim goes before the activeRun projection").
StopSparesClaimed ==
  [][isAcknowledgedCompletionClaim(lr) =>
       \A t \in Tabs : page[t].run = lr.id /\ ~page[t].abort => ~page'[t].abort]_vars

Settled == lr.status = "NONE" \/ (lr.status = "TERMINAL" /\ lr.effectsDone)

\* Every run comes to rest, terminal and announced, unless it is replaced: after any
\* crash, stop, closed or reloaded tab (reconcile, deliverOutcome).
RunsSettle == \A l \in AttemptIds : lr.id = l ~> (lr.id # l \/ Settled)

\* What the documents say and the code does not do: each is a run of its own.

\* After a stop of a run was answered { ok: true } no attempt of it starts any more
\* (31-control-plane-implementation.md, table A: any non-terminal status + stop ->
\* TERMINAL; stop, executeRecovery).
StopIsFinal ==
  [][\A l \in halted, t \in Tabs : page'[t].run = l => page'[t].attempt = page[t].attempt]_vars

\* A new run never replaces one that has not come to rest (20-design.md:239 and :253;
\* busyError, startLogical).
StartNeverOrphans == [][lr'.id \notin {lr.id, NoId} => Settled]_vars

\* The worker never unloads a document that holds the attempt it is about to start
\* (20-design.md:234; executeRecovery).
OneIncarnation ==
  [][\A t \in Tabs : page'[t] = Blank /\ budget' = budget =>
       lr.next = NoId \/ page[t].attempt # lr.next]_vars

\* After a stop of a run was answered no claim of it is granted any more
\* (catchpay-reservation-completion/20-design.md:402; stop, which stores no marker
\* while the run is PREPARING, and onCompletionDispatchClaim).
StopRefusesClaims == [][\A l \in halted : grants'[l] = grants[l]]_vars
=============================================================================
