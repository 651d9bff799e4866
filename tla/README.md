# A TLA+ model of the CatchTable reservation assistant

The program is a Chrome (Manifest V3) extension.  At a time the user names (the
*open-run*), it opens a restaurant's reservation page, keeps toggling the calendar until
slots appear, clicks the best one, fills in the form and, when the user has allowed it,
presses the buttons that make the reservation and pay for it.  What makes it hard is that
it is spread over processes that die independently: the service worker may be killed
between any two storage writes, the page may be reloaded, closed or re-rendered by the
site, messages are lost with the document that sent them, and two of the presses cannot be
taken back.

This directory models that behaviour in TLA+, checks it with TLC on small instances, and
proves the central properties with TLAPS for every instance.

## 1. The system: components, state, operations

```
 side panel --commands--> background (service worker)             content script (one per tab)
                            RunSupervisor  <---attempt control--->  attempt (content/index.ts)
                              | logicalRun, activeRun (storage)       | kernel / orchestrator
                            event recorder <------RUN_EVENT---------- | preparation, hot path
                            JobScheduler, saved configs               | CompletionCoordinator
                            telemetry ingest <-----trace batches------+ form adapter, wake, clock
                            terminal effects (badge, notification)    MAIN world: XHR probe
```

| component | state | operations | what makes it correct |
|---|---|---|---|
| run supervisor (`background/run-supervisor.ts`) | `logicalRun`, `activeRun` in `chrome.storage.local`; a serial queue, `pendingStartRunId`, `cancelledPendingRuns` in memory | start, stop, attempt outcome, phase, completion claim, tab closed / URL changed, recovery, bootstrap reconcile | decisions are durable before they are told; one retry; a submitted form is never disowned; every run comes to rest |
| logical run and recovery policy (`shared/run-control/`) | none (pure) | outcome, phase, claim, lapse, background termination, stop marker | a decision is made once; a permission is given once; a stop marker wins |
| attempt control in the page (`content/index.ts`) | current attempt, phase, outcome, abort signal | START, STOP, GET_ATTEMPT_STATUS, claims, outcome delivery with three tries | an attempt is not started twice; its outcome arrives or is asked for |
| completion (`content/completion-coordinator.ts`, `content/adapter/reservation-form.ts`) | position in the flow, PIN, inspected form | inputs, agreements, submit, PIN, result | what is pressed is what was permitted; the PIN is short-lived; no exit denies a press |
| page runtime port, navigation | load listeners | navigate, reload, inject, send | a failed call fails the start or the recovery |
| event recorder (`background/index.ts`) | `activeRun`, `runEvents`, on a queue of its own | RUN_EVENT, CLEAR_RUN_EVENTS | the projection may be stale but must not control a run |
| terminal effects | none | badge, notification, end of the scheduled job | one story per run |
| job scheduler, job repository (`background/scheduler.ts`, `shared/scheduled-jobs.ts`) | `scheduledJobs`, alarms, the jobs queue | save, delete, alarm, reconcile, finish | no overlap, each job runs or is missed, no job is lost |
| run kernel, state machine (`content/orchestrator.ts`, `shared/state-machine.ts`) | run state, watches, the one-shot PIN | validate, prepare, wait, toggle, advance, complete, clean up | legal transitions; the ending is true; nothing is left on |
| preparation steps (`content/preparation/`) | attempts, deadlines and progress key of a step | entry, month, date, person | bounded presses; the cause of a failure is the right one |
| open-run hot path (`content/flow/`) | toggle cycle, signal in hand | toggle, wait, scan, click | one slot click; a cycle is cut short only for a certain answer |
| availability wake and correlation, XHR probe | markers, last sequences, one pending signal | mark, observe, correlate, offer, consume | a signal of an earlier cycle is not used |
| pages behind the slot (`content/adapter/post-slot*.ts`) | none | inspect, advance | no payment the policy does not allow |
| telemetry (batch processor, port, ingestor, IndexedDB) | bounded queue, in-flight flag, stored events | record, flush, acknowledge, ingest | nothing lost silently, no holes, critical events kept |
| clocks (`shared/clock.ts`, sampler) | offset samples, last estimate | sample, estimate, anchor, lead | the page is armed before the opening |
| toggle schedule, slot selection, configuration (`shared/`) | none (pure) | plan, choose, migrate, validate | the opening is not skipped; the wish is honoured |
| saved configurations, DOM adapters, diagnostics, observation, side panel | lists, form state | upsert, remove, read, render | bounds and uniqueness |

How they interact.  What the worker hands to the supervisor (start, stop, the attempt's
messages, alarms, tab events) waits for `supervisorReady`, so the bootstrap reconcile runs
before it.  What does not reach the supervisor does not wait: RUN_EVENT, CLEAR_RUN_EVENTS,
SCHEDULE_JOB, DELETE_JOB, saved configurations, snapshots, the trace, and the reconcile of
the jobs at onStartup and onInstalled.  The supervisor runs one task at a time
(`SerialTaskQueue`).  The recorder, the scheduler, saved configurations and
telemetry each have a queue of their own, and share storage with the supervisor without
any lock: `activeRun` is written by the supervisor and by the recorder.  The content
script talks to the worker by request and answer; an answer is lost when either side goes
away.  The worker commands the page with START, STOP and GET_ATTEMPT_STATUS. In the page
the attempt shares its one thread with the site.  A probe in the site's own world sees the
slot lists the site asks for; it and the content script exchange markers and answers
through `window.postMessage`.  Trace events leave the page in batches over a port that
breaks whenever the worker is stopped.

Hard behaviours: a stop, a claim and an end of the run that meet in the queue; a worker
that dies between a write and the answer or the effect that follows it; a document that
goes away with an answer pending; an outcome that is sent again; a projection that is read
to control a run but written on another queue; a form that changes between its inspection
and its press; a stop or the end of the watch that falls between two awaits of the flow;
answers about slots that come late, in the wrong order or for another date; a batch that
is sent again; clock samples that are whole seconds.  PROJECT.json lists each at its line,
with the property that would catch it.

## 2. The modules

| module | models | role |
|---|---|---|
| `LogicalRun` | `shared/run-control/logical-run.ts`, `policy.ts` | the stored run as a record, each pure transition as an operator; no variables; used by both state machines below |
| `RunSupervisor` | `run-supervisor.ts`, `content/index.ts`, recorder and effects of the background | the control plane: worker, queue, storage, tabs, crash and recovery |
| `CompletionDispatch` | `completion-coordinator.ts`, `reservation-form.ts`, the claim and stop handlers | the completion flow of one attempt |
| `JobScheduler` | `background/scheduler.ts`, `scheduled-job-repository.ts`, `shared/scheduled-jobs.ts`, and what jobs see of the supervisor | the stored jobs, their alarms, and the two queues that call each other |
| `DispatchAuthority` | nothing: it is the promise | abstract specification implemented by `CompletionDispatch` |
| `OpenRun` | `orchestrator.ts`, `flow/open-run-hot-path.ts` and what they call | one attempt in the page, from START to the end of its flush; composes the next four |
| `RunStates` | `shared/state-machine.ts` | the transition table and how far a sequence of transitions gets |
| `PreparationStep` | `content/preparation/`, `shared/run-control/classifier.ts`, `causes.ts` | one poll of a step as an operator on its record; the four steps |
| `AvailabilityWake` | `main-world/xhr-probe.ts`, `availability-correlation.ts`, `availability-dom-wake.ts` | markers, correlation and the pending signal as operators |
| `PostSlot` | `adapter/post-slot.ts`, `post-slot-inspection.ts` | what a page is taken for and what is done on it |
| `AttemptContract`, `AttemptEndings` | the promise of an attempt to the supervisor | `OpenRun` implements it, `RunSupervisor` relies on `attemptEndings` |
| `TraceBatch` | `content/telemetry/`, `background/telemetry/`, the forced flushes of `index.ts` | the trace of the runs of a page on its way to the database |
| `ReferenceClock` | `shared/clock.ts`, `reference-clock-sampler.ts`, the anchor and lead of the attempt | algorithm, constant level |
| `ToggleSchedule`, `SlotChoice`, `Configuration` | `shared/toggle-schedule.ts`; `slot-selection.ts` and `adapter/slots.ts`; `shared/config.ts` | algorithms, constant level |
| `FiniteMinima` | `Math.min`, `Math.max` | the least and greatest of a finite set, with the lemmas the algorithms rest on |
| `LogicalRun_proofs`, `RunSupervisor_proofs`, `CompletionDispatch_proofs`, `JobScheduler_proofs`, `OpenRun_proofs`, `TraceBatch_proofs`, `Algorithms_proofs` | | theorems; the last one has those of `ReferenceClock`, `ToggleSchedule`, `SlotChoice` and `Configuration` |
| `MCRunSupervisor`, `MCCompletion`, `MCJobScheduler`, `MCOpenRun`, `MCTraceBatch` | | instances for TLC |

`RunSupervisor` and `OpenRun` meet in `AttemptContract`: the supervisor's model lets an
attempt end in any way `attemptEndings` allows, and `OpenRun` is checked to end in no
other.  So the large state space of an attempt and that of the control plane are explored
apart and still fit together.

### RunSupervisor and the code

`lr` is the stored `logicalRun`, one record written as one value, and `ar` the stored
`activeRun`.  `queue` and `sv` are the supervisor's queue and the task it executes.  A
task is cut at the awaits that matter: each storage write, each call into a page and each
terminal effect is an action, `sv.pc` names the next one.  So `stop` is `RequestStop` (the
command; `cancelledPendingRuns` changes before the queue), then `StopNothing`,
`StopClaimed`, `StopPreparing` or `StopRunning` by the code's early returns, then
`StopDelivered`, `StopUndelivered` or `Terminate` ... `StopSend`.  `terminateLogical`
works on the run its caller has read before its own write, so the stop marker written a
moment earlier is overwritten: `sv.stop` carries the value that was read. `page[t]` is the
document of a tab with its content script: the attempt, its phase, the abort signal, the
answer it waits for.  A document that is reloaded or closed takes its pending answers with
it (`orphans`).  A crash empties the queue, the running task and the memory of the worker,
fails the waiting requests of the pages, and leaves `lr` and `ar`; `Boot` puts the
reconcile at the head of a new queue.  `Sleep` is the end of an idle worker.

Simplifications, each of which keeps the control flow: timestamps are "set / not set" and
the two time comparisons of the policy are the Boolean `early`, which turns false, if at
all, right before a task that compares it (`timeCompared`: nothing else can tell); a run is named after its first attempt, whose uuid is drawn in the same task; a
message is compared by its outcome, not by its text (`sameOutcome`); `NAVIGATING` and
`CONFIGURED` are one projection, no reader tells them apart; the PREPARING phase message,
which is never stored, is left out; the last RUN_EVENT and the first trace flush of an
attempt are one step with its end, the outcome being published later; the recorder's read
and write are apart only where the read value is used (events without a state, clearing);
the effects are assumed not to reject, a crash between `Effects` and `EffectsMark` covers
their loss; a clearing that finds the projection of a running run writes nothing to it and
is left out; a start that fails validation changes nothing and is left out; the stop button
exists until the projection is terminal (`sidepanel/index.ts:602`), so `RequestStop` has
that guard.

### CompletionDispatch and the code

One action of the coordinator runs from one await to the next: `Begin` to the loop over
required inputs (`LoopInterrupted`, `LoopFill`, `LoopAgree`, `LoopSettled`), `LoopClaim`
and `OuterClaimed` around the claim of the first press, `Watch`, `Digit`, `PinClaim`,
`PinClaimed` for the PIN, `Observe` for the result.  `GiveUp` is the catch-all of the code
after the first claim.  The site (`SiteRenders`) may show any form at any time, also
between two PIN digits.  `secret` is the set of those who hold the PIN: the vault of the
page, from which it is taken once; the flow itself, until it returns; and `completePin`
with its copies, until its press is claimed.  The form is what `ReservationFormAdapter.inspect` makes of it, and
a fingerprint stands for the form it is the hash of, so the facts of a form (amount, empty
inputs, unchecked agreements, optional agreements) are a function of it.  The background
answers claims with the operators of `LogicalRun`, and may lose the request or, after the
write, the answer.  How the DOM is read is not modelled.  Exceptions before the first
claim leave the flow to the kernel, which ends the run as failed; nothing was pressed
then.

### JobScheduler and the code

`jobs` is the stored list, `alarms` what Chrome keeps, `fired` the alarm events that wait
for `supervisorReady`.  `jq`, `jt` and `sq`, `st` are the two `SerialTaskQueue`s and the
task each executes.  A task of the jobs queue is cut between the write of the list and the
alarm call (`SaveTask`, `Arm`; `DeleteTask`, `Disarm`; `ReconcileJobsTask`, `Rearm`),
because the worker may die there, and where it waits for the supervisor: `AlarmTask` puts
the launch into `sq` and stays in `launching` until `LaunchAnswered`.  The other way round
`Effects` puts `finish` into `jq` and stays in `waiting` until `FinishTask`.  This is
where the two queues can wait for each other.

Of the supervisor the module keeps what jobs can see: whether the projection is busy,
whether the run goes on, has ended, and has had its effects.  How a run ends, its retry
and its claims are `RunSupervisor`'s; a retry is a part of a run that goes on.  The write of
the stored run and the START that follows it are one step here (`StartSucceeds`) and two
in `RunSupervisor`.  `page` is
the attempt of the latest run in its tab: playing, over, reported.  Manual starts, closed
tabs and lost last events count as disruptions, like crashes and restarts. A window is the
pair of times the code derives from a configuration: when the alarm is due (`openAtMs -
ALARM_LEAD_MS`) and `stopAtMs`; only their order matters, so the clock counts the points
at which alarms are due and windows end.  `rev` numbers the saves of a job: it tells the
run of a job from the run of the same job before it was edited, and only properties read
it.  Left out: `createdAt`, `updatedAt` and results; which of the finished jobs
`pruneFinished` keeps is left open; `sanitizeScheduledJobs` is the identity on what the
code itself stored; the sleep of an idle worker is a crash with nothing to lose.  `Restart` stands for
onStartup and onInstalled alike and takes the page with it; after an installation or an
update a tab may stay open, but its content script has lost its worker, so no attempt in
it can report any more.

### OpenRun and the code

An action is what the flow does between two awaits: `Start`, `Synced`, one poll of a
preparation step (`Prepare`), `Confirm`, the wait for the opening (`Open`), the waits of a
toggle cycle (`Search`, `Adjacent`, `Target`, `Settle`, `Detect`), one poll behind the
slot (`Transition`, `Advance`), the completion (`TakePin`, `Claim`, `Complete`) and
`Return`. The page's code has one thread, so nothing falls into such a passage; where the
code asks the clock again within one, the passage is two actions, and `held` keeps the
page inspected in the first.  What the page shows is chosen anew at each poll.

Transitions go through `walk`, which knows the code's table: a path that the table does
not allow throws in the middle, as `transition()` does, and the catch of `execute` tries
FAILED from where the run then is.  `Finally` is the finally block: the PIN, the watches
(of which one may fail to stop), the pending signal.  It also forgets the bookkeeping of
the cycle, which nothing reads any more.

Time is a set of deadlines: `late` is `stopAtMs`, `timer.wait` the deadline of the wait
the flow is in, `timer.body` the burst after a signal, `timer.grace` the wait for a notice
over the form, and the step's own timers.  A timer is off, set or due, and those that are
set become due in any order; how long each is, and hence which order is impossible, is
abstracted.  The clock comparisons of a request with the clicks are its window, the set of
cycles it was sent in the window of, chosen when it is sent.  Only messages that can still
change how the toggling ends are followed
(`Listening`), and what nobody reads any more is forgotten. A mutation of the page repeats a
scan without another effect, so it is not an action; `Arrival` is a slot list seen by the
watch.  The completion is what `AttemptContract` needs of it; `CompletionDispatch` has the
rest.  A payment method notice is only reached with a deposit of 0 won (the inspection
requires both texts), so `PostSlot` needs no amount there. The diagnosis of a stalled
calendar and the messages of an ending are left out: `cause` is what the supervisor tells
endings apart by.

### TraceBatch and the code

`page` is the batch processor: the run, its queue, `inflight`, the timer.  `tasks` is the
worker's serial trace queue, `store` the database by run and number, with who wrote the
record: the page, or the worker itself (`Note`, in two steps because it first reads the
last number).  The worker may write about a run at any time, also while its page records,
but here once per run; in the code a run may get up to three records (recovery decided,
dispatched, terminal), each under the number after the last one stored.  `Put` and
`Acknowledge` are apart because the worker may die in between.
`forceFlush` is called up to three times at the end of a run (by the kernel, then twice by
`content/index.ts`), which is `tries`.

An event is its number; which numbers are critical is a constant.  A message posted on an
open port is at once in the worker's queue; posted on a port that broke it is lost, and
the port is forgotten.  The timer's delay (0 or 250 ms, or the resend's) is not told
apart: an armed timer may fire at any time.  Left out: `eventCount` and `droppedCount` in
the stored run record, `prune` (it deletes nothing while there are at most 20 runs),
the deletion of a run by the user, live updates and the panel's queries: that an event
stays in the database is said of the runs that are kept.  The record of a failed start is written only for
runs that never reached a page, so it shares no key with a batch and is left out.

### The algorithms

`ReferenceClock`, `ToggleSchedule`, `SlotChoice` and `Configuration` have no variables.
They are the code's functions as operators, and their theorems are what the actions of
`OpenRun` take for granted: that a wait for the opening ends before it, that presses lie
ahead, that what is clicked is what was selected.  Times are whole milliseconds; a centre,
a median or an uncertainty is half a sum in the code, and the fields that end in 2 hold
the sum itself. The definitions of `ReferenceClock` were compared with a port of
`clock.ts` on 400 random sequences of samples, 98 of them with two competing clusters, and
agreed. A failed HEAD request yields no sample in `sampleOnce`; in the code a TypeError
does just that, while any other exception leaves the sampler's loop, so that no later
sample comes either.  The theorems hold of any sequence of samples, of one that ends too.  In `Configuration` a text is what its check makes of it.

### DispatchAuthority

Two presses, permitted at most once each, the later one only after the first was made,
none permitted after a revocation (the stop marker is stored or the run has ended; a stop
that stores no marker is not one, see `claim_after_stop`), each made at most once and only with its permission; a
stop or a timeout may only be told while nothing was permitted.  `CompletionDispatch`
implements it with `permitted` = the stored claims, `dispatched` = the presses made,
`revoked` = a stored stop marker or a terminal run, `outcome` = what `run()` returned.

## 3. What TLC checks

| run | instance | states | shows |
|---|---|---|---|
| `run_control` | 1 start, 3 attempt ids, 2 disruptions, queue 1, 1 event, with or without a state | 2,350,491 | decisions, permissions and announcements of the control plane, whatever the projection says |
| `run_control_live` | 1 start, 2 attempt ids, 2 disruptions, queue 2, no events, fair | 157,846 | what rests on the order of the queue; every run comes to rest, terminal and announced |
| `completion` | 5 forms, PIN of 2 digits, 2 rounds, fair | 234,338 | type, agreement of record and flow, PIN, refinement, presses, termination |
| `jobs` | 2 jobs, 3 windows, 2 saves or deletions, 2 runs, 2 disruptions | 1,260,090 | windows, launches and ends of jobs |
| `attempt` | 5 configurations, 2 toggle cycles, 2 requests for slots, fair | 224,439 | presses, signals, payments, endings, the contract, termination |
| `trace` | 2 runs of 1 and 4 events, batches and queue of 2, 2 faults, fair | 1,341,059 | what is stored, lost and declared lost; the queue drains |
| `stop_lost`, `claim_after_stop`, `run_orphaned`, `double_attempt`, `jobs_deadlock`, `click_after_stop` | 1 or 2 starts, 0 or 1 disruptions; `click_after_stop` as `attempt` | until the violation | see "Where documents and code disagree" |

The properties, by module:

- `RunSupervisor`: `TypeOK`; `ClaimIsDurable` (a permission is stored before it is
  granted, granted once, used at most once, PIN after form); `SubmitNeverDisowned` (a
  submitted form is never announced as stopped, failed or timed out);
  `EffectsTellOneStory` (all announcements of a run agree, over any number of crashes);
  `AckIsDurable` (an acknowledged decision is the stored one); `RecoveryShape` (one reset,
  an intent exactly while recovering); `DecisionIsFinal` (decided records, terminal runs
  and given permissions never change); `StopMarkerWins` (no permission after a stored
  stop); `EffectsAfterDecision` (every execution of the effects, a repeated one included,
  is of a run whose end is stored and whose marker is not); `StopSparesClaimed` (once a
  claim is stored no stop aborts the page that holds it, however stale or lost the
  projection); `RunsSettle` (liveness).
- `CompletionDispatch`: `TypeOK`; `FlowMatchesRecord` (where the flow is agrees with what
  is stored); `SecretIsShortLived` (the PIN is taken for a paid form only, the
  copies of the typing are gone with its claim, the flow's own when it returns); `RefinesAuthority`
  (refinement of `DispatchAuthority`); `PressMatchesClaim` (what is pressed, and paid, is
  what was claimed); `CompletionEnds` (liveness).
- `JobScheduler`: `TypeOK`; `NoOverlap` (jobs that wait or run have disjoint windows);
  `LaunchedOnce` (one launch per save, and one more per restart of Chrome at most);
  `MarkedMeansFinished` (the marker of the effects is not written before the job is
  finished); `MissedIsNotPlaying` (no attempt of a job at work while the job is told
  missed).
- `OpenRun`: `TypeOK`; `SlotClickedOnce` (one slot click, never in a dry run, announced
  before, and no way back to toggling); `WakeIsCurrent` (the signal that waits and the one
  in hand are of the cycle at hand, however late answers come); `CutShortKnowingly` (a
  cycle is cut short only for an empty answer that is certain and the newest);
  `PressesInMeasure` and `CauseFitsPresses` (presses stay within the step's budget across
  interstitials and progress, and the reported cause fits them); `PaymentPolicyKept` (no
  path of dialogs agrees to what the policy forbids); `LeavesNothingBehind` (PIN, signal
  and watches after any ending, one failing stop included); `EndingIsTrue` (what is told
  is true of what was done); `HonoursContract` (refinement of `AttemptContract`);
  `AttemptEnds` (liveness).
- `TraceBatch`: `TypeOK`; `NothingSilentlyLost` (an event that left the queue is stored,
  or given up and counted, and never a critical one); `FlushMeansStored` (a flush told
  successful stays true while the run is kept); `GapsAreDeclared` (a stored trace has no other holes);
  `OverflowIsCritical` (the queue exceeds its limit for critical events only);
  `QueueDrains` (liveness).

Bounds.

- `MaxStarts = 1` is enough where a property is about one run, because the supervisor
  holds one logical run; `run_orphaned`, which is about two, has two starts. Two attempt
  ids are enough for one run, because a run is reset once; `MaxDisruptions = 2` gives
  every pair of stop, crash, closed, left or reloaded tab and cleared projection, so also
  "crash during the recovery from a crash", "stop, then crash" and "clear, then stop"; the
  queue of two of `run_control_live` lets any two messages wait in both orders behind the
  task that is executed, which is what the claim, the stop marker and the outcome of a
  submitted form are about; the events of the recorder need a run of their own for their
  number of states, and there one message waits behind the one that is executed; recovery
  and completion tasks come on top in both. One tab is enough as a run never leaves its tab; one
  fingerprint is enough in the control plane, because a fingerprint mismatch needs a form
  that changes, which is the subject of `completion`.
- In `completion` the forms are one with an empty input, one with an unchecked agreement,
  the filled-in one, a free one and one whose optional agreement is checked; two PIN
  digits distinguish first, between and last, two rounds are one input and one agreement.
- In `jobs` two jobs are what overlap, conflict and the meeting of the queues are about;
  the three windows touch, overlap and contain each other; two saves are two jobs, or one
  and its edit or deletion; a queue takes one message of the user or the page at a time,
  tasks that the code itself queues come on top. The limits on the number of jobs are not
  reached there: they are proved instead.
- In `attempt` the five configurations are: prepared by the program with completion and
  any payment; a dry run that may cut cycles short; one that only observes answers; one
  that advances with a deposit of 0 won only; one that leaves payments to the user. Each
  action and each branch of the flow is taken in one of them, and switches that do not
  meet in the code need no product. Two cycles and two requests give an answer of the
  first cycle that arrives in the second, and two answers in the wrong order; a step's
  budget is the code's.
- In `trace` a second run follows a first one of a single event, so that acknowledgements
  of the first meet the numbers of the second; four events with batches and a queue of two
  overflow the queue, once with an ordinary event to give up and once with only critical
  ones waiting; two faults are a failure and one more during the recovery from it.

Fairness.

- In `RunSupervisor`: the supervisor and the recorder take their steps (an idle event loop
  runs what is queued), a stopped worker is started again by some event (alarm, message,
  panel) and an idle one is put to sleep by Chrome, and a content script ends its attempt
  (`stopAtMs` bounds it), handles an answer that has come and delivers its outcome.
  Nothing is assumed of the user, of crashes, of the site or of the progress of a running
  attempt.
- In `CompletionDispatch`: the coordinator goes on when what it waits for is there, a
  claim is answered or lost, the stage timers fire; failures (`GiveUp`, `LoseReply`), the
  site and the user are not fair.
- In `JobScheduler` (only `jobs_deadlock` is about progress): each queue takes its steps,
  due alarms fire and are admitted, an attempt ends and reports. Nothing is assumed of the
  user, and not that Chrome kills a worker that is stuck: the documents do not rely on it
  either, and the job whose launch was lost would stay running.
- In `OpenRun`: the end of the watch comes (it is a time of the clock), the other
  deadlines pass (timers fire), and a poll whose wait is over is made. While dates are
  toggled polls are only assumed fair after the end of the watch, because the number of
  cycles is bounded by it alone. Nothing is assumed of the page, the site, the user or
  messages: a site that shows nothing, for ever, does not keep a run from ending.
- In `TraceBatch`: an armed timer fires, an acknowledgement on its way arrives, the worker
  goes on with its queue.

`CHECK_DEADLOCK` is on in the runs of `RunSupervisor` and `CompletionDispatch`: `Sleep`,
`Boot` and the stop command keep the models alive.  It is off in the runs of
`JobScheduler`, which really may stop: when the clock, the saves and the runs of the
instance are used up, and in the wait cycle that `jobs_deadlock` shows by a property of
its own.  It is off in `attempt` and `click_after_stop`, where a run ends for good
(`AttemptEnds` says that it does so and nowhere else), and in `trace`, where nothing
obliges a page to record any more.

### Where documents and code disagree

- `stop_lost`: the table in
  `docs/specs/run-control-plane/31-control-plane-implementation.md:40` says a stop in any
  non-terminal status ends the run.  A stop that is processed between the end of a stalled
  preparation and its ATTEMPT_FINISHED is answered `{ ok: true }`, has no effect on the
  finishing document, and the recovery starts another attempt.
- `claim_after_stop`: `catchpay-reservation-completion/20-design.md:402` says that a stop
  serialized before the acknowledgement of a claim makes the claim refused.  The marker is
  stored in status EXECUTING only (`run-supervisor.ts:188`).  A stop that is handled before
  the phase message, with the claim behind both, finds PREPARING, stores nothing and is
  answered `{ ok: true }`; then the claim is granted and pressed.  What does hold is
  `StopMarkerWins`.
- `run_orphaned`: `run-control-plane/20-design.md:239` and `:253` say that a run is not
  orphaned and that the projection does not control runs.  `busyError` reads the
  projection: a start between the last RUN_EVENT and ATTEMPT_FINISHED overwrites the run.
- `double_attempt`: `run-control-plane/20-design.md:234` says that reusing the attempt id
  makes the resumption idempotent.  A finishing attempt is "not running": after a crash
  between START and the commit its document is reloaded and the same id started again.
- `jobs_deadlock`: `scheduler/20-design.md:60` says that a job becomes finished when its
  run ends.  `onAlarm` holds the jobs queue until the launch is answered, the effects of a
  run hold the supervisor's queue until the job is finished.  When the alarm of the next
  job comes between the end of a run and its effects (their windows may touch), both wait
  for ever, and with them every start, stop and save.
- `click_after_stop`: `docs/specs/product-requirements.md:89`,
  `specs/00-goal-and-workflow.md:54` and `architecture/state-machine.md:111` say that
  nothing is clicked after the user's stop. A stop that ends the wait of the detection
  loop (`open-run-hot-path.ts:398`) leaves one last scan (`:409`); when that finds a slot,
  `advanceFromSlot` looks at the end of the watch and not at the stop, and the slot is
  clicked.  The run then ends as STOPPED.

Also met while modelling, each described by the model but without a run of its own:

- `docs/worklog/2026-07-23-01-reset-config.md:22` says that clearing the log never touches
  the projection while a run goes on.  `clearRunEvents` reads it, awaits, and writes null
  (`background/index.ts:186`), and the supervisor is on another queue: a start in between
  loses its projection (`ClearRunEvents`, `StartTask`, `RecorderWrite`), after which a
  stop finds no run and another start is admitted.
- `run-control-plane/20-design.md:252` calls finishJob idempotent.  It overwrites any
  status, and SCHEDULE_JOB does not wait for `supervisorReady`: repeated effects end a job
  that was edited after the restart and has not been launched; without the edit they end a
  job that reconcile had just put back to waiting.
- `automation-boundary.md:70` says that the end of the watch always ends a run as
  TIMED_OUT. The table has no such transition from ADVANCING_RESERVATION:
  `orchestrator.ts:814` throws and the run ends as FAILED.  `EndingIsTrue` admits this.
  Before that, `advancePostSlot` goes on clicking stages after `stopAtMs` until its own
  deadline.
- `automation-boundary.md:69` says that the key of a slot whose click failed is recorded;
  the toggling goes on, but nothing is recorded.
- `run-telemetry/20-design.md:63` gives critical events a margin of 64; in the code the
  queue grows for them without a limit, which is what `OverflowIsCritical` says.
- A record the worker writes about a run may be overwritten by a batch of the page that
  arrives later under the same number; the comment at `run-supervisor.ts:528` met the
  opposite loss.
- `clock.ts:180` says that the lead covers either of two competing clusters.  The widened
  uncertainty reaches from one centre to the other, not to the far edge.  Samples [0,
  1000), [990, 1990), [500, 1500) and two of [2000, 3000) have the centre 995 and the
  uncertainty 1505; an offset of 2999 is 2004 away, so the page would be armed half a
  second late.  The lead is moreover computed once before the wait, while the anchor
  moves: a later estimate that is less certain arms the page later than configured, by what
  `ArmedBeforeOpening` states.
- `execute()` rejects when the slot watch cannot be started in IDLE, and
  `content/index.ts` has no catch there; `EndingIsTrue` names this as the one run without
  a terminal state.
- Preparation: an interstitial that is closed after the last attempt exhausts the budget
  at once; one click may follow the calendar's deadline; date clicks are bounded by that
  deadline only, because an interruption begins the step anew.

## 4. What is proved

`LogicalRun_proofs` (assumption `LogicalRunAssumption`): the transitions keep the shape of
the stored record, a reset spends the budget (`ResetOnce`), and two theorems speak of a
whole life of a run, from `createLogicalRun` on through any sequence of `Transition`s, which
is what its callers do to it.  `OutcomeDecidedOnce`: once an attempt is decided, the same
outcome is for ever answered as a repetition and any other one refused.
`ClaimGrantedOnce`: once a permission is stored no claim of its phase is acknowledged, by
any attempt and for any form, and once the marker is stored or the run is over none at all.
Their invariant `lifeOK` says that only known attempts are decided, and that a run that
recovers has a next attempt which is new and undecided.

`RunSupervisor_proofs` (assumptions `LogicalRunAssumption`, `BoundsAssumption`): for any
tabs, attempts and fingerprints, any number of starts, stops, closed or reloaded tabs and
deaths of the worker, and any length of the queues, `TypeCorrect`,
`PermissionsAreDurable`, `SubmittedIsOwned`, `OneStory`, `AcknowledgedIsStored` and
`ResetOnce` prove the six invariants of its two runs, `DecisionsAreFinal`,
`StopBeatsClaim`, `EffectsComeLast` and `StopSparesTheClaim` their four action
properties.  `RunsFollowTransitions` ties the two
levels together: whatever a step of the system does to the stored run, until another run
replaces it, is a `Transition` of `LogicalRun`.

Every step is first brought to one of a dozen kinds (`StepKinds`: a task is taken, an
answer is given, a message is sent, a page works, a page goes away, ...), to one of three
moves of the stored run (`RunMoves`: it stays, it is replaced, or it `goesOn`) and of the
history (`BooksMove`); each conjunct of `IInv` is then shown over these kinds and not over
the forty-odd actions.  The conjuncts, and why they are needed:

- `runOK`, `TaskOK`: what status, attempts, intent and reset count say of each other, and
  what the running task has read and still relies on at its next await (a granted claim is
  only answered while the run executes without a stop marker; a run about to be written
  has no name in storage yet).
- `QueueOK`, `PageOK`, `ProjectionOK`: the shape of messages, content scripts, projection.
- `SendersOK`: for each tab at most one answer is under way, and it belongs to the request
  the script still waits for; a document that went away takes its answers with it.  With a
  second answer a granted claim could be answered once more with an outcome's decision.
- `PlacesOK`: a run lives in one tab, and its current and next attempt in no other run.
- `ClaimsOK`: a granted answer on its way is one grant in the book and no click yet.
- `SubmitsOK`, the heart of `SubmitNeverDisowned`: from the moment a claim is stored for a
  script that still waits (`Armed`), no outcome that would disown the run is in the queue,
  in its page or in storage.  This rests on the order of the queue: a claim somebody waits
  for is younger than any such outcome of its run, because an attempt that has finished
  claims nothing any more.  Without this first part `SubmitsOK` is not inductive.
- `EffectsOK`, the heart of `EffectsTellOneStory`: effects that ran without their marker
  are repeated before anything else happens to the run (`repeats`): either the task is
  still at them, or the worker is dead, or it has restarted and its reconcile is at the
  head of the queue.  So a late outcome cannot change the story in between.

TLC checked `IInv` on the reachable states of a small instance before it was proved.

`CompletionDispatch_proofs` (assumptions `LogicalRunAssumption`, `CompletionAssumption`):
for any set of forms, any amounts, any PIN length and any number of rounds, `TypeCorrect`,
`RecordAgrees`, `SecretForgotten`, `PressedAsClaimed` and `KeepsAuthority` prove `TypeOK`,
`FlowMatchesRecord`, `SecretIsShortLived`, `PressMatchesClaim` and `RefinesAuthority`.
The inductive invariant is `TypeOK`, `CurrentAttempt` (the stored run is this attempt's
until it ends), `FlowMatchesRecord` and `SecretIsShortLived`. `FlowMatchesRecord` carries
the argument: the record lives in the worker and the position in the page, so a press is
only known to be permitted because a granted answer implies a stored claim, and a second
permission is only excluded because a request in flight implies that its claim is not
stored yet.  From the invariant each action is a `Permit`, `Dispatch`, `Revoke`,
`Conclude` or a stutter of `DispatchAuthority`.

`JobScheduler_proofs` (assumption `JobAssumption`): for any number of jobs, any windows
and any limits, `TypeCorrect`, `WindowsDisjoint` and `ListStaysBounded` prove `TypeOK`,
`NoOverlap` and `ListBounded`.  The inductive invariant is these three and `Capacity` (a
start that was admitted is within the model's bound on runs).  Every step of the system
either saves one job, which was compared with every other active one and counted, or
`Shrinks` the list: windows stay, nothing becomes active, nothing appears.  That reconcile
and onAlarm only shrink it is the part a test would not show for every list.

`LaunchesAreSingle`, `MarkersTellTheTruth` and `MissedMeansNotAtWork` prove `LaunchedOnce`,
`MarkedMeansFinished` and `MissedIsNotPlaying` from a second invariant on top of it,
`StoryInv`, which says where the launch, the repair and the end of a job can be in the two
queues: at most one launch of a job waits in the supervisor's queue, and the running alarm
task waits for its answer (`LaunchesOK`); a reconcile is at the head of the jobs queue or
nowhere, since only a boot puts it there, and until it ran no attempt is at work on a job
(`ReconcileOK`); at most one `finish` waits, and the effects of that job's run wait for it
(`EffectsOK`); a job that may still be launched was launched only in earlier lives of
Chrome, once in each at most (`CountsOK`); no attempt is at work on a job that waits, was
told missed, or whose launch is not answered with success (`PlaysOK`).  None of them is
inductive without the others.

`OpenRun_proofs` (assumptions `ConfigsAssumption`, `BoundsAssumption`): for any set of
configurations, any number of toggle cycles and of slot-list requests, `TypeCorrect`,
`OneClick`, `SignalsAreCurrent`, `PressesStayInMeasure`, `PaymentsAreAllowed`,
`NothingIsLeftBehind` and `EndingsAreTrue` prove the seven invariants of `attempt`,
`CutsAreKnowing` and `DiagnosesFit` its two action properties, and `AttemptKeepsContract`
that an attempt implements `AttemptContract`. `IInv` adds to the invariants what they rest
on: `Places` (the run's state fits where the flow waits, so that every `walk` is of known
transitions; the lemmas `WalkOne`, `WalkTwo`, `WalkThree` and `WalkRefused` say where it
ends), `Progress` (the supervisor is told, the slot clicked, the press asked for, in this
order), `StepOK` (presses and attempts are counted together exactly where nothing gives
attempts back), `WiresOK` (a marker is a cycle of the request's window; an answer on its
way is complete) and `SignalsOK`. The last is the heart of `WakeIsCurrent` and
`CutShortKnowingly`: a signal exists only while its cycle scans, and stands for an answer
whose request no later message can change. Every step is then either `Ends`, after which
`Fits` says which endings are possible, or one that goes on; only `Confirm`, `Claim` and a
stop tell the supervisor anything (`Steady`, `Tells`), and these are the steps of the
contract. With `AttemptKeepsContract` the set of endings from which `RunSupervisor` lets an
attempt choose is justified for every instance, not only for the one TLC explores.

`TraceBatch_proofs` (assumption `BatchAssumption`): for any number of runs and events, any
sizes of batches and of the queue, any limits on faults, `TypeCorrect`,
`NothingIsSilentlyLost`, `FlushMeansIsStored`, `GapsAreAllDeclared` and `OverflowIsAllCritical`
prove the five invariants of `trace`, and `EventsStay` that no repeated batch and no record
of the worker replaces an event in the database. An event is `settled` when it is stored
or was given up by the full queue.  The inductive invariant says one thing of all who carry
events: the page's queue covers its run (what was recorded is in it or settled), and so do,
up to their last number, each batch in the worker's queue (`BatchOK`) and each
acknowledgement on its way (`AcksAreCovered`), of whichever run they are. An
acknowledgement of a former run that meets the numbers of the present one is where a weaker
invariant fails; `NoteOK` keeps the worker's own record off the events of the page that are stored.

`Algorithms_proofs`, of `ReferenceClock`: `SampleHoldsOffset` (a HEAD request whose Date header was written
between its sending and its answer brackets the true offset), `EstimateIsRight` (with one
clock behind all uncached samples the interval of the estimate holds the true offset and
there is no second cluster, whatever the round trips, the outliers and the history) and
`ArmedBeforeOpening`, which has two estimates, as the code has: the lead is computed from
the first, the clock is anchored at the second.  The page is armed less than half the
second one's uncertainty after the planned moment; so `preOpenLeadMs` are left, unless the
lead was cut to its maximum or the second estimate is less certain than the first one and
its round trips allowed for.  The assumption `OneServer` is
what the documents call one pool; the example above shows that it is needed.  The
argument: every interval contains the offset, so all of them overlap, the sweep finds them
all, and their intersection is the estimate.

Of `ToggleSchedule`: `PressesLieAhead` and `OpeningIsNotSkipped` (no press of a plan lies in
the past; a plan made at least the switch lead before the opening presses the target no later than
the opening, and within one cycle of it exactly then; one made in the last 40 ms comes one
short cycle after it, no later).  Of `SlotChoice`: `SelectionIsPreferred` (the selected
slot is the first wish that can be had, else the earliest in range) and
`ClickIsTheSelected` (however the page was drawn anew, at most one button is pressed and
it is a bookable one of that time). Of `Configuration`: `WishesAreHonoured` (a validated
configuration makes every wish reachable, so a wished time that is free is selected) and
`MigrationKeepsMeaning` (options of any age, whichever are missing, become valid ones with
the probe mode they stood for; nothing is completed or paid beyond what they allowed).

`FiniteMinima` holds the lemmas these rest on: `Min` and `Max` are defined by CHOOSE, so
that a nonempty finite set of integers has a least and a greatest element must be shown
before anything can be said of them.

Only model-checked: liveness (`RunsSettle`, `CompletionEnds`, `AttemptEnds`,
`QueueDrains`) and `RunEndsItsJob`, which are out of the prover's reach. The properties
of `RunSupervisor` that the code does not have (`stop_lost`, `claim_after_stop`,
`run_orphaned`, `double_attempt`) are refuted by TLC.

## 5. What is not modelled, and why

Saved configurations are two short lists behind a queue of their own: a save replaces the
item with the same fingerprint, the newest are kept, and nothing interleaves with it.
Diagnostics and observation build records that the control flow never reads.  The side
panel only sends the commands that are inputs here.  Of the DOM adapters the decisions are
modelled and the reading is not: selectors, texts, visibility, amounts and labels are the
site's, and what is read from them is an input that may be anything.  Of the clocks the
period of the sampler and the parsing of times are left out, of the telemetry redaction,
pruning and the panel's queries.

Known hazards without a property are in PROJECT.json with the reason: the projection that stays active when its terminal event is
lost, a worker that dies during a navigation, `runEvents` rewritten outside the recorder's
queue, a job saved without its alarm because the worker died in between, two server pools
whose clocks differ.

## 6. Plan

Done: the control plane, the completion, the job scheduler, the attempt in the page with
its preparation, toggling and pages behind the slot, the trace, and the algorithms.

What is left, in this order:

1. The event list of the recorder, and the lost terminal event with it.
2. A clock with two pools: what the lead does guarantee there.
3. An abstract specification of what the supervisor promises one run, and `RunSupervisor`
   as its implementation.
