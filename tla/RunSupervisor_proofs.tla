------------------------ MODULE RunSupervisor_proofs ------------------------
(***************************************************************************)
(* The control plane of an open-run, for any number of starts, stops,      *)
(* crashes, tabs and attempts: a permission to submit is durable and used  *)
(* once, a submitted run is never disowned, its effects tell one story,    *)
(* and what the page was told is what storage says.                        *)
(***************************************************************************)
EXTENDS RunSupervisor, FiniteSetTheorems, SequenceTheorems, TLAPS

-----------------------------------------------------------------------------
(* The inductive invariant *)

Presses == {"outer", "pin"}
Counters == [outer : Nat, pin : Nat]

\* Outcomes after which the user is not told that nothing was reserved.
Owned == {"HANDED_OFF", "COMPLETED"}
OwnedOutcomes == PrepFailures \cup Owned

Args == {"none"} \cup Outcomes \cup Decisions \cup Presses
Ops == {"start", "stop", "finished", "phase", "claim", "removed", "url", "complete",
        "recovery", "reconcile"}
Tasks == [op : Ops, tab : TabIds, from : TabIds, run : Ids, attempt : Ids,
          arg : Args \cup {"EXECUTING", "left", "planned"}, fp : Fingerprints \cup {NoId}]

StartsUnwritten == {"start_navigate", "start_inject", "start_commit"}
Starts == StartsUnwritten \cup {"start_send", "start_fail", "start_discard"}
Recoveries == {"recovery_reenter", "recovery_start", "recovery_commit", "recovery_fail"}
Pcs == Starts \cup Recoveries \cup
       {"idle", "terminate", "stop_live", "stop_send", "reply_finished", "reply_claim",
        "effects", "mark", "reconcile_recover", "reconcile_project"}
Executions == [pc : Pcs, tab : TabIds, from : TabIds, run : Ids, arg : Args,
               stop : BOOLEAN, then : {"idle", "stop_send"}]

Projections == [run : Ids, tab : TabIds, state : ActiveStates \cup {"none"}]
RunEvents == [run : AttemptIds, tab : Tabs, state : ActiveStates \cup {"kept"}]

\* A projection with a state is of an attempt.
projects(value) == value \in Projections /\ (value.state # "none" => value.run \in AttemptIds)

\* A logical run: the attempts it knows are its first and its current one, and its status
\* says which of its other fields mean something.
attemptsOK(run, ids) ==
  /\ run \in LogicalRuns
  /\ run.id = NoId => run = NoRun
  /\ run.id # NoId => /\ run.status # "NONE" /\ run.id \in ids /\ run.cur \in ids
                      /\ run.tab \in Tabs /\ run.attempts[run.cur].known
  /\ \A a \in AttemptIds : IF run.attempts[a].known THEN a \in {run.id, run.cur}
                           ELSE run.attempts[a] = Absent
  /\ \A a \in AttemptIds : run.attempts[a].decision # "none" => run.attempts[a].final # "none"

statusOK(run, ids) ==
  /\ run.resetCount \in {0, 1}
  /\ run.resetCount = 0 \/ run.status = "RECOVERING" => run.cur = run.id
  /\ run.next # NoId <=> run.status = "RECOVERING"
  /\ run.status = "RECOVERING" =>
       /\ run.resetCount = 1 /\ run.next \in ids \ {run.id}
       /\ run.attempts[run.cur].decision # "none"
  /\ run.status = "TERMINAL" => run.attempts[run.cur].final # "none"
  /\ run.status \in {"PREPARING", "EXECUTING"} => run.attempts[run.cur] = Undecided
  /\ run.effectsDone => run.status = "TERMINAL"
  /\ run.dispatch.fp # NoId => run.status \in {"EXECUTING", "TERMINAL"}

runOK(run, ids) == ids \subseteq AttemptIds /\ attemptsOK(run, ids) /\ statusOK(run, ids)

\* What the running task has read or written is still so.
TaskOK ==
  /\ sv \in Executions
  /\ ~up => sv.pc = "idle" /\ queue = <<>>
  /\ sv.pc = "terminate" => /\ lrActive /\ sv.arg \in TerminalStates
                            /\ lr.dispatch.fp # NoId => sv.arg = "HANDED_OFF"
  /\ sv.pc \in {"effects", "mark", "reconcile_project"} =>
       lr.status = "TERMINAL" /\ ~lr.effectsDone
  /\ sv.pc = "reconcile_project" => sv.arg \in TerminalStates
  /\ sv.pc = "reply_claim" =>
       /\ lr.status = "EXECUTING" /\ sv.run = lr.id /\ sv.arg \in Presses
       /\ ~lr.dispatch.stop /\ lr.dispatch.fp # NoId
       /\ sv.arg = "pin" => lr.dispatch.pin
  /\ sv.pc = "reply_finished" => sv.arg \in Decisions
  /\ sv.pc \in Recoveries => lr.status = "RECOVERING"
  /\ sv.pc \in Starts => sv.run \in used /\ sv.tab \in Tabs
  /\ sv.pc \in StartsUnwritten => sv.run \notin {lr.id, lr.cur, lr.next}
  /\ sv.pc = "start_send" => lr = createLogicalRun(sv.run, sv.tab)
  /\ sv.pc = "stop_live" => sv.run \in AttemptIds /\ lr.dispatch.fp = NoId

\* The supervisor's queue and what its messages carry.
messageOK(m) ==
  /\ m.op \in {"claim", "finished"} => m.run \in AttemptIds /\ m.attempt \in AttemptIds
  /\ m.op = "claim" => m.arg \in Presses /\ (m.arg = "outer" => m.fp \in Fingerprints)
  /\ m.op = "finished" => m.arg \in Outcomes
  /\ m.op = "start" => m.tab \in Tabs

messagesOK(q) == q \in Seq(Tasks) /\ \A i \in DOMAIN q : messageOK(q[i])

QueueOK ==
  /\ messagesOK(queue)
  /\ Len(queue) <= MaxQueue + 1
  /\ sv.pc = "reply_finished" => Len(queue) <= MaxQueue

\* The content script of a tab, taken by itself.
scriptOK(p, ids) ==
  /\ p \in PageType
  /\ p.attempt \in ids \cup {NoId} /\ p.run \in ids \cup {NoId}
  /\ p.doc # "live" => p.attempt = NoId /\ p.run = NoId /\ ~p.running
  /\ p.running => p.attempt # NoId /\ p.run # NoId
  /\ p.wait # "none" => p.running
  /\ p.wait = "none" => p.reply = "none"
  /\ p.wait = "claim" => p.phase = "EXECUTING" /\ p.step \in Presses
  /\ p.wait = "finished" => p.phase = "FINISHING"
  /\ p.phase = "FINISHING" => p.outcome \in Outcomes
  /\ p.step = "outer" => p.fp \in Fingerprints

PageOK == page \in [Tabs -> PageType] /\ \A t \in Tabs : scriptOK(page[t], used)

\* The side panel's projection, the recorder and the requested starts and stops.
ProjectionOK ==
  /\ projects(ar) /\ projects(recorder.value) /\ recorder.writing \in BOOLEAN
  /\ events \in Seq(RunEvents) /\ Len(events) <= MaxEvents
  /\ pending \in Ids /\ cancelled \subseteq AttemptIds /\ halted \subseteq AttemptIds
  /\ up \in BOOLEAN /\ early \in BOOLEAN

\* Who waits for the answer to a message: its script, in the state it sent it from.
awaits(p, m) ==
  /\ m.op \in {"claim", "finished"} /\ p.wait = m.op /\ p.reply = "none"
  /\ p.run = m.run /\ p.attempt = m.attempt
  /\ m.op = "claim" => p.step = m.arg

\* At most one answer is under way to a tab.
SendersOK ==
  /\ \A i \in DOMAIN queue, t \in Tabs : queue[i].from = t =>
       /\ awaits(page[t], queue[i])
       /\ sv.from # t
       /\ \A j \in DOMAIN queue : queue[j].from = t => j = i
  /\ \A t \in Tabs : sv.from = t =>
       /\ sv.pc \in {"reply_claim", "reply_finished"}
       /\ page[t].reply = "none" /\ page[t].run = lr.id
       /\ sv.pc = "reply_claim" => page[t].wait = "claim" /\ page[t].step = sv.arg
       /\ sv.pc = "reply_finished" =>
            /\ page[t].wait = "finished"
            /\ lr.attempts[page[t].attempt].decision = sv.arg

\* A logical run lives in one tab, and its current and next attempt in no other run.
PlacesOK ==
  /\ lr.id # NoId => \A t \in Tabs : page[t].run = lr.id => t = lr.tab
  /\ \A t, u \in Tabs : page[t].run = page[u].run /\ page[t].run # NoId => t = u
  /\ \A t \in Tabs : page[t].attempt # NoId /\ page[t].attempt \in {lr.cur, lr.next} =>
       page[t].run = lr.id
  /\ sv.pc \in StartsUnwritten \cup {"start_send"} =>
       \A t \in Tabs : sv.run \notin {page[t].run, page[t].attempt}
  /\ sv.pc = "recovery_start" /\ lr.tab \in Tabs => page[lr.tab].doc # "live"

\* Nothing has happened to a run that is not in storage yet.
fresh(l) == grants[l] = [outer |-> 0, pin |-> 0] /\ announced[l] = {}

HistoryOK ==
  /\ grants \in [AttemptIds -> Counters] /\ clicks \in [AttemptIds -> Counters]
  /\ announced \in [AttemptIds -> SUBSET TerminalStates]
  /\ \A l \in AttemptIds \ used : fresh(l)
  /\ sv.pc \in StartsUnwritten \cup {"start_send"} => fresh(sv.run)

granted(p) == p.wait = "claim" /\ p.reply = "granted"

\* A permission is in the book before it is used, and the form is submitted before the PIN.
ClaimsOK ==
  /\ ClaimIsDurable
  /\ sv.pc = "reply_claim" => grants[sv.run][sv.arg] = 0
  /\ \A t \in Tabs : granted(page[t]) =>
       clicks[page[t].run][page[t].step] = 0 /\ grants[page[t].run][page[t].step] = 1
  /\ \A t \in Tabs : page[t].step \in {"outer_done", "pin", "pin_done"} /\ page[t].run # NoId =>
       clicks[page[t].run].outer > 0

disowns(m) == m.op = "finished" /\ m.arg \notin OwnedOutcomes

\* The form was submitted, or will be without another look at the run.
submits(l) == \/ clicks[l].outer > 0
              \/ \E t \in Tabs : granted(page[t]) /\ page[t].run = l /\ page[t].step = "outer"
Armed == \/ submits(lr.id)
         \/ sv.pc = "reply_claim" /\ sv.from # NoId /\ sv.arg = "outer"

\* From then on nothing is on its way that would disown the run.  A claim somebody waits for
\* is younger than any such outcome.
SubmitsOK ==
  /\ \A i, j \in DOMAIN queue :
       /\ queue[i].op = "claim" /\ queue[i].from # NoId /\ queue[i].run = lr.id
       /\ disowns(queue[j]) /\ queue[j].run = lr.id
       => j < i
  /\ lr.id # NoId /\ Armed =>
       /\ lr.attempts[lr.cur].final \in OwnedOutcomes \cup {"none"}
       /\ \A i \in DOMAIN queue : disowns(queue[i]) => queue[i].run # lr.id
       /\ \A t \in Tabs : page[t].run = lr.id =>
            page[t].step # "none" /\ (page[t].phase = "FINISHING" => page[t].outcome \in OwnedOutcomes)
  /\ \A l \in AttemptIds : submits(l) => announced[l] \subseteq Owned

\* Effects that ran without their marker are repeated before anything else happens to the run.
repeats == \/ ~up
           \/ sv.pc \in {"effects", "mark"}
           \/ sv.pc = "idle" /\ queue # <<>> /\ Head(queue).op = "reconcile"

EffectsOK ==
  /\ \A l \in AttemptIds : \A s1, s2 \in announced[l] : s1 = s2
  /\ lr.id # NoId /\ announced[lr.id] # {} =>
       /\ lr.status = "TERMINAL"
       /\ ~lr.effectsDone => announced[lr.id] = {announcedState(lr)} /\ repeats

IInv ==
  /\ runOK(lr, used) /\ TaskOK /\ QueueOK /\ PageOK /\ ProjectionOK
  /\ SendersOK /\ PlacesOK /\ HistoryOK /\ ClaimsOK /\ AckIsDurable /\ SubmitsOK /\ EffectsOK

-----------------------------------------------------------------------------
(* The transitions of the logical run, field by field *)

\* The fields of a run.
isRun(run, id, tab, status, resets, cur, attempts, next, sent, done, dispatch) ==
  /\ run.id = id /\ run.tab = tab /\ run.status = status /\ run.resetCount = resets
  /\ run.cur = cur /\ run.attempts = attempts /\ run.next = next /\ run.dispatched = sent
  /\ run.effectsDone = done /\ run.dispatch = dispatch

LEMMA CreatedIs ==
  ASSUME NEW a \in AttemptIds, NEW t \in TabIds
  PROVE  /\ createLogicalRun(a, t) \in LogicalRuns
         /\ isRun(createLogicalRun(a, t), a, t, "PREPARING", 0, a,
                  [x \in AttemptIds |-> IF x = a THEN Undecided ELSE Absent],
                  NoId, FALSE, FALSE, NoDispatch)
BY DEF createLogicalRun, NoRun, isRun, TabIds, LogicalRuns, Statuses, AttemptRecord, Decisions,
       Absent, Undecided, CompletionDispatch, NoDispatch

LEMMA StopRequestedIs ==
  ASSUME NEW run \in LogicalRuns
  PROVE  /\ requestCompletionStop(run) \in LogicalRuns
         /\ isRun(requestCompletionStop(run), run.id, run.tab, run.status, run.resetCount,
                  run.cur, run.attempts, run.next, run.dispatched, run.effectsDone,
                  [fp |-> run.dispatch.fp, pin |-> run.dispatch.pin, stop |-> TRUE])
BY DEF requestCompletionStop, LogicalRuns, CompletionDispatch, isRun

LEMMA ClaimedIs ==
  ASSUME NEW run \in LogicalRuns, NEW phase, NEW fp, phase # "pin" => fp \in Fingerprints,
         NEW after, after = applyCompletionDispatchClaim(run, phase, fp)
  PROVE  /\ after \in LogicalRuns
         /\ isRun(after, run.id, run.tab, run.status, run.resetCount, run.cur, run.attempts,
                  run.next, run.dispatched, run.effectsDone, after.dispatch)
         /\ after.dispatch.stop = run.dispatch.stop
         /\ phase = "pin" => after.dispatch.pin /\ after.dispatch.fp = run.dispatch.fp
         /\ phase # "pin" => after.dispatch.fp = fp /\ after.dispatch.pin = run.dispatch.pin
<1>1. CASE phase = "pin"
  BY <1>1 DEF applyCompletionDispatchClaim, LogicalRuns, CompletionDispatch, isRun
<1>2. CASE phase # "pin"
  BY <1>2 DEF applyCompletionDispatchClaim, LogicalRuns, CompletionDispatch, isRun
<1> QED
  BY <1>1, <1>2

LEMMA PhasedIs ==
  ASSUME NEW run \in LogicalRuns, NEW a, NEW phase
  PROVE  \/ applyPhaseChange(run, a, phase) = run
         \/ /\ run.status = "PREPARING"
            /\ applyPhaseChange(run, a, phase) \in LogicalRuns
            /\ isRun(applyPhaseChange(run, a, phase), run.id, run.tab, "EXECUTING",
                     run.resetCount, run.cur, run.attempts, run.next, run.dispatched,
                     run.effectsDone, run.dispatch)
BY DEF applyPhaseChange, phaseAccepted, LogicalRuns, Statuses, isRun

LEMMA BegunIs ==
  ASSUME NEW run \in LogicalRuns, run.next \in AttemptIds
  PROVE  /\ beginNextAttempt(run) \in LogicalRuns
         /\ isRun(beginNextAttempt(run), run.id, run.tab, "PREPARING", run.resetCount, run.next,
                  [run.attempts EXCEPT ![run.next] = Undecided], NoId, FALSE,
                  run.effectsDone, run.dispatch)
<1> DEFINE attempts == [run.attempts EXCEPT ![run.next] = Undecided]
<1>1. attempts \in [AttemptIds -> AttemptRecord]
  BY DEF LogicalRuns, AttemptRecord, Undecided
<1>2. beginNextAttempt(run) =
        [run EXCEPT !.status = "PREPARING", !.cur = run.next, !.attempts = attempts,
                    !.next = NoId, !.dispatched = FALSE]
  BY DEF beginNextAttempt, LogicalRuns
<1> HIDE DEF attempts
<1>3. /\ beginNextAttempt(run) \in LogicalRuns
      /\ isRun(beginNextAttempt(run), run.id, run.tab, "PREPARING", run.resetCount, run.next,
               attempts, NoId, FALSE, run.effectsDone, run.dispatch)
  BY <1>1, <1>2 DEF LogicalRuns, Statuses, isRun
<1> QED
  BY <1>3 DEF attempts

LEMMA DispatchedIs ==
  ASSUME NEW run \in LogicalRuns
  PROVE  /\ markRecoveryDispatched(run) \in LogicalRuns
         /\ isRun(markRecoveryDispatched(run), run.id, run.tab, run.status, run.resetCount,
                  run.cur, run.attempts, run.next, TRUE, run.effectsDone, run.dispatch)
BY DEF markRecoveryDispatched, LogicalRuns, isRun

LEMMA LapsedIs ==
  ASSUME NEW run \in LogicalRuns
  PROVE  /\ applyRecoveryLapse(run) \in LogicalRuns
         /\ isRun(applyRecoveryLapse(run), run.id, run.tab, "TERMINAL", run.resetCount, run.cur,
                  run.attempts, NoId, FALSE, run.effectsDone, run.dispatch)
BY DEF applyRecoveryLapse, LogicalRuns, Statuses, isRun

LEMMA MarkedIs ==
  ASSUME NEW run \in LogicalRuns
  PROVE  /\ markTerminalEffectsCompleted(run) \in LogicalRuns
         /\ isRun(markTerminalEffectsCompleted(run), run.id, run.tab, run.status,
                  run.resetCount, run.cur, run.attempts, run.next, run.dispatched, TRUE,
                  run.dispatch)
BY DEF markTerminalEffectsCompleted, LogicalRuns, isRun

\* The record of an attempt when the background ends its run.
stamped(record, state) ==
  IF record.decision = "none"
  THEN [known |-> record.known, final |-> state, decision |-> "none"] ELSE record

LEMMA TerminatedIs ==
  ASSUME NEW run \in LogicalRuns, run.cur \in AttemptIds, NEW state \in TerminalStates
  PROVE  LET attempts == [run.attempts EXCEPT
                            ![run.cur] = stamped(run.attempts[run.cur], state)]
         IN /\ applyBackgroundTerminal(run, state) \in LogicalRuns
            /\ isRun(applyBackgroundTerminal(run, state), run.id, run.tab, "TERMINAL",
                     run.resetCount, run.cur, attempts, NoId, FALSE, run.effectsDone,
                     run.dispatch)
            /\ attempts \in [AttemptIds -> AttemptRecord]
<1> DEFINE old == run.attempts[run.cur]
           new == IF old.decision = "none" THEN [old EXCEPT !.final = state] ELSE old
           attempts == [run.attempts EXCEPT ![run.cur] = new]
           ended == applyBackgroundTerminal(run, state)
<1>1. old \in AttemptRecord
  BY DEF LogicalRuns
<1>2. new \in AttemptRecord
  BY <1>1 DEF AttemptRecord, Outcomes
<1>3. new = stamped(old, state)
  BY <1>1 DEF AttemptRecord, stamped
<1>4. attempts \in [AttemptIds -> AttemptRecord]
  BY <1>2 DEF LogicalRuns
<1>5. ended = [run EXCEPT !.status = "TERMINAL", !.next = NoId, !.dispatched = FALSE,
                          !.attempts = attempts]
  BY DEF applyBackgroundTerminal, LogicalRuns
<1> HIDE DEF attempts, ended
<1>6. /\ ended \in LogicalRuns
      /\ isRun(ended, run.id, run.tab, "TERMINAL", run.resetCount, run.cur, attempts, NoId, FALSE,
               run.effectsDone, run.dispatch)
  BY <1>4, <1>5 DEF LogicalRuns, Statuses, isRun
<1> QED
  BY <1>3, <1>4, <1>6 DEF attempts, ended

\* The record of an attempt whose outcome was decided.
decided(record, outcome, decision) ==
  [known |-> record.known, final |-> outcome, decision |-> decision]

LEMMA DecidedIs ==
  ASSUME NEW run \in LogicalRuns, NEW a \in AttemptIds, NEW outcome \in Outcomes, NEW soon,
         NEW next, NEW decision, decision = outcomeDecision(run, outcome, soon),
         NEW attempts,
         attempts = [run.attempts EXCEPT ![a] = decided(run.attempts[a], outcome, decision)],
         NEW after, after = applyAttemptOutcome(run, a, outcome, soon, next)
  PROVE  /\ decision \in Decisions /\ attempts \in [AttemptIds -> AttemptRecord]
         /\ decision # "RESET_PAGE" \/ next \in AttemptIds => after \in LogicalRuns
         /\ IF decision = "RESET_PAGE"
            THEN isRun(after, run.id, run.tab, "RECOVERING", run.resetCount + 1, run.cur,
                       attempts, next, FALSE, run.effectsDone, run.dispatch)
            ELSE isRun(after, run.id, run.tab, "TERMINAL", run.resetCount, run.cur, attempts,
                       run.next, run.dispatched, run.effectsDone, run.dispatch)
<1> DEFINE new == finishedRecord(run.attempts[a], outcome, decision)
<1>1. decision \in Decisions
  BY DEF outcomeDecision, decide, Decisions
<1>2. run.attempts[a] \in AttemptRecord
  BY DEF LogicalRuns
<1>3. new = decided(run.attempts[a], outcome, decision) /\ new \in AttemptRecord
  <2>1. new = [run.attempts[a] EXCEPT !.final = outcome, !.decision = decision]
    BY DEF finishedRecord
  <2> HIDE DEF new
  <2>2. new = decided(run.attempts[a], outcome, decision)
    BY <1>2, <2>1 DEF AttemptRecord, decided
  <2>3. run.attempts[a].known \in BOOLEAN
    BY <1>2 DEF AttemptRecord
  <2>4. new \in AttemptRecord
    BY <1>1, <2>2, <2>3 DEF AttemptRecord, decided
  <2> QED
    BY <2>2, <2>4
<1>4. attempts = [run.attempts EXCEPT ![a] = new]
  BY <1>3
<1>5. attempts \in [AttemptIds -> AttemptRecord]
  BY <1>3, <1>4 DEF LogicalRuns
<1>6. CASE decision = "RESET_PAGE"
  <2>1. after = [run EXCEPT !.attempts = attempts, !.status = "RECOVERING",
                            !.resetCount = run.resetCount + 1, !.next = next,
                            !.dispatched = FALSE]
    BY <1>4, <1>6 DEF applyAttemptOutcome, LogicalRuns
  <2>2. run.resetCount + 1 \in Nat
    BY DEF LogicalRuns
  <2> QED
    BY <1>1, <1>5, <1>6, <2>1, <2>2 DEF LogicalRuns, Statuses, isRun
<1>7. CASE decision # "RESET_PAGE"
  <2>1. after = [run EXCEPT !.attempts = attempts, !.status = "TERMINAL"]
    BY <1>4, <1>7 DEF applyAttemptOutcome, LogicalRuns
  <2> QED
    BY <1>1, <1>5, <1>7, <2>1 DEF LogicalRuns, Statuses, isRun
<1> QED
  BY <1>6, <1>7

-----------------------------------------------------------------------------
(* Every transition leaves a well-formed run *)

LEMMA CreatedOK ==
  ASSUME NEW ids \in SUBSET AttemptIds, NEW a \in ids, NEW t \in Tabs
  PROVE  runOK(createLogicalRun(a, t), ids)
<1> DEFINE run == createLogicalRun(a, t)
<1>1. /\ run \in LogicalRuns
      /\ isRun(run, a, t, "PREPARING", 0, a,
               [x \in AttemptIds |-> IF x = a THEN Undecided ELSE Absent],
               NoId, FALSE, FALSE, NoDispatch)
  BY CreatedIs DEF TabIds
<1> HIDE DEF run
<1>2. a # NoId
  BY LogicalRunAssumption
<1>3. attemptsOK(run, ids)
  BY <1>1, <1>2 DEF attemptsOK, isRun, Undecided, Absent
<1>4. statusOK(run, ids)
  BY <1>1, <1>2 DEF statusOK, isRun, Undecided, Absent, NoDispatch
<1> QED
  BY <1>3, <1>4 DEF runOK, run

LEMMA NoRunOK ==
  ASSUME NEW ids \in SUBSET AttemptIds
  PROVE  runOK(NoRun, ids)
<1>1. NoRun \in LogicalRuns
  BY DEF NoRun, LogicalRuns, Statuses, AttemptRecord, Absent, CompletionDispatch, NoDispatch
<1>2. attemptsOK(NoRun, ids)
  BY <1>1 DEF attemptsOK, NoRun, Absent
<1>3. statusOK(NoRun, ids)
  BY DEF statusOK, NoRun, Absent, NoDispatch
<1> QED
  BY <1>2, <1>3 DEF runOK

LEMMA MoreIdsOK ==
  ASSUME NEW ids, NEW more \in SUBSET AttemptIds, ids \subseteq more, NEW run, runOK(run, ids)
  PROVE  runOK(run, more)
<1>1. attemptsOK(run, more)
  BY DEF runOK, attemptsOK
<1>2. statusOK(run, more)
  BY DEF runOK, statusOK
<1> QED
  BY <1>1, <1>2 DEF runOK

LEMMA StopRequestedOK ==
  ASSUME NEW ids, NEW run, runOK(run, ids), run.id # NoId
  PROVE  runOK(requestCompletionStop(run), ids)
<1> DEFINE after == requestCompletionStop(run)
<1>1. /\ after \in LogicalRuns
      /\ isRun(after, run.id, run.tab, run.status, run.resetCount,
               run.cur, run.attempts, run.next, run.dispatched, run.effectsDone,
               [fp |-> run.dispatch.fp, pin |-> run.dispatch.pin, stop |-> TRUE])
  BY StopRequestedIs DEF runOK, attemptsOK
<1> HIDE DEF after
<1>2. attemptsOK(after, ids)
  BY <1>1 DEF runOK, attemptsOK, isRun
<1>3. statusOK(after, ids)
  BY <1>1 DEF runOK, statusOK, isRun
<1> QED
  BY <1>2, <1>3 DEF runOK, after

LEMMA ClaimedOK ==
  ASSUME NEW ids, NEW run, runOK(run, ids), run.status = "EXECUTING",
         NEW phase, NEW fp, phase # "pin" => fp \in Fingerprints
  PROVE  runOK(applyCompletionDispatchClaim(run, phase, fp), ids)
<1>0. run \in LogicalRuns
  BY DEF runOK, attemptsOK
<1>1. PICK after : after = applyCompletionDispatchClaim(run, phase, fp)
  OBVIOUS
<1>2. /\ after \in LogicalRuns
      /\ isRun(after, run.id, run.tab, run.status, run.resetCount, run.cur, run.attempts,
               run.next, run.dispatched, run.effectsDone, after.dispatch)
  BY <1>0, <1>1, ClaimedIs
<1>3. run.id # NoId
  BY DEF runOK, attemptsOK, NoRun
<1>4. attemptsOK(after, ids)
  BY <1>2, <1>3 DEF runOK, attemptsOK, isRun
<1>5. statusOK(after, ids)
  BY <1>2 DEF runOK, statusOK, isRun
<1> QED
  BY <1>1, <1>4, <1>5 DEF runOK

LEMMA PhasedOK ==
  ASSUME NEW ids, NEW run, runOK(run, ids), NEW a, NEW phase
  PROVE  runOK(applyPhaseChange(run, a, phase), ids)
<1>0. run \in LogicalRuns
  BY DEF runOK, attemptsOK
<1>1. PICK after : after = applyPhaseChange(run, a, phase)
  OBVIOUS
<1>2. \/ after = run
      \/ /\ run.status = "PREPARING" /\ after \in LogicalRuns
         /\ isRun(after, run.id, run.tab, "EXECUTING", run.resetCount, run.cur, run.attempts,
                  run.next, run.dispatched, run.effectsDone, run.dispatch)
  BY <1>0, <1>1, PhasedIs
<1>3. CASE after # run
  <2>1. run.id # NoId
    BY <1>2, <1>3 DEF runOK, attemptsOK, NoRun
  <2>2. attemptsOK(after, ids)
    BY <1>2, <1>3, <2>1 DEF runOK, attemptsOK, isRun
  <2>3. statusOK(after, ids)
    BY <1>2, <1>3 DEF runOK, statusOK, isRun
  <2> QED
    BY <1>1, <2>2, <2>3 DEF runOK
<1> QED
  BY <1>1, <1>3

LEMMA BegunOK ==
  ASSUME NEW ids, NEW run, runOK(run, ids), run.status = "RECOVERING"
  PROVE  runOK(beginNextAttempt(run), ids)
<1>0. run \in LogicalRuns /\ run.next \in AttemptIds /\ run.next \in ids /\ run.id # NoId
  BY DEF runOK, attemptsOK, statusOK, NoRun
<1>1. PICK after : after = beginNextAttempt(run)
  OBVIOUS
<1>2. /\ after \in LogicalRuns
      /\ isRun(after, run.id, run.tab, "PREPARING", run.resetCount, run.next,
               [run.attempts EXCEPT ![run.next] = Undecided], NoId, FALSE,
               run.effectsDone, run.dispatch)
  BY <1>0, <1>1, BegunIs
<1>3. \A a \in AttemptIds :
        after.attempts[a] = IF a = run.next THEN Undecided ELSE run.attempts[a]
  BY <1>0, <1>2 DEF isRun, LogicalRuns
<1>4. attemptsOK(after, ids)
  <2>1. run.cur = run.id
    BY DEF runOK, statusOK
  <2> QED
    BY <1>0, <1>2, <1>3, <2>1 DEF runOK, attemptsOK, isRun, Undecided
<1>5. statusOK(after, ids)
  BY <1>0, <1>2, <1>3 DEF runOK, statusOK, isRun, Undecided
<1> QED
  BY <1>1, <1>4, <1>5 DEF runOK

LEMMA DispatchedOK ==
  ASSUME NEW ids, NEW run, runOK(run, ids), run.status = "RECOVERING"
  PROVE  runOK(markRecoveryDispatched(run), ids)
<1>0. run \in LogicalRuns /\ run.id # NoId
  BY DEF runOK, attemptsOK, NoRun
<1>1. PICK after : after = markRecoveryDispatched(run)
  OBVIOUS
<1>2. /\ after \in LogicalRuns
      /\ isRun(after, run.id, run.tab, run.status, run.resetCount, run.cur, run.attempts,
               run.next, TRUE, run.effectsDone, run.dispatch)
  BY <1>0, <1>1, DispatchedIs
<1>3. attemptsOK(after, ids)
  BY <1>0, <1>2 DEF runOK, attemptsOK, isRun
<1>4. statusOK(after, ids)
  BY <1>2 DEF runOK, statusOK, isRun
<1> QED
  BY <1>1, <1>3, <1>4 DEF runOK

LEMMA LapsedOK ==
  ASSUME NEW ids, NEW run, runOK(run, ids), run.status = "RECOVERING"
  PROVE  runOK(applyRecoveryLapse(run), ids)
<1>0. run \in LogicalRuns /\ run.id # NoId /\ run.cur \in AttemptIds
  BY DEF runOK, attemptsOK, NoRun
<1>1. PICK after : after = applyRecoveryLapse(run)
  OBVIOUS
<1>2. /\ after \in LogicalRuns
      /\ isRun(after, run.id, run.tab, "TERMINAL", run.resetCount, run.cur, run.attempts, NoId,
               FALSE, run.effectsDone, run.dispatch)
  BY <1>0, <1>1, LapsedIs
<1>3. attemptsOK(after, ids)
  BY <1>0, <1>2 DEF runOK, attemptsOK, isRun
<1>4. statusOK(after, ids)
  BY <1>0, <1>2 DEF runOK, attemptsOK, statusOK, isRun
<1> QED
  BY <1>1, <1>3, <1>4 DEF runOK

LEMMA MarkedOK ==
  ASSUME NEW ids, NEW run, runOK(run, ids), run.status = "TERMINAL"
  PROVE  runOK(markTerminalEffectsCompleted(run), ids)
<1>0. run \in LogicalRuns /\ run.id # NoId
  BY DEF runOK, attemptsOK, NoRun
<1>1. PICK after : after = markTerminalEffectsCompleted(run)
  OBVIOUS
<1>2. /\ after \in LogicalRuns
      /\ isRun(after, run.id, run.tab, run.status, run.resetCount, run.cur, run.attempts,
               run.next, run.dispatched, TRUE, run.dispatch)
  BY <1>0, <1>1, MarkedIs
<1>3. attemptsOK(after, ids)
  BY <1>0, <1>2 DEF runOK, attemptsOK, isRun
<1>4. statusOK(after, ids)
  BY <1>2 DEF runOK, statusOK, isRun
<1> QED
  BY <1>1, <1>3, <1>4 DEF runOK

LEMMA TerminatedOK ==
  ASSUME NEW ids, NEW run, runOK(run, ids), run.id # NoId, NEW state \in TerminalStates
  PROVE  runOK(applyBackgroundTerminal(run, state), ids)
<1>0. run \in LogicalRuns /\ run.cur \in AttemptIds
  BY DEF runOK, attemptsOK
<1>1. PICK after : after = applyBackgroundTerminal(run, state)
  OBVIOUS
<1>2. PICK record : record = stamped(run.attempts[run.cur], state)
  OBVIOUS
<1>3. /\ after \in LogicalRuns
      /\ isRun(after, run.id, run.tab, "TERMINAL", run.resetCount, run.cur,
               [run.attempts EXCEPT ![run.cur] = record], NoId, FALSE, run.effectsDone,
               run.dispatch)
  BY <1>0, <1>1, <1>2, TerminatedIs
<1>4. \A a \in AttemptIds :
        after.attempts[a] = IF a = run.cur THEN record ELSE run.attempts[a]
  BY <1>0, <1>3 DEF isRun, LogicalRuns
<1>5. /\ record.known = run.attempts[run.cur].known /\ record.final # "none"
      /\ record.decision = run.attempts[run.cur].decision
  BY <1>0, <1>2 DEF stamped, runOK, attemptsOK, TerminalStates
<1>6. attemptsOK(after, ids)
  BY <1>0, <1>3, <1>4, <1>5 DEF runOK, attemptsOK, isRun
<1>7. statusOK(after, ids)
  BY <1>0, <1>3, <1>4, <1>5 DEF runOK, attemptsOK, statusOK, isRun
<1> QED
  BY <1>1, <1>6, <1>7 DEF runOK

LEMMA DecidedOK ==
  ASSUME NEW ids, NEW run, runOK(run, ids), run.id # NoId, run.attempts[run.cur].decision = "none",
         NEW outcome \in Outcomes, NEW soon, NEW next, NEW more \in SUBSET AttemptIds,
         ids \subseteq more,
         applyAttemptOutcome(run, run.cur, outcome, soon, next).status = "RECOVERING" =>
           next \in more \ ids
  PROVE  runOK(applyAttemptOutcome(run, run.cur, outcome, soon, next), more)
<1> DEFINE result == applyAttemptOutcome(run, run.cur, outcome, soon, next)
<1>a. PICK after : after = result
  OBVIOUS
<1>0. run \in LogicalRuns /\ run.cur \in AttemptIds /\ run.status # "RECOVERING" /\ run.id \in ids
  BY DEF runOK, attemptsOK, statusOK
<1>1. PICK decision : decision = outcomeDecision(run, outcome, soon)
  OBVIOUS
<1>2. PICK record : record = decided(run.attempts[run.cur], outcome, decision)
  OBVIOUS
<1>3. PICK attempts : attempts = [run.attempts EXCEPT ![run.cur] = record]
  OBVIOUS
<1>4. /\ decision \in Decisions
      /\ decision # "RESET_PAGE" \/ next \in AttemptIds => after \in LogicalRuns
      /\ IF decision = "RESET_PAGE"
         THEN isRun(after, run.id, run.tab, "RECOVERING", run.resetCount + 1, run.cur,
                    attempts, next, FALSE, run.effectsDone, run.dispatch)
         ELSE isRun(after, run.id, run.tab, "TERMINAL", run.resetCount, run.cur, attempts,
                    run.next, run.dispatched, run.effectsDone, run.dispatch)
  <2>1. attempts = [run.attempts EXCEPT
                      ![run.cur] = decided(run.attempts[run.cur], outcome, decision)]
    BY <1>2, <1>3
  <2> QED
    BY ONLY <1>0, <1>1, <2>1, DecidedIs, outcome \in Outcomes,
            <1>a
<1>5. decision = "RESET_PAGE" => next \in more \ ids
  BY <1>4, <1>a DEF isRun
<1>6. after \in LogicalRuns
  BY <1>4, <1>5
<1>7. \A a \in AttemptIds : attempts[a] = IF a = run.cur THEN record ELSE run.attempts[a]
  BY <1>0, <1>3 DEF LogicalRuns
<1>8. /\ record.known = run.attempts[run.cur].known /\ record.final = outcome
      /\ record.decision = decision
  BY <1>2 DEF decided
<1>9. outcome # "none" /\ decision # "none"
  BY <1>4 DEF Outcomes, PrepFailures, TerminalStates, Decisions
<1>10. attemptsOK(after, more)
  BY <1>0, <1>4, <1>6, <1>7, <1>8, <1>9 DEF runOK, attemptsOK, isRun
<1>11. decision = "RESET_PAGE" => run.resetCount = 0 /\ run.status = "PREPARING"
  BY <1>1 DEF outcomeDecision, decide
<1>12. statusOK(after, more)
  <2>1. CASE decision = "RESET_PAGE"
    <3>1. next # NoId
      BY <1>5, <2>1, LogicalRunAssumption
    <3> QED
      BY <1>0, <1>4, <1>5, <1>7, <1>8, <1>9, <1>11, <2>1, <3>1
      DEF runOK, statusOK, isRun
  <2>2. CASE decision # "RESET_PAGE"
    BY <1>0, <1>4, <1>7, <1>8, <1>9, <2>2 DEF runOK, statusOK, isRun
  <2> QED
    BY <2>1, <2>2
<1>13. runOK(after, more)
  BY <1>10, <1>12 DEF runOK
<1> QED
  BY <1>13, <1>a

LEMMA MarkerOK ==
  ASSUME NEW ids, NEW run, runOK(run, ids), run.id # NoId, NEW stop \in BOOLEAN,
         NEW after, after = [run EXCEPT !.dispatch.stop = stop]
  PROVE  /\ runOK(after, ids)
         /\ isRun(after, run.id, run.tab, run.status, run.resetCount, run.cur, run.attempts,
                  run.next, run.dispatched, run.effectsDone, after.dispatch)
         /\ after.dispatch.fp = run.dispatch.fp /\ after.dispatch.pin = run.dispatch.pin
         /\ after.dispatch.stop = stop
<1>0. run \in LogicalRuns
  BY DEF runOK, attemptsOK
<1>1. /\ after \in LogicalRuns
      /\ isRun(after, run.id, run.tab, run.status, run.resetCount, run.cur, run.attempts,
               run.next, run.dispatched, run.effectsDone, after.dispatch)
      /\ after.dispatch.fp = run.dispatch.fp /\ after.dispatch.pin = run.dispatch.pin
      /\ after.dispatch.stop = stop
  BY <1>0 DEF LogicalRuns, CompletionDispatch, isRun
<1>2. attemptsOK(after, ids)
  BY <1>0, <1>1 DEF runOK, attemptsOK, isRun
<1>3. statusOK(after, ids)
  BY <1>1 DEF runOK, statusOK, isRun
<1> QED
  BY <1>1, <1>2, <1>3 DEF runOK

-----------------------------------------------------------------------------
(* The queue *)

LEMMA NewId ==
  ASSUME used \subseteq AttemptIds, used # AttemptIds
  PROVE  newId \in AttemptIds \ used
BY DEF newId

\* The first of a queue, and the rest.
LEMMA TailIs ==
  ASSUME NEW S, NEW q \in Seq(S), q # <<>>
  PROVE  /\ 1 \in DOMAIN q /\ Head(q) = q[1] /\ Head(q) \in S
         /\ Tail(q) \in Seq(S) /\ Len(Tail(q)) = Len(q) - 1
         /\ \A i \in DOMAIN Tail(q) : i + 1 \in DOMAIN q /\ Tail(q)[i] = q[i + 1]
<1>1. Len(q) \in Nat /\ Len(q) # 0 /\ DOMAIN q = 1..Len(q)
  OBVIOUS
<1>2. 1 \in DOMAIN q
  BY <1>1
<1>3. Head(q) = q[1] /\ q[1] \in S
  BY <1>2
<1>4. Tail(q) \in Seq(S) /\ Len(Tail(q)) = Len(q) - 1
  OBVIOUS
<1>5. DOMAIN Tail(q) = 1..(Len(q) - 1)
  BY <1>4
<1>6. \A i \in DOMAIN Tail(q) : i + 1 \in DOMAIN q /\ Tail(q)[i] = q[i + 1]
  BY <1>1, <1>5
<1> QED
  BY <1>2, <1>3, <1>4, <1>6

LEMMA AppendIs ==
  ASSUME NEW S, NEW q \in Seq(S), NEW m \in S
  PROVE  /\ Append(q, m) \in Seq(S) /\ Len(Append(q, m)) = Len(q) + 1
         /\ DOMAIN Append(q, m) = DOMAIN q \cup {Len(q) + 1}
         /\ \A i \in DOMAIN q : i <= Len(q) /\ Append(q, m)[i] = q[i]
         /\ Append(q, m)[Len(q) + 1] = m
         /\ Append(q, m) # <<>>
<1>1. Append(q, m) \in Seq(S) /\ Len(Append(q, m)) = Len(q) + 1 /\ Len(q) \in Nat
  OBVIOUS
<1>2. DOMAIN Append(q, m) = 1..(Len(q) + 1) /\ DOMAIN q = 1..Len(q)
  BY <1>1
<1>3. DOMAIN Append(q, m) = DOMAIN q \cup {Len(q) + 1}
  BY <1>1, <1>2
<1>4. \A i \in DOMAIN q : i <= Len(q) /\ Append(q, m)[i] = q[i]
  BY <1>1, <1>2
<1>5. Append(q, m)[Len(q) + 1] = m /\ Append(q, m) # <<>>
  BY <1>1, <1>2
<1> QED
  BY <1>1, <1>3, <1>4, <1>5

\* A document that is gone leaves its messages in the queue, without a sender.
orphaned(m, n, t) ==
  /\ n.op = m.op /\ n.tab = m.tab /\ n.run = m.run /\ n.attempt = m.attempt
  /\ n.arg = m.arg /\ n.fp = m.fp
  /\ n.from = IF m.from = t THEN NoId ELSE m.from

LEMMA OrphanIs ==
  ASSUME NEW m \in Tasks, NEW t
  PROVE  orphan(m, t) \in Tasks /\ orphaned(m, orphan(m, t), t)
BY DEF orphan, orphaned, Tasks, TabIds

LEMMA OrphansIs ==
  ASSUME NEW t, queue \in Seq(Tasks)
  PROVE  /\ orphans(t) \in Seq(Tasks) /\ Len(orphans(t)) = Len(queue)
         /\ DOMAIN orphans(t) = DOMAIN queue
         /\ \A i \in DOMAIN queue : orphaned(queue[i], orphans(t)[i], t)
<1>1. DOMAIN queue = 1..Len(queue) /\ Len(queue) \in Nat
  OBVIOUS
<1>2. \A i \in DOMAIN queue : queue[i] \in Tasks
  OBVIOUS
<1>3. \A i \in DOMAIN queue : orphan(queue[i], t) \in Tasks /\ orphaned(queue[i], orphan(queue[i], t), t)
  BY <1>2, OrphanIs
<1>4. orphans(t) = [i \in 1..Len(queue) |-> orphan(queue[i], t)]
  BY <1>1 DEF orphans
<1>5. orphans(t) \in Seq(Tasks) /\ Len(orphans(t)) = Len(queue)
  BY <1>1, <1>3, <1>4
<1>6. DOMAIN orphans(t) = DOMAIN queue
  BY <1>1, <1>4
<1> QED
  BY <1>1, <1>3, <1>4, <1>5, <1>6

LEMMA TaskIs ==
  ASSUME NEW op \in Ops, NEW t \in TabIds
  PROVE  /\ task(op, t) \in Tasks
         /\ task(op, t).op = op /\ task(op, t).from = NoId /\ task(op, t).run = NoId
BY DEF task, Tasks, TabIds, Ids, Args

\* What the message at the head of the queue carries.
LEMMA HeadIs ==
  ASSUME QueueOK, queue # <<>>
  PROVE  /\ 1 \in DOMAIN queue /\ Head(queue) = queue[1] /\ Head(queue) \in Tasks
         /\ messageOK(Head(queue))
<1>1. 1 \in DOMAIN queue /\ Head(queue) = queue[1] /\ Head(queue) \in Tasks
  BY TailIs DEF QueueOK, messagesOK
<1> QED
  BY <1>1 DEF QueueOK, messagesOK

-----------------------------------------------------------------------------
(* The logical run stays well-formed *)

\* What an acknowledged outcome, an acknowledged claim and a granted claim say of the run.
LEMMA AckIs ==
  ASSUME runOK(lr, used), NEW a \in AttemptIds, NEW outcome,
         outcomeKind(lr, a, outcome) = "ack"
  PROVE  /\ a = lr.cur /\ lr.attempts[lr.cur].decision = "none" /\ lr.status # "RECOVERING"
         /\ lr.attempts[lr.cur].known
BY DEF outcomeKind, runOK, statusOK

LEMMA ClaimAckIs ==
  ASSUME NEW a, NEW phase, NEW fp, claimKind(lr, a, phase, fp) = "ack"
  PROVE  /\ a = lr.cur /\ lr.status = "EXECUTING" /\ ~lr.dispatch.stop
         /\ phase = "pin" => lr.dispatch.fp # NoId /\ ~lr.dispatch.pin
         /\ phase # "pin" => lr.dispatch.fp = NoId
BY DEF claimKind

LEMMA NotNone ==
  ASSUME runOK(lr, used), lr.id = NoId
  PROVE  /\ lr.status = "NONE" /\ lr.dispatch.fp = NoId /\ lr.cur = NoId /\ lr.next = NoId
         /\ ~lr.effectsDone
BY DEF runOK, attemptsOK, NoRun, NoDispatch

\* executeRecovery, by its four ways out.
LEMMA RecoveryIs ==
  ASSUME runOK(lr, used), executeRecovery
  PROVE  \/ lr.status # "RECOVERING" /\ sv' = Idle /\ lr' = lr
         \/ /\ lr.status = "RECOVERING" /\ lr' = applyRecoveryLapse(lr)
            /\ sv' = [Idle EXCEPT !.pc = "effects"]
         \/ /\ lr.status = "RECOVERING" /\ lr' = lr
            /\ sv' = [Idle EXCEPT !.pc = "recovery_commit"]
         \/ /\ lr.status = "RECOVERING" /\ lr' = markRecoveryDispatched(lr)
            /\ sv' = [Idle EXCEPT !.pc = "recovery_reenter"]
BY DEF executeRecovery, Done

LEMMA RecoveryOK ==
  ASSUME runOK(lr, used), executeRecovery
  PROVE  runOK(lr', used)
BY RecoveryIs, LapsedOK, DispatchedOK

\* Only the supervisor writes the logical run.
LEMMA OthersKeepRun ==
  ASSUME Next
  PROVE  SupervisorStep \/ UNCHANGED <<lr, used>>
<1>1. CASE RecorderStep
  BY <1>1 DEF RecorderStep, RecordEvent, RecordKept, RecorderWrite, storage
<1>2. ASSUME NEW t \in Tabs, PageStep(t) PROVE UNCHANGED <<lr, used>>
  BY <1>2 DEF PageStep, PageExecute, PageClaimPin, PageClaimed, PageEmit, PageDeliver,
              PageDelivered, PageClaimOuter, PageFinish, storage
<1>3. CASE UserStep
  BY <1>3 DEF UserStep, RequestStop, ClearRunEvents, RequestStart, CloseTab, Reload, ChangeUrl,
              storage
<1>4. CASE Tick \/ Sleep \/ Crash \/ Boot
  BY <1>4 DEF Tick, Sleep, Crash, Boot, storage
<1> QED
  BY <1>1, <1>2, <1>3, <1>4 DEF Next

LEMMA RunStep ==
  ASSUME IInv, [Next]_vars
  PROVE  runOK(lr', used')
<1>0. runOK(lr, used) /\ TaskOK /\ QueueOK /\ PageOK
  BY DEF IInv
<1>1. lr \in LogicalRuns /\ used \in SUBSET AttemptIds
  BY <1>0 DEF runOK, attemptsOK
<1>2. sv \in Executions
  BY <1>0 DEF TaskOK
<1>3. CASE UNCHANGED <<lr, used>>
  BY <1>0, <1>3
<1>4. CASE StartTask
  <2>1. CASE used' = used \cup {newId} /\ used # AttemptIds
    <3>1. used' \in SUBSET AttemptIds
      BY <1>1, <2>1, NewId
    <3>2. lr' = lr
      BY <1>4 DEF StartTask
    <3> QED
      BY <1>0, <2>1, <3>1, <3>2, MoreIdsOK
  <2>2. CASE UNCHANGED <<lr, used>>
    BY <1>3, <2>2
  <2> QED
    BY <1>4, <2>1, <2>2 DEF StartTask
<1>5. CASE StartCommit
  <2>1. sv.run \in used /\ sv.tab \in Tabs
    BY <1>0, <1>2, <1>5 DEF StartCommit, At, TaskOK, Starts, StartsUnwritten, Executions
  <2>2. lr' = createLogicalRun(sv.run, sv.tab) /\ used' = used
    BY <1>5 DEF StartCommit
  <2> QED
    BY <1>1, <2>1, <2>2, CreatedOK
<1>6. CASE StartDiscard
  <2>1. (lr' = NoRun \/ lr' = lr) /\ used' = used
    BY <1>6 DEF StartDiscard
  <2> QED
    BY <1>0, <1>1, <2>1, NoRunOK
<1>7. CASE StopClaimed \/ StopRunning
  <2>1. used' = used /\ (lr' = lr \/ (lr' = requestCompletionStop(lr) /\ lr.id # NoId))
    BY <1>0, <1>7, NotNone DEF StopClaimed, StopRunning, isAcknowledgedCompletionClaim
  <2> QED
    BY <1>0, <2>1, StopRequestedOK
<1>8. CASE FinishedTask
  <2> DEFINE m == Head(queue)
             next == applyAttemptOutcome(lr, m.attempt, m.arg, early, newId)
  <2>1. CASE lr' = lr /\ used' = used
    BY <1>0, <2>1
  <2>2. CASE /\ lr.id # NoId /\ lr.id = m.run /\ outcomeKind(lr, m.attempt, m.arg) = "ack"
             /\ next.status = "RECOVERING" => used # AttemptIds
             /\ lr' = next
             /\ used' = IF next.status = "RECOVERING" THEN used \cup {newId} ELSE used
    <3>1. m.attempt \in AttemptIds /\ m.arg \in Outcomes
      BY <1>0, <1>8, HeadIs DEF FinishedTask, Take, messageOK, Tasks, Ids
    <3>2. m.attempt = lr.cur /\ lr.attempts[lr.cur].decision = "none"
      BY <1>0, <2>2, <3>1, AckIs
    <3>3. /\ used' \in SUBSET AttemptIds /\ used \subseteq used'
          /\ next.status = "RECOVERING" => newId \in used' \ used
      BY <1>1, <2>2, NewId
    <3>4. lr' = applyAttemptOutcome(lr, lr.cur, m.arg, early, newId)
      BY <2>2, <3>2
    <3>5. lr'.status = "RECOVERING" => newId \in used' \ used
      BY <2>2, <3>3
    <3>6. PICK outcome \in Outcomes : outcome = m.arg
      BY <3>1
    <3>7. lr' = applyAttemptOutcome(lr, lr.cur, outcome, early, newId)
      BY <3>4, <3>6
    <3>8. lr.id # NoId
      BY <2>2
    <3>9. applyAttemptOutcome(lr, lr.cur, outcome, early, newId).status = "RECOVERING" =>
            newId \in used' \ used
      BY <3>5, <3>7
    <3> HIDE DEF next, m
    <3>10. runOK(applyAttemptOutcome(lr, lr.cur, outcome, early, newId), used')
      BY <1>0, <3>2, <3>3, <3>8, <3>9, DecidedOK
    <3> QED
      BY <3>7, <3>10
  <2>3. PICK kind : kind = IF lr.id = NoId \/ lr.id # m.run THEN "unknown_logical_run"
                           ELSE outcomeKind(lr, m.attempt, m.arg)
    OBVIOUS
  <2>4. IF kind = "ack"
        THEN /\ next.status = "RECOVERING" => used # AttemptIds
             /\ lr' = next
             /\ used' = IF next.status = "RECOVERING" THEN used \cup {newId} ELSE used
        ELSE lr' = lr /\ used' = used
    BY <1>8, <2>3 DEF FinishedTask
  <2>5. kind = "ack" => /\ lr.id # NoId /\ lr.id = m.run
                        /\ outcomeKind(lr, m.attempt, m.arg) = "ack"
    BY <2>3
  <2> HIDE DEF next, m
  <2> QED
    BY <2>1, <2>2, <2>4, <2>5
<1>9. CASE PhaseTask
  BY <1>0, <1>9, PhasedOK DEF PhaseTask
<1>10. CASE ClaimTask
  <2> DEFINE m == Head(queue)
  <2>1. CASE lr' = lr /\ used' = used
    BY <1>0, <2>1
  <2>2. CASE claimKind(lr, m.attempt, m.arg, m.fp) = "ack" /\ used' = used
             /\ lr' = applyCompletionDispatchClaim(lr, m.arg, m.fp)
    <3>1. m.arg \in Presses /\ (m.arg = "outer" => m.fp \in Fingerprints)
      BY <1>0, <1>10, HeadIs DEF ClaimTask, Take, messageOK
    <3>2. lr.status = "EXECUTING"
      BY <2>2, ClaimAckIs
    <3> HIDE DEF m
    <3> QED
      BY <1>0, <2>2, <3>1, <3>2, ClaimedOK DEF Presses
  <2> QED
    BY <1>10, <2>1, <2>2 DEF ClaimTask
<1>11. CASE Terminate
  <2>1. sv.arg \in TerminalStates /\ lr.id # NoId /\ sv.stop \in BOOLEAN
    BY <1>0, <1>2, <1>11, NotNone DEF Terminate, At, TaskOK, lrActive, Executions
  <2>2. PICK ended : ended = applyBackgroundTerminal(lr, sv.arg)
    OBVIOUS
  <2>3. runOK(ended, used)
    BY <1>0, <2>1, <2>2, TerminatedOK
  <2>4. ended.id # NoId
    <3>1. lr.cur \in AttemptIds
      BY <1>0, <2>1 DEF runOK, attemptsOK
    <3> QED
      BY <1>1, <2>1, <2>2, <3>1, TerminatedIs DEF isRun
  <2>5. lr' = [ended EXCEPT !.dispatch.stop = sv.stop] /\ used' = used
    BY <1>11, <2>2 DEF Terminate
  <2> QED
    BY <2>1, <2>3, <2>4, <2>5, MarkerOK
<1>12. CASE EffectsMark
  <2>1. lr.status = "TERMINAL"
    BY <1>0, <1>12 DEF EffectsMark, At, TaskOK
  <2> QED
    BY <1>0, <1>12, <2>1, MarkedOK DEF EffectsMark
<1>13. CASE RecoveryTask \/ ReconcileRecover
  BY <1>0, <1>13, RecoveryOK DEF RecoveryTask, ReconcileRecover
<1>14. CASE ReconcileSettled
  <2>1. used' = used /\ (executeRecovery \/ lr' = lr)
    BY <1>14 DEF ReconcileSettled
  <2> QED
    BY <1>0, <2>1, RecoveryOK
<1>15. CASE RecoveryCommit
  <2>1. lr.status = "RECOVERING"
    BY <1>0, <1>15 DEF RecoveryCommit, At, TaskOK, Recoveries
  <2> QED
    BY <1>0, <1>15, <2>1, BegunOK DEF RecoveryCommit
<1>16. CASE ReconcileOutcome
  <2> DEFINE outcome == page[lr.tab].outcome
             next == applyAttemptOutcome(lr, lr.cur, outcome, early, newId)
  <2>1. outcome \in Outcomes
    <3>1. lr.tab \in Tabs
      BY <1>0, <1>16, NotNone DEF ReconcileOutcome, runOK, attemptsOK
    <3> QED
      BY <1>0, <1>16, <3>1 DEF ReconcileOutcome, outcomePending, PageOK, scriptOK
  <2>2. lr.id # NoId /\ lr.attempts[lr.cur].decision = "none"
    BY <1>0, <1>16, NotNone DEF ReconcileOutcome, runOK, statusOK, Undecided
  <2>3. /\ next.status = "RECOVERING" => used # AttemptIds
        /\ lr' = next
        /\ used' = IF next.status = "RECOVERING" THEN used \cup {newId} ELSE used
    BY <1>16 DEF ReconcileOutcome
  <2>4. /\ used' \in SUBSET AttemptIds /\ used \subseteq used'
        /\ next.status = "RECOVERING" => newId \in used' \ used
    BY <1>1, <2>3, NewId
  <2> HIDE DEF next, outcome
  <2>5. lr' = applyAttemptOutcome(lr, lr.cur, outcome, early, newId)
    BY <2>3 DEF next
  <2>6. applyAttemptOutcome(lr, lr.cur, outcome, early, newId).status = "RECOVERING" =>
          newId \in used' \ used
    BY <2>3, <2>4, <2>5
  <2>7. runOK(applyAttemptOutcome(lr, lr.cur, outcome, early, newId), used')
    BY <1>0, <2>1, <2>2, <2>4, <2>6, DecidedOK
  <2> QED
    BY <2>5, <2>7
<1>17. CASE ReconcileLost
  <2>1. /\ used' = used
        /\ \E state \in {"HANDED_OFF", "FAILED"} : lr' = applyBackgroundTerminal(lr, state)
    BY <1>17 DEF ReconcileLost
  <2>2. lr.id # NoId
    BY <1>0, <1>17, NotNone DEF ReconcileLost
  <2> QED
    BY <1>0, <2>1, <2>2, TerminatedOK DEF TerminalStates
<1>18. CASE \/ StartNavigate \/ StartInject \/ StartSend \/ StartFail \/ StopNothing
            \/ StopPreparing \/ StopDelivered \/ StopUndelivered \/ StopSend \/ FinishedReply
            \/ ClaimReply \/ TabRemovedTask \/ TabUrlTask \/ Effects \/ CompleteTask
            \/ RecoveryReenter \/ RecoveryStart \/ RecoveryFail \/ ReconcileRunning
            \/ ReconcileProject
  <2>1. UNCHANGED <<lr, used>>
    BY <1>18 DEF StartNavigate, StartInject, StartSend, StartFail, StopNothing,
      StopPreparing, StopDelivered, StopUndelivered, StopSend, FinishedReply, ClaimReply,
      TabRemovedTask, TabUrlTask, Effects, CompleteTask, RecoveryReenter, RecoveryStart,
      RecoveryFail, ReconcileRunning, ReconcileProject, storage
  <2> QED
    BY <1>3, <2>1
<1>19. CASE SupervisorStep
  BY <1>4, <1>5, <1>6, <1>7, <1>8, <1>9, <1>10, <1>11, <1>12, <1>13, <1>14, <1>15, <1>16,
     <1>17, <1>18, <1>19 DEF SupervisorStep
<1>20. CASE vars' = vars
  BY <1>3, <1>20 DEF vars, storage
<1> QED
  BY <1>3, <1>19, <1>20, OthersKeepRun

-----------------------------------------------------------------------------
(* The queue stays well-formed and within its bound *)

LEMMA TailOK ==
  ASSUME QueueOK, NEW op, Take(op)
  PROVE  messagesOK(queue') /\ Len(queue') <= MaxQueue
<1>1. queue \in Seq(Tasks) /\ queue # <<>> /\ queue' = Tail(queue)
  BY DEF QueueOK, messagesOK, Take
<1>2. /\ Tail(queue) \in Seq(Tasks) /\ Len(Tail(queue)) = Len(queue) - 1
      /\ \A i \in DOMAIN Tail(queue) : i + 1 \in DOMAIN queue /\ Tail(queue)[i] = queue[i + 1]
  BY <1>1, TailIs
<1>3. \A i \in DOMAIN queue' : messageOK(queue'[i])
  BY <1>1, <1>2 DEF QueueOK, messagesOK
<1>4. Len(queue') <= MaxQueue
  BY <1>1, <1>2, BoundsAssumption DEF QueueOK
<1> QED
  BY <1>1, <1>2, <1>3, <1>4 DEF messagesOK

LEMMA AppendOK ==
  ASSUME NEW q, messagesOK(q), NEW m \in Tasks, messageOK(m)
  PROVE  messagesOK(Append(q, m)) /\ Len(Append(q, m)) = Len(q) + 1 /\ Len(q) \in Nat
<1>1. q \in Seq(Tasks)
  BY DEF messagesOK
<1>2. /\ Append(q, m) \in Seq(Tasks) /\ Len(Append(q, m)) = Len(q) + 1
      /\ DOMAIN Append(q, m) = DOMAIN q \cup {Len(q) + 1}
      /\ \A i \in DOMAIN q : Append(q, m)[i] = q[i]
      /\ Append(q, m)[Len(q) + 1] = m
  BY <1>1, AppendIs
<1>3. Len(q) \in Nat
  BY <1>1
<1>4. \A i \in DOMAIN Append(q, m) : messageOK(Append(q, m)[i])
  BY <1>2 DEF messagesOK
<1> QED
  BY <1>2, <1>3, <1>4 DEF messagesOK

LEMMA OrphansOK ==
  ASSUME messagesOK(queue), NEW t
  PROVE  messagesOK(orphans(t)) /\ Len(orphans(t)) = Len(queue)
<1>1. queue \in Seq(Tasks)
  BY DEF messagesOK
<1>2. /\ orphans(t) \in Seq(Tasks) /\ Len(orphans(t)) = Len(queue)
      /\ DOMAIN orphans(t) = DOMAIN queue
      /\ \A i \in DOMAIN queue : orphaned(queue[i], orphans(t)[i], t)
  BY <1>1, OrphansIs
<1>3. \A i \in DOMAIN queue : messageOK(orphans(t)[i])
  BY <1>2 DEF messagesOK, messageOK, orphaned
<1> QED
  BY <1>2, <1>3 DEF messagesOK

\* Which tasks are in order.
LEMMA PlainTaskOK ==
  ASSUME NEW op \in Ops \ {"claim", "finished"}, NEW t \in TabIds, op = "start" => t \in Tabs
  PROVE  /\ task(op, t) \in Tasks /\ messageOK(task(op, t))
         /\ task(op, t).op = op /\ task(op, t).from = NoId
<1>1. op \in Ops
  OBVIOUS
<1>2. task(op, t) \in Tasks /\ task(op, t).op = op /\ task(op, t).from = NoId
  BY <1>1, TaskIs
<1>3. task(op, t).tab = t
  BY DEF task
<1> QED
  BY <1>2, <1>3 DEF messageOK

\* A message of a script carries its run and its attempt.
LEMMA MessageIs ==
  ASSUME NEW t \in Tabs, PageOK, used \subseteq AttemptIds, page[t].running,
         NEW op \in {"phase", "claim", "finished"}, NEW from \in {t, NoId},
         NEW arg \in Args \cup {"EXECUTING"}, NEW fp \in Fingerprints \cup {NoId}
  PROVE  LET m == message(op, t, from, arg, fp)
         IN /\ m \in Tasks /\ m.op = op /\ m.from = from /\ m.arg = arg /\ m.fp = fp
            /\ m.run = page[t].run /\ m.attempt = page[t].attempt
            /\ m.run \in AttemptIds /\ m.attempt \in AttemptIds
<1>1. /\ page[t].run \in AttemptIds /\ page[t].attempt \in AttemptIds
  BY DEF PageOK, scriptOK
<1>2. t \in TabIds /\ from \in TabIds
  BY DEF TabIds
<1> QED
  BY <1>1, <1>2 DEF message, Tasks, Ops, Ids

LEMMA QueueStep ==
  ASSUME IInv, [Next]_vars
  PROVE  QueueOK'
<1>0. QueueOK /\ PageOK /\ TaskOK /\ used \subseteq AttemptIds
  BY DEF IInv, runOK
<1>a. messagesOK(queue) /\ Len(queue) \in Nat /\ MaxQueue \in Nat
  BY <1>0, BoundsAssumption DEF QueueOK, messagesOK
<1>1. CASE queue' = queue /\ (sv'.pc # "reply_finished" \/ sv'.pc = sv.pc)
  BY <1>0, <1>1 DEF QueueOK
<1>2. CASE messagesOK(queue') /\ Len(queue') <= MaxQueue
  BY <1>a, <1>2 DEF QueueOK, messagesOK
<1>3. ASSUME NEW m \in Tasks, messageOK(m), room, queue' = Append(queue, m)
      PROVE  messagesOK(queue') /\ Len(queue') <= MaxQueue
  BY <1>a, <1>3, AppendOK DEF room
<1>4. CASE messagesOK(queue') /\ Len(queue') = Len(queue)
           /\ (sv'.pc # "reply_finished" \/ sv'.pc = sv.pc)
  BY <1>0, <1>4 DEF QueueOK
<1>5. CASE SupervisorStep
  <2>1. CASE \E op \in Ops : Take(op)
    BY <1>0, <1>2, <2>1, TailOK
  <2>2. CASE \/ StartInject \/ StartCommit \/ StartSend \/ StartFail \/ StartDiscard
             \/ StopDelivered \/ StopUndelivered \/ StopSend \/ ClaimReply
             \/ Terminate \/ Effects \/ EffectsMark
             \/ RecoveryStart \/ RecoveryCommit \/ RecoveryFail \/ ReconcileProject
    <3>1. queue' = queue
      BY <2>2 DEF StartInject, StartCommit, StartSend, StartFail, StartDiscard, StopDelivered,
        StopUndelivered, StopSend, ClaimReply, Terminate, Effects, EffectsMark, RecoveryStart,
        RecoveryCommit, RecoveryFail, ReconcileProject
    <3>2. sv'.pc # "reply_finished"
      <4>0. sv \in Executions
        BY <1>0 DEF TaskOK
      <4>1. CASE StartInject \/ StartCommit \/ StartSend \/ StartFail \/ StartDiscard
        BY <4>0, <4>1 DEF StartInject, StartCommit, StartSend, StartFail, StartDiscard,
          Goto, Done, Idle, Executions
      <4>2. CASE StopDelivered \/ StopUndelivered \/ StopSend \/ ClaimReply
        <5>1. sv' = Idle \/ sv' = [sv EXCEPT !.pc = "terminate", !.arg = "STOPPED"]
          BY <4>2 DEF StopDelivered, StopUndelivered, StopSend, ClaimReply, Done
        <5>2. CASE sv' = Idle
          BY <5>2 DEF Idle
        <5>3. CASE sv' = [sv EXCEPT !.pc = "terminate", !.arg = "STOPPED"]
          <6>1. sv'.pc = "terminate"
            BY <4>0, <5>3 DEF Executions
          <6> QED
            BY <6>1
        <5> QED
          BY <5>1, <5>2, <5>3
      <4>3. CASE Terminate \/ Effects \/ EffectsMark
        <5>1. \/ sv' = Idle
              \/ \E pc \in {"effects", "mark"} : sv' = [sv EXCEPT !.pc = pc]
              \/ sv.then # "idle" /\ sv' = [Idle EXCEPT !.pc = sv.then, !.tab = sv.tab]
          BY <4>3 DEF Terminate, Effects, EffectsMark, Goto
        <5>2. sv.then \in {"idle", "stop_send"}
          BY <4>0 DEF Executions
        <5>3. CASE sv' = Idle
          BY <5>3 DEF Idle
        <5>4. ASSUME NEW pc \in {"effects", "mark"}, sv' = [sv EXCEPT !.pc = pc]
              PROVE  sv'.pc # "reply_finished"
          <6>1. sv'.pc = pc
            BY <4>0, <5>4 DEF Executions
          <6> QED
            BY <6>1
        <5>5. CASE sv.then # "idle" /\ sv' = [Idle EXCEPT !.pc = sv.then, !.tab = sv.tab]
          <6>1. sv'.pc = sv.then
            BY <5>5 DEF Idle
          <6> QED
            BY <5>2, <6>1
        <5> QED
          BY <5>1, <5>3, <5>4, <5>5
      <4>4. CASE RecoveryStart \/ RecoveryCommit \/ RecoveryFail \/ ReconcileProject
        <5>1. \/ sv' = Idle
              \/ \E pc \in {"recovery_commit", "recovery_fail", "effects"} :
                   sv' = [sv EXCEPT !.pc = pc]
              \/ sv' = [sv EXCEPT !.pc = "terminate", !.arg = "FAILED", !.stop = lr.dispatch.stop]
          BY <4>4 DEF RecoveryStart, RecoveryCommit, RecoveryFail, ReconcileProject, Goto, Done
        <5>2. CASE sv' = Idle
          BY <5>2 DEF Idle
        <5>3. ASSUME NEW pc \in {"recovery_commit", "recovery_fail", "effects"},
                     sv' = [sv EXCEPT !.pc = pc]
              PROVE  sv'.pc # "reply_finished"
          <6>1. sv'.pc = pc
            BY <4>0, <5>3 DEF Executions
          <6> QED
            BY <6>1
        <5>4. CASE sv' = [sv EXCEPT !.pc = "terminate", !.arg = "FAILED",
                                    !.stop = lr.dispatch.stop]
          <6>1. sv'.pc = "terminate"
            BY <4>0, <5>4 DEF Executions
          <6> QED
            BY <6>1
        <5> QED
          BY <5>1, <5>2, <5>3, <5>4
      <4> QED
        BY <2>2, <4>1, <4>2, <4>3, <4>4
    <3> QED
      BY <1>1, <3>1, <3>2
  <2>3. CASE StartNavigate \/ RecoveryReenter
    <3>1. queue' = queue \/ \E t : queue' = orphans(t)
      BY <2>3 DEF StartNavigate, RecoveryReenter
    <3>2. messagesOK(queue') /\ Len(queue') = Len(queue)
      BY <1>a, <3>1, OrphansOK
    <3>3. sv'.pc # "reply_finished"
      BY <1>0, <2>3 DEF TaskOK, StartNavigate, RecoveryReenter, Goto, Executions
    <3> QED
      BY <1>4, <3>2, <3>3
  <2>4. CASE FinishedReply
    <3> DEFINE op == IF sv.arg = "RESET_PAGE" THEN "recovery" ELSE "complete"
    <3>1. queue' = Append(queue, task(op, NoId)) /\ sv' = Idle /\ sv.pc = "reply_finished"
      BY <2>4 DEF FinishedReply, enqueue, Done, At
    <3>2. op \in Ops \ {"claim", "finished"} /\ op # "start" /\ NoId \in TabIds
      BY DEF Ops, TabIds
    <3> HIDE DEF op
    <3>3. messagesOK(queue') /\ Len(queue') = Len(queue) + 1
      BY <1>a, <3>1, <3>2, PlainTaskOK, AppendOK
    <3>4. Len(queue') <= MaxQueue + 1
      BY <1>0, <1>a, <3>1, <3>3 DEF QueueOK
    <3> QED
      BY <3>1, <3>3, <3>4 DEF QueueOK, Idle
  <2>5. CASE ReconcileRecover
    <3>1. queue' = queue
      BY <2>5 DEF ReconcileRecover
    <3>2. sv'.pc # "reply_finished"
      BY <2>5 DEF ReconcileRecover, executeRecovery, Done, Idle
    <3> QED
      BY <1>1, <3>1, <3>2
  <2>6. CASE \/ StartTask \/ StopNothing \/ StopClaimed \/ StopPreparing \/ StopRunning
             \/ FinishedTask \/ PhaseTask \/ ClaimTask \/ TabRemovedTask \/ TabUrlTask
             \/ CompleteTask \/ RecoveryTask \/ ReconcileSettled \/ ReconcileRunning
             \/ ReconcileOutcome \/ ReconcileLost
    BY <2>1, <2>6 DEF Ops, StartTask, StopNothing, StopClaimed, StopPreparing, StopRunning,
      FinishedTask, PhaseTask, ClaimTask, TabRemovedTask, TabUrlTask, CompleteTask, RecoveryTask,
      ReconcileSettled, ReconcileRunning, ReconcileOutcome, ReconcileLost
  <2> QED
    BY <1>5, <2>2, <2>3, <2>4, <2>5, <2>6 DEF SupervisorStep
<1>6. CASE RecorderStep \/ Tick \/ vars' = vars
  <2>1. queue' = queue /\ sv' = sv
    BY <1>6 DEF RecorderStep, RecordEvent, RecordKept, RecorderWrite, Tick, vars, worker
  <2> QED
    BY <1>1, <2>1
<1>7. ASSUME NEW t \in Tabs, PageStep(t)
      PROVE  QueueOK'
  <2>1. CASE \/ PageClaimed(t) \/ PageDelivered(t)
             \/ \E state \in EventStates : PageEmit(t, state)
             \/ \E outcome \in Outcomes : PageFinish(t, outcome)
    <3>1. queue' = queue /\ sv' = sv
      BY <2>1 DEF PageClaimed, PageDelivered, PageEmit, PageFinish, worker
    <3> QED
      BY <1>1, <3>1
  <2>2. CASE PageExecute(t)
    <3>1. /\ room /\ page[t].running
          /\ queue' = Append(queue, message("phase", t, NoId, "EXECUTING", NoId))
      BY <2>2 DEF PageExecute, enqueue
    <3>2. PICK m : m = message("phase", t, NoId, "EXECUTING", NoId)
      OBVIOUS
    <3>3. m \in Tasks /\ m.op = "phase"
      BY <1>0, <3>1, <3>2, MessageIs
    <3>4. messageOK(m)
      BY <3>3 DEF messageOK
    <3> QED
      BY <1>2, <1>3, <3>1, <3>2, <3>3, <3>4
  <2>3. ASSUME NEW arg \in Presses, NEW fp \in Fingerprints \cup {NoId},
               arg = "outer" => fp \in Fingerprints, room, page[t].running,
               queue' = Append(queue, message("claim", t, t, arg, fp))
        PROVE  QueueOK'
    <3>1. PICK m : m = message("claim", t, t, arg, fp)
      OBVIOUS
    <3>2. arg \in Args \cup {"EXECUTING"}
      BY DEF Args
    <3>3. /\ m \in Tasks /\ m.op = "claim" /\ m.run \in AttemptIds /\ m.attempt \in AttemptIds
          /\ m.arg = arg /\ m.fp = fp
      BY <1>0, <2>3, <3>1, <3>2, MessageIs
    <3>4. messageOK(m)
      BY <2>3, <3>3 DEF messageOK
    <3> QED
      BY <1>2, <1>3, <2>3, <3>1, <3>3, <3>4
  <2>4. CASE \E fp \in Fingerprints : PageClaimOuter(t, fp)
    <3>1. PICK fp \in Fingerprints : PageClaimOuter(t, fp)
      BY <2>4
    <3>2. /\ room /\ page[t].running
          /\ queue' = Append(queue, message("claim", t, t, "outer", fp))
      BY <3>1 DEF PageClaimOuter, executing, enqueue
    <3> QED
      BY <2>3, <3>2 DEF Presses
  <2>5. CASE PageClaimPin(t)
    <3>1. /\ room /\ page[t].running
          /\ queue' = Append(queue, message("claim", t, t, "pin", page[t].fp))
      BY <2>5 DEF PageClaimPin, executing, enqueue
    <3>2. page[t].fp \in Fingerprints \cup {NoId}
      BY <1>0 DEF PageOK, PageType
    <3> QED
      BY <2>3, <3>1, <3>2 DEF Presses
  <2>6. CASE PageDeliver(t)
    <3>1. /\ room /\ page[t].running /\ page[t].phase = "FINISHING"
          /\ queue' = Append(queue, message("finished", t, t, page[t].outcome, NoId))
      BY <2>6 DEF PageDeliver, enqueue
    <3>2. PICK m : m = message("finished", t, t, page[t].outcome, NoId)
      OBVIOUS
    <3>3. page[t].outcome \in Outcomes
      BY <1>0, <3>1 DEF PageOK, scriptOK
    <3>4. page[t].outcome \in Args \cup {"EXECUTING"}
      BY <3>3 DEF Args
    <3>5. /\ m \in Tasks /\ m.op = "finished" /\ m.arg = page[t].outcome
          /\ m.run \in AttemptIds /\ m.attempt \in AttemptIds
      BY <1>0, <3>1, <3>2, <3>4, MessageIs
    <3>6. messageOK(m)
      BY <3>3, <3>5 DEF messageOK
    <3> QED
      BY <1>2, <1>3, <3>1, <3>2, <3>5, <3>6
  <2> QED
    BY <1>7, <2>1, <2>2, <2>4, <2>5, <2>6 DEF PageStep
<1>8. CASE UserStep
  <2>1. CASE ClearRunEvents
    <3>1. queue' = queue /\ sv' = sv
      BY <2>1 DEF ClearRunEvents, worker
    <3> QED
      BY <1>1, <3>1
  <2>2. CASE RequestStop
    <3>1. room /\ queue' = Append(queue, task("stop", NoId))
      BY <2>2 DEF RequestStop, enqueue
    <3>2. task("stop", NoId) \in Tasks /\ messageOK(task("stop", NoId))
      BY PlainTaskOK DEF Ops, TabIds
    <3> QED
      BY <1>2, <1>3, <3>1, <3>2
  <2>3. ASSUME NEW t \in Tabs, RequestStart(t)
        PROVE  QueueOK'
    <3>1. room /\ queue' = Append(queue, task("start", t))
      BY <2>3 DEF RequestStart, enqueue
    <3>2. task("start", t) \in Tasks /\ messageOK(task("start", t))
      BY PlainTaskOK DEF Ops, TabIds
    <3> QED
      BY <1>2, <1>3, <3>1, <3>2
  <2>4. ASSUME NEW t \in Tabs, NEW m \in Tasks, messageOK(m), room, dropWaits(t, <<m>>)
        PROVE  QueueOK'
    <3>1. queue' = Append(orphans(t), m)
      BY <2>4 DEF dropWaits
    <3>2. messagesOK(orphans(t)) /\ Len(orphans(t)) = Len(queue)
      BY <1>a, OrphansOK
    <3>3. messagesOK(queue') /\ Len(queue') = Len(queue) + 1
      BY <2>4, <3>1, <3>2, AppendOK
    <3>4. Len(queue) < MaxQueue
      BY <2>4 DEF room
    <3> QED
      BY <1>2, <1>a, <3>3, <3>4
  <2>5. ASSUME NEW t \in Tabs, CloseTab(t)
        PROVE  QueueOK'
    <3>1. room /\ dropWaits(t, <<task("removed", t)>>)
      BY <2>5 DEF CloseTab
    <3>2. task("removed", t) \in Tasks /\ messageOK(task("removed", t))
      BY PlainTaskOK DEF Ops, TabIds
    <3> QED
      BY <2>4, <3>1, <3>2
  <2>6. ASSUME NEW t \in Tabs, NEW where \in {"left", "planned"}, ChangeUrl(t, where)
        PROVE  QueueOK'
    <3>1. PICK m : m = [task("url", t) EXCEPT !.arg = where]
      OBVIOUS
    <3>2. m \in Tasks /\ m.op = "url"
      BY <3>1 DEF task, Tasks, Ops, TabIds, Ids
    <3>3. messageOK(m)
      BY <3>2 DEF messageOK
    <3>4. room /\ (queue' = Append(queue, m) \/ dropWaits(t, <<m>>))
      BY <2>6, <3>1 DEF ChangeUrl, enqueue
    <3> QED
      BY <1>2, <1>3, <2>4, <3>2, <3>3, <3>4
  <2>7. ASSUME NEW t \in Tabs, Reload(t)
        PROVE  QueueOK'
    <3>1. queue' = orphans(t) /\ sv' = orphan(sv, t)
      BY <2>7 DEF Reload, dropWaits
    <3>2. sv'.pc = sv.pc
      BY <1>0, <3>1 DEF TaskOK, Executions, orphan
    <3>3. messagesOK(queue') /\ Len(queue') = Len(queue)
      BY <1>a, <3>1, OrphansOK
    <3> QED
      BY <1>4, <3>2, <3>3
  <2> QED
    BY <1>8, <2>1, <2>2, <2>3, <2>5, <2>6, <2>7 DEF UserStep
<1>9. CASE Sleep
  <2>1. queue' = queue /\ sv' = sv
    BY <1>9 DEF Sleep
  <2> QED
    BY <1>1, <2>1
<1>10. CASE Crash
  <2>1. queue' = <<>> /\ sv' = Idle
    BY <1>10 DEF Crash
  <2>2. messagesOK(<<>>) /\ Len(<<>>) = 0
    BY DEF messagesOK
  <2> QED
    BY <1>2, <1>a, <2>1, <2>2
<1>11. CASE Boot
  <2>1. queue' = <<task("reconcile", NoId)>> /\ sv' = sv /\ sv.pc = "idle"
    BY <1>0, <1>11 DEF Boot, TaskOK
  <2>2. task("reconcile", NoId) \in Tasks /\ messageOK(task("reconcile", NoId))
    BY PlainTaskOK DEF Ops, TabIds
  <2>3. PICK m : m = task("reconcile", NoId)
    OBVIOUS
  <2>4. messagesOK(<<m>>) /\ Len(<<m>>) = 1
    BY <2>2, <2>3 DEF messagesOK
  <2> QED
    BY <1>a, <2>1, <2>3, <2>4 DEF QueueOK
<1> QED
  BY <1>5, <1>6, <1>7, <1>8, <1>9, <1>10, <1>11 DEF Next

-----------------------------------------------------------------------------
(* The running task: what it has read is still so when it goes on *)

LEMMA IdleIs ==
  Idle \in Executions /\ Idle.pc = "idle" /\ Idle.from = NoId /\ Idle.then = "idle"
BY DEF Idle, Executions, Pcs, TabIds, Ids, Args

LEMMA GotoIs ==
  ASSUME sv \in Executions, NEW pc \in Pcs, sv' = [sv EXCEPT !.pc = pc]
  PROVE  /\ sv' \in Executions /\ sv'.pc = pc /\ sv'.from = sv.from /\ sv'.run = sv.run
         /\ sv'.tab = sv.tab /\ sv'.arg = sv.arg /\ sv'.stop = sv.stop /\ sv'.then = sv.then
BY DEF Executions

LEMMA BeginIs ==
  ASSUME NEW pc \in Pcs, NEW t \in TabIds, NEW from \in TabIds, NEW run \in Ids, NEW arg \in Args,
         NEW stop \in BOOLEAN, NEW then \in {"idle", "stop_send"},
         sv' = [pc |-> pc, tab |-> t, from |-> from, run |-> run, arg |-> arg, stop |-> stop,
                then |-> then]
  PROVE  /\ sv' \in Executions /\ sv'.pc = pc /\ sv'.from = from /\ sv'.run = run
         /\ sv'.tab = t /\ sv'.arg = arg /\ sv'.stop = stop /\ sv'.then = then
BY DEF Executions

LEMMA OrphanTaskIs ==
  ASSUME sv \in Executions, NEW t, sv' = orphan(sv, t)
  PROVE  /\ sv' \in Executions /\ sv'.pc = sv.pc /\ sv'.run = sv.run /\ sv'.tab = sv.tab
         /\ sv'.arg = sv.arg /\ sv'.stop = sv.stop /\ sv'.then = sv.then
         /\ sv'.from = IF sv.from = t THEN NoId ELSE sv.from
<1>1. CASE sv.from = t
  BY <1>1 DEF orphan, Executions, TabIds
<1>2. CASE sv.from # t
  BY <1>2 DEF orphan
<1> QED
  BY <1>1, <1>2

\* TaskOK, by where the task is.
LEMMA TaskPlain ==
  ASSUME sv' \in Executions, up', sv'.pc \in {"idle", "stop_send", "reconcile_recover"}
  PROVE  TaskOK'
BY DEF TaskOK, Starts, StartsUnwritten, Recoveries

LEMMA TaskEffects ==
  ASSUME sv' \in Executions, up', sv'.pc \in {"effects", "mark", "reconcile_project"},
         lr'.status = "TERMINAL", ~lr'.effectsDone,
         sv'.pc = "reconcile_project" => sv'.arg \in TerminalStates
  PROVE  TaskOK'
BY DEF TaskOK, Starts, StartsUnwritten, Recoveries

LEMMA TaskTerminate ==
  ASSUME sv' \in Executions, up', sv'.pc = "terminate", lrActive', sv'.arg \in TerminalStates,
         lr'.dispatch.fp # NoId => sv'.arg = "HANDED_OFF"
  PROVE  TaskOK'
BY DEF TaskOK, Starts, StartsUnwritten, Recoveries

LEMMA TaskRecovery ==
  ASSUME sv' \in Executions, up', sv'.pc \in Recoveries, lr'.status = "RECOVERING"
  PROVE  TaskOK'
BY DEF TaskOK, Starts, StartsUnwritten, Recoveries

LEMMA TaskUnwritten ==
  ASSUME sv' \in Executions, up', sv'.pc \in StartsUnwritten, sv'.run \in used', sv'.tab \in Tabs,
         sv'.run \notin {lr'.id, lr'.cur, lr'.next}
  PROVE  TaskOK'
BY DEF TaskOK, Starts, StartsUnwritten, Recoveries

LEMMA TaskStart ==
  ASSUME sv' \in Executions, up', sv'.pc \in {"start_send", "start_fail", "start_discard"},
         sv'.run \in used', sv'.tab \in Tabs,
         sv'.pc = "start_send" => lr' = createLogicalRun(sv'.run, sv'.tab)
  PROVE  TaskOK'
BY DEF TaskOK, Starts, StartsUnwritten, Recoveries

\* The attempts the logical run names are drawn already.
LEMMA NamesUsed ==
  ASSUME runOK(lr, used)
  PROVE  /\ lr.id \in used \cup {NoId} /\ lr.cur \in used \cup {NoId} /\ lr.next \in used \cup {NoId}
         /\ lr.id \in Ids /\ lr.tab \in TabIds /\ lr.dispatch.stop \in BOOLEAN
<1>1. CASE lr.id = NoId
  <2>1. lr = NoRun
    BY <1>1 DEF runOK, attemptsOK
  <2>2. /\ NoRun.id = NoId /\ NoRun.cur = NoId /\ NoRun.next = NoId /\ NoRun.tab = NoId
        /\ NoRun.dispatch.stop = FALSE
    BY DEF NoRun, NoDispatch
  <2> QED
    BY <2>1, <2>2 DEF Ids, TabIds
<1>2. CASE lr.id # NoId
  <2>1. lr.next \in used \cup {NoId}
    BY DEF runOK, statusOK
  <2>2. lr.tab \in TabIds /\ lr.id \in Ids
    BY <1>2 DEF runOK, attemptsOK, Ids, TabIds
  <2>3. lr.dispatch.stop \in BOOLEAN
    BY DEF runOK, attemptsOK, LogicalRuns, CompletionDispatch
  <2> QED
    BY <1>2, <2>1, <2>2, <2>3 DEF runOK, attemptsOK
<1> QED
  BY <1>1, <1>2

\* terminateLogical: on to the terminal write, or past it.
LEMMA TerminateThenIs ==
  ASSUME runOK(lr, used), NEW t \in TabIds, NEW run \in Ids, NEW state \in TerminalStates,
         NEW then \in {"idle", "stop_send"}, terminateThen(t, run, state, then)
  PROVE  \/ /\ lrActive
            /\ sv' \in Executions /\ sv'.pc = "terminate" /\ sv'.from = NoId /\ sv'.run = run
            /\ sv'.tab = t /\ sv'.arg = state /\ sv'.stop = lr.dispatch.stop /\ sv'.then = then
         \/ /\ sv' \in Executions /\ sv'.pc = then /\ sv'.from = NoId
<1>1. lr.dispatch.stop \in BOOLEAN
  BY NamesUsed
<1>2. "terminate" \in Pcs /\ NoId \in TabIds /\ NoId \in Ids /\ state \in Args /\ "none" \in Args
      /\ "stop_send" \in Pcs
  BY DEF Pcs, TabIds, Ids, Args, Outcomes
<1>3. CASE lrActive
  <2>1. sv' = [pc |-> "terminate", tab |-> t, from |-> NoId, run |-> run, arg |-> state,
               stop |-> lr.dispatch.stop, then |-> then]
    BY <1>3 DEF terminateThen, Idle
  <2>2. PICK stop \in BOOLEAN : stop = lr.dispatch.stop
    BY <1>1
  <2> QED
    BY <1>2, <1>3, <2>1, <2>2, BeginIs
<1>4. CASE ~lrActive /\ then = "idle"
  BY <1>4, IdleIs DEF terminateThen
<1>5. CASE ~lrActive /\ then = "stop_send"
  <2>1. sv' = [pc |-> "stop_send", tab |-> t, from |-> NoId, run |-> NoId, arg |-> "none",
               stop |-> FALSE, then |-> "idle"]
    BY <1>5 DEF terminateThen, Idle
  <2> QED
    BY <1>2, <1>5, <2>1, BeginIs
<1> QED
  BY <1>3, <1>4, <1>5

\* A termination carries a state that does not disown a submitted run.
LEMMA TerminateThenOK ==
  ASSUME IInv, up', lr' = lr, NEW t \in TabIds, NEW run \in Ids, NEW state \in TerminalStates,
         NEW then \in {"idle", "stop_send"}, terminateThen(t, run, state, then),
         lr.dispatch.fp # NoId => state = "HANDED_OFF"
  PROVE  TaskOK'
<1>0. runOK(lr, used)
  BY DEF IInv
<1>1. CASE sv' \in Executions /\ sv'.pc = then
  BY <1>1, TaskPlain
<1>2. CASE lrActive /\ sv' \in Executions /\ sv'.pc = "terminate" /\ sv'.arg = state
  <2>1. lrActive'
    BY <1>2 DEF lrActive
  <2> QED
    BY <1>2, <2>1, TaskTerminate
<1> QED
  BY <1>0, <1>1, <1>2, TerminateThenIs

LEMMA PcValues ==
  /\ StartsUnwritten \subseteq Pcs /\ Starts \subseteq Pcs /\ Recoveries \subseteq Pcs
  /\ {"idle", "terminate", "stop_live", "stop_send", "reply_finished", "reply_claim",
      "effects", "mark", "reconcile_recover", "reconcile_project"} \subseteq Pcs
  /\ NoId \in TabIds /\ NoId \in Ids /\ "none" \in Args /\ TerminalStates \subseteq Args
  /\ Decisions \subseteq Args /\ Presses \subseteq Args /\ AttemptIds \subseteq Ids
  /\ Tabs \subseteq TabIds
BY DEF Pcs, Starts, StartsUnwritten, Recoveries, TabIds, Ids, Args, Outcomes, Presses

\* A run with an acknowledged claim is executing or over; one that recovers is active.
LEMMA NoClaimYet ==
  ASSUME runOK(lr, used), lr.status \in {"PREPARING", "RECOVERING"}
  PROVE  lr.dispatch.fp = NoId /\ lrActive /\ lr.id # NoId
BY NotNone DEF runOK, statusOK, lrActive

LEMMA RecoveryTaskOK ==
  ASSUME runOK(lr, used), runOK(lr', used'), up', executeRecovery
  PROVE  TaskOK'
<1>0. lr \in LogicalRuns /\ (lr.status = "RECOVERING" => ~lr.effectsDone)
  BY DEF runOK, attemptsOK, statusOK
<1>1. CASE sv' = Idle
  BY <1>1, IdleIs, TaskPlain
<1>2. CASE /\ lr.status = "RECOVERING" /\ lr' = applyRecoveryLapse(lr)
           /\ sv' = [Idle EXCEPT !.pc = "effects"]
  <2>1. sv' \in Executions /\ sv'.pc = "effects"
    BY <1>2, PcValues DEF Idle, Executions
  <2>2. lr'.status = "TERMINAL" /\ ~lr'.effectsDone
    BY <1>0, <1>2, LapsedIs DEF isRun
  <2> QED
    BY <2>1, <2>2, TaskEffects
<1>3. CASE /\ lr.status = "RECOVERING" /\ (lr' = lr \/ lr' = markRecoveryDispatched(lr))
           /\ \E pc \in {"recovery_commit", "recovery_reenter"} : sv' = [Idle EXCEPT !.pc = pc]
  <2>1. PICK pc \in {"recovery_commit", "recovery_reenter"} : sv' = [Idle EXCEPT !.pc = pc]
    BY <1>3
  <2>2. pc \in Pcs /\ pc \in Recoveries
    BY DEF Pcs, Recoveries
  <2>3. sv' \in Executions /\ sv'.pc = pc
    BY <2>1, <2>2, PcValues DEF Idle, Executions
  <2>4. lr'.status = "RECOVERING"
    BY <1>0, <1>3, DispatchedIs DEF isRun
  <2> QED
    BY <2>2, <2>3, <2>4, TaskRecovery
<1> QED
  BY <1>1, <1>2, <1>3, RecoveryIs

LEMMA StartsTask ==
  ASSUME IInv, runOK(lr', used'),
         \/ StartTask \/ StartNavigate \/ StartInject \/ StartCommit \/ StartSend
         \/ StartFail \/ StartDiscard
  PROVE  TaskOK'
<1>0. runOK(lr, used) /\ TaskOK /\ QueueOK /\ sv \in Executions /\ used \subseteq AttemptIds
  BY DEF IInv, TaskOK, runOK
<1>1. CASE StartTask
  <2>1. up' /\ lr' = lr
    BY <1>1 DEF StartTask, Take
  <2>2. CASE sv' = Idle
    BY <2>1, <2>2, IdleIs, TaskPlain
  <2>3. CASE /\ used # AttemptIds /\ used' = used \cup {newId}
             /\ sv' = [Idle EXCEPT !.pc = "start_navigate", !.tab = Head(queue).tab, !.run = newId]
    <3>1. newId \in AttemptIds /\ newId \notin used
      BY <1>0, <2>3, NewId
    <3>2. Head(queue).tab \in Tabs
      BY <1>0, <1>1, HeadIs DEF StartTask, Take, messageOK
    <3>3. PICK id : id = newId
      OBVIOUS
    <3>4. PICK t : t = Head(queue).tab
      OBVIOUS
    <3>5. sv' = [pc |-> "start_navigate", tab |-> t, from |-> NoId, run |-> id, arg |-> "none",
                 stop |-> FALSE, then |-> "idle"]
      BY <2>3, <3>3, <3>4 DEF Idle
    <3>6. "start_navigate" \in Pcs /\ "start_navigate" \in StartsUnwritten
      BY DEF Pcs, Starts, StartsUnwritten
    <3>7. sv' \in Executions /\ sv'.pc = "start_navigate" /\ sv'.run = id /\ sv'.tab = t
      BY <3>1, <3>2, <3>3, <3>4, <3>5, <3>6, PcValues, BeginIs
    <3>8. id \in used' /\ id \notin {lr'.id, lr'.cur, lr'.next}
      BY <1>0, <2>1, <2>3, <3>1, <3>3, NamesUsed, LogicalRunAssumption
    <3> QED
      BY <2>1, <3>2, <3>4, <3>6, <3>7, <3>8, TaskUnwritten
  <2> QED
    BY <1>1, <2>2, <2>3 DEF StartTask, Done
<1>2. ASSUME NEW pc \in {"start_inject", "start_commit"}, sv.pc \in StartsUnwritten, up,
             up' = up, lr' = lr, used' = used, sv' = [sv EXCEPT !.pc = pc]
      PROVE  TaskOK'
  <2>1. pc \in StartsUnwritten /\ pc \in Pcs /\ sv.pc \in Starts
    BY <1>2, PcValues DEF Starts, StartsUnwritten
  <2>2. sv' \in Executions /\ sv'.pc = pc /\ sv'.run = sv.run /\ sv'.tab = sv.tab
    BY <1>0, <1>2, <2>1, GotoIs
  <2> QED
    BY <1>0, <1>2, <2>1, <2>2, TaskUnwritten DEF TaskOK
<1>3. ASSUME NEW pc \in {"start_fail", "start_discard"}, sv.pc \in Starts, up,
             up' = up, lr' = lr, used' = used, sv' = [sv EXCEPT !.pc = pc]
      PROVE  TaskOK'
  <2>1. pc \in Pcs
    BY DEF Pcs, Starts
  <2>2. sv' \in Executions /\ sv'.pc = pc /\ sv'.run = sv.run /\ sv'.tab = sv.tab
    BY <1>0, <1>3, <2>1, GotoIs
  <2> QED
    BY <1>0, <1>3, <2>1, <2>2, TaskStart DEF TaskOK
<1>4. CASE StartNavigate
  <2>1. /\ sv.pc \in StartsUnwritten /\ up /\ up' = up /\ lr' = lr /\ used' = used
        /\ \/ sv' = [sv EXCEPT !.pc = "start_inject"] \/ sv' = [sv EXCEPT !.pc = "start_fail"]
    BY <1>4 DEF StartNavigate, At, Goto, StartsUnwritten, storage
  <2> QED
    BY <1>2, <1>3, <2>1 DEF Starts
<1>5. CASE StartInject
  <2>1. /\ sv.pc \in StartsUnwritten /\ up /\ up' = up /\ lr' = lr /\ used' = used
        /\ \/ sv' = [sv EXCEPT !.pc = "start_commit"] \/ sv' = [sv EXCEPT !.pc = "start_fail"]
    BY <1>5 DEF StartInject, At, Goto, StartsUnwritten, storage
  <2> QED
    BY <1>2, <1>3, <2>1 DEF Starts
<1>6. CASE StartCommit
  <2>1. /\ sv.pc \in Starts /\ up' /\ used' = used /\ sv' = [sv EXCEPT !.pc = "start_send"]
        /\ lr' = createLogicalRun(sv.run, sv.tab)
    BY <1>6 DEF StartCommit, At, Goto, Starts, StartsUnwritten
  <2>2. /\ sv' \in Executions /\ sv'.pc = "start_send" /\ sv'.run = sv.run /\ sv'.tab = sv.tab
    BY <1>0, <2>1, GotoIs DEF Pcs, Starts
  <2>3. lr' = createLogicalRun(sv'.run, sv'.tab)
    BY <2>1, <2>2
  <2> QED
    BY <1>0, <2>1, <2>2, <2>3, TaskStart DEF TaskOK
<1>7. CASE StartSend
  <2>1. /\ sv.pc \in Starts /\ up /\ up' = up /\ lr' = lr /\ used' = used
        /\ \/ sv' = Idle \/ sv' = [sv EXCEPT !.pc = "start_fail"]
    BY <1>7 DEF StartSend, At, Goto, Done, Starts, storage
  <2> QED
    BY <1>3, <2>1, IdleIs, TaskPlain
<1>8. CASE StartFail
  <2>1. /\ sv.pc \in Starts /\ up /\ up' = up /\ lr' = lr /\ used' = used
        /\ sv' = [sv EXCEPT !.pc = "start_discard"]
    BY <1>8 DEF StartFail, At, Goto, Starts
  <2> QED
    BY <1>3, <2>1
<1>9. CASE StartDiscard
  <2>1. up' /\ sv' = Idle
    BY <1>9 DEF StartDiscard, At, Done
  <2> QED
    BY <2>1, IdleIs, TaskPlain
<1> QED
  BY <1>1, <1>4, <1>5, <1>6, <1>7, <1>8, <1>9

LEMMA StopsTask ==
  ASSUME IInv, runOK(lr', used'),
         \/ StopNothing \/ StopClaimed \/ StopPreparing \/ StopRunning
         \/ StopDelivered \/ StopUndelivered \/ StopSend
  PROVE  TaskOK'
<1>0. /\ runOK(lr, used) /\ TaskOK /\ QueueOK /\ ProjectionOK /\ sv \in Executions
      /\ used \subseteq AttemptIds
  BY DEF IInv, TaskOK, runOK
<1>a. /\ ar.run \in Ids /\ ar.tab \in TabIds
  BY <1>0 DEF ProjectionOK, projects, Projections
<1>1. CASE StopNothing \/ StopClaimed \/ StopDelivered \/ StopSend
  <2>1. up' /\ sv' = Idle
    BY <1>1 DEF StopNothing, StopClaimed, StopDelivered, StopSend, Take, At, Done
  <2> QED
    BY <2>1, IdleIs, TaskPlain
<1>2. CASE StopPreparing
  <2>1. /\ up' /\ lr' = lr /\ terminateThen(ar.tab, ar.run, "STOPPED", "stop_send")
        /\ lr.dispatch.fp = NoId
    BY <1>2 DEF StopPreparing, Take, isAcknowledgedCompletionClaim
  <2>2. "STOPPED" \in TerminalStates
    BY DEF TerminalStates
  <2> QED
    BY <1>a, <2>1, <2>2, TerminateThenOK
<1>3. CASE StopRunning
  <2>1. /\ up' /\ lr.dispatch.fp = NoId /\ ar.run # NoId
        /\ lr' = lr \/ lr' = requestCompletionStop(lr)
        /\ sv' = [Idle EXCEPT !.pc = "stop_live", !.tab = ar.tab, !.run = ar.run,
                              !.stop = lr.dispatch.stop]
    BY <1>3 DEF StopRunning, Take, isAcknowledgedCompletionClaim
  <2>2. PICK stop \in BOOLEAN : stop = lr.dispatch.stop
    BY <1>0, NamesUsed
  <2>3. sv' = [pc |-> "stop_live", tab |-> ar.tab, from |-> NoId, run |-> ar.run, arg |-> "none",
               stop |-> stop, then |-> "idle"]
    BY <2>1, <2>2 DEF Idle
  <2>4. sv' \in Executions /\ sv'.pc = "stop_live" /\ sv'.run = ar.run
    BY <1>a, <2>3, PcValues, BeginIs
  <2>5. lr'.dispatch.fp = NoId
    <3>1. lr \in LogicalRuns
      BY <1>0 DEF runOK, attemptsOK
    <3>2. requestCompletionStop(lr).dispatch =
            [fp |-> lr.dispatch.fp, pin |-> lr.dispatch.pin, stop |-> TRUE]
      BY <3>1, StopRequestedIs DEF isRun
    <3>3. requestCompletionStop(lr).dispatch.fp = lr.dispatch.fp
      BY <3>2
    <3> QED
      BY <2>1, <3>3
  <2>6. ar.run \in AttemptIds
    BY <1>a, <2>1 DEF Ids
  <2> QED
    BY <2>1, <2>4, <2>5, <2>6 DEF TaskOK, Starts, StartsUnwritten, Recoveries
<1>4. CASE StopUndelivered
  <2>1. /\ up' /\ lr' = lr /\ sv.pc = "stop_live"
        /\ IF lrActive THEN sv' = [sv EXCEPT !.pc = "terminate", !.arg = "STOPPED"] ELSE sv' = Idle
    BY <1>4 DEF StopUndelivered, At
  <2>2. CASE sv' = Idle
    BY <2>1, <2>2, IdleIs, TaskPlain
  <2>3. CASE lrActive /\ sv' = [sv EXCEPT !.pc = "terminate", !.arg = "STOPPED"]
    <3>1. "STOPPED" \in Args /\ "STOPPED" \in TerminalStates
      BY DEF Args, Outcomes, TerminalStates
    <3>2. sv' \in Executions /\ sv'.pc = "terminate" /\ sv'.arg = "STOPPED"
      BY <1>0, <2>3, <3>1, PcValues DEF Executions
    <3>3. lrActive' /\ lr'.dispatch.fp = NoId
      BY <1>0, <2>1, <2>3 DEF lrActive, TaskOK
    <3> QED
      BY <2>1, <3>1, <3>2, <3>3, TaskTerminate
  <2> QED
    BY <2>1, <2>2, <2>3
<1> QED
  BY <1>1, <1>2, <1>3, <1>4

\* The run after an acknowledged outcome of its current attempt.
LEMMA OutcomeIs ==
  ASSUME runOK(lr, used), lr.id # NoId, lr.attempts[lr.cur].decision = "none",
         NEW outcome \in Outcomes,
         applyAttemptOutcome(lr, lr.cur, outcome, early, newId).status = "RECOVERING" =>
           used # AttemptIds
  PROVE  LET after == applyAttemptOutcome(lr, lr.cur, outcome, early, newId)
         IN /\ after.id = lr.id /\ after.tab = lr.tab /\ after.cur = lr.cur
            /\ after.effectsDone = lr.effectsDone /\ after.dispatch = lr.dispatch
            /\ lr.cur \in AttemptIds
            /\ after.attempts[lr.cur].final = outcome
            /\ after.attempts[lr.cur].decision \in Decisions
            /\ \A a \in AttemptIds : a # lr.cur => after.attempts[a] = lr.attempts[a]
            /\ after.status \in {"RECOVERING", "TERMINAL"}
            /\ after.status = "RECOVERING" <=> after.attempts[lr.cur].decision = "RESET_PAGE"
            /\ after.status = "RECOVERING" =>
                 outcome = "PREP_STALLED" /\ lr.status = "PREPARING" /\ after.next = newId
<1>0. lr \in LogicalRuns /\ lr.cur \in AttemptIds
  BY DEF runOK, attemptsOK
<1>1. PICK after : after = applyAttemptOutcome(lr, lr.cur, outcome, early, newId)
  OBVIOUS
<1>2. PICK decision : decision = outcomeDecision(lr, outcome, early)
  OBVIOUS
<1>3. PICK attempts : attempts = [lr.attempts EXCEPT
                                    ![lr.cur] = decided(lr.attempts[lr.cur], outcome, decision)]
  OBVIOUS
<1>4. /\ decision \in Decisions
      /\ IF decision = "RESET_PAGE"
         THEN isRun(after, lr.id, lr.tab, "RECOVERING", lr.resetCount + 1, lr.cur,
                    attempts, newId, FALSE, lr.effectsDone, lr.dispatch)
         ELSE isRun(after, lr.id, lr.tab, "TERMINAL", lr.resetCount, lr.cur, attempts,
                    lr.next, lr.dispatched, lr.effectsDone, lr.dispatch)
  BY ONLY <1>0, <1>1, <1>2, <1>3, DecidedIs, outcome \in Outcomes
<1>5. /\ \A a \in AttemptIds : a # lr.cur => attempts[a] = lr.attempts[a]
      /\ attempts[lr.cur] = decided(lr.attempts[lr.cur], outcome, decision)
  BY <1>0, <1>3 DEF LogicalRuns
<1>6. attempts[lr.cur].final = outcome /\ attempts[lr.cur].decision = decision
  BY <1>5 DEF decided
<1>7. decision = "RESET_PAGE" => outcome = "PREP_STALLED" /\ lr.status = "PREPARING"
  BY <1>2 DEF outcomeDecision, decide
<1>8. /\ after.id = lr.id /\ after.tab = lr.tab /\ after.cur = lr.cur /\ after.attempts = attempts
      /\ after.effectsDone = lr.effectsDone /\ after.dispatch = lr.dispatch
      /\ after.status = IF decision = "RESET_PAGE" THEN "RECOVERING" ELSE "TERMINAL"
      /\ decision = "RESET_PAGE" => after.next = newId
  BY <1>4 DEF isRun
<1> QED
  BY <1>0, <1>1, <1>4, <1>5, <1>6, <1>7, <1>8

\* FinishedTask: an outcome is decided, or answered from what is in storage.
decides(m) ==
  /\ lr.id # NoId /\ lr.id = m.run /\ m.attempt = lr.cur /\ m.arg \in Outcomes
  /\ lr.attempts[lr.cur].decision = "none" /\ lr.attempts[lr.cur].known
  /\ lr.status # "RECOVERING"
  /\ lr' = applyAttemptOutcome(lr, lr.cur, m.arg, early, newId)
  /\ lr'.status = "RECOVERING" => used # AttemptIds
  /\ used' = IF lr'.status = "RECOVERING" THEN used \cup {newId} ELSE used
  /\ lr'.attempts[lr.cur].decision \in Decisions
  /\ sv' \in Executions /\ sv'.pc = "reply_finished" /\ sv'.from = m.from
  /\ sv'.arg = lr'.attempts[lr.cur].decision
  /\ page' = page

replies(m, reply) ==
  /\ reply \in Decisions \cup {"refused"}
  /\ reply \in Decisions => lr.id = m.run /\ lr.attempts[m.attempt].decision = reply
  /\ answer(m.from, reply)
  /\ lr' = lr /\ used' = used /\ sv' = Idle

LEMMA FinishedIs ==
  ASSUME IInv, FinishedTask, NEW m, m = Head(queue)
  PROVE  decides(m) \/ \E reply : replies(m, reply)
<1>0. runOK(lr, used) /\ QueueOK /\ queue # <<>> /\ m.op = "finished" /\ lr \in LogicalRuns
  BY DEF IInv, FinishedTask, Take, runOK, attemptsOK
<1>1. m \in Tasks /\ m.attempt \in AttemptIds /\ m.arg \in Outcomes /\ m.from \in TabIds
  BY <1>0, HeadIs DEF messageOK, Tasks
<1>2. PICK kind : kind = IF lr.id = NoId \/ lr.id # m.run THEN "unknown_logical_run"
                         ELSE outcomeKind(lr, m.attempt, m.arg)
  OBVIOUS
<1>3. PICK next : next = applyAttemptOutcome(lr, m.attempt, m.arg, early, newId)
  OBVIOUS
<1>4. IF kind = "ack"
      THEN /\ next.status = "RECOVERING" => used # AttemptIds
           /\ lr' = next
           /\ used' = IF next.status = "RECOVERING" THEN used \cup {newId} ELSE used
           /\ sv' = [Idle EXCEPT !.pc = "reply_finished", !.from = m.from,
                                 !.arg = next.attempts[m.attempt].decision]
           /\ page' = page
      ELSE /\ answer(m.from, IF kind = "replay" THEN lr.attempts[m.attempt].decision
                             ELSE "refused")
           /\ sv' = Idle /\ lr' = lr /\ used' = used
  BY <1>2, <1>3 DEF FinishedTask, Done
<1>5. CASE kind = "ack"
  <2>1. lr.id # NoId /\ lr.id = m.run /\ outcomeKind(lr, m.attempt, m.arg) = "ack"
    BY <1>2, <1>5
  <2>2. /\ m.attempt = lr.cur /\ lr.attempts[lr.cur].decision = "none"
        /\ lr.status # "RECOVERING" /\ lr.attempts[lr.cur].known
    BY <1>0, <1>1, <2>1, AckIs
  <2>3. lr' = applyAttemptOutcome(lr, lr.cur, m.arg, early, newId)
    BY <1>3, <1>4, <1>5, <2>2
  <2>4. lr'.status = "RECOVERING" => used # AttemptIds
    BY <1>4, <1>5
  <2>5. lr'.attempts[lr.cur].decision \in Decisions
    BY <1>0, <1>1, <2>1, <2>2, <2>3, <2>4, OutcomeIs
  <2>6. PICK decision \in Decisions : decision = lr'.attempts[lr.cur].decision
    BY <2>5
  <2>7. sv' = [pc |-> "reply_finished", tab |-> NoId, from |-> m.from, run |-> NoId,
               arg |-> decision, stop |-> FALSE, then |-> "idle"]
    <3>1. sv' = [Idle EXCEPT !.pc = "reply_finished", !.from = m.from, !.arg = decision]
      BY <1>3, <1>4, <1>5, <2>2, <2>6
    <3> QED
      BY <3>1 DEF Idle
  <2>8. sv' \in Executions /\ sv'.pc = "reply_finished" /\ sv'.from = m.from /\ sv'.arg = decision
    BY <1>1, <2>7, PcValues, BeginIs
  <2> QED
    BY <1>1, <1>4, <1>5, <2>1, <2>2, <2>3, <2>5, <2>6, <2>8 DEF decides
<1>6. CASE kind # "ack"
  <2>1. CASE kind = "replay"
    <3>1. lr.id = m.run /\ outcomeKind(lr, m.attempt, m.arg) = "replay"
      BY <1>2, <2>1
    <3>2. lr.attempts[m.attempt].decision # "none"
      BY <3>1 DEF outcomeKind
    <3>3. lr.attempts[m.attempt].decision \in Decisions
      BY <1>0, <1>1, <3>2 DEF LogicalRuns, AttemptRecord
    <3>4. replies(m, lr.attempts[m.attempt].decision)
      BY <1>4, <1>6, <2>1, <3>1, <3>3 DEF replies
    <3> QED
      BY <3>4
  <2>2. CASE kind # "replay"
    <3>1. "refused" \notin Decisions
      BY DEF Decisions
    <3>2. replies(m, "refused")
      BY <1>4, <1>6, <2>2, <3>1 DEF replies
    <3> QED
      BY <3>2
  <2> QED
    BY <2>1, <2>2
<1> QED
  BY <1>5, <1>6

\* The run but for its dispatch.
sameButDispatch(run, after) ==
  /\ after.id = run.id /\ after.tab = run.tab /\ after.status = run.status
  /\ after.resetCount = run.resetCount /\ after.cur = run.cur /\ after.attempts = run.attempts
  /\ after.next = run.next /\ after.effectsDone = run.effectsDone

\* ClaimTask: a permission is stored, or refused.
permits(m) ==
  /\ lr.id # NoId /\ lr.id = m.run /\ m.attempt = lr.cur /\ m.arg \in Presses
  /\ lr.status = "EXECUTING" /\ ~lr.dispatch.stop
  /\ m.arg = "pin" => lr.dispatch.fp # NoId /\ ~lr.dispatch.pin /\ lr'.dispatch.pin
  /\ m.arg = "outer" => lr.dispatch.fp = NoId
  /\ sameButDispatch(lr, lr') /\ ~lr'.dispatch.stop /\ lr'.dispatch.fp # NoId
  /\ lr.dispatch.pin => lr'.dispatch.pin
  /\ lr.dispatch.fp # NoId => lr'.dispatch.fp = lr.dispatch.fp
  /\ sv' \in Executions /\ sv'.pc = "reply_claim" /\ sv'.from = m.from /\ sv'.run = lr.id
  /\ sv'.arg = m.arg
  /\ page' = page

refuses(m) == answer(m.from, "refused") /\ lr' = lr /\ sv' = Idle

LEMMA ClaimIs ==
  ASSUME IInv, ClaimTask, NEW m, m = Head(queue)
  PROVE  permits(m) \/ refuses(m)
<1>0. runOK(lr, used) /\ QueueOK /\ queue # <<>> /\ m.op = "claim" /\ lr \in LogicalRuns
  BY DEF IInv, ClaimTask, Take, runOK, attemptsOK
<1>1. /\ m \in Tasks /\ m.from \in TabIds /\ m.arg \in Presses
      /\ m.arg = "outer" => m.fp \in Fingerprints
  BY <1>0, HeadIs DEF messageOK, Tasks
<1>2. CASE refuses(m)
  BY <1>2
<1>3. CASE /\ lr.id # NoId /\ lr.id = m.run /\ claimKind(lr, m.attempt, m.arg, m.fp) = "ack"
           /\ lr' = applyCompletionDispatchClaim(lr, m.arg, m.fp)
           /\ sv' = [Idle EXCEPT !.pc = "reply_claim", !.from = m.from, !.run = lr.id,
                                 !.arg = m.arg]
           /\ page' = page
  <2>1. /\ m.attempt = lr.cur /\ lr.status = "EXECUTING" /\ ~lr.dispatch.stop
        /\ m.arg = "pin" => lr.dispatch.fp # NoId /\ ~lr.dispatch.pin
        /\ m.arg # "pin" => lr.dispatch.fp = NoId
    BY <1>3, ClaimAckIs
  <2>2. m.arg # "pin" => m.fp \in Fingerprints
    BY <1>1 DEF Presses
  <2>3. PICK after : after = applyCompletionDispatchClaim(lr, m.arg, m.fp)
    OBVIOUS
  <2>4. /\ isRun(after, lr.id, lr.tab, lr.status, lr.resetCount, lr.cur, lr.attempts,
                 lr.next, lr.dispatched, lr.effectsDone, after.dispatch)
        /\ after.dispatch.stop = lr.dispatch.stop
        /\ m.arg = "pin" => after.dispatch.pin /\ after.dispatch.fp = lr.dispatch.fp
        /\ m.arg # "pin" => after.dispatch.fp = m.fp /\ after.dispatch.pin = lr.dispatch.pin
    BY <1>0, <2>2, <2>3, ClaimedIs
  <2>5. sameButDispatch(lr, lr') /\ lr' = after
    BY <1>3, <2>3, <2>4 DEF isRun, sameButDispatch
  <2>6. PICK id \in Ids : id = lr.id
    BY <1>0 DEF LogicalRuns, Ids
  <2>7. sv' = [pc |-> "reply_claim", tab |-> NoId, from |-> m.from, run |-> id,
               arg |-> m.arg, stop |-> FALSE, then |-> "idle"]
    BY <1>3, <2>6 DEF Idle
  <2>8. /\ sv' \in Executions /\ sv'.pc = "reply_claim" /\ sv'.from = m.from /\ sv'.arg = m.arg
        /\ sv'.run = id
    BY <1>1, <2>7, PcValues, BeginIs
  <2>9. /\ m.arg = "outer" => m.arg # "pin"
        /\ m.arg # "pin" => m.fp # NoId
    BY <1>1, <2>2, LogicalRunAssumption DEF Presses
  <2>10. /\ ~lr'.dispatch.stop /\ lr'.dispatch.fp # NoId /\ (m.arg = "pin" => lr'.dispatch.pin)
         /\ lr.dispatch.pin => lr'.dispatch.pin
         /\ lr.dispatch.fp # NoId => lr'.dispatch.fp = lr.dispatch.fp
    <3>1. CASE m.arg = "pin"
      BY <2>1, <2>4, <2>5, <3>1
    <3>2. CASE m.arg # "pin"
      BY <2>1, <2>4, <2>5, <2>9, <3>2
    <3> QED
      BY <3>1, <3>2
  <2> QED
    BY <1>1, <1>3, <2>1, <2>5, <2>6, <2>8, <2>9, <2>10 DEF permits
<1> QED
  BY <1>2, <1>3 DEF ClaimTask, refuses, Done

\* What the handlers of the content script's messages and of tab events leave to do.
LEMMA MessagesTask ==
  ASSUME IInv, runOK(lr', used'),
         \/ FinishedTask \/ FinishedReply \/ PhaseTask \/ ClaimTask \/ ClaimReply
         \/ TabRemovedTask \/ TabUrlTask \/ CompleteTask
  PROVE  TaskOK'
<1>0. runOK(lr, used) /\ TaskOK /\ QueueOK /\ sv \in Executions
  BY DEF IInv, TaskOK
<1>1. CASE FinishedReply \/ PhaseTask \/ ClaimReply
  <2>1. up' /\ sv' = Idle
    BY <1>1 DEF FinishedReply, PhaseTask, ClaimReply, Take, At, Done
  <2> QED
    BY <2>1, IdleIs, TaskPlain
<1>2. CASE FinishedTask
  <2>1. PICK m : m = Head(queue)
    OBVIOUS
  <2>2. up'
    BY <1>2 DEF FinishedTask, Take
  <2>3. CASE decides(m)
    BY <2>2, <2>3 DEF decides, TaskOK, Starts, StartsUnwritten, Recoveries
  <2>4. CASE \E reply : replies(m, reply)
    <3>1. sv' = Idle
      BY <2>4 DEF replies
    <3> QED
      BY <2>2, <3>1, IdleIs, TaskPlain
  <2> QED
    BY <1>2, <2>1, <2>3, <2>4, FinishedIs
<1>3. CASE ClaimTask
  <2>1. PICK m : m = Head(queue)
    OBVIOUS
  <2>2. up'
    BY <1>3 DEF ClaimTask, Take
  <2>3. CASE permits(m)
    <3>1. /\ lr'.status = "EXECUTING" /\ sv'.run = lr'.id /\ sv'.arg \in Presses
          /\ ~lr'.dispatch.stop /\ lr'.dispatch.fp # NoId
          /\ sv'.arg = "pin" => lr'.dispatch.pin
          /\ sv' \in Executions /\ sv'.pc = "reply_claim"
      BY <2>3 DEF permits, sameButDispatch
    <3> QED
      BY <2>2, <3>1 DEF TaskOK, Starts, StartsUnwritten, Recoveries
  <2>4. CASE refuses(m)
    <3>1. sv' = Idle
      BY <2>4 DEF refuses
    <3> QED
      BY <2>2, <3>1, IdleIs, TaskPlain
  <2> QED
    BY <1>3, <2>1, <2>3, <2>4, ClaimIs
<1>4. CASE TabRemovedTask \/ TabUrlTask
  <2>1. up' /\ lr' = lr
    BY <1>4 DEF TabRemovedTask, TabUrlTask, Take
  <2>2. CASE sv' = Idle
    BY <2>1, <2>2, IdleIs, TaskPlain
  <2>3. ASSUME NEW t, t = Head(queue).tab, terminateThen(t, NoId, externalState, "idle")
        PROVE  TaskOK'
    <3>1. Head(queue) \in Tasks
      BY <1>0, <1>4, HeadIs DEF TabRemovedTask, TabUrlTask, Take
    <3>2. t \in TabIds
      BY <2>3, <3>1 DEF Tasks
    <3>3. /\ externalState \in TerminalStates
          /\ lr.dispatch.fp # NoId => externalState = "HANDED_OFF"
      BY DEF externalState, isAcknowledgedCompletionClaim, TerminalStates
    <3> QED
      BY <2>1, <2>3, <3>2, <3>3, PcValues, TerminateThenOK
  <2>4. sv' = Idle \/ terminateThen(Head(queue).tab, NoId, externalState, "idle")
    BY <1>4 DEF TabRemovedTask, TabUrlTask, leaveTab, Done
  <2> QED
    BY <2>2, <2>3, <2>4
<1>5. CASE CompleteTask
  <2>1. up' /\ lr' = lr /\ completeTerminal
    BY <1>5 DEF CompleteTask, Take, storage
  <2>2. CASE sv' = Idle
    BY <2>1, <2>2, IdleIs, TaskPlain
  <2>3. CASE lr.status = "TERMINAL" /\ ~lr.effectsDone /\ sv' = [Idle EXCEPT !.pc = "effects"]
    <3>1. sv' \in Executions /\ sv'.pc = "effects"
      BY <2>3, PcValues DEF Idle, Executions
    <3> QED
      BY <2>1, <2>3, <3>1, TaskEffects
  <2> QED
    BY <2>1, <2>2, <2>3 DEF completeTerminal, Done
<1> QED
  BY <1>1, <1>2, <1>3, <1>4, <1>5

\* The run after the background ended it.
ended(state) ==
  /\ lr.id # NoId /\ lr.cur \in AttemptIds
  /\ lr'.id = lr.id /\ lr'.tab = lr.tab /\ lr'.cur = lr.cur /\ lr'.next = NoId
  /\ lr'.status = "TERMINAL" /\ lr'.resetCount = lr.resetCount
  /\ ~lr.effectsDone /\ ~lr'.effectsDone
  /\ lr'.dispatch.fp = lr.dispatch.fp /\ lr'.dispatch.pin = lr.dispatch.pin
  /\ lr'.attempts[lr.cur] = stamped(lr.attempts[lr.cur], state)
  /\ \A a \in AttemptIds : a # lr.cur => lr'.attempts[a] = lr.attempts[a]

LEMMA TerminateIs ==
  ASSUME IInv, Terminate
  PROVE  ended(sv.arg) /\ lrActive /\ sv.arg \in TerminalStates
<1>0. /\ runOK(lr, used) /\ sv \in Executions /\ lrActive /\ sv.arg \in TerminalStates
      /\ lr \in LogicalRuns
  BY DEF IInv, TaskOK, Terminate, At, runOK, attemptsOK
<1>1. lr.id # NoId /\ lr.cur \in AttemptIds /\ ~lr.effectsDone
  BY <1>0, NotNone DEF lrActive, runOK, attemptsOK, statusOK
<1>2. sv.stop \in BOOLEAN
  BY <1>0 DEF Executions
<1>3. PICK run : run = applyBackgroundTerminal(lr, sv.arg)
  OBVIOUS
<1>4. PICK record : record = stamped(lr.attempts[lr.cur], sv.arg)
  OBVIOUS
<1>5. /\ isRun(run, lr.id, lr.tab, "TERMINAL", lr.resetCount, lr.cur,
               [lr.attempts EXCEPT ![lr.cur] = record], NoId, FALSE, lr.effectsDone,
               lr.dispatch)
  BY <1>0, <1>1, <1>3, <1>4, TerminatedIs
<1>6. runOK(run, used)
  BY <1>0, <1>1, <1>3, TerminatedOK
<1>7. lr' = [run EXCEPT !.dispatch.stop = sv.stop] /\ run.id # NoId
  BY <1>1, <1>3, <1>5 DEF Terminate, isRun
<1>8. /\ isRun(lr', run.id, run.tab, run.status, run.resetCount, run.cur, run.attempts,
               run.next, run.dispatched, run.effectsDone, lr'.dispatch)
      /\ lr'.dispatch.fp = run.dispatch.fp /\ lr'.dispatch.pin = run.dispatch.pin
  <2>1. PICK stop \in BOOLEAN : stop = sv.stop
    BY <1>2
  <2>2. PICK after : after = lr'
    OBVIOUS
  <2>3. after = [run EXCEPT !.dispatch.stop = stop]
    BY <1>7, <2>1, <2>2
  <2>4. run \in LogicalRuns
    BY <1>6 DEF runOK, attemptsOK
  <2>5. /\ isRun(after, run.id, run.tab, run.status, run.resetCount, run.cur, run.attempts,
                 run.next, run.dispatched, run.effectsDone, after.dispatch)
        /\ after.dispatch.fp = run.dispatch.fp /\ after.dispatch.pin = run.dispatch.pin
    BY <2>3, <2>4 DEF LogicalRuns, CompletionDispatch, isRun
  <2> QED
    BY <2>2, <2>5
<1>9. \A a \in AttemptIds : run.attempts[a] = IF a = lr.cur THEN record ELSE lr.attempts[a]
  BY <1>0, <1>1, <1>5 DEF isRun, LogicalRuns
<1>10. \A a \in AttemptIds : lr'.attempts[a] = IF a = lr.cur THEN record ELSE lr.attempts[a]
  BY <1>8, <1>9 DEF isRun
<1>11. /\ lr'.id = lr.id /\ lr'.tab = lr.tab /\ lr'.cur = lr.cur /\ lr'.next = NoId
       /\ lr'.status = "TERMINAL" /\ lr'.resetCount = lr.resetCount
       /\ lr'.effectsDone = lr.effectsDone
       /\ lr'.dispatch.fp = lr.dispatch.fp /\ lr'.dispatch.pin = lr.dispatch.pin
  BY <1>5, <1>8 DEF isRun
<1>12. ended(sv.arg)
  BY <1>1, <1>4, <1>10, <1>11 DEF ended
<1> QED
  BY <1>0, <1>12

LEMMA LostIs ==
  ASSUME IInv, ReconcileLost
  PROVE  \E state \in {"HANDED_OFF", "FAILED"} :
           /\ ended(state) /\ lr.status \in {"PREPARING", "EXECUTING"}
           /\ lr.dispatch.fp # NoId => state = "HANDED_OFF"
           /\ sv' \in Executions /\ sv'.pc = "reconcile_project" /\ sv'.arg = state
           /\ sv'.from = NoId
<1>0. /\ runOK(lr, used) /\ lr \in LogicalRuns /\ lr.status \in {"PREPARING", "EXECUTING"}
  BY DEF IInv, ReconcileLost, runOK, attemptsOK
<1>1. lr.id # NoId /\ lr.cur \in AttemptIds /\ ~lr.effectsDone
  BY <1>0, NotNone DEF runOK, attemptsOK, statusOK
<1>2. PICK state \in {"HANDED_OFF", "FAILED"} :
        /\ lr' = applyBackgroundTerminal(lr, state)
        /\ sv' = [Idle EXCEPT !.pc = "reconcile_project", !.arg = state]
        /\ lr.dispatch.fp # NoId => state = "HANDED_OFF"
  BY DEF ReconcileLost, isAcknowledgedCompletionClaim
<1>3. state \in TerminalStates
  BY DEF TerminalStates
<1>4. PICK record : record = stamped(lr.attempts[lr.cur], state)
  OBVIOUS
<1>5. /\ isRun(lr', lr.id, lr.tab, "TERMINAL", lr.resetCount, lr.cur,
               [lr.attempts EXCEPT ![lr.cur] = record], NoId, FALSE, lr.effectsDone,
               lr.dispatch)
  BY <1>0, <1>1, <1>2, <1>3, <1>4, TerminatedIs
<1>6. \A a \in AttemptIds : lr'.attempts[a] = IF a = lr.cur THEN record ELSE lr.attempts[a]
  BY <1>0, <1>1, <1>5 DEF isRun, LogicalRuns
<1>7. ended(state)
  BY <1>1, <1>4, <1>5, <1>6 DEF isRun, ended
<1>8. sv' = [pc |-> "reconcile_project", tab |-> NoId, from |-> NoId, run |-> NoId,
             arg |-> state, stop |-> FALSE, then |-> "idle"]
  BY <1>2 DEF Idle
<1>9. /\ sv' \in Executions /\ sv'.pc = "reconcile_project" /\ sv'.arg = state
      /\ sv'.from = NoId
  BY <1>3, <1>8, PcValues, BeginIs
<1> QED
  BY <1>0, <1>2, <1>7, <1>9

\* The outcome a reconcile finds in the page is decided like one that was delivered.
LEMMA FoundIs ==
  ASSUME IInv, ReconcileOutcome
  PROVE  LET outcome == page[lr.tab].outcome
         IN /\ lr.id # NoId /\ lr.tab \in Tabs /\ lr.cur \in AttemptIds /\ outcome \in Outcomes
            /\ lr.status \in {"PREPARING", "EXECUTING"} /\ lr.attempts[lr.cur] = Undecided
            /\ lr' = applyAttemptOutcome(lr, lr.cur, outcome, early, newId)
            /\ lr'.status = "RECOVERING" => used # AttemptIds
            /\ used' = IF lr'.status = "RECOVERING" THEN used \cup {newId} ELSE used
            /\ sv' \in Executions /\ sv'.from = NoId
            /\ sv'.pc = IF lr'.status = "RECOVERING" THEN "reconcile_recover" ELSE "effects"
<1>0. /\ runOK(lr, used) /\ PageOK /\ lr.status \in {"PREPARING", "EXECUTING"} /\ outcomePending
  BY DEF IInv, ReconcileOutcome
<1>1. lr.id # NoId /\ lr.cur \in AttemptIds /\ lr.tab \in Tabs /\ lr.attempts[lr.cur] = Undecided
  BY <1>0, NotNone DEF runOK, attemptsOK, statusOK
<1>2. page[lr.tab].outcome \in Outcomes
  BY <1>0, <1>1 DEF outcomePending, PageOK, scriptOK
<1>3. PICK next : next = applyAttemptOutcome(lr, lr.cur, page[lr.tab].outcome, early, newId)
  OBVIOUS
<1>4. /\ next.status = "RECOVERING" => used # AttemptIds
      /\ lr' = next
      /\ used' = IF next.status = "RECOVERING" THEN used \cup {newId} ELSE used
      /\ sv' = [Idle EXCEPT !.pc = IF next.status = "RECOVERING" THEN "reconcile_recover"
                                   ELSE "effects"]
  BY <1>3 DEF ReconcileOutcome
<1>5. PICK pc \in {"reconcile_recover", "effects"} :
        pc = IF next.status = "RECOVERING" THEN "reconcile_recover" ELSE "effects"
  OBVIOUS
<1>6. sv' = [pc |-> pc, tab |-> NoId, from |-> NoId, run |-> NoId,
             arg |-> "none", stop |-> FALSE, then |-> "idle"]
  BY <1>4, <1>5 DEF Idle
<1>7. sv' \in Executions /\ sv'.pc = pc /\ sv'.from = NoId
  BY <1>6, PcValues, BeginIs
<1> QED
  BY <1>0, <1>1, <1>2, <1>3, <1>4, <1>5, <1>7

LEMMA EffectsTask ==
  ASSUME IInv, runOK(lr', used'), Terminate \/ Effects \/ EffectsMark \/ ReconcileProject
  PROVE  TaskOK'
<1>0. runOK(lr, used) /\ TaskOK /\ sv \in Executions
  BY DEF IInv, TaskOK
<1>1. CASE Terminate
  <2>1. up' /\ sv' = [sv EXCEPT !.pc = "effects"]
    BY <1>1 DEF Terminate, At, Goto
  <2>2. lr'.status = "TERMINAL" /\ ~lr'.effectsDone
    BY <1>1, TerminateIs DEF ended
  <2>3. sv' \in Executions /\ sv'.pc = "effects"
    BY <1>0, <2>1, PcValues, GotoIs
  <2> QED
    BY <2>1, <2>2, <2>3, TaskEffects
<1>2. ASSUME Effects \/ ReconcileProject, NEW pc \in {"mark", "effects"}, sv' = [sv EXCEPT !.pc = pc]
      PROVE  TaskOK'
  <2>1. up' /\ lr' = lr /\ sv.pc \in {"effects", "reconcile_project"}
    BY <1>2 DEF Effects, ReconcileProject, At, storage
  <2>2. pc \in Pcs
    BY PcValues
  <2>3. sv' \in Executions /\ sv'.pc = pc
    BY <1>0, <1>2, <2>2, GotoIs
  <2> QED
    BY <1>0, <2>1, <2>3, TaskEffects DEF TaskOK
<1>3. CASE EffectsMark
  <2>1. up'
    BY <1>3 DEF EffectsMark, At
  <2>2. sv.then \in {"idle", "stop_send"} /\ sv.tab \in TabIds
    BY <1>0 DEF Executions
  <2>3. CASE sv' = Idle
    BY <2>1, <2>3, IdleIs, TaskPlain
  <2>4. CASE sv.then = "stop_send" /\ sv' = [Idle EXCEPT !.pc = sv.then, !.tab = sv.tab]
    <3>1. sv' = [pc |-> "stop_send", tab |-> sv.tab, from |-> NoId, run |-> NoId,
                 arg |-> "none", stop |-> FALSE, then |-> "idle"]
      BY <2>4 DEF Idle
    <3>2. sv' \in Executions /\ sv'.pc = "stop_send"
      BY <2>2, <3>1, PcValues, BeginIs
    <3> QED
      BY <2>1, <3>2, TaskPlain
  <2> QED
    BY <1>3, <2>2, <2>3, <2>4 DEF EffectsMark
<1> QED
  BY <1>1, <1>2, <1>3 DEF Effects, ReconcileProject, Goto

LEMMA RecoveriesTask ==
  ASSUME IInv, runOK(lr', used'),
         \/ RecoveryTask \/ RecoveryReenter \/ RecoveryStart \/ RecoveryCommit \/ RecoveryFail
         \/ ReconcileSettled \/ ReconcileRunning \/ ReconcileOutcome \/ ReconcileRecover
         \/ ReconcileLost
  PROVE  TaskOK'
<1>0. runOK(lr, used) /\ TaskOK /\ sv \in Executions
  BY DEF IInv, TaskOK
<1>1. CASE RecoveryTask \/ ReconcileRecover
  <2>1. up' /\ executeRecovery
    BY <1>1 DEF RecoveryTask, ReconcileRecover, Take, At
  <2> QED
    BY <1>0, <2>1, RecoveryTaskOK
<1>2. CASE ReconcileSettled
  <2>1. up' /\ (executeRecovery \/ (completeTerminal /\ lr' = lr))
    BY <1>2 DEF ReconcileSettled, Take
  <2>2. CASE sv' = Idle
    BY <2>1, <2>2, IdleIs, TaskPlain
  <2>3. CASE lr' = lr /\ lr.status = "TERMINAL" /\ ~lr.effectsDone /\ sv' = [Idle EXCEPT !.pc = "effects"]
    <3>1. sv' \in Executions /\ sv'.pc = "effects"
      BY <2>3, PcValues DEF Idle, Executions
    <3> QED
      BY <2>1, <2>3, <3>1, TaskEffects
  <2> QED
    BY <1>0, <2>1, <2>2, <2>3, RecoveryTaskOK DEF completeTerminal, Done
<1>3. CASE RecoveryReenter \/ RecoveryStart
  <2>1. /\ up' /\ lr' = lr /\ sv.pc \in Recoveries
        /\ \E pc \in {"recovery_start", "recovery_commit", "recovery_fail"} :
             sv' = [sv EXCEPT !.pc = pc]
    BY <1>3 DEF RecoveryReenter, RecoveryStart, At, Goto, Recoveries, storage
  <2>2. PICK pc \in {"recovery_start", "recovery_commit", "recovery_fail"} :
          sv' = [sv EXCEPT !.pc = pc]
    BY <2>1
  <2>3. pc \in Pcs /\ pc \in Recoveries
    BY DEF Pcs, Recoveries
  <2>4. sv' \in Executions /\ sv'.pc = pc
    BY <1>0, <2>2, <2>3, GotoIs
  <2>5. lr'.status = "RECOVERING"
    BY <1>0, <2>1 DEF TaskOK
  <2> QED
    BY <2>1, <2>3, <2>4, <2>5, TaskRecovery
<1>4. CASE RecoveryCommit \/ ReconcileRunning
  <2>1. up' /\ sv' = Idle
    BY <1>4 DEF RecoveryCommit, ReconcileRunning, Take, At, Done
  <2> QED
    BY <2>1, IdleIs, TaskPlain
<1>5. CASE RecoveryFail
  <2>1. /\ up' /\ lr' = lr /\ lr.status = "RECOVERING"
        /\ sv' = [sv EXCEPT !.pc = "terminate", !.arg = "FAILED", !.stop = lr.dispatch.stop]
    BY <1>0, <1>5 DEF RecoveryFail, At, TaskOK, Recoveries
  <2>2. lr.dispatch.stop \in BOOLEAN
    BY <1>0, NamesUsed
  <2>3. "FAILED" \in Args /\ "FAILED" \in TerminalStates
    BY DEF Args, Outcomes, TerminalStates
  <2>4. sv' \in Executions /\ sv'.pc = "terminate" /\ sv'.arg = "FAILED"
    BY <1>0, <2>1, <2>2, <2>3, PcValues DEF Executions
  <2>5. lrActive' /\ lr'.dispatch.fp = NoId
    BY <1>0, <2>1, NoClaimYet DEF lrActive
  <2> QED
    BY <2>1, <2>3, <2>4, <2>5, TaskTerminate
<1>6. CASE ReconcileOutcome
  <2>1. up'
    BY <1>6 DEF ReconcileOutcome, Take
  <2>2. /\ sv' \in Executions
        /\ sv'.pc = IF lr'.status = "RECOVERING" THEN "reconcile_recover" ELSE "effects"
    BY <1>6, FoundIs
  <2>3. CASE lr'.status = "RECOVERING"
    BY <2>1, <2>2, <2>3, TaskPlain
  <2>4. CASE lr'.status # "RECOVERING"
    <3>1. /\ lr.id # NoId /\ page[lr.tab].outcome \in Outcomes
          /\ lr.attempts[lr.cur] = Undecided /\ lr.status \in {"PREPARING", "EXECUTING"}
          /\ lr' = applyAttemptOutcome(lr, lr.cur, page[lr.tab].outcome, early, newId)
          /\ lr'.status = "RECOVERING" => used # AttemptIds
      BY <1>6, FoundIs
    <3>2. lr.attempts[lr.cur].decision = "none" /\ ~lr.effectsDone
      BY <1>0, <3>1 DEF Undecided, runOK, statusOK
    <3>3. lr'.status \in {"RECOVERING", "TERMINAL"} /\ lr'.effectsDone = lr.effectsDone
      BY <1>0, <3>1, <3>2, OutcomeIs
    <3> QED
      BY <2>1, <2>2, <2>4, <3>2, <3>3, TaskEffects
  <2> QED
    BY <2>3, <2>4
<1>7. CASE ReconcileLost
  <2>1. up'
    BY <1>7 DEF ReconcileLost, Take
  <2>2. PICK state \in {"HANDED_OFF", "FAILED"} :
          /\ ended(state) /\ sv' \in Executions /\ sv'.pc = "reconcile_project"
          /\ sv'.arg = state
    BY <1>7, LostIs
  <2>3. lr'.status = "TERMINAL" /\ ~lr'.effectsDone /\ sv'.arg \in TerminalStates
    BY <2>2 DEF ended, TerminalStates
  <2> QED
    BY <2>1, <2>2, <2>3, TaskEffects
<1> QED
  BY <1>1, <1>2, <1>3, <1>4, <1>5, <1>6, <1>7

\* What the recorder, a content script, the user and time do to the running task.
LEMMA OthersTask ==
  ASSUME IInv, Next, lr' = lr, used' = used,
         \/ RecorderStep \/ (\E t \in Tabs : PageStep(t)) \/ UserStep
         \/ Tick \/ Sleep \/ Crash \/ Boot
  PROVE  TaskOK'
<1>0. TaskOK /\ QueueOK /\ sv \in Executions /\ queue \in Seq(Tasks)
  BY DEF IInv, TaskOK, QueueOK, messagesOK
<1>1. CASE sv' = sv /\ up' = up /\ (up \/ queue' = queue)
  BY <1>0, <1>1 DEF TaskOK, lrActive
<1>2. CASE RecorderStep \/ Tick
  <2>1. sv' = sv /\ up' = up /\ queue' = queue
    BY <1>2 DEF RecorderStep, RecordEvent, RecordKept, RecorderWrite, Tick, worker
  <2> QED
    BY <1>1, <2>1
<1>3. ASSUME NEW t \in Tabs, PageStep(t) PROVE TaskOK'
  <2>1. CASE PageExecute(t) \/ PageClaimPin(t) \/ PageDeliver(t)
    BY <1>1, <2>1 DEF PageExecute, PageClaimPin, PageDeliver, room
  <2>2. CASE PageClaimed(t) \/ PageDelivered(t)
    BY <1>1, <2>2 DEF PageClaimed, PageDelivered, worker
  <2>3. ASSUME NEW fp \in Fingerprints, PageClaimOuter(t, fp) PROVE TaskOK'
    BY <1>1, <2>3 DEF PageClaimOuter, room
  <2>4. ASSUME NEW state \in EventStates, PageEmit(t, state) PROVE TaskOK'
    BY <1>1, <2>4 DEF PageEmit, worker
  <2>5. ASSUME NEW outcome \in Outcomes, PageFinish(t, outcome) PROVE TaskOK'
    BY <1>1, <2>5 DEF PageFinish, worker
  <2> QED
    BY <1>3, <2>1, <2>2, <2>3, <2>4, <2>5 DEF PageStep
<1>4. ASSUME NEW t \in Tabs, sv' = orphan(sv, t), up' = up, up \/ queue' = orphans(t)
      PROVE  TaskOK'
  <2>1. /\ sv' \in Executions /\ sv'.pc = sv.pc /\ sv'.run = sv.run /\ sv'.tab = sv.tab
        /\ sv'.arg = sv.arg
    BY <1>0, <1>4, OrphanTaskIs
  <2>2. ~up => queue' = <<>>
    <3>1. ASSUME ~up PROVE queue' = <<>>
      <4>1. queue = <<>> /\ queue' = orphans(t)
        BY <1>0, <1>4, <3>1 DEF TaskOK
      <4>2. orphans(t) \in Seq(Tasks) /\ Len(orphans(t)) = Len(queue)
        BY <1>0, OrphansIs
      <4> QED
        BY <4>1, <4>2
    <3> QED
      BY <3>1
  <2> QED
    BY <1>0, <1>4, <2>1, <2>2 DEF TaskOK, lrActive
<1>5. CASE UserStep
  <2>1. CASE RequestStop \/ ClearRunEvents \/ \E t \in Tabs : RequestStart(t)
    <3>1. sv' = sv /\ up' = up /\ up
      BY <2>1 DEF RequestStop, ClearRunEvents, RequestStart, worker, room
    <3> QED
      BY <1>1, <3>1
  <2>2. ASSUME NEW t \in Tabs, CloseTab(t) PROVE TaskOK'
    <3>1. sv' = orphan(sv, t) /\ up' = up /\ up
      BY <2>2 DEF CloseTab, dropWaits, room
    <3> QED
      BY <1>4, <3>1
  <2>3. ASSUME NEW t \in Tabs, Reload(t) PROVE TaskOK'
    <3>1. sv' = orphan(sv, t) /\ up' = up /\ queue' = orphans(t)
      BY <2>3 DEF Reload, dropWaits
    <3> QED
      BY <1>4, <3>1
  <2>4. ASSUME NEW t \in Tabs, NEW where \in {"left", "planned"}, ChangeUrl(t, where)
        PROVE  TaskOK'
    <3>1. up' = up /\ up /\ (sv' = sv \/ sv' = orphan(sv, t))
      BY <2>4 DEF ChangeUrl, dropWaits, room
    <3> QED
      BY <1>1, <1>4, <3>1
  <2> QED
    BY <1>5, <2>1, <2>2, <2>3, <2>4 DEF UserStep
<1>6. CASE Sleep
  <2>1. sv' = sv /\ sv.pc = "idle" /\ queue' = <<>>
    BY <1>6 DEF Sleep
  <2> QED
    BY <1>0, <2>1 DEF TaskOK, Starts, StartsUnwritten, Recoveries
<1>7. CASE Crash
  <2>1. sv' = Idle /\ queue' = <<>>
    BY <1>7 DEF Crash
  <2>2. sv' \in Executions /\ sv'.pc = "idle"
    BY <2>1, IdleIs
  <2> QED
    BY <2>1, <2>2 DEF TaskOK, Starts, StartsUnwritten, Recoveries
<1>8. CASE Boot
  <2>1. up' /\ sv' = sv /\ sv.pc = "idle"
    BY <1>0, <1>8 DEF Boot, TaskOK
  <2> QED
    BY <1>0, <2>1, TaskPlain
<1> QED
  BY <1>2, <1>3, <1>5, <1>6, <1>7, <1>8

LEMMA TaskStep ==
  ASSUME IInv, [Next]_vars
  PROVE  TaskOK'
<1>0. runOK(lr', used')
  BY RunStep
<1>1. CASE SupervisorStep
  BY <1>0, <1>1, StartsTask, StopsTask, MessagesTask, EffectsTask, RecoveriesTask
  DEF SupervisorStep
<1>2. CASE vars' = vars
  BY <1>2 DEF IInv, TaskOK, lrActive, vars, storage, worker
<1>3. CASE Next /\ ~SupervisorStep
  <2>1. lr' = lr /\ used' = used
    BY <1>3, OthersKeepRun
  <2> QED
    BY <1>3, <2>1, OthersTask DEF Next
<1> QED
  BY <1>1, <1>2, <1>3

-----------------------------------------------------------------------------
(* What a step does to the logical run *)

\* The run goes on: what was decided and what was permitted stays.
goesOn(run, after) ==
  /\ after.id = run.id /\ after.tab = run.tab
  /\ after.cur \in {run.cur, run.next}
  /\ after.next \in {run.next, NoId} \cup (AttemptIds \ used)
  /\ run.dispatch.fp # NoId => after.dispatch.fp = run.dispatch.fp
  /\ run.dispatch.pin => after.dispatch.pin
  /\ \A a \in AttemptIds : run.attempts[a].decision # "none" => after.attempts[a] = run.attempts[a]
  /\ run.status = "TERMINAL" => after.status = "TERMINAL"
  /\ run.effectsDone => after.effectsDone

\* A start writes a run of its own, or takes back the one that did not come about.
replaced ==
  \/ StartCommit
  \/ StartDiscard /\ lr' = NoRun /\ lr.cur = sv.run

LEMMA GoesOnFields ==
  ASSUME NEW run, NEW after, after.id = run.id, after.tab = run.tab, after.cur = run.cur,
         after.next \in {run.next, NoId}, after.attempts = run.attempts,
         after.dispatch = run.dispatch \/ (/\ after.dispatch.fp = run.dispatch.fp
                                           /\ after.dispatch.pin = run.dispatch.pin),
         run.status = "TERMINAL" => after.status = "TERMINAL",
         run.effectsDone => after.effectsDone
  PROVE  goesOn(run, after)
BY DEF goesOn

\* A decided outcome.
LEMMA OutcomeGoesOn ==
  ASSUME runOK(lr, used), runOK(lr', used'), lr.id # NoId,
         lr.attempts[lr.cur].decision = "none", NEW outcome \in Outcomes,
         lr' = applyAttemptOutcome(lr, lr.cur, outcome, early, newId),
         lr'.status = "RECOVERING" => used # AttemptIds
  PROVE  goesOn(lr, lr')
<1>1. /\ lr'.id = lr.id /\ lr'.tab = lr.tab /\ lr'.cur = lr.cur
      /\ lr'.effectsDone = lr.effectsDone /\ lr'.dispatch = lr.dispatch
      /\ \A a \in AttemptIds : a # lr.cur => lr'.attempts[a] = lr.attempts[a]
      /\ lr'.status \in {"RECOVERING", "TERMINAL"}
      /\ lr'.status = "RECOVERING" => lr.status = "PREPARING" /\ lr'.next = newId
  BY OutcomeIs
<1>2. lr'.next # NoId => lr'.status = "RECOVERING"
  BY DEF runOK, statusOK
<1>3. lr'.status = "RECOVERING" => newId \in AttemptIds \ used
  BY NewId DEF runOK
<1> QED
  BY <1>1, <1>2, <1>3 DEF goesOn

LEMMA EndedGoesOn ==
  ASSUME NEW state, ended(state)
  PROVE  goesOn(lr, lr')
BY DEF ended, goesOn, stamped

LEMMA RunMoves ==
  ASSUME IInv, [Next]_vars
  PROVE  lr' = lr \/ replaced \/ (lr.id # NoId /\ goesOn(lr, lr'))
<1>0. runOK(lr, used) /\ runOK(lr', used') /\ TaskOK /\ lr \in LogicalRuns
  BY RunStep DEF IInv, runOK, attemptsOK
<1>1. CASE StopClaimed \/ StopRunning
  <2>1. lr' = lr \/ (lr' = requestCompletionStop(lr) /\ lr.id # NoId)
    BY <1>0, <1>1, NotNone DEF StopClaimed, StopRunning, isAcknowledgedCompletionClaim
  <2>2. CASE lr' = requestCompletionStop(lr) /\ lr.id # NoId
    <3>1. isRun(lr', lr.id, lr.tab, lr.status, lr.resetCount,
                lr.cur, lr.attempts, lr.next, lr.dispatched, lr.effectsDone,
                [fp |-> lr.dispatch.fp, pin |-> lr.dispatch.pin, stop |-> TRUE])
      BY <1>0, <2>2, StopRequestedIs
    <3>2. lr'.dispatch.fp = lr.dispatch.fp /\ lr'.dispatch.pin = lr.dispatch.pin
      BY <3>1 DEF isRun
    <3>3. goesOn(lr, lr')
      BY <3>1, <3>2, GoesOnFields DEF isRun
    <3> QED
      BY <2>2, <3>3
  <2> QED
    BY <2>1, <2>2
<1>2. CASE FinishedTask
  <2>1. PICK m : m = Head(queue)
    OBVIOUS
  <2>2. CASE decides(m)
    BY <1>0, <2>2, OutcomeGoesOn DEF decides
  <2>3. CASE \E reply : replies(m, reply)
    BY <2>3 DEF replies
  <2> QED
    BY <1>2, <2>1, <2>2, <2>3, FinishedIs
<1>3. CASE PhaseTask
  <2>1. lr' = lr \/ \E a, phase : lr' = applyPhaseChange(lr, a, phase) /\ lr.id # NoId
    BY <1>3 DEF PhaseTask
  <2>2. ASSUME NEW a, NEW phase, lr' = applyPhaseChange(lr, a, phase), lr' # lr
        PROVE  goesOn(lr, lr')
    <3>1. /\ lr.status = "PREPARING"
          /\ isRun(lr', lr.id, lr.tab, "EXECUTING", lr.resetCount, lr.cur, lr.attempts, lr.next,
                   lr.dispatched, lr.effectsDone, lr.dispatch)
      BY <1>0, <2>2, PhasedIs
    <3> QED
      BY <3>1, GoesOnFields DEF isRun
  <2> QED
    BY <2>1, <2>2
<1>4. CASE ClaimTask
  <2>1. PICK m : m = Head(queue)
    OBVIOUS
  <2>2. CASE permits(m)
    BY <2>2 DEF permits, sameButDispatch, goesOn
  <2>3. CASE refuses(m)
    BY <2>3 DEF refuses
  <2> QED
    BY <1>4, <2>1, <2>2, <2>3, ClaimIs
<1>5. CASE Terminate
  <2>1. ended(sv.arg)
    BY <1>5, TerminateIs
  <2> QED
    BY <2>1, EndedGoesOn DEF ended
<1>6. CASE EffectsMark
  <2>1. lr' = markTerminalEffectsCompleted(lr) /\ lr.status = "TERMINAL"
    BY <1>0, <1>6 DEF EffectsMark, At, TaskOK
  <2>2. isRun(lr', lr.id, lr.tab, lr.status, lr.resetCount, lr.cur, lr.attempts, lr.next,
              lr.dispatched, TRUE, lr.dispatch)
    BY <1>0, <2>1, MarkedIs
  <2>3. goesOn(lr, lr')
    BY <2>2, GoesOnFields DEF isRun
  <2> QED
    BY <1>0, <2>1, <2>3, NotNone
<1>7. CASE RecoveryTask \/ ReconcileRecover \/ (ReconcileSettled /\ executeRecovery)
  <2>1. executeRecovery
    BY <1>7 DEF RecoveryTask, ReconcileRecover
  <2>2. lr' = lr \/ (/\ lr.status = "RECOVERING"
                     /\ \/ lr' = applyRecoveryLapse(lr) \/ lr' = markRecoveryDispatched(lr))
    BY <1>0, <2>1, RecoveryIs
  <2>3. CASE lr.status = "RECOVERING" /\ lr' = applyRecoveryLapse(lr)
    <3>1. isRun(lr', lr.id, lr.tab, "TERMINAL", lr.resetCount, lr.cur,
                lr.attempts, NoId, FALSE, lr.effectsDone, lr.dispatch)
      BY <1>0, <2>3, LapsedIs
    <3>2. goesOn(lr, lr')
      BY <3>1, GoesOnFields DEF isRun
    <3> QED
      BY <1>0, <2>3, <3>2, NoClaimYet
  <2>4. CASE lr.status = "RECOVERING" /\ lr' = markRecoveryDispatched(lr)
    <3>1. isRun(lr', lr.id, lr.tab, lr.status, lr.resetCount,
                lr.cur, lr.attempts, lr.next, TRUE, lr.effectsDone, lr.dispatch)
      BY <1>0, <2>4, DispatchedIs
    <3>2. goesOn(lr, lr')
      BY <3>1, GoesOnFields DEF isRun
    <3> QED
      BY <1>0, <2>4, <3>2, NoClaimYet
  <2> QED
    BY <2>2, <2>3, <2>4
<1>8. CASE RecoveryCommit
  <2>1. lr' = beginNextAttempt(lr) /\ lr.status = "RECOVERING"
    BY <1>0, <1>8 DEF RecoveryCommit, At, TaskOK, Recoveries
  <2>2. lr.next \in AttemptIds /\ lr.id # NoId /\ lr.next \notin {lr.id, lr.cur}
    BY <1>0, <2>1, NoClaimYet DEF runOK, statusOK
  <2>3. isRun(lr', lr.id, lr.tab, "PREPARING", lr.resetCount, lr.next,
              [lr.attempts EXCEPT ![lr.next] = Undecided], NoId, FALSE, lr.effectsDone,
              lr.dispatch)
    BY <1>0, <2>1, <2>2, BegunIs
  <2>4. lr.attempts[lr.next] = Absent
    BY <1>0, <2>2 DEF runOK, attemptsOK
  <2>5. \A a \in AttemptIds : lr.attempts[a].decision # "none" => lr'.attempts[a] = lr.attempts[a]
    BY <1>0, <2>2, <2>3, <2>4 DEF isRun, LogicalRuns, Absent
  <2>6. goesOn(lr, lr')
    BY <2>1, <2>3, <2>5 DEF isRun, goesOn
  <2> QED
    BY <2>2, <2>6
<1>9. CASE ReconcileOutcome
  <2>1. /\ lr.id # NoId /\ page[lr.tab].outcome \in Outcomes
        /\ lr.attempts[lr.cur] = Undecided
        /\ lr' = applyAttemptOutcome(lr, lr.cur, page[lr.tab].outcome, early, newId)
        /\ lr'.status = "RECOVERING" => used # AttemptIds
    BY <1>9, FoundIs
  <2> QED
    BY <1>0, <2>1, OutcomeGoesOn DEF Undecided
<1>10. CASE ReconcileLost
  <2>1. PICK state : ended(state)
    BY <1>10, LostIs
  <2> QED
    BY <2>1, EndedGoesOn DEF ended
<1>11. CASE StartCommit \/ StartDiscard \/ (ReconcileSettled /\ ~executeRecovery)
  BY <1>11 DEF StartCommit, StartDiscard, ReconcileSettled, replaced
<1>12. CASE \/ StartTask \/ StartNavigate \/ StartInject \/ StartSend \/ StartFail \/ StopNothing
            \/ StopPreparing \/ StopDelivered \/ StopUndelivered \/ StopSend \/ FinishedReply
            \/ ClaimReply \/ TabRemovedTask \/ TabUrlTask \/ Effects \/ CompleteTask
            \/ RecoveryReenter \/ RecoveryStart \/ RecoveryFail \/ ReconcileRunning
            \/ ReconcileProject \/ vars' = vars
  BY <1>12 DEF StartTask, StartNavigate, StartInject, StartSend, StartFail, StopNothing,
      StopPreparing, StopDelivered, StopUndelivered, StopSend, FinishedReply, ClaimReply,
      TabRemovedTask, TabUrlTask, Effects, CompleteTask, RecoveryReenter, RecoveryStart,
      RecoveryFail, ReconcileRunning, ReconcileProject, storage, vars
<1>13. CASE SupervisorStep
  BY <1>1, <1>2, <1>3, <1>4, <1>5, <1>6, <1>7, <1>8, <1>9, <1>10, <1>11, <1>12, <1>13
  DEF SupervisorStep
<1> QED
  BY <1>12, <1>13, OthersKeepRun

-----------------------------------------------------------------------------
(* The pages: which document and which part of its script a step moves *)

\* Only the document of tab t moves.
updates(t) == page' \in [Tabs -> PageType] /\ \A u \in Tabs : u # t => page'[u] = page[u]

\* The script but for its abort signal and the message it waits for.
sameScript(p, q) ==
  /\ q.doc = p.doc /\ q.attempt = p.attempt /\ q.run = p.run /\ q.running = p.running
  /\ q.phase = p.phase /\ q.outcome = p.outcome /\ q.step = p.step /\ q.fp = p.fp
sameCall(p, q) == q.wait = p.wait /\ q.reply = p.reply

\* A document without a script, or one that has not been started.
bare(p) == /\ p.attempt = NoId /\ p.run = NoId /\ ~p.running /\ p.wait = "none" /\ p.reply = "none"
           /\ p.phase = "none" /\ p.step = "none"

answered(t, reply) ==
  IF t = NoId THEN page' = page
  ELSE /\ t \in Tabs /\ updates(t) /\ sameScript(page[t], page'[t])
       /\ page'[t].wait = page[t].wait /\ page'[t].reply = reply

aborted(t) ==
  IF t \notin Tabs THEN page' = page
  ELSE updates(t) /\ sameScript(page[t], page'[t]) /\ sameCall(page[t], page'[t])

LEMMA UpdateIs ==
  ASSUME page \in [Tabs -> PageType], NEW t \in Tabs, NEW X \in PageType,
         page' = [page EXCEPT ![t] = X]
  PROVE  updates(t) /\ page'[t] = X
BY DEF updates

Replies == {"none", "failed", "refused", "granted"} \cup Decisions

LEMMA AnswerIs ==
  ASSUME page \in [Tabs -> PageType], NEW t \in TabIds, NEW reply \in Replies, answer(t, reply)
  PROVE  answered(t, reply)
<1>1. CASE t = NoId
  BY <1>1 DEF answer, answered
<1>2. CASE t # NoId
  <2>1. t \in Tabs /\ page[t] \in PageType
    BY <1>2 DEF TabIds
  <2>2. PICK X : X = [page[t] EXCEPT !.reply = reply]
    OBVIOUS
  <2>3. X \in PageType /\ sameScript(page[t], X) /\ X.wait = page[t].wait /\ X.reply = reply
    BY <2>1, <2>2 DEF PageType, Replies, sameScript
  <2>4. page' = [page EXCEPT ![t] = X]
    BY <1>2, <2>1, <2>2 DEF answer
  <2>5. updates(t) /\ page'[t] = X
    BY <2>1, <2>3, <2>4, UpdateIs
  <2> QED
    BY <1>2, <2>1, <2>3, <2>5 DEF answered
<1> QED
  BY <1>1, <1>2

LEMMA AbortIs ==
  ASSUME page \in [Tabs -> PageType], NEW t, abortPage(t)
  PROVE  aborted(t)
<1>1. CASE t \notin Tabs
  BY <1>1 DEF abortPage, aborted
<1>2. CASE t \in Tabs
  <2>1. PICK abort : abort = (page[t].abort \/ (page[t].running /\ page[t].phase # "FINISHING"))
    OBVIOUS
  <2>2. abort \in BOOLEAN /\ page[t] \in PageType
    BY <1>2, <2>1
  <2>3. PICK X : X = [page[t] EXCEPT !.abort = abort]
    OBVIOUS
  <2>4. X \in PageType /\ sameScript(page[t], X) /\ sameCall(page[t], X)
    BY <2>2, <2>3 DEF PageType, sameScript, sameCall
  <2>5. page' = [page EXCEPT ![t] = X]
    BY <1>2, <2>1, <2>3 DEF abortPage
  <2>6. updates(t) /\ page'[t] = X
    BY <1>2, <2>4, <2>5, UpdateIs
  <2> QED
    BY <1>2, <2>4, <2>6 DEF aborted
<1> QED
  BY <1>1, <1>2

LEMMA BareIs ==
  /\ Blank \in PageType /\ bare(Blank) /\ Blank.doc = "blank"
  /\ Closed \in PageType /\ bare(Closed) /\ Closed.doc = "closed"
  /\ Injected \in PageType /\ bare(Injected) /\ Injected.doc = "live"
<1>1. 0 \in 0..Tries
  BY DEF Tries
<1>2. NoId \in Ids
  BY PcValues
<1>3. ASSUME NEW doc \in {"blank", "live", "closed"}, NEW p,
             p = [doc |-> doc, attempt |-> NoId, run |-> NoId, phase |-> "none",
                  running |-> FALSE, abort |-> FALSE, outcome |-> "none", pending |-> FALSE,
                  tries |-> 0, wait |-> "none", reply |-> "none", step |-> "none", fp |-> NoId]
      PROVE  p \in PageType /\ bare(p) /\ p.doc = doc
  <2>1. p \in PageType
    BY <1>1, <1>2, <1>3 DEF PageType
  <2>2. bare(p) /\ p.doc = doc
    BY <1>3 DEF bare
  <2> QED
    BY <2>1, <2>2
<1>4. Blank \in PageType /\ bare(Blank) /\ Blank.doc = "blank"
  BY <1>3 DEF Blank
<1>5. Closed \in PageType /\ bare(Closed) /\ Closed.doc = "closed"
  BY <1>3 DEF Blank, Closed
<1>6. Injected \in PageType /\ bare(Injected) /\ Injected.doc = "live"
  BY <1>3 DEF Blank, Injected
<1> QED
  BY <1>4, <1>5, <1>6

LEMMA StartedIs ==
  ASSUME NEW a \in AttemptIds, NEW run \in AttemptIds
  PROVE  LET p == Started(a, run)
         IN /\ p \in PageType /\ p.doc = "live" /\ p.attempt = a /\ p.run = run /\ p.running
            /\ p.phase = "PREPARING" /\ p.wait = "none" /\ p.reply = "none" /\ p.step = "none"
<1>1. a \in Ids /\ run \in Ids
  BY PcValues
<1>2. /\ Injected \in PageType /\ Injected.doc = "live" /\ Injected.wait = "none"
      /\ Injected.reply = "none" /\ Injected.step = "none"
  BY BareIs DEF bare
<1>3. PICK p : p = Started(a, run)
  OBVIOUS
<1>4. PICK q : q = Injected
  OBVIOUS
<1>5. p = [q EXCEPT !.attempt = a, !.run = run, !.phase = "PREPARING", !.running = TRUE]
  BY <1>3, <1>4 DEF Started
<1>6. /\ p \in PageType
      /\ p.doc = q.doc /\ p.attempt = a /\ p.run = run /\ p.running
      /\ p.phase = "PREPARING" /\ p.wait = q.wait /\ p.reply = q.reply /\ p.step = q.step
  BY <1>1, <1>2, <1>4, <1>5 DEF PageType
<1> QED
  BY <1>2, <1>3, <1>4, <1>6

\* The attempt the script drives.
sameAttempt(p, q) ==
  q.doc = p.doc /\ q.attempt = p.attempt /\ q.run = p.run

\* A script goes on to execute.
executes(t) ==
  /\ updates(t) /\ page[t].running /\ page[t].phase = "PREPARING" /\ page'[t].phase = "EXECUTING"
  /\ sameAttempt(page[t], page'[t]) /\ sameCall(page[t], page'[t])
  /\ page'[t].running /\ page'[t].outcome = page[t].outcome
  /\ page'[t].step = page[t].step /\ page'[t].fp = page[t].fp

LEMMA ExecutesIs ==
  ASSUME page \in [Tabs -> PageType], NEW t \in Tabs, PageExecute(t)
  PROVE  executes(t)
<1>1. page[t] \in PageType
  OBVIOUS
<1>2. PICK X : X = [page[t] EXCEPT !.phase = "EXECUTING"]
  OBVIOUS
<1>3. /\ X \in PageType /\ X.phase = "EXECUTING" /\ X.running = page[t].running
      /\ X.outcome = page[t].outcome /\ X.step = page[t].step /\ X.fp = page[t].fp
      /\ sameAttempt(page[t], X) /\ sameCall(page[t], X)
  BY <1>1, <1>2 DEF PageType, sameAttempt, sameCall
<1>4. page' = [page EXCEPT ![t] = X]
  BY <1>2 DEF PageExecute
<1>5. updates(t) /\ page'[t] = X
  BY <1>3, <1>4, UpdateIs
<1> QED
  BY <1>3, <1>5 DEF executes, PageExecute

\* A script sends a message and waits for its answer.
calls(t, m) ==
  /\ updates(t) /\ page[t].running /\ page'[t].running /\ page[t].wait = "none"
  /\ sameAttempt(page[t], page'[t])
  /\ page'[t].phase = page[t].phase /\ page'[t].outcome = page[t].outcome
  /\ m \in Tasks /\ messageOK(m) /\ m.from = t /\ awaits(page'[t], m)
  /\ m.run = page[t].run /\ m.attempt = page[t].attempt
  /\ \/ /\ m.op = "claim" /\ m.arg = "outer" /\ page[t].phase = "EXECUTING"
        /\ page[t].step = "none" /\ page'[t].step = "outer" /\ page'[t].fp \in Fingerprints
     \/ /\ m.op = "claim" /\ m.arg = "pin" /\ page[t].phase = "EXECUTING"
        /\ page[t].step = "outer_done" /\ page'[t].step = "pin"
     \/ /\ m.op = "finished" /\ m.arg = page[t].outcome /\ page[t].phase = "FINISHING"
        /\ page'[t].step = page[t].step /\ page'[t].fp = page[t].fp
  /\ room /\ queue' = Append(queue, m) /\ sv' = sv /\ lr' = lr

LEMMA OuterCallIs ==
  ASSUME PageOK, used \subseteq AttemptIds, NEW t \in Tabs, NEW fp \in Fingerprints,
         PageClaimOuter(t, fp)
  PROVE  \E m : calls(t, m)
<1>1. /\ page \in [Tabs -> PageType] /\ page[t] \in PageType
      /\ page[t].running /\ page[t].wait = "none" /\ page[t].reply = "none"
      /\ page[t].phase = "EXECUTING" /\ page[t].step = "none"
  BY DEF PageOK, scriptOK, PageClaimOuter, executing
<1>2. PICK X : X = [page[t] EXCEPT !.step = "outer", !.fp = fp, !.wait = "claim"]
  OBVIOUS
<1>3. /\ X \in PageType /\ X.phase = page[t].phase /\ X.running = page[t].running
      /\ X.outcome = page[t].outcome /\ X.step = "outer" /\ X.fp = fp
      /\ X.wait = "claim" /\ X.reply = page[t].reply /\ sameAttempt(page[t], X)
  BY <1>1, <1>2 DEF PageType, sameAttempt
<1>4. page' = [page EXCEPT ![t] = X]
  BY <1>1, <1>2 DEF PageClaimOuter
<1>5. updates(t) /\ page'[t] = X
  BY <1>1, <1>3, <1>4, UpdateIs
<1>6. PICK m : m = message("claim", t, t, "outer", fp)
  OBVIOUS
<1>7. "outer" \in Args \cup {"EXECUTING"} /\ "outer" \in Presses
  BY DEF Args, Presses
<1>8. /\ m \in Tasks /\ m.op = "claim" /\ m.run \in AttemptIds /\ m.attempt \in AttemptIds
      /\ m.arg = "outer" /\ m.fp = fp /\ m.from = t
      /\ m.run = page[t].run /\ m.attempt = page[t].attempt
  BY <1>1, <1>6, <1>7, MessageIs
<1>9. messageOK(m)
  BY <1>7, <1>8 DEF messageOK
<1>10. awaits(page'[t], m)
  BY <1>1, <1>3, <1>5, <1>8 DEF awaits, sameAttempt
<1>11. room /\ queue' = Append(queue, m) /\ sv' = sv /\ lr' = lr
  BY <1>6 DEF PageClaimOuter, enqueue, storage
<1>12. calls(t, m)
  BY <1>1, <1>3, <1>5, <1>8, <1>9, <1>10, <1>11 DEF calls
<1> QED
  BY <1>12

LEMMA PinCallIs ==
  ASSUME PageOK, used \subseteq AttemptIds, NEW t \in Tabs, PageClaimPin(t)
  PROVE  \E m : calls(t, m)
<1>1. /\ page \in [Tabs -> PageType] /\ page[t] \in PageType
      /\ page[t].running /\ page[t].wait = "none" /\ page[t].reply = "none"
      /\ page[t].phase = "EXECUTING" /\ page[t].step = "outer_done"
  BY DEF PageOK, scriptOK, PageClaimPin, executing
<1>2. PICK X : X = [page[t] EXCEPT !.step = "pin", !.wait = "claim"]
  OBVIOUS
<1>3. /\ X \in PageType /\ X.phase = page[t].phase /\ X.running = page[t].running
      /\ X.outcome = page[t].outcome /\ X.step = "pin"
      /\ X.wait = "claim" /\ X.reply = page[t].reply /\ sameAttempt(page[t], X)
  BY <1>1, <1>2 DEF PageType, sameAttempt
<1>4. page' = [page EXCEPT ![t] = X]
  BY <1>1, <1>2 DEF PageClaimPin
<1>5. updates(t) /\ page'[t] = X
  BY <1>1, <1>3, <1>4, UpdateIs
<1>6. PICK m : m = message("claim", t, t, "pin", page[t].fp)
  OBVIOUS
<1>7. "pin" \in Args \cup {"EXECUTING"} /\ "pin" \in Presses
  BY DEF Args, Presses
<1>8. PICK fp \in Fingerprints \cup {NoId} : fp = page[t].fp
  BY <1>1 DEF PageType
<1>9. /\ m \in Tasks /\ m.op = "claim" /\ m.run \in AttemptIds /\ m.attempt \in AttemptIds
      /\ m.arg = "pin" /\ m.from = t
      /\ m.run = page[t].run /\ m.attempt = page[t].attempt
  BY <1>1, <1>6, <1>7, <1>8, MessageIs
<1>10. messageOK(m)
  BY <1>7, <1>9 DEF messageOK
<1>11. awaits(page'[t], m)
  BY <1>1, <1>3, <1>5, <1>9 DEF awaits, sameAttempt
<1>12. room /\ queue' = Append(queue, m) /\ sv' = sv /\ lr' = lr
  BY <1>6 DEF PageClaimPin, enqueue, storage
<1>13. calls(t, m)
  BY <1>1, <1>3, <1>5, <1>9, <1>10, <1>11, <1>12 DEF calls
<1> QED
  BY <1>13

LEMMA DeliverCallIs ==
  ASSUME PageOK, used \subseteq AttemptIds, NEW t \in Tabs, PageDeliver(t)
  PROVE  \E m : calls(t, m)
<1>1. /\ page \in [Tabs -> PageType] /\ page[t] \in PageType
      /\ page[t].running /\ page[t].wait = "none" /\ page[t].reply = "none"
      /\ page[t].phase = "FINISHING" /\ page[t].outcome \in Outcomes
      /\ page[t].tries < Tries
  BY DEF PageOK, scriptOK, PageDeliver
<1>2. PICK X : X = [page[t] EXCEPT !.pending = TRUE, !.tries = page[t].tries + 1,
                                   !.wait = "finished"]
  OBVIOUS
<1>3. /\ X \in PageType /\ X.phase = page[t].phase /\ X.running = page[t].running
      /\ X.outcome = page[t].outcome /\ X.step = page[t].step /\ X.fp = page[t].fp
      /\ X.wait = "finished" /\ X.reply = page[t].reply /\ sameAttempt(page[t], X)
  <2>1. page[t].tries + 1 \in 0..Tries
    BY <1>1 DEF PageType, Tries
  <2> QED
    BY <1>1, <1>2, <2>1 DEF PageType, sameAttempt
<1>4. page' = [page EXCEPT ![t] = X]
  BY <1>1, <1>2 DEF PageDeliver
<1>5. updates(t) /\ page'[t] = X
  BY <1>1, <1>3, <1>4, UpdateIs
<1>6. PICK m : m = message("finished", t, t, page[t].outcome, NoId)
  OBVIOUS
<1>7. PICK outcome \in Args \cup {"EXECUTING"} : outcome = page[t].outcome
  BY <1>1 DEF Args
<1>8. /\ m \in Tasks /\ m.op = "finished" /\ m.run \in AttemptIds /\ m.attempt \in AttemptIds
      /\ m.arg = outcome /\ m.from = t
      /\ m.run = page[t].run /\ m.attempt = page[t].attempt
  BY <1>1, <1>6, <1>7, MessageIs
<1>9. messageOK(m)
  BY <1>1, <1>7, <1>8 DEF messageOK
<1>10. awaits(page'[t], m)
  BY <1>1, <1>3, <1>5, <1>8 DEF awaits, sameAttempt
<1>11. room /\ queue' = Append(queue, m) /\ sv' = sv /\ lr' = lr
  BY <1>6 DEF PageDeliver, enqueue, storage
<1>12. calls(t, m)
  BY <1>1, <1>3, <1>5, <1>7, <1>8, <1>9, <1>10, <1>11 DEF calls
<1> QED
  BY <1>12

\* A script takes the answer to its claim, and clicks or gives up.
clicked(t) ==
  /\ page[t].reply = "granted"
  /\ page'[t].step = IF page[t].step = "outer" THEN "outer_done" ELSE "pin_done"
  /\ clicks' = [clicks EXCEPT ![page[t].run][page[t].step] = @ + 1]

claimed(t) ==
  /\ updates(t) /\ page[t].wait = "claim" /\ page[t].reply # "none"
  /\ sameAttempt(page[t], page'[t]) /\ page'[t].phase = page[t].phase
  /\ page'[t].running = page[t].running /\ page'[t].outcome = page[t].outcome
  /\ page'[t].wait = "none" /\ page'[t].reply = "none" /\ page'[t].fp = page[t].fp
  /\ clicked(t) \/ (page'[t].step = "over" /\ clicks' = clicks)

LEMMA ClaimedByPageIs ==
  ASSUME page \in [Tabs -> PageType], NEW t \in Tabs, PageClaimed(t)
  PROVE  claimed(t)
<1>1. page[t] \in PageType
  OBVIOUS
<1>2. ASSUME NEW step \in {"outer_done", "pin_done", "over"},
             page' = [page EXCEPT ![t].wait = "none", ![t].reply = "none", ![t].step = step]
      PROVE  /\ updates(t) /\ sameAttempt(page[t], page'[t]) /\ page'[t].phase = page[t].phase
             /\ page'[t].running = page[t].running /\ page'[t].outcome = page[t].outcome
             /\ page'[t].wait = "none" /\ page'[t].reply = "none" /\ page'[t].fp = page[t].fp
             /\ page'[t].step = step
  <2>1. PICK X : X = [page[t] EXCEPT !.wait = "none", !.reply = "none", !.step = step]
    OBVIOUS
  <2>2. /\ X \in PageType /\ X.phase = page[t].phase /\ X.running = page[t].running
        /\ X.outcome = page[t].outcome /\ X.step = step /\ X.fp = page[t].fp
        /\ X.wait = "none" /\ X.reply = "none" /\ sameAttempt(page[t], X)
    BY <1>1, <2>1 DEF PageType, sameAttempt
  <2>3. page' = [page EXCEPT ![t] = X]
    BY <1>1, <1>2, <2>1
  <2>4. updates(t) /\ page'[t] = X
    BY <2>2, <2>3, UpdateIs
  <2> QED
    BY <2>2, <2>4
<1>3. page[t].wait = "claim" /\ page[t].reply # "none"
  BY DEF PageClaimed
<1>4. CASE /\ page[t].reply = "granted"
           /\ clicks' = [clicks EXCEPT ![page[t].run][page[t].step] = @ + 1]
           /\ page' = [page EXCEPT ![t].wait = "none", ![t].reply = "none",
                                   ![t].step = IF @ = "outer" THEN "outer_done" ELSE "pin_done"]
  <2>1. PICK step \in {"outer_done", "pin_done", "over"} :
          step = IF page[t].step = "outer" THEN "outer_done" ELSE "pin_done"
    OBVIOUS
  <2>2. page' = [page EXCEPT ![t].wait = "none", ![t].reply = "none", ![t].step = step]
    BY <1>1, <1>4, <2>1 DEF PageType
  <2> QED
    BY <1>2, <1>3, <1>4, <2>1, <2>2 DEF claimed, clicked
<1>5. CASE /\ page' = [page EXCEPT ![t].wait = "none", ![t].reply = "none", ![t].step = "over"]
           /\ clicks' = clicks
  BY <1>2, <1>3, <1>5 DEF claimed
<1> QED
  BY <1>4, <1>5 DEF PageClaimed

\* A script takes the answer to its outcome.
delivered(t) ==
  /\ updates(t) /\ page[t].wait = "finished" /\ page[t].reply # "none"
  /\ sameAttempt(page[t], page'[t]) /\ page'[t].phase = page[t].phase
  /\ page'[t].running => page[t].running
  /\ page'[t].outcome = page[t].outcome /\ page'[t].step = page[t].step
  /\ page'[t].wait = "none" /\ page'[t].reply = "none" /\ page'[t].fp = page[t].fp

LEMMA DeliveredIs ==
  ASSUME PageOK, NEW t \in Tabs, PageDelivered(t)
  PROVE  delivered(t)
<1>1. /\ page \in [Tabs -> PageType] /\ page[t] \in PageType
      /\ page[t].wait = "finished" /\ page[t].reply # "none" /\ page[t].running
  BY DEF PageOK, scriptOK, PageDelivered
<1>2. PICK running \in BOOLEAN : running = (page[t].reply = "failed" /\ page[t].tries < Tries)
  OBVIOUS
<1>3. PICK X : X = [page[t] EXCEPT !.wait = "none", !.reply = "none", !.running = running]
  OBVIOUS
<1>4. /\ X \in PageType /\ X.phase = page[t].phase /\ sameAttempt(page[t], X)
      /\ X.outcome = page[t].outcome /\ X.step = page[t].step /\ X.fp = page[t].fp
      /\ X.wait = "none" /\ X.reply = "none"
  BY <1>1, <1>3 DEF PageType, sameAttempt
<1>5. page' = [page EXCEPT ![t] = X]
  BY <1>1, <1>2, <1>3 DEF PageDelivered
<1>6. updates(t) /\ page'[t] = X
  BY <1>1, <1>4, <1>5, UpdateIs
<1> QED
  BY <1>1, <1>4, <1>6 DEF delivered

\* The attempt of a script ends.
finishes(t, outcome) ==
  /\ updates(t) /\ page[t].running /\ page[t].phase # "FINISHING" /\ page[t].wait = "none"
  /\ outcome \in endings(page[t])
  /\ sameAttempt(page[t], page'[t]) /\ sameCall(page[t], page'[t])
  /\ page'[t].running /\ page'[t].phase = "FINISHING" /\ page'[t].outcome = outcome
  /\ page'[t].step = page[t].step /\ page'[t].fp = page[t].fp

LEMMA FinishesIs ==
  ASSUME page \in [Tabs -> PageType], NEW t \in Tabs, NEW outcome \in Outcomes,
         PageFinish(t, outcome)
  PROVE  finishes(t, outcome)
<1>1. page[t] \in PageType
  OBVIOUS
<1>2. PICK X : X = [page[t] EXCEPT !.phase = "FINISHING", !.outcome = outcome]
  OBVIOUS
<1>3. /\ X \in PageType /\ X.phase = "FINISHING" /\ X.running = page[t].running
      /\ X.outcome = outcome /\ X.step = page[t].step /\ X.fp = page[t].fp
      /\ sameAttempt(page[t], X) /\ sameCall(page[t], X)
  BY <1>1, <1>2 DEF PageType, sameAttempt, sameCall
<1>4. page' = [page EXCEPT ![t] = X]
  BY <1>2 DEF PageFinish
<1>5. updates(t) /\ page'[t] = X
  BY <1>3, <1>4, UpdateIs
<1> QED
  BY <1>3, <1>5 DEF finishes, PageFinish

-----------------------------------------------------------------------------
(* The kinds of steps, by what they do to the pages, the queue and the history *)

still == UNCHANGED <<grants, clicks, announced>>

\* A message nobody waits for.
plain(m) == m \in Tasks /\ m.op \notin {"claim", "finished"} /\ m.from = NoId /\ m.run \in Ids

takesHead == queue # <<>> /\ queue' = Tail(queue)

\* No document, no message.
quiet ==
  /\ page' = page /\ queue' = queue /\ UNCHANGED <<grants, clicks>>
  /\ announced' = announced \/ Effects
  /\ sv'.from = NoId \/ (sv' = sv /\ lr' = lr)

\* The running task tells a document to abort.
aborts == aborted(sv.tab) /\ queue' = queue /\ sv' = Idle /\ lr' = lr /\ still

\* A task is taken that nobody waits for, or whose sender waits on.
takes == page' = page /\ takesHead /\ sv'.from = NoId /\ still

decidesHead == takesHead /\ Head(queue).op = "finished" /\ decides(Head(queue)) /\ still
permitsHead == takesHead /\ Head(queue).op = "claim" /\ permits(Head(queue)) /\ still

\* A task is taken and answered.
answersHead(reply) ==
  /\ takesHead /\ sv' = Idle /\ lr' = lr /\ still
  /\ answered(Head(queue).from, reply)
  /\ \/ Head(queue).op = "claim" /\ reply = "refused"
     \/ /\ Head(queue).op = "finished" /\ reply \in Decisions \cup {"refused"}
        /\ reply \in Decisions =>
             lr.id = Head(queue).run /\ lr.attempts[Head(queue).attempt].decision = reply

\* The running task answers.
grantsClaim ==
  /\ sv.pc = "reply_claim" /\ sv' = Idle /\ lr' = lr /\ queue' = queue
  /\ answered(sv.from, "granted")
  /\ grants' = [grants EXCEPT ![sv.run][sv.arg] = @ + 1] /\ UNCHANGED <<clicks, announced>>

acknowledges ==
  /\ sv.pc = "reply_finished" /\ sv' = Idle /\ lr' = lr /\ still
  /\ answered(sv.from, sv.arg)
  /\ \E m : plain(m) /\ queue' = Append(queue, m)

\* A message is sent that nobody waits for.
posts ==
  /\ page' = page \/ \E t \in Tabs : executes(t)
  /\ sv' = sv /\ lr' = lr /\ still
  /\ \E m : plain(m) /\ queue' = Append(queue, m)

\* A script is at work.
works(t) ==
  /\ \/ claimed(t) /\ UNCHANGED <<grants, announced>>
     \/ (delivered(t) \/ \E outcome \in Outcomes : finishes(t, outcome)) /\ still
  /\ queue' = queue /\ sv' = sv /\ lr' = lr

\* A document goes away, and with it whoever waited in it.
leaves(t) ==
  /\ updates(t) /\ page'[t] \in {Blank, Closed} /\ lr' = lr /\ still
  /\ queue' = orphans(t) \/ \E m : plain(m) /\ queue' = Append(orphans(t), m)
  /\ sv' = orphan(sv, t) \/ (sv'.from = NoId /\ sv.from = NoId)

\* A script is put into a document, or started.
injects(t) ==
  /\ updates(t) /\ page[t].doc # "live" /\ page'[t] = Injected
  /\ queue' = queue /\ sv'.from = NoId /\ sv'.pc = "start_commit" /\ lr' = lr /\ still

starts(t, a, run) ==
  /\ updates(t) /\ page'[t] = Started(a, run) /\ ~page[t].running /\ a \in used /\ run \in used
  /\ queue' = queue /\ sv'.from = NoId /\ lr' = lr /\ still
  /\ \/ sv.pc = "start_send" /\ t = sv.tab /\ a = sv.run /\ run = sv.run /\ sv' = Idle
     \/ /\ sv.pc = "recovery_start" /\ t = lr.tab /\ a = lr.next /\ run = lr.id
        /\ page[t].doc = "blank" /\ sv'.pc = "recovery_commit"

\* One of these is what every step is.
stepKinds ==
  \/ quiet \/ aborts \/ takes \/ decidesHead \/ permitsHead \/ (\E reply : answersHead(reply))
  \/ grantsClaim \/ acknowledges \/ posts
  \/ (\E t \in Tabs : \E m : calls(t, m) /\ still)
  \/ (\E t \in Tabs : works(t) \/ leaves(t) \/ injects(t) \/ \E a, run : starts(t, a, run))
  \/ Crash

\* Outside an answer the running task has no sender.
LEMMA NoSender ==
  ASSUME IInv, sv.pc \notin {"reply_claim", "reply_finished"}
  PROVE  sv \in Executions /\ sv.from = NoId
BY DEF IInv, SendersOK, TaskOK, Executions, TabIds

LEMMA PlainIs ==
  ASSUME NEW op \in Ops \ {"claim", "finished"}, NEW t \in TabIds
  PROVE  plain(task(op, t))
BY TaskIs DEF plain, Ids

\* The steps of the supervisor between two tasks' ends that touch no document.
LEMMA QuietSupervisor ==
  ASSUME IInv,
         \/ StartCommit \/ StartFail \/ StartDiscard \/ StopUndelivered \/ Terminate \/ Effects
         \/ EffectsMark \/ RecoveryCommit \/ RecoveryFail \/ ReconcileRecover \/ ReconcileProject
  PROVE  quiet
<1>0. runOK(lr, used)
  BY DEF IInv
<1>1. page' = page /\ queue' = queue /\ UNCHANGED <<grants, clicks>> /\ (announced' = announced \/ Effects)
  BY DEF StartCommit, StartFail, StartDiscard, StopUndelivered, Terminate, Effects, EffectsMark,
         RecoveryCommit, RecoveryFail, ReconcileRecover, ReconcileProject, history
<1>2. sv.pc \notin {"reply_claim", "reply_finished"}
  BY DEF StartCommit, StartFail, StartDiscard, StopUndelivered, Terminate, Effects, EffectsMark,
         RecoveryCommit, RecoveryFail, ReconcileRecover, ReconcileProject, At
<1>3. sv \in Executions /\ sv.from = NoId
  BY <1>2, NoSender
<1>4. Idle.from = NoId
  BY IdleIs
<1>5. CASE sv' = Idle
  BY <1>1, <1>4, <1>5 DEF quiet
<1>6. CASE StartCommit \/ StartFail \/ Terminate \/ Effects \/ ReconcileProject
  <2>1. PICK pc : sv' = [sv EXCEPT !.pc = pc]
    BY <1>6 DEF StartCommit, StartFail, Terminate, Effects, ReconcileProject, Goto
  <2>2. sv'.from = sv.from
    BY <1>3, <2>1 DEF Executions
  <2> QED
    BY <1>1, <1>3, <2>2 DEF quiet
<1>7. CASE StopUndelivered \/ RecoveryFail
  <2>1. \/ sv' = Idle
        \/ sv' = [sv EXCEPT !.pc = "terminate", !.arg = "STOPPED"]
        \/ sv' = [sv EXCEPT !.pc = "terminate", !.arg = "FAILED", !.stop = lr.dispatch.stop]
    BY <1>7 DEF StopUndelivered, RecoveryFail
  <2>2. sv'.from = NoId
    BY <1>3, <1>4, <2>1 DEF Executions
  <2> QED
    BY <1>1, <2>2 DEF quiet
<1>8. CASE EffectsMark \/ ReconcileRecover
  <2>1. \/ sv' = Idle
        \/ sv' = [Idle EXCEPT !.pc = sv.then, !.tab = sv.tab]
        \/ \E pc : sv' = [Idle EXCEPT !.pc = pc]
    BY <1>0, <1>8, RecoveryIs DEF EffectsMark, ReconcileRecover
  <2>2. sv'.from = NoId
    BY <1>4, <2>1 DEF Idle
  <2> QED
    BY <1>1, <2>2 DEF quiet
<1> QED
  BY <1>5, <1>6, <1>7, <1>8 DEF StartDiscard, RecoveryCommit, Done

LEMMA TakesSupervisor ==
  ASSUME IInv,
         \/ StartTask \/ StopNothing \/ StopClaimed \/ StopPreparing \/ StopRunning \/ PhaseTask
         \/ TabRemovedTask \/ TabUrlTask \/ CompleteTask \/ RecoveryTask \/ ReconcileSettled
         \/ ReconcileRunning \/ ReconcileOutcome \/ ReconcileLost
  PROVE  takes
<1>0. runOK(lr, used)
  BY DEF IInv
<1>1. /\ page' = page /\ queue # <<>> /\ queue' = Tail(queue)
      /\ UNCHANGED <<grants, clicks, announced>>
  BY DEF StartTask, StopNothing, StopClaimed, StopPreparing, StopRunning, PhaseTask,
         TabRemovedTask, TabUrlTask, CompleteTask, RecoveryTask, ReconcileSettled,
         ReconcileRunning, ReconcileOutcome, ReconcileLost, Take, history
<1>2. Idle.from = NoId
  BY IdleIs
<1>3. CASE StartTask \/ StopRunning
  <2>1. \/ sv' = Idle
        \/ sv' = [Idle EXCEPT !.pc = "start_navigate", !.tab = Head(queue).tab, !.run = newId]
        \/ sv' = [Idle EXCEPT !.pc = "stop_live", !.tab = ar.tab, !.run = ar.run,
                              !.stop = lr.dispatch.stop]
    BY <1>3 DEF StartTask, StopRunning, Done
  <2> QED
    BY <1>1, <1>2, <2>1 DEF Idle, takes, takesHead, still
<1>4. ASSUME NEW t, NEW run, NEW state, NEW then, terminateThen(t, run, state, then)
      PROVE  sv'.from = NoId
  <2>1. \/ sv' = [Idle EXCEPT !.pc = "terminate", !.tab = t, !.run = run, !.arg = state,
                              !.stop = lr.dispatch.stop, !.then = then]
        \/ sv' = Idle
        \/ sv' = [Idle EXCEPT !.pc = then, !.tab = t]
    BY <1>4 DEF terminateThen
  <2> QED
    BY <1>2, <2>1 DEF Idle
<1>5. CASE StopPreparing \/ TabRemovedTask \/ TabUrlTask
  <2>1. sv' = Idle \/ \E t, run, state, then : terminateThen(t, run, state, then)
    BY <1>5 DEF StopPreparing, TabRemovedTask, TabUrlTask, leaveTab, Done
  <2> QED
    BY <1>1, <1>2, <1>4, <2>1 DEF takes, takesHead, still
<1>6. CASE CompleteTask \/ RecoveryTask \/ ReconcileSettled
  <2>1. sv' = Idle \/ \E pc : sv' = [Idle EXCEPT !.pc = pc]
    BY <1>0, <1>6, RecoveryIs DEF CompleteTask, RecoveryTask, ReconcileSettled, completeTerminal, Done
  <2>2. sv'.from = NoId
    BY <1>2, <2>1 DEF Idle
  <2> QED
    BY <1>1, <2>2 DEF takes, takesHead, still
<1>7. CASE StopNothing \/ StopClaimed \/ PhaseTask \/ ReconcileRunning
  BY <1>1, <1>2, <1>7 DEF StopNothing, StopClaimed, PhaseTask, ReconcileRunning, Done, takes,
     takesHead, still
<1>8. CASE ReconcileOutcome
  BY <1>1, <1>8, FoundIs DEF takes, takesHead, still
<1>9. CASE ReconcileLost
  BY <1>1, <1>9, LostIs DEF takes, takesHead, still
<1> QED
  BY <1>3, <1>5, <1>6, <1>7, <1>8, <1>9

LEMMA AnswersSupervisor ==
  ASSUME IInv, FinishedTask \/ ClaimTask \/ FinishedReply \/ ClaimReply
  PROVE  \/ decidesHead \/ permitsHead \/ (\E reply : answersHead(reply))
         \/ grantsClaim \/ acknowledges
<1>0. /\ runOK(lr, used) /\ page \in [Tabs -> PageType] /\ QueueOK /\ sv \in Executions
  BY DEF IInv, PageOK, TaskOK
<1>1. CASE FinishedTask
  <2>1. PICK m : m = Head(queue)
    OBVIOUS
  <2>2. takesHead /\ m.op = "finished" /\ still
    BY <1>1, <2>1 DEF FinishedTask, Take, takesHead, history, still
  <2>3. m.from \in TabIds
    BY <1>0, <2>1, <2>2, HeadIs DEF takesHead, Tasks
  <2>4. CASE decides(m)
    BY <2>1, <2>2, <2>4 DEF decidesHead
  <2>5. ASSUME NEW reply, replies(m, reply) PROVE answersHead(reply)
    <3>1. reply \in Replies /\ answer(m.from, reply)
      BY <2>5 DEF replies, Replies
    <3>2. answered(m.from, reply)
      BY <1>0, <2>3, <3>1, AnswerIs
    <3> QED
      BY <2>1, <2>2, <2>5, <3>2 DEF replies, answersHead
  <2> QED
    BY <1>1, <2>1, <2>4, <2>5, FinishedIs
<1>2. CASE ClaimTask
  <2>1. PICK m : m = Head(queue)
    OBVIOUS
  <2>2. takesHead /\ m.op = "claim" /\ still
    BY <1>2, <2>1 DEF ClaimTask, Take, takesHead, history, still
  <2>3. m.from \in TabIds
    BY <1>0, <2>1, <2>2, HeadIs DEF takesHead, Tasks
  <2>4. CASE permits(m)
    BY <2>1, <2>2, <2>4 DEF permitsHead
  <2>5. CASE refuses(m)
    <3>1. answered(m.from, "refused")
      BY <1>0, <2>3, <2>5, AnswerIs DEF refuses, Replies
    <3>2. answersHead("refused")
      BY <2>1, <2>2, <2>5, <3>1 DEF refuses, answersHead
    <3> QED
      BY <3>2
  <2> QED
    BY <1>2, <2>1, <2>4, <2>5, ClaimIs
<1>3. CASE FinishedReply
  <2>1. sv.arg \in Replies /\ sv.from \in TabIds
    BY <1>3 DEF IInv, TaskOK, Executions, FinishedReply, At, Replies
  <2>2. answered(sv.from, sv.arg)
    BY <1>0, <1>3, <2>1, AnswerIs DEF FinishedReply
  <2>3. PICK op \in {"recovery", "complete"} : queue' = Append(queue, task(op, NoId))
    BY <1>3 DEF FinishedReply, enqueue
  <2>4. plain(task(op, NoId))
    BY PcValues, PlainIs DEF Ops
  <2> QED
    BY <1>3, <2>2, <2>3, <2>4 DEF FinishedReply, At, Done, acknowledges, storage, still, history
<1>4. CASE ClaimReply
  <2>1. sv.from \in TabIds /\ "granted" \in Replies
    BY <1>0 DEF Executions, Replies
  <2>2. answered(sv.from, "granted")
    BY <1>0, <1>4, <2>1, AnswerIs DEF ClaimReply
  <2> QED
    BY <1>4, <2>2 DEF ClaimReply, At, Done, grantsClaim, storage
<1> QED
  BY <1>1, <1>2, <1>3, <1>4

\* The steps of the supervisor that move a document.
LEMMA MovesSupervisor ==
  ASSUME IInv,
         \/ StartNavigate \/ StartInject \/ StartSend \/ StopDelivered \/ StopSend
         \/ RecoveryReenter \/ RecoveryStart
  PROVE  \/ quiet \/ aborts
         \/ \E t \in Tabs : leaves(t) \/ injects(t) \/ \E a, run : starts(t, a, run)
<1>0. /\ runOK(lr, used) /\ PageOK /\ page \in [Tabs -> PageType] /\ TaskOK
      /\ used \subseteq AttemptIds /\ lr' = lr /\ still
  BY DEF IInv, PageOK, runOK, StartNavigate, StartInject, StartSend, StopDelivered, StopSend,
         RecoveryReenter, RecoveryStart, storage, history, still
<1>1. sv.pc \notin {"reply_claim", "reply_finished"}
  BY DEF StartNavigate, StartInject, StartSend, StopDelivered, StopSend, RecoveryReenter,
         RecoveryStart, At
<1>2. sv \in Executions /\ sv.from = NoId /\ Idle.from = NoId
  BY <1>1, NoSender, IdleIs
<1>3. ASSUME NEW pc, sv' = [sv EXCEPT !.pc = pc] PROVE sv'.from = NoId
  BY <1>2, <1>3 DEF Executions
<1>4. CASE page' = page /\ queue' = queue /\ (sv' = Idle \/ \E pc : sv' = [sv EXCEPT !.pc = pc])
  BY <1>0, <1>2, <1>3, <1>4 DEF quiet, still
<1>5. ASSUME NEW t \in Tabs, page' = [page EXCEPT ![t] = Blank], queue' = orphans(t),
             NEW pc, sv' = [sv EXCEPT !.pc = pc]
      PROVE  leaves(t)
  <2>1. updates(t) /\ page'[t] = Blank
    BY <1>0, <1>5, BareIs, UpdateIs
  <2> QED
    BY <1>0, <1>2, <1>3, <1>5, <2>1 DEF leaves
<1>6. CASE StartNavigate
  <2>1. sv.tab \in Tabs
    BY <1>0, <1>6 DEF TaskOK, StartNavigate, At, Starts, StartsUnwritten
  <2>2. \E pc : sv' = [sv EXCEPT !.pc = pc]
    BY <1>6 DEF StartNavigate, Goto
  <2>3. \/ page' = page /\ queue' = queue
        \/ page' = [page EXCEPT ![sv.tab] = Blank] /\ queue' = orphans(sv.tab)
    BY <1>6 DEF StartNavigate
  <2> QED
    BY <1>4, <1>5, <2>1, <2>2, <2>3
<1>7. CASE StartInject
  <2>1. sv.tab \in Tabs
    BY <1>0, <1>7 DEF TaskOK, StartInject, At, Starts, StartsUnwritten
  <2>2. queue' = queue /\ \E pc : sv' = [sv EXCEPT !.pc = pc]
    BY <1>7 DEF StartInject, Goto
  <2>3. CASE page' = page
    BY <1>4, <2>2, <2>3
  <2>4. CASE page' # page
    <3>1. page' = [page EXCEPT ![sv.tab] = IF @.doc = "live" THEN @ ELSE Injected]
      BY <1>7, <2>4 DEF StartInject
    <3> DEFINE old == page[sv.tab]
    <3>2. page' = [page EXCEPT ![sv.tab] = IF old.doc = "live" THEN old ELSE Injected]
      BY <3>1
    <3>3. old.doc = "live" => page' = [page EXCEPT ![sv.tab] = old]
      BY <3>2
    <3>4. old.doc # "live" /\ page' = [page EXCEPT ![sv.tab] = Injected]
      BY <1>0, <2>1, <2>4, <3>2, <3>3
    <3>5. updates(sv.tab) /\ page'[sv.tab] = Injected
      BY <1>0, <2>1, <3>4, BareIs, UpdateIs
    <3>6. sv'.from = NoId /\ sv'.pc = "start_commit"
      BY <1>0, <1>2, <1>3, <1>7, <2>4 DEF StartInject, Goto, Executions
    <3>7. injects(sv.tab)
      BY <1>0, <2>2, <3>4, <3>5, <3>6 DEF injects
    <3> QED
      BY <2>1, <3>7
  <2> QED
    BY <2>3, <2>4
<1>8. CASE StartSend
  <2>1. sv.tab \in Tabs /\ sv.run \in AttemptIds /\ sv.run \in used
    BY <1>0, <1>8 DEF TaskOK, StartSend, At, Starts, StartsUnwritten
  <2>2. CASE page' = page
    BY <1>4, <1>8, <2>2 DEF StartSend, Done, Goto
  <2>3. CASE page' # page
    <3>1. /\ page' = [page EXCEPT ![sv.tab] = Started(sv.run, sv.run)] /\ sv' = Idle
          /\ ~page[sv.tab].running /\ queue' = queue /\ sv.pc = "start_send"
      BY <1>8, <2>3 DEF StartSend, Done, At
    <3>2. Started(sv.run, sv.run) \in PageType
      BY <2>1, StartedIs
    <3>3. PICK X : X = Started(sv.run, sv.run)
      OBVIOUS
    <3>4. updates(sv.tab) /\ page'[sv.tab] = X
      <4>1. X \in PageType /\ page' = [page EXCEPT ![sv.tab] = X]
        BY <3>1, <3>2, <3>3
      <4>2. PICK t \in Tabs : t = sv.tab
        BY <2>1
      <4>3. page' = [page EXCEPT ![t] = X]
        BY <4>1, <4>2
      <4>4. updates(t) /\ page'[t] = X
        BY <1>0, <4>1, <4>3, UpdateIs
      <4> QED
        BY <4>2, <4>4
    <3>5. page'[sv.tab] = Started(sv.run, sv.run) /\ updates(sv.tab) /\ sv'.from = NoId
      BY <1>2, <3>1, <3>3, <3>4
    <3>6. starts(sv.tab, sv.run, sv.run)
      BY <1>0, <2>1, <3>1, <3>5 DEF starts
    <3> QED
      BY <2>1, <3>6
  <2> QED
    BY <2>2, <2>3
<1>9. CASE StopDelivered \/ StopSend
  <2>1. abortPage(sv.tab) /\ sv' = Idle /\ queue' = queue
    BY <1>9 DEF StopDelivered, StopSend, Done
  <2>2. still
    BY <1>0
  <2> QED
    BY <1>0, <2>1, <2>2, AbortIs DEF aborts
<1>10. lr.status = "RECOVERING" => lr.tab \in Tabs /\ lr.id \in used /\ lr.next \in used
  BY <1>0, NoClaimYet DEF runOK, attemptsOK, statusOK
<1>11. CASE RecoveryReenter
  <2>1. lr.tab \in Tabs
    BY <1>0, <1>10, <1>11 DEF RecoveryReenter, At, TaskOK, Recoveries
  <2>2. CASE page' = page /\ queue' = queue
    BY <1>4, <1>11, <2>2 DEF RecoveryReenter, Goto
  <2>3. CASE page' = [page EXCEPT ![lr.tab] = Blank] /\ queue' = orphans(lr.tab)
    BY <1>5, <1>11, <2>1, <2>3 DEF RecoveryReenter, Goto
  <2> QED
    BY <1>11, <2>2, <2>3 DEF RecoveryReenter
<1>12. CASE RecoveryStart
  <2>1. /\ lr.tab \in Tabs /\ lr.id \in used /\ lr.next \in used /\ sv.pc = "recovery_start"
        /\ queue' = queue /\ \E pc : sv' = [sv EXCEPT !.pc = pc]
    BY <1>0, <1>10, <1>12 DEF RecoveryStart, At, TaskOK, Recoveries, Goto
  <2>2. CASE page' = page
    BY <1>4, <2>1, <2>2
  <2>3. CASE page[lr.tab].doc # "closed" /\ page' = [page EXCEPT ![lr.tab] = Started(lr.next, lr.id)]
    <3>1. page[lr.tab].doc # "live"
      BY <2>1 DEF IInv, PlacesOK
    <3>2. page[lr.tab].doc = "blank" /\ ~page[lr.tab].running
      BY <1>0, <2>1, <2>3, <3>1 DEF PageOK, scriptOK, PageType
    <3>3. Started(lr.next, lr.id) \in PageType
      BY <1>0, <2>1, StartedIs
    <3>4. PICK X : X = Started(lr.next, lr.id)
      OBVIOUS
    <3>5. updates(lr.tab) /\ page'[lr.tab] = X
      BY <1>0, <2>1, <2>3, <3>3, <3>4, UpdateIs
    <3>6. sv'.from = NoId /\ sv'.pc = "recovery_commit"
      BY <1>2, <1>3, <1>12, <2>1, <2>3 DEF RecoveryStart, Goto, Executions
    <3>7. starts(lr.tab, lr.next, lr.id)
      BY <1>0, <2>1, <3>2, <3>4, <3>5, <3>6 DEF starts
    <3> QED
      BY <2>1, <3>7
  <2> QED
    BY <1>12, <2>2, <2>3 DEF RecoveryStart
<1> QED
  BY <1>6, <1>7, <1>8, <1>9, <1>11, <1>12

\* The steps that only put a message into the queue.
LEMMA PostsOthers ==
  ASSUME IInv,
         \/ RequestStop \/ Boot
         \/ \E t \in Tabs : RequestStart(t) \/ PageExecute(t)
  PROVE  posts
<1>0. page \in [Tabs -> PageType] /\ PageOK /\ used \subseteq AttemptIds /\ TaskOK
  BY DEF IInv, PageOK, runOK
<1>1. CASE RequestStop
  <2>1. plain(task("stop", NoId))
    BY PcValues, PlainIs DEF Ops
  <2> QED
    BY <1>1, <2>1 DEF RequestStop, enqueue, posts, storage, history, still
<1>2. CASE Boot
  <2>1. plain(task("reconcile", NoId))
    BY PcValues, PlainIs DEF Ops
  <2>2. PICK m : m = task("reconcile", NoId)
    OBVIOUS
  <2>3. queue = <<>> /\ queue' = <<m>>
    BY <1>0, <1>2, <2>2 DEF Boot, TaskOK
  <2>4. queue' = Append(queue, m)
    BY <2>3
  <2>5. plain(m) /\ page' = page /\ sv' = sv /\ lr' = lr /\ still
    BY <1>2, <2>1, <2>2 DEF Boot, storage, history, still
  <2> QED
    BY <2>4, <2>5 DEF posts
<1>3. ASSUME NEW t \in Tabs, RequestStart(t) PROVE posts
  <2>1. plain(task("start", t))
    BY PcValues, PlainIs DEF Ops
  <2> QED
    BY <1>3, <2>1 DEF RequestStart, enqueue, posts, storage, history, still
<1>4. ASSUME NEW t \in Tabs, PageExecute(t) PROVE posts
  <2>1. executes(t)
    BY <1>0, <1>4, ExecutesIs
  <2>2. PICK m : m = message("phase", t, NoId, "EXECUTING", NoId)
    OBVIOUS
  <2>3. m \in Tasks /\ m.op = "phase" /\ m.from = NoId /\ m.run \in AttemptIds
    <3>1. page[t].running
      BY <1>4 DEF PageExecute
    <3> QED
      BY <1>0, <2>2, <3>1, MessageIs
  <2>4. plain(m)
    BY <2>3 DEF plain, Ids
  <2>5. queue' = Append(queue, m) /\ sv' = sv /\ lr' = lr /\ still
    BY <1>4, <2>2 DEF PageExecute, enqueue, storage, history, still
  <2> QED
    BY <2>1, <2>4, <2>5 DEF posts
<1> QED
  BY <1>1, <1>2, <1>3, <1>4

\* A document goes away under the user's hand, or shows another address.
LEMMA LeavesOthers ==
  ASSUME IInv, NEW t \in Tabs,
         CloseTab(t) \/ Reload(t) \/ \E where \in {"left", "planned"} : ChangeUrl(t, where)
  PROVE  posts \/ leaves(t)
<1>0. page \in [Tabs -> PageType]
  BY DEF IInv, PageOK
<1>1. ASSUME NEW new \in {Blank, Closed}, page' = [page EXCEPT ![t] = new]
      PROVE  updates(t) /\ page'[t] = new
  BY <1>0, <1>1, BareIs, UpdateIs
<1>2. CASE CloseTab(t)
  <2>1. plain(task("removed", t))
    BY PcValues, PlainIs DEF Ops
  <2>2. updates(t) /\ page'[t] = Closed
    BY <1>1, <1>2 DEF CloseTab
  <2>3. queue' = Append(orphans(t), task("removed", t)) /\ sv' = orphan(sv, t)
    BY <1>2 DEF CloseTab, dropWaits
  <2>4. lr' = lr /\ still
    BY <1>2 DEF CloseTab, storage, history, still
  <2> QED
    BY <2>1, <2>2, <2>3, <2>4 DEF leaves
<1>3. CASE Reload(t)
  <2>1. updates(t) /\ page'[t] = Blank
    BY <1>1, <1>3 DEF Reload
  <2>2. queue' = orphans(t) /\ sv' = orphan(sv, t) /\ lr' = lr /\ still
    BY <1>3 DEF Reload, dropWaits, storage, history, still
  <2> QED
    BY <2>1, <2>2 DEF leaves
<1>4. ASSUME NEW where \in {"left", "planned"}, ChangeUrl(t, where) PROVE posts \/ leaves(t)
  <2>1. PICK m : m = [task("url", t) EXCEPT !.arg = where]
    OBVIOUS
  <2>2. m \in Tasks /\ m.op = "url" /\ m.from = NoId /\ m.run = NoId
    BY <2>1 DEF task, Tasks, Ops, TabIds, Ids
  <2>3. plain(m)
    BY <2>2 DEF plain, Ids
  <2>4. lr' = lr /\ still
    BY <1>4 DEF ChangeUrl, storage, history, still
  <2>5. CASE page' = page /\ queue' = Append(queue, m) /\ sv' = sv
    BY <2>3, <2>4, <2>5 DEF posts
  <2>6. CASE page' = [page EXCEPT ![t] = Blank] /\ dropWaits(t, <<m>>)
    <3>1. updates(t) /\ page'[t] = Blank
      BY <1>1, <2>6
    <3>2. queue' = Append(orphans(t), m) /\ sv' = orphan(sv, t)
      BY <2>6 DEF dropWaits
    <3> QED
      BY <2>3, <2>4, <3>1, <3>2 DEF leaves
  <2> QED
    BY <1>4, <2>1, <2>5, <2>6 DEF ChangeUrl, enqueue
<1> QED
  BY <1>2, <1>3, <1>4

\* The steps of a script.
LEMMA ScriptOthers ==
  ASSUME IInv, NEW t \in Tabs, PageStep(t)
  PROVE  quiet \/ posts \/ works(t) \/ \E m : calls(t, m) /\ still
<1>0. page \in [Tabs -> PageType] /\ PageOK /\ used \subseteq AttemptIds
  BY DEF IInv, PageOK, runOK
<1>1. CASE PageExecute(t)
  BY <1>1, PostsOthers
<1>2. CASE PageClaimPin(t) \/ PageDeliver(t) \/ \E fp \in Fingerprints : PageClaimOuter(t, fp)
  <2>1. still
    BY <1>2 DEF PageClaimPin, PageDeliver, PageClaimOuter, history, still
  <2> QED
    BY <1>0, <1>2, <2>1, OuterCallIs, PinCallIs, DeliverCallIs
<1>3. CASE PageClaimed(t)
  <2>1. queue' = queue /\ sv' = sv /\ lr' = lr /\ UNCHANGED <<grants, announced>>
    BY <1>3 DEF PageClaimed, worker, storage
  <2> QED
    BY <1>0, <1>3, <2>1, ClaimedByPageIs DEF works
<1>4. CASE PageDelivered(t) \/ \E outcome \in Outcomes : PageFinish(t, outcome)
  <2>1. queue' = queue /\ sv' = sv /\ lr' = lr /\ still
    BY <1>4 DEF PageDelivered, PageFinish, worker, storage, history, still
  <2> QED
    BY <1>0, <1>4, <2>1, DeliveredIs, FinishesIs DEF works
<1>5. CASE \E state \in EventStates : PageEmit(t, state)
  BY <1>5 DEF PageEmit, worker, storage, history, quiet
<1> QED
  BY <1>1, <1>2, <1>3, <1>4, <1>5 DEF PageStep

LEMMA StepKinds ==
  ASSUME IInv, [Next]_vars
  PROVE  stepKinds
<1>1. CASE SupervisorStep
  BY <1>1, QuietSupervisor, TakesSupervisor, AnswersSupervisor, MovesSupervisor
  DEF SupervisorStep, stepKinds
<1>2. CASE RecorderStep \/ ClearRunEvents \/ Tick \/ Sleep \/ vars' = vars
  <2>1. quiet
    BY <1>2 DEF RecorderStep, RecordEvent, RecordKept, RecorderWrite, ClearRunEvents, Tick, Sleep,
       vars, worker, storage, history, quiet
  <2> QED
    BY <2>1 DEF stepKinds
<1>3. CASE \E t \in Tabs : PageStep(t)
  BY <1>3, ScriptOthers DEF stepKinds
<1>4. CASE UserStep /\ ~ClearRunEvents
  BY <1>4, PostsOthers, LeavesOthers DEF UserStep, stepKinds
<1>5. CASE Boot
  BY <1>5, PostsOthers DEF stepKinds
<1>6. CASE Crash
  BY <1>6 DEF stepKinds
<1> QED
  BY <1>1, <1>2, <1>3, <1>4, <1>5, <1>6 DEF Next

\* Attempt ids are only ever added.
LEMMA UsedGrows ==
  ASSUME IInv, [Next]_vars
  PROVE  used \subseteq used' /\ used' \subseteq AttemptIds
<1>1. used' \subseteq AttemptIds
  BY RunStep DEF runOK
<1>2. CASE StartTask \/ FinishedTask \/ ReconcileOutcome
  BY <1>1, <1>2 DEF StartTask, FinishedTask, ReconcileOutcome
<1>3. CASE SupervisorStep /\ ~(StartTask \/ FinishedTask \/ ReconcileOutcome)
  <2>1. used' = used
    BY <1>3 DEF SupervisorStep, StartNavigate, StartInject, StartCommit, StartSend, StartFail,
       StartDiscard, StopNothing, StopClaimed, StopPreparing, StopRunning, StopDelivered,
       StopUndelivered, StopSend, FinishedReply, PhaseTask, ClaimTask, ClaimReply, TabRemovedTask,
       TabUrlTask, Terminate, Effects, EffectsMark, CompleteTask, RecoveryTask, RecoveryReenter,
       RecoveryStart, RecoveryCommit, RecoveryFail, ReconcileSettled, ReconcileRunning,
       ReconcileRecover, ReconcileLost, ReconcileProject
  <2> QED
    BY <1>1, <2>1
<1>4. CASE vars' = vars
  BY <1>1, <1>4 DEF vars
<1> QED
  BY <1>1, <1>2, <1>3, <1>4, OthersKeepRun

\* Death of the worker fails the pending calls and leaves the scripts alone.
failed(p, q) ==
  /\ sameScript(p, q) /\ q.wait = p.wait
  /\ q.reply = IF p.wait # "none" /\ p.reply = "none" THEN "failed" ELSE p.reply

LEMMA CrashIs ==
  ASSUME page \in [Tabs -> PageType], Crash
  PROVE  /\ page' \in [Tabs -> PageType] /\ \A t \in Tabs : failed(page[t], page'[t])
         /\ queue' = <<>> /\ sv' = Idle /\ lr' = lr /\ still
<1>1. ASSUME NEW t \in Tabs PROVE page'[t] \in PageType /\ failed(page[t], page'[t])
  <2>1. page[t] \in PageType
    OBVIOUS
  <2>2. PICK X : X = IF page[t].wait # "none" /\ page[t].reply = "none"
                     THEN [page[t] EXCEPT !.reply = "failed"] ELSE page[t]
    OBVIOUS
  <2>3. X \in PageType /\ failed(page[t], X)
    <3>1. CASE page[t].wait # "none" /\ page[t].reply = "none"
      BY <2>1, <2>2, <3>1 DEF PageType, failed, sameScript
    <3>2. CASE ~(page[t].wait # "none" /\ page[t].reply = "none")
      BY <2>1, <2>2, <3>2 DEF failed, sameScript
    <3> QED
      BY <3>1, <3>2
  <2>4. page'[t] = X
    BY <2>2 DEF Crash
  <2> QED
    BY <2>3, <2>4
<1>2. page' = [t \in Tabs |-> page'[t]]
  BY DEF Crash
<1>3. page' \in [Tabs -> PageType]
  BY <1>1, <1>2
<1> QED
  BY <1>1, <1>3 DEF Crash, storage, history, still

\* The sender of the task at the head waits for it, and so does the sender of the running one.
LEMMA HeadSender ==
  ASSUME IInv, takesHead, NEW t \in Tabs, Head(queue).from = t
  PROVE  /\ awaits(page[t], Head(queue)) /\ sv.from # t
         /\ \A i \in DOMAIN queue' : queue'[i].from # t
<1>1. queue \in Seq(Tasks) /\ queue # <<>> /\ queue' = Tail(queue) /\ SendersOK
  BY DEF IInv, QueueOK, messagesOK, takesHead
<1>2. 1 \in DOMAIN queue /\ Head(queue) = queue[1]
  BY <1>1
<1>3. awaits(page[t], queue[1]) /\ sv.from # t
      /\ \A j \in DOMAIN queue : queue[j].from = t => j = 1
  BY <1>1, <1>2 DEF SendersOK
<1>4. \A i \in DOMAIN queue' : i \in Nat \ {0} /\ i + 1 \in DOMAIN queue /\ queue'[i] = queue[i + 1]
  BY <1>1, TailIs
<1>5. ASSUME NEW i \in DOMAIN queue', queue'[i].from = t PROVE FALSE
  <2>1. i \in Nat \ {0} /\ i + 1 \in DOMAIN queue /\ queue[i + 1].from = t
    BY <1>4, <1>5
  <2>2. i + 1 = 1
    BY <1>3, <2>1
  <2> QED
    BY <2>1, <2>2
<1> QED
  BY <1>2, <1>3, <1>5

LEMMA TaskSender ==
  ASSUME IInv, NEW t \in Tabs, sv.from = t
  PROVE  /\ page[t].wait # "none" /\ page[t].reply = "none"
         /\ \A i \in DOMAIN queue : queue[i].from # t
BY DEF IInv, SendersOK

LEMMA PageStepOK ==
  ASSUME IInv, [Next]_vars
  PROVE  PageOK'
<1>0. /\ PageOK /\ page \in [Tabs -> PageType] /\ used \subseteq used' /\ used' \subseteq AttemptIds
      /\ \A t \in Tabs : scriptOK(page[t], used)
  BY UsedGrows DEF IInv, PageOK
<1>1. ASSUME NEW t \in Tabs PROVE scriptOK(page[t], used')
  BY <1>0, <1>1 DEF scriptOK
<1>2. ASSUME page' = page PROVE PageOK'
  BY <1>0, <1>1, <1>2 DEF PageOK
<1>3. ASSUME NEW t \in Tabs, updates(t), scriptOK(page'[t], used') PROVE PageOK'
  BY <1>0, <1>1, <1>3 DEF PageOK, updates
<1>4. ASSUME NEW t \in TabIds, NEW reply, answered(t, reply),
             t \in Tabs => page[t].wait # "none"
      PROVE  PageOK'
  <2>1. CASE t = NoId
    BY <1>2, <1>4, <2>1 DEF answered
  <2>2. CASE t # NoId
    <3>1. t \in Tabs /\ updates(t) /\ sameScript(page[t], page'[t]) /\ page'[t].wait = page[t].wait
          /\ page[t].wait # "none" /\ page'[t] \in PageType
      BY <1>4, <2>2 DEF answered, updates
    <3>2. scriptOK(page'[t], used')
      BY <1>1, <3>1 DEF scriptOK, sameScript
    <3> QED
      BY <1>3, <3>1, <3>2
  <2> QED
    BY <2>1, <2>2
<1>5. CASE quiet \/ takes \/ decidesHead \/ permitsHead
  BY <1>2, <1>5 DEF quiet, takes, decidesHead, permitsHead, decides, permits
<1>6. CASE aborts
  <2>1. CASE sv.tab \notin Tabs
    BY <1>2, <1>6, <2>1 DEF aborts, aborted
  <2>2. CASE sv.tab \in Tabs
    <3>1. updates(sv.tab) /\ sameScript(page[sv.tab], page'[sv.tab])
          /\ sameCall(page[sv.tab], page'[sv.tab])
      BY <1>6, <2>2 DEF aborts, aborted
    <3>2. page'[sv.tab] \in PageType
      BY <2>2, <3>1 DEF updates
    <3>3. scriptOK(page'[sv.tab], used')
      BY <1>1, <2>2, <3>1, <3>2 DEF scriptOK, sameScript, sameCall
    <3> QED
      BY <1>3, <2>2, <3>1, <3>3
  <2> QED
    BY <2>1, <2>2
<1>7. ASSUME NEW reply, answersHead(reply) PROVE PageOK'
  <2>1. Head(queue).from \in TabIds
    BY <1>7, HeadIs DEF IInv, QueueOK, answersHead, takesHead, Tasks
  <2>2. \A t \in Tabs : Head(queue).from = t => page[t].wait # "none"
    BY <1>7, HeadSender DEF answersHead, awaits
  <2> QED
    BY <1>4, <1>7, <2>1, <2>2 DEF answersHead
<1>8. CASE grantsClaim \/ acknowledges
  <2>1. sv.from \in TabIds
    BY DEF IInv, TaskOK, Executions
  <2> QED
    BY <1>4, <1>8, <2>1, TaskSender DEF grantsClaim, acknowledges
<1>9. ASSUME NEW t \in Tabs, executes(t) PROVE PageOK'
  <2>1. page'[t] \in PageType /\ updates(t)
    BY <1>9 DEF executes, updates
  <2>2. scriptOK(page'[t], used')
    BY <1>1, <1>9, <2>1 DEF executes, scriptOK, sameAttempt, sameCall
  <2> QED
    BY <1>3, <2>1, <2>2
<1>10. CASE posts
  BY <1>2, <1>9, <1>10 DEF posts
<1>11. ASSUME NEW t \in Tabs, NEW m, calls(t, m) PROVE PageOK'
  <2>1. page'[t] \in PageType /\ updates(t)
    BY <1>11 DEF calls, updates
  <2>2. /\ sameAttempt(page[t], page'[t]) /\ page'[t].running /\ page[t].running
        /\ page'[t].phase = page[t].phase /\ page'[t].outcome = page[t].outcome
        /\ page'[t].wait = m.op /\ page'[t].reply = "none" /\ m.op \in {"claim", "finished"}
        /\ m.op = "claim" => page[t].phase = "EXECUTING" /\ page'[t].step \in Presses
        /\ m.op = "finished" => page[t].phase = "FINISHING"
        /\ page'[t].step = "outer" => \/ page'[t].fp \in Fingerprints
                                      \/ page'[t].step = page[t].step /\ page'[t].fp = page[t].fp
    BY <1>11 DEF calls, awaits, Presses
  <2>3. CASE m.op = "claim"
    <3>1. scriptOK(page'[t], used')
      BY <1>1, <2>1, <2>2, <2>3 DEF scriptOK, sameAttempt
    <3> QED
      BY <1>3, <2>1, <3>1
  <2>4. CASE m.op = "finished"
    <3>1. scriptOK(page'[t], used')
      BY <1>1, <2>1, <2>2, <2>4 DEF scriptOK, sameAttempt
    <3> QED
      BY <1>3, <2>1, <3>1
  <2> QED
    BY <2>2, <2>3, <2>4
<1>12. ASSUME NEW t \in Tabs, works(t) PROVE PageOK'
  <2>1. page'[t] \in PageType /\ updates(t)
    BY <1>12 DEF works, claimed, delivered, finishes, updates
  <2>2. CASE claimed(t)
    <3>1. scriptOK(page'[t], used')
      BY <1>1, <2>1, <2>2 DEF scriptOK, sameAttempt, claimed, clicked
    <3> QED
      BY <1>3, <2>1, <3>1
  <2>3. CASE delivered(t)
    <3>1. scriptOK(page'[t], used')
      BY <1>1, <2>1, <2>3 DEF scriptOK, sameAttempt, delivered
    <3> QED
      BY <1>3, <2>1, <3>1
  <2>4. ASSUME NEW outcome \in Outcomes, finishes(t, outcome) PROVE PageOK'
    <3>1. scriptOK(page'[t], used')
      BY <1>1, <2>1, <2>4 DEF scriptOK, sameAttempt, sameCall, finishes
    <3> QED
      BY <1>3, <2>1, <3>1
  <2> QED
    BY <1>12, <2>2, <2>3, <2>4 DEF works
<1>13. ASSUME NEW t \in Tabs, updates(t), bare(page'[t]) PROVE PageOK'
  <2>1. page'[t] \in PageType
    BY <1>13 DEF updates
  <2>2. scriptOK(page'[t], used')
    BY <1>13, <2>1 DEF scriptOK, bare
  <2> QED
    BY <1>3, <1>13, <2>2
<1>14. ASSUME NEW t \in Tabs, leaves(t) \/ injects(t) PROVE PageOK'
  BY <1>13, <1>14, BareIs DEF leaves, injects
<1>15. ASSUME NEW t \in Tabs, NEW a, NEW run, starts(t, a, run) PROVE PageOK'
  <2>1. a \in used' /\ run \in used' /\ a \in AttemptIds /\ run \in AttemptIds
        /\ page'[t] = Started(a, run) /\ updates(t)
    BY <1>0, <1>15 DEF starts
  <2>2. PICK p : p = Started(a, run)
    OBVIOUS
  <2>3. /\ p \in PageType /\ p.doc = "live" /\ p.attempt = a /\ p.run = run /\ p.running
        /\ p.phase = "PREPARING" /\ p.wait = "none" /\ p.reply = "none" /\ p.step = "none"
    BY <2>1, <2>2, StartedIs
  <2>4. a # NoId /\ run # NoId
    BY <2>1, LogicalRunAssumption
  <2>5. scriptOK(p, used')
    BY <2>1, <2>3, <2>4 DEF scriptOK
  <2> QED
    BY <1>3, <2>1, <2>2, <2>5
<1>16. CASE Crash
  <2>1. page' \in [Tabs -> PageType] /\ \A t \in Tabs : failed(page[t], page'[t])
    BY <1>0, <1>16, CrashIs
  <2>2. ASSUME NEW t \in Tabs PROVE scriptOK(page'[t], used')
    <3>1. failed(page[t], page'[t]) /\ page'[t] \in PageType /\ scriptOK(page[t], used')
      BY <1>1, <2>1
    <3> QED
      BY <3>1 DEF scriptOK, failed, sameScript
  <2> QED
    BY <2>1, <2>2 DEF PageOK
<1> QED
  BY <1>5, <1>6, <1>7, <1>8, <1>10, <1>11, <1>12, <1>14, <1>15, <1>16, StepKinds DEF stepKinds

-----------------------------------------------------------------------------
(* The projection, the recorder and the requests *)

LEMMA ActiveIs ==
  ASSUME NEW run \in AttemptIds, NEW t \in TabIds, NEW state \in ActiveStates,
         NEW value, value = active(run, t, state)
  PROVE  projects(value)
BY DEF active, projects, Projections, Ids

LEMMA RestatedIs ==
  ASSUME NEW value, projects(value), value.run \in AttemptIds, NEW state \in ActiveStates
  PROVE  projects([value EXCEPT !.state = state])
BY DEF projects, Projections

\* What the supervisor writes into the projection.
LEMMA ProjectedBySupervisor ==
  ASSUME IInv, SupervisorStep
  PROVE  projects(ar')
<1>0. /\ projects(ar) /\ TaskOK /\ runOK(lr, used) /\ QueueOK /\ sv \in Executions
      /\ sv.tab \in TabIds /\ used \subseteq AttemptIds
  BY DEF IInv, ProjectionOK, TaskOK, Executions, runOK
<1>1. ar.run \in Ids /\ (ar.run # NoId => ar.run \in AttemptIds) /\ ar.tab \in TabIds
      /\ (ar.state = "CONFIGURED" => ar.run \in AttemptIds)
  BY <1>0 DEF projects, Projections, Ids
<1>2. "CONFIGURED" \in ActiveStates /\ TerminalStates \subseteq ActiveStates
      /\ {"STOPPED", "FAILED", "HANDED_OFF"} \subseteq TerminalStates
  BY DEF ActiveStates, TerminalStates
<1>3. ASSUME ar' = ar PROVE projects(ar')
  BY <1>0, <1>3
<1>4. ASSUME NEW state \in TerminalStates, ar.run # NoId, ar' = [ar EXCEPT !.state = state]
      PROVE  projects(ar')
  BY <1>0, <1>1, <1>2, <1>4, RestatedIs
<1>5. CASE StartTask
  <2>1. CASE ar' = active(newId, Head(queue).tab, "CONFIGURED") /\ used # AttemptIds
    <3>1. newId \in AttemptIds
      BY <1>0, <2>1, NewId
    <3>2. Head(queue).tab \in TabIds
      BY <1>0, <1>5, HeadIs DEF QueueOK, StartTask, Take, Tasks
    <3> QED
      BY <1>2, <2>1, <3>1, <3>2, ActiveIs
  <2> QED
    BY <1>3, <1>5, <2>1 DEF StartTask
<1>6. CASE StartCommit
  <2>1. sv.run \in AttemptIds
    BY <1>0, <1>6 DEF StartCommit, At, TaskOK, Starts, StartsUnwritten
  <2> QED
    BY <1>0, <1>2, <1>6, <2>1, ActiveIs DEF StartCommit
<1>7. CASE StartFail
  <2>1. sv.run \in AttemptIds /\ sv.run # NoId
    BY <1>0, <1>7, LogicalRunAssumption DEF StartFail, At, TaskOK, Starts, StartsUnwritten
  <2>2. PICK state \in {"STOPPED", "FAILED"} :
          state = IF sv.run \in cancelled THEN "STOPPED" ELSE "FAILED"
    OBVIOUS
  <2>3. ar' = ar \/ (ar.run = sv.run /\ ar' = [ar EXCEPT !.state = state])
    BY <1>7, <2>2 DEF StartFail
  <2> QED
    BY <1>2, <1>3, <1>4, <2>1, <2>3
<1>8. CASE StopPreparing
  <2>1. ar.run # NoId
    BY <1>1, <1>8, LogicalRunAssumption DEF StopPreparing
  <2> QED
    BY <1>2, <1>4, <1>8, <2>1 DEF StopPreparing
<1>9. CASE StopUndelivered
  <2>1. sv.run \in AttemptIds
    BY <1>0, <1>9 DEF StopUndelivered, At, TaskOK
  <2> QED
    BY <1>0, <1>2, <1>9, <2>1, ActiveIs DEF StopUndelivered
<1>10. CASE TabRemovedTask \/ TabUrlTask
  <2>1. externalState \in TerminalStates
    BY <1>2 DEF externalState
  <2>2. ar' = ar \/ (ar.run # NoId /\ ar' = [ar EXCEPT !.state = externalState])
    BY <1>10 DEF TabRemovedTask, TabUrlTask, leaveTab
  <2> QED
    BY <1>3, <1>4, <2>1, <2>2
<1>11. CASE RecoveryCommit
  <2>1. lr.status = "RECOVERING" /\ lr.next \in AttemptIds /\ lr.tab \in TabIds
    BY <1>0, <1>11, NoClaimYet, PcValues
    DEF RecoveryCommit, At, TaskOK, Recoveries, runOK, statusOK, attemptsOK
  <2> QED
    BY <1>2, <1>11, <2>1, ActiveIs DEF RecoveryCommit
<1>12. CASE RecoveryFail
  BY <1>2, <1>3, <1>4, <1>12 DEF RecoveryFail
<1>13. CASE ReconcileProject
  <2>1. lr.status = "TERMINAL" /\ sv.arg \in TerminalStates
    BY <1>0, <1>13 DEF ReconcileProject, At, TaskOK
  <2>2. lr.cur # NoId
    BY <1>0, <2>1, NotNone, LogicalRunAssumption DEF runOK, attemptsOK
  <2> QED
    BY <1>3, <1>4, <1>13, <2>1, <2>2 DEF ReconcileProject
<1>14. CASE ~( \/ StartTask \/ StartCommit \/ StartFail \/ StopPreparing \/ StopUndelivered
               \/ TabRemovedTask \/ TabUrlTask \/ RecoveryCommit \/ RecoveryFail
               \/ ReconcileProject)
  <2>1. ar' = ar
    BY <1>14 DEF SupervisorStep, StartNavigate, StartInject, StartSend,
       StartDiscard, StopNothing, StopClaimed, StopRunning, StopDelivered,
       StopSend, FinishedTask, FinishedReply, PhaseTask, ClaimTask, ClaimReply,
       Terminate, Effects, EffectsMark, CompleteTask, RecoveryTask, RecoveryReenter,
       RecoveryStart, ReconcileSettled, ReconcileRunning, ReconcileOutcome,
       ReconcileRecover, ReconcileLost, storage
  <2> QED
    BY <1>3, <2>1
<1> QED
  BY <1>5, <1>6, <1>7, <1>8, <1>9, <1>10, <1>11, <1>12, <1>13, <1>14

\* The requests, the stops that were answered, and the marks of a start.
LEMMA RequestsStep ==
  ASSUME IInv, [Next]_vars
  PROVE  /\ pending' \in Ids /\ cancelled' \subseteq AttemptIds /\ halted' \subseteq AttemptIds
         /\ up' \in BOOLEAN /\ early' \in BOOLEAN
<1>0. /\ pending \in Ids /\ cancelled \subseteq AttemptIds /\ halted \subseteq AttemptIds
      /\ up \in BOOLEAN /\ early \in BOOLEAN /\ used \subseteq AttemptIds /\ TaskOK
      /\ ar.run \in Ids /\ (ar.state = "CONFIGURED" => ar.run \in AttemptIds)
  BY DEF IInv, ProjectionOK, runOK, projects, Projections
<1>1. NoId \in Ids /\ AttemptIds \subseteq Ids /\ Ids \ {NoId} \subseteq AttemptIds
  BY DEF Ids
<1>2. lrActive => lr.id \in AttemptIds
  <2>1. lrActive => lr.id # NoId
    BY NotNone DEF IInv, runOK, lrActive
  <2> QED
    BY <2>1 DEF IInv, runOK, attemptsOK
<1>3. pending' \in Ids
  <2>1. StartTask => pending' = pending \/ (pending' = newId /\ used # AttemptIds)
    BY DEF StartTask
  <2>2. CASE StartTask
    BY <1>0, <1>1, <2>1, <2>2, NewId
  <2>3. CASE StartSend \/ StartDiscard \/ Crash \/ Sleep
    BY <1>0, <1>1, <2>3 DEF StartSend, StartDiscard, Crash, Sleep
  <2>4. CASE /\ SupervisorStep /\ ~(StartTask \/ StartSend \/ StartDiscard)
    <3>1. pending' = pending
      BY <2>4 DEF SupervisorStep, StartNavigate, StartInject, StartCommit, StartFail,
         StopNothing, StopClaimed, StopPreparing, StopRunning, StopDelivered,
         StopUndelivered, StopSend, FinishedTask, FinishedReply, PhaseTask, ClaimTask, ClaimReply,
         TabRemovedTask, TabUrlTask, Terminate, Effects, EffectsMark, CompleteTask, RecoveryTask,
         RecoveryReenter, RecoveryStart, RecoveryCommit, RecoveryFail, ReconcileSettled,
         ReconcileRunning, ReconcileOutcome, ReconcileRecover, ReconcileLost, ReconcileProject
    <3> QED
      BY <1>0, <3>1
  <2>5. CASE RecorderStep \/ UserStep \/ Tick \/ Boot \/ vars' = vars
    <3>1. pending' = pending
      BY <2>5 DEF RecorderStep, RecordEvent, RecordKept, RecorderWrite, UserStep, RequestStop,
         ClearRunEvents, RequestStart, CloseTab, Reload, ChangeUrl, Tick, Boot, vars, worker
    <3> QED
      BY <1>0, <3>1
  <2>6. CASE \E t \in Tabs : PageStep(t)
    <3>1. pending' = pending
      BY <2>6 DEF PageStep, PageExecute, PageClaimPin, PageClaimed, PageEmit, PageDeliver,
         PageDelivered, PageClaimOuter, PageFinish, worker
    <3> QED
      BY <1>0, <3>1
  <2> QED
    BY <2>2, <2>3, <2>4, <2>5, <2>6 DEF Next
<1>4. cancelled' \subseteq AttemptIds
  <2>1. CASE StartSend \/ StartDiscard \/ StopPreparing \/ Crash \/ Sleep \/ RequestStop
    BY <1>0, <1>1, <2>1 DEF StartSend, StartDiscard, StopPreparing, Crash, Sleep, RequestStop
  <2>2. CASE SupervisorStep /\ ~(StartSend \/ StartDiscard \/ StopPreparing)
    <3>1. cancelled' = cancelled
      BY <2>2 DEF SupervisorStep, StartTask, StartNavigate, StartInject, StartCommit, StartFail,
         StopNothing, StopClaimed, StopRunning, StopDelivered,
         StopUndelivered, StopSend, FinishedTask, FinishedReply, PhaseTask, ClaimTask, ClaimReply,
         TabRemovedTask, TabUrlTask, Terminate, Effects, EffectsMark, CompleteTask, RecoveryTask,
         RecoveryReenter, RecoveryStart, RecoveryCommit, RecoveryFail, ReconcileSettled,
         ReconcileRunning, ReconcileOutcome, ReconcileRecover, ReconcileLost, ReconcileProject
    <3> QED
      BY <1>0, <3>1
  <2>3. CASE RecorderStep \/ (UserStep /\ ~RequestStop) \/ Tick \/ Boot \/ vars' = vars
    <3>1. cancelled' = cancelled
      BY <2>3 DEF RecorderStep, RecordEvent, RecordKept, RecorderWrite, UserStep,
         ClearRunEvents, RequestStart, CloseTab, Reload, ChangeUrl, Tick, Boot, vars, worker
    <3> QED
      BY <1>0, <3>1
  <2>4. CASE \E t \in Tabs : PageStep(t)
    <3>1. cancelled' = cancelled
      BY <2>4 DEF PageStep, PageExecute, PageClaimPin, PageClaimed, PageEmit, PageDeliver,
         PageDelivered, PageClaimOuter, PageFinish, worker
    <3> QED
      BY <1>0, <3>1
  <2> QED
    BY <2>1, <2>2, <2>3, <2>4 DEF Next
<1>5. halted' \subseteq AttemptIds
  <2>1. CASE stopAnswered
    BY <1>0, <1>2, <2>1 DEF stopAnswered
  <2>2. stopAnswered \/ halted' = halted
    <3>1. CASE SupervisorStep
      BY <3>1 DEF SupervisorStep, StartTask, StartNavigate, StartInject, StartCommit, StartSend,
         StartFail, StartDiscard, StopNothing, StopClaimed, StopPreparing, StopRunning,
         StopDelivered, StopUndelivered, StopSend, FinishedTask, FinishedReply, PhaseTask,
         ClaimTask, ClaimReply, TabRemovedTask, TabUrlTask, Terminate, Effects, EffectsMark,
         CompleteTask, RecoveryTask, RecoveryReenter, RecoveryStart, RecoveryCommit, RecoveryFail,
         ReconcileSettled, ReconcileRunning, ReconcileOutcome, ReconcileRecover, ReconcileLost,
         ReconcileProject, history
    <3>2. CASE RecorderStep \/ UserStep \/ Tick \/ Boot \/ Crash \/ Sleep \/ vars' = vars
      BY <3>2 DEF RecorderStep, RecordEvent, RecordKept, RecorderWrite, UserStep, RequestStop,
         ClearRunEvents, RequestStart, CloseTab, Reload, ChangeUrl, Tick, Boot, Crash, Sleep,
         vars, history
    <3>3. CASE \E t \in Tabs : PageStep(t)
      BY <3>3 DEF PageStep, PageExecute, PageClaimPin, PageClaimed, PageEmit, PageDeliver,
         PageDelivered, PageClaimOuter, PageFinish, history
    <3> QED
      BY <3>1, <3>2, <3>3 DEF Next
  <2> QED
    BY <1>0, <2>1, <2>2
<1>6. up' \in BOOLEAN
  <2>1. up' \in {up, TRUE, FALSE}
    <3>1. CASE SupervisorStep
      BY <3>1 DEF SupervisorStep, StartTask, StartNavigate, StartInject, StartCommit, StartSend,
         StartFail, StartDiscard, StopNothing, StopClaimed, StopPreparing, StopRunning,
         StopDelivered, StopUndelivered, StopSend, FinishedTask, FinishedReply, PhaseTask,
         ClaimTask, ClaimReply, TabRemovedTask, TabUrlTask, Terminate, Effects, EffectsMark,
         CompleteTask, RecoveryTask, RecoveryReenter, RecoveryStart, RecoveryCommit, RecoveryFail,
         ReconcileSettled, ReconcileRunning, ReconcileOutcome, ReconcileRecover, ReconcileLost,
         ReconcileProject
    <3>2. CASE RecorderStep \/ UserStep \/ Tick \/ Boot \/ Crash \/ Sleep \/ vars' = vars
      BY <3>2 DEF RecorderStep, RecordEvent, RecordKept, RecorderWrite, UserStep, RequestStop,
         ClearRunEvents, RequestStart, CloseTab, Reload, ChangeUrl, Tick, Boot, Crash, Sleep,
         vars, worker
    <3>3. CASE \E t \in Tabs : PageStep(t)
      BY <3>3 DEF PageStep, PageExecute, PageClaimPin, PageClaimed, PageEmit, PageDeliver,
         PageDelivered, PageClaimOuter, PageFinish, worker
    <3> QED
      BY <3>1, <3>2, <3>3 DEF Next
  <2> QED
    BY <1>0, <2>1
<1>7. early' \in BOOLEAN
  <2>1. early' \in {early, FALSE}
    <3>1. CASE SupervisorStep
      BY <3>1 DEF SupervisorStep, StartTask, StartNavigate, StartInject, StartCommit, StartSend,
         StartFail, StartDiscard, StopNothing, StopClaimed, StopPreparing, StopRunning,
         StopDelivered, StopUndelivered, StopSend, FinishedTask, FinishedReply, PhaseTask,
         ClaimTask, ClaimReply, TabRemovedTask, TabUrlTask, Terminate, Effects, EffectsMark,
         CompleteTask, RecoveryTask, RecoveryReenter, RecoveryStart, RecoveryCommit, RecoveryFail,
         ReconcileSettled, ReconcileRunning, ReconcileOutcome, ReconcileRecover, ReconcileLost,
         ReconcileProject
    <3>2. CASE RecorderStep \/ UserStep \/ Tick \/ Boot \/ Crash \/ Sleep \/ vars' = vars
      BY <3>2 DEF RecorderStep, RecordEvent, RecordKept, RecorderWrite, UserStep, RequestStop,
         ClearRunEvents, RequestStart, CloseTab, Reload, ChangeUrl, Tick, Boot, Crash, Sleep, vars
    <3>3. CASE \E t \in Tabs : PageStep(t)
      BY <3>3 DEF PageStep, PageExecute, PageClaimPin, PageClaimed, PageEmit, PageDeliver,
         PageDelivered, PageClaimOuter, PageFinish
    <3> QED
      BY <3>1, <3>2, <3>3 DEF Next
  <2> QED
    BY <1>0, <2>1
<1> QED
  BY <1>3, <1>4, <1>5, <1>6, <1>7

\* Run events and the recorder.
eventsOK(q) == q \in Seq(RunEvents) /\ Len(q) <= MaxEvents

LEMMA EventIs ==
  ASSUME NEW run \in AttemptIds, NEW t \in Tabs, NEW state \in ActiveStates \cup {"kept"},
         eventsOK(events), Len(events) < MaxEvents,
         events' = Append(events, active(run, t, state))
  PROVE  eventsOK(events')
<1>1. PICK e : e = active(run, t, state)
  OBVIOUS
<1>2. e \in RunEvents
  BY <1>1 DEF active, RunEvents
<1>3. events' = Append(events, e) /\ events \in Seq(RunEvents)
  BY <1>1 DEF eventsOK
<1>4. events' \in Seq(RunEvents) /\ Len(events') = Len(events) + 1 /\ Len(events) \in Nat
  BY <1>2, <1>3
<1> QED
  BY <1>4, BoundsAssumption DEF eventsOK

LEMMA EventTailIs ==
  ASSUME eventsOK(events), events # <<>>
  PROVE  /\ Head(events) \in RunEvents /\ eventsOK(Tail(events))
<1>1. events \in Seq(RunEvents)
  BY DEF eventsOK
<1>2. Head(events) \in RunEvents /\ Tail(events) \in Seq(RunEvents)
      /\ Len(Tail(events)) = Len(events) - 1 /\ Len(events) \in Nat
  BY <1>1
<1> QED
  BY <1>2, BoundsAssumption DEF eventsOK

LEMMA RecorderStepOK ==
  ASSUME IInv, [Next]_vars
  PROVE  /\ projects(ar') /\ projects(recorder'.value) /\ recorder'.writing \in BOOLEAN
         /\ eventsOK(events')
<1>0. /\ projects(ar) /\ projects(recorder.value) /\ recorder.writing \in BOOLEAN
      /\ eventsOK(events) /\ PageOK /\ used \subseteq AttemptIds
  BY DEF IInv, ProjectionOK, eventsOK, runOK
<1>1. "CONFIGURED" \in ActiveStates /\ TerminalStates \subseteq ActiveStates
      /\ EventStates \subseteq ActiveStates \cup {"kept"}
  BY BoundsAssumption DEF ActiveStates
<1>2. projects(NoActive) /\ eventsOK(<<>>)
  <2>1. projects(NoActive)
    BY DEF projects, Projections, NoActive, Ids, TabIds
  <2> QED
    BY <2>1, BoundsAssumption DEF eventsOK
<1>3. projects(Quiet.value) /\ Quiet.writing \in BOOLEAN
  BY <1>2 DEF Quiet
<1>4. ASSUME NEW t \in Tabs, page[t].running PROVE page[t].attempt \in AttemptIds
  BY <1>0, <1>4 DEF PageOK, scriptOK
<1>5. CASE SupervisorStep
  <2>1. UNCHANGED <<events, recorder>>
    BY <1>5 DEF SupervisorStep, StartTask, StartNavigate, StartInject, StartCommit, StartSend,
       StartFail, StartDiscard, StopNothing, StopClaimed, StopPreparing, StopRunning,
       StopDelivered, StopUndelivered, StopSend, FinishedTask, FinishedReply, PhaseTask,
       ClaimTask, ClaimReply, TabRemovedTask, TabUrlTask, Terminate, Effects, EffectsMark,
       CompleteTask, RecoveryTask, RecoveryReenter, RecoveryStart, RecoveryCommit, RecoveryFail,
       ReconcileSettled, ReconcileRunning, ReconcileOutcome, ReconcileRecover, ReconcileLost,
       ReconcileProject, projection
  <2> QED
    BY <1>0, <1>5, <2>1, ProjectedBySupervisor
<1>6. CASE RecordEvent
  <2>1. PICK e : e = Head(events)
    OBVIOUS
  <2>2. e \in RunEvents /\ e.state # "kept" /\ eventsOK(events')
    BY <1>0, <1>6, <2>1, EventTailIs DEF RecordEvent
  <2>3. projects(e)
    BY <2>2 DEF RunEvents, projects, Projections, Ids, TabIds
  <2> QED
    BY <1>0, <1>6, <2>1, <2>2, <2>3 DEF RecordEvent
<1>7. CASE RecordKept
  <2>1. PICK e : e = Head(events)
    OBVIOUS
  <2>2. e \in RunEvents /\ eventsOK(events')
    BY <1>0, <1>7, <2>1, EventTailIs DEF RecordKept
  <2>3. PICK state \in ActiveStates \cup {"none"} :
          state = IF ar.run = NoId THEN "CONFIGURED" ELSE ar.state
    BY <1>0, <1>1 DEF projects, Projections
  <2>4. recorder' = [writing |-> TRUE, value |-> [e EXCEPT !.state = state]]
    BY <1>7, <2>1, <2>3 DEF RecordKept
  <2>5. projects([e EXCEPT !.state = state])
    BY <2>2, <2>3 DEF RunEvents, projects, Projections, Ids, TabIds
  <2>6. ar' = ar
    BY <1>7 DEF RecordKept, storage
  <2> QED
    BY <1>0, <2>2, <2>4, <2>5, <2>6
<1>8. CASE RecorderWrite
  BY <1>0, <1>3, <1>8 DEF RecorderWrite
<1>9. CASE ClearRunEvents
  BY <1>0, <1>2, <1>9 DEF ClearRunEvents, storage
<1>10. CASE Crash
  BY <1>0, <1>2, <1>3, <1>10 DEF Crash, storage
<1>11. ASSUME NEW t \in Tabs, NEW state \in EventStates, PageEmit(t, state)
       PROVE  ar' = ar /\ recorder' = recorder /\ eventsOK(events')
  <2>1. /\ events' = Append(events, active(page[t].attempt, t, state)) /\ page[t].running
        /\ Len(events) < MaxEvents /\ ar' = ar /\ recorder' = recorder
    BY <1>11 DEF PageEmit, storage
  <2> QED
    BY <1>0, <1>1, <1>4, <2>1, EventIs
<1>12. ASSUME NEW t \in Tabs, NEW outcome \in Outcomes, PageFinish(t, outcome)
       PROVE  ar' = ar /\ recorder' = recorder /\ eventsOK(events')
  <2>1. PICK state \in TerminalStates : state = stateOf(outcome)
    BY DEF stateOf, Outcomes, TerminalStates
  <2>2. /\ page[t].running /\ ar' = ar /\ recorder' = recorder
        /\ \/ /\ events' = Append(events, active(page[t].attempt, t, state))
              /\ Len(events) < MaxEvents
           \/ events' = events
    BY <1>12, <2>1 DEF PageFinish, storage
  <2> QED
    BY <1>0, <1>1, <1>4, <2>1, <2>2, EventIs
<1>13. CASE \E t \in Tabs : PageStep(t)
  <2>1. PICK t \in Tabs : PageStep(t)
    BY <1>13
  <2>2. ar' = ar /\ recorder' = recorder /\ eventsOK(events')
    BY <1>0, <1>11, <1>12, <2>1 DEF PageStep, PageExecute, PageClaimPin, PageClaimed, PageDeliver,
       PageDelivered, PageClaimOuter, projection, storage
  <2> QED
    BY <1>0, <2>2
<1>14. CASE (UserStep /\ ~ClearRunEvents) \/ Tick \/ Sleep \/ Boot \/ vars' = vars
  <2>1. UNCHANGED <<ar, events, recorder>>
    BY <1>14 DEF UserStep, RequestStop, RequestStart, CloseTab, Reload, ChangeUrl, Tick, Sleep,
       Boot, vars, projection, storage
  <2> QED
    BY <1>0, <2>1
<1> QED
  BY <1>5, <1>6, <1>7, <1>8, <1>9, <1>10, <1>13, <1>14 DEF Next, RecorderStep

LEMMA ProjectionStep ==
  ASSUME IInv, [Next]_vars
  PROVE  ProjectionOK'
BY RequestsStep, RecorderStepOK DEF ProjectionOK, eventsOK

-----------------------------------------------------------------------------
(* The running task, where it holds a start, a recovery or a sender *)

holds == StartsUnwritten \cup {"start_send", "recovery_start", "reply_claim", "reply_finished"}

keepsTask ==
  /\ sv'.pc = sv.pc /\ sv'.run = sv.run /\ sv'.tab = sv.tab /\ sv'.arg = sv.arg
  /\ sv'.from \in {sv.from, NoId}

goesOnStarting ==
  /\ sv.pc \in StartsUnwritten /\ sv'.pc \in StartsUnwritten \cup {"start_send"}
  /\ sv'.run = sv.run

reenters == sv'.pc = "recovery_start" /\ lr.tab \in Tabs /\ page'[lr.tab] = Blank /\ lr' = lr

startsAnew == StartTask /\ sv'.pc = "start_navigate" /\ sv'.run = newId /\ used # AttemptIds

LEMMA OthersKeepTask ==
  ASSUME IInv, [Next]_vars, ~SupervisorStep
  PROVE  (sv' = Idle \/ keepsTask) /\ lr' = lr
<1>0. sv \in Executions
  BY DEF IInv, TaskOK
<1>1. ASSUME sv' = sv PROVE keepsTask
  BY <1>1 DEF keepsTask
<1>2. ASSUME NEW t, sv' = orphan(sv, t) PROVE keepsTask
  BY <1>0, <1>2, OrphanTaskIs DEF keepsTask
<1>3. sv' = sv \/ sv' = Idle \/ \E t \in Tabs : sv' = orphan(sv, t)
  <2>1. CASE RecorderStep \/ Tick \/ Sleep \/ Boot \/ Crash \/ vars' = vars
    BY <2>1 DEF RecorderStep, RecordEvent, RecordKept, RecorderWrite, Tick, Sleep, Boot, Crash,
       vars, worker
  <2>2. CASE UserStep
    BY <2>2 DEF UserStep, RequestStop, ClearRunEvents, RequestStart, CloseTab, Reload, ChangeUrl,
       dropWaits, worker
  <2>3. CASE \E t \in Tabs : PageStep(t)
    BY <2>3 DEF PageStep, PageExecute, PageClaimPin, PageClaimed, PageEmit, PageDeliver,
       PageDelivered, PageClaimOuter, PageFinish, worker
  <2> QED
    BY <2>1, <2>2, <2>3 DEF Next
<1>4. lr' = lr
  BY OthersKeepRun DEF vars, storage
<1> QED
  BY <1>1, <1>2, <1>3, <1>4

LEMMA TaskMoves ==
  ASSUME IInv, [Next]_vars
  PROVE  \/ sv'.pc \notin holds
         \/ keepsTask /\ lr' = lr
         \/ goesOnStarting \/ reenters \/ startsAnew \/ permitsHead \/ decidesHead
<1>0. /\ runOK(lr, used) /\ TaskOK /\ QueueOK /\ sv \in Executions /\ PageOK
      /\ page \in [Tabs -> PageType]
  BY DEF IInv, TaskOK, PageOK
<1>1. Idle.pc \notin holds
  BY IdleIs DEF holds, StartsUnwritten
<1>2. CASE sv' = Idle
  BY <1>1, <1>2
<1>3. ASSUME NEW pc, sv' = [sv EXCEPT !.pc = pc] PROVE sv'.pc = pc /\ sv'.run = sv.run
  BY <1>0, <1>3 DEF Executions
<1>4. ASSUME NEW pc, sv' = [Idle EXCEPT !.pc = pc] PROVE sv'.pc = pc
  BY <1>4 DEF Idle
<1>a. ASSUME NEW pc, NEW t, sv' = [Idle EXCEPT !.pc = pc, !.tab = t] PROVE sv'.pc = pc
  BY <1>a DEF Idle
<1>5. CASE ~SupervisorStep
  BY <1>2, <1>5, OthersKeepTask
<1>6. CASE StartTask
  <2>1. CASE sv' = [Idle EXCEPT !.pc = "start_navigate", !.tab = Head(queue).tab, !.run = newId]
             /\ used # AttemptIds
    <3>1. sv'.pc = "start_navigate" /\ sv'.run = newId
      BY <2>1 DEF Idle
    <3> QED
      BY <1>6, <2>1, <3>1 DEF startsAnew
  <2> QED
    BY <1>2, <1>6, <2>1 DEF StartTask, Done
<1>7. CASE StartNavigate \/ StartInject \/ StartCommit
  <2>1. PICK pc \in {"start_inject", "start_commit", "start_send", "start_fail"} :
          sv' = [sv EXCEPT !.pc = pc]
    BY <1>7 DEF StartNavigate, StartInject, StartCommit, Goto
  <2>2. sv'.pc = pc /\ sv'.run = sv.run
    BY <1>3, <2>1
  <2>3. sv.pc \in StartsUnwritten
    BY <1>7 DEF StartNavigate, StartInject, StartCommit, At, StartsUnwritten
  <2> QED
    BY <2>1, <2>2, <2>3 DEF goesOnStarting, holds, StartsUnwritten
<1>8. CASE StartSend \/ StartFail \/ Terminate \/ Effects \/ RecoveryStart \/ ReconcileProject
  <2>1. sv' = Idle \/ \E pc \in {"start_fail", "start_discard", "effects", "mark",
                                 "recovery_commit", "recovery_fail"} : sv' = [sv EXCEPT !.pc = pc]
    BY <1>8 DEF StartSend, StartFail, Terminate, Effects, RecoveryStart, ReconcileProject, Goto, Done
  <2> QED
    BY <1>2, <1>3, <2>1 DEF holds, StartsUnwritten
<1>9. CASE RecoveryReenter
  <2>1. lr.tab \in Tabs
    <3>1. lr.status = "RECOVERING" /\ lr.id # NoId
      BY <1>0, <1>9, NoClaimYet DEF RecoveryReenter, At, TaskOK, Recoveries
    <3> QED
      BY <1>0, <3>1 DEF runOK, attemptsOK
  <2>2. \/ sv' = [sv EXCEPT !.pc = "recovery_fail"]
        \/ page' = [page EXCEPT ![lr.tab] = Blank] /\ sv' = [sv EXCEPT !.pc = "recovery_start"]
    BY <1>9 DEF RecoveryReenter, Goto
  <2>3. lr' = lr
    BY <1>9 DEF RecoveryReenter, storage
  <2>4. CASE sv' = [sv EXCEPT !.pc = "recovery_fail"]
    BY <1>3, <2>4 DEF holds, StartsUnwritten
  <2>5. CASE page' = [page EXCEPT ![lr.tab] = Blank] /\ sv' = [sv EXCEPT !.pc = "recovery_start"]
    <3>1. sv'.pc = "recovery_start"
      BY <1>3, <2>5
    <3>2. page'[lr.tab] = Blank
      BY <1>0, <2>1, <2>5
    <3> QED
      BY <2>1, <2>3, <3>1, <3>2 DEF reenters
  <2> QED
    BY <2>2, <2>4, <2>5
<1>10. CASE StopPreparing \/ TabRemovedTask \/ TabUrlTask
  <2>1. \/ sv' = Idle
        \/ \E t, run, state : \E then \in {"idle", "stop_send"} : terminateThen(t, run, state, then)
    BY <1>10 DEF StopPreparing, TabRemovedTask, TabUrlTask, leaveTab, Done
  <2>2. ASSUME NEW t, NEW run, NEW state, NEW then \in {"idle", "stop_send"},
               terminateThen(t, run, state, then)
        PROVE  sv'.pc \notin holds
    <3>1. \/ sv' = [Idle EXCEPT !.pc = "terminate", !.tab = t, !.run = run, !.arg = state,
                                !.stop = lr.dispatch.stop, !.then = then]
          \/ sv' = Idle
          \/ sv' = [Idle EXCEPT !.pc = then, !.tab = t]
      BY <2>2 DEF terminateThen
    <3>2. CASE sv' = [Idle EXCEPT !.pc = "terminate", !.tab = t, !.run = run, !.arg = state,
                                  !.stop = lr.dispatch.stop, !.then = then]
      BY <3>2 DEF Idle, holds, StartsUnwritten
    <3>3. CASE sv' = [Idle EXCEPT !.pc = then, !.tab = t]
      BY <1>a, <2>2, <3>3 DEF holds, StartsUnwritten
    <3> QED
      BY <1>1, <3>1, <3>2, <3>3
  <2> QED
    BY <1>2, <2>1, <2>2
<1>11. CASE StopRunning \/ EffectsMark
  <2>1. \/ sv' = Idle
        \/ sv' = [Idle EXCEPT !.pc = "stop_live", !.tab = ar.tab, !.run = ar.run,
                              !.stop = lr.dispatch.stop]
        \/ sv' = [Idle EXCEPT !.pc = sv.then, !.tab = sv.tab]
    BY <1>11 DEF StopRunning, EffectsMark
  <2>2. sv.then \in {"idle", "stop_send"}
    BY <1>0 DEF Executions
  <2>3. CASE sv' = [Idle EXCEPT !.pc = "stop_live", !.tab = ar.tab, !.run = ar.run,
                                !.stop = lr.dispatch.stop]
    BY <2>3 DEF Idle, holds, StartsUnwritten
  <2>4. CASE sv' = [Idle EXCEPT !.pc = sv.then, !.tab = sv.tab]
    BY <1>a, <2>2, <2>4 DEF holds, StartsUnwritten
  <2> QED
    BY <1>2, <2>1, <2>3, <2>4
<1>12. CASE StopUndelivered \/ RecoveryFail
  <2>1. \/ sv' = Idle
        \/ sv' = [sv EXCEPT !.pc = "terminate", !.arg = "STOPPED"]
        \/ sv' = [sv EXCEPT !.pc = "terminate", !.arg = "FAILED", !.stop = lr.dispatch.stop]
    BY <1>12 DEF StopUndelivered, RecoveryFail
  <2>2. sv'.pc \in {"idle", "terminate"}
    BY <1>0, <2>1, IdleIs DEF Executions
  <2> QED
    BY <2>2 DEF holds, StartsUnwritten
<1>13. CASE CompleteTask \/ RecoveryTask \/ ReconcileSettled \/ ReconcileRecover
  <2>1. sv' = Idle \/ \E pc \in {"effects", "recovery_commit", "recovery_reenter"} :
                        sv' = [Idle EXCEPT !.pc = pc]
    BY <1>0, <1>13, RecoveryIs
    DEF CompleteTask, RecoveryTask, ReconcileSettled, ReconcileRecover, completeTerminal, Done
  <2> QED
    BY <1>2, <1>4, <2>1 DEF holds, StartsUnwritten
<1>14. CASE ReconcileOutcome
  BY <1>14, FoundIs DEF holds, StartsUnwritten
<1>15. CASE ReconcileLost
  BY <1>15, LostIs DEF holds, StartsUnwritten
<1>16. CASE FinishedTask \/ ClaimTask
  <2>1. sv.pc = "idle"
    BY <1>16 DEF FinishedTask, ClaimTask, Take
  <2>2. decidesHead \/ permitsHead \/ (\E reply : answersHead(reply)) \/ grantsClaim \/ acknowledges
    BY <1>16, AnswersSupervisor
  <2> QED
    BY <1>2, <2>1, <2>2 DEF answersHead, grantsClaim, acknowledges
<1>17. CASE \/ StartDiscard \/ StopNothing \/ StopClaimed \/ StopDelivered \/ StopSend
            \/ FinishedReply \/ PhaseTask \/ ClaimReply \/ RecoveryCommit \/ ReconcileRunning
  BY <1>2, <1>17 DEF StartDiscard, StopNothing, StopClaimed, StopDelivered, StopSend,
     FinishedReply, PhaseTask, ClaimReply, RecoveryCommit, ReconcileRunning, Done
<1> QED
  BY <1>5, <1>6, <1>7, <1>8, <1>9, <1>10, <1>11, <1>12, <1>13, <1>14, <1>15, <1>16, <1>17
  DEF SupervisorStep

-----------------------------------------------------------------------------
(* Which messages of the queue are old, and who waits for them *)

sameButSender(m, n) ==
  /\ n.op = m.op /\ n.tab = m.tab /\ n.run = m.run /\ n.attempt = m.attempt
  /\ n.arg = m.arg /\ n.fp = m.fp /\ n.from \in {m.from, NoId}

\* Every message stood d places further back before, or is new and nobody waits for it.
inherits(d) ==
  \A i \in DOMAIN queue' :
    \/ i + d \in DOMAIN queue /\ sameButSender(queue[i + d], queue'[i])
    \/ plain(queue'[i]) /\ \A j \in DOMAIN queue' : j <= i

LEMMA QueueIs ==
  ASSUME IInv
  PROVE  /\ queue \in Seq(Tasks) /\ DOMAIN queue = 1..Len(queue) /\ Len(queue) \in Nat
         /\ \A i \in DOMAIN queue : i \in Nat \ {0} /\ i + 0 = i /\ sameButSender(queue[i], queue[i])
<1>1. queue \in Seq(Tasks)
  BY DEF IInv, QueueOK, messagesOK
<1>2. DOMAIN queue = 1..Len(queue) /\ Len(queue) \in Nat
  BY <1>1
<1>3. \A i \in DOMAIN queue : i \in Nat \ {0} /\ i + 0 = i
  BY <1>2
<1> QED
  BY <1>1, <1>2, <1>3 DEF sameButSender

LEMMA InheritsAll ==
  ASSUME IInv, queue' = queue
  PROVE  inherits(0)
BY QueueIs DEF inherits

LEMMA InheritsTail ==
  ASSUME IInv, takesHead
  PROVE  inherits(1)
<1>1. queue \in Seq(Tasks) /\ queue # <<>> /\ queue' = Tail(queue)
  BY QueueIs DEF takesHead
<1>2. \A i \in DOMAIN queue' : i + 1 \in DOMAIN queue /\ queue'[i] = queue[i + 1]
  BY <1>1, TailIs
<1> QED
  BY <1>2 DEF inherits, sameButSender

LEMMA InheritsAppend ==
  ASSUME IInv, NEW m, plain(m), NEW q \in Seq(Tasks), DOMAIN q = DOMAIN queue,
         \A i \in DOMAIN queue : sameButSender(queue[i], q[i]), queue' = Append(q, m)
  PROVE  inherits(0)
<1>1. m \in Tasks
  BY DEF plain
<1>2. /\ DOMAIN queue' = DOMAIN queue \cup {Len(q) + 1} /\ queue'[Len(q) + 1] = m
      /\ \A i \in DOMAIN queue : i <= Len(q) /\ queue'[i] = q[i]
      /\ Len(q) \in Nat
  BY <1>1, AppendIs
<1>3. \A i \in DOMAIN queue : i \in Nat \ {0} /\ i + 0 = i
  BY QueueIs
<1>4. \A j \in DOMAIN queue' : j <= Len(q) + 1
  BY <1>2, <1>3
<1>5. ASSUME NEW i \in DOMAIN queue
      PROVE  i + 0 \in DOMAIN queue /\ sameButSender(queue[i + 0], queue'[i])
  BY <1>2, <1>3, <1>5
<1> QED
  BY <1>2, <1>4, <1>5 DEF inherits

LEMMA InheritsOrphans ==
  ASSUME IInv, NEW t \in Tabs,
         queue' = orphans(t) \/ \E m : plain(m) /\ queue' = Append(orphans(t), m)
  PROVE  inherits(0) /\ \A i \in DOMAIN queue' : queue'[i].from # t
<1>1. /\ orphans(t) \in Seq(Tasks) /\ Len(orphans(t)) = Len(queue)
      /\ DOMAIN orphans(t) = DOMAIN queue
      /\ \A i \in DOMAIN queue : orphaned(queue[i], orphans(t)[i], t)
  BY QueueIs, OrphansIs
<1>2. t # NoId
  BY LogicalRunAssumption
<1>3. \A i \in DOMAIN queue : /\ sameButSender(queue[i], orphans(t)[i])
                              /\ orphans(t)[i].from # t
  BY <1>1, <1>2 DEF orphaned, sameButSender
<1>4. CASE queue' = orphans(t)
  BY <1>1, <1>3, <1>4, QueueIs DEF inherits
<1>5. ASSUME NEW m, plain(m), queue' = Append(orphans(t), m)
      PROVE  inherits(0) /\ \A i \in DOMAIN queue' : queue'[i].from # t
  <2>a. PICK q \in Seq(Tasks) : q = orphans(t)
    BY <1>1, Zenon
  <2>b. /\ q \in Seq(Tasks) /\ DOMAIN q = DOMAIN queue /\ queue' = Append(q, m) /\ m \in Tasks
        /\ \A i \in DOMAIN queue : sameButSender(queue[i], q[i]) /\ q[i].from # t
    BY <1>1, <1>3, <1>5, <2>a, Zenon DEF plain
  <2>1. inherits(0)
    BY <1>5, <2>b, InheritsAppend
  <2>2. /\ DOMAIN queue' = DOMAIN queue \cup {Len(q) + 1}
        /\ queue'[Len(q) + 1] = m
        /\ \A i \in DOMAIN queue : queue'[i] = q[i]
    BY <2>b, AppendIs
  <2>3. m.from # t
    BY <1>2, <1>5 DEF plain
  <2> QED
    BY <2>1, <2>2, <2>3, <2>b
<1> QED
  BY <1>4, <1>5

LEMMA InheritsPlain ==
  ASSUME IInv, NEW m, plain(m), queue' = Append(queue, m)
  PROVE  inherits(0)
BY QueueIs, InheritsAppend

\* What a sender looks at is left alone.
alike(p, q) ==
  /\ q.run = p.run /\ q.attempt = p.attempt /\ q.wait = p.wait /\ q.reply = p.reply
  /\ q.step = p.step

SendersInQueue ==
  \A i \in DOMAIN queue, t \in Tabs : queue[i].from = t =>
       /\ awaits(page[t], queue[i])
       /\ sv.from # t
       /\ \A j \in DOMAIN queue : queue[j].from = t => j = i

SenderOfTask ==
  \A t \in Tabs : sv.from = t =>
       /\ sv.pc \in {"reply_claim", "reply_finished"}
       /\ page[t].reply = "none" /\ page[t].run = lr.id
       /\ sv.pc = "reply_claim" => page[t].wait = "claim" /\ page[t].step = sv.arg
       /\ sv.pc = "reply_finished" =>
            /\ page[t].wait = "finished"
            /\ lr.attempts[page[t].attempt].decision = sv.arg

\* Where the queue only loses messages, its senders need only be left alone.
LEMMA SendersKept ==
  ASSUME IInv, queue' \in Seq(Tasks), NEW d \in {0, 1}, inherits(d),
         \A t \in Tabs, i \in DOMAIN queue' :
           queue'[i].from = t => alike(page[t], page'[t]) /\ sv'.from # t
  PROVE  SendersInQueue'
<1>1. \A i \in DOMAIN queue' : i \in Nat
  BY DEF Seq
<1>2. \A t \in Tabs : t # NoId
  BY LogicalRunAssumption
<1>3. ASSUME NEW i \in DOMAIN queue', NEW t \in Tabs, queue'[i].from = t
      PROVE  i + d \in DOMAIN queue /\ queue[i + d].from = t
             /\ sameButSender(queue[i + d], queue'[i])
  BY <1>2, <1>3 DEF inherits, plain, sameButSender
<1>4. ASSUME NEW i \in DOMAIN queue', NEW t \in Tabs, queue'[i].from = t
      PROVE  /\ awaits(page'[t], queue'[i]) /\ sv'.from # t
             /\ \A j \in DOMAIN queue' : queue'[j].from = t => j = i
  <2>1. i + d \in DOMAIN queue /\ queue[i + d].from = t
        /\ sameButSender(queue[i + d], queue'[i])
    BY <1>3, <1>4
  <2>2. /\ awaits(page[t], queue[i + d])
        /\ \A j \in DOMAIN queue : queue[j].from = t => j = i + d
    BY <2>1 DEF IInv, SendersOK
  <2>3. alike(page[t], page'[t]) /\ sv'.from # t
    BY <1>4
  <2>4. awaits(page'[t], queue'[i])
    BY <2>1, <2>2, <2>3 DEF awaits, alike, sameButSender
  <2>5. ASSUME NEW j \in DOMAIN queue', queue'[j].from = t PROVE j = i
    <3>1. j + d = i + d
      BY <1>3, <2>2, <2>5
    <3> QED
      BY <1>1, <3>1
  <2> QED
    BY <2>3, <2>4, <2>5
<1> QED
  BY <1>4 DEF SendersInQueue

\* No message of the queue has its sender in t.
heard(t) == \A i \in DOMAIN queue : queue[i].from # t

LEMMA SendersStay ==
  ASSUME IInv, queue' \in Seq(Tasks), NEW d \in {0, 1}, inherits(d),
         \A t \in Tabs :
            heard(t) \/ heard(t)' \/ (/\ alike(page[t], page'[t])
                                      /\ sv'.from # t \/ sv'.from = sv.from)
  PROVE  SendersInQueue'
<1>1. ASSUME NEW t \in Tabs, NEW i \in DOMAIN queue', queue'[i].from = t
      PROVE  alike(page[t], page'[t]) /\ sv'.from # t
  <2>1. t # NoId
    BY LogicalRunAssumption
  <2>2. i + d \in DOMAIN queue /\ queue[i + d].from = t
    BY <1>1, <2>1 DEF inherits, plain, sameButSender
  <2>3. ~heard(t) /\ ~heard(t)'
    BY <1>1, <2>2 DEF heard
  <2>4. sv.from # t
    BY <2>2 DEF IInv, SendersOK
  <2> QED
    BY <2>3, <2>4
<1> QED
  BY <1>1, SendersKept

LEMMA TaskKept ==
  ASSUME IInv, keepsTask, lr' = lr,
         \A t \in Tabs : sv'.from # t \/ alike(page[t], page'[t])
  PROVE  SenderOfTask'
<1>1. ASSUME NEW t \in Tabs, sv'.from = t
      PROVE  /\ sv'.pc \in {"reply_claim", "reply_finished"}
             /\ page'[t].reply = "none" /\ page'[t].run = lr'.id
             /\ sv'.pc = "reply_claim" => page'[t].wait = "claim" /\ page'[t].step = sv'.arg
             /\ sv'.pc = "reply_finished" =>
                  /\ page'[t].wait = "finished"
                  /\ lr'.attempts[page'[t].attempt].decision = sv'.arg
  <2>1. t # NoId
    BY LogicalRunAssumption
  <2>2. sv.from = t /\ alike(page[t], page'[t]) /\ sv'.pc = sv.pc /\ sv'.arg = sv.arg
    BY <1>1, <2>1 DEF keepsTask
  <2>3. /\ sv.pc \in {"reply_claim", "reply_finished"}
        /\ page[t].reply = "none" /\ page[t].run = lr.id
        /\ sv.pc = "reply_claim" => page[t].wait = "claim" /\ page[t].step = sv.arg
        /\ sv.pc = "reply_finished" =>
             /\ page[t].wait = "finished"
             /\ lr.attempts[page[t].attempt].decision = sv.arg
    BY <2>2 DEF IInv, SendersOK
  <2> QED
    BY <2>2, <2>3 DEF alike
<1> QED
  BY <1>1 DEF SenderOfTask

LEMMA NoTaskSender ==
  ASSUME sv'.from = NoId
  PROVE  SenderOfTask'
BY LogicalRunAssumption DEF SenderOfTask

\* A script that waits for nothing, or has its answer, is nobody's sender.
LEMMA Deaf ==
  ASSUME IInv, NEW t \in Tabs, page[t].wait = "none" \/ page[t].reply # "none"
  PROVE  heard(t) /\ sv.from # t
<1>1. heard(t)
  BY DEF IInv, SendersOK, awaits, heard
<1>2. sv.from # t
  BY TaskSender
<1> QED
  BY <1>1, <1>2

LEMMA AlikeIs ==
  /\ \A p : alike(p, p)
  /\ \A p, q : sameScript(p, q) /\ sameCall(p, q) => alike(p, q)
BY DEF alike, sameScript, sameCall

\* An answered script is the only one that moves.
LEMMA AnsweredAlike ==
  ASSUME NEW t, NEW reply, answered(t, reply), NEW u \in Tabs, u # t
  PROVE  page'[u] = page[u]
BY DEF answered, updates

\* The run a task answers about is still the run, and its sender has asked about it.
LEMMA DecidedSender ==
  ASSUME IInv, decidesHead
  PROVE  SenderOfTask'
<1>1. PICK m : m = Head(queue)
  OBVIOUS
<1>2. /\ takesHead /\ m.op = "finished" /\ decides(m) /\ runOK(lr, used) /\ sv'.from = m.from
      /\ page' = page /\ sv'.pc = "reply_finished"
      /\ sv'.arg = lr'.attempts[lr.cur].decision /\ lr.id = m.run /\ m.attempt = lr.cur
  BY <1>1 DEF decidesHead, decides, IInv
<1>3. lr'.id = lr.id
  <2>1. /\ lr.id # NoId /\ lr.attempts[lr.cur].decision = "none" /\ m.arg \in Outcomes
        /\ lr' = applyAttemptOutcome(lr, lr.cur, m.arg, early, newId)
        /\ lr'.status = "RECOVERING" => used # AttemptIds
    BY <1>2 DEF decides
  <2> QED
    BY <1>2, <2>1, OutcomeIs
<1>4. ASSUME NEW t \in Tabs, sv'.from = t
      PROVE  /\ page'[t].reply = "none" /\ page'[t].run = lr'.id /\ page'[t].wait = "finished"
             /\ lr'.attempts[page'[t].attempt].decision = sv'.arg
  <2>1. awaits(page[t], m)
    BY <1>1, <1>2, <1>4, HeadSender
  <2> QED
    BY <1>2, <1>3, <2>1 DEF awaits
<1> QED
  BY <1>2, <1>4 DEF SenderOfTask

LEMMA PermittedSender ==
  ASSUME IInv, permitsHead
  PROVE  SenderOfTask'
<1>1. PICK m : m = Head(queue)
  OBVIOUS
<1>2. /\ takesHead /\ m.op = "claim" /\ sv'.from = m.from /\ page' = page
      /\ sv'.pc = "reply_claim" /\ sv'.arg = m.arg /\ lr.id = m.run /\ lr'.id = lr.id
  BY <1>1 DEF permitsHead, permits, sameButDispatch
<1>3. ASSUME NEW t \in Tabs, sv'.from = t
      PROVE  /\ page'[t].reply = "none" /\ page'[t].run = lr'.id
             /\ page'[t].wait = "claim" /\ page'[t].step = sv'.arg
  <2>1. awaits(page[t], m)
    BY <1>1, <1>2, <1>3, HeadSender
  <2> QED
    BY <1>2, <2>1 DEF awaits
<1> QED
  BY <1>2, <1>3 DEF SenderOfTask

\* A new message is the only one of its sender.
LEMMA CalledSender ==
  ASSUME IInv, NEW t \in Tabs, NEW m, calls(t, m)
  PROVE  SendersInQueue' /\ SenderOfTask'
<1>1. /\ updates(t) /\ page[t].wait = "none" /\ m \in Tasks /\ m.from = t
      /\ awaits(page'[t], m) /\ queue' = Append(queue, m) /\ sv' = sv /\ lr' = lr
  BY DEF calls
<1>2. heard(t) /\ sv.from # t
  BY <1>1, Deaf
<1>3. \A u \in Tabs : u # t => page'[u] = page[u]
  BY <1>1 DEF updates
<1>4. PICK k : k = Len(queue) + 1
  OBVIOUS
<1>5. /\ DOMAIN queue' = DOMAIN queue \cup {k} /\ queue'[k] = m
      /\ \A i \in DOMAIN queue : queue'[i] = queue[i]
  BY <1>1, <1>4, AppendIs, QueueIs
<1>6. ASSUME NEW i \in DOMAIN queue', NEW u \in Tabs, queue'[i].from = u
      PROVE  /\ awaits(page'[u], queue'[i]) /\ sv'.from # u
             /\ \A j \in DOMAIN queue' : queue'[j].from = u => j = i
  <2>1. CASE u = t
    <3>1. \A j \in DOMAIN queue' : queue'[j].from = t => j = k
      BY <1>2, <1>5 DEF heard
    <3>2. i = k
      BY <1>6, <2>1, <3>1
    <3> QED
      BY <1>1, <1>2, <1>5, <2>1, <3>1, <3>2
  <2>2. CASE u # t
    <3>1. \A j \in DOMAIN queue' : queue'[j].from = u => j \in DOMAIN queue /\ queue[j].from = u
      BY <1>1, <1>5, <2>2
    <3>2. i \in DOMAIN queue /\ queue[i].from = u
      BY <1>6, <3>1
    <3>3. /\ awaits(page[u], queue[i]) /\ sv.from # u
          /\ \A j \in DOMAIN queue : queue[j].from = u => j = i
      BY <3>2 DEF IInv, SendersOK
    <3> QED
      BY <1>1, <1>3, <1>5, <2>2, <3>1, <3>2, <3>3
  <2> QED
    BY <2>1, <2>2
<1>7. SendersInQueue'
  BY <1>6 DEF SendersInQueue
<1>8. keepsTask
  BY <1>1 DEF keepsTask
<1>9. \A u \in Tabs : sv'.from # u \/ alike(page[u], page'[u])
  BY <1>1, <1>2, <1>3, AlikeIs
<1>10. SenderOfTask'
  BY <1>1, <1>8, <1>9, TaskKept
<1> QED
  BY <1>7, <1>10

LEMMA SendersStep ==
  ASSUME IInv, [Next]_vars
  PROVE  SendersOK'
<1>0. /\ page \in [Tabs -> PageType] /\ sv \in Executions /\ queue' \in Seq(Tasks)
      /\ \A t \in Tabs : scriptOK(page[t], used)
  BY QueueStep DEF IInv, PageOK, TaskOK, QueueOK, messagesOK
<1>1. ASSUME SendersInQueue', SenderOfTask' PROVE SendersOK'
  BY <1>1 DEF SendersInQueue, SenderOfTask, SendersOK
<1>2. Idle.from = NoId /\ \A t \in Tabs : t # NoId
  BY IdleIs, LogicalRunAssumption
<1>3. ASSUME NEW d \in {0, 1}, inherits(d), sv'.from = NoId \/ (keepsTask /\ lr' = lr),
             \A t \in Tabs : \/ heard(t) /\ sv.from # t
                             \/ heard(t)' /\ sv'.from # t
                             \/ alike(page[t], page'[t])
      PROVE  SendersOK'
  <2>1. \A t \in Tabs : sv'.from # t \/ sv'.from = sv.from
    BY <1>2, <1>3 DEF keepsTask
  <2>2. SendersInQueue'
    BY <1>0, <1>3, <2>1, SendersStay
  <2>3. SenderOfTask'
    <3>1. CASE sv'.from = NoId
      BY <3>1, NoTaskSender
    <3>2. CASE keepsTask /\ lr' = lr
      <4>1. \A t \in Tabs : sv'.from # t \/ alike(page[t], page'[t])
        BY <1>2, <1>3, <3>2 DEF keepsTask
      <4> QED
        BY <3>2, <4>1, TaskKept
    <3> QED
      BY <1>3, <3>1, <3>2
  <2> QED
    BY <1>1, <2>2, <2>3
<1>4. sv' = sv => keepsTask
  BY DEF keepsTask
<1>5. page' = page => \A t \in Tabs : alike(page[t], page'[t])
  BY AlikeIs
<1>6. CASE quiet
  BY <1>3, <1>4, <1>5, <1>6, InheritsAll DEF quiet
<1>7. CASE aborts
  <2>1. \A t \in Tabs : alike(page[t], page'[t])
    BY <1>7, AlikeIs DEF aborts, aborted, updates
  <2> QED
    BY <1>2, <1>3, <1>7, <2>1, InheritsAll DEF aborts
<1>8. CASE takes
  BY <1>3, <1>5, <1>8, InheritsTail DEF takes
<1>9. CASE decidesHead \/ permitsHead
  <2>1. takesHead /\ page' = page /\ sv'.from = Head(queue).from
    BY <1>9 DEF decidesHead, decides, permitsHead, permits
  <2>2. \A t \in Tabs : alike(page[t], page'[t]) /\ (sv'.from = t => heard(t)')
    BY <1>5, <2>1, HeadSender DEF heard
  <2>3. inherits(1)
    BY <2>1, InheritsTail
  <2>4. SendersInQueue'
    BY <1>0, <2>2, <2>3, SendersStay
  <2> QED
    BY <1>1, <1>9, <2>4, DecidedSender, PermittedSender
<1>10. ASSUME NEW reply, answersHead(reply) PROVE SendersOK'
  <2>1. takesHead /\ sv' = Idle /\ answered(Head(queue).from, reply)
    BY <1>10 DEF answersHead
  <2>2. \A t \in Tabs : heard(t)' \/ alike(page[t], page'[t])
    <3>1. ASSUME NEW t \in Tabs, Head(queue).from = t PROVE heard(t)'
      BY <2>1, <3>1, HeadSender DEF heard
    <3>2. ASSUME NEW t \in Tabs, Head(queue).from # t PROVE alike(page[t], page'[t])
      BY <2>1, <3>2, AnsweredAlike, AlikeIs
    <3> QED
      BY <3>1, <3>2
  <2> QED
    BY <1>2, <1>3, <2>1, <2>2, InheritsTail
<1>11. ASSUME NEW reply, answered(sv.from, reply), sv' = Idle, NEW d \in {0, 1}, inherits(d)
       PROVE  SendersOK'
  <2>1. \A t \in Tabs : heard(t) \/ alike(page[t], page'[t])
    <3>1. ASSUME NEW t \in Tabs, sv.from = t PROVE heard(t)
      BY <3>1, TaskSender DEF heard
    <3>2. ASSUME NEW t \in Tabs, sv.from # t PROVE alike(page[t], page'[t])
      BY <1>11, <3>2, AnsweredAlike, AlikeIs
    <3> QED
      BY <3>1, <3>2
  <2>2. SendersInQueue'
    BY <1>0, <1>2, <1>11, <2>1, SendersStay
  <2> QED
    BY <1>1, <1>2, <1>11, <2>2, NoTaskSender
<1>12. CASE grantsClaim
  BY <1>11, <1>12, InheritsAll DEF grantsClaim
<1>13. CASE acknowledges
  BY <1>11, <1>13, InheritsPlain DEF acknowledges
<1>14. CASE posts
  <2>1. \A t \in Tabs : alike(page[t], page'[t])
    <3>1. ASSUME NEW t \in Tabs, executes(t), NEW u \in Tabs PROVE alike(page[u], page'[u])
      BY <3>1, AlikeIs DEF executes, updates, sameAttempt, sameCall, alike
    <3> QED
      BY <1>5, <1>14, <3>1 DEF posts
  <2> QED
    BY <1>3, <1>4, <1>14, <2>1, InheritsPlain DEF posts
<1>15. ASSUME NEW t \in Tabs, NEW m, calls(t, m) PROVE SendersOK'
  BY <1>1, <1>15, CalledSender
<1>16. ASSUME NEW t \in Tabs, updates(t), heard(t) /\ sv.from # t, NEW d \in {0, 1}, inherits(d),
              sv'.from = NoId \/ (keepsTask /\ lr' = lr)
       PROVE  SendersOK'
  <2>1. \A u \in Tabs : u # t => alike(page[u], page'[u])
    BY <1>16, AlikeIs DEF updates
  <2> QED
    BY <1>3, <1>16, <2>1
<1>17. ASSUME NEW t \in Tabs, works(t) PROVE SendersOK'
  <2>1. updates(t) /\ (page[t].wait = "none" \/ page[t].reply # "none")
    BY <1>17 DEF works, claimed, delivered, finishes
  <2> QED
    BY <1>4, <1>16, <1>17, <2>1, Deaf, InheritsAll DEF works
<1>18. ASSUME NEW t \in Tabs, leaves(t) PROVE SendersOK'
  <2>1. inherits(0) /\ heard(t)' /\ updates(t) /\ lr' = lr
    BY <1>18, InheritsOrphans DEF leaves, heard
  <2>2. sv'.from # t /\ (sv'.from = NoId \/ keepsTask)
    BY <1>0, <1>2, <1>18, OrphanTaskIs DEF leaves, keepsTask
  <2>3. \A u \in Tabs : u # t => alike(page[u], page'[u])
    BY <2>1, AlikeIs DEF updates
  <2> QED
    BY <1>3, <2>1, <2>2, <2>3
<1>19. ASSUME NEW t \in Tabs, injects(t) \/ \E a, run : starts(t, a, run) PROVE SendersOK'
  <2>1. updates(t) /\ ~page[t].running /\ queue' = queue /\ sv'.from = NoId
    BY <1>0, <1>19 DEF injects, starts, scriptOK
  <2>2. page[t].wait = "none"
    BY <1>0, <2>1 DEF scriptOK
  <2> QED
    BY <1>16, <2>1, <2>2, Deaf, InheritsAll
<1>20. CASE Crash
  <2>1. queue' = <<>> /\ sv' = Idle
    BY <1>20 DEF Crash
  <2>2. SendersInQueue'
    BY <2>1 DEF SendersInQueue
  <2> QED
    BY <1>1, <1>2, <2>1, <2>2, NoTaskSender
<1> QED
  BY <1>6, <1>7, <1>8, <1>9, <1>10, <1>12, <1>13, <1>14, <1>15, <1>17, <1>18, <1>19, <1>20,
     StepKinds DEF stepKinds

-----------------------------------------------------------------------------
(* Where a logical run and its attempts live *)

gone(t) ==
  /\ page'[t].run = NoId /\ page'[t].attempt = NoId
  /\ page'[t].doc # "live" \/ sv'.pc = "start_commit"

\* The attempt of a document stays or goes; only a start puts another one there.
LEMMA PageMoves ==
  ASSUME IInv, [Next]_vars
  PROVE  \/ \A t \in Tabs : sameAttempt(page[t], page'[t]) \/ gone(t)
         \/ \E t \in Tabs : \E a, run : starts(t, a, run)
<1>0. page \in [Tabs -> PageType] /\ \A p : sameAttempt(p, p)
  BY DEF IInv, PageOK, sameAttempt
<1>1. \A p, q : sameScript(p, q) => sameAttempt(p, q)
  BY DEF sameScript, sameAttempt
<1>2. ASSUME NEW t \in Tabs, updates(t), sameAttempt(page[t], page'[t]) \/ gone(t), NEW u \in Tabs
      PROVE  sameAttempt(page[u], page'[u]) \/ gone(u)
  BY <1>0, <1>2 DEF updates
<1>3. CASE quiet \/ takes \/ decidesHead \/ permitsHead
  BY <1>0, <1>3 DEF quiet, takes, decidesHead, permitsHead, decides, permits
<1>4. CASE aborts
  BY <1>0, <1>1, <1>2, <1>4 DEF aborts, aborted
<1>5. ASSUME NEW t, NEW reply, answered(t, reply)
      PROVE  \A u \in Tabs : sameAttempt(page[u], page'[u])
  BY <1>0, <1>1, <1>5 DEF answered, updates
<1>6. CASE (\E reply : answersHead(reply)) \/ grantsClaim \/ acknowledges
  BY <1>5, <1>6 DEF answersHead, grantsClaim, acknowledges
<1>7. CASE posts
  BY <1>0, <1>2, <1>7 DEF posts, executes
<1>8. CASE \E t \in Tabs : (\E m : calls(t, m)) \/ works(t)
  BY <1>2, <1>8 DEF calls, works, claimed, delivered, finishes
<1>9. ASSUME NEW t \in Tabs, leaves(t) \/ injects(t)
      PROVE  \A u \in Tabs : sameAttempt(page[u], page'[u]) \/ gone(u)
  <2>1. updates(t) /\ gone(t)
    BY <1>9, BareIs DEF leaves, injects, bare, gone
  <2> QED
    BY <1>2, <2>1
<1>10. CASE Crash
  BY <1>0, <1>1, <1>10, CrashIs DEF failed
<1> QED
  BY <1>3, <1>4, <1>6, <1>7, <1>8, <1>9, <1>10, StepKinds DEF stepKinds

\* Attempts and runs of the pages are drawn already.
LEMMA PagesUsed ==
  ASSUME IInv
  PROVE  \A t \in Tabs : page[t].run \in used \cup {NoId} /\ page[t].attempt \in used \cup {NoId}
BY DEF IInv, PageOK, scriptOK

RunsOK ==
  /\ lr.id # NoId => \A t \in Tabs : page[t].run = lr.id => t = lr.tab
  /\ \A t, u \in Tabs : page[t].run = page[u].run /\ page[t].run # NoId => t = u
  /\ \A t \in Tabs : page[t].attempt # NoId /\ page[t].attempt \in {lr.cur, lr.next} =>
       page[t].run = lr.id

TasksPlaceOK ==
  /\ sv.pc \in StartsUnwritten \cup {"start_send"} =>
       \A t \in Tabs : sv.run \notin {page[t].run, page[t].attempt}
  /\ sv.pc = "recovery_start" /\ lr.tab \in Tabs => page[lr.tab].doc # "live"

\* No document takes up an attempt: the logical run moves past them.
LEMMA RunsNoStart ==
  ASSUME IInv, [Next]_vars, \A t \in Tabs : sameAttempt(page[t], page'[t]) \/ gone(t)
  PROVE  RunsOK'
<1>0. /\ runOK(lr, used) /\ RunsOK /\ TaskOK /\ used \subseteq AttemptIds
      /\ NoId \notin AttemptIds
  BY LogicalRunAssumption DEF IInv, runOK, PlacesOK, RunsOK
<1>1. \A t \in Tabs :
        /\ page'[t].run # NoId => page'[t].run = page[t].run
        /\ page'[t].attempt # NoId => /\ page'[t].attempt = page[t].attempt
                                      /\ page'[t].run = page[t].run
                                      /\ page'[t].attempt \in used
  BY PagesUsed DEF sameAttempt, gone
<1>2. \A t, u \in Tabs : page'[t].run = page'[u].run /\ page'[t].run # NoId => t = u
  BY <1>0, <1>1 DEF RunsOK
<1>3. CASE StartCommit
  <2>1. sv.pc = "start_commit" /\ lr' = createLogicalRun(sv.run, sv.tab) /\ sv.run \in used
        /\ sv.run # NoId /\ sv.tab \in Tabs
    BY <1>0, <1>3 DEF StartCommit, At, TaskOK, Starts, StartsUnwritten
  <2>2. lr'.id = sv.run /\ lr'.cur = sv.run /\ lr'.next = NoId
    <3>1. PICK a \in AttemptIds, t \in Tabs : a = sv.run /\ t = sv.tab
      BY <1>0, <2>1
    <3>2. lr' = createLogicalRun(a, t)
      BY <2>1, <3>1
    <3>3. lr'.id = a /\ lr'.cur = a /\ lr'.next = NoId
      BY <3>2 DEF createLogicalRun, NoRun
    <3> QED
      BY <3>1, <3>3
  <2>3. \A t \in Tabs : sv.run \notin {page[t].run, page[t].attempt}
    BY <2>1 DEF IInv, PlacesOK, StartsUnwritten
  <2>4. \A t \in Tabs : sv.run \notin {page'[t].run, page'[t].attempt}
    BY <1>1, <2>1, <2>3
  <2> QED
    BY <1>2, <2>2, <2>4 DEF RunsOK
<1>4. CASE lr' = NoRun
  <2>1. lr'.id = NoId /\ lr'.cur = NoId /\ lr'.next = NoId
    BY <1>4 DEF NoRun
  <2> QED
    BY <1>2, <2>1 DEF RunsOK
<1>5. ASSUME lr'.id = lr.id, lr'.tab = lr.tab, lr'.cur \in {lr.cur, lr.next},
             lr'.next \in {lr.next, NoId} \cup (AttemptIds \ used)
      PROVE  RunsOK'
  <2>1. lr'.id # NoId => \A t \in Tabs : page'[t].run = lr'.id => t = lr'.tab
    BY <1>0, <1>1, <1>5 DEF RunsOK
  <2>2. ASSUME NEW t \in Tabs, page'[t].attempt # NoId, page'[t].attempt \in {lr'.cur, lr'.next}
        PROVE  page'[t].run = lr'.id
    <3>1. page[t].attempt # NoId /\ page[t].attempt \in {lr.cur, lr.next}
      BY <1>1, <1>5, <2>2
    <3> QED
      BY <1>0, <1>1, <1>5, <2>2, <3>1 DEF RunsOK
  <2> QED
    BY <1>2, <2>1, <2>2 DEF RunsOK
<1>6. CASE lr' = lr \/ goesOn(lr, lr')
  BY <1>5, <1>6 DEF goesOn
<1> QED
  BY <1>3, <1>4, <1>6, RunMoves DEF replaced

LEMMA TasksPlaceNoStart ==
  ASSUME IInv, [Next]_vars, \A t \in Tabs : sameAttempt(page[t], page'[t]) \/ gone(t)
  PROVE  TasksPlaceOK'
<1>0. used \subseteq AttemptIds /\ NoId \notin AttemptIds /\ PlacesOK
  BY LogicalRunAssumption DEF IInv, runOK
<1>1. \A t \in Tabs : /\ page'[t].run \in {page[t].run, NoId}
                      /\ page'[t].attempt \in {page[t].attempt, NoId}
  BY DEF sameAttempt, gone
<1>2. CASE sv'.pc \notin holds
  BY <1>2 DEF TasksPlaceOK, holds
<1>3. ASSUME sv'.pc \in StartsUnwritten \cup {"start_send"}, sv'.run # NoId,
             \A t \in Tabs : sv'.run \notin {page[t].run, page[t].attempt}
      PROVE  TasksPlaceOK'
  <2>1. \A t \in Tabs : sv'.run \notin {page'[t].run, page'[t].attempt}
    BY <1>1, <1>3
  <2> QED
    BY <1>3, <2>1 DEF TasksPlaceOK, StartsUnwritten
<1>4. sv'.pc \in StartsUnwritten \cup {"start_send"} => sv'.run # NoId
  BY <1>0, TaskStep, UsedGrows DEF TaskOK, Starts, StartsUnwritten
<1>5. CASE keepsTask /\ lr' = lr
  <2>1. CASE sv.pc \in StartsUnwritten \cup {"start_send"}
    BY <1>0, <1>3, <1>4, <1>5, <2>1 DEF keepsTask, PlacesOK
  <2>2. CASE sv.pc = "recovery_start"
    <3>1. lr.tab \in Tabs => page[lr.tab].doc # "live"
      BY <1>0, <2>2 DEF PlacesOK
    <3>2. lr.tab \in Tabs => page'[lr.tab].doc # "live"
      BY <1>5, <2>2, <3>1 DEF keepsTask, sameAttempt, gone
    <3> QED
      BY <1>5, <2>2, <3>2 DEF TasksPlaceOK, keepsTask, StartsUnwritten
  <2>3. CASE sv.pc \notin StartsUnwritten \cup {"start_send", "recovery_start"}
    BY <1>5, <2>3 DEF TasksPlaceOK, keepsTask
  <2> QED
    BY <2>1, <2>2, <2>3
<1>6. CASE goesOnStarting
  BY <1>0, <1>3, <1>4, <1>6 DEF goesOnStarting, PlacesOK
<1>7. CASE startsAnew
  <2>1. newId \in AttemptIds \ used /\ sv'.run = newId /\ sv'.pc = "start_navigate"
    BY <1>0, <1>7, NewId DEF startsAnew
  <2>2. \A t \in Tabs : newId \notin {page[t].run, page[t].attempt}
    BY <1>0, <2>1, PagesUsed
  <2> QED
    BY <1>0, <1>3, <2>1, <2>2 DEF StartsUnwritten
<1>8. CASE reenters
  BY <1>8, BareIs DEF reenters, TasksPlaceOK, StartsUnwritten
<1>9. CASE permitsHead \/ decidesHead
  BY <1>9 DEF permitsHead, permits, decidesHead, decides, TasksPlaceOK, StartsUnwritten
<1> QED
  BY <1>2, <1>5, <1>6, <1>7, <1>8, <1>9, TaskMoves

\* A document takes up the attempt of a start, or the second one of the run.
LEMMA RunsStart ==
  ASSUME IInv, NEW t \in Tabs, NEW a, NEW run, starts(t, a, run)
  PROVE  RunsOK'
<1>0. /\ runOK(lr, used) /\ PlacesOK /\ TaskOK /\ used \subseteq AttemptIds
      /\ NoId \notin AttemptIds
  BY LogicalRunAssumption DEF IInv, runOK
<1>1. /\ a \in AttemptIds /\ run \in AttemptIds /\ page'[t] = Started(a, run) /\ lr' = lr
      /\ \A u \in Tabs : u # t => page'[u] = page[u]
  BY <1>0 DEF starts, updates
<1>2. page'[t].run = run /\ page'[t].attempt = a
  BY <1>1, StartedIs
<1>3. run = lr.id /\ t = lr.tab /\ \A u \in Tabs : page[u].run = run => u = t
  <2>1. CASE sv.pc = "start_send" /\ t = sv.tab /\ a = sv.run /\ run = sv.run
    <3>1. lr = createLogicalRun(sv.run, sv.tab)
      BY <1>0, <2>1 DEF TaskOK
    <3>2. lr.id = sv.run /\ lr.tab = sv.tab
      <4>1. a = sv.run /\ lr = createLogicalRun(a, t)
        BY <2>1, <3>1
      <4>2. lr.id = a /\ lr.tab = t
        BY <4>1 DEF createLogicalRun, NoRun
      <4> QED
        BY <2>1, <4>2
    <3> QED
      BY <1>0, <2>1, <3>2 DEF PlacesOK
  <2>2. CASE t = lr.tab /\ run = lr.id
    BY <1>0, <1>1, <2>2 DEF PlacesOK
  <2> QED
    BY <2>1, <2>2 DEF starts
<1>4. \A u, v \in Tabs : page'[u].run = page'[v].run /\ page'[u].run # NoId => u = v
  BY <1>0, <1>1, <1>2, <1>3 DEF PlacesOK
<1>5. \A u \in Tabs : page'[u].run = lr'.id => u = lr'.tab
  BY <1>0, <1>1, <1>2, <1>3 DEF PlacesOK
<1>6. \A u \in Tabs : page'[u].attempt # NoId /\ page'[u].attempt \in {lr'.cur, lr'.next} =>
        page'[u].run = lr'.id
  BY <1>0, <1>1, <1>2, <1>3 DEF PlacesOK
<1> QED
  BY <1>4, <1>5, <1>6 DEF RunsOK

LEMMA PlacesStep ==
  ASSUME IInv, [Next]_vars
  PROVE  PlacesOK'
<1>1. ASSUME RunsOK', TasksPlaceOK' PROVE PlacesOK'
  BY <1>1 DEF RunsOK, TasksPlaceOK, PlacesOK
<1>2. CASE \A t \in Tabs : sameAttempt(page[t], page'[t]) \/ gone(t)
  BY <1>1, <1>2, RunsNoStart, TasksPlaceNoStart
<1>3. ASSUME NEW t \in Tabs, NEW a, NEW run, starts(t, a, run) PROVE PlacesOK'
  <2>1. sv'.pc \in {"idle", "recovery_commit"}
    BY <1>3, IdleIs DEF starts
  <2>2. TasksPlaceOK'
    BY <2>1 DEF TasksPlaceOK, StartsUnwritten
  <2> QED
    BY <1>1, <1>3, <2>2, RunsStart
<1> QED
  BY <1>2, <1>3, PageMoves

-----------------------------------------------------------------------------
(* One script at a time, and the books *)

\* The document holds no script any more, or one that was just started.
begins(t) ==
  /\ page'[t].wait = "none" /\ page'[t].reply = "none" /\ page'[t].step = "none"
  /\ page'[t].phase \in {"none", "PREPARING"}
  /\ page'[t].run = NoId \/ \E a, run : starts(t, a, run)

\* The answer of a script is what it was, or comes from the supervisor.
told(t) ==
  \/ page'[t].reply \in {page[t].reply, "failed", "refused"}
  \/ grantsClaim /\ sv.from = t /\ page'[t].reply = "granted"
  \/ acknowledges /\ sv.from = t /\ page'[t].reply = sv.arg
  \/ /\ takesHead /\ lr' = lr /\ Head(queue).op = "finished" /\ Head(queue).from = t
     /\ page'[t].reply \in Decisions
     /\ lr.id = Head(queue).run /\ lr.attempts[Head(queue).attempt].decision = page'[t].reply

stays(t) == sameScript(page[t], page'[t]) /\ page'[t].wait = page[t].wait /\ told(t)

LEMMA ScriptKinds ==
  ASSUME IInv, [Next]_vars, NEW t \in Tabs
  PROVE  stays(t) \/ begins(t) \/ executes(t) \/ (\E m : calls(t, m)) \/ works(t)
<1>1. ASSUME page'[t] = page[t] PROVE stays(t)
  BY <1>1 DEF stays, told, sameScript
<1>2. CASE quiet \/ takes \/ decidesHead \/ permitsHead
  BY <1>1, <1>2 DEF quiet, takes, decidesHead, permitsHead, decides, permits
<1>3. CASE aborts
  BY <1>1, <1>3 DEF aborts, aborted, updates, sameCall, stays, told
<1>4. ASSUME NEW u, NEW reply, answered(u, reply)
      PROVE  stays(t) \/ (/\ u = t /\ sameScript(page[t], page'[t])
                          /\ page'[t].wait = page[t].wait /\ page'[t].reply = reply)
  BY <1>1, <1>4 DEF answered, updates
<1>5. ASSUME NEW reply, answersHead(reply) PROVE stays(t)
  BY <1>4, <1>5 DEF answersHead, stays, told
<1>6. CASE grantsClaim
  BY <1>4, <1>6 DEF grantsClaim, stays, told
<1>7. CASE acknowledges
  <2>1. answered(sv.from, sv.arg)
    BY <1>7 DEF acknowledges
  <2> QED
    BY <1>4, <1>7, <2>1 DEF stays, told
<1>8. CASE posts
  BY <1>1, <1>8 DEF posts, executes, updates
<1>9. CASE \E u \in Tabs : (\E m : calls(u, m)) \/ works(u)
  <2>1. PICK u \in Tabs : (\E m : calls(u, m)) \/ works(u)
    BY <1>9
  <2>2. updates(u)
    BY <2>1 DEF calls, works, claimed, delivered, finishes
  <2> QED
    BY <1>1, <2>1, <2>2 DEF updates
<1>10. ASSUME NEW u \in Tabs, leaves(u) \/ injects(u) PROVE stays(t) \/ begins(t)
  <2>1. updates(u) /\ bare(page'[u])
    BY <1>10, BareIs DEF leaves, injects
  <2> QED
    BY <1>1, <2>1 DEF updates, begins, bare
<1>11. ASSUME NEW u \in Tabs, NEW a, NEW run, starts(u, a, run) PROVE stays(t) \/ begins(t)
  <2>1. updates(u) /\ page'[u] = Started(a, run) /\ a \in AttemptIds /\ run \in AttemptIds
    BY <1>11 DEF starts, IInv, runOK
  <2>2. /\ page'[u].wait = "none" /\ page'[u].reply = "none" /\ page'[u].step = "none"
        /\ page'[u].phase = "PREPARING"
    BY <2>1, StartedIs
  <2> QED
    BY <1>1, <1>11, <2>1, <2>2 DEF updates, begins
<1>12. CASE Crash
  <2>1. failed(page[t], page'[t])
    BY <1>12, CrashIs DEF IInv, PageOK
  <2> QED
    BY <2>1 DEF failed, stays, told
<1> QED
  BY <1>2, <1>3, <1>5, <1>6, <1>7, <1>8, <1>9, <1>10, <1>11, <1>12, StepKinds DEF stepKinds

\* At most one of the books is written.
LEMMA BooksMove ==
  ASSUME IInv, [Next]_vars
  PROVE  \/ still
         \/ grantsClaim
         \/ \E t \in Tabs : /\ claimed(t) /\ clicked(t) /\ UNCHANGED <<grants, announced>>
                            /\ lr' = lr /\ sv' = sv /\ queue' = queue
         \/ Effects
<1>1. CASE quiet
  BY <1>1 DEF quiet, still
<1>2. CASE \/ aborts \/ takes \/ decidesHead \/ permitsHead \/ (\E reply : answersHead(reply))
           \/ acknowledges \/ posts \/ (\E t \in Tabs : \E m : calls(t, m) /\ still)
  BY <1>2 DEF aborts, takes, decidesHead, permitsHead, answersHead, acknowledges, posts
<1>3. CASE \E t \in Tabs : leaves(t) \/ injects(t) \/ \E a, run : starts(t, a, run)
  BY <1>3 DEF leaves, injects, starts
<1>4. CASE \E t \in Tabs : works(t)
  BY <1>4 DEF works, claimed, still
<1>5. CASE Crash
  BY <1>5 DEF Crash, history, still
<1> QED
  BY <1>1, <1>2, <1>3, <1>4, <1>5, StepKinds DEF stepKinds

\* The effects of the run in storage are in the books afterwards.
LEMMA EffectsAre ==
  ASSUME IInv, Effects
  PROVE  /\ lr.id \in used /\ lr.id \in AttemptIds /\ lr.status = "TERMINAL" /\ ~lr.effectsDone
         /\ lr' = lr /\ announcedState(lr) \in TerminalStates /\ UNCHANGED <<grants, clicks, page>>
         /\ announced' = [announced EXCEPT ![lr.id] = @ \cup {announcedState(lr)}]
         /\ sv'.pc = "mark" /\ sv.pc = "effects" /\ queue' = queue /\ up' = up
<1>1. lr.status = "TERMINAL" /\ ~lr.effectsDone /\ runOK(lr, used) /\ sv \in Executions
  BY DEF Effects, At, IInv, TaskOK
<1>2. lr.id \in used /\ lr.id \in AttemptIds /\ lr.cur \in AttemptIds
  BY <1>1, NotNone DEF runOK, attemptsOK
<1>3. lr.attempts[lr.cur] \in AttemptRecord
  BY <1>1, <1>2 DEF runOK, attemptsOK, LogicalRuns
<1>4. lr.attempts[lr.cur].final \in Outcomes
  BY <1>1, <1>3 DEF runOK, statusOK, AttemptRecord
<1>5. announcedState(lr) \in TerminalStates
  BY <1>4 DEF announcedState, stateOf, Outcomes, TerminalStates
<1>6. sv'.pc = "mark"
  BY <1>1 DEF Effects, Goto, Executions
<1> QED
  BY <1>1, <1>2, <1>5, <1>6 DEF Effects, At, storage

\* The permission of the running task is booked.
LEMMA GrantIs ==
  ASSUME IInv, grantsClaim
  PROVE  /\ sv.run = lr.id /\ lr.id \in used /\ lr.id \in AttemptIds /\ sv.arg \in Presses
         /\ lr.status = "EXECUTING" /\ lr.dispatch.fp # NoId
         /\ sv.arg = "pin" => lr.dispatch.pin
         /\ grants[lr.id][sv.arg] = 0
<1>1. /\ sv.run = lr.id /\ sv.arg \in Presses /\ lr.status = "EXECUTING" /\ lr.dispatch.fp # NoId
      /\ (sv.arg = "pin" => lr.dispatch.pin)
  BY DEF grantsClaim, IInv, TaskOK
<1>2. grants[lr.id][sv.arg] = 0
  BY <1>1 DEF grantsClaim, IInv, ClaimsOK
<1>3. lr.id \in used /\ lr.id \in AttemptIds
  BY <1>1, NotNone DEF IInv, runOK, attemptsOK
<1> QED
  BY <1>1, <1>2, <1>3

LEMMA FreshStays ==
  ASSUME IInv, [Next]_vars, NEW l \in AttemptIds, fresh(l),
         l # lr.id \/ sv.pc \notin {"reply_claim", "effects"}
  PROVE  fresh(l)'
<1>0. grants \in [AttemptIds -> Counters] /\ announced \in [AttemptIds -> SUBSET TerminalStates]
  BY DEF IInv, HistoryOK
<1>1. CASE still
  BY <1>1 DEF still, fresh
<1>2. CASE grantsClaim
  <2>1. sv.run = lr.id /\ lr.id \in AttemptIds /\ l # lr.id
    BY <1>2, GrantIs DEF grantsClaim
  <2>2. grants'[l] = grants[l] /\ announced'[l] = announced[l]
    BY <1>0, <1>2, <2>1 DEF grantsClaim
  <2> QED
    BY <2>2 DEF fresh
<1>3. CASE UNCHANGED <<grants, announced>>
  BY <1>3 DEF fresh
<1>4. CASE Effects
  <2>1. l # lr.id
    BY <1>4, EffectsAre
  <2>2. grants'[l] = grants[l] /\ announced'[l] = announced[l]
    BY <1>0, <1>4, <2>1, EffectsAre
  <2> QED
    BY <2>2 DEF fresh
<1> QED
  BY <1>1, <1>2, <1>3, <1>4, BooksMove

LEMMA CounterIs ==
  ASSUME NEW c \in Counters
  PROVE  /\ c["outer"] \in Nat /\ c["pin"] \in Nat /\ \A p \in Presses : c[p] \in Nat
         /\ c["outer"] = c.outer /\ c["pin"] = c.pin
BY DEF Counters, Presses

bump(book, a, p) == [book EXCEPT ![a][p] = @ + 1]

LEMMA BumpIs ==
  ASSUME NEW book \in [AttemptIds -> Counters], NEW a \in AttemptIds, NEW p \in Presses,
         NEW after, after = bump(book, a, p)
  PROVE  /\ after \in [AttemptIds -> Counters]
         /\ after[a][p] = book[a][p] + 1
         /\ \A b \in AttemptIds, q \in Presses : b # a \/ q # p => after[b][q] = book[b][q]
<1>1. book[a] \in Counters /\ book[a]["outer"] \in Nat /\ book[a]["pin"] \in Nat
  BY CounterIs
<1>2. PICK c : c = [book[a] EXCEPT ![p] = @ + 1]
  OBVIOUS
<1>3. /\ c \in Counters /\ c[p] = book[a][p] + 1
      /\ \A q \in Presses : q # p => c[q] = book[a][q]
  <2>1. CASE p = "outer"
    BY <1>1, <1>2, <2>1 DEF Counters, Presses
  <2>2. CASE p = "pin"
    BY <1>1, <1>2, <2>2 DEF Counters, Presses
  <2> QED
    BY <2>1, <2>2 DEF Presses
<1>4. bump(book, a, p) = [book EXCEPT ![a] = c]
  BY <1>2 DEF bump
<1>6. /\ after \in [AttemptIds -> Counters] /\ after[a] = c
      /\ \A b \in AttemptIds : b # a => after[b] = book[b]
  BY <1>3, <1>4
<1> QED
  BY <1>3, <1>6

\* The clicks of a granted claim.
LEMMA ClickIs ==
  ASSUME IInv, NEW t \in Tabs, claimed(t), clicked(t)
  PROVE  /\ page[t].run \in AttemptIds /\ page[t].step \in Presses /\ page[t].run # NoId
         /\ page[t].run \in used
         /\ granted(page[t]) /\ page'[t].run = page[t].run
         /\ page'[t].step = IF page[t].step = "outer" THEN "outer_done" ELSE "pin_done"
         /\ clicks' = [clicks EXCEPT ![page[t].run][page[t].step] = @ + 1]
         /\ clicks[page[t].run][page[t].step] = 0 /\ grants[page[t].run][page[t].step] = 1
<1>1. scriptOK(page[t], used) /\ used \subseteq AttemptIds
  BY DEF IInv, PageOK, runOK
<1>2. page[t].wait = "claim" /\ page[t].reply = "granted" /\ sameAttempt(page[t], page'[t])
  BY DEF claimed, clicked
<1>3. granted(page[t])
  BY <1>2 DEF granted
<1>4. page[t].run \in AttemptIds /\ page[t].step \in Presses /\ page[t].run # NoId
      /\ page[t].run \in used
  BY <1>1, <1>2 DEF scriptOK
<1>5. clicks[page[t].run][page[t].step] = 0 /\ grants[page[t].run][page[t].step] = 1
  BY <1>3 DEF IInv, ClaimsOK
<1> QED
  BY <1>2, <1>3, <1>4, <1>5 DEF sameAttempt, clicked

\* The books, entry by entry.
LEMMA BooksAre ==
  ASSUME IInv, [Next]_vars
  PROVE  /\ grants' \in [AttemptIds -> Counters] /\ clicks' \in [AttemptIds -> Counters]
         /\ announced' \in [AttemptIds -> SUBSET TerminalStates]
         /\ \A l \in AttemptIds, p \in Presses :
              /\ \/ grants'[l][p] = grants[l][p]
                 \/ /\ grantsClaim /\ l = lr.id /\ p = sv.arg
                    /\ grants[l][p] = 0 /\ grants'[l][p] = 1
              /\ \/ clicks'[l][p] = clicks[l][p]
                 \/ \E t \in Tabs : /\ claimed(t) /\ clicked(t) /\ page[t].run = l
                                    /\ page[t].step = p /\ lr' = lr /\ grants' = grants
                                    /\ clicks[l][p] = 0 /\ clicks'[l][p] = 1
<1>0. /\ grants \in [AttemptIds -> Counters] /\ clicks \in [AttemptIds -> Counters]
      /\ announced \in [AttemptIds -> SUBSET TerminalStates]
  BY DEF IInv, HistoryOK
<1>1. CASE still
  BY <1>0, <1>1 DEF still
<1>2. CASE grantsClaim
  <2>1. /\ sv.run = lr.id /\ lr.id \in AttemptIds /\ sv.arg \in Presses /\ grants[lr.id][sv.arg] = 0
        /\ clicks' = clicks /\ announced' = announced
    BY <1>2, GrantIs DEF grantsClaim
  <2>a. grants' = bump(grants, lr.id, sv.arg)
    BY <1>2, <2>1 DEF bump, grantsClaim
  <2>2. /\ grants' \in [AttemptIds -> Counters] /\ grants'[lr.id][sv.arg] = 1
        /\ \A b \in AttemptIds, q \in Presses :
             b # lr.id \/ q # sv.arg => grants'[b][q] = grants[b][q]
    BY <1>0, <2>1, <2>a, BumpIs
  <2> QED
    BY <1>0, <1>2, <2>1, <2>2
<1>3. ASSUME NEW t \in Tabs, claimed(t), clicked(t), UNCHANGED <<grants, announced>>, lr' = lr
      PROVE  /\ clicks' \in [AttemptIds -> Counters]
             /\ \A l \in AttemptIds, p \in Presses :
                  \/ clicks'[l][p] = clicks[l][p]
                  \/ /\ page[t].run = l /\ page[t].step = p
                     /\ clicks[l][p] = 0 /\ clicks'[l][p] = 1
  <2>1. PICK l \in AttemptIds, p \in Presses : l = page[t].run /\ p = page[t].step
    BY <1>3, ClickIs
  <2>2. clicks[l][p] = 0
    BY <1>3, <2>1, ClickIs
  <2>a. clicks' = bump(clicks, l, p)
    BY <1>3, <2>1 DEF bump, clicked
  <2>3. /\ clicks' \in [AttemptIds -> Counters] /\ clicks'[l][p] = 1
        /\ \A b \in AttemptIds, q \in Presses : b # l \/ q # p => clicks'[b][q] = clicks[b][q]
    BY <1>0, <2>2, <2>a, BumpIs
  <2> QED
    BY <2>1, <2>2, <2>3
<1>4. CASE Effects
  <2>1. /\ announced' = [announced EXCEPT ![lr.id] = @ \cup {announcedState(lr)}]
        /\ announcedState(lr) \in TerminalStates /\ grants' = grants /\ clicks' = clicks
    BY <1>4, EffectsAre
  <2>2. announced' \in [AttemptIds -> SUBSET TerminalStates]
    BY <1>0, <2>1
  <2> QED
    BY <1>0, <2>1, <2>2
<1>5. CASE \E t \in Tabs : /\ claimed(t) /\ clicked(t) /\ UNCHANGED <<grants, announced>>
                           /\ lr' = lr /\ sv' = sv /\ queue' = queue
  <2>1. PICK t \in Tabs : /\ claimed(t) /\ clicked(t) /\ UNCHANGED <<grants, announced>>
                          /\ lr' = lr
    BY <1>5
  <2> QED
    BY <1>0, <1>3, <2>1
<1> QED
  BY <1>1, <1>2, <1>4, <1>5, BooksMove

LEMMA HistoryStep ==
  ASSUME IInv, [Next]_vars
  PROVE  HistoryOK'
<1>0. /\ runOK(lr, used) /\ TaskOK /\ HistoryOK /\ used \subseteq used' /\ used \subseteq AttemptIds
      /\ NoId \notin AttemptIds /\ used' \subseteq AttemptIds
  BY UsedGrows, LogicalRunAssumption DEF IInv, runOK
<1>1. lr.id \in used \cup {NoId}
  BY <1>0, NamesUsed
<1>2. ASSUME NEW l \in AttemptIds \ used' PROVE fresh(l)'
  BY <1>0, <1>1, <1>2, FreshStays DEF HistoryOK
<1>3. ASSUME sv'.pc \in StartsUnwritten \cup {"start_send"}
      PROVE  grants'[sv'.run] = [outer |-> 0, pin |-> 0] /\ announced'[sv'.run] = {}
  <2>1. sv'.pc \in holds /\ sv'.pc \notin {"recovery_start", "reply_claim", "reply_finished"}
    BY <1>3 DEF holds, StartsUnwritten
  <2>2. CASE (keepsTask /\ lr' = lr) \/ goesOnStarting
    <3>1. sv.pc \in StartsUnwritten \cup {"start_send"} /\ sv'.run = sv.run
      BY <1>3, <2>2 DEF keepsTask, goesOnStarting
    <3>2. fresh(sv.run) /\ sv.run \in AttemptIds /\ sv.pc \notin {"reply_claim", "effects"}
      BY <1>0, <3>1 DEF HistoryOK, TaskOK, Starts, StartsUnwritten
    <3>3. PICK l \in AttemptIds : l = sv.run
      BY <3>2
    <3>4. fresh(l)'
      BY <3>2, <3>3, FreshStays
    <3>5. sv'.run = l
      BY <3>1, <3>3
    <3> QED
      BY <3>4, <3>5 DEF fresh
  <2>3. CASE startsAnew
    <3>1. newId \in AttemptIds \ used /\ sv'.run = newId
      BY <1>0, <2>3, NewId DEF startsAnew
    <3>2. PICK l \in AttemptIds \ used : l = newId
      BY <3>1
    <3>3. fresh(l)'
      BY <1>0, <1>1, FreshStays DEF HistoryOK
    <3>4. sv'.run = l
      BY <3>1, <3>2
    <3> QED
      BY <3>3, <3>4 DEF fresh
  <2>4. ~reenters /\ ~permitsHead /\ ~decidesHead
    BY <2>1 DEF reenters, permitsHead, permits, decidesHead, decides
  <2> QED
    BY <2>1, <2>2, <2>3, <2>4, TaskMoves
<1> QED
  BY <1>2, <1>3, BooksAre DEF HistoryOK, fresh

-----------------------------------------------------------------------------
(* Permissions: granted once, used once *)

Submitted == {"outer_done", "pin", "pin_done"}

LEMMA GrantedMoves ==
  ASSUME IInv, [Next]_vars, NEW t \in Tabs, granted(page'[t])
  PROVE  /\ page'[t].run = page[t].run /\ page'[t].step = page[t].step
         /\ page[t].run \in AttemptIds /\ page[t].step \in Presses
         /\ \/ granted(page[t])
            \/ grantsClaim /\ sv.from = t /\ page[t].run = lr.id /\ page[t].step = sv.arg
<1>0. scriptOK(page[t], used) /\ used \subseteq AttemptIds /\ TaskOK
  BY DEF IInv, PageOK, runOK
<1>1. page'[t].wait = "claim" /\ page'[t].reply = "granted"
  BY DEF granted
<1>2. CASE stays(t)
  <2>1. page[t].wait = "claim" /\ page'[t].run = page[t].run /\ page'[t].step = page[t].step
    BY <1>1, <1>2 DEF stays, sameScript
  <2>2. page[t].run \in AttemptIds /\ page[t].step \in Presses
    BY <1>0, <2>1 DEF scriptOK
  <2>3. page[t].reply = "granted" \/ (grantsClaim /\ sv.from = t)
    <3>1. ~acknowledges \/ sv.arg \in Decisions
      BY <1>0 DEF acknowledges, TaskOK
    <3> QED
      BY <1>1, <1>2, <3>1 DEF stays, told, Decisions
  <2>4. CASE grantsClaim /\ sv.from = t
    BY <2>1, <2>2, <2>4 DEF IInv, SendersOK, grantsClaim
  <2> QED
    BY <2>1, <2>2, <2>3, <2>4 DEF granted
<1>3. CASE executes(t)
  <2>1. page[t].wait = "claim" /\ page[t].phase = "PREPARING"
    BY <1>1, <1>3 DEF executes, sameCall
  <2> QED
    BY <1>0, <2>1 DEF scriptOK
<1>4. CASE begins(t) \/ (\E m : calls(t, m)) \/ works(t)
  BY <1>1, <1>4 DEF begins, calls, awaits, works, claimed, delivered, finishes, sameCall
<1> QED
  BY <1>2, <1>3, <1>4, ScriptKinds

LEMMA StepMoves ==
  ASSUME IInv, [Next]_vars, NEW t \in Tabs, page'[t].step \in Submitted
  PROVE  /\ page'[t].run = page[t].run
         /\ page[t].step \in Submitted \/ (claimed(t) /\ clicked(t) /\ page[t].step = "outer")
<1>1. CASE stays(t) \/ executes(t) \/ begins(t)
  BY <1>1 DEF stays, executes, begins, sameScript, sameAttempt, Submitted
<1>2. CASE \E m : calls(t, m)
  BY <1>2 DEF calls, sameAttempt, Submitted
<1>3. CASE works(t)
  <2>1. CASE claimed(t) /\ clicked(t)
    BY <2>1, ClickIs DEF Presses, Submitted
  <2> QED
    BY <1>3, <2>1 DEF works, claimed, delivered, finishes, sameAttempt, Submitted
<1> QED
  BY <1>1, <1>2, <1>3, ScriptKinds

LEMMA ClaimsAre ==
  ASSUME IInv, NEW l \in AttemptIds
  PROVE  /\ \A p \in Presses : /\ grants[l][p] \in Nat /\ clicks[l][p] \in Nat
                               /\ clicks[l][p] <= grants[l][p] /\ grants[l][p] <= 1
         /\ clicks[l]["pin"] <= clicks[l]["outer"]
         /\ l = lr.id => /\ grants[l]["outer"] > 0 => lr.dispatch.fp # NoId
                         /\ grants[l]["pin"] > 0 => lr.dispatch.pin
<1>1. grants[l] \in Counters /\ clicks[l] \in Counters /\ ClaimIsDurable
  BY DEF IInv, HistoryOK, ClaimsOK
<1>2. \A p \in Presses : grants[l][p] \in Nat /\ clicks[l][p] \in Nat
  BY <1>1, CounterIs
<1>3. /\ clicks[l]["pin"] = clicks[l].pin /\ clicks[l]["outer"] = clicks[l].outer
      /\ grants[l]["pin"] = grants[l].pin /\ grants[l]["outer"] = grants[l].outer
  BY <1>1, CounterIs
<1>4. \A p \in Presses : clicks[l][p] <= grants[l][p] /\ grants[l][p] <= 1
  BY <1>1 DEF ClaimIsDurable, Presses
<1>5. clicks[l].pin <= clicks[l].outer
      /\ (l = lr.id => /\ (grants[l].outer > 0 => lr.dispatch.fp # NoId)
                       /\ (grants[l].pin > 0 => lr.dispatch.pin))
  BY <1>1 DEF ClaimIsDurable
<1> QED
  BY <1>2, <1>3, <1>4, <1>5

\* Permissions and the run they are written into.
LEMMA DurableStep ==
  ASSUME IInv, [Next]_vars, NEW l \in AttemptIds, l = lr'.id, NEW p \in Presses,
         grants'[l][p] > 0
  PROVE  IF p = "outer" THEN lr'.dispatch.fp # NoId ELSE lr'.dispatch.pin
<1>0. /\ grants[l][p] \in Nat /\ l # NoId /\ TaskOK /\ runOK(lr, used)
      /\ grants'[l] \in Counters
      /\ l = lr.id /\ grants[l][p] > 0 =>
           IF p = "outer" THEN lr.dispatch.fp # NoId ELSE lr.dispatch.pin
  BY ClaimsAre, BooksAre, LogicalRunAssumption DEF IInv, Presses
<1>1. CASE grantsClaim /\ l = lr.id /\ p = sv.arg
  <2>1. lr' = lr
    BY <1>1 DEF grantsClaim
  <2> QED
    BY <1>1, <2>1, GrantIs DEF Presses
<1>2. CASE grants'[l][p] = grants[l][p]
  <2>1. CASE lr' = lr
    BY <1>0, <1>2, <2>1
  <2>2. CASE StartCommit
    <3>1. sv.pc = "start_commit" /\ sv.run \in used /\ sv.tab \in Tabs
          /\ lr' = createLogicalRun(sv.run, sv.tab)
      BY <1>0, <2>2 DEF StartCommit, At, TaskOK, Starts, StartsUnwritten
    <3>2. lr'.id = sv.run
      BY <3>1 DEF createLogicalRun, NoRun
    <3>3. fresh(l)
      BY <3>1, <3>2 DEF IInv, HistoryOK, StartsUnwritten
    <3>4. grants[l] = [outer |-> 0, pin |-> 0]
      BY <3>3 DEF fresh
    <3> QED
      BY <1>2, <3>4 DEF Presses
  <2>3. CASE lr' = NoRun
    BY <1>0, <2>3 DEF NoRun
  <2>4. CASE goesOn(lr, lr')
    BY <1>0, <1>2, <2>4 DEF goesOn
  <2> QED
    BY <2>1, <2>2, <2>3, <2>4, RunMoves DEF replaced
<1> QED
  BY <1>1, <1>2, BooksAre

LEMMA DurableNext ==
  ASSUME IInv, [Next]_vars
  PROVE  ClaimIsDurable'
<1>1. \A l \in AttemptIds : grants'[l] \in Counters /\ clicks'[l] \in Counters
  BY BooksAre
<1>2. ASSUME NEW l \in AttemptIds, NEW p \in Presses
      PROVE  clicks'[l][p] <= grants'[l][p] /\ grants'[l][p] <= 1
  <2>1. /\ grants[l][p] \in Nat /\ clicks[l][p] \in Nat
        /\ clicks[l][p] <= grants[l][p] /\ grants[l][p] <= 1
    BY ClaimsAre
  <2>2. CASE grantsClaim
    <3>1. clicks'[l][p] = clicks[l][p]
      BY <2>2 DEF grantsClaim
    <3> QED
      BY <2>1, <3>1, BooksAre
  <2>3. CASE ~grantsClaim
    <3>1. grants'[l][p] = grants[l][p]
      BY <2>3, BooksAre
    <3>2. \/ clicks'[l][p] = clicks[l][p]
          \/ \E t \in Tabs : /\ claimed(t) /\ clicked(t) /\ page[t].run = l /\ page[t].step = p
                             /\ clicks'[l][p] = 1
      BY BooksAre
    <3>3. clicks'[l][p] = clicks[l][p] \/ (clicks'[l][p] = 1 /\ grants[l][p] = 1)
      BY <3>2, ClickIs
    <3> QED
      BY <2>1, <3>1, <3>3
  <2> QED
    BY <2>2, <2>3
<1>3. ASSUME NEW l \in AttemptIds PROVE clicks'[l].pin <= clicks'[l].outer
  <2>1. /\ clicks[l]["pin"] \in Nat /\ clicks[l]["outer"] \in Nat
        /\ clicks[l]["pin"] <= clicks[l]["outer"]
        /\ clicks[l]["outer"] = clicks[l].outer
        /\ "pin" \in Presses /\ "outer" \in Presses
    BY ClaimsAre, CounterIs DEF IInv, HistoryOK, Presses
  <2>2. clicks'[l]["pin"] = clicks'[l].pin /\ clicks'[l]["outer"] = clicks'[l].outer
    BY <1>1, CounterIs
  <2>3. \/ clicks'[l]["outer"] = clicks[l]["outer"]
        \/ clicks'[l]["outer"] = 1 /\ clicks[l]["outer"] = 0
    BY <2>1, BooksAre
  <2>4. \/ clicks'[l]["pin"] = clicks[l]["pin"]
        \/ /\ clicks[l]["pin"] = 0 /\ clicks'[l]["pin"] = 1
           /\ \E t \in Tabs : page[t].run = l /\ page[t].step = "pin"
    BY <2>1, BooksAre
  <2>5. (\E t \in Tabs : page[t].run = l /\ page[t].step = "pin") => clicks[l].outer > 0
    BY LogicalRunAssumption DEF IInv, ClaimsOK
  <2> QED
    BY <2>1, <2>2, <2>3, <2>4, <2>5
<1>4. ASSUME NEW l \in AttemptIds, l = lr'.id
      PROVE  /\ grants'[l].outer > 0 => lr'.dispatch.fp # NoId
             /\ grants'[l].pin > 0 => lr'.dispatch.pin
  <2>1. grants'[l]["pin"] = grants'[l].pin /\ grants'[l]["outer"] = grants'[l].outer
        /\ "pin" \in Presses /\ "outer" \in Presses
    BY <1>1, CounterIs DEF Presses
  <2> QED
    BY <1>4, <2>1, DurableStep
<1> QED
  BY <1>2, <1>3, <1>4 DEF ClaimIsDurable, Presses

LEMMA NewPermission ==
  ASSUME IInv, [Next]_vars, sv'.pc = "reply_claim"
  PROVE  grants'[sv'.run][sv'.arg] = 0
<1>0. runOK(lr, used) /\ TaskOK /\ ~grantsClaim
  BY IdleIs DEF IInv, grantsClaim
<1>1. \A l \in AttemptIds, p \in Presses : grants'[l][p] = grants[l][p]
  BY <1>0, BooksAre
<1>2. CASE keepsTask /\ lr' = lr
  <2>1. sv.pc = "reply_claim" /\ sv'.run = sv.run /\ sv'.arg = sv.arg
    BY <1>2 DEF keepsTask
  <2>2. sv.run = lr.id /\ sv.arg \in Presses /\ lr.status = "EXECUTING"
    BY <1>0, <2>1 DEF TaskOK
  <2>3. sv.run \in AttemptIds
    BY <1>0, <2>2, NotNone DEF runOK, attemptsOK
  <2>4. grants[sv.run][sv.arg] = 0
    BY <2>1 DEF IInv, ClaimsOK
  <2> QED
    BY <1>1, <2>1, <2>2, <2>3, <2>4
<1>3. CASE permitsHead
  <2>1. PICK m : m = Head(queue) /\ permits(m)
    BY <1>3 DEF permitsHead
  <2>2. /\ sv'.run = lr.id /\ sv'.arg = m.arg /\ m.arg \in Presses /\ lr.id # NoId
        /\ m.arg = "pin" => ~lr.dispatch.pin
        /\ m.arg = "outer" => lr.dispatch.fp = NoId
    BY <2>1 DEF permits
  <2>3. lr.id \in AttemptIds
    BY <1>0, <2>2 DEF runOK, attemptsOK
  <2>4. grants[lr.id][m.arg] \in Nat /\ ~(grants[lr.id][m.arg] > 0)
    BY <2>2, <2>3, ClaimsAre DEF Presses
  <2>5. grants[lr.id][m.arg] = 0
    BY <2>4
  <2> QED
    BY <1>1, <2>2, <2>3, <2>5
<1> QED
  BY <1>2, <1>3, TaskMoves
  DEF holds, goesOnStarting, reenters, startsAnew, decidesHead, decides, StartsUnwritten

\* A granted claim stays unused until its script takes it.
LEMMA GrantedStep ==
  ASSUME IInv, [Next]_vars, NEW t \in Tabs, granted(page'[t])
  PROVE  clicks'[page'[t].run][page'[t].step] = 0 /\ grants'[page'[t].run][page'[t].step] = 1
<1>0. PICK l \in AttemptIds, p \in Presses : l = page[t].run /\ p = page[t].step
  BY GrantedMoves
<1>1. page'[t].run = l /\ page'[t].step = p /\ l # NoId
  BY <1>0, GrantedMoves, LogicalRunAssumption
<1>2. clicks'[l][p] = clicks[l][p]
  <2>1. ASSUME NEW u \in Tabs, claimed(u), page[u].run = l PROVE FALSE
    <3>1. u = t
      BY <1>0, <1>1, <2>1 DEF IInv, PlacesOK
    <3>2. page'[t].wait = "none"
      BY <2>1, <3>1 DEF claimed
    <3> QED
      BY <3>2 DEF granted
  <2> QED
    BY <2>1, BooksAre
<1>3. CASE granted(page[t])
  <2>1. clicks[l][p] = 0 /\ grants[l][p] = 1
    BY <1>0, <1>3 DEF IInv, ClaimsOK
  <2>2. grants'[l][p] = grants[l][p]
    BY <2>1, BooksAre
  <2> QED
    BY <1>1, <1>2, <2>1, <2>2
<1>4. CASE grantsClaim /\ l = lr.id /\ p = sv.arg
  <2>1. grants[l][p] = 0
    BY <1>4, GrantIs
  <2>2. clicks[l][p] = 0
    BY <2>1, ClaimsAre
  <2>3. grants'[l][p] = 1
    <3>1. grants' = bump(grants, l, p)
      BY <1>4, GrantIs DEF grantsClaim, bump
    <3>2. grants \in [AttemptIds -> Counters]
      BY DEF IInv, HistoryOK
    <3> QED
      BY <2>1, <3>1, <3>2, BumpIs
  <2> QED
    BY <1>1, <1>2, <2>2, <2>3
<1> QED
  BY <1>0, <1>3, <1>4, GrantedMoves

LEMMA SubmittedStep ==
  ASSUME IInv, [Next]_vars, NEW t \in Tabs, page'[t].step \in Submitted, page'[t].run # NoId
  PROVE  clicks'[page'[t].run].outer > 0
<1>0. PICK l : l = page[t].run
  OBVIOUS
<1>1. page'[t].run = l /\ l \in AttemptIds
  BY <1>0, StepMoves, PagesUsed DEF IInv, runOK
<1>2. /\ clicks[l]["outer"] \in Nat /\ clicks[l]["outer"] = clicks[l].outer
      /\ clicks'[l]["outer"] = clicks'[l].outer
      /\ "outer" \in Presses
  BY <1>1, CounterIs, BooksAre DEF IInv, HistoryOK, Presses
<1>3. CASE page[t].step \in Submitted
  <2>1. clicks[l].outer > 0
    BY <1>0, <1>1, <1>3 DEF IInv, ClaimsOK, Submitted
  <2>2. clicks'[l]["outer"] = clicks[l]["outer"] \/ clicks[l]["outer"] = 0
    BY <1>1, <1>2, BooksAre
  <2> QED
    BY <1>1, <1>2, <2>1, <2>2
<1>4. CASE claimed(t) /\ clicked(t) /\ page[t].step = "outer"
  <2>1. clicks[l]["outer"] = 0 /\ clicks' = bump(clicks, l, "outer")
    BY <1>0, <1>4, ClickIs DEF bump
  <2>2. clicks \in [AttemptIds -> Counters]
    BY DEF IInv, HistoryOK
  <2>3. clicks'[l]["outer"] = 1
    BY <1>1, <1>2, <2>1, <2>2, BumpIs
  <2> QED
    BY <1>1, <1>2, <2>3
<1> QED
  BY <1>3, <1>4, StepMoves

LEMMA ClaimsStep ==
  ASSUME IInv, [Next]_vars
  PROVE  ClaimsOK'
BY DurableNext, NewPermission, GrantedStep, SubmittedStep DEF ClaimsOK, Submitted

-----------------------------------------------------------------------------
(* What a script was told is in storage *)

LEMMA ToldMoves ==
  ASSUME IInv, [Next]_vars, NEW t \in Tabs,
         page'[t].wait = "finished", page'[t].reply \in Decisions
  PROVE  /\ page'[t].run = page[t].run /\ page'[t].attempt = page[t].attempt
         /\ page[t].run \in AttemptIds /\ page[t].attempt \in AttemptIds
         /\ page[t].wait = "finished"
         /\ \/ page[t].reply = page'[t].reply
            \/ /\ lr' = lr /\ page[t].run = lr.id
               /\ lr.attempts[page[t].attempt].decision = page'[t].reply
<1>0. scriptOK(page[t], used) /\ used \subseteq AttemptIds
  BY DEF IInv, PageOK, runOK
<1>1. page'[t].reply \notin {"none", "failed", "refused", "granted"}
  BY DEF Decisions
<1>2. CASE stays(t)
  <2>1. /\ page[t].wait = "finished" /\ page'[t].run = page[t].run
        /\ page'[t].attempt = page[t].attempt
    BY <1>2 DEF stays, sameScript
  <2>2. page[t].run \in AttemptIds /\ page[t].attempt \in AttemptIds
    BY <1>0, <2>1 DEF scriptOK
  <2>3. CASE acknowledges /\ sv.from = t /\ page'[t].reply = sv.arg
    <3>1. sv.pc = "reply_finished" /\ lr' = lr
      BY <2>3 DEF acknowledges
    <3>2. page[t].run = lr.id /\ lr.attempts[page[t].attempt].decision = sv.arg
      BY <2>3, <3>1 DEF IInv, SendersOK
    <3> QED
      BY <2>1, <2>2, <2>3, <3>1, <3>2
  <2>4. CASE /\ takesHead /\ lr' = lr /\ Head(queue).op = "finished" /\ Head(queue).from = t
             /\ lr.id = Head(queue).run
             /\ lr.attempts[Head(queue).attempt].decision = page'[t].reply
    <3>1. awaits(page[t], Head(queue))
      BY <2>4, HeadSender
    <3> QED
      BY <2>1, <2>2, <2>4, <3>1 DEF awaits
  <2> QED
    BY <1>1, <1>2, <2>1, <2>2, <2>3, <2>4 DEF stays, told
<1>3. CASE executes(t)
  <2>1. page[t].wait = "finished" /\ page[t].phase = "PREPARING"
    BY <1>3 DEF executes, sameCall
  <2> QED
    BY <1>0, <2>1 DEF scriptOK
<1>4. CASE begins(t) \/ (\E m : calls(t, m)) \/ works(t)
  BY <1>1, <1>4 DEF begins, calls, awaits, works, claimed, delivered, finishes, sameCall
<1> QED
  BY <1>2, <1>3, <1>4, ScriptKinds

LEMMA AckStep ==
  ASSUME IInv, [Next]_vars
  PROVE  AckIsDurable'
<1>0. AckIsDurable /\ NoId \notin AttemptIds /\ TaskOK
  BY LogicalRunAssumption DEF IInv
<1>1. ASSUME NEW t \in Tabs, page'[t].wait = "finished", page'[t].reply \in Decisions,
             page'[t].run = lr'.id
      PROVE  lr'.attempts[page'[t].attempt].decision = page'[t].reply
  <2>1. PICK a \in AttemptIds : a = page[t].attempt
    BY <1>1, ToldMoves
  <2>2. /\ page'[t].attempt = a /\ page'[t].run = page[t].run /\ page[t].run \in AttemptIds
        /\ page[t].wait = "finished"
    BY <1>1, <2>1, ToldMoves
  <2>3. CASE lr' = lr /\ page[t].run = lr.id /\ lr.attempts[a].decision = page'[t].reply
    BY <2>2, <2>3
  <2>4. CASE page[t].reply = page'[t].reply
    <3>1. CASE lr' = lr
      BY <1>0, <1>1, <2>1, <2>2, <2>4, <3>1 DEF AckIsDurable
    <3>2. CASE goesOn(lr, lr')
      <4>1. page[t].run = lr.id
        BY <1>1, <2>2, <3>2 DEF goesOn
      <4>2. lr.attempts[a].decision = page[t].reply
        BY <1>0, <1>1, <2>1, <2>2, <2>4, <4>1 DEF AckIsDurable
      <4>3. lr.attempts[a].decision # "none"
        BY <1>1, <2>4, <4>2 DEF Decisions
      <4>4. lr'.attempts[a] = lr.attempts[a]
        BY <3>2, <4>3 DEF goesOn
      <4> QED
        BY <2>2, <2>4, <4>2, <4>4
    <3>3. CASE StartCommit
      <4>1. sv.pc = "start_commit" /\ lr' = createLogicalRun(sv.run, sv.tab)
        BY <3>3 DEF StartCommit, At
      <4>2. lr'.id = sv.run
        BY <4>1 DEF createLogicalRun, NoRun
      <4>3. sv.run # page[t].run
        BY <4>1 DEF IInv, PlacesOK, StartsUnwritten
      <4> QED
        BY <1>1, <2>2, <4>2, <4>3
    <3>4. CASE lr' = NoRun
      BY <1>0, <1>1, <2>2, <3>4 DEF NoRun
    <3> QED
      BY <3>1, <3>2, <3>3, <3>4, RunMoves DEF replaced
  <2> QED
    BY <1>1, <2>1, <2>3, <2>4, ToldMoves
<1> QED
  BY <1>1 DEF AckIsDurable

-----------------------------------------------------------------------------
(* A submitted run is not disowned *)

\* The outcome recorded for the current attempt, once the attempt executes, comes from an
\* ending in the background, from a message of the attempt, or from its script.
LEMMA FinalMoves ==
  ASSUME IInv, [Next]_vars, lr.id # NoId, lr'.id = lr.id, lr.status \in {"EXECUTING", "TERMINAL"}
  PROVE  \/ lr'.cur = lr.cur /\ lr'.attempts = lr.attempts
         \/ \E state : ended(state) /\ (lr.dispatch.fp # NoId => state = "HANDED_OFF")
         \/ \E m : /\ queue # <<>> /\ m = Head(queue) /\ m.op = "finished" /\ decides(m)
         \/ ReconcileOutcome
<1>0. /\ runOK(lr, used) /\ TaskOK /\ lr \in LogicalRuns /\ lr.status \notin {"PREPARING", "RECOVERING"}
      /\ NoId \notin AttemptIds
  BY LogicalRunAssumption DEF IInv, runOK, attemptsOK
<1>1. CASE StopClaimed \/ StopRunning
  <2>1. lr' = lr \/ lr' = requestCompletionStop(lr)
    BY <1>1 DEF StopClaimed, StopRunning
  <2>2. CASE lr' = requestCompletionStop(lr)
    <3>1. isRun(lr', lr.id, lr.tab, lr.status, lr.resetCount,
                lr.cur, lr.attempts, lr.next, lr.dispatched, lr.effectsDone,
                [fp |-> lr.dispatch.fp, pin |-> lr.dispatch.pin, stop |-> TRUE])
      BY <1>0, <2>2, StopRequestedIs
    <3> QED
      BY <3>1 DEF isRun
  <2> QED
    BY <2>1, <2>2
<1>2. CASE FinishedTask
  <2>1. PICK m : m = Head(queue)
    OBVIOUS
  <2>2. queue # <<>> /\ m.op = "finished"
    BY <1>2, <2>1 DEF FinishedTask, Take
  <2>3. CASE \E reply : replies(m, reply)
    BY <2>3 DEF replies
  <2> QED
    BY <1>2, <2>1, <2>2, <2>3, FinishedIs
<1>3. CASE PhaseTask
  BY <1>0, <1>3 DEF PhaseTask, applyPhaseChange, phaseAccepted
<1>4. CASE ClaimTask
  <2>1. PICK m : m = Head(queue)
    OBVIOUS
  <2>2. CASE permits(m)
    BY <2>2 DEF permits, sameButDispatch
  <2>3. CASE refuses(m)
    BY <2>3 DEF refuses
  <2> QED
    BY <1>4, <2>1, <2>2, <2>3, ClaimIs
<1>5. CASE Terminate
  <2>1. ended(sv.arg) /\ (lr.dispatch.fp # NoId => sv.arg = "HANDED_OFF")
    BY <1>0, <1>5, TerminateIs DEF Terminate, At, TaskOK
  <2> QED
    BY <2>1
<1>6. CASE EffectsMark
  <2>1. lr' = markTerminalEffectsCompleted(lr)
    BY <1>6 DEF EffectsMark
  <2>2. isRun(lr', lr.id, lr.tab, lr.status, lr.resetCount, lr.cur, lr.attempts, lr.next,
              lr.dispatched, TRUE, lr.dispatch)
    BY <1>0, <2>1, MarkedIs
  <2> QED
    BY <2>2 DEF isRun
<1>7. CASE RecoveryTask \/ ReconcileRecover \/ (ReconcileSettled /\ executeRecovery)
  <2>1. executeRecovery
    BY <1>7 DEF RecoveryTask, ReconcileRecover
  <2> QED
    BY <1>0, <2>1, RecoveryIs
<1>8. CASE RecoveryCommit
  <2>1. lr.status = "RECOVERING"
    BY <1>0, <1>8 DEF RecoveryCommit, At, TaskOK, Recoveries
  <2> QED
    BY <1>0, <2>1
<1>9. CASE ReconcileLost
  BY <1>9, LostIs
<1>10. CASE StartCommit
  <2>1. sv.pc = "start_commit" /\ lr' = createLogicalRun(sv.run, sv.tab)
    BY <1>10 DEF StartCommit, At
  <2>2. lr'.id = sv.run
    BY <2>1 DEF createLogicalRun, NoRun
  <2> QED
    BY <1>0, <2>1, <2>2 DEF TaskOK, StartsUnwritten
<1>11. CASE StartDiscard
  <2>1. lr' = lr \/ lr' = NoRun
    BY <1>11 DEF StartDiscard
  <2>2. NoRun.id = NoId
    BY DEF NoRun
  <2> QED
    BY <2>1, <2>2
<1>12. CASE ReconcileSettled /\ ~executeRecovery
  BY <1>12 DEF ReconcileSettled
<1>13. CASE \/ StartTask \/ StartNavigate \/ StartInject \/ StartSend \/ StartFail \/ StopNothing
            \/ StopPreparing \/ StopDelivered \/ StopUndelivered \/ StopSend \/ FinishedReply
            \/ ClaimReply \/ TabRemovedTask \/ TabUrlTask \/ Effects \/ CompleteTask
            \/ RecoveryReenter \/ RecoveryStart \/ RecoveryFail \/ ReconcileRunning
            \/ ReconcileProject \/ vars' = vars
  BY <1>13 DEF StartTask, StartNavigate, StartInject, StartSend, StartFail, StopNothing,
      StopPreparing, StopDelivered, StopUndelivered, StopSend, FinishedReply, ClaimReply,
      TabRemovedTask, TabUrlTask, Effects, CompleteTask, RecoveryReenter, RecoveryStart,
      RecoveryFail, ReconcileRunning, ReconcileProject, storage, vars
<1>14. CASE SupervisorStep
  BY <1>1, <1>2, <1>3, <1>4, <1>5, <1>6, <1>7, <1>8, <1>9, <1>10, <1>11, <1>12, <1>13, <1>14
  DEF SupervisorStep
<1> QED
  BY <1>13, <1>14, OthersKeepRun

\* An armed run has its permission in storage.
LEMMA ArmedIs ==
  ASSUME IInv, lr.id # NoId, Armed
  PROVE  /\ lr.id \in AttemptIds /\ lr.dispatch.fp # NoId
         /\ lr.status \in {"EXECUTING", "TERMINAL"}
<1>0. runOK(lr, used) /\ TaskOK /\ lr.id \in AttemptIds
  BY DEF IInv, runOK, attemptsOK
<1>1. PICK l \in AttemptIds : l = lr.id
  BY <1>0
<1>2. /\ clicks[l]["outer"] \in Nat /\ grants[l]["outer"] \in Nat
      /\ clicks[l]["outer"] <= grants[l]["outer"]
      /\ clicks[l]["outer"] = clicks[l].outer
      /\ grants[l]["outer"] > 0 => lr.dispatch.fp # NoId
  BY <1>1, ClaimsAre, CounterIs DEF IInv, HistoryOK, Presses
<1>3. ASSUME NEW t \in Tabs, granted(page[t]), page[t].run = l, page[t].step = "outer"
      PROVE  grants[l]["outer"] > 0
  <2>1. grants[l]["outer"] = 1
    BY <1>3 DEF IInv, ClaimsOK
  <2> QED
    BY <2>1
<1>4. ASSUME submits(l) PROVE lr.dispatch.fp # NoId
  <2>1. CASE clicks[l].outer > 0
    BY <1>2, <2>1
  <2> QED
    BY <1>2, <1>3, <1>4, <2>1 DEF submits
<1>5. ASSUME sv.pc = "reply_claim" PROVE lr.dispatch.fp # NoId
  BY <1>0, <1>5 DEF TaskOK
<1>6. lr.dispatch.fp # NoId
  BY <1>1, <1>2, <1>4, <1>5 DEF Armed
<1> QED
  BY <1>0, <1>6 DEF runOK, statusOK

LEMMA SubmitsMoves ==
  ASSUME IInv, [Next]_vars, NEW l \in AttemptIds, submits(l)'
  PROVE  submits(l) \/ (grantsClaim /\ l = lr.id /\ sv.from # NoId /\ sv.arg = "outer")
<1>0. NoId \notin Tabs /\ "outer" \in Presses
  BY LogicalRunAssumption DEF Presses
<1>1. /\ clicks[l]["outer"] = clicks[l].outer /\ clicks'[l]["outer"] = clicks'[l].outer
  BY BooksAre, CounterIs DEF IInv, HistoryOK
<1>2. ASSUME NEW t \in Tabs, granted(page'[t]), page'[t].run = l, page'[t].step = "outer"
      PROVE  submits(l) \/ (grantsClaim /\ l = lr.id /\ sv.from # NoId /\ sv.arg = "outer")
  BY <1>0, <1>2, GrantedMoves DEF submits
<1>3. ASSUME clicks'[l].outer > 0 PROVE submits(l)
  <2>1. CASE clicks'[l]["outer"] = clicks[l]["outer"]
    BY <1>1, <1>3, <2>1 DEF submits
  <2>2. ASSUME NEW t \in Tabs, claimed(t), clicked(t), page[t].run = l, page[t].step = "outer"
        PROVE  submits(l)
    BY <2>2, ClickIs DEF submits
  <2> QED
    BY <1>0, <2>1, <2>2, BooksAre
<1> QED
  BY <1>2, <1>3 DEF submits

LEMMA ArmedMoves ==
  ASSUME IInv, [Next]_vars, lr.id # NoId, lr'.id = lr.id, Armed'
  PROVE  Armed \/ (permitsHead /\ Head(queue).from # NoId /\ Head(queue).arg = "outer")
<1>0. runOK(lr, used) /\ TaskOK /\ lr.id \in AttemptIds
  BY DEF IInv, runOK, attemptsOK
<1>1. PICK l \in AttemptIds : l = lr.id
  BY <1>0
<1>2. CASE submits(l)'
  BY <1>1, <1>2, SubmitsMoves DEF Armed, grantsClaim
<1>3. CASE sv'.pc = "reply_claim" /\ sv'.from # NoId /\ sv'.arg = "outer"
  <2>1. CASE keepsTask
    BY <1>3, <2>1 DEF keepsTask, Armed
  <2>2. CASE permitsHead
    BY <1>3, <2>2 DEF permitsHead, permits
  <2> QED
    BY <1>3, <2>1, <2>2, TaskMoves
    DEF holds, goesOnStarting, reenters, startsAnew, decidesHead, decides, StartsUnwritten
<1> QED
  BY <1>1, <1>2, <1>3 DEF Armed, submits

LEMMA NewRunUnarmed ==
  ASSUME IInv, [Next]_vars, StartCommit
  PROVE  ~Armed'
<1>1. /\ sv.pc = "start_commit" /\ lr' = createLogicalRun(sv.run, sv.tab) /\ sv.run \in AttemptIds
      /\ sv'.pc = "start_send"
  BY DEF IInv, runOK, TaskOK, Starts, StartsUnwritten, StartCommit, At, Goto, Executions
<1>2. lr'.id = sv.run
  BY <1>1 DEF createLogicalRun, NoRun
<1>3. PICK l \in AttemptIds : l = sv.run
  BY <1>1
<1>4. fresh(l)'
  <2>1. fresh(l)
    BY <1>1, <1>3 DEF IInv, HistoryOK, StartsUnwritten
  <2> QED
    BY <1>1, <2>1, FreshStays
<1>5. grants'[l] = [outer |-> 0, pin |-> 0]
  BY <1>4 DEF fresh
<1>6. /\ clicks'[l]["outer"] <= grants'[l]["outer"] /\ clicks'[l]["outer"] \in Nat
      /\ clicks'[l]["outer"] = clicks'[l].outer
  BY DurableNext, BooksAre, CounterIs DEF ClaimIsDurable
<1>7. ~(clicks'[l].outer > 0)
  BY <1>5, <1>6
<1>8. ASSUME NEW t \in Tabs, granted(page'[t]), page'[t].run = l, page'[t].step = "outer"
      PROVE  FALSE
  <2>1. grants'[l]["outer"] = 1
    BY <1>8, GrantedStep
  <2> QED
    BY <1>5, <2>1
<1>9. ~submits(l)'
  BY <1>7, <1>8 DEF submits
<1> QED
  BY <1>1, <1>2, <1>3, <1>9 DEF Armed, submits

-----------------------------------------------------------------------------
(* A submitted run is never disowned *)

LEMMA IdMoves ==
  ASSUME IInv, [Next]_vars
  PROVE  \/ lr'.id = lr.id
         \/ lr'.id = NoId
         \/ /\ StartCommit /\ sv.pc = "start_commit" /\ lr'.id = sv.run /\ sv.run \in AttemptIds
            /\ \A t \in Tabs : page[t].run # sv.run
<1>1. CASE replaced /\ StartCommit
  <2>1. /\ sv.pc = "start_commit" /\ lr' = createLogicalRun(sv.run, sv.tab)
        /\ sv.run \in AttemptIds
    BY <1>1 DEF IInv, runOK, TaskOK, Starts, StartsUnwritten, StartCommit, At
  <2>2. lr'.id = sv.run
    BY <2>1 DEF createLogicalRun, NoRun
  <2>3. \A t \in Tabs : page[t].run # sv.run
    BY <2>1 DEF IInv, PlacesOK, StartsUnwritten
  <2> QED
    BY <1>1, <2>1, <2>2, <2>3
<1>2. CASE replaced /\ ~StartCommit
  BY <1>2 DEF replaced, NoRun
<1> QED
  BY <1>1, <1>2, RunMoves DEF goesOn

LEMMA QueueMoves ==
  ASSUME IInv, [Next]_vars
  PROVE  (\E d \in {0, 1} : inherits(d)) \/ \E t \in Tabs : \E m : calls(t, m)
<1>1. CASE queue' = queue
  BY <1>1, InheritsAll
<1>2. CASE takesHead
  BY <1>2, InheritsTail
<1>3. CASE \E m : plain(m) /\ queue' = Append(queue, m)
  BY <1>3, InheritsPlain
<1>4. CASE \E t \in Tabs : leaves(t)
  BY <1>4, InheritsOrphans DEF leaves
<1>5. CASE queue' = <<>>
  BY <1>5 DEF inherits
<1>6. CASE \E t \in Tabs : works(t) \/ injects(t) \/ \E a, run : starts(t, a, run)
  BY <1>1, <1>6 DEF works, injects, starts
<1>7. CASE Crash
  BY <1>5, <1>7 DEF Crash
<1>8. CASE quiet \/ aborts \/ grantsClaim
  BY <1>1, <1>8 DEF quiet, aborts, grantsClaim
<1>9. CASE takes \/ decidesHead \/ permitsHead \/ \E reply : answersHead(reply)
  BY <1>2, <1>9 DEF takes, decidesHead, permitsHead, answersHead
<1>10. CASE acknowledges \/ posts
  BY <1>3, <1>10 DEF acknowledges, posts
<1> QED
  BY <1>4, <1>6, <1>7, <1>8, <1>9, <1>10, StepKinds DEF stepKinds

LEMMA SenderIs ==
  ASSUME IInv, NEW i \in DOMAIN queue
  PROVE  queue[i] \in Tasks /\ queue[i].from \in TabIds
<1>1. queue[i] \in Tasks
  BY QueueIs
<1> QED
  BY <1>1 DEF Tasks

\* A message with a sender or an outcome was in the queue before.
LEMMA Inherited ==
  ASSUME IInv, NEW d \in {0, 1}, inherits(d), NEW i \in DOMAIN queue',
         queue'[i].op \in {"claim", "finished"}
  PROVE  /\ i + d \in DOMAIN queue /\ sameButSender(queue[i + d], queue'[i])
         /\ queue'[i].run \in AttemptIds
<1>1. i + d \in DOMAIN queue /\ sameButSender(queue[i + d], queue'[i])
  BY DEF inherits, plain
<1>2. messageOK(queue[i + d])
  BY <1>1 DEF IInv, QueueOK, messagesOK
<1> QED
  BY <1>1, <1>2 DEF sameButSender, messageOK

LEMMA OrderStep ==
  ASSUME IInv, [Next]_vars, NEW i \in DOMAIN queue', NEW j \in DOMAIN queue',
         queue'[i].op = "claim", queue'[i].from # NoId, queue'[i].run = lr'.id,
         disowns(queue'[j]), queue'[j].run = lr'.id
  PROVE  j < i
<1>0. NoId \notin AttemptIds /\ queue'[j].op = "finished"
  BY LogicalRunAssumption DEF disowns
<1>1. ASSUME NEW d \in {0, 1}, inherits(d) PROVE j < i
  <2>1. /\ i + d \in DOMAIN queue /\ sameButSender(queue[i + d], queue'[i])
        /\ queue'[i].run \in AttemptIds
        /\ j + d \in DOMAIN queue /\ sameButSender(queue[j + d], queue'[j])
    BY <1>0, <1>1, Inherited
  <2>2. PICK x \in DOMAIN queue : x = i + d
    BY <2>1
  <2>3. PICK y \in DOMAIN queue : y = j + d
    BY <2>1
  <2>4. queue[x].op = "claim" /\ queue[x].from # NoId /\ queue[x].run = lr'.id
    BY <2>1, <2>2 DEF sameButSender
  <2>5. disowns(queue[y]) /\ queue[y].run = lr'.id
    BY <2>1, <2>3 DEF sameButSender, disowns
  <2>6. queue[x].from \in Tabs
    BY <2>4, SenderIs DEF TabIds
  <2>7. page[queue[x].from].run = queue[x].run
    BY <2>6 DEF IInv, SendersOK, awaits
  <2>8. lr'.id = lr.id
    BY <1>0, <2>1, <2>4, <2>6, <2>7, IdMoves
  <2>9. y < x
    BY <2>4, <2>5, <2>8 DEF IInv, SubmitsOK
  <2>10. i \in Nat /\ j \in Nat
    <3>1. queue' \in Seq(Tasks)
      BY QueueStep DEF QueueOK, messagesOK
    <3> QED
      BY <3>1
  <2> QED
    BY <2>2, <2>3, <2>9, <2>10
<1>2. ASSUME NEW t \in Tabs, NEW m, calls(t, m) PROVE j < i
  <2>1. /\ m \in Tasks /\ queue' = Append(queue, m) /\ lr' = lr /\ m.run = page[t].run
        /\ page[t].wait = "none"
    BY <1>2 DEF calls
  <2>2. /\ queue \in Seq(Tasks) /\ Len(queue) \in Nat
        /\ \A k \in DOMAIN queue : k \in Nat \ {0}
    BY QueueIs
  <2>3. /\ DOMAIN queue' = DOMAIN queue \cup {Len(queue) + 1}
        /\ \A k \in DOMAIN queue : k <= Len(queue) /\ queue'[k] = queue[k]
        /\ queue'[Len(queue) + 1] = m
    BY <2>1, <2>2, AppendIs
  <2>4. CASE i \in DOMAIN queue /\ j \in DOMAIN queue
    BY <2>1, <2>3, <2>4 DEF IInv, SubmitsOK
  <2>5. CASE i \in DOMAIN queue /\ j = Len(queue) + 1
    <3>1. queue[i].from \in Tabs /\ queue[i].op = "claim" /\ queue[i].run = lr.id
      BY <2>1, <2>3, <2>5, SenderIs DEF TabIds
    <3>2. page[queue[i].from].run = lr.id /\ page[queue[i].from].wait = "claim"
      BY <2>5, <3>1 DEF IInv, SendersOK, awaits
    <3>3. page[t].run = lr.id
      BY <2>1, <2>3, <2>5
    <3>4. page[t].run # NoId
      BY <2>5, <3>1, <3>3, <1>0 DEF IInv, QueueOK, messagesOK, messageOK
    <3>5. t = queue[i].from
      BY <3>1, <3>2, <3>3, <3>4 DEF IInv, PlacesOK
    <3> QED
      BY <2>1, <3>2, <3>5
  <2>6. CASE i = Len(queue) + 1 /\ j = Len(queue) + 1
    BY <1>0, <2>6
  <2>7. CASE i = Len(queue) + 1 /\ j \in DOMAIN queue
    BY <2>2, <2>3, <2>7
  <2> QED
    BY <2>3, <2>4, <2>5, <2>6, <2>7
<1> QED
  BY <1>1, <1>2, QueueMoves

\* An outcome that is accepted for an armed run is owned.
LEMMA FinalOwned ==
  ASSUME IInv, [Next]_vars, lr.id # NoId, lr'.id = lr.id, Armed'
  PROVE  lr'.attempts[lr'.cur].final \in OwnedOutcomes \cup {"none"}
<1>0. runOK(lr, used) /\ lr.cur \in AttemptIds
  BY DEF IInv, runOK, attemptsOK
<1>1. CASE permitsHead
  <2>1. lr'.cur = lr.cur /\ lr'.attempts = lr.attempts /\ lr.status = "EXECUTING"
    BY <1>1 DEF permitsHead, permits, sameButDispatch
  <2>2. lr.attempts[lr.cur] = Undecided
    BY <1>0, <2>1 DEF runOK, statusOK
  <2> QED
    BY <2>1, <2>2 DEF Undecided
<1>2. CASE Armed
  <2>0. /\ lr.dispatch.fp # NoId /\ lr.status \in {"EXECUTING", "TERMINAL"}
        /\ lr.attempts[lr.cur].final \in OwnedOutcomes \cup {"none"}
    BY <1>2, ArmedIs DEF IInv, SubmitsOK
  <2>1. CASE lr'.cur = lr.cur /\ lr'.attempts = lr.attempts
    BY <2>0, <2>1
  <2>2. CASE \E state : ended(state) /\ (lr.dispatch.fp # NoId => state = "HANDED_OFF")
    <3>1. ended("HANDED_OFF")
      BY <2>0, <2>2
    <3> QED
      BY <2>0, <3>1 DEF ended, stamped, OwnedOutcomes, Owned
  <2>3. ASSUME NEW m, queue # <<>>, m = Head(queue), m.op = "finished", decides(m)
        PROVE  lr'.attempts[lr'.cur].final \in OwnedOutcomes \cup {"none"}
    <3>1. 1 \in DOMAIN queue /\ m = queue[1]
      BY <2>3, HeadIs DEF IInv
    <3>2. ~disowns(m)
      BY <1>2, <2>3, <3>1 DEF IInv, SubmitsOK, decides
    <3>3. m.arg \in OwnedOutcomes
      BY <2>3, <3>2 DEF disowns
    <3>4. lr'.cur = lr.cur /\ lr'.attempts[lr.cur].final = m.arg
      BY <1>0, <2>3, OutcomeIs DEF decides
    <3> QED
      BY <3>3, <3>4
  <2>4. CASE ReconcileOutcome
    <3>1. PICK t \in Tabs : t = lr.tab
      BY <2>4, FoundIs
    <3>2. page[t].attempt = lr.cur /\ page[t].phase = "FINISHING"
      BY <2>4, <3>1 DEF ReconcileOutcome, outcomePending
    <3>3. page[t].run = lr.id
      BY <1>0, <3>2, LogicalRunAssumption DEF IInv, PlacesOK
    <3>4. page[t].outcome \in OwnedOutcomes
      BY <1>2, <3>2, <3>3 DEF IInv, SubmitsOK
    <3>5. lr'.cur = lr.cur /\ lr'.attempts[lr.cur].final = page[t].outcome
      <4>1. /\ lr.attempts[lr.cur].decision = "none" /\ page[t].outcome \in Outcomes
            /\ lr' = applyAttemptOutcome(lr, lr.cur, page[t].outcome, early, newId)
            /\ lr'.status = "RECOVERING" => used # AttemptIds
        BY <2>4, <3>1, FoundIs DEF Undecided
      <4> QED
        BY <1>0, <4>1, OutcomeIs
    <3> QED
      BY <3>4, <3>5
  <2> QED
    BY <2>0, <2>1, <2>2, <2>3, <2>4, FinalMoves
<1> QED
  BY <1>1, <1>2, ArmedMoves

LEMMA NothingDisowns ==
  ASSUME IInv, [Next]_vars, lr.id # NoId, lr'.id = lr.id, Armed',
         NEW i \in DOMAIN queue', disowns(queue'[i])
  PROVE  queue'[i].run # lr.id
<1>0. queue'[i].op = "finished"
  BY DEF disowns
<1>1. \A j \in DOMAIN queue : disowns(queue[j]) => queue[j].run # lr.id
  <2>1. CASE Armed
    BY <2>1 DEF IInv, SubmitsOK
  <2>2. CASE permitsHead /\ Head(queue).from # NoId
    <3>1. 1 \in DOMAIN queue /\ Head(queue) = queue[1]
      BY <2>2, HeadIs DEF IInv, permitsHead, takesHead
    <3>2. queue[1].op = "claim" /\ queue[1].from # NoId /\ queue[1].run = lr.id
      BY <2>2, <3>1 DEF permitsHead, permits
    <3>3. ASSUME NEW j \in DOMAIN queue, disowns(queue[j]), queue[j].run = lr.id
          PROVE  FALSE
      <4>1. j < 1
        BY <3>1, <3>2, <3>3 DEF IInv, SubmitsOK
      <4> QED
        BY <4>1, QueueIs
    <3> QED
      BY <3>3
  <2> QED
    BY <2>1, <2>2, ArmedMoves
<1>2. ASSUME NEW d \in {0, 1}, inherits(d) PROVE queue'[i].run # lr.id
  <2>1. i + d \in DOMAIN queue /\ sameButSender(queue[i + d], queue'[i])
    BY <1>0, <1>2, Inherited
  <2>2. disowns(queue[i + d]) /\ queue[i + d].run = queue'[i].run
    BY <2>1 DEF disowns, sameButSender
  <2> QED
    BY <1>1, <2>1, <2>2
<1>3. ASSUME NEW t \in Tabs, NEW m, calls(t, m) PROVE queue'[i].run # lr.id
  <2>0. ~permitsHead
    BY <1>3 DEF calls, awaits, permitsHead, permits
  <2>1. Armed
    BY <2>0, ArmedMoves
  <2>2. m \in Tasks /\ queue' = Append(queue, m) /\ queue \in Seq(Tasks)
    BY <1>3, QueueIs DEF calls
  <2>3. /\ DOMAIN queue' = DOMAIN queue \cup {Len(queue) + 1}
        /\ \A k \in DOMAIN queue : queue'[k] = queue[k]
        /\ queue'[Len(queue) + 1] = m
    BY <2>2, AppendIs
  <2>4. CASE i \in DOMAIN queue
    BY <1>1, <2>3, <2>4
  <2>5. CASE queue'[i] = m
    <3>1. page[t].phase = "FINISHING" /\ m.arg = page[t].outcome /\ m.run = page[t].run
      BY <1>0, <1>3, <2>5 DEF calls
    <3>2. page[t].outcome \notin OwnedOutcomes
      BY <2>5, <3>1 DEF disowns
    <3> QED
      BY <2>1, <2>5, <3>1, <3>2 DEF IInv, SubmitsOK
  <2> QED
    BY <2>3, <2>4, <2>5
<1> QED
  BY <1>2, <1>3, QueueMoves

\* A page that may have submitted the form ends its attempt with an owned outcome.
LEMMA EndingsOwned ==
  ASSUME NEW p, p.step # "none", NEW outcome \in endings(p)
  PROVE  outcome \in OwnedOutcomes
<1>1. CASE p.step = "over"
  BY <1>1 DEF endings, attemptEndings, OwnedOutcomes, Owned
<1>2. CASE p.step # "over"
  BY <1>2 DEF endings, attemptEndings, OwnedOutcomes, Owned
<1> QED
  BY <1>1, <1>2

owns(p) == p.step # "none" /\ (p.phase = "FINISHING" => p.outcome \in OwnedOutcomes)

LEMMA PagesOwn ==
  ASSUME IInv, [Next]_vars, lr.id # NoId, lr'.id = lr.id, Armed',
         NEW t \in Tabs, page'[t].run = lr.id
  PROVE  owns(page'[t])
<1>1. CASE permitsHead /\ Head(queue).from # NoId /\ Head(queue).arg = "outer"
  <2>1. takesHead /\ page' = page /\ Head(queue).run = lr.id /\ Head(queue).op = "claim"
    BY <1>1 DEF permitsHead, permits
  <2>2. Head(queue).from \in Tabs
    <3>1. Head(queue) \in Tasks
      BY <2>1, HeadIs DEF IInv, takesHead
    <3> QED
      BY <1>1, <3>1 DEF Tasks, TabIds
  <2>3. PICK u \in Tabs : u = Head(queue).from
    BY <2>2
  <2>4. page[u].wait = "claim" /\ page[u].step = "outer" /\ page[u].run = lr.id
    BY <1>1, <2>1, <2>3, HeadSender DEF awaits
  <2>5. t = u
    BY <2>1, <2>4 DEF IInv, PlacesOK
  <2>6. page[t].phase = "EXECUTING"
    BY <2>4, <2>5 DEF IInv, PageOK, scriptOK
  <2> QED
    BY <2>1, <2>4, <2>5, <2>6 DEF owns
<1>2. CASE Armed
  <2>0. /\ lr.dispatch.fp # NoId /\ lr.status \in {"EXECUTING", "TERMINAL"}
        /\ page[t].run = lr.id => owns(page[t])
    BY <1>2, ArmedIs DEF IInv, SubmitsOK, owns
  <2>1. CASE stays(t)
    BY <2>0, <2>1 DEF stays, sameScript, owns
  <2>2. CASE begins(t)
    <3>1. PICK a, run : starts(t, a, run)
      BY <2>2 DEF begins
    <3>2. sv.pc # "start_send"
      BY <2>0 DEF IInv, TaskOK, createLogicalRun, NoRun, NoDispatch
    <3>3. sv.pc # "recovery_start"
      BY <2>0 DEF IInv, TaskOK, Recoveries
    <3> QED
      BY <3>1, <3>2, <3>3 DEF starts
  <2>3. CASE executes(t)
    BY <2>0, <2>3 DEF executes, sameAttempt, owns
  <2>4. CASE \E m : calls(t, m)
    BY <2>0, <2>4 DEF calls, sameAttempt, owns
  <2>5. CASE claimed(t)
    BY <2>0, <2>5 DEF claimed, clicked, sameAttempt, owns
  <2>6. CASE delivered(t)
    BY <2>0, <2>6 DEF delivered, sameAttempt, owns
  <2>7. ASSUME NEW outcome, finishes(t, outcome) PROVE owns(page'[t])
    BY <2>0, <2>7, EndingsOwned DEF finishes, sameAttempt, owns
  <2> QED
    BY <2>1, <2>2, <2>3, <2>4, <2>5, <2>6, <2>7, ScriptKinds DEF works
<1> QED
  BY <1>1, <1>2, ArmedMoves

LEMMA AnnouncedOwned ==
  ASSUME IInv, [Next]_vars, NEW l \in AttemptIds, submits(l)'
  PROVE  announced'[l] \subseteq Owned
<1>1. CASE submits(l) /\ announced' = announced
  BY <1>1 DEF IInv, SubmitsOK
<1>2. CASE grantsClaim
  <2>1. lr.status = "EXECUTING" /\ announced' = announced /\ lr.id \in AttemptIds
    BY <1>2, GrantIs DEF grantsClaim
  <2>2. lr.id # NoId
    BY <2>1, LogicalRunAssumption
  <2>3. announced[lr.id] = {}
    BY <2>1, <2>2 DEF IInv, EffectsOK
  <2> QED
    BY <1>1, <2>1, <2>3, SubmitsMoves
<1>3. CASE Effects
  <2>1. /\ lr.id \in AttemptIds /\ lr.status = "TERMINAL" /\ sv.pc = "effects"
        /\ announced' = [announced EXCEPT ![lr.id] = @ \cup {announcedState(lr)}]
    BY <1>3, EffectsAre
  <2>2. submits(l) /\ announced[l] \subseteq Owned
    BY <2>1, SubmitsMoves DEF grantsClaim, IInv, SubmitsOK
  <2>3. announced \in [AttemptIds -> SUBSET TerminalStates]
    BY DEF IInv, HistoryOK
  <2>4. CASE l # lr.id
    BY <2>1, <2>2, <2>3, <2>4
  <2>5. CASE l = lr.id
    <3>1. lr.id # NoId /\ Armed
      BY <2>1, <2>2, <2>5, LogicalRunAssumption DEF Armed
    <3>2. lr.attempts[lr.cur].final \in OwnedOutcomes
      BY <2>1, <3>1 DEF IInv, SubmitsOK, runOK, statusOK
    <3>3. announcedState(lr) \in Owned
      BY <3>2 DEF announcedState, stateOf, OwnedOutcomes, Owned, PrepFailures
    <3> QED
      BY <2>1, <2>2, <2>3, <2>5, <3>3
  <2> QED
    BY <2>4, <2>5
<1> QED
  BY <1>1, <1>2, <1>3, SubmitsMoves, BooksMove DEF still

LEMMA SubmitsStep ==
  ASSUME IInv, [Next]_vars
  PROVE  SubmitsOK'
<1>1. ASSUME lr'.id # NoId, Armed'
      PROVE  /\ lr'.attempts[lr'.cur].final \in OwnedOutcomes \cup {"none"}
             /\ \A i \in DOMAIN queue' : disowns(queue'[i]) => queue'[i].run # lr'.id
             /\ \A t \in Tabs : page'[t].run = lr'.id => owns(page'[t])
  <2>1. lr'.id = lr.id
    BY <1>1, IdMoves, NewRunUnarmed
  <2> QED
    BY <1>1, <2>1, FinalOwned, NothingDisowns, PagesOwn
<1>2. \A i, j \in DOMAIN queue' :
        /\ queue'[i].op = "claim" /\ queue'[i].from # NoId /\ queue'[i].run = lr'.id
        /\ disowns(queue'[j]) /\ queue'[j].run = lr'.id
        => j < i
  BY OrderStep
<1>3. \A l \in AttemptIds : submits(l)' => announced'[l] \subseteq Owned
  BY AnnouncedOwned
<1> QED
  BY <1>1, <1>2, <1>3 DEF SubmitsOK, owns, disowns, submits

-----------------------------------------------------------------------------
(* Badge and notification tell one story *)

keepsHead == queue # <<>> => queue' # <<>> /\ Head(queue').op = Head(queue).op

LEMMA HeadAppend ==
  ASSUME NEW S, NEW q \in Seq(S), q # <<>>, NEW m
  PROVE  Append(q, m) # <<>> /\ Head(Append(q, m)) = Head(q)
<1>1. q \in Seq(S \cup {m}) /\ m \in S \cup {m}
  OBVIOUS
<1>2. /\ Append(q, m) \in Seq(S \cup {m}) /\ Append(q, m) # <<>>
      /\ \A i \in DOMAIN q : Append(q, m)[i] = q[i]
  BY <1>1, AppendIs
<1>3. 1 \in DOMAIN q /\ Head(q) = q[1]
  BY TailIs
<1>4. Head(Append(q, m)) = Append(q, m)[1]
  BY <1>2, TailIs
<1> QED
  BY <1>2, <1>3, <1>4

LEMMA HeadOrphans ==
  ASSUME IInv, NEW t, queue # <<>>
  PROVE  orphans(t) # <<>> /\ Head(orphans(t)).op = Head(queue).op
<1>1. queue \in Seq(Tasks)
  BY QueueIs
<1>2. /\ orphans(t) \in Seq(Tasks) /\ DOMAIN orphans(t) = DOMAIN queue
      /\ Len(orphans(t)) = Len(queue)
      /\ \A i \in DOMAIN queue : orphaned(queue[i], orphans(t)[i], t)
  BY <1>1, OrphansIs
<1>3. 1 \in DOMAIN queue /\ Head(queue) = queue[1]
  BY <1>1, TailIs
<1>4. orphans(t) # <<>>
  BY <1>1, <1>2, <1>3
<1>5. Head(orphans(t)) = orphans(t)[1]
  BY <1>2, <1>4, TailIs
<1> QED
  BY <1>2, <1>3, <1>4, <1>5 DEF orphaned

LEMMA KeepsHead ==
  ASSUME IInv,
         \/ queue' = queue
         \/ \E m : queue' = Append(queue, m)
         \/ \E t : queue' = orphans(t)
         \/ \E t, m : queue' = Append(orphans(t), m)
  PROVE  keepsHead
<1> SUFFICES ASSUME queue # <<>>
             PROVE  queue' # <<>> /\ Head(queue').op = Head(queue).op
  BY DEF keepsHead
<1>0. queue \in Seq(Tasks)
  BY QueueIs
<1>1. CASE queue' = queue
  BY <1>1
<1>2. CASE \E m : queue' = Append(queue, m)
  BY <1>0, <1>2, HeadAppend
<1>3. CASE \E t : queue' = orphans(t)
  BY <1>3, HeadOrphans
<1>4. ASSUME NEW t, NEW m, queue' = Append(orphans(t), m)
      PROVE  queue' # <<>> /\ Head(queue').op = Head(queue).op
  <2>1. orphans(t) \in Seq(Tasks)
    BY <1>0, OrphansIs
  <2> QED
    BY <1>4, <2>1, HeadAppend, HeadOrphans
<1> QED
  BY <1>1, <1>2, <1>3, <1>4

\* Whatever is not the supervisor's or the worker's own leaves its head of queue alone.
LEMMA OthersKeepHead ==
  ASSUME IInv, [Next]_vars, ~SupervisorStep, ~Sleep, ~Crash, ~Boot
  PROVE  up' = up /\ sv'.pc = sv.pc /\ keepsHead
<1>0. sv \in Executions
  BY DEF IInv, TaskOK
<1>1. CASE UNCHANGED <<up, queue, sv>>
  BY <1>1, KeepsHead
<1>2. CASE up' = up /\ sv' = sv /\ \E m : queue' = Append(queue, m)
  BY <1>2, KeepsHead
<1>3. ASSUME NEW t, up' = up, sv' = orphan(sv, t),
             queue' = orphans(t) \/ \E m : queue' = Append(orphans(t), m)
      PROVE  up' = up /\ sv'.pc = sv.pc /\ keepsHead
  BY <1>0, <1>3, OrphanTaskIs, KeepsHead
<1>4. CASE RecorderStep \/ ClearRunEvents \/ Tick \/ UNCHANGED vars
  BY <1>1, <1>4 DEF RecorderStep, RecordEvent, RecordKept, RecorderWrite, ClearRunEvents, Tick,
     worker, vars
<1>5. CASE RequestStop
  BY <1>2, <1>5 DEF RequestStop, enqueue
<1>6. ASSUME NEW t \in Tabs, RequestStart(t)
      PROVE  up' = up /\ sv'.pc = sv.pc /\ keepsHead
  BY <1>2, <1>6 DEF RequestStart, enqueue
<1>7. ASSUME NEW t \in Tabs, PageStep(t)
      PROVE  up' = up /\ sv'.pc = sv.pc /\ keepsHead
  <2>1. CASE PageExecute(t) \/ PageClaimPin(t) \/ PageDeliver(t)
    BY <1>2, <2>1 DEF PageExecute, PageClaimPin, PageDeliver, enqueue
  <2>2. ASSUME NEW fp \in Fingerprints, PageClaimOuter(t, fp)
        PROVE  up' = up /\ sv'.pc = sv.pc /\ keepsHead
    BY <1>2, <2>2 DEF PageClaimOuter, enqueue
  <2>3. CASE PageClaimed(t) \/ PageDelivered(t)
    BY <1>1, <2>3 DEF PageClaimed, PageDelivered, worker
  <2>4. ASSUME NEW state \in EventStates, PageEmit(t, state)
        PROVE  up' = up /\ sv'.pc = sv.pc /\ keepsHead
    BY <1>1, <2>4 DEF PageEmit, worker
  <2>5. ASSUME NEW outcome \in Outcomes, PageFinish(t, outcome)
        PROVE  up' = up /\ sv'.pc = sv.pc /\ keepsHead
    BY <1>1, <2>5 DEF PageFinish, worker
  <2> QED
    BY <1>7, <2>1, <2>2, <2>3, <2>4, <2>5 DEF PageStep
<1>8. ASSUME NEW t \in Tabs, CloseTab(t) \/ Reload(t)
      PROVE  up' = up /\ sv'.pc = sv.pc /\ keepsHead
  BY <1>3, <1>8 DEF CloseTab, Reload, dropWaits
<1>9. ASSUME NEW t \in Tabs, NEW where \in {"left", "planned"}, ChangeUrl(t, where)
      PROVE  up' = up /\ sv'.pc = sv.pc /\ keepsHead
  BY <1>2, <1>3, <1>9 DEF ChangeUrl, dropWaits, enqueue
<1>10. CASE UserStep
  BY <1>4, <1>5, <1>6, <1>8, <1>9, <1>10 DEF UserStep
<1> QED
  BY <1>4, <1>7, <1>10 DEF Next

LEMMA RepeatsStay ==
  ASSUME IInv, [Next]_vars, lr.id # NoId, lr.status = "TERMINAL", ~lr.effectsDone, repeats
  PROVE  (lr' = lr /\ repeats') \/ lr'.effectsDone
<1>0. lr \in LogicalRuns /\ sv \in Executions /\ (~up => sv.pc = "idle" /\ queue = <<>>)
  BY DEF IInv, runOK, attemptsOK, TaskOK
<1>1. CASE SupervisorStep
  <2>1. CASE Effects
    <3>1. lr' = lr /\ sv'.pc = "mark"
      BY <2>1, EffectsAre
    <3> QED
      BY <3>1 DEF repeats
  <2>2. CASE EffectsMark
    BY <1>0, <2>2, MarkedIs DEF EffectsMark, isRun
  <2>3. CASE ReconcileSettled
    <3>1. lr' = lr /\ sv' = [Idle EXCEPT !.pc = "effects"]
      BY <2>3 DEF ReconcileSettled, completeTerminal
    <3>2. sv'.pc = "effects"
      BY <3>1 DEF Idle
    <3> QED
      BY <3>1, <3>2 DEF repeats
  <2>4. CASE ReconcileRunning \/ ReconcileOutcome \/ ReconcileLost
    BY <2>4 DEF ReconcileRunning, ReconcileOutcome, ReconcileLost
  <2>5. CASE \/ StartTask \/ StartNavigate \/ StartInject \/ StartCommit \/ StartSend
             \/ StartFail \/ StartDiscard
    BY <2>5 DEF StartTask, StartNavigate, StartInject, StartCommit, StartSend, StartFail,
       StartDiscard, At, Take, repeats
  <2>6. CASE \/ StopNothing \/ StopClaimed \/ StopPreparing \/ StopRunning
             \/ StopDelivered \/ StopUndelivered \/ StopSend
    BY <2>6 DEF StopNothing, StopClaimed, StopPreparing, StopRunning, StopDelivered,
       StopUndelivered, StopSend, At, Take, repeats
  <2>7. CASE \/ FinishedTask \/ FinishedReply \/ PhaseTask \/ ClaimTask \/ ClaimReply
             \/ TabRemovedTask \/ TabUrlTask \/ Terminate \/ CompleteTask
    BY <2>7 DEF FinishedTask, FinishedReply, PhaseTask, ClaimTask, ClaimReply, TabRemovedTask,
       TabUrlTask, Terminate, CompleteTask, At, Take, repeats
  <2>8. CASE \/ RecoveryTask \/ RecoveryReenter \/ RecoveryStart \/ RecoveryCommit \/ RecoveryFail
             \/ ReconcileRecover \/ ReconcileProject
    BY <2>8 DEF RecoveryTask, RecoveryReenter, RecoveryStart, RecoveryCommit, RecoveryFail,
       ReconcileRecover, ReconcileProject, At, Take, repeats
  <2> QED
    BY <1>1, <2>1, <2>2, <2>3, <2>4, <2>5, <2>6, <2>7, <2>8 DEF SupervisorStep
<1>2. CASE ~SupervisorStep
  <2>0. lr' = lr
    BY <1>2, OthersKeepTask
  <2>1. CASE Sleep \/ Crash
    BY <2>0, <2>1 DEF Sleep, Crash, repeats
  <2>2. CASE Boot
    <3>1. sv'.pc = "idle" /\ queue' = <<task("reconcile", NoId)>>
      BY <1>0, <2>2 DEF Boot
    <3>2. queue' # <<>> /\ Head(queue') = task("reconcile", NoId)
      BY <3>1
    <3> QED
      BY <2>0, <3>1, <3>2 DEF repeats, task
  <2>3. CASE ~Sleep /\ ~Crash /\ ~Boot
    <3>1. up' = up /\ sv'.pc = sv.pc /\ keepsHead
      BY <1>2, <2>3, OthersKeepHead
    <3> QED
      BY <2>0, <3>1 DEF keepsHead, repeats
  <2> QED
    BY <2>1, <2>2, <2>3
<1> QED
  BY <1>1, <1>2

LEMMA EffectsStep ==
  ASSUME IInv, [Next]_vars
  PROVE  EffectsOK'
<1>0. /\ announced \in [AttemptIds -> SUBSET TerminalStates] /\ NoId \notin AttemptIds
      /\ \A l \in AttemptIds : \A s1, s2 \in announced[l] : s1 = s2
  BY LogicalRunAssumption DEF IInv, HistoryOK, EffectsOK
<1>1. CASE Effects
  <2>1. /\ lr.id \in AttemptIds /\ lr.status = "TERMINAL" /\ ~lr.effectsDone /\ lr' = lr
        /\ announced' = [announced EXCEPT ![lr.id] = @ \cup {announcedState(lr)}]
        /\ sv'.pc = "mark"
    BY <1>1, EffectsAre
  <2>2. announced[lr.id] \subseteq {announcedState(lr)}
    BY <1>0, <2>1 DEF IInv, EffectsOK
  <2>3. announced'[lr.id] = {announcedState(lr)}
    BY <1>0, <2>1, <2>2
  <2>4. \A l \in AttemptIds : l # lr.id => announced'[l] = announced[l]
    BY <1>0, <2>1
  <2>5. \A l \in AttemptIds : \A s1, s2 \in announced'[l] : s1 = s2
    BY <1>0, <2>3, <2>4
  <2>6. announced'[lr'.id] = {announcedState(lr)}
    BY <2>1, <2>3
  <2>7. lr'.status = "TERMINAL"
    BY <2>1
  <2>8. announcedState(lr') = announcedState(lr) /\ repeats'
    BY <2>1 DEF repeats
  <2>9. announced'[lr'.id] = {announcedState(lr')}
    BY <2>6, <2>8
  <2> QED
    BY <2>5, <2>7, <2>8, <2>9 DEF EffectsOK
<1>2. CASE announced' = announced
  <2>1. ASSUME lr'.id # NoId, announced'[lr'.id] # {}
        PROVE  /\ lr'.status = "TERMINAL"
               /\ ~lr'.effectsDone => announced'[lr'.id] = {announcedState(lr')} /\ repeats'
    <3>1. lr'.id = lr.id
      <4>1. CASE StartCommit /\ sv.pc = "start_commit" /\ lr'.id = sv.run
        <5>1. announced[sv.run] = {}
          BY <4>1 DEF IInv, HistoryOK, fresh, StartsUnwritten
        <5> QED
          BY <1>2, <2>1, <4>1, <5>1
      <4> QED
        BY <2>1, <4>1, IdMoves
    <3>2. /\ lr.id # NoId /\ lr.status = "TERMINAL"
          /\ ~lr.effectsDone => announced[lr.id] = {announcedState(lr)} /\ repeats
      BY <1>2, <2>1, <3>1 DEF IInv, EffectsOK
    <3>3. ~replaced
      <4>1. lr.id \in used /\ lr.id # NoId
        BY <3>2 DEF IInv, runOK, attemptsOK
      <4>2. ~StartCommit
        <5>1. ASSUME StartCommit PROVE lr'.id = sv.run /\ sv.run # lr.id
          <6>1. sv.pc = "start_commit" /\ lr' = createLogicalRun(sv.run, sv.tab)
            BY <5>1 DEF StartCommit, At
          <6>2. sv.run # lr.id
            BY <6>1 DEF IInv, TaskOK, StartsUnwritten
          <6> QED
            BY <6>1, <6>2 DEF createLogicalRun, NoRun
        <5> QED
          BY <3>1, <5>1
      <4> QED
        BY <2>1, <4>2 DEF replaced, NoRun
    <3>4. lr'.status = "TERMINAL" /\ (lr.effectsDone => lr'.effectsDone)
      BY <3>2, <3>3, RunMoves DEF goesOn
    <3>5. ~lr'.effectsDone => announced'[lr'.id] = {announcedState(lr')} /\ repeats'
      <4> SUFFICES ASSUME ~lr'.effectsDone
                   PROVE  announced'[lr'.id] = {announcedState(lr')} /\ repeats'
        OBVIOUS
      <4>1. lr' = lr /\ repeats'
        BY <3>2, <3>4, RepeatsStay
      <4>2. announcedState(lr') = announcedState(lr)
        BY <4>1
      <4> QED
        BY <1>2, <3>1, <3>2, <3>4, <4>1, <4>2
    <3> QED
      BY <3>4, <3>5
  <2>2. \A l \in AttemptIds : \A s1, s2 \in announced'[l] : s1 = s2
    BY <1>0, <1>2
  <2> QED
    BY <2>1, <2>2 DEF EffectsOK
<1> QED
  BY <1>1, <1>2, BooksMove DEF still, grantsClaim

-----------------------------------------------------------------------------
(* The invariant *)

LEMMA InitInvariant == Init => IInv
<1> SUFFICES ASSUME Init PROVE IInv
  OBVIOUS
<1>0. /\ MaxQueue \in Nat /\ MaxEvents \in Nat /\ NoId \notin AttemptIds /\ NoId \notin Tabs
      /\ 0 <= MaxQueue + 1 /\ 0 <= MaxEvents
  BY BoundsAssumption, LogicalRunAssumption
<1>1. /\ lr = NoRun /\ used = {} /\ sv = Idle /\ queue = <<>> /\ up = TRUE
      /\ sv.pc = "idle" /\ sv.from = NoId /\ lr.id = NoId /\ lr.effectsDone = FALSE
      /\ lr.cur = NoId /\ lr.next = NoId /\ DOMAIN queue = {} /\ Len(queue) = 0
  BY DEF Init, Idle, NoRun
<1>2. /\ page = [t \in Tabs |-> Blank]
      /\ \A t \in Tabs : page[t] = Blank /\ bare(page[t]) /\ page[t].doc = "blank"
      /\ page \in [Tabs -> PageType]
  BY BareIs DEF Init
<1>3. runOK(lr, used)
  BY <1>1, NoRunOK
<1>4. TaskOK
  BY <1>1, IdleIs DEF TaskOK, Starts, StartsUnwritten, Recoveries
<1>5. QueueOK
  BY <1>0, <1>1 DEF QueueOK, messagesOK
<1>6. PageOK
  BY <1>1, <1>2 DEF PageOK, scriptOK, bare, Blank, Presses
<1>7. ProjectionOK
  <2>1. ar = NoActive /\ recorder = Quiet /\ events = <<>> /\ pending = NoId /\ cancelled = {}
    BY DEF Init
  <2>2. projects(NoActive)
    BY DEF projects, NoActive, Projections, Ids, TabIds, ActiveStates
  <2>3. halted = {} /\ up \in BOOLEAN /\ early \in BOOLEAN
    BY DEF Init
  <2>4. recorder.value = NoActive /\ recorder.writing \in BOOLEAN
    BY <2>1 DEF Quiet
  <2>5. events \in Seq(RunEvents) /\ Len(events) <= MaxEvents
    BY <1>0, <2>1
  <2>6. pending \in Ids /\ cancelled \subseteq AttemptIds
    BY <2>1 DEF Ids
  <2> QED
    BY <2>1, <2>2, <2>3, <2>4, <2>5, <2>6 DEF ProjectionOK
<1>8. SendersOK
  BY <1>0, <1>1 DEF SendersOK
<1>9. PlacesOK
  BY <1>1, <1>2 DEF PlacesOK, bare, StartsUnwritten
<1>10. \A l \in AttemptIds :
         /\ grants[l] = [outer |-> 0, pin |-> 0] /\ clicks[l] = [outer |-> 0, pin |-> 0]
         /\ announced[l] = {}
  BY DEF Init
<1>11. HistoryOK
  <2>1. [outer |-> 0, pin |-> 0] \in Counters
    BY DEF Counters
  <2>2. /\ grants \in [AttemptIds -> Counters] /\ clicks \in [AttemptIds -> Counters]
        /\ announced \in [AttemptIds -> SUBSET TerminalStates]
    BY <2>1 DEF Init
  <2> QED
    BY <1>1, <1>10, <2>2 DEF HistoryOK, fresh, StartsUnwritten
<1>12. ClaimsOK
  <2>1. ClaimIsDurable
    BY <1>0, <1>1, <1>10 DEF ClaimIsDurable
  <2> QED
    BY <1>1, <1>2, <2>1 DEF ClaimsOK, granted, bare
<1>13. AckIsDurable
  BY <1>2 DEF AckIsDurable, bare
<1>14. SubmitsOK
  BY <1>1, <1>10 DEF SubmitsOK
<1>15. EffectsOK
  BY <1>1, <1>10 DEF EffectsOK
<1> QED
  BY <1>3, <1>4, <1>5, <1>6, <1>7, <1>8, <1>9, <1>11, <1>12, <1>13, <1>14, <1>15 DEF IInv

\* Every step keeps the invariant.
LEMMA NextInvariant == IInv /\ [Next]_vars => IInv'
BY RunStep, TaskStep, QueueStep, PageStepOK, ProjectionStep, SendersStep, PlacesStep, HistoryStep,
   ClaimsStep, AckStep, SubmitsStep, EffectsStep
DEF IInv

\* The invariant holds in every reachable state.
LEMMA Invariant == Spec => []IInv
BY InitInvariant, NextInvariant, PTL DEF Spec

-----------------------------------------------------------------------------
(* What follows from it *)

\* Every variable has its type, in any interleaving of starts, stops, tab movements, messages
\* and deaths of the worker.
THEOREM TypeCorrect == Spec => []TypeOK
<1>1. ASSUME IInv PROVE TypeOK
  <2>1. /\ lr \in LogicalRuns /\ used \subseteq AttemptIds
        /\ up \in BOOLEAN /\ early \in BOOLEAN
    BY <1>1 DEF IInv, runOK, attemptsOK, ProjectionOK
  <2>2. /\ ar \in [run : Ids, tab : TabIds, state : ActiveStates \cup {"none"}]
        /\ recorder.value \in [run : Ids, tab : TabIds, state : ActiveStates \cup {"none"}]
        /\ recorder.writing \in BOOLEAN /\ Len(events) <= MaxEvents
        /\ pending \in Ids /\ cancelled \subseteq AttemptIds /\ halted \subseteq AttemptIds
    BY <1>1 DEF IInv, ProjectionOK, projects, Projections
  <2>3. Len(queue) <= MaxQueue + 1
    BY <1>1 DEF IInv, QueueOK
  <2>4. \A i \in DOMAIN queue : queue[i].tab \in TabIds /\ queue[i].from \in TabIds
    BY <1>1, SenderIs DEF Tasks
  <2>5. sv.run \in Ids /\ sv.tab \in TabIds
    BY <1>1 DEF IInv, TaskOK, Executions
  <2>6. page \in [Tabs -> PageType] /\ announced \in [AttemptIds -> SUBSET TerminalStates]
    BY <1>1 DEF IInv, PageOK, HistoryOK
  <2>7. \A a \in AttemptIds, p \in {"outer", "pin"} : grants[a][p] \in Nat /\ clicks[a][p] \in Nat
    BY <1>1, CounterIs DEF IInv, HistoryOK, Presses
  <2> QED
    BY <2>1, <2>2, <2>3, <2>4, <2>5, <2>6, <2>7 DEF TypeOK
<1>2. IInv => TypeOK
  BY <1>1
<1> QED
  BY <1>2, Invariant, PTL

\* A permission to submit is stored before it is granted, granted once and used at most once,
\* and the PIN is never submitted before the form, whoever dies or is answered late
\* (onCompletionDispatchClaim, CompletionCoordinator).
THEOREM PermissionsAreDurable == Spec => []ClaimIsDurable
<1>1. IInv => ClaimIsDurable
  BY DEF IInv, ClaimsOK
<1> QED
  BY <1>1, Invariant, PTL

\* What the content script was told of its outcome is what storage says of it
\* (onAttemptFinished).
THEOREM AcknowledgedIsStored == Spec => []AckIsDurable
<1>1. IInv => AckIsDurable
  BY DEF IInv
<1> QED
  BY <1>1, Invariant, PTL

\* A run whose form was submitted is never announced as stopped, failed or timed out, however
\* its tab, its worker or its outcome were lost (terminateLogical, onTabRemoved,
\* onTabUrlChanged, reconcile).
THEOREM SubmittedIsOwned == Spec => []SubmitNeverDisowned
<1>1. IInv => SubmitNeverDisowned
  BY DEF IInv, SubmitsOK, submits, Owned, SubmitNeverDisowned
<1> QED
  BY <1>1, Invariant, PTL

\* Badge and notification of a run tell one story, however often they are repeated after a
\* death of the worker (completeTerminal, runTerminalEffects).
THEOREM OneStory == Spec => []EffectsTellOneStory
<1>1. ASSUME IInv, NEW l \in AttemptIds PROVE Cardinality(announced[l]) <= 1
  <2>1. \A s1, s2 \in announced[l] : s1 = s2
    BY <1>1 DEF IInv, EffectsOK
  <2>2. CASE announced[l] = {}
    BY <2>2, FS_EmptySet
  <2>3. CASE announced[l] # {}
    <3>1. PICK s : s \in announced[l]
      BY <2>3
    <3>2. announced[l] = {s}
      BY <2>1, <3>1
    <3> QED
      BY <3>2, FS_Singleton
  <2> QED
    BY <2>2, <2>3
<1>2. IInv => EffectsTellOneStory
  BY <1>1 DEF EffectsTellOneStory
<1> QED
  BY <1>2, Invariant, PTL

\* A run is reset at most once and has an intent exactly while it recovers
\* (decide, executeRecovery).
THEOREM ResetOnce == Spec => []RecoveryShape
<1>1. ASSUME IInv PROVE RecoveryShape
  <2> DEFINE known == {a \in AttemptIds : lr.attempts[a].known}
  <2>0. attemptsOK(lr, used) /\ statusOK(lr, used)
    BY <1>1 DEF IInv, runOK
  <2>1. known \subseteq {lr.id} \cup {lr.cur}
    BY <2>0 DEF attemptsOK
  <2>2. IsFiniteSet({lr.id}) /\ Cardinality({lr.id}) = 1
    BY FS_Singleton
  <2>3. /\ IsFiniteSet({lr.id} \cup {lr.cur})
        /\ Cardinality({lr.id} \cup {lr.cur}) =
             IF lr.cur \in {lr.id} THEN Cardinality({lr.id}) ELSE Cardinality({lr.id}) + 1
    BY <2>2, FS_AddElement
  <2>4. Cardinality(known) <= Cardinality({lr.id} \cup {lr.cur}) /\ IsFiniteSet(known)
    BY <2>1, <2>3, FS_Subset
  <2>5. Cardinality(known) \in Nat
    BY <2>4, FS_CardinalityType
  <2> HIDE DEF known
  <2>6. lr.resetCount \in {0, 1} /\ (lr.resetCount = 0 => lr.cur = lr.id)
    BY <2>0 DEF statusOK
  <2>7. Cardinality(known) <= 1 + lr.resetCount
    <3>1. CASE lr.cur = lr.id
      BY <2>2, <2>3, <2>4, <2>5, <2>6, <3>1
    <3>2. CASE lr.cur # lr.id
      BY <2>2, <2>3, <2>4, <2>5, <2>6, <3>2
    <3> QED
      BY <3>1, <3>2
  <2> QED
    BY <2>0, <2>6, <2>7 DEF statusOK, RecoveryShape, known
<1>2. IInv => RecoveryShape
  BY <1>1
<1> QED
  BY <1>2, Invariant, PTL

\* The record of a decided attempt never changes, a terminal run never comes back and a stored
\* permission is never taken back (applyAttemptOutcome and its callers).
THEOREM DecisionsAreFinal == Spec => DecisionIsFinal
<1> DEFINE Kept ==
      lr'.id = lr.id =>
       /\ \A a \in AttemptIds :
            lr.attempts[a].decision # "none" => lr'.attempts[a] = lr.attempts[a]
       /\ (lr.status = "TERMINAL" => lr'.status = "TERMINAL")
       /\ (isAcknowledgedCompletionClaim(lr) => lr'.dispatch.fp = lr.dispatch.fp)
<1>1. ASSUME IInv, [Next]_vars PROVE Kept
  <2>1. CASE lr' = lr
    BY <2>1
  <2>2. CASE goesOn(lr, lr')
    BY <2>2 DEF goesOn, isAcknowledgedCompletionClaim
  <2>3. CASE replaced /\ StartCommit
    <3>1. sv.pc = "start_commit" /\ lr' = createLogicalRun(sv.run, sv.tab)
      BY <2>3 DEF StartCommit, At
    <3>2. sv.run # lr.id
      BY <1>1, <3>1 DEF IInv, TaskOK, StartsUnwritten
    <3>3. lr'.id = sv.run
      BY <3>1 DEF createLogicalRun, NoRun
    <3> QED
      BY <3>2, <3>3
  <2>4. CASE replaced /\ ~StartCommit
    <3>1. lr' = NoRun
      BY <2>4 DEF replaced
    <3>2. lr.id = NoId => lr = NoRun
      BY <1>1 DEF IInv, runOK, attemptsOK
    <3>3. NoRun.id = NoId
      BY DEF NoRun
    <3> QED
      BY <2>1, <3>1, <3>2, <3>3
  <2> QED
    BY <1>1, <2>1, <2>2, <2>3, <2>4, RunMoves
<1>2. IInv /\ [Next]_vars => [Kept]_vars
  BY <1>1
<1> QED
  BY <1>2, Invariant, PTL DEF Spec, DecisionIsFinal

\* Once the stop marker is in storage no permission is granted any more (stop against
\* onCompletionDispatchClaim).
THEOREM StopBeatsClaim == Spec => StopMarkerWins
<1> DEFINE Wins == lr.dispatch.stop => grants'[lr.id] = grants[lr.id]
<1>1. ASSUME IInv, [Next]_vars PROVE Wins
  <2>1. CASE grantsClaim
    BY <1>1, <2>1 DEF IInv, TaskOK, grantsClaim
  <2>2. CASE grants' = grants
    BY <2>2
  <2> QED
    BY <1>1, <2>1, <2>2, BooksMove, EffectsAre DEF still
<1>2. IInv /\ [Next]_vars => [Wins]_vars
  BY <1>1
<1> QED
  BY <1>2, Invariant, PTL DEF Spec, StopMarkerWins

\* Badge, notification and job run only while the run is terminal in storage and their
\* marker is not, however often the worker dies and an outcome is sent again
\* (completeTerminal, terminateLogical, executeRecovery).
THEOREM EffectsComeLast == Spec => EffectsAfterDecision
<1> DEFINE After == Effects => lr.status = "TERMINAL" /\ ~lr.effectsDone
<1>1. IInv /\ [Next]_vars => [After]_vars
  BY EffectsAre
<1> QED
  BY <1>1, Invariant, PTL DEF Spec, EffectsAfterDecision

-----------------------------------------------------------------------------
(* A stop and a stored claim *)

\* A stop that goes on past the end of the run has found no claim in storage, and none is
\* stored meanwhile.
stopping(s) == s.then = "stop_send" \/ s.pc = "stop_send"
StopsUnclaimed == stopping(sv) => /\ lr.dispatch.fp = NoId
                                  /\ sv.pc \in {"terminate", "effects", "mark", "stop_send"}

\* Only the stop of a run in preparation goes on past its end.
LEMMA OthersStopNothing ==
  ASSUME IInv, [Next]_vars, ~StopPreparing, ~stopping(sv)
  PROVE  ~stopping(sv')
<1>0. runOK(lr, used) /\ sv \in Executions /\ sv.then = "idle" /\ sv.pc # "stop_send"
  BY DEF IInv, TaskOK, Executions, stopping
<1>1. ~stopping(Idle)
  BY DEF stopping, Idle
<1>2. ASSUME NEW pc, pc # "stop_send", sv' = [sv EXCEPT !.pc = pc] PROVE ~stopping(sv')
  BY <1>0, <1>2 DEF Executions, stopping
<1>3. ASSUME NEW pc, pc # "stop_send", sv' = [Idle EXCEPT !.pc = pc] PROVE ~stopping(sv')
  BY <1>3 DEF Idle, stopping
<1>4. CASE ~SupervisorStep
  <2>1. sv' = sv \/ sv' = Idle \/ \E t \in Tabs : sv' = orphan(sv, t)
    <3>1. CASE RecorderStep \/ Tick \/ Sleep \/ Boot \/ Crash \/ vars' = vars
      BY <3>1 DEF RecorderStep, RecordEvent, RecordKept, RecorderWrite, Tick, Sleep, Boot, Crash,
         vars, worker
    <3>2. CASE UserStep
      BY <3>2 DEF UserStep, RequestStop, ClearRunEvents, RequestStart, CloseTab, Reload,
         ChangeUrl, dropWaits, worker
    <3>3. CASE \E t \in Tabs : PageStep(t)
      BY <3>3 DEF PageStep, PageExecute, PageClaimPin, PageClaimed, PageEmit, PageDeliver,
         PageDelivered, PageClaimOuter, PageFinish, worker
    <3> QED
      BY <1>4, <3>1, <3>2, <3>3 DEF Next
  <2>2. ASSUME NEW t, sv' = orphan(sv, t) PROVE ~stopping(sv')
    BY <1>0, <2>2 DEF orphan, Executions, stopping
  <2> QED
    BY <1>1, <2>1, <2>2
<1>5. CASE StartTask \/ StopRunning
  <2>1. \/ sv' = Idle
        \/ sv' = [Idle EXCEPT !.pc = "start_navigate", !.tab = Head(queue).tab, !.run = newId]
        \/ sv' = [Idle EXCEPT !.pc = "stop_live", !.tab = ar.tab, !.run = ar.run,
                              !.stop = lr.dispatch.stop]
    BY <1>5 DEF StartTask, StopRunning, Done
  <2> QED
    BY <1>1, <2>1 DEF Idle, stopping
<1>6. CASE \/ StartNavigate \/ StartInject \/ StartCommit \/ StartSend \/ StartFail \/ Terminate
           \/ Effects \/ RecoveryReenter \/ RecoveryStart \/ ReconcileProject
  <2>1. sv' = Idle \/ \E pc \in {"start_inject", "start_commit", "start_send", "start_fail",
                                 "start_discard", "effects", "mark", "recovery_start",
                                 "recovery_commit", "recovery_fail"} : sv' = [sv EXCEPT !.pc = pc]
    BY <1>6 DEF StartNavigate, StartInject, StartCommit, StartSend, StartFail, Terminate, Effects,
       RecoveryReenter, RecoveryStart, ReconcileProject, Goto, Done
  <2> QED
    BY <1>1, <1>2, <2>1
<1>7. CASE TabRemovedTask \/ TabUrlTask
  <2>1. sv' = Idle \/ \E t, run, state : terminateThen(t, run, state, "idle")
    BY <1>7 DEF TabRemovedTask, TabUrlTask, leaveTab, Done
  <2>2. ASSUME NEW t, NEW run, NEW state, terminateThen(t, run, state, "idle")
        PROVE  ~stopping(sv')
    BY <1>1, <2>2 DEF terminateThen, Idle, stopping
  <2> QED
    BY <1>1, <2>1, <2>2
<1>8. CASE StopUndelivered \/ RecoveryFail
  <2>1. \/ sv' = Idle
        \/ sv' = [sv EXCEPT !.pc = "terminate", !.arg = "STOPPED"]
        \/ sv' = [sv EXCEPT !.pc = "terminate", !.arg = "FAILED", !.stop = lr.dispatch.stop]
    BY <1>8 DEF StopUndelivered, RecoveryFail
  <2> QED
    BY <1>0, <1>1, <2>1 DEF Executions, stopping
<1>9. CASE EffectsMark
  BY <1>0, <1>1, <1>9 DEF EffectsMark
<1>10. CASE CompleteTask \/ RecoveryTask \/ ReconcileSettled \/ ReconcileRecover
  <2>1. sv' = Idle \/ \E pc \in {"effects", "recovery_commit", "recovery_reenter"} :
                        sv' = [Idle EXCEPT !.pc = pc]
    BY <1>0, <1>10, RecoveryIs
    DEF CompleteTask, RecoveryTask, ReconcileSettled, ReconcileRecover, completeTerminal, Done
  <2> QED
    BY <1>1, <1>3, <2>1
<1>11. CASE ReconcileOutcome \/ ReconcileLost
  BY <1>11 DEF ReconcileOutcome, ReconcileLost, Idle, stopping
<1>12. CASE FinishedTask \/ ClaimTask
  BY <1>1, <1>12 DEF FinishedTask, ClaimTask, Done, Idle, stopping
<1>13. CASE \/ StartDiscard \/ StopNothing \/ StopClaimed \/ StopDelivered \/ StopSend
            \/ FinishedReply \/ PhaseTask \/ ClaimReply \/ RecoveryCommit \/ ReconcileRunning
  BY <1>1, <1>13 DEF StartDiscard, StopNothing, StopClaimed, StopDelivered, StopSend,
     FinishedReply, PhaseTask, ClaimReply, RecoveryCommit, ReconcileRunning, Done
<1> QED
  BY <1>4, <1>5, <1>6, <1>7, <1>8, <1>9, <1>10, <1>11, <1>12, <1>13 DEF SupervisorStep

LEMMA StopsStep ==
  ASSUME IInv, StopsUnclaimed, [Next]_vars
  PROVE  StopsUnclaimed'
<1>0. runOK(lr, used) /\ TaskOK /\ sv \in Executions
  BY DEF IInv, TaskOK
<1>1. CASE StopPreparing
  <2>1. lr' = lr /\ lr.dispatch.fp = NoId
    BY <1>1 DEF StopPreparing, isAcknowledgedCompletionClaim
  <2>2. \/ sv' = [Idle EXCEPT !.pc = "terminate", !.tab = ar.tab, !.run = ar.run, !.arg = "STOPPED",
                              !.stop = lr.dispatch.stop, !.then = "stop_send"]
        \/ sv' = [Idle EXCEPT !.pc = "stop_send", !.tab = ar.tab]
    BY <1>1 DEF StopPreparing, terminateThen
  <2> QED
    BY <2>1, <2>2 DEF Idle, StopsUnclaimed
<1>2. CASE ~StopPreparing /\ ~stopping(sv)
  BY <1>2, OthersStopNothing DEF StopsUnclaimed, stopping
<1>3. CASE stopping(sv)
  <2>0. lr.dispatch.fp = NoId /\ sv.pc \in {"terminate", "effects", "mark", "stop_send"}
    BY <1>3 DEF StopsUnclaimed
  <2>1. CASE ~SupervisorStep
    <3>1. lr' = lr /\ (sv' = Idle \/ sv'.pc = sv.pc)
      BY <2>1, OthersKeepTask DEF keepsTask
    <3> QED
      BY <2>0, <3>1 DEF StopsUnclaimed, stopping, Idle
  <2>2. CASE Terminate
    <3>1. ended(sv.arg)
      BY <2>2, TerminateIs
    <3>2. sv'.pc = "effects" /\ lr'.dispatch.fp = NoId
      BY <1>0, <2>0, <2>2, <3>1 DEF Terminate, Goto, Executions, ended, stamped
    <3> QED
      BY <3>2 DEF StopsUnclaimed
  <2>3. CASE Effects
    <3>1. sv'.pc = "mark" /\ lr' = lr
      BY <2>3, EffectsAre
    <3> QED
      BY <2>0, <3>1 DEF StopsUnclaimed
  <2>4. CASE EffectsMark
    <3>1. lr.status = "TERMINAL" /\ lr' = markTerminalEffectsCompleted(lr)
      BY <1>0, <2>4 DEF EffectsMark, At, TaskOK
    <3>2. isRun(lr', lr.id, lr.tab, lr.status, lr.resetCount, lr.cur, lr.attempts, lr.next,
                lr.dispatched, TRUE, lr.dispatch)
      BY <1>0, <3>1, MarkedIs DEF runOK, attemptsOK
    <3>3. sv' = Idle \/ sv'.pc = "stop_send"
      BY <1>0, <2>4 DEF EffectsMark, Executions, Idle
    <3> QED
      BY <2>0, <3>2, <3>3 DEF isRun, StopsUnclaimed, stopping, Idle
  <2>5. CASE StopSend
    BY <2>5 DEF StopSend, Done, StopsUnclaimed, stopping, Idle
  <2>6. SupervisorStep => Terminate \/ Effects \/ EffectsMark \/ StopSend
    BY <2>0 DEF SupervisorStep, StartTask, StartNavigate, StartInject, StartCommit, StartSend,
       StartFail, StartDiscard, StopNothing, StopClaimed, StopPreparing, StopRunning,
       StopDelivered, StopUndelivered, FinishedTask, FinishedReply, PhaseTask, ClaimTask,
       ClaimReply, TabRemovedTask, TabUrlTask, CompleteTask, RecoveryTask, RecoveryReenter,
       RecoveryStart, RecoveryCommit, RecoveryFail, ReconcileSettled, ReconcileRunning,
       ReconcileOutcome, ReconcileRecover, ReconcileLost, ReconcileProject, Take, At
  <2> QED
    BY <2>1, <2>2, <2>3, <2>4, <2>5, <2>6
<1> QED
  BY <1>1, <1>2, <1>3

\* Only the last step of a stop tells a document to abort.
LEMMA OnlyStopsAbort ==
  ASSUME IInv, [Next]_vars, NEW t \in Tabs, ~page[t].abort, page'[t].abort
  PROVE  StopDelivered \/ StopSend
<1>0. page \in [Tabs -> PageType]
  BY DEF IInv, PageOK
<1>1. page' # page
  OBVIOUS
<1>2. ~Blank.abort /\ ~Closed.abort /\ ~Injected.abort /\ \A a, run : ~Started(a, run).abort
  BY DEF Blank, Closed, Injected, Started
<1>3. ASSUME NEW u, NEW p, page' = [page EXCEPT ![u] = p], ~p.abort PROVE FALSE
  BY <1>0, <1>3
<1>4. ASSUME NEW u, NEW reply, answer(u, reply) PROVE FALSE
  BY <1>0, <1>4 DEF answer, PageType
<1>5. CASE \/ StartNavigate \/ StartInject \/ StartSend \/ RecoveryReenter \/ RecoveryStart
  <2>1. \/ page' = page
        \/ \E u : page' = [page EXCEPT ![u] = Blank]
        \/ \E u : page' = [page EXCEPT ![u] = IF @.doc = "live" THEN @ ELSE Injected]
        \/ \E u, a, run : page' = [page EXCEPT ![u] = Started(a, run)]
    BY <1>5 DEF StartNavigate, StartInject, StartSend, RecoveryReenter, RecoveryStart
  <2>2. ASSUME NEW u, page' = [page EXCEPT ![u] = IF @.doc = "live" THEN @ ELSE Injected]
        PROVE  FALSE
    BY <1>0, <1>2, <2>2
  <2> QED
    BY <1>1, <1>2, <1>3, <2>1, <2>2
<1>6. CASE FinishedTask \/ FinishedReply \/ ClaimTask \/ ClaimReply
  <2>1. page' = page \/ \E u, reply : answer(u, reply)
    BY <1>6 DEF FinishedTask, FinishedReply, ClaimTask, ClaimReply
  <2> QED
    BY <1>1, <1>4, <2>1
<1>7. CASE \/ StartTask \/ StartCommit \/ StartFail \/ StartDiscard \/ StopNothing \/ StopClaimed
           \/ StopPreparing \/ StopRunning \/ StopUndelivered \/ PhaseTask \/ TabRemovedTask
           \/ TabUrlTask \/ Terminate \/ Effects \/ EffectsMark \/ CompleteTask \/ RecoveryTask
           \/ RecoveryCommit \/ RecoveryFail \/ ReconcileSettled \/ ReconcileRunning
           \/ ReconcileOutcome \/ ReconcileRecover \/ ReconcileLost \/ ReconcileProject
  <2>1. page' = page
    BY <1>7
    DEF StartTask, StartCommit, StartFail, StartDiscard, StopNothing, StopClaimed, StopPreparing,
        StopRunning, StopUndelivered, PhaseTask, TabRemovedTask, TabUrlTask, Terminate, Effects,
        EffectsMark, CompleteTask, RecoveryTask, RecoveryCommit, RecoveryFail, ReconcileSettled,
        ReconcileRunning, ReconcileOutcome, ReconcileRecover, ReconcileLost, ReconcileProject
  <2> QED
    BY <1>1, <2>1
<1>8. ASSUME NEW u \in Tabs, PageStep(u) PROVE FALSE
  <2>1. page[t] \in PageType
    BY <1>0
  <2>2. CASE PageExecute(u) \/ PageClaimPin(u) \/ PageDeliver(u) \/ PageDelivered(u)
    BY <1>0, <2>1, <2>2 DEF PageExecute, PageClaimPin, PageDeliver, PageDelivered, PageType
  <2>3. CASE PageClaimed(u) \/ \E outcome \in Outcomes : PageFinish(u, outcome)
    BY <1>0, <2>1, <2>3 DEF PageClaimed, PageFinish, PageType
  <2>4. CASE \E state \in EventStates : PageEmit(u, state)
    BY <1>1, <2>4 DEF PageEmit
  <2>5. CASE \E fp \in Fingerprints : PageClaimOuter(u, fp)
    BY <1>0, <2>1, <2>5 DEF PageClaimOuter, PageType
  <2> QED
    BY <1>8, <2>2, <2>3, <2>4, <2>5 DEF PageStep
<1>9. CASE UserStep
  <2>1. page' = page \/ \E u : page' = [page EXCEPT ![u] = Closed] \/ page' = [page EXCEPT ![u] = Blank]
    BY <1>9 DEF UserStep, RequestStop, ClearRunEvents, RequestStart, CloseTab, Reload, ChangeUrl
  <2> QED
    BY <1>1, <1>2, <1>3, <2>1
<1>10. CASE Crash
  BY <1>0, <1>10 DEF Crash, PageType
<1>11. CASE RecorderStep \/ Tick \/ Sleep \/ Boot \/ vars' = vars
  BY <1>1, <1>11 DEF RecorderStep, RecordEvent, RecordKept, RecorderWrite, Tick, Sleep, Boot, vars
<1> QED
  BY <1>5, <1>6, <1>7, <1>8, <1>9, <1>10, <1>11 DEF Next, SupervisorStep

\* Once a claim is stored no stop aborts the page that holds it, whatever the projection says
\* by then (stop, "the durable claim goes before the activeRun projection").
THEOREM StopSparesTheClaim == Spec => StopSparesClaimed
<1> DEFINE Spares == isAcknowledgedCompletionClaim(lr) =>
             \A t \in Tabs : page[t].run = lr.id /\ ~page[t].abort => ~page'[t].abort
<1>1. Init => StopsUnclaimed
  BY DEF Init, StopsUnclaimed, stopping, Idle
<1>2. IInv /\ StopsUnclaimed /\ [Next]_vars => StopsUnclaimed'
  BY StopsStep
<1>3. ASSUME IInv, StopsUnclaimed, [Next]_vars PROVE Spares
  <2>1. SUFFICES ASSUME isAcknowledgedCompletionClaim(lr), StopDelivered \/ StopSend
                 PROVE  FALSE
    BY <1>3, OnlyStopsAbort
  <2>2. lr.dispatch.fp = NoId
    BY <1>3, <2>1 DEF StopDelivered, StopSend, At, StopsUnclaimed, stopping, IInv, TaskOK
  <2> QED
    BY <2>1, <2>2 DEF isAcknowledgedCompletionClaim
<1>4. IInv /\ StopsUnclaimed /\ [Next]_vars => [Spares]_vars
  BY <1>3
<1> QED
  BY <1>1, <1>2, <1>4, Invariant, PTL DEF Spec, StopSparesClaimed

-----------------------------------------------------------------------------
(* The supervisor applies to a run in storage its transitions and nothing else *)

LEMMA OutcomeTransits ==
  ASSUME runOK(lr, used), lr.id # NoId, lr.attempts[lr.cur].decision = "none",
         lr.attempts[lr.cur].known, NEW outcome \in Outcomes, early \in BOOLEAN,
         lr' = applyAttemptOutcome(lr, lr.cur, outcome, early, newId),
         lr'.status = "RECOVERING" => used # AttemptIds
  PROVE  Transition(lr, lr')
<1>1. used \subseteq AttemptIds /\ lr.cur \in AttemptIds
      /\ \A a \in AttemptIds \ used : ~lr.attempts[a].known
  BY DEF runOK, attemptsOK
<1>2. outcomeKind(lr, lr.cur, outcome) = "ack"
  BY DEF outcomeKind
<1>3. lr'.status = "RECOVERING" => newId \in AttemptIds /\ ~lr.attempts[newId].known
  BY <1>1, NewId
<1>4. outcomeApplied(lr, lr')
  BY <1>1, <1>2, <1>3 DEF outcomeApplied
<1> QED
  BY <1>4 DEF Transition

LEMMA RunTransits ==
  ASSUME IInv, [Next]_vars, lr'.id = lr.id
  PROVE  lr' = lr \/ Transition(lr, lr')
<1>0. runOK(lr, used) /\ TaskOK /\ QueueOK /\ sv \in Executions /\ early \in BOOLEAN
  BY DEF IInv, TaskOK, ProjectionOK
<1>1. CASE StopClaimed \/ StopRunning
  BY <1>1 DEF StopClaimed, StopRunning, Transition
<1>2. CASE FinishedTask
  <2>1. PICK m : m = Head(queue)
    OBVIOUS
  <2>2. CASE decides(m)
    BY <1>0, <2>2, OutcomeTransits DEF decides
  <2>3. CASE \E reply : replies(m, reply)
    BY <2>3 DEF replies
  <2> QED
    BY <1>2, <2>1, <2>2, <2>3, FinishedIs
<1>3. CASE PhaseTask
  <2>1. PICK m : m = Head(queue)
    OBVIOUS
  <2>2. lr' = lr \/ (lr.id # NoId /\ phaseAccepted(lr, m.attempt, m.arg)
                     /\ lr' = applyPhaseChange(lr, m.attempt, m.arg))
    BY <1>3, <2>1 DEF PhaseTask, applyPhaseChange
  <2>3. ASSUME lr.id # NoId, phaseAccepted(lr, m.attempt, m.arg)
        PROVE  m.attempt \in AttemptIds /\ m.arg = "EXECUTING"
    BY <1>0, <2>3 DEF phaseAccepted, runOK, attemptsOK
  <2> QED
    BY <2>2, <2>3 DEF Transition
<1>4. CASE ClaimTask
  <2>1. PICK m : m = Head(queue)
    OBVIOUS
  <2>2. queue # <<>> /\ m.op = "claim"
    BY <1>4, <2>1 DEF ClaimTask, Take
  <2>3. m \in Tasks /\ m.attempt \in AttemptIds /\ m.arg \in {"outer", "pin"}
        /\ (m.arg = "outer" => m.fp \in Fingerprints)
    BY <1>0, <2>1, <2>2, HeadIs DEF messageOK, Presses
  <2>4. lr' = lr \/ (claimKind(lr, m.attempt, m.arg, m.fp) = "ack"
                     /\ lr' = applyCompletionDispatchClaim(lr, m.arg, m.fp))
    BY <1>4, <2>1 DEF ClaimTask
  <2>5. ASSUME claimKind(lr, m.attempt, m.arg, m.fp) = "ack" PROVE m.fp \in Fingerprints
    BY <2>3, <2>5 DEF claimKind, Tasks
  <2> QED
    BY <2>3, <2>4, <2>5 DEF Transition, claimApplied
<1>5. CASE Terminate
  <2>1. sv.arg \in TerminalStates /\ sv.stop \in BOOLEAN
        /\ lr.status \in {"PREPARING", "EXECUTING", "RECOVERING"}
    BY <1>0, <1>5, TerminateIs DEF Executions, lrActive
  <2>2. lr' = [applyBackgroundTerminal(lr, sv.arg) EXCEPT !.dispatch.stop = sv.stop]
    BY <1>5 DEF Terminate
  <2> QED
    BY <2>1, <2>2 DEF Transition, backgroundEnded
<1>6. CASE EffectsMark
  BY <1>0, <1>6 DEF EffectsMark, At, TaskOK, Transition
<1>7. CASE RecoveryTask \/ ReconcileRecover \/ (ReconcileSettled /\ executeRecovery)
  <2>1. executeRecovery
    BY <1>7 DEF RecoveryTask, ReconcileRecover
  <2> QED
    BY <1>0, <2>1, RecoveryIs DEF Transition
<1>8. CASE RecoveryCommit
  BY <1>0, <1>8 DEF RecoveryCommit, At, TaskOK, Recoveries, Transition
<1>9. CASE ReconcileOutcome
  <2>1. /\ lr.id # NoId /\ page[lr.tab].outcome \in Outcomes /\ lr.attempts[lr.cur] = Undecided
        /\ lr' = applyAttemptOutcome(lr, lr.cur, page[lr.tab].outcome, early, newId)
        /\ lr'.status = "RECOVERING" => used # AttemptIds
    BY <1>9, FoundIs
  <2>2. lr.attempts[lr.cur].decision = "none" /\ lr.attempts[lr.cur].known
    BY <2>1 DEF Undecided
  <2> QED
    BY <1>0, <2>1, <2>2, OutcomeTransits
<1>10. CASE ReconcileLost
  <2>1. PICK state \in {"HANDED_OFF", "FAILED"} : lr' = applyBackgroundTerminal(lr, state)
    BY <1>10 DEF ReconcileLost
  <2>2. lr' = [lr' EXCEPT !.dispatch.stop = lr.dispatch.stop]
    <3>1. lr \in LogicalRuns /\ lr.cur \in AttemptIds /\ state \in TerminalStates
      BY <1>0, <1>10, NotNone DEF ReconcileLost, runOK, attemptsOK, TerminalStates
    <3>2. PICK record : record = stamped(lr.attempts[lr.cur], state)
      OBVIOUS
    <3>3. /\ lr' \in LogicalRuns
          /\ isRun(lr', lr.id, lr.tab, "TERMINAL", lr.resetCount, lr.cur,
                   [lr.attempts EXCEPT ![lr.cur] = record], NoId, FALSE, lr.effectsDone,
                   lr.dispatch)
      BY <2>1, <3>1, <3>2, TerminatedIs
    <3>4. PICK after : after = lr'
      OBVIOUS
    <3>5. after \in LogicalRuns /\ after.dispatch = lr.dispatch
      BY <3>3, <3>4 DEF isRun
    <3>6. after = [after EXCEPT !.dispatch.stop = after.dispatch.stop]
      BY <3>5 DEF LogicalRuns, CompletionDispatch
    <3> QED
      BY <3>4, <3>5, <3>6
  <2>3. state \in TerminalStates /\ lr.dispatch.stop \in BOOLEAN
        /\ lr.status \in {"PREPARING", "EXECUTING", "RECOVERING"}
    BY <1>0, <1>10 DEF ReconcileLost, TerminalStates, runOK, attemptsOK, LogicalRuns,
       CompletionDispatch
  <2> QED
    BY <2>1, <2>2, <2>3 DEF Transition, backgroundEnded
<1>11. CASE StartCommit
  <2>1. lr' = createLogicalRun(sv.run, sv.tab) /\ sv.run # lr.id
    BY <1>0, <1>11 DEF StartCommit, At, TaskOK, StartsUnwritten
  <2>2. lr'.id = sv.run
    BY <2>1 DEF createLogicalRun, NoRun
  <2> QED
    BY <2>1, <2>2
<1>12. CASE StartDiscard
  <2>1. lr' = lr \/ lr' = NoRun
    BY <1>12 DEF StartDiscard
  <2>2. lr.id = NoId => lr = NoRun
    BY <1>0 DEF runOK, attemptsOK
  <2>3. NoRun.id = NoId
    BY DEF NoRun
  <2> QED
    BY <2>1, <2>2, <2>3
<1>13. CASE \/ StartTask \/ StartNavigate \/ StartInject \/ StartSend \/ StartFail \/ StopNothing
            \/ StopPreparing \/ StopDelivered \/ StopUndelivered \/ StopSend \/ FinishedReply
            \/ ClaimReply \/ TabRemovedTask \/ TabUrlTask \/ Effects \/ CompleteTask
            \/ RecoveryReenter \/ RecoveryStart \/ RecoveryFail \/ ReconcileRunning
            \/ ReconcileProject \/ (ReconcileSettled /\ ~executeRecovery) \/ vars' = vars
  BY <1>13 DEF StartTask, StartNavigate, StartInject, StartSend, StartFail, StopNothing,
      StopPreparing, StopDelivered, StopUndelivered, StopSend, FinishedReply, ClaimReply,
      TabRemovedTask, TabUrlTask, Effects, CompleteTask, RecoveryReenter, RecoveryStart,
      RecoveryFail, ReconcileRunning, ReconcileProject, ReconcileSettled, storage, vars
<1>14. CASE SupervisorStep
  BY <1>1, <1>2, <1>3, <1>4, <1>5, <1>6, <1>7, <1>8, <1>9, <1>10, <1>11, <1>12, <1>13, <1>14
  DEF SupervisorStep
<1> QED
  BY <1>13, <1>14, OthersKeepRun

\* What happens to a logical run in storage, from its creation until another one takes its
\* place, is one of its transitions (RunSupervisor and its calls into logical-run.ts).
THEOREM RunsFollowTransitions == Spec => [][lr'.id = lr.id => Transition(lr, lr')]_lr
<1>1. IInv /\ [Next]_vars => [lr'.id = lr.id => Transition(lr, lr')]_lr
  BY RunTransits
<1> QED
  BY <1>1, Invariant, PTL DEF Spec
=============================================================================
