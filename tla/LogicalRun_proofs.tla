-------------------------- MODULE LogicalRun_proofs --------------------------
(***************************************************************************)
(* What the pure transitions of the logical run guarantee for every run,   *)
(* every attempt and every outcome.                                        *)
(***************************************************************************)
EXTENDS LogicalRun, TLAPS

-----------------------------------------------------------------------------
(* The transitions stay within the type of a logical run. *)

\* createLogicalRun makes a well-formed run with one undecided attempt and no dispatch.
LEMMA CreatedRun ==
  ASSUME NEW a \in AttemptIds, NEW t \in Tabs
  PROVE  /\ createLogicalRun(a, t) \in LogicalRuns
         /\ createLogicalRun(a, t).status = "PREPARING"
         /\ createLogicalRun(a, t).dispatch = NoDispatch
         /\ createLogicalRun(a, t).cur = a
BY DEF createLogicalRun, NoRun, LogicalRuns, Statuses, AttemptRecord, Decisions, Absent,
       Undecided, CompletionDispatch, NoDispatch

\* A recorded claim changes the dispatch record and nothing else.
LEMMA ClaimedRun ==
  ASSUME NEW run \in LogicalRuns, NEW fp \in Fingerprints, NEW phase
  PROVE  LET claimed == applyCompletionDispatchClaim(run, phase, fp)
         IN /\ claimed \in LogicalRuns
            /\ claimed.status = run.status /\ claimed.cur = run.cur
            /\ claimed.dispatch.stop = run.dispatch.stop
            /\ phase = "pin" => claimed.dispatch.pin /\ claimed.dispatch.fp = run.dispatch.fp
            /\ phase # "pin" => /\ claimed.dispatch.fp = fp
                                /\ claimed.dispatch.pin = run.dispatch.pin
BY DEF applyCompletionDispatchClaim, LogicalRuns, CompletionDispatch

\* A stop request only sets the marker.
LEMMA StoppedRun ==
  ASSUME NEW run \in LogicalRuns
  PROVE  /\ requestCompletionStop(run) \in LogicalRuns
         /\ requestCompletionStop(run).status = run.status
         /\ requestCompletionStop(run).cur = run.cur
         /\ requestCompletionStop(run).dispatch.stop
         /\ requestCompletionStop(run).dispatch.fp = run.dispatch.fp
         /\ requestCompletionStop(run).dispatch.pin = run.dispatch.pin
BY DEF requestCompletionStop, LogicalRuns, CompletionDispatch

\* A phase change can only lead from PREPARING to EXECUTING.
LEMMA PhasedRun ==
  ASSUME NEW run \in LogicalRuns, NEW a, NEW phase
  PROVE  LET phased == applyPhaseChange(run, a, phase)
         IN /\ phased \in LogicalRuns
            /\ phased.dispatch = run.dispatch /\ phased.cur = run.cur
            /\ \/ phased.status = run.status
               \/ run.status = "PREPARING" /\ phased.status = "EXECUTING"
BY DEF applyPhaseChange, phaseAccepted, LogicalRuns, Statuses

\* Every attempt of a run has a well-formed record.
LEMMA RecordOfRun ==
  ASSUME NEW run \in LogicalRuns, NEW a \in AttemptIds
  PROVE  run.attempts[a] \in AttemptRecord
BY DEF LogicalRuns

\* Replacing the record of one attempt by another well-formed record, the status by
\* another one and the intent by none gives a well-formed run again.
LEMMA ReplacedRecord ==
  ASSUME NEW run \in LogicalRuns, NEW a \in AttemptIds, NEW record \in AttemptRecord
  PROVE  [run.attempts EXCEPT ![a] = record] \in [AttemptIds -> AttemptRecord]
BY DEF LogicalRuns

\* Background termination ends the run and leaves its dispatch record alone.
LEMMA TerminatedRun ==
  ASSUME NEW run \in LogicalRuns, run.cur \in AttemptIds, NEW state \in TerminalStates
  PROVE  LET ended == applyBackgroundTerminal(run, state)
         IN /\ ended \in LogicalRuns
            /\ ended.dispatch = run.dispatch /\ ended.status = "TERMINAL"
            /\ ended.cur = run.cur
PROOF
<1> DEFINE old == run.attempts[run.cur]
           new == IF old.decision = "none" THEN [old EXCEPT !.final = state] ELSE old
           attempts == [run.attempts EXCEPT ![run.cur] = new]
           ended == applyBackgroundTerminal(run, state)
<1>1. old \in AttemptRecord
  BY RecordOfRun
<1>2. new \in AttemptRecord
  BY <1>1 DEF AttemptRecord, Outcomes
<1>3. attempts \in [AttemptIds -> AttemptRecord]
  BY <1>2, ReplacedRecord
<1>4. ended = [run EXCEPT !.status = "TERMINAL", !.next = NoId, !.dispatched = FALSE,
                          !.attempts = attempts]
  BY DEF applyBackgroundTerminal, LogicalRuns
<1> HIDE DEF attempts, ended
<1>5. /\ ended \in LogicalRuns
      /\ ended.dispatch = run.dispatch /\ ended.status = "TERMINAL"
      /\ ended.cur = run.cur
  BY <1>3, <1>4 DEF LogicalRuns, Statuses
<1> QED
  BY <1>5 DEF ended

-----------------------------------------------------------------------------
(* What the content script may rely on when it repeats itself *)

\* The run after an acknowledged outcome, field by field.
LEMMA DecidedRun ==
  ASSUME NEW run \in LogicalRuns, NEW a \in AttemptIds, NEW outcome \in Outcomes,
         NEW early \in BOOLEAN, NEW next \in AttemptIds
  PROVE  LET decided  == applyAttemptOutcome(run, a, outcome, early, next)
             decision == outcomeDecision(run, outcome, early)
         IN /\ decided \in LogicalRuns
            /\ decided.attempts[a].final = outcome
            /\ decided.attempts[a].decision = decision /\ decision \in Decisions
            /\ decided.resetCount = IF decision = "RESET_PAGE" THEN run.resetCount + 1
                                    ELSE run.resetCount
            /\ decided.dispatch = run.dispatch
PROOF
<1> DEFINE decision == outcomeDecision(run, outcome, early)
           new == finishedRecord(run.attempts[a], outcome, decision)
           attempts == [run.attempts EXCEPT ![a] = new]
           decided == applyAttemptOutcome(run, a, outcome, early, next)
<1>1. decision \in Decisions
  BY DEF outcomeDecision, decide, Decisions
<1>2. new \in AttemptRecord /\ new.final = outcome /\ new.decision = decision
  <2> HIDE DEF decision
  <2> QED
    BY <1>1, RecordOfRun DEF AttemptRecord, finishedRecord
<1>3. attempts \in [AttemptIds -> AttemptRecord] /\ attempts[a] = new
  BY <1>2, ReplacedRecord DEF LogicalRuns
<1>4. decided = IF decision = "RESET_PAGE"
                THEN [run EXCEPT !.attempts = attempts, !.status = "RECOVERING",
                                 !.resetCount = @ + 1, !.next = next, !.dispatched = FALSE]
                ELSE [run EXCEPT !.attempts = attempts, !.status = "TERMINAL"]
  BY DEF applyAttemptOutcome, LogicalRuns
<1> HIDE DEF decision, new, attempts, decided
<1>5. /\ decided \in LogicalRuns /\ decided.attempts = attempts
      /\ decided.resetCount = IF decision = "RESET_PAGE" THEN run.resetCount + 1
                              ELSE run.resetCount
      /\ decided.dispatch = run.dispatch
  <2>1. CASE decision = "RESET_PAGE"
    <3>1. decided = [run EXCEPT !.attempts = attempts, !.status = "RECOVERING",
                                !.resetCount = run.resetCount + 1, !.next = next,
                                !.dispatched = FALSE]
      BY <1>4, <2>1
    <3>2. run.resetCount + 1 \in Nat
      BY DEF LogicalRuns
    <3> QED
      BY <1>3, <2>1, <3>1, <3>2 DEF LogicalRuns, Statuses
  <2>2. CASE decision # "RESET_PAGE"
    BY <1>3, <1>4, <2>2 DEF LogicalRuns, Statuses
  <2> QED
    BY <2>1, <2>2
<1> QED
  BY <1>1, <1>2, <1>3, <1>5 DEF decision, decided

\* A run is reset at most once, and only while it is being prepared
\* (decide, RESET_MIN_LEAD_MS).
THEOREM ResetOnce ==
  ASSUME NEW run \in LogicalRuns, NEW a \in AttemptIds, NEW outcome \in Outcomes,
         NEW early \in BOOLEAN, NEW next \in AttemptIds, run.resetCount <= 1
  PROVE  LET decided == applyAttemptOutcome(run, a, outcome, early, next)
         IN /\ decided.resetCount <= 1
            /\ decided.attempts[a].decision = "RESET_PAGE" =>
                 /\ run.resetCount = 0 /\ run.status = "PREPARING"
                 /\ outcome = "PREP_STALLED" /\ early
PROOF
<1>1. outcomeDecision(run, outcome, early) = "RESET_PAGE" =>
        /\ run.resetCount = 0 /\ run.status = "PREPARING"
        /\ outcome = "PREP_STALLED" /\ early
  BY DEF outcomeDecision, decide
<1>2. run.resetCount \in Nat
  BY DEF LogicalRuns
<1> QED
  BY <1>1, <1>2, DecidedRun

-----------------------------------------------------------------------------
(* The life of a run *)

\* An attempt the run does not know is undecided, and so is the one it is to go on with.
lifeOK(run) ==
  /\ run \in LogicalRuns /\ run.cur \in AttemptIds
  /\ \A a \in AttemptIds : ~run.attempts[a].known => run.attempts[a].decision = "none"
  /\ run.status = "RECOVERING" => run.next # NoId
  /\ run.next # NoId => run.next # run.cur /\ run.attempts[run.next].decision = "none"

\* No claim is open any more.
closed(run) == run.dispatch.stop \/ run.status = "TERMINAL"

\* What no transition takes back.
keeps(run, next) ==
  /\ \A a \in AttemptIds : run.attempts[a].decision # "none" => next.attempts[a] = run.attempts[a]
  /\ run.dispatch.fp # NoId => next.dispatch.fp # NoId
  /\ run.dispatch.pin => next.dispatch.pin
  /\ closed(run) => closed(next)

LEMMA OutcomeKeeps ==
  ASSUME NEW run, lifeOK(run), NEW next, outcomeApplied(run, next)
  PROVE  lifeOK(next) /\ keeps(run, next)
<1>1. PICK a \in AttemptIds, outcome \in Outcomes, early \in BOOLEAN : \E id :
        /\ outcomeKind(run, a, outcome) = "ack"
        /\ next = applyAttemptOutcome(run, a, outcome, early, id)
        /\ next.status = "RECOVERING" => id \in AttemptIds /\ ~run.attempts[id].known
  BY DEF outcomeApplied
<1>2. PICK id : /\ outcomeKind(run, a, outcome) = "ack"
                /\ next = applyAttemptOutcome(run, a, outcome, early, id)
                /\ next.status = "RECOVERING" => id \in AttemptIds /\ ~run.attempts[id].known
  BY <1>1
<1>3. run \in LogicalRuns /\ a = run.cur /\ run.attempts[a].known
      /\ run.attempts[a].decision = "none"
  BY <1>2 DEF lifeOK, outcomeKind
<1> DEFINE decision == outcomeDecision(run, outcome, early)
           new == finishedRecord(run.attempts[a], outcome, decision)
           attempts == [run.attempts EXCEPT ![a] = new]
<1>4. decision \in Decisions /\ (run.status = "TERMINAL" => decision = "TERMINAL")
  BY DEF outcomeDecision, decide, Decisions
<1>5. new \in AttemptRecord /\ new.known
  <2> HIDE DEF decision
  <2>1. run.attempts[a] \in AttemptRecord
    BY <1>3, RecordOfRun
  <2>2. new \in AttemptRecord
    BY <1>4, <2>1 DEF AttemptRecord, finishedRecord
  <2>3. new.known = run.attempts[a].known
    BY <2>1 DEF AttemptRecord, finishedRecord
  <2> QED
    BY <1>3, <2>2, <2>3
<1>6. /\ attempts \in [AttemptIds -> AttemptRecord]
      /\ \A b \in AttemptIds : b # a => attempts[b] = run.attempts[b]
      /\ \A b \in AttemptIds : ~attempts[b].known => attempts[b].decision = "none"
  <2> HIDE DEF new
  <2>1. attempts \in [AttemptIds -> AttemptRecord] /\ attempts[a] = new
        /\ \A b \in AttemptIds : b # a => attempts[b] = run.attempts[b]
    BY <1>3, <1>5, ReplacedRecord DEF LogicalRuns
  <2> HIDE DEF attempts
  <2> QED
    BY <1>3, <1>5, <2>1 DEF lifeOK
<1>7. next = IF decision = "RESET_PAGE"
             THEN [run EXCEPT !.attempts = attempts, !.status = "RECOVERING",
                              !.resetCount = @ + 1, !.next = id, !.dispatched = FALSE]
             ELSE [run EXCEPT !.attempts = attempts, !.status = "TERMINAL"]
  BY <1>2, <1>3 DEF applyAttemptOutcome, LogicalRuns
<1> HIDE DEF decision, new, attempts
<1>8. CASE decision = "RESET_PAGE"
  <2>1. next = [run EXCEPT !.attempts = attempts, !.status = "RECOVERING",
                           !.resetCount = run.resetCount + 1, !.next = id, !.dispatched = FALSE]
    BY <1>7, <1>8
  <2>2. run.resetCount + 1 \in Nat
    BY <1>3 DEF LogicalRuns
  <2>3. next.status = "RECOVERING" /\ run.status # "TERMINAL"
    BY <1>3, <1>4, <1>8, <2>1 DEF LogicalRuns
  <2>4. id \in AttemptIds /\ id # run.cur
    BY <1>2, <1>3, <2>3
  <2>5. next \in LogicalRuns /\ next.next = id /\ next.cur = run.cur /\ next.attempts = attempts
        /\ next.dispatch = run.dispatch
    BY <1>3, <1>6, <2>1, <2>2, <2>4 DEF LogicalRuns, Statuses
  <2>6. attempts[id].decision = "none"
    BY <1>2, <1>3, <1>6, <2>3, <2>4 DEF lifeOK
  <2> QED
    BY LogicalRunAssumption, <1>3, <1>6, <2>3, <2>4, <2>5, <2>6 DEF lifeOK, keeps, closed
<1>9. CASE decision # "RESET_PAGE"
  <2>1. next = [run EXCEPT !.attempts = attempts, !.status = "TERMINAL"]
    BY <1>7, <1>9
  <2>2. next \in LogicalRuns /\ next.status = "TERMINAL" /\ next.cur = run.cur
        /\ next.next = run.next /\ next.attempts = attempts /\ next.dispatch = run.dispatch
    BY <1>3, <1>6, <2>1 DEF LogicalRuns, Statuses
  <2>3. next.next # NoId => next.attempts[next.next].decision = "none"
    BY <1>3, <1>6, <2>2 DEF lifeOK, LogicalRuns
  <2> QED
    BY <1>3, <1>6, <2>2, <2>3 DEF lifeOK, keeps, closed
<1> QED
  BY <1>8, <1>9

\* The records after a background termination, or after a new attempt.
LEMMA BackgroundKeeps ==
  ASSUME NEW run, lifeOK(run), NEW next, backgroundEnded(run, next)
  PROVE  lifeOK(next) /\ keeps(run, next)
<1>1. PICK state \in TerminalStates, stop \in BOOLEAN :
        next = [applyBackgroundTerminal(run, state) EXCEPT !.dispatch.stop = stop]
  BY DEF backgroundEnded
<1> DEFINE old == run.attempts[run.cur]
           new == IF old.decision = "none" THEN [old EXCEPT !.final = state] ELSE old
           attempts == [run.attempts EXCEPT ![run.cur] = new]
           dispatch == [run.dispatch EXCEPT !.stop = stop]
<1>2. run \in LogicalRuns /\ run.cur \in AttemptIds /\ old \in AttemptRecord
  BY RecordOfRun DEF lifeOK
<1>3. /\ new \in AttemptRecord /\ new.known = old.known /\ new.decision = old.decision
      /\ old.decision # "none" => new = old
  BY <1>2 DEF AttemptRecord, Outcomes
<1>4. /\ attempts \in [AttemptIds -> AttemptRecord] /\ attempts[run.cur] = new
      /\ \A b \in AttemptIds : b # run.cur => attempts[b] = run.attempts[b]
  BY <1>2, <1>3, ReplacedRecord DEF LogicalRuns
<1>5. /\ dispatch \in CompletionDispatch /\ dispatch.fp = run.dispatch.fp
      /\ dispatch.pin = run.dispatch.pin
  BY <1>2 DEF LogicalRuns, CompletionDispatch
<1>6. next = [run EXCEPT !.status = "TERMINAL", !.next = NoId, !.dispatched = FALSE,
                         !.attempts = attempts, !.dispatch = dispatch]
  BY <1>1, <1>2 DEF applyBackgroundTerminal, LogicalRuns
<1> HIDE DEF new, attempts, dispatch
<1>7. /\ next \in LogicalRuns /\ next.status = "TERMINAL" /\ next.next = NoId
      /\ next.cur = run.cur /\ next.attempts = attempts /\ next.dispatch = dispatch
  BY <1>2, <1>4, <1>5, <1>6 DEF LogicalRuns, Statuses
<1>8. \A b \in AttemptIds : /\ ~next.attempts[b].known => next.attempts[b].decision = "none"
                            /\ run.attempts[b].decision # "none" => next.attempts[b] = run.attempts[b]
  BY <1>2, <1>3, <1>4, <1>7 DEF lifeOK
<1> QED
  BY <1>2, <1>5, <1>7, <1>8 DEF lifeOK, keeps, closed

LEMMA NextAttemptKeeps ==
  ASSUME NEW run, lifeOK(run), run.status = "RECOVERING"
  PROVE  lifeOK(beginNextAttempt(run)) /\ keeps(run, beginNextAttempt(run))
<1> DEFINE attempts == [run.attempts EXCEPT ![run.next] = Undecided]
           next == beginNextAttempt(run)
<1>1. /\ run \in LogicalRuns /\ run.next \in AttemptIds /\ run.attempts[run.next].decision = "none"
  BY DEF lifeOK, LogicalRuns
<1>2. Undecided \in AttemptRecord /\ Undecided.known /\ Undecided.decision = "none"
  BY DEF Undecided, AttemptRecord
<1>3. /\ attempts \in [AttemptIds -> AttemptRecord] /\ attempts[run.next] = Undecided
      /\ \A b \in AttemptIds : b # run.next => attempts[b] = run.attempts[b]
  BY <1>1, <1>2, ReplacedRecord DEF LogicalRuns
<1>4. next = [run EXCEPT !.status = "PREPARING", !.cur = run.next, !.attempts = attempts,
                         !.next = NoId, !.dispatched = FALSE]
  BY <1>1 DEF beginNextAttempt, LogicalRuns
<1> HIDE DEF attempts, next
<1>5. /\ next \in LogicalRuns /\ next.status = "PREPARING" /\ next.next = NoId
      /\ next.cur = run.next /\ next.attempts = attempts /\ next.dispatch = run.dispatch
  BY <1>1, <1>3, <1>4 DEF LogicalRuns, Statuses
<1>6. \A b \in AttemptIds : /\ ~next.attempts[b].known => next.attempts[b].decision = "none"
                            /\ run.attempts[b].decision # "none" => next.attempts[b] = run.attempts[b]
  BY <1>1, <1>2, <1>3, <1>5 DEF lifeOK
<1>7. lifeOK(next) /\ keeps(run, next)
  BY <1>1, <1>5, <1>6 DEF lifeOK, keeps, closed
<1> QED
  BY <1>7 DEF next

LEMMA ClaimKeeps ==
  ASSUME NEW run, lifeOK(run), NEW next, claimApplied(run, next)
  PROVE  lifeOK(next) /\ keeps(run, next)
<1>1. PICK a \in AttemptIds, phase \in {"outer", "pin"}, fp \in Fingerprints :
        claimKind(run, a, phase, fp) = "ack" /\ next = applyCompletionDispatchClaim(run, phase, fp)
  BY DEF claimApplied
<1>2. fp # NoId /\ run \in LogicalRuns
  BY LogicalRunAssumption DEF lifeOK
<1>3. /\ next \in LogicalRuns /\ next.status = run.status /\ next.cur = run.cur
      /\ next.dispatch.stop = run.dispatch.stop
      /\ phase = "pin" => next.dispatch.pin /\ next.dispatch.fp = run.dispatch.fp
      /\ phase # "pin" => next.dispatch.fp = fp /\ next.dispatch.pin = run.dispatch.pin
  BY <1>1, <1>2, ClaimedRun
<1>4. next.attempts = run.attempts /\ next.next = run.next
  BY <1>1, <1>2 DEF applyCompletionDispatchClaim, LogicalRuns
<1> QED
  BY <1>2, <1>3, <1>4 DEF lifeOK, keeps, closed

\* No transition changes a decided attempt, takes a permission back or opens a closed run.
LEMMA TransitionKeeps ==
  ASSUME NEW run, lifeOK(run), NEW next, Transition(run, next)
  PROVE  lifeOK(next) /\ keeps(run, next)
<1>1. run \in LogicalRuns
  BY DEF lifeOK
<1>2. CASE \E a \in AttemptIds, phase \in {"PREPARING", "EXECUTING"} :
             next = applyPhaseChange(run, a, phase)
  <2>1. PICK a \in AttemptIds, phase \in {"PREPARING", "EXECUTING"} :
          next = applyPhaseChange(run, a, phase)
    BY <1>2
  <2>2. /\ next \in LogicalRuns /\ next.dispatch = run.dispatch /\ next.cur = run.cur
        /\ next.status = run.status \/ (run.status = "PREPARING" /\ next.status = "EXECUTING")
    BY <1>1, <2>1, PhasedRun
  <2>3. next.attempts = run.attempts /\ next.next = run.next
    BY <1>1, <2>1 DEF applyPhaseChange, LogicalRuns
  <2> QED
    BY <1>1, <2>2, <2>3 DEF lifeOK, keeps, closed
<1>3. CASE next = requestCompletionStop(run)
  <2>1. next.attempts = run.attempts /\ next.next = run.next
    BY <1>1, <1>3 DEF requestCompletionStop, LogicalRuns
  <2> QED
    BY <1>1, <1>3, <2>1, StoppedRun DEF lifeOK, keeps, closed
<1>4. CASE run.status = "RECOVERING" /\ next = markRecoveryDispatched(run)
  BY <1>1, <1>4 DEF markRecoveryDispatched, LogicalRuns, lifeOK, keeps, closed
<1>5. CASE run.status = "RECOVERING" /\ next = applyRecoveryLapse(run)
  BY <1>1, <1>5 DEF applyRecoveryLapse, LogicalRuns, Statuses, lifeOK, keeps, closed
<1>6. CASE run.status = "TERMINAL" /\ next = markTerminalEffectsCompleted(run)
  BY <1>1, <1>6 DEF markTerminalEffectsCompleted, LogicalRuns, lifeOK, keeps, closed
<1>7. CASE run.status = "RECOVERING" /\ next = beginNextAttempt(run)
  BY <1>7, NextAttemptKeeps
<1> QED
  BY <1>2, <1>3, <1>4, <1>5, <1>6, <1>7, OutcomeKeeps, ClaimKeeps, BackgroundKeeps DEF Transition

LEMMA NewLife ==
  ASSUME NEW a \in AttemptIds, NEW t \in Tabs
  PROVE  lifeOK(createLogicalRun(a, t))
<1>1. createLogicalRun(a, t) \in LogicalRuns /\ createLogicalRun(a, t).cur = a
      /\ createLogicalRun(a, t).status = "PREPARING"
  BY CreatedRun
<1>2. /\ createLogicalRun(a, t).next = NoId
      /\ createLogicalRun(a, t).attempts = [[b \in AttemptIds |-> Absent] EXCEPT ![a] = Undecided]
  BY DEF createLogicalRun, NoRun
<1> QED
  BY <1>1, <1>2 DEF lifeOK, Absent, Undecided

\* The run was created and goes through its transitions.
starts(run) == \E a \in AttemptIds, t \in Tabs : run = createLogicalRun(a, t)

\* An outcome is decided once: whatever happens to the run between, the same outcome sent again
\* is answered as a repetition and another outcome of that attempt is refused
\* (applyAttemptOutcome: redelivery after a lost answer; every transition of the run).
THEOREM OutcomeDecidedOnce ==
  ASSUME NEW VARIABLE run, NEW a \in AttemptIds, NEW outcome \in Outcomes
  PROVE  starts(run) /\ [][Transition(run, run')]_run =>
           /\ [](run.attempts[a].decision # "none" /\ run.attempts[a].final = outcome
                 => [](/\ outcomeKind(run, a, outcome) = "replay"
                       /\ \A other \in Outcomes \ {outcome} :
                            outcomeKind(run, a, other) = "outcome_conflict"))
<1> DEFINE Step == Transition(run, run')
           Decided == run.attempts[a].decision # "none" /\ run.attempts[a].final = outcome
           Answers == /\ outcomeKind(run, a, outcome) = "replay"
                      /\ \A other \in Outcomes \ {outcome} :
                           outcomeKind(run, a, other) = "outcome_conflict"
           Life == lifeOK(run)
<1>1. starts(run) => Life
  BY NewLife DEF starts
<1>2. Life /\ [Step]_run => Life'
  BY TransitionKeeps
<1>3. Life /\ Decided /\ [Step]_run => Decided'
  BY TransitionKeeps DEF keeps
<1>4. Decided => Answers
  BY DEF outcomeKind, sameOutcome
<1> HIDE DEF Step, Decided, Answers, Life
<1>5. starts(run) /\ [][Step]_run => [](Decided => []Answers)
  BY <1>1, <1>2, <1>3, <1>4, PTL
<1> QED
  BY <1>5 DEF Step, Decided, Answers

\* A permission is granted once: from its being stored on no claim of its phase is acknowledged,
\* by any attempt for any form, and once the run has its stop marker or is over none of either
\* phase is, whatever happens to the run between (applyCompletionDispatchClaim,
\* requestCompletionStop; every transition of the run).
THEOREM ClaimGrantedOnce ==
  ASSUME NEW VARIABLE run
  PROVE  starts(run) /\ [][Transition(run, run')]_run =>
           /\ [](run.dispatch.fp # NoId => [](\A a, fp : claimKind(run, a, "outer", fp) # "ack"))
           /\ [](run.dispatch.pin => [](\A a, fp : claimKind(run, a, "pin", fp) # "ack"))
           /\ [](closed(run) => [](\A a, phase, fp : claimKind(run, a, phase, fp) # "ack"))
<1> DEFINE Step == Transition(run, run')
           Outer == run.dispatch.fp # NoId
           Pin == run.dispatch.pin
           Shut == closed(run)
           NoOuter == \A a, fp : claimKind(run, a, "outer", fp) # "ack"
           NoPin == \A a, fp : claimKind(run, a, "pin", fp) # "ack"
           NoClaim == \A a, phase, fp : claimKind(run, a, phase, fp) # "ack"
           Life == lifeOK(run)
<1>1. starts(run) => Life
  BY NewLife DEF starts
<1>2. Life /\ [Step]_run => Life'
  BY TransitionKeeps
<1>3. Life /\ Outer /\ [Step]_run => Outer'
  BY TransitionKeeps DEF keeps
<1>4. Life /\ Pin /\ [Step]_run => Pin'
  BY TransitionKeeps DEF keeps
<1>5. Life /\ Shut /\ [Step]_run => Shut'
  BY TransitionKeeps DEF keeps, closed
<1>6. (Outer => NoOuter) /\ (Pin => NoPin) /\ (Shut => NoClaim)
  BY DEF claimKind, closed
<1> HIDE DEF Step, Outer, Pin, Shut, NoOuter, NoPin, NoClaim, Life
<1>7. starts(run) /\ [][Step]_run =>
        [](Outer => []NoOuter) /\ [](Pin => []NoPin) /\ [](Shut => []NoClaim)
  BY <1>1, <1>2, <1>3, <1>4, <1>5, <1>6, PTL
<1> QED
  BY <1>7 DEF Step, Outer, Pin, Shut, NoOuter, NoPin, NoClaim
=============================================================================
