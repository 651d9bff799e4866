----------------------------- MODULE LogicalRun -----------------------------
(***************************************************************************)
(* The durable logical run and its pure transitions                        *)
(* (src/src/shared/run-control/logical-run.ts and policy.ts).              *)
(*                                                                         *)
(* A logical run is one reservation open-run.  It is a single storage key, *)
(* written as one value, so it is modelled as one record.  It groups up to *)
(* two attempts (a content script driving the page): the second one exists *)
(* when a stalled preparation was answered with RESET_PAGE.                *)
(*                                                                         *)
(* Timestamps are abstracted to "set / not set"; the two time comparisons  *)
(* of the policy are one Boolean, "early" (both msToOpen and msToStop are  *)
(* larger than RESET_MIN_LEAD_MS).  The logical run's own uuid is drawn    *)
(* together with its first attempt's, so the run is named after it.        *)
(***************************************************************************)
EXTENDS Naturals, FiniteSets

CONSTANTS AttemptIds,    \* uuids of attempts
          Tabs,          \* browser tabs
          Fingerprints,  \* hashes of the reservation form
          NoId,          \* no attempt, tab or fingerprint
          AutoEntry      \* config.entryMode = "auto"

ASSUME LogicalRunAssumption ==
  /\ NoId \notin AttemptIds
  /\ NoId \notin Tabs
  /\ NoId \notin Fingerprints
  /\ AutoEntry \in BOOLEAN

-----------------------------------------------------------------------------
(* Values *)

Statuses  == {"NONE", "PREPARING", "EXECUTING", "RECOVERING", "TERMINAL"}
Decisions == {"RESET_PAGE", "HANDOFF", "TERMINAL"}

\* An attempt's outcome.  PREP_STALLED and PREP_BLOCKED are the two classes of
\* { kind: "preparation_failed" }: a cause a page reset may cure, and one of
\* TERMINAL_CAUSES.  The others are { kind: "terminal" }.
PrepFailures   == {"PREP_STALLED", "PREP_BLOCKED"}
TerminalStates == {"DRY_RUN_COMPLETED", "HANDED_OFF", "COMPLETED", "STOPPED",
                   "TIMED_OUT", "FAILED"}
Outcomes       == PrepFailures \cup TerminalStates

\* The run state an outcome carries: a preparation failure is a hand-off.
stateOf(outcome) == IF outcome \in PrepFailures THEN "HANDED_OFF" ELSE outcome

AttemptRecord == [known : BOOLEAN, final : Outcomes \cup {"none"},
                  decision : Decisions \cup {"none"}]
Absent    == [known |-> FALSE, final |-> "none", decision |-> "none"]
Undecided == [known |-> TRUE,  final |-> "none", decision |-> "none"]

\* completionDispatch.  fp # NoId is the acknowledged outer claim; a stop marker
\* alone is [fp |-> NoId, pin |-> FALSE, stop |-> TRUE].
CompletionDispatch == [fp : Fingerprints \cup {NoId}, pin : BOOLEAN, stop : BOOLEAN]
NoDispatch == [fp |-> NoId, pin |-> FALSE, stop |-> FALSE]

\* next is recovery.nextAttemptId (NoId: no recovery intent; the intent's source is
\* always the current attempt) and dispatched is recovery.dispatchedAt.
LogicalRuns ==
  [id : AttemptIds \cup {NoId}, tab : Tabs \cup {NoId}, status : Statuses,
   resetCount : Nat, cur : AttemptIds \cup {NoId},
   attempts : [AttemptIds -> AttemptRecord],
   next : AttemptIds \cup {NoId}, dispatched : BOOLEAN,
   effectsDone : BOOLEAN, dispatch : CompletionDispatch]

NoRun == [id |-> NoId, tab |-> NoId, status |-> "NONE", resetCount |-> 0,
          cur |-> NoId, attempts |-> [a \in AttemptIds |-> Absent],
          next |-> NoId, dispatched |-> FALSE, effectsDone |-> FALSE,
          dispatch |-> NoDispatch]

-----------------------------------------------------------------------------
(* Recovery policy *)

\* Mutant: the reset budget is not looked at.
decideUnlimited(outcome, resetCount, early) ==
  IF outcome = "PREP_STALLED" /\ AutoEntry /\ early THEN "RESET_PAGE" ELSE "HANDOFF"

\* RESET_PAGE only for a curable cause, in auto entry, once per run and early enough.
decide(outcome, resetCount, early) ==
  IF outcome = "PREP_STALLED" /\ AutoEntry /\ resetCount = 0 /\ early
  THEN "RESET_PAGE" ELSE "HANDOFF"

-----------------------------------------------------------------------------
(* Transitions *)

createLogicalRun(a, t) ==
  [NoRun EXCEPT !.id = a, !.tab = t, !.status = "PREPARING", !.cur = a,
                !.attempts[a] = Undecided]

finishedRecord(record, outcome, decision) ==
  [record EXCEPT !.final = outcome, !.decision = decision]

sameOutcome(record, outcome) == record.final = outcome

\* What to do with the outcome of the current, undecided attempt.
outcomeDecision(run, outcome, early) ==
  IF run.status = "TERMINAL" \/ outcome \in TerminalStates THEN "TERMINAL"
  ELSE IF run.status = "PREPARING" THEN decide(outcome, run.resetCount, early)
  ELSE "HANDOFF"

\* Mutant: an attempt that was decided before is decided again.
outcomeKindAgain(run, a, outcome) ==
  IF a # run.cur \/ ~run.attempts[a].known THEN "stale_attempt" ELSE "ack"

\* The reaction to ATTEMPT_FINISHED: the record of the attempt comes first (replay
\* or conflict), only then staleness.
outcomeKind(run, a, outcome) ==
  LET record == run.attempts[a] IN
  IF record.decision # "none"
  THEN IF sameOutcome(record, outcome) THEN "replay" ELSE "outcome_conflict"
  ELSE IF a # run.cur \/ ~record.known THEN "stale_attempt"
  ELSE "ack"

\* The run after an acknowledged outcome; next is the pre-drawn id of a retry.
applyAttemptOutcome(run, a, outcome, early, next) ==
  LET decision == outcomeDecision(run, outcome, early)
      recorded == [run EXCEPT !.attempts[a] = finishedRecord(@, outcome, decision)]
  IN IF decision = "RESET_PAGE"
     THEN [recorded EXCEPT !.status = "RECOVERING", !.resetCount = @ + 1,
                           !.next = next, !.dispatched = FALSE]
     ELSE [recorded EXCEPT !.status = "TERMINAL"]

\* PREPARING to EXECUTING is the only phase change that is ever stored.
phaseAccepted(run, a, phase) ==
  /\ a = run.cur
  /\ run.attempts[a].known
  /\ run.attempts[a].decision = "none"
  /\ run.status = "PREPARING"
  /\ phase = "EXECUTING"

applyPhaseChange(run, a, phase) ==
  IF phaseAccepted(run, a, phase) THEN [run EXCEPT !.status = "EXECUTING"] ELSE run

beginNextAttempt(run) ==
  [run EXCEPT !.status = "PREPARING", !.cur = run.next,
              !.attempts[run.next] = Undecided,
              !.next = NoId, !.dispatched = FALSE]

markRecoveryDispatched(run) == [run EXCEPT !.dispatched = TRUE]

applyRecoveryLapse(run) ==
  [run EXCEPT !.status = "TERMINAL", !.next = NoId, !.dispatched = FALSE]

\* Mutant: background termination decides, whatever was decided before.
applyBackgroundTerminalForced(run, state) ==
  [run EXCEPT !.status = "TERMINAL", !.next = NoId, !.dispatched = FALSE,
              !.attempts[run.cur].final = state, !.attempts[run.cur].decision = "TERMINAL"]

\* Background termination stamps the final state only on an undecided attempt and
\* never a decision, so that a late outcome of the content is still accepted.
applyBackgroundTerminal(run, state) ==
  [run EXCEPT !.status = "TERMINAL", !.next = NoId, !.dispatched = FALSE,
              !.attempts[run.cur] =
                 IF @.decision = "none" THEN [@ EXCEPT !.final = state] ELSE @]

markTerminalEffectsCompleted(run) == [run EXCEPT !.effectsDone = TRUE]

-----------------------------------------------------------------------------
(* Completion dispatch claims *)

isAcknowledgedCompletionClaim(run) == run.dispatch.fp # NoId

requestCompletionStop(run) == [run EXCEPT !.dispatch.stop = TRUE]

\* Mutant: the stop marker is not looked at.
claimKindUnstopped(run, a, phase, fp) ==
  IF a # run.cur \/ run.status # "EXECUTING" THEN "stale_attempt"
  ELSE IF phase = "pin" THEN IF run.dispatch.fp # fp THEN "fingerprint_mismatch" ELSE "ack"
  ELSE IF run.dispatch.fp = NoId THEN "ack" ELSE "replay"

\* "ack" is a newly stored permission, "replay" a permission stored before, any
\* other answer a refusal.
claimKind(run, a, phase, fp) ==
  IF a # run.cur \/ run.status # "EXECUTING" THEN "stale_attempt"
  ELSE IF run.dispatch.stop THEN "stop_requested"
  ELSE IF phase = "pin"
       THEN IF run.dispatch.fp = NoId THEN "phase_order"
            ELSE IF run.dispatch.fp # fp THEN "fingerprint_mismatch"
            ELSE IF run.dispatch.pin THEN "replay" ELSE "ack"
  ELSE IF run.dispatch.pin THEN "phase_order"
  ELSE IF run.dispatch.fp = NoId THEN "ack"
  ELSE IF run.dispatch.fp = fp THEN "replay" ELSE "fingerprint_mismatch"

\* Mutant: the PIN permission is granted without being recorded.
applyCompletionDispatchClaimOuter(run, phase, fp) ==
  IF phase = "pin" THEN run ELSE [run EXCEPT !.dispatch.fp = fp]

applyCompletionDispatchClaim(run, phase, fp) ==
  IF phase = "pin" THEN [run EXCEPT !.dispatch.pin = TRUE]
  ELSE [run EXCEPT !.dispatch.fp = fp]
-----------------------------------------------------------------------------
(* The life of a run: what its caller applies to it, and when (RunSupervisor) *)

\* A new attempt has an id the run does not know.
outcomeApplied(run, next) ==
  \E a \in AttemptIds, outcome \in Outcomes, early \in BOOLEAN : \E id :
    /\ outcomeKind(run, a, outcome) = "ack"
    /\ next = applyAttemptOutcome(run, a, outcome, early, id)
    /\ next.status = "RECOVERING" => id \in AttemptIds /\ ~run.attempts[id].known

claimApplied(run, next) ==
  \E a \in AttemptIds, phase \in {"outer", "pin"}, fp \in Fingerprints :
    /\ claimKind(run, a, phase, fp) = "ack"
    /\ next = applyCompletionDispatchClaim(run, phase, fp)

\* The background ends a run from the stop marker its task has read.
backgroundEnded(run, next) ==
  /\ run.status \in {"PREPARING", "EXECUTING", "RECOVERING"}
  /\ \E state \in TerminalStates, stop \in BOOLEAN :
       next = [applyBackgroundTerminal(run, state) EXCEPT !.dispatch.stop = stop]

Transition(run, next) ==
  \/ outcomeApplied(run, next)
  \/ \E a \in AttemptIds, phase \in {"PREPARING", "EXECUTING"} :
       next = applyPhaseChange(run, a, phase)
  \/ claimApplied(run, next)
  \/ next = requestCompletionStop(run)
  \/ backgroundEnded(run, next)
  \/ /\ run.status = "RECOVERING"
     /\ next \in {markRecoveryDispatched(run), applyRecoveryLapse(run), beginNextAttempt(run)}
  \/ run.status = "TERMINAL" /\ next = markTerminalEffectsCompleted(run)
=============================================================================
