------------------------- MODULE CompletionDispatch -------------------------
(***************************************************************************)
(* The completion flow of one attempt: the CompletionCoordinator in the    *)
(* page, the reservation form it drives, the background that stores a      *)
(* permission before each irreversible press (completionDispatch of the    *)
(* logical run), and what may happen between them: the site re-renders,    *)
(* the user stops, time passes, the worker dies with a request or with an  *)
(* answer in flight.                                                       *)
(*                                                                         *)
(* A fingerprint stands for the form it is the hash of, so the facts read  *)
(* from a ready form are a function of it (Facts), and so is the claim's   *)
(* fingerprint, which hashes the form's together with the amount.          *)
(***************************************************************************)
EXTENDS LogicalRun

CONSTANTS Attempt,    \* the attempt that runs this flow
          Facts,      \* Fingerprints -> the facts of a ready form
          PinLength,  \* digits of the one-shot PIN
          MaxRounds   \* rounds of required-input handling (32 in the code)

ASSUME CompletionAssumption ==
  /\ Attempt \in AttemptIds
  /\ Facts \in [Fingerprints -> [amount : Nat, empty : Nat, unchecked : Nat, optional : Nat]]
  /\ PinLength \in Nat \ {0} /\ MaxRounds \in Nat

VARIABLES
  lr,         \* storage.logicalRun
  form,       \* the page as ReservationFormAdapter.inspect sees it now
  pc,         \* the await the coordinator is in
  rounds,     \* rounds of the required-input loop
  seen,       \* fingerprint of the inspection the coordinator acts on
  optional,   \* optionalBaseline
  digits,     \* PIN digits typed
  secret,     \* who holds the one-shot PIN: the page's vault, run(), the typing of it
  call,       \* the claim on its way to the background: its phase
  reply,      \* its answer
  stopping,   \* a STOP is on its way to the page
  abort,      \* signal.aborted
  expired,    \* now >= stopAtMs
  late,       \* the 15 s of the current stage are over
  submitted,  \* phases whose button was pressed
  result      \* what run() returned

background == <<lr, call>>
control    == <<stopping, abort>>
time       == <<expired, late>>
flow       == <<pc, rounds, seen, optional, digits, secret, reply, submitted, result>>
vars == <<background, form, control, time, flow>>

-----------------------------------------------------------------------------
(* Values *)

Phases == {"outer", "pin"}
Results == {"completed", "handed_off", "stopped", "timed_out"}
Holders == {"vault", "run", "typing"}
Awaits == {"begin", "loop", "settle", "outer", "watch", "digits", "pin", "observe", "done"}

\* keypad is the unsupported PIN surface; other stands for every inspection the flow
\* only hands off at (login, expired hold, ambiguous or mismatching form).  Below the
\* PIN surface lies a form the site accepted; only its amount is ever looked at.
\* matched: the success evidence, or the payment context below the PIN surface, is
\* complete; inner: the PIN surface's submit button is enabled.
Shown(kinds, fps, matched, inner) ==
  [kind : kinds, fp : fps, matched : matched, inner : inner]
accepted == {fp \in Fingerprints : Facts[fp].empty = 0 /\ Facts[fp].unchecked = 0}
Forms == Shown({"ready", "other"}, Fingerprints, {FALSE}, {FALSE})
           \cup Shown({"pin"}, accepted, BOOLEAN, BOOLEAN)
           \cup Shown({"keypad"}, {NoId}, {FALSE}, {FALSE})
           \cup Shown({"success"}, {NoId}, BOOLEAN, {FALSE})

facts == Facts[form.fp]
successful == form.kind = "success" /\ form.matched

\* Mutant: the amount below the PIN surface is not compared.
contextMatchesAnyAmount == form.kind = "pin" /\ form.matched

\* paymentContextMatchesBelowPin for the amount the form was submitted with.
contextMatches == form.kind = "pin" /\ form.matched /\ facts.amount = Facts[seen].amount

Init ==
  /\ \E t \in Tabs, status \in {"PREPARING", "EXECUTING"} :
       lr = [createLogicalRun(Attempt, t) EXCEPT !.status = status]
  /\ form \in Forms
  /\ pc = "begin" /\ rounds = 0 /\ digits = 0
  /\ seen = NoId /\ optional = 0
  /\ secret \in SUBSET {"vault"}
  /\ call = "none" /\ reply = "none"
  /\ stopping = FALSE /\ abort = FALSE /\ expired = FALSE /\ late = FALSE
  /\ submitted = {} /\ result = "none"

-----------------------------------------------------------------------------
(* The coordinator.  An action runs from one await to the next. *)

\* Mutant: the PIN survives the return.
returnKeeping(r) ==
  /\ result' = r /\ pc' = "done" /\ reply' = "none"
  /\ UNCHANGED <<rounds, seen, optional, digits, secret, submitted>>

\* run() returns: its finally blocks forget what it took.  A PIN it never took stays
\* with the orchestrator, whose own finally block disposes of it.
return(r) ==
  /\ result' = r /\ pc' = "done" /\ secret' = secret \cap {"vault"} /\ reply' = "none"
  /\ UNCHANGED <<rounds, seen, optional, digits, submitted>>

environment == <<lr, form, control>>
still == UNCHANGED <<environment, call, time>>

\* The form must be ready; of a free reservation the PIN is thrown away at once.
Begin ==
  /\ pc = "begin"
  /\ IF expired THEN return("timed_out")
     ELSE IF form.kind # "ready" THEN return("handed_off")
     ELSE /\ pc' = "loop" /\ optional' = facts.optional
          /\ secret' = IF facts.amount = 0 THEN {} ELSE secret
          /\ UNCHANGED <<rounds, seen, digits, reply, submitted, result>>
  /\ still

\* The round may go on: not stopped, not expired, the form still the one examined.
undisturbed == ~abort /\ ~expired /\ form.kind = "ready" /\ facts.optional = optional

LoopInterrupted ==
  /\ pc = "loop" /\ ~(undisturbed /\ rounds < MaxRounds)
  /\ return(IF rounds = MaxRounds THEN "handed_off"
            ELSE IF abort THEN "stopped" ELSE IF expired THEN "timed_out" ELSE "handed_off")
  /\ still

\* An empty required input is filled in; the site may render anything in answer.
LoopFill ==
  /\ pc = "loop" /\ undisturbed /\ rounds < MaxRounds
  /\ facts.empty > 0
  /\ \/ return("handed_off") /\ UNCHANGED form
     \/ /\ rounds' = rounds + 1
        /\ form' \in Forms
        /\ UNCHANGED <<pc, seen, optional, digits, secret, reply, submitted, result>>
  /\ UNCHANGED <<lr, call, control, time>>

\* A required agreement is clicked and given time to settle.
LoopAgree ==
  /\ pc = "loop" /\ undisturbed /\ rounds < MaxRounds
  /\ facts.empty = 0 /\ facts.unchecked > 0
  /\ \/ return("handed_off") /\ UNCHANGED form
     \/ /\ pc' = "settle" /\ seen' = form.fp
        /\ form' \in Forms
        /\ UNCHANGED <<rounds, optional, digits, secret, reply, submitted, result>>
  /\ UNCHANGED <<lr, call, control, time>>

LoopSettled ==
  /\ pc = "settle"
  /\ IF abort THEN return("stopped")
     ELSE IF /\ form.kind = "ready" /\ facts.optional = optional
             /\ facts.unchecked < Facts[seen].unchecked
     THEN /\ pc' = "loop" /\ rounds' = rounds + 1
          /\ UNCHANGED <<seen, optional, digits, secret, reply, submitted, result>>
     ELSE return("handed_off")
  /\ still

\* Nothing is left to fill in: ask for the permission, with the PIN of a paid form.
LoopClaim ==
  /\ pc = "loop" /\ undisturbed /\ rounds < MaxRounds
  /\ facts.empty = 0 /\ facts.unchecked = 0
  /\ IF facts.amount > 0 /\ "vault" \notin secret
     THEN return("handed_off") /\ UNCHANGED call
     ELSE /\ pc' = "outer" /\ seen' = form.fp /\ call' = "outer"
          /\ secret' = IF facts.amount > 0 THEN {"run"} ELSE secret
          /\ UNCHANGED <<rounds, optional, digits, reply, submitted, result>>
  /\ UNCHANGED <<environment, time>>

\* submitOuter compares the fingerprint, which covers neither the hold nor a login gate.
submittable == form.kind \in {"ready", "other"} /\ form.fp = seen

\* A granted claim is used if the form is still the one claimed; neither the abort
\* signal nor the clock is looked at again.  A paid form's PIN is handed to completePin.
OuterClaimed ==
  /\ pc = "outer" /\ reply # "none"
  /\ IF reply = "granted" /\ submittable
     THEN /\ submitted' = submitted \cup {"outer"}
          /\ IF Facts[seen].amount = 0 THEN pc' = "observe" /\ UNCHANGED secret
             ELSE pc' = "watch" /\ secret' = secret \cup {"typing"}
          /\ reply' = "none" /\ late' = FALSE
          /\ UNCHANGED <<rounds, seen, optional, digits, result>>
     ELSE return("handed_off") /\ UNCHANGED late
  /\ UNCHANGED <<environment, call, expired>>

\* completePin waits for the PIN surface, types the first digit ...
Watch ==
  /\ pc = "watch"
  /\ \/ /\ abort \/ late \/ form.kind = "keypad" \/ (form.kind = "pin" /\ ~contextMatches)
        /\ return("handed_off")
     \/ ~abort /\ ~late /\ successful /\ return("completed")
     \/ /\ ~abort /\ ~late /\ contextMatches
        /\ pc' = "digits" /\ digits' = 1
        /\ UNCHANGED <<rounds, seen, optional, secret, reply, submitted, result>>
  /\ still

\* Mutant: one digit too many is typed.
DigitOver ==
  /\ pc = "digits" /\ digits <= PinLength
  /\ IF abort \/ late \/ ~contextMatches THEN return("handed_off")
     ELSE /\ digits' = digits + 1
          /\ UNCHANGED <<pc, rounds, seen, optional, secret, reply, submitted, result>>
  /\ still

\* ... and the others, each after a pause.
Digit ==
  /\ pc = "digits" /\ digits < PinLength
  /\ IF abort \/ late \/ ~contextMatches THEN return("handed_off")
     ELSE /\ digits' = digits + 1
          /\ UNCHANGED <<pc, rounds, seen, optional, secret, reply, submitted, result>>
  /\ still

\* All digits are typed and completePin's copies dropped before the claim is sent.
PinClaim ==
  /\ pc = "digits" /\ digits = PinLength
  /\ IF abort \/ late \/ ~contextMatches \/ ~form.inner
     THEN return("handed_off") /\ UNCHANGED call
     ELSE /\ pc' = "pin" /\ call' = "pin" /\ secret' = secret \ {"typing"}
          /\ UNCHANGED <<rounds, seen, optional, digits, reply, submitted, result>>
  /\ UNCHANGED <<environment, time>>

PinClaimed ==
  /\ pc = "pin" /\ reply # "none"
  /\ IF reply = "granted" /\ contextMatches /\ form.inner
     THEN /\ submitted' = submitted \cup {"pin"}
          /\ pc' = "observe" /\ reply' = "none" /\ late' = FALSE
          /\ UNCHANGED <<rounds, seen, optional, digits, secret, result>>
     ELSE return("handed_off") /\ UNCHANGED late
  /\ UNCHANGED <<environment, call, expired>>

\* Mutant: the result is waited for without a limit.
ObserveForever ==
  /\ pc = "observe"
  /\ \/ abort /\ return("handed_off")
     \/ ~abort /\ successful /\ return("completed")
  /\ still

\* observeSuccess: only reads.
Observe ==
  /\ pc = "observe"
  /\ \/ (abort \/ late) /\ return("handed_off")
     \/ ~abort /\ ~late /\ successful /\ return("completed")
  /\ still

\* After the first claim anything may fail: no button or no key to press, another PIN
\* surface, an exception in the adapter.  It is caught and never tried again.
GiveUp ==
  /\ pc \in {"outer", "watch", "digits", "pin", "observe"}
  /\ pc \in Phases => reply = "granted"
  /\ return("handed_off")
  /\ still

-----------------------------------------------------------------------------
(* The background: claims, stop, phase and end of the run *)

\* Stored before it is granted; a replay or a rejection is no permission.
HandleClaim ==
  /\ call # "none"
  /\ IF claimKind(lr, Attempt, call, seen) = "ack"
     THEN lr' = applyCompletionDispatchClaim(lr, call, seen) /\ reply' = "granted"
     ELSE reply' = "refused" /\ UNCHANGED lr
  /\ call' = "none"
  /\ UNCHANGED <<form, control, time, pc, rounds, seen, optional, digits, secret,
                 submitted, result>>

\* The worker dies with the request, or after the write with the answer.
LoseCall ==
  /\ call # "none"
  /\ call' = "none" /\ reply' = "refused"
  /\ UNCHANGED <<environment, time, pc, rounds, seen, optional, digits, secret, submitted, result>>

LoseReply ==
  /\ reply = "granted" /\ reply' = "refused"
  /\ UNCHANGED <<environment, call, time, pc, rounds, seen, optional, digits, secret,
                 submitted, result>>

\* ATTEMPT_PHASE_CHANGED(EXECUTING), sent long before, is processed.
PhaseArrives ==
  /\ result = "none" /\ lr.status = "PREPARING"
  /\ lr' = applyPhaseChange(lr, Attempt, "EXECUTING")
  /\ UNCHANGED <<form, call, control, time, flow>>

\* stop: after an acknowledged claim it is recorded and the page is left alone.
Stop ==
  /\ lr' = IF isAcknowledgedCompletionClaim(lr) \/ lr.status = "EXECUTING"
           THEN requestCompletionStop(lr) ELSE lr
  /\ stopping' = (stopping \/ ~isAcknowledgedCompletionClaim(lr))
  /\ UNCHANGED <<form, call, abort, time, flow>>

DeliverStop ==
  /\ stopping
  /\ stopping' = FALSE /\ abort' = TRUE
  /\ UNCHANGED <<background, form, time, flow>>

\* The supervisor ends the run on its own (tab, URL, lost context).
BackgroundEnds ==
  /\ result = "none" /\ lr.status # "TERMINAL"
  /\ \E state \in {"STOPPED", "FAILED", "HANDED_OFF"} : lr' = applyBackgroundTerminal(lr, state)
  /\ UNCHANGED <<form, call, control, time, flow>>

-----------------------------------------------------------------------------
(* The site and the clock *)

SiteRenders ==
  /\ result = "none" /\ form' \in Forms
  /\ UNCHANGED <<background, control, time, flow>>

Expire ==
  /\ result = "none" /\ ~expired /\ expired' = TRUE
  /\ UNCHANGED <<background, form, control, late, flow>>

StageTimeout ==
  /\ pc \in {"watch", "digits", "observe"} /\ ~late
  /\ late' = TRUE
  /\ UNCHANGED <<background, form, control, expired, flow>>

-----------------------------------------------------------------------------
(* Specification *)

Coordinator ==
  \/ Begin \/ LoopInterrupted \/ LoopFill \/ LoopAgree \/ LoopSettled \/ LoopClaim
  \/ OuterClaimed \/ Watch \/ Digit \/ PinClaim \/ PinClaimed \/ Observe

Background ==
  HandleClaim \/ LoseCall \/ LoseReply \/ PhaseArrives \/ Stop \/ DeliverStop \/ BackgroundEnds

Next == Coordinator \/ GiveUp \/ Background \/ SiteRenders \/ Expire \/ StageTimeout

Spec == Init /\ [][Next]_vars

\* A worker that got a claim answers it or dies, the clock reaches every deadline, and
\* the coordinator goes on when what it waits for is there.  Failures are not assumed.
FairSpec ==
  /\ Spec
  /\ WF_vars(Coordinator) /\ WF_vars(HandleClaim \/ LoseCall) /\ WF_vars(StageTimeout)

-----------------------------------------------------------------------------
(* Properties *)

\* Every variable has its type.
TypeOK ==
  /\ lr \in LogicalRuns /\ form \in Forms
  /\ pc \in Awaits /\ rounds \in 0..MaxRounds /\ digits \in 0..PinLength /\ optional \in Nat
  /\ seen \in Fingerprints \cup {NoId}
  /\ secret \subseteq Holders
  /\ call \in Phases \cup {"none"} /\ reply \in {"none", "granted", "refused"}
  /\ stopping \in BOOLEAN /\ abort \in BOOLEAN /\ expired \in BOOLEAN /\ late \in BOOLEAN
  /\ submitted \subseteq Phases /\ result \in Results \cup {"none"}

permitted == {p \in Phases : IF p = "outer" THEN isAcknowledgedCompletionClaim(lr)
                             ELSE lr.dispatch.pin}

Authority == INSTANCE DispatchAuthority
  WITH First <- "outer", dispatched <- submitted, outcome <- result,
       revoked <- lr.dispatch.stop \/ lr.status = "TERMINAL"

\* The flow keeps the promise of DispatchAuthority: a press is made at most once, on a
\* permission stored while neither a stop marker was stored nor the run had ended, and a
\* stop or a timeout is never told after a permission was stored (CompletionCoordinator.run,
\* onCompletionDispatchClaim).  A stop that stores no marker is no revocation: see
\* StopRefusesClaims in RunSupervisor.
RefinesAuthority == Authority!Spec

\* What is pressed is what was claimed: the form has the claimed fingerprint, the PIN
\* surface lies over a form of the claimed amount (submitOuter,
\* paymentContextMatchesBelowPin).
PressMatchesClaim ==
  [][/\ "outer" \in submitted' \ submitted => form.fp = lr.dispatch.fp
     /\ "pin" \in submitted' \ submitted =>
          /\ facts.amount = Facts[lr.dispatch.fp].amount
          /\ facts.amount > 0 /\ digits = PinLength]_vars

\* The stored permissions and the position of the flow never disagree, although they
\* live in two processes and the worker between them may die: a request is one the
\* record does not hold yet, a granted answer one it holds, and what was pressed is
\* recorded (onCompletionDispatchClaim, CompletionCoordinator).
FlowMatchesRecord ==
  /\ result # "none" <=> pc = "done"
  /\ call # "none" \/ reply # "none" => pc \in Phases
  /\ call # "none" => call = pc /\ reply = "none" /\ call \notin permitted
  /\ reply = "granted" => pc \in permitted
  /\ submitted \subseteq permitted
  /\ lr.dispatch.pin => "outer" \in submitted
  /\ pc \in {"begin", "loop", "settle"} => permitted = {}
  /\ pc \in {"begin", "loop", "settle", "outer"} => submitted = {}
  /\ pc \in {"outer", "watch", "digits", "pin"} =>
       seen \in Fingerprints /\ lr.dispatch.fp \in {seen, NoId}
  /\ pc \in {"watch", "digits"} => permitted = {"outer"}
  /\ pc \in {"watch", "digits", "pin"} => submitted = {"outer"} /\ Facts[seen].amount > 0
  /\ pc = "settle" => rounds < MaxRounds
  /\ pc = "pin" => digits = PinLength
  /\ pc = "observe" => "outer" \in submitted

\* Nobody holds the PIN longer than its use.  It is taken from the vault only by the
\* submission of a paid form; completePin's copies are gone when its own press is
\* claimed, that of run() when the flow returns, and what is left afterwards is at most
\* the PIN that was never taken (takePin, completePin, the finally block of run()).
SecretIsShortLived ==
  /\ "vault" \in secret => secret = {"vault"}
  /\ "run" \in secret <=> /\ pc \in {"outer", "watch", "digits", "pin", "observe"}
                          /\ Facts[seen].amount > 0
  /\ "typing" \in secret <=> pc \in {"watch", "digits"}

\* The flow returns, whatever the site shows (RESULT_TIMEOUT_MS,
\* PIN_APPEARANCE_TIMEOUT_MS, the limit of 32 rounds).
CompletionEnds == <>(result # "none")
=============================================================================
