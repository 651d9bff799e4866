------------------------------ MODULE OpenRun ------------------------------
(***************************************************************************)
(* One attempt in the page: RunKernel.execute around RunSession's steps,   *)
(* from the validation over the preparation, the wait for the opening and  *)
(* the toggling of dates until a slot is found and clicked, the pages      *)
(* behind it and the completion, up to the terminal state and cleanup      *)
(* (src/src/content/orchestrator.ts, flow/open-run-hot-path.ts).           *)
(*                                                                         *)
(* The page has one thread.  An action is what the flow does from one      *)
(* await to the next: a poll, or the handler of a message; what the page   *)
(* shows at a poll is chosen anew.  A few synchronous passages are split   *)
(* in two actions (at "search", "transition" and "advance"); there the     *)
(* second action sees a deadline that passes in between, and nothing else  *)
(* that the code could not.                                                *)
(*                                                                         *)
(* Time is a set of deadlines that pass in any order: late is stopAtMs,    *)
(* wait the deadline of the wait the flow is in, and the others are named  *)
(* for what they bound.                                                    *)
(***************************************************************************)
EXTENDS RunStates, PreparationStep, PostSlot, AvailabilityWake

CONSTANTS Configs,      \* the reservation configurations, records of Config
          MaxCycles,    \* toggle cycles are not begun beyond this
          MaxRequests   \* slot-list requests the site sends during a run

Config == [auto : BOOLEAN,        \* entryMode is auto: the page is prepared
           dryRun : BOOLEAN,
           probe : {"off", "observe", "empty_exit"},  \* observe: answers wake the scanning;
                                  \* empty_exit: an empty one also ends a toggle cycle
           postSlot : BOOLEAN, completion : BOOLEAN,
           payAuto : BOOLEAN, zeroOnly : BOOLEAN]

ASSUME ConfigsAssumption == Configs \subseteq Config
ASSUME BoundsAssumption == MaxCycles \in Nat \ {0} /\ MaxRequests \in Nat

VARIABLES
  config,
  state, pc, threw,             \* RunStateMachine; where the flow waits; it ended by throwing
  abort, late, timer,
  step, pressed, cause,         \* the preparation step, presses of its control, its failure
  cycle, result,                \* the toggle cycle, and what was traced of the last one
  wake, signal, tracker,        \* AvailabilityDomWake, the signal in hand, the correlation
  known, requests, mail,        \* the probe's markers and requests; messages between worlds
  pin, resources,               \* the one-shot PIN; watches and listeners that are on
  executing, slotClicks, claim, \* what was told to the supervisor, and the irreversible steps
  held, dismissed, agreed       \* the page just inspected; the notice; payments agreed to

ending == <<state, pc, threw>>
world == <<known, requests, mail>>
hot == <<cycle, result, wake, signal, tracker>>
preparing == <<step, pressed>>
behind == <<held, dismissed>>
owned == <<pin, resources>>
done == <<cause, executing, slotClicks, claim, agreed>>
vars == <<config, ending, abort, late, timer, world, hot, preparing, behind, owned, done>>

Timers == {"wait", "body", "grace"}
AllOff == [t \in Timers |-> "off"]
Waiting == [AllOff EXCEPT !.wait = "set"]

NoRequest == [win |-> {}, marker |-> 0, pending |-> FALSE, body |-> "none"]
NoStep == [begin("entry", "off") EXCEPT !.discovery = "off"]

Init ==
  /\ config \in Configs
  /\ state = "IDLE" /\ pc = "start" /\ threw = FALSE
  /\ abort = FALSE /\ late = FALSE /\ timer = AllOff
  /\ step = NoStep /\ pressed = 0 /\ cause = "none"
  /\ cycle = 0 /\ result = "none" /\ wake = NoWake /\ signal = NoSignal
  /\ tracker = [c \in 1..MaxCycles |-> 0]
  /\ known = {} /\ requests = <<>> /\ mail = <<>>
  /\ pin = (IF config.completion THEN "held" ELSE "none") /\ resources = {}
  /\ executing = FALSE /\ slotClicks = 0 /\ claim = "none"
  /\ held = "none" /\ dismissed = FALSE /\ agreed = {}

-----------------------------------------------------------------------------
(* The envelope of a run *)

\* Mutant: the watches are stopped one after the other without a guard of their own.
leftoverUnguarded(on, failing) ==
  IF failing = "shadow" THEN on \ {"clock"}
  ELSE on \cap IF failing = "slotWatch" THEN {failing, "mutation"} ELSE {failing}

\* cleanup and stopReferenceClock: what stays on when the stop of one of them fails.
leftover(on, failing) == on \cap {failing}

\* finally: the PIN first, then the flow's resources, then the flush.  What the page and
\* the probe do for a run that has ended is not followed any further.
Finally ==
  /\ pc' = "flush"
  /\ pin' = IF pin = "held" THEN "gone" ELSE pin
  /\ \E failing \in resources \cup {"none"} : resources' = leftover(resources, failing)
  /\ wake' = NoWake /\ signal' = NoSignal
  /\ timer' = AllOff /\ step' = NoStep /\ pressed' = 0
  /\ cycle' = 0 /\ result' = "none" /\ tracker' = [c \in 1..MaxCycles |-> 0]
  /\ known' = {} /\ requests' = <<>> /\ mail' = <<>>
  /\ held' = "none" /\ dismissed' = FALSE

\* catch: FAILED unless the state is terminal or has no way there; then execute rejects.
Catch(at) ==
  /\ state' = IF mayTransition(config.dryRun, at, "FAILED") THEN "FAILED" ELSE at
  /\ threw' = TRUE
  /\ Finally

\* The flow ends by these last transitions.
EndBy(path) ==
  LET at == walk(config.dryRun, state, path) IN
  /\ IF at.ok THEN state' = at.state /\ threw' = FALSE /\ Finally ELSE Catch(at.state)
  /\ UNCHANGED <<config, abort, late, executing, slotClicks, claim, agreed>>

End(path) == EndBy(path) /\ UNCHANGED cause
EndAs(to) == End(<<to>>)

\* The flow makes these transitions and goes on.
Go(path, next) ==
  /\ walk(config.dryRun, state, path).ok
  /\ state' = walk(config.dryRun, state, path).state
  /\ pc' = next
  /\ UNCHANGED <<config, threw, abort, late>>

Stay(next) == Go(<<>>, next)

\* RunSession.start, CONFIGURED, validate and SYNCING_CLOCK up to the first sample.
Start ==
  /\ pc = "start"
  /\ \/ /\ resources' = {"slotWatch"} \cup (IF config.probe = "off" THEN {} ELSE {"shadow"})
        /\ Go(<<"CONFIGURED", "VALIDATING", "SYNCING_CLOCK">>, "sync")
        /\ UNCHANGED <<timer, world, hot, preparing, behind, done, pin>>
     \/ /\ Catch(state)                                       \* slotWatch.start throws
        /\ UNCHANGED <<config, abort, late, done>>
     \/ End(<<"CONFIGURED", "VALIDATING", "FAILED">>)         \* errors in the configuration

\* syncInitialClock after its sample, and the first transition behind it.
Synced ==
  /\ pc = "sync"
  /\ IF abort THEN EndAs("STOPPED")
     ELSE /\ resources' = resources \cup {"clock"}
          /\ IF config.auto
             THEN /\ Go(<<"ENTERING_RESERVATION">>, "prepare")
                  /\ step' = begin("entry", "off")
             ELSE Stay("confirm") /\ UNCHANGED step
          /\ UNCHANGED <<pressed, timer, world, hot, behind, done, pin>>

\* The step that follows a ready one: prepareDate and preparePerson, the calendar
\* coordinator, or confirmPageReady.
Prepared ==
  /\ CASE step.stage = "entry" ->
            Go(<<"SELECTING_DATE">>, "prepare") /\ step' = begin("month", "set")
       [] step.stage = "month" -> Stay("prepare") /\ step' = follow(step, "date")
       [] step.stage = "date" ->
            Go(<<"SELECTING_PERSON">>, "prepare") /\ step' = begin("person", "off")
       [] step.stage = "person" -> Stay("confirm") /\ step' = NoStep
  /\ pressed' = 0
  /\ UNCHANGED <<timer, world, hot, behind, owned, done>>

\* One poll of runPreparationStep.
Prepare ==
  /\ pc = "prepare"
  /\ IF abort THEN EndAs("STOPPED")
     ELSE IF late THEN EndAs("TIMED_OUT")
     ELSE \E f \in factsOf(step.stage) :
       LET seen == poll(step, f)
           presses == IF specOf(step.stage, f).press \in seen.press /\ spec[step.stage].confirm
                      THEN pressed + 1 ELSE pressed
       IN CASE seen.kind = "ready" -> Prepared
            [] seen.kind = "failed" -> EndBy(<<"HANDED_OFF">>) /\ cause' = seen.cause
            [] seen.kind = "interrupted" /\ step.overall = "due" ->
                 EndBy(<<"HANDED_OFF">>) /\ cause' = "DATE_SELECTION_STALLED"
            [] OTHER ->
                 /\ Stay("prepare")
                 /\ IF seen.kind = "interrupted"
                    THEN step' = follow(step, "month") /\ pressed' = 0
                    ELSE step' = seen.step /\ pressed' = presses
                 /\ UNCHANGED <<timer, world, hot, behind, owned, done>>

\* Mutant: the supervisor is not told.
MarkNothing == UNCHANGED executing

\* markExecuting: the phase signal to the supervisor.
MarkExecuting == executing' = TRUE

\* confirmPageReady, markExecuting and the transition of waitForOpen.
Confirm ==
  /\ pc = "confirm"
  /\ \E usable \in BOOLEAN :
       IF usable
       THEN /\ Go(<<"PREPARING_PAGE", "WAITING_FOR_OPEN">>, "open")
            /\ MarkExecuting
            /\ timer' = Waiting
            /\ UNCHANGED <<world, hot, preparing, behind, owned, cause, slotClicks, claim, agreed>>
       ELSE End(<<"PREPARING_PAGE", "HANDED_OFF">>)

\* waitUntil: the stop counts before the end of the watch, and that before the target.
waited == IF abort THEN "stopped" ELSE IF late THEN "timed_out"
          ELSE IF timer.wait = "due" THEN "ready" ELSE "waiting"

\* Mutant: a wait that the stop ended is taken for the end of the watch.
stopOrTimeoutLate == waited \in {"stopped", "timed_out"} /\ EndAs("TIMED_OUT")

\* The two ways in which a wait ends the run.
stopOrTimeout ==
  \/ waited = "stopped" /\ EndAs("STOPPED")
  \/ waited = "timed_out" /\ EndAs("TIMED_OUT")

\* waitForOpen: the clock is frozen before the toggling begins.
Open ==
  /\ pc = "open"
  /\ \/ stopOrTimeout
     \/ /\ waited = "ready"
        /\ Go(<<"REFRESHING_SLOTS">>, "search")
        /\ resources' = (resources \ {"clock"}) \cup {"mutation"}
        /\ timer' = AllOff
        /\ UNCHANGED <<world, hot, preparing, behind, done, pin>>

-----------------------------------------------------------------------------
(* A toggle cycle *)

\* The cycles whose target date was clicked; they are the ones registered.
clicked == 1..(IF pc \in {"adjacent", "target"} THEN cycle - 1 ELSE cycle)

\* The head of searchAndReserve's loop, and of runToggleCycle up to its first wait.
Search ==
  /\ pc = "search"
  /\ IF abort THEN EndAs("STOPPED")
     ELSE IF late THEN EndAs("TIMED_OUT")
     ELSE /\ cycle < MaxCycles
          /\ Stay("adjacent")
          /\ cycle' = cycle + 1
          /\ timer' = Waiting
          /\ signal' = NoSignal
          /\ result' = "none"
          /\ UNCHANGED <<wake, tracker, world, preparing, behind, owned, done>>

\* The adjacent date is clicked if the calendar still shows both dates.
Adjacent ==
  /\ pc = "adjacent"
  /\ \/ stopOrTimeout
     \/ /\ waited = "ready"
        /\ \/ EndAs("HANDED_OFF")
           \/ /\ Stay("target")
              /\ timer' = Waiting
              /\ UNCHANGED <<world, hot, preparing, behind, owned, done>>

\* The cycle is registered, begun and marked before its target date is clicked.
Target ==
  /\ pc = "target"
  /\ \/ stopOrTimeout
     \/ /\ waited = "ready"
        /\ \/ EndAs("HANDED_OFF")
           \/ /\ Stay("settle")
              /\ timer' = Waiting
              /\ wake' = beginCycle(wake, cycle)
              /\ mail' = IF "shadow" \in resources THEN Append(mail, <<"mark", cycle>>) ELSE mail
              /\ UNCHANGED <<cycle, result, signal, tracker, known, requests,
                             preparing, behind, owned, done>>

\* remainingDetectionMs is positive, with this signal in hand.
remains(hand, at) == ~late /\ (at.wait # "due" \/ (hand # NoSignal /\ at.body # "due"))

Retry(traced) ==
  /\ Stay("search")
  /\ result' = traced
  /\ timer' = AllOff
  /\ wake' = endCycle(wake, cycle) /\ signal' = NoSignal
  /\ UNCHANGED <<cycle, tracker, world, preparing, behind, owned, done>>

\* Mutant: the slot was clicked although the adapter says it was not.
SlotLostAfterClick ==
  /\ Go(<<"SLOT_DETECTED", "REFRESHING_SLOTS">>, "search")
  /\ slotClicks' = slotClicks + 1
  /\ timer' = AllOff
  /\ UNCHANGED <<cycle, tracker, world, preparing, behind, owned, cause, executing, claim, agreed>>

\* The slot is gone: no click, and the toggling goes on.
SlotLost ==
  /\ Go(<<"SLOT_DETECTED", "REFRESHING_SLOTS">>, "search")
  /\ timer' = AllOff
  /\ UNCHANGED <<cycle, tracker, world, preparing, behind, owned, done>>

\* The slot is clicked.  The traffic of the slot lists is of no more use.
SlotClicked ==
  /\ Go(<<"SLOT_DETECTED", "SLOT_CLICK_DISPATCHED">>, "transition")
  /\ slotClicks' = slotClicks + 1
  /\ timer' = Waiting
  /\ known' = {} /\ requests' = <<>> /\ mail' = <<>>
  /\ UNCHANGED <<cycle, tracker, preparing, behind, owned, cause, executing, claim, agreed>>

\* advanceFromSlot up to the click.
Slot ==
  \/ config.dryRun /\ End(<<"SLOT_DETECTED", "DRY_RUN_COMPLETED">>)
  \/ ~config.dryRun /\ late /\ End(<<"SLOT_DETECTED", "TIMED_OUT">>)
  \/ /\ ~config.dryRun /\ ~late
     /\ wake' = endCycle(wake, cycle) /\ signal' = NoSignal
     /\ result' = "SLOT_FOUND"
     /\ SlotLost \/ SlotClicked

\* One scan with this signal in hand finds a slot; or the signal says there is none, which
\* counts while the target date is still the selected one; or no time is left.
Scan(hand, timers) ==
  \E found, still \in BOOLEAN :
    LET kept == IF hand.kind = "empty_exit" THEN NoSignal ELSE hand IN
    IF found THEN Slot
    ELSE IF hand.kind = "empty_exit" /\ still THEN Retry("EMPTY_EARLY_EXIT")
    ELSE IF ~remains(kept, timers) THEN Retry("NO_SLOT")
    ELSE /\ Stay("detect")
         /\ timer' = timers
         /\ wake' = consumed(wake) /\ signal' = kept
         /\ UNCHANGED <<cycle, result, tracker, world, preparing, behind, owned, done>>

\* The signal the loop goes on with.
inHand == IF consumable(wake, cycle) THEN wake.pending ELSE signal

\* The selection of the target date is waited for, and the scanning begins.  From here on
\* wait is detectDeadline: the next click's time if the watch never saw a slot list, a
\* burst after the arrival of one, else the time for which one may still be under way.
Settle ==
  /\ pc = "settle"
  /\ IF abort THEN EndAs("STOPPED")
     ELSE IF late THEN EndAs("TIMED_OUT")
     ELSE \/ timer.wait = "due" /\ EndAs("HANDED_OFF")
          \/ Scan(inHand, [timer EXCEPT !.wait = "set"])

\* The loop goes on after a sleep or a wake; a stop leaves one last scan.
Detect ==
  /\ pc = "detect"
  /\ IF abort
     THEN \E found, still \in BOOLEAN, hand \in {inHand, signal} :
            IF found THEN Slot
            ELSE Retry(IF hand.kind = "empty_exit" /\ still THEN "EMPTY_EARLY_EXIT" ELSE "NO_SLOT")
     ELSE Scan(inHand, timer)

-----------------------------------------------------------------------------
(* Behind the slot *)

\* waitForSlotTransition, and what advanceFromSlot does with its result.
Transition ==
  /\ pc = "transition"
  /\ IF abort THEN EndAs("STOPPED")
     ELSE IF timer.wait = "due" THEN EndAs("HANDED_OFF")
     ELSE \E kind \in Kinds \ {"waiting"} :
       CASE kind = "unknown" -> EndAs("HANDED_OFF")
         [] kind # "unknown" /\ ~config.postSlot ->
              End(<<"SLOT_TRANSITION_CONFIRMED", "HANDED_OFF">>)
         [] OTHER ->
              /\ Go(<<"SLOT_TRANSITION_CONFIRMED", "ADVANCING_RESERVATION">>, "advance")
              /\ held' = kind
              /\ UNCHANGED <<timer, world, hot, preparing, dismissed, owned, done>>

\* Mutant: every look at the form begins the wait for a notice anew.
graceRenewed == [timer EXCEPT !.grace = "set"]

\* The form is seen for the first time: a notice may still come up over it.
graceBegun == [timer EXCEPT !.grace = IF @ = "off" THEN "set" ELSE @]

\* The form, and no notice is waited for any longer.  The end of the watch is no way out
\* of ADVANCING_RESERVATION: the transition throws.
LeaveForm ==
  \/ EndAs("HANDED_OFF")     \* completion is off, or the shop has no name or identifier
  \/ config.completion /\ late /\ EndAs("TIMED_OUT")
  \/ /\ config.completion /\ ~late
     /\ Go(<<"COMPLETING_RESERVATION">>, "complete")
     /\ timer' = AllOff
     /\ held' = "none" /\ dismissed' = FALSE
     /\ UNCHANGED <<world, hot, preparing, owned, done>>

\* What advance did on a page before the form, or with a notice over it.
Advanced(kind, act) ==
  IF act.status = "blocked" THEN EndAs("HANDED_OFF")
  ELSE /\ Stay("advance")
       /\ held' = "none"
       /\ timer' = IF kind = "form_notice" /\ act.status # "waiting" THEN graceBegun ELSE timer
       /\ dismissed' = (dismissed \/ (kind = "form_notice" /\ act.status = "acted"))
       /\ agreed' = agreed \cup act.pays
       /\ UNCHANGED <<world, hot, preparing, owned, cause, executing, slotClicks, claim>>

\* One round of advancePostSlot.
Advance ==
  /\ pc = "advance"
  /\ IF abort THEN EndAs("STOPPED")
     ELSE IF timer.wait = "due" /\ timer.grace # "set" THEN EndAs("HANDED_OFF")
     ELSE \E kind \in IF held # "none" THEN {held} ELSE Kinds \ {"waiting"} :
       CASE kind = "unknown" -> EndAs("HANDED_OFF")
         [] kind = "form" /\ (dismissed \/ timer.grace = "due") -> LeaveForm
         [] kind = "form" /\ ~(dismissed \/ timer.grace = "due") ->
              /\ Stay("advance")
              /\ held' = "none" /\ timer' = graceBegun
              /\ UNCHANGED <<world, hot, preparing, dismissed, owned, done>>
         [] OTHER ->
              \E act \in outcomes[[kind |-> kind, auto |-> config.payAuto,
                                  zeroOnly |-> config.zeroOnly]] : Advanced(kind, act)

\* The completion coordinator, as far as the flow sees it: it takes the PIN, asks the
\* supervisor for the final press, and says how it ended.
TakePin ==
  /\ pc = "complete" /\ pin = "held"
  /\ pin' = "taken"
  /\ UNCHANGED <<config, ending, abort, late, timer, world, hot, preparing, behind,
                 resources, done>>

Claim ==
  /\ pc = "complete"
  /\ \/ claim = "none" /\ claim' = "asked"
     \/ claim = "asked" /\ claim' \in {"made", "over"}
  /\ UNCHANGED <<config, ending, abort, late, timer, world, hot, preparing, behind, owned,
                 cause, executing, slotClicks, agreed>>

Complete ==
  /\ pc = "complete" /\ claim # "asked"
  /\ \/ claim = "made" /\ EndAs("COMPLETED")
     \/ claim = "none" /\ abort /\ EndAs("STOPPED")
     \/ claim = "none" /\ late /\ EndAs("TIMED_OUT")
     \/ EndAs("HANDED_OFF")

\* An adapter throws.
Throw ==
  /\ pc \in {"sync", "prepare", "confirm", "adjacent", "target", "settle", "detect",
             "transition", "advance", "complete"}
  /\ claim = "none"
  /\ Catch(state)
  /\ UNCHANGED <<config, abort, late, done>>

\* The flush is over, and execute returns or rejects.
Return ==
  /\ pc = "flush" /\ pc' = "returned"
  /\ UNCHANGED <<config, state, threw, abort, late, timer, world, hot, preparing, behind,
                 owned, done>>

-----------------------------------------------------------------------------
(* The user, time, and the slot lists *)

Running == pc \notin {"start", "flush", "returned"}

\* Once the toggling is about to end, nothing that only messages read is kept.
Unfollowed == known' = {} /\ mail' = <<>> /\ tracker' = [c \in 1..MaxCycles |-> 0]

\* A stop reaches the page; the page is not in the middle of a synchronous passage.
Abort ==
  /\ Running /\ ~abort /\ held = "none"
  /\ abort' = TRUE
  /\ Unfollowed
  /\ UNCHANGED <<config, ending, late, timer, requests, cycle, result, wake, signal,
                 preparing, behind, owned, done>>

Expire ==
  /\ Running /\ ~late
  /\ late' = TRUE
  /\ Unfollowed
  /\ UNCHANGED <<config, ending, abort, timer, requests, cycle, result, wake, signal,
                 preparing, behind, owned, done>>

Elapse ==
  /\ \E t \in Timers : timer[t] = "set" /\ timer' = [timer EXCEPT ![t] = "due"]
  /\ UNCHANGED <<config, ending, abort, late, world, hot, preparing, behind, owned, done>>

ElapseStep ==
  /\ \E t \in {"retry", "confirm", "discovery", "overall"} :
       step[t] = "set" /\ step' = [step EXCEPT ![t] = "due"]
  /\ UNCHANGED <<config, ending, abort, late, timer, world, hot, pressed, behind, owned, done>>

Toggling == pc \in {"search", "adjacent", "target", "settle", "detect"}

\* When the toggling is about to end, no further message changes how.
Listening == Toggling /\ ~abort /\ ~late /\ (pc = "search" => cycle < MaxCycles)

\* slotWatch reports that a slot list arrived, of whatever date: the scanning goes on.
Arrival ==
  /\ pc = "detect" /\ "slotWatch" \in resources
  /\ timer.wait = "due" /\ timer' = [timer EXCEPT !.wait = "set"]
  /\ UNCHANGED <<config, ending, abort, late, world, hot, preparing, behind, owned, done>>

\* The site asks for a slot list: in the windows of the latest clicks, in that of the
\* next one if it is about to happen, or in none.
Request ==
  /\ Listening /\ "shadow" \in resources
  /\ Len(requests) < MaxRequests
  /\ \E first \in 1..cycle + 1, last \in {0, Max(clicked \cup {0}), cycle} :
       /\ last = cycle => pc = "target" \/ cycle \in clicked
       /\ requests' = Append(requests, [win |-> first..last, body |-> "none", pending |-> TRUE,
                                        marker |-> matchingMarker(known, first..last)])
  /\ UNCHANGED <<config, ending, abort, late, timer, known, mail, hot, preparing, behind,
                 owned, done>>

\* An answer is complete; its body is classified and posted with the marker it has by now.
Answer ==
  /\ Listening
  /\ \E i \in DOMAIN requests, body \in Answers :
       /\ requests[i].pending
       /\ requests' = [requests EXCEPT ![i].pending = FALSE, ![i].body = body]
       /\ mail' = Append(mail, <<"event", i>>)
  /\ UNCHANGED <<config, ending, abort, late, timer, known, hot, preparing, behind,
                 owned, done>>

\* onAvailabilityBody.
HandleBody(i) ==
  LET event == [seq |-> i, marker |-> requests[i].marker, win |-> requests[i].win,
                body |-> requests[i].body]
      body == correlateBody(tracker, clicked, event)
      taken == acceptable(wake, body, event, config.probe = "empty_exit")
  IN /\ tracker' = recorded(tracker, body, event)
     /\ wake' = IF taken THEN offered(wake, body, event) ELSE wake
     /\ timer' = IF taken THEN [timer EXCEPT !.body = "set"] ELSE timer
     /\ UNCHANGED <<known, requests>>

\* Both worlds listen to the one message queue of the page.
Deliver ==
  /\ Listening /\ mail # <<>>
  /\ mail' = Tail(mail)
  /\ IF Head(mail)[1] = "mark"
     THEN /\ known' = known \cup {Head(mail)[2]}
          /\ requests' = [i \in DOMAIN requests |-> marked(requests[i], known')]
          /\ UNCHANGED <<tracker, wake, timer>>
     ELSE HandleBody(Head(mail)[2])
  /\ UNCHANGED <<config, ending, abort, late, cycle, result, signal, preparing, behind,
                 owned, done>>

-----------------------------------------------------------------------------

Session == Start \/ Synced \/ Prepare \/ Confirm \/ Open \/ Search \/ Adjacent \/ Target
             \/ Settle \/ Detect \/ Transition \/ Advance \/ Claim \/ Complete \/ Return

Environment == Throw \/ TakePin \/ Abort \/ Expire \/ Elapse \/ ElapseStep \/ Arrival \/ Request
                 \/ Answer \/ Deliver

Next == Session \/ Environment

Spec == Init /\ [][Next]_vars

\* The end of the watch comes, and so do the deadlines of the other waits; a poll whose wait
\* is over is made.  While the dates are toggled this is assumed only after the end of the
\* watch.  Nothing is assumed of the page, the site, the user or the messages.
Fairness ==
  /\ WF_vars(Expire)
  /\ WF_vars(~Toggling /\ Elapse)
  /\ WF_vars((Toggling => late) /\ Session)

FairSpec == Spec /\ Fairness

-----------------------------------------------------------------------------
(* Properties *)

Over == pc \in {"flush", "returned"}

\* Every variable has a value of its kind.
TypeOK ==
  /\ config \in Configs /\ state \in RunState /\ threw \in BOOLEAN
  /\ pc \in {"start", "sync", "prepare", "confirm", "open", "search", "adjacent", "target",
            "settle", "detect", "transition", "advance", "complete", "flush", "returned"}
  /\ abort \in BOOLEAN /\ late \in BOOLEAN /\ timer \in [Timers -> Timer]
  /\ step \in Steps /\ pressed \in Nat /\ cause \in Causes \cup {"none"}
  /\ cycle \in 0..MaxCycles /\ tracker \in [1..MaxCycles -> 0..MaxRequests]
  /\ result \in {"none", "NO_SLOT", "EMPTY_EARLY_EXIT", "SLOT_FOUND"}
  /\ known \subseteq 1..MaxCycles /\ Len(requests) <= MaxRequests
  /\ pin \in {"none", "held", "taken", "gone"}
  /\ resources \subseteq {"shadow", "slotWatch", "mutation", "clock"}
  /\ executing \in BOOLEAN /\ slotClicks \in Nat /\ claim \in {"none", "asked", "made", "over"}
  /\ held \in Kinds \cup {"none"} /\ dismissed \in BOOLEAN
  /\ agreed \subseteq {"zero", "selected", "notice"}

\* A slot is clicked at most once in an attempt, never in a dry run, and never before the
\* supervisor was told that the attempt executes; and after the click the flow never goes
\* back to toggling, whatever the page shows and however long it takes.
SlotClickedOnce ==
  /\ slotClicks <= 1
  /\ slotClicks = 1 =>
       /\ executing /\ ~config.dryRun
       /\ state \in {"SLOT_CLICK_DISPATCHED", "ADVANCING_RESERVATION",
                    "COMPLETING_RESERVATION"} \cup (TERMINAL \ {"DRY_RUN_COMPLETED"})

\* The signal that waits for the loop and the one it has in hand are of the cycle it is
\* in: of an answer to a request sent no earlier than 5 ms before this cycle's click,
\* however late the answers of earlier cycles come and in whatever order.
WakeIsCurrent ==
  \A s \in {wake.pending, signal} \ {NoSignal} :
    /\ s.cycle = cycle /\ wake.active = cycle
    /\ cycle \in requests[s.seq].win

\* A cycle is left before its time only for an answer that is certain: empty, in a run
\* that allows it, marked with this very cycle, asked for in this cycle's window, and the
\* newest that counted in it.
CutShortKnowingly ==
  [][result' = "EMPTY_EARLY_EXIT" /\ result = "none" =>
       /\ config.probe = "empty_exit"
       /\ inHand.seq = wake.last
       /\ LET asked == requests[inHand.seq] IN
            asked.body = "EMPTY" /\ asked.marker = cycle /\ cycle \in asked.win]_vars

\* A stage whose control does not change what it counts as progress is pressed at most
\* as often as its specification says, also when an interstitial is closed in between.
PressesInMeasure == pressed <= spec[step.stage].max

\* The two causes of a failed entry, of which a diagnosis is made, tell whether the entry
\* button was pressed at all.
CauseFitsPresses ==
  [][cause' # cause =>
       /\ cause' = "ENTRY_CTA_MISSING" => pressed = 0
       /\ cause' = "ENTRY_TRANSITION_STALLED" => pressed > 0]_vars

\* No payment is agreed to on the way to the form unless the user switched that on, and
\* where only a deposit of 0 won is allowed the site's own selection is never taken.
PaymentPolicyKept ==
  /\ agreed # {} => config.payAuto /\ config.postSlot
  /\ config.zeroOnly => "selected" \notin agreed

\* However a run ends, when its flush begins the PIN is gone from the kernel, no signal is
\* pending, and every watch and listener is off but one whose own stop failed.
LeavesNothingBehind ==
  Over => pin # "held" /\ wake = NoWake /\ Cardinality(resources) <= 1

\* The terminal state is true: stopped by the user, timed out at the end of the watch,
\* completed after a press that was allowed; failed before anything was begun or by an
\* exception.  Only a flow that could not even start its watch has no terminal state.
EndingIsTrue ==
  Over =>
    /\ state = "STOPPED" => abort /\ claim = "none"
    /\ state = "TIMED_OUT" => late /\ claim = "none"
    /\ state = "COMPLETED" => claim = "made"
    /\ state = "DRY_RUN_COMPLETED" => config.dryRun /\ slotClicks = 0
    /\ state = "FAILED" => claim = "none" /\ (threw \/ ~executing)
    /\ state \notin TERMINAL => threw /\ state = "IDLE"

\* What the supervisor learns of the run when it is over.
reported ==
  IF ~Over \/ state \notin TERMINAL THEN "none"
  ELSE IF cause \in BlockedCauses THEN "PREP_BLOCKED"
  ELSE IF cause \in StalledCauses THEN "PREP_STALLED" ELSE state

Contract == INSTANCE AttemptContract WITH
  phase <- IF executing THEN "EXECUTING" ELSE "PREPARING",
  dispatch <- claim, stopped <- abort, outcome <- reported

\* An attempt keeps what the supervisor relies on: preparation fails only before
\* execution, the final press is asked for once and only in execution, and the ending
\* fits how far the attempt got.
HonoursContract == Contract!Spec

\* Every run comes to an end, its flush included, whatever the page shows.
AttemptEnds == <>(pc = "returned")

\* No slot is clicked once the stop has reached the page.
NoClickAfterStop == [][slotClicks' > slotClicks => ~abort]_vars
=============================================================================
