-------------------------- MODULE PreparationStep --------------------------
(***************************************************************************)
(* The preparation of the page before the open-run: runPreparationStep,    *)
(* the poll loop of every stage (entry, month, date, person), the facts it *)
(* polls, the classifier of its failures and the calendar coordinator that *)
(* strings month and date together.                                        *)
(*                                                                         *)
(* A deadline is a timer: off (none), set, or due (now >= it).  poll is    *)
(* one iteration of the loop up to its sleep; a stage has no other state   *)
(* than its step record.                                                   *)
(***************************************************************************)
EXTENDS Naturals

Stages == {"entry", "month", "date", "person"}
Timer == {"off", "set", "due"}

BlockedCauses == {"WAITING_ONLY", "PERSON_UNAVAILABLE", "DATE_UNAVAILABLE",
                  "DATE_NOT_IN_CALENDAR", "MONTH_NAVIGATION_UNAVAILABLE"}
StalledCauses == {"ENTRY_CTA_MISSING", "ENTRY_TRANSITION_STALLED", "MONTH_TRANSITION_STALLED",
                  "DATE_SELECTION_STALLED", "PERSON_SELECTION_STALLED"}
Causes == BlockedCauses \cup StalledCauses

-----------------------------------------------------------------------------
(* What the adapters see *)

\* promo: an interstitial that may cover the entry button.
EntryFacts == [open : BOOLEAN, cta : BOOLEAN, waiting : BOOLEAN, promo : BOOLEAN]

\* The target's cell as the calendar's readers report it, in whichever of the two grids is
\* drawn: absent (no such date, or a grid that does not read as a month), selected whether
\* or not it is available, otherwise free or disabled.
Cells == {"absent", "disabled", "free", "selected"}

\* The month on display; "none": there is not exactly one month title.
Months == {"none", "target", "near", "far"}

\* Whether the calendar can be turned towards the target's month is only looked at when
\* the cell is missing in another month.
CalendarFacts ==
  {f \in [month : Months, cell : Cells, turn : BOOLEAN] :
     f.turn => f.cell = "absent" /\ f.month \in {"near", "far"}}

\* A person choice can be available or selected only where the choices are shown.
PersonFacts ==
  {f \in [ready : BOOLEAN, available : BOOLEAN, selected : BOOLEAN] :
     f.available \/ f.selected => f.ready}

factsOf(stage) == IF stage = "entry" THEN EntryFacts
                  ELSE IF stage = "person" THEN PersonFacts ELSE CalendarFacts

-----------------------------------------------------------------------------
(* The classifier *)

classifyEntryFatal(f) == IF f.waiting THEN "WAITING_ONLY" ELSE "none"

classifyMonthFatal(f) ==
  IF f.cell # "absent" \/ f.month = "none" THEN "none"
  ELSE IF f.month = "target" THEN "DATE_NOT_IN_CALENDAR"
  ELSE IF ~f.turn THEN "MONTH_NAVIGATION_UNAVAILABLE" ELSE "none"

classifyDateFatal(f) == IF f.cell = "disabled" THEN "DATE_UNAVAILABLE" ELSE "none"

classifyPersonFatal(f) == IF f.ready /\ ~f.available THEN "PERSON_UNAVAILABLE" ELSE "none"

\* Mutant: the token of the interruption is passed on as the cause.
classifyStallToken(stage, attempts) ==
  IF stage = "date" THEN "target_cell_missing" ELSE "PERSON_SELECTION_STALLED"

classifyStall(stage, attempts) ==
  IF stage = "entry" THEN IF attempts = 0 THEN "ENTRY_CTA_MISSING" ELSE "ENTRY_TRANSITION_STALLED"
  ELSE IF stage = "month" THEN "MONTH_TRANSITION_STALLED"
  ELSE IF stage = "date" THEN "DATE_SELECTION_STALLED" ELSE "PERSON_SELECTION_STALLED"

-----------------------------------------------------------------------------
(* The four StepSpecs: what a stage makes of the facts of one poll.  progressKey is    *)
(* "none" where the facts are unreadable: no evidence of progress.                     *)

entrySpec(f) ==
  [isReady |-> f.open, interrupt |-> FALSE, fatal |-> classifyEntryFatal(f),
   canDispatch |-> f.cta, press |-> "cta", progressKey |-> "steady"]

monthSpec(f) ==
  [isReady |-> f.cell # "absent", interrupt |-> FALSE, fatal |-> classifyMonthFatal(f),
   canDispatch |-> f.turn, press |-> "month", progressKey |-> f.month]

\* interrupt: target_cell_missing, the calendar turned away from the target.
dateSpec(f) ==
  [isReady |-> f.cell = "selected", interrupt |-> f.cell = "absent",
   fatal |-> classifyDateFatal(f), canDispatch |-> f.cell = "free", press |-> "date",
   progressKey |-> "steady"]

personSpec(f) ==
  [isReady |-> f.selected, interrupt |-> FALSE, fatal |-> classifyPersonFatal(f),
   canDispatch |-> f.available, press |-> "person", progressKey |-> "steady"]

specOf(stage, f) ==
  CASE stage = "entry" -> entrySpec(f) [] stage = "month" -> monthSpec(f)
    [] stage = "date" -> dateSpec(f) [] stage = "person" -> personSpec(f)

\* maxAttempts, and whether the stage has a confirmTimeoutMs.
spec == [entry  |-> [max |-> 2, confirm |-> TRUE],
         month  |-> [max |-> 3, confirm |-> FALSE],
         date   |-> [max |-> 2, confirm |-> FALSE],
         person |-> [max |-> 2, confirm |-> TRUE]]

-----------------------------------------------------------------------------
(* runPreparationStep *)

Steps == [stage : Stages, attempts : Nat, key : Months \cup {"steady"},
          retry : Timer, confirm : Timer, discovery : Timer, overall : Timer]

\* A stage begins; overall is its deadline beside stopAtMs, off if there is none.
begin(stage, overall) ==
  [stage |-> stage, attempts |-> 0, key |-> "none", retry |-> "off", confirm |-> "off",
   discovery |-> "set", overall |-> overall]

\* Mutant: any sign of life counts as progress.
notedAlways(step, key) ==
  IF key = "none" THEN step
  ELSE [step EXCEPT !.key = key, !.attempts = 0, !.retry = "off", !.confirm = "off"]

\* Progress gives the attempt budget back and forgets the confirmation deadline.
noted(step, key) ==
  LET kept == [step EXCEPT !.key = IF key # "none" THEN key ELSE @] IN
  IF key # "none" /\ step.key # "none" /\ key # step.key
  THEN [kept EXCEPT !.attempts = 0, !.retry = "off", !.confirm = "off"] ELSE kept

\* dismissObstacle: the promo is closed once a click did not open the calendar, and
\* the click is repeated at once.
dismisses(step, f) == step.stage = "entry" /\ step.attempts > 0 /\ f.promo
cleared(step, f) == IF dismisses(step, f) THEN [step EXCEPT !.retry = "due"] ELSE step

\* Mutant: a retry does not look at the number of attempts.
dispatchesAgain(step, f) ==
  /\ specOf(step.stage, f).canDispatch
  /\ step.attempts = 0 \/ step.retry = "due"

dispatches(step, f) ==
  /\ specOf(step.stage, f).canDispatch
  /\ step.attempts < spec[step.stage].max
  /\ step.attempts = 0 \/ step.retry = "due"

\* The confirmation deadline runs from the first dispatch.
dispatched(step) ==
  [step EXCEPT !.attempts = @ + 1, !.retry = "set",
               !.confirm = IF spec[step.stage].confirm /\ @ = "off" THEN "set" ELSE @]

\* The deadlines, looked at after the dispatch.
overdue(step) ==
  IF step.attempts = 0 THEN "due" \in {step.discovery, step.overall}
  ELSE \/ step.attempts >= spec[step.stage].max /\ step.retry = "due"
       \/ "due" \in {step.confirm, step.overall}

\* One poll: how it ends (kind, cause), the step to go on with, and what was pressed.
poll(before, f) ==
  LET seen  == specOf(before.stage, f)
      known == noted(before, seen.progressKey)
      read  == cleared(known, f)
      acts  == dispatches(read, f)
      after == IF acts THEN dispatched(read) ELSE read
      press == (IF dismisses(known, f) THEN {"promo"} ELSE {})
                 \cup (IF acts THEN {seen.press} ELSE {})
      end(kind, cause) == [kind |-> kind, cause |-> cause, step |-> before, press |-> {}]
  IN IF seen.isReady THEN end("ready", "none")
     ELSE IF seen.interrupt THEN end("interrupted", "none")
     ELSE IF seen.fatal # "none" THEN end("failed", seen.fatal)
     ELSE IF overdue(after)
     THEN [kind |-> "failed", cause |-> classifyStall(before.stage, after.attempts),
           step |-> after, press |-> press]
     ELSE [kind |-> "continue", cause |-> "none", step |-> after, press |-> press]

\* runCalendarPreparation: date follows month, and month follows date when the target's
\* cell disappeared, each as a new step under the deadlines of the first one.
follow(step, stage) == [begin(stage, step.overall) EXCEPT !.discovery = step.discovery]
=============================================================================
