--------------------------- MODULE ToggleSchedule ---------------------------
(***************************************************************************)
(* The plan of one date toggle (shared/toggle-schedule.ts): when the       *)
(* neighbouring date is pressed and when the target date, from the reading *)
(* of the server's clock, the opening and the interval of the              *)
(* configuration.  Times are whole milliseconds.                           *)
(***************************************************************************)
EXTENDS Integers

SwitchLead == 40
PrecisionStart == 600
PrecisionEnd == 2000
LongTailStart == 30000

\* The intervals a configuration may have.
ToggleIntervals == 100 .. 5000

\* The cycles around the opening.
ShortCycles == 100 .. 150

least(a, b) == IF a <= b THEN a ELSE b
most(a, b) == IF a >= b THEN a ELSE b

phase(now, openAt) ==
  IF now - openAt < -PrecisionStart THEN "warmup"
  ELSE IF now - openAt <= PrecisionEnd THEN "precision"
  ELSE IF now - openAt <= LongTailStart THEN "followup" ELSE "long_tail"

cycle(now, openAt, interval) ==
  IF phase(now, openAt) = "warmup" THEN least(interval, 400)
  ELSE IF phase(now, openAt) = "precision" THEN least(interval, 150)
  ELSE IF phase(now, openAt) = "followup" THEN most(interval, 250) ELSE 2000

\* The first multiple of length at or after time.
ceiling(time, length) == -((-time) \div length) * length

\* Around the opening the presses lie on a grid through openAt.
targetClickAt(now, openAt, interval) ==
  IF phase(now, openAt) = "precision"
  THEN openAt + ceiling(now + SwitchLead - openAt, cycle(now, openAt, interval))
  ELSE now + cycle(now, openAt, interval)

nextTogglePlan(now, openAt, interval) ==
  [phase |-> phase(now, openAt), cycle |-> cycle(now, openAt, interval),
   target |-> targetClickAt(now, openAt, interval),
   adjacent |-> targetClickAt(now, openAt, interval) - SwitchLead]
=============================================================================
