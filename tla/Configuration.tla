---------------------------- MODULE Configuration ----------------------------
(***************************************************************************)
(* The checks a reservation's configuration passes before a run            *)
(* (shared/config.ts), and what they are worth to the code that relies on  *)
(* them.  The panel, the worker and the page check the same configuration, *)
(* each at its own moment.                                                 *)
(*                                                                         *)
(* A text is what the check makes of it: a shop's address, a date, a short *)
(* keyword, a text.  Anything else a message or the storage may hold fails *)
(* the check.  Unset is an option an older panel did not have (NoAmount    *)
(* such an amount); these options are the record c.options.                *)
(***************************************************************************)
EXTENDS SlotChoice

Unset == "unset"
NoAmount == -1

Switches == {"yes", "no"}
Modes == {"off", "observe", "empty_exit"}
Policies == {"zero_only", "selected_allowed"}
Tables == {"any", "hall", "bar", "room"}

\* The mode in force; an older panel only had a switch.
resolveAvailabilityProbeMode(o) ==
  IF o.availabilityProbeMode \in Modes THEN o.availabilityProbeMode
  ELSE IF o.availabilityProbeEnabled = "yes" THEN "observe" ELSE "off"

orElse(value, default) == IF value = Unset THEN default ELSE value

\* Older options in the form of today; the switch goes.
normalized(o) ==
  [paymentMethodAutoAdvance |-> orElse(o.paymentMethodAutoAdvance, "yes"),
   paymentMethodPolicy |-> orElse(o.paymentMethodPolicy, "selected_allowed"),
   availabilityProbeMode |-> orElse(o.availabilityProbeMode, resolveAvailabilityProbeMode(o)),
   availabilityProbeEnabled |-> Unset,
   reservationCompletionEnabled |-> orElse(o.reservationCompletionEnabled, "no"),
   maxPaymentAmountKrw |-> IF o.maxPaymentAmountKrw = NoAmount THEN 0 ELSE o.maxPaymentAmountKrw,
   requiredFormDefaultAnswer |-> orElse(o.requiredFormDefaultAnswer, "text")]

normalizeReservationConfig(c) == [c EXCEPT !.options = normalized(@)]

isMinute(value) == value \in Minutes

validTimes(c) ==
  /\ isMinute(c.timeRange.start) /\ isMinute(c.timeRange.end)
  /\ c.timeRange.start <= c.timeRange.end
  /\ \A i, j \in DOMAIN c.priorityTimes : c.priorityTimes[i] = c.priorityTimes[j] => i = j
  /\ \A i \in DOMAIN c.priorityTimes :
       /\ isMinute(c.priorityTimes[i])
       /\ c.timeRange.start <= c.priorityTimes[i] /\ c.priorityTimes[i] <= c.timeRange.end

validOptions(o) ==
  /\ o.paymentMethodAutoAdvance \in Switches \cup {Unset}
  /\ o.paymentMethodPolicy \in Policies \cup {Unset}
  /\ o.availabilityProbeMode \in Modes \cup {Unset}
  /\ o.availabilityProbeEnabled \in Switches \cup {Unset}
  /\ o.reservationCompletionEnabled \in Switches
  /\ o.maxPaymentAmountKrw \in Nat /\ o.maxPaymentAmountKrw <= 500000
  /\ o.requiredFormDefaultAnswer = "text"

\* validateReservationConfig finds nothing wrong at the moment nowMs.
valid(c, nowMs) ==
  /\ c.targetUrl = "shop" /\ c.reservationDate = "date"
  /\ c.openAtMs < c.stopAtMs /\ nowMs < c.stopAtMs
  /\ c.personCount \in 1 .. 20
  /\ validTimes(c)
  /\ c.postSlotEnabled \in Switches /\ c.tablePreference \in Tables
  /\ c.menuKeyword = "short" /\ c.entryMode \in {"auto", "prepared"}
  /\ c.preOpenLeadMs \in Nat /\ c.preOpenLeadMs <= 10000 /\ c.preOpenLeadMs % 50 = 0
  /\ c.toggleIntervalMs \in Nat
  /\ 100 <= c.toggleIntervalMs /\ c.toggleIntervalMs <= 5000
  /\ validOptions(c.options)

\* The PIN that may come with a start: absent or four digits.
validateOneShotAuthorization(pin) == pin = Unset \/ pin \in [1 .. 4 -> 0 .. 9]
=============================================================================
