----------------------------- MODULE RunStates -----------------------------
(***************************************************************************)
(* The states of a run in the page and the transitions RunStateMachine     *)
(* allows between them (src/src/shared/state-machine.ts).  transition()    *)
(* throws on any other one; walk says how far a sequence of transitions    *)
(* that one step of the program makes gets before that happens.            *)
(***************************************************************************)
EXTENDS Naturals, Sequences, FiniteSetsExt

TERMINAL == {"DRY_RUN_COMPLETED", "HANDED_OFF", "COMPLETED", "STOPPED", "TIMED_OUT", "FAILED"}

Ended == {"STOPPED", "FAILED"}
PrepEnded == Ended \cup {"HANDED_OFF", "TIMED_OUT"}

\* NAVIGATING and SLOT_SELECTED are only found in stored runs of older versions.
ALLOWED ==
  [IDLE                      |-> {"CONFIGURED", "NAVIGATING"},
   CONFIGURED                |-> {"VALIDATING"} \cup Ended,
   NAVIGATING                |-> {"CONFIGURED"} \cup Ended,
   VALIDATING                |-> {"SYNCING_CLOCK", "HANDED_OFF"} \cup Ended,
   SYNCING_CLOCK             |-> {"ENTERING_RESERVATION", "PREPARING_PAGE"} \cup Ended,
   ENTERING_RESERVATION      |-> {"SELECTING_DATE"} \cup PrepEnded,
   SELECTING_DATE            |-> {"SELECTING_PERSON"} \cup PrepEnded,
   SELECTING_PERSON          |-> {"PREPARING_PAGE"} \cup PrepEnded,
   PREPARING_PAGE            |-> {"WAITING_FOR_OPEN", "HANDED_OFF"} \cup Ended,
   WAITING_FOR_OPEN          |-> {"REFRESHING_SLOTS", "TIMED_OUT"} \cup Ended,
   REFRESHING_SLOTS          |-> {"SLOT_DETECTED"} \cup PrepEnded,
   SLOT_DETECTED             |-> {"REFRESHING_SLOTS", "SLOT_CLICK_DISPATCHED",
                                  "DRY_RUN_COMPLETED", "TIMED_OUT"} \cup Ended,
   SLOT_CLICK_DISPATCHED     |-> {"SLOT_TRANSITION_CONFIRMED", "HANDED_OFF"} \cup Ended,
   SLOT_TRANSITION_CONFIRMED |-> {"ADVANCING_RESERVATION", "HANDED_OFF"},
   SLOT_SELECTED             |-> {"ADVANCING_RESERVATION", "HANDED_OFF"},
   ADVANCING_RESERVATION     |-> {"COMPLETING_RESERVATION", "HANDED_OFF"} \cup Ended,
   COMPLETING_RESERVATION    |-> {"COMPLETED"} \cup PrepEnded,
   DRY_RUN_COMPLETED |-> {}, HANDED_OFF |-> {}, COMPLETED |-> {},
   STOPPED |-> {}, TIMED_OUT |-> {}, FAILED |-> {}]

RunState == DOMAIN ALLOWED

\* transition(to) does not throw.
mayTransition(dryRun, from, to) ==
  /\ from \notin TERMINAL
  /\ ~(dryRun /\ to \in {"SLOT_CLICK_DISPATCHED", "SLOT_TRANSITION_CONFIRMED", "SLOT_SELECTED"})
  /\ to \in ALLOWED[from]

\* The state reached by transitions made one after the other, and whether all of them
\* were allowed.
walk(dryRun, from, path) ==
  LET via == <<from>> \o path
      reached == {n \in DOMAIN via : \A i \in 1..n - 1 : mayTransition(dryRun, via[i], via[i + 1])}
  IN [state |-> via[Max(reached)], ok |-> Len(via) \in reached]
=============================================================================
