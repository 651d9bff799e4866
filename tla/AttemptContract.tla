-------------------------- MODULE AttemptContract --------------------------
(***************************************************************************)
(* What the supervisor is promised about an attempt in a page: it prepares *)
(* without touching a slot, says so before it executes, asks for an        *)
(* irreversible press only then, and ends once, in a way that fits.        *)
(***************************************************************************)
EXTENDS AttemptEndings

VARIABLES phase,     \* PREPARING or EXECUTING
          dispatch,  \* "none", "asked", "made" or "over": the irreversible press
          stopped,   \* a stop has reached the page
          outcome    \* how it ended, "none" until then

vars == <<phase, dispatch, stopped, outcome>>

Init == phase = "PREPARING" /\ dispatch = "none" /\ stopped = FALSE /\ outcome = "none"

Execute ==
  /\ outcome = "none" /\ phase = "PREPARING"
  /\ phase' = "EXECUTING"
  /\ UNCHANGED <<dispatch, stopped, outcome>>

Stop == stopped' = TRUE /\ UNCHANGED <<phase, dispatch, outcome>>

Ask ==
  /\ outcome = "none" /\ phase = "EXECUTING" /\ dispatch = "none"
  /\ dispatch' = "asked"
  /\ UNCHANGED <<phase, stopped, outcome>>

Answer ==
  /\ outcome = "none" /\ dispatch = "asked"
  /\ dispatch' \in {"made", "over"}
  /\ UNCHANGED <<phase, stopped, outcome>>

End ==
  /\ outcome = "none"
  /\ dispatch # "asked"
  /\ outcome' \in attemptEndings(phase, dispatch, stopped)
  /\ UNCHANGED <<phase, dispatch, stopped>>

Next == Execute \/ Stop \/ Ask \/ Answer \/ End

Spec == Init /\ [][Next]_vars
=============================================================================
