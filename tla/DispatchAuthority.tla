------------------------- MODULE DispatchAuthority -------------------------
(***************************************************************************)
(* What the completion of a reservation promises, whatever the page, the   *)
(* user and the worker do: a button that costs money or makes a            *)
(* reservation is pressed at most once, with a permission given before the *)
(* permissions were revoked, and the outcome told never denies a press.    *)
(***************************************************************************)
CONSTANTS Phases,   \* the irreversible presses,
          First     \* and the one of them the others depend on

VARIABLES permitted,   \* presses permitted so far
          dispatched,  \* presses made so far
          revoked,     \* no further permission will be given
          outcome      \* what the user is told, "none" until then

vars == <<permitted, dispatched, revoked, outcome>>

Results == {"completed", "handed_off", "stopped", "timed_out"}

Init == permitted = {} /\ dispatched = {} /\ revoked = FALSE /\ outcome = "none"

\* A permission is given once, not after a revocation, and only when the first press
\* was made if it is a later one.
Permit(p) ==
  /\ outcome = "none" /\ ~revoked
  /\ p \notin permitted
  /\ p # First => First \in dispatched
  /\ permitted' = permitted \cup {p}
  /\ UNCHANGED <<dispatched, revoked, outcome>>

Dispatch(p) ==
  /\ outcome = "none"
  /\ p \in permitted \ dispatched
  /\ dispatched' = dispatched \cup {p}
  /\ UNCHANGED <<permitted, revoked, outcome>>

Revoke ==
  /\ revoked' = TRUE
  /\ UNCHANGED <<permitted, dispatched, outcome>>

\* A stop or a timeout is only told while nothing was permitted, a success only after
\* a press.
Conclude(r) ==
  /\ outcome = "none"
  /\ r \in {"stopped", "timed_out"} => permitted = {}
  /\ r = "completed" => First \in dispatched
  /\ outcome' = r
  /\ UNCHANGED <<permitted, dispatched, revoked>>

Next == \/ \E p \in Phases : Permit(p) \/ Dispatch(p)
        \/ Revoke
        \/ \E r \in Results : Conclude(r)

Spec == Init /\ [][Next]_vars
=============================================================================
