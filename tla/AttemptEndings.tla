--------------------------- MODULE AttemptEndings ---------------------------
(***************************************************************************)
(* How an attempt may end, by how far it got: what the page promises the   *)
(* supervisor, and all the supervisor relies on.                           *)
(***************************************************************************)

\* phase: PREPARING, or EXECUTING once the attempt has said so; dispatch: no irreversible
\* press was asked for ("none"), one was asked for and the flow may make no further one
\* ("over"), or it goes on; stopped: the user's stop has reached the page.
attemptEndings(phase, dispatch, stopped) ==
  IF dispatch = "none"
  THEN {"FAILED", "TIMED_OUT", "HANDED_OFF"}
         \cup (IF phase = "PREPARING" THEN {"PREP_STALLED", "PREP_BLOCKED"}
               ELSE {"DRY_RUN_COMPLETED"})
         \cup (IF stopped THEN {"STOPPED"} ELSE {})
  ELSE {"HANDED_OFF"} \cup (IF dispatch = "over" THEN {} ELSE {"COMPLETED"})
=============================================================================
