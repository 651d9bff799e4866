-------------------------- MODULE AvailabilityWake --------------------------
(***************************************************************************)
(* The path of a slot-list answer from the site's XMLHttpRequest to the    *)
(* detection loop: the probe in the page's world, which stamps a request   *)
(* with the toggle cycle it belongs to; AvailabilityCorrelationTracker,    *)
(* which says how surely; and AvailabilityDomWake, which hands the loop at *)
(* most one signal, of the cycle it is in.                                 *)
(*                                                                         *)
(* Cycles are numbered from 1 and 0 is none.  The clock comparisons of a   *)
(* request with the clicks (-5 .. +700 ms) are its window: the cycles it   *)
(* was sent in the window of.  A request for another date or party has     *)
(* none.  The caps of 12 tracked and 16 marked cycles lie beyond the       *)
(* cycles any instance runs.                                               *)
(***************************************************************************)
EXTENDS Integers, FiniteSets, FiniteSetsExt

-----------------------------------------------------------------------------
(* The probe (main world) *)

\* An answer is empty, has a slot in the wanted range, or is of no use.
Answers == {"EMPTY", "POPULATED", "OTHER"}

\* Mutant: a request takes the newest marker whenever it was sent.
matchingMarkerAny(known, win) == IF known = {} THEN 0 ELSE Max(known)

\* The newest marked cycle whose window the request lies in.
matchingMarker(known, win) == IF known \cap win = {} THEN 0 ELSE Max(known \cap win)

\* send; marker is read off again when the answer is complete.
sent(known, win) == [win |-> win, marker |-> matchingMarker(known, win), pending |-> TRUE]

\* markTargetCycle: a request still on its way gets the marker it lacks.
marked(request, known) ==
  IF request.pending /\ request.marker = 0
  THEN [request EXCEPT !.marker = matchingMarker(known, request.win)] ELSE request

-----------------------------------------------------------------------------
(* AvailabilityCorrelationTracker.  tracker[c]: the newest answer of cycle c. *)

\* Marked with a registered cycle: EXACT.  Not marked, but in the window of exactly one:
\* STRONG.  Else there is no cycle.  Stale: a newer answer of that cycle was seen.
correlateBody(tracker, cycles, event) ==
  LET fitting == cycles \cap event.win
      cycle == IF event.marker # 0 THEN IF event.marker \in cycles THEN event.marker ELSE 0
               ELSE IF Cardinality(fitting) = 1 THEN Max(fitting) ELSE 0
      quality == IF cycle = 0
                 THEN IF event.marker # 0 \/ fitting # {} THEN "WEAK" ELSE "NONE"
                 ELSE IF event.marker # 0 THEN "EXACT" ELSE "STRONG"
  IN [cycle |-> cycle, quality |-> quality, stale |-> cycle # 0 /\ event.seq <= tracker[cycle]]

\* The answer kept for the cycle.
recorded(tracker, body, event) ==
  IF body.cycle = 0 \/ body.stale THEN tracker ELSE [tracker EXCEPT ![body.cycle] = event.seq]

-----------------------------------------------------------------------------
(* AvailabilityDomWake *)

NoSignal == [cycle |-> 0, seq |-> 0, kind |-> "none", quality |-> "none"]
NoWake == [active |-> 0, last |-> 0, pending |-> NoSignal]

beginCycle(wake, cycle) == [active |-> cycle, last |-> 0, pending |-> NoSignal]
endCycle(wake, cycle) == IF wake.active = cycle THEN NoWake ELSE wake

\* Mutant: a signal is accepted whatever cycle is active.
acceptableLate(wake, body, event, emptyExit) ==
  /\ body.quality \in {"EXACT", "STRONG"} /\ ~body.stale
  /\ event.seq > wake.last
  /\ event.body = "EMPTY" => emptyExit /\ body.quality = "EXACT"
  /\ event.body # "OTHER"

\* An offer is accepted: trusted, fresh, of the active cycle, newer than the last one,
\* and either a slot to look for or, where the mode allows it, surely none.
acceptable(wake, body, event, emptyExit) ==
  /\ body.quality \in {"EXACT", "STRONG"} /\ ~body.stale
  /\ body.cycle # 0 /\ body.cycle = wake.active
  /\ event.seq > wake.last
  /\ event.body = "EMPTY" => emptyExit /\ body.quality = "EXACT"
  /\ event.body # "OTHER"

\* offer: the newest signal replaces one that was not consumed yet.
offered(wake, body, event) ==
  [wake EXCEPT !.last = event.seq,
               !.pending = [cycle |-> body.cycle, seq |-> event.seq, quality |-> body.quality,
                            kind |-> IF event.body = "EMPTY" THEN "empty_exit" ELSE "scan_wake"]]

\* consume: the pending signal, if it is of this cycle.
consumable(wake, cycle) == wake.active = cycle /\ wake.pending.cycle = cycle /\ cycle # 0
consumed(wake) == [wake EXCEPT !.pending = NoSignal]
=============================================================================
