----------------------------- MODULE SlotChoice -----------------------------
(***************************************************************************)
(* Which slot is clicked: SlotAdapter, which reads the slots off the page, *)
(* and selectPreferredSlot, which chooses one of them.  A slot is known by *)
(* its minutes of the day; buttons is the sequence of the page's slot      *)
(* buttons in document order.                                              *)
(***************************************************************************)
EXTENDS Integers, Sequences, FiniteSetsExt

Minutes == 0 .. 1439
NoTime == -1

\* Hidden copies and taken slots stay in the document.
Buttons == [busy : BOOLEAN, hidden : BOOLEAN, disabled : BOOLEAN, minutes : Minutes \cup {NoTime}]

bookable(b) == ~b.busy /\ ~b.hidden /\ ~b.disabled /\ b.minutes # NoTime

\* The first bookable button of each time.
readSlots(buttons) ==
  {i \in DOMAIN buttons :
     /\ bookable(buttons[i])
     /\ \A j \in 1 .. i - 1 : bookable(buttons[j]) => buttons[j].minutes # buttons[i].minutes}

readAvailableSlots(buttons) == {buttons[i].minutes : i \in readSlots(buttons)}

inRange(slots, range) == {m \in slots : range.start <= m /\ m <= range.end}

\* A wished time in the order of the wishes, or the earliest slot of the range.
selectPreferredSlot(slots, range, priorityTimes) ==
  LET eligible == inRange(slots, range)
      wishes   == {k \in DOMAIN priorityTimes : priorityTimes[k] \in eligible}
  IN IF wishes # {} THEN priorityTimes[Min(wishes)]
     ELSE IF eligible # {} THEN Min(eligible) ELSE NoTime

\* clickSlot: the buttons to press for a slot read earlier, none if it is gone by now.
clickSlot(buttons, minutes) == {i \in readSlots(buttons) : buttons[i].minutes = minutes}
=============================================================================
