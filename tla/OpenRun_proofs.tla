--------------------------- MODULE OpenRun_proofs ---------------------------
(***************************************************************************)
(* One attempt in the page, for any set of configurations and any number   *)
(* of toggle cycles and slot-list requests: the slot is clicked once, a    *)
(* wake is of the cycle it ends, presses and payments keep their measure,  *)
(* every ending is true, and the attempt is one the supervisor may rely on *)
(* (AttemptContract).                                                      *)
(***************************************************************************)
EXTENDS OpenRun, FiniteMinima, SequenceTheorems, TLAPS

-----------------------------------------------------------------------------
(* The inductive invariant *)

\* What travels between the two worlds of the page.
Requests == [win : SUBSET Int, marker : 0..MaxCycles, pending : BOOLEAN,
             body : Answers \cup {"none"}]
Mails == ({"mark"} \X (1..MaxCycles)) \cup ({"event"} \X (1..MaxRequests))
Signals == [cycle : 0..MaxCycles, seq : 0..MaxRequests,
            kind : {"none", "empty_exit", "scan_wake"}, quality : {"none", "EXACT", "STRONG"}]
Wakes == [active : 0..MaxCycles, last : 0..MaxRequests, pending : Signals]

\* A marker is one of the cycles whose window the request was sent in; an answer that is on
\* its way to the tracker is complete.
WiresOK ==
  /\ requests \in Seq(Requests) /\ mail \in Seq(Mails)
  /\ wake \in Wakes /\ signal \in Signals
  /\ \A i \in DOMAIN requests : requests[i].marker # 0 => requests[i].marker \in requests[i].win
  /\ \A n \in DOMAIN mail : mail[n][1] = "event" =>
       mail[n][2] \in DOMAIN requests /\ ~requests[mail[n][2]].pending

\* The state of the run fits the place the flow is at.
Places ==
  /\ pc = "start" => state = "IDLE"
  /\ pc = "sync" => state = "SYNCING_CLOCK"
  /\ pc = "prepare" =>
       state = IF step.stage = "entry" THEN "ENTERING_RESERVATION"
               ELSE IF step.stage = "person" THEN "SELECTING_PERSON" ELSE "SELECTING_DATE"
  /\ pc = "confirm" => state \in {"SYNCING_CLOCK", "SELECTING_PERSON"}
  /\ pc = "open" => state = "WAITING_FOR_OPEN"
  /\ Toggling => state = "REFRESHING_SLOTS"
  /\ pc = "transition" => state = "SLOT_CLICK_DISPATCHED"
  /\ pc = "advance" => state = "ADVANCING_RESERVATION"
  /\ pc = "complete" => state = "COMPLETING_RESERVATION"

\* How far the run has got: the supervisor is told before the toggling, the slot is clicked
\* once behind it, and the final press is for the last stage.
Progress ==
  /\ pc \in {"start", "sync"} => pressed = 0
  /\ pc \in {"start", "sync", "prepare", "confirm"} => ~executing
  /\ pc \in {"open", "transition", "advance", "complete"} \/ Toggling => executing
  /\ ~Over => slotClicks = (IF pc \in {"transition", "advance", "complete"} THEN 1 ELSE 0)
  /\ pc \in {"transition", "advance", "complete"} => ~config.dryRun
  /\ pc \in {"advance", "complete"} => config.postSlot
  /\ pc # "complete" /\ ~Over => claim = "none"
  /\ ~Over => cause = "none"
  /\ held # "waiting"

\* Presses are counted with the attempts where nothing else gives the budget back.
Measured(st, n) ==
  /\ st.attempts <= spec[st.stage].max
  /\ IF spec[st.stage].confirm THEN n = st.attempts /\ st.key \in {"none", "steady"} ELSE n = 0
  /\ st.stage = "entry" => st.overall = "off" /\ (st.attempts = 0 => st.confirm = "off")

StepOK == Measured(step, pressed)

\* What a signal stands for: an answer that is complete, of a request sent in the window of
\* the cycle; and one that ends the cycle, for an answer that is certain.
meant(s) ==
  /\ s.cycle = cycle /\ s.seq \in DOMAIN requests
  /\ cycle \in requests[s.seq].win /\ ~requests[s.seq].pending
  /\ s.kind = "empty_exit" =>
       /\ config.probe = "empty_exit"
       /\ requests[s.seq].body = "EMPTY" /\ requests[s.seq].marker = cycle

\* Signals exist between the click on the target date and the end of the cycle only.
SignalsOK ==
  /\ pc \in {"adjacent", "target", "settle", "detect"} => cycle \in 1..MaxCycles
  /\ IF pc \in {"settle", "detect"} THEN wake.active = cycle
     ELSE wake = NoWake /\ signal = NoSignal
  /\ wake.pending # NoSignal => meant(wake.pending) /\ wake.pending.seq = wake.last
  /\ signal # NoSignal => meant(signal) /\ signal.kind # "empty_exit"

IInv ==
  /\ TypeOK /\ WiresOK /\ Places /\ Progress /\ StepOK /\ SignalsOK
  /\ SlotClickedOnce /\ PaymentPolicyKept /\ LeavesNothingBehind /\ EndingIsTrue

-----------------------------------------------------------------------------
(* Transitions *)


\* The greatest of the first n positive numbers.
LEMMA MaxOfInitial ==
  ASSUME NEW n \in Nat, n # 0, NEW S, S = 1..n
  PROVE  Max(S) = n
<1>1. 1..n \in SUBSET Int /\ 1..n # {} /\ n \in 1..n
  OBVIOUS
<1>5. IsFiniteSet(1..n)
  BY FS_Interval
<1> DEFINE m == Max(1..n)
<1>2. m \in 1..n /\ \A x \in 1..n : m >= x
  BY <1>1, <1>5, MaxOfFinite
<1>3. m \in Int /\ m <= n /\ m >= n
  <2> HIDE DEF m
  <2> QED
    BY <1>1, <1>2
<1> HIDE DEF m
<1>4. m = n
  BY <1>3
<1> QED
  BY <1>4 DEF m

\* The prefixes of a path all of whose transitions are allowed, by their length.
passed(d, via) == {n \in DOMAIN via : \A i \in 1..n - 1 : mayTransition(d, via[i], via[i + 1])}

\* What walk says, by the transitions that are made before one is refused.
LEMMA WalkIs ==
  ASSUME NEW d, NEW s, NEW path, NEW via, via = <<s>> \o path
  PROVE  /\ walk(d, s, path).state = via[Max(passed(d, via))]
         /\ walk(d, s, path).ok <=> Len(via) \in passed(d, via)
<1>1. walk(d, s, path) = [state |-> via[Max(passed(d, via))], ok |-> Len(via) \in passed(d, via)]
  BY DEF walk, passed
<1>2. walk(d, s, path).state = via[Max(passed(d, via))]
  BY ONLY <1>1
<1>3. walk(d, s, path).ok = (Len(via) \in passed(d, via))
  BY ONLY <1>1
<1> QED
  BY <1>2, <1>3

\* A path all of whose transitions are allowed is made to its end.
LEMMA WalkAll ==
  ASSUME NEW d, NEW s \in RunState, NEW path \in Seq(RunState),
         NEW via, via = <<s>> \o path,
         \A i \in 1..Len(via) - 1 : mayTransition(d, via[i], via[i + 1])
  PROVE  walk(d, s, path).ok /\ walk(d, s, path).state = via[Len(via)]
<1>1. via \in Seq(RunState) /\ Len(via) = 1 + Len(path) /\ Len(path) \in Nat
  BY ConcatProperties
<1>2. DOMAIN via = 1..Len(via) /\ Len(via) \in Nat /\ Len(via) # 0
  BY <1>1
<1>3. passed(d, via) = 1..Len(via)
  <2> SUFFICES ASSUME NEW n \in 1..Len(via), NEW i \in 1..n - 1
               PROVE  mayTransition(d, via[i], via[i + 1])
    BY <1>2 DEF passed
  <2>1. i \in 1..Len(via) - 1
    BY <1>2
  <2> QED
    BY <2>1
<1>4. PICK k \in Nat : k = Len(via) /\ k # 0
  BY <1>2
<1>5. passed(d, via) = 1..k
  BY <1>3, <1>4
<1>6. Max(passed(d, via)) = k
  BY <1>4, <1>5, MaxOfInitial
<1>7. k \in passed(d, via)
  BY <1>4, <1>5
<1> QED
  BY <1>4, <1>6, <1>7, WalkIs

\* A path of no transition.
LEMMA WalkStay ==
  ASSUME NEW d, NEW s \in RunState
  PROVE  walk(d, s, <<>>).ok /\ walk(d, s, <<>>).state = s
<1>1. PICK path : path = <<>>
  OBVIOUS
<1>6. path \in Seq(RunState)
  BY <1>1
<1>2. PICK via : via = <<s>> \o path
  OBVIOUS
<1>3. Len(via) = 1 /\ via[1] = s
  BY <1>1, <1>2
<1>4. \A i \in 1..Len(via) - 1 : mayTransition(d, via[i], via[i + 1])
  BY <1>3
<1>5. walk(d, s, path).ok /\ walk(d, s, path).state = via[Len(via)]
  BY <1>2, <1>4, <1>6, WalkAll
<1> QED
  BY <1>1, <1>3, <1>5

\* A path of one, of two and of three transitions that are allowed.
LEMMA WalkOne ==
  ASSUME NEW d, NEW s \in RunState, NEW a \in RunState,
         mayTransition(d, s, a)
  PROVE  walk(d, s, <<a>>).ok /\ walk(d, s, <<a>>).state = a
<1>1. PICK path : path = <<a>>
  OBVIOUS
<1>6. path \in Seq(RunState)
  BY <1>1
<1>2. PICK via : via = <<s>> \o path
  OBVIOUS
<1>3. Len(via) = 2 /\ via[1] = s /\ via[2] = a
  BY <1>1, <1>2
<1>4. \A i \in 1..Len(via) - 1 : mayTransition(d, via[i], via[i + 1])
  <2> SUFFICES ASSUME NEW i \in 1..1 PROVE mayTransition(d, via[i], via[i + 1])
    BY <1>3
  <2>1. i = 1
    OBVIOUS
  <2> QED
    BY <1>3, <2>1
<1>5. walk(d, s, path).ok /\ walk(d, s, path).state = via[Len(via)]
  BY <1>2, <1>4, <1>6, WalkAll
<1> QED
  BY <1>1, <1>3, <1>5

LEMMA WalkTwo ==
  ASSUME NEW d, NEW s \in RunState, NEW a \in RunState, NEW b \in RunState,
         mayTransition(d, s, a),
         mayTransition(d, a, b)
  PROVE  walk(d, s, <<a, b>>).ok /\ walk(d, s, <<a, b>>).state = b
<1>1. PICK path : path = <<a, b>>
  OBVIOUS
<1>6. path \in Seq(RunState)
  BY <1>1
<1>2. PICK via : via = <<s>> \o path
  OBVIOUS
<1>3. Len(via) = 3 /\ via[1] = s /\ via[2] = a /\ via[3] = b
  BY <1>1, <1>2
<1>4. \A i \in 1..Len(via) - 1 : mayTransition(d, via[i], via[i + 1])
  <2> SUFFICES ASSUME NEW i \in 1..2 PROVE mayTransition(d, via[i], via[i + 1])
    BY <1>3
  <2>1. i = 1 \/ i = 2
    OBVIOUS
  <2> QED
    BY <1>3, <2>1
<1>5. walk(d, s, path).ok /\ walk(d, s, path).state = via[Len(via)]
  BY <1>2, <1>4, <1>6, WalkAll
<1> QED
  BY <1>1, <1>3, <1>5

LEMMA WalkThree ==
  ASSUME NEW d, NEW s \in RunState, NEW a \in RunState, NEW b \in RunState, NEW c \in RunState,
         mayTransition(d, s, a),
         mayTransition(d, a, b),
         mayTransition(d, b, c)
  PROVE  walk(d, s, <<a, b, c>>).ok /\ walk(d, s, <<a, b, c>>).state = c
<1>1. PICK path : path = <<a, b, c>>
  OBVIOUS
<1>6. path \in Seq(RunState)
  BY <1>1
<1>2. PICK via : via = <<s>> \o path
  OBVIOUS
<1>3. Len(via) = 4 /\ via[1] = s /\ via[2] = a /\ via[3] = b /\ via[4] = c
  BY <1>1, <1>2
<1>4. \A i \in 1..Len(via) - 1 : mayTransition(d, via[i], via[i + 1])
  <2> SUFFICES ASSUME NEW i \in 1..3 PROVE mayTransition(d, via[i], via[i + 1])
    BY <1>3
  <2>1. i = 1 \/ i = 2 \/ i = 3
    OBVIOUS
  <2> QED
    BY <1>3, <2>1
<1>5. walk(d, s, path).ok /\ walk(d, s, path).state = via[Len(via)]
  BY <1>2, <1>4, <1>6, WalkAll
<1> QED
  BY <1>1, <1>3, <1>5

\* A transition that is not allowed leaves the state.
LEMMA WalkRefused ==
  ASSUME NEW d, NEW s \in RunState, NEW a \in RunState, ~mayTransition(d, s, a)
  PROVE  ~walk(d, s, <<a>>).ok /\ walk(d, s, <<a>>).state = s
<1>1. PICK path : path = <<a>>
  OBVIOUS
<1>2. PICK via : via = <<s>> \o path
  OBVIOUS
<1>3. Len(via) = 2 /\ via[1] = s /\ via[2] = a /\ DOMAIN via = 1..2
  BY <1>1, <1>2
<1>4. 1 \in passed(d, via)
  BY <1>3 DEF passed
<1>5. 2 \notin passed(d, via)
  <2>1. 1 \in 1..2 - 1 /\ 1 + 1 = 2
    OBVIOUS
  <2> QED
    BY <1>3, <2>1 DEF passed
<1>6. passed(d, via) \subseteq {1, 2}
  BY <1>3 DEF passed
<1>7. passed(d, via) = {1}
  BY <1>4, <1>5, <1>6
<1>8. Max({1}) = 1
  BY FS_Singleton, MaxOfFinite
<1>9. /\ walk(d, s, path).state = via[Max(passed(d, via))]
      /\ walk(d, s, path).ok <=> Len(via) \in passed(d, via)
  BY <1>2, WalkIs
<1> QED
  BY <1>1, <1>3, <1>5, <1>7, <1>8, <1>9

\* What RunStateMachine lets a run do where the flow is.
StoppableStates == {"SYNCING_CLOCK", "ENTERING_RESERVATION", "SELECTING_DATE", "SELECTING_PERSON",
                    "WAITING_FOR_OPEN", "REFRESHING_SLOTS", "SLOT_CLICK_DISPATCHED",
                    "ADVANCING_RESERVATION", "COMPLETING_RESERVATION"}

LEMMA Allowed ==
  ASSUME NEW d \in BOOLEAN
  PROVE  /\ \A s \in StoppableStates :
              s \in RunState /\ s \notin TERMINAL
              /\ mayTransition(d, s, "STOPPED") /\ mayTransition(d, s, "FAILED")
         /\ \A s \in {"ENTERING_RESERVATION", "SELECTING_DATE", "SELECTING_PERSON",
                      "REFRESHING_SLOTS", "COMPLETING_RESERVATION"} :
              mayTransition(d, s, "HANDED_OFF") /\ mayTransition(d, s, "TIMED_OUT")
         /\ \A s \in {"SLOT_CLICK_DISPATCHED", "ADVANCING_RESERVATION", "PREPARING_PAGE",
                      "SLOT_TRANSITION_CONFIRMED"} :
              mayTransition(d, s, "HANDED_OFF")
         /\ mayTransition(d, "WAITING_FOR_OPEN", "TIMED_OUT")
         /\ ~mayTransition(d, "ADVANCING_RESERVATION", "TIMED_OUT")
         /\ mayTransition(d, "COMPLETING_RESERVATION", "COMPLETED")
         /\ TERMINAL \subseteq RunState
         /\ {"IDLE", "CONFIGURED", "VALIDATING", "PREPARING_PAGE", "SLOT_DETECTED",
             "SLOT_TRANSITION_CONFIRMED"} \subseteq RunState \ TERMINAL
         /\ ~mayTransition(d, "IDLE", "FAILED")
BY DEF RunState, ALLOWED, mayTransition, TERMINAL, Ended, PrepEnded, StoppableStates

\* The transitions the flow makes on its way.
LEMMA AllowedOn ==
  ASSUME NEW d \in BOOLEAN
  PROVE  /\ mayTransition(d, "IDLE", "CONFIGURED") /\ mayTransition(d, "CONFIGURED", "VALIDATING")
         /\ mayTransition(d, "VALIDATING", "FAILED")
         /\ mayTransition(d, "VALIDATING", "SYNCING_CLOCK")
         /\ mayTransition(d, "SYNCING_CLOCK", "ENTERING_RESERVATION")
         /\ mayTransition(d, "ENTERING_RESERVATION", "SELECTING_DATE")
         /\ mayTransition(d, "SELECTING_DATE", "SELECTING_PERSON")
         /\ mayTransition(d, "SYNCING_CLOCK", "PREPARING_PAGE")
         /\ mayTransition(d, "SELECTING_PERSON", "PREPARING_PAGE")
         /\ mayTransition(d, "PREPARING_PAGE", "WAITING_FOR_OPEN")
         /\ mayTransition(d, "WAITING_FOR_OPEN", "REFRESHING_SLOTS")
         /\ mayTransition(d, "REFRESHING_SLOTS", "SLOT_DETECTED")
         /\ mayTransition(d, "SLOT_DETECTED", "REFRESHING_SLOTS")
         /\ mayTransition(d, "SLOT_DETECTED", "DRY_RUN_COMPLETED")
         /\ mayTransition(d, "SLOT_DETECTED", "TIMED_OUT")
         /\ mayTransition(d, "SLOT_TRANSITION_CONFIRMED", "ADVANCING_RESERVATION")
         /\ mayTransition(d, "ADVANCING_RESERVATION", "COMPLETING_RESERVATION")
         /\ ~d => /\ mayTransition(d, "SLOT_DETECTED", "SLOT_CLICK_DISPATCHED")
                  /\ mayTransition(d, "SLOT_CLICK_DISPATCHED", "SLOT_TRANSITION_CONFIRMED")
BY DEF RunState, ALLOWED, mayTransition, TERMINAL, Ended, PrepEnded

-----------------------------------------------------------------------------
(* How a run ends *)

\* The state s, and whether execute rejects, fit how far the run got.
Fits(s, th) ==
  /\ s \in RunState /\ th \in BOOLEAN /\ claim # "asked"
  /\ s = "STOPPED" => abort /\ claim = "none"
  /\ s = "TIMED_OUT" => late /\ claim = "none"
  /\ s = "COMPLETED" => claim = "made"
  /\ s = "DRY_RUN_COMPLETED" => config.dryRun /\ slotClicks = 0 /\ executing
  /\ s = "FAILED" => claim = "none" /\ (th \/ ~executing)
  /\ s \notin TERMINAL => th /\ s = "IDLE" /\ ~executing

\* A step with which the flow ends, as it may.
Ends ==
  /\ ~Over /\ Finally
  /\ UNCHANGED <<config, abort, late, executing, slotClicks, claim, agreed>>
  /\ Fits(state', threw')
  /\ cause' = cause \/ (cause' \in Causes /\ state' = "HANDED_OFF" /\ ~executing)

\* The values of a run of which nothing is left.
LEMMA Nothing ==
  /\ NoStep \in Steps /\ NoStep.stage = "entry" /\ NoStep.attempts = 0 /\ NoStep.key = "none"
  /\ NoStep.confirm = "off" /\ NoStep.overall = "off"
  /\ NoSignal \in Signals /\ NoWake \in Wakes /\ NoWake.pending = NoSignal /\ NoWake.active = 0
  /\ AllOff \in [Timers -> Timer]
  /\ 0 \in 0..MaxCycles /\ 0 \in 0..MaxRequests
<1>1. 0 \in 0..MaxCycles /\ 0 \in 0..MaxRequests
  BY BoundsAssumption
<1>2. NoStep = [stage |-> "entry", attempts |-> 0, key |-> "none", retry |-> "off",
                confirm |-> "off", discovery |-> "off", overall |-> "off"]
  BY DEF NoStep, begin
<1>3. NoStep \in Steps
  BY <1>2 DEF Steps, Stages, Months, Timer
<1>4. NoSignal \in Signals
  BY <1>1 DEF NoSignal, Signals
<1>5. NoWake \in Wakes /\ NoWake.pending = NoSignal /\ NoWake.active = 0
  BY <1>1, <1>4 DEF NoWake, Wakes
<1>6. AllOff \in [Timers -> Timer]
  BY DEF AllOff, Timer
<1> QED
  BY <1>1, <1>2, <1>3, <1>4, <1>5, <1>6

\* The budgets of the stages, and which of them is bounded by the confirmation deadline.
LEMMA Budgets ==
  /\ spec["entry"].max = 2 /\ spec["entry"].confirm = TRUE
  /\ spec["month"].max = 3 /\ spec["month"].confirm = FALSE
  /\ spec["date"].max = 2 /\ spec["date"].confirm = FALSE
  /\ spec["person"].max = 2 /\ spec["person"].confirm = TRUE
BY DEF spec

\* All that is left of a set of watches is the one whose stop failed.
LEMMA OneIsLeft ==
  ASSUME NEW on, NEW failing
  PROVE  /\ leftover(on, failing) \subseteq on
         /\ Cardinality(leftover(on, failing)) <= 1
<1>1. leftover(on, failing) = {} \/ leftover(on, failing) = {failing}
  BY DEF leftover
<1>2. Cardinality({}) = 0 /\ Cardinality({failing}) = 1
  BY FS_EmptySet, FS_Singleton
<1>3. leftover(on, failing) \subseteq on
  BY DEF leftover
<1>4. Cardinality(leftover(on, failing)) = 0 \/ Cardinality(leftover(on, failing)) = 1
  BY <1>1, <1>2
<1> QED
  BY <1>3, <1>4

\* Such an ending keeps the invariant.
LEMMA EndsKeep ==
  ASSUME IInv, Ends
  PROVE  IInv'
<1>1. TypeOK /\ Progress /\ SlotClickedOnce /\ PaymentPolicyKept /\ ~Over
  BY DEF IInv, Ends
<1>2. /\ UNCHANGED <<config, abort, late, executing, slotClicks, claim, agreed>>
      /\ Fits(state', threw')
      /\ cause' = cause \/ (cause' \in Causes /\ state' = "HANDED_OFF" /\ ~executing)
  BY DEF Ends
<1>3. /\ pc' = "flush" /\ pin' = (IF pin = "held" THEN "gone" ELSE pin)
      /\ wake' = NoWake /\ signal' = NoSignal
      /\ timer' = AllOff /\ step' = NoStep /\ pressed' = 0
      /\ cycle' = 0 /\ result' = "none" /\ tracker' = [c \in 1..MaxCycles |-> 0]
      /\ known' = {} /\ requests' = <<>> /\ mail' = <<>>
      /\ held' = "none" /\ dismissed' = FALSE
  BY DEF Ends, Finally
<1>4. PICK failing : resources' = leftover(resources, failing)
  BY DEF Ends, Finally
<1>5. resources' \subseteq resources /\ Cardinality(resources') <= 1
  BY <1>4, OneIsLeft
<1>6. TypeOK'
  <2>1. config' \in Configs /\ state' \in RunState /\ threw' \in BOOLEAN /\ abort' \in BOOLEAN
        /\ late' \in BOOLEAN /\ executing' \in BOOLEAN /\ slotClicks' \in Nat
        /\ claim' \in {"none", "asked", "made", "over"} /\ agreed' \subseteq {"zero", "selected", "notice"}
    BY <1>1, <1>2 DEF TypeOK, Fits
  <2>2. cause' \in Causes \cup {"none"}
    BY <1>1, <1>2 DEF TypeOK
  <2>3. pin' \in {"none", "held", "taken", "gone"}
        /\ resources' \subseteq {"shadow", "slotWatch", "mutation", "clock"}
    BY <1>1, <1>3, <1>5 DEF TypeOK
  <2>4. timer' \in [Timers -> Timer] /\ step' \in Steps /\ pressed' \in Nat /\ cycle' \in 0..MaxCycles
    BY <1>3, Nothing
  <2>5. tracker' \in [1..MaxCycles -> 0..MaxRequests]
    BY <1>3, Nothing
  <2>6. Len(requests') <= MaxRequests
    <3>1. Len(<<>>) = 0
      OBVIOUS
    <3> QED
      BY <1>3, <3>1, BoundsAssumption
  <2> QED
    BY <1>3, <2>1, <2>2, <2>3, <2>4, <2>5, <2>6 DEF TypeOK
<1>7. WiresOK'
  <2>1. requests' \in Seq(Requests) /\ mail' \in Seq(Mails)
    BY <1>3
  <2>2. wake' \in Wakes /\ signal' \in Signals
    BY <1>3, Nothing
  <2>3. DOMAIN requests' = {} /\ DOMAIN mail' = {}
    BY <1>3
  <2> QED
    BY <2>1, <2>2, <2>3 DEF WiresOK
<1>8. Over' /\ ~Toggling'
  BY <1>3 DEF Over, Toggling
<1>9. Places' /\ Progress'
  BY <1>3, <1>8 DEF Places, Progress
<1>10. StepOK'
  BY <1>3, Nothing, Budgets DEF StepOK, Measured
<1>11. SignalsOK'
  BY <1>3, Nothing DEF SignalsOK
<1>12. SlotClickedOnce'
  BY <1>1, <1>2 DEF SlotClickedOnce, Fits
<1>13. PaymentPolicyKept'
  BY <1>1, <1>2 DEF PaymentPolicyKept
<1>14. LeavesNothingBehind'
  BY <1>3, <1>5 DEF LeavesNothingBehind
<1>15. EndingIsTrue'
  BY <1>2 DEF EndingIsTrue, Fits
<1> QED
  BY <1>6, <1>7, <1>9, <1>10, <1>11, <1>12, <1>13, <1>14, <1>15 DEF IInv

\* By a last path that is allowed, or by one transition that is not: then the run fails.
LEMMA EndByPath ==
  ASSUME IInv, ~Over, NEW path, EndBy(path),
         NEW s, walk(config.dryRun, state, path).ok, walk(config.dryRun, state, path).state = s,
         Fits(s, FALSE),
         cause' = cause \/ (cause' \in Causes /\ s = "HANDED_OFF" /\ ~executing)
  PROVE  Ends /\ state' = s
<1>1. state' = s /\ threw' = FALSE /\ Finally
      /\ UNCHANGED <<config, abort, late, executing, slotClicks, claim, agreed>>
  BY DEF EndBy
<1> QED
  BY <1>1 DEF Ends

\* An exception makes the run fail where that is allowed.
LEMMA CatchEnds ==
  ASSUME IInv, ~Over, NEW at, Catch(at), at \in RunState,
         UNCHANGED <<config, abort, late, done>>, claim = "none",
         mayTransition(config.dryRun, at, "FAILED")
           \/ (at = "IDLE" /\ ~executing /\ ~mayTransition(config.dryRun, at, "FAILED"))
  PROVE  Ends
<1>1. Finally /\ threw' = TRUE
      /\ state' = IF mayTransition(config.dryRun, at, "FAILED") THEN "FAILED" ELSE at
  BY DEF Catch
<1>2. "FAILED" \in RunState /\ "FAILED" \in TERMINAL /\ "IDLE" \notin TERMINAL
  BY DEF RunState, ALLOWED, TERMINAL
<1>3. Fits(state', threw')
  BY <1>1, <1>2 DEF Fits, TERMINAL
<1> QED
  BY <1>1, <1>3 DEF Ends, done

\* A flow that has not ended keeps the invariant when it keeps the parts about its way.
LEMMA RunningKeeps ==
  ASSUME TypeOK', WiresOK', Places', Progress', StepOK', SignalsOK', PaymentPolicyKept', ~Over'
  PROVE  IInv'
<1>1. slotClicks' = (IF pc' \in {"transition", "advance", "complete"} THEN 1 ELSE 0)
      /\ (pc' \in {"transition", "advance", "complete"} => ~config'.dryRun /\ executing')
  BY DEF Progress, Toggling
<1>2. pc' = "transition" => state' = "SLOT_CLICK_DISPATCHED"
  BY DEF Places
<1>3. pc' = "advance" => state' = "ADVANCING_RESERVATION"
  BY DEF Places
<1>4. pc' = "complete" => state' = "COMPLETING_RESERVATION"
  BY DEF Places
<1>5. SlotClickedOnce'
  BY <1>1, <1>2, <1>3, <1>4 DEF SlotClickedOnce
<1>6. LeavesNothingBehind' /\ EndingIsTrue'
  BY DEF LeavesNothingBehind, EndingIsTrue
<1> QED
  BY <1>5, <1>6 DEF IInv

\* What has to hold of a step that leaves a cycle before its time.
Knowingly ==
  result' = "EMPTY_EARLY_EXIT" /\ result = "none" =>
    /\ config.probe = "empty_exit"
    /\ inHand.seq = wake.last
    /\ LET asked == requests[inHand.seq] IN
         asked.body = "EMPTY" /\ asked.marker = cycle /\ cycle \in asked.win

\* A step that goes on, tells the supervisor nothing and does not bring the stop.
Silent == ~Over' /\ UNCHANGED <<executing, claim, abort>> /\ Knowingly

\* What every step of the flow is, but the ones by which the supervisor learns something.
Keeps == Ends \/ (IInv' /\ Silent)

\* What a running flow knows by the place it is at.
LEMMA Where ==
  ASSUME IInv
  PROVE  /\ config \in Config /\ config.dryRun \in BOOLEAN
         /\ pc = "sync" => state = "SYNCING_CLOCK"
         /\ pc = "prepare" => state \in {"ENTERING_RESERVATION", "SELECTING_DATE", "SELECTING_PERSON"}
         /\ pc = "open" => state = "WAITING_FOR_OPEN"
         /\ Toggling => state = "REFRESHING_SLOTS"
         /\ pc = "transition" => state = "SLOT_CLICK_DISPATCHED"
         /\ pc = "advance" => state = "ADVANCING_RESERVATION"
         /\ pc = "complete" => state = "COMPLETING_RESERVATION"
         /\ pc # "complete" /\ ~Over => claim = "none"
         /\ ~Over => cause = "none"
<1>1. TypeOK /\ Places /\ Progress
  BY DEF IInv
<1>2. config \in Config
  BY <1>1, ConfigsAssumption DEF TypeOK
<1>3. config.dryRun \in BOOLEAN
  BY <1>2 DEF Config
<1> QED
  BY <1>1, <1>2, <1>3 DEF Places, Progress

\* The user's stop ends the run, at every place where it is looked at.
LEMMA StopEnds ==
  ASSUME IInv, EndAs("STOPPED"), abort, claim = "none",
         pc \in {"sync", "prepare", "open", "transition", "advance", "complete"} \/ Toggling
  PROVE  Ends
<1>1. state \in StoppableStates /\ config.dryRun \in BOOLEAN
  BY Where DEF StoppableStates
<1>2. state \in RunState /\ "STOPPED" \in RunState /\ mayTransition(config.dryRun, state, "STOPPED")
  BY <1>1, Allowed DEF TERMINAL
<1>3. walk(config.dryRun, state, <<"STOPPED">>).ok
      /\ walk(config.dryRun, state, <<"STOPPED">>).state = "STOPPED"
  BY <1>2, WalkOne
<1>4. EndBy(<<"STOPPED">>) /\ cause' = cause
  BY DEF EndAs, End
<1>5. Fits("STOPPED", FALSE)
  BY <1>2 DEF Fits, TERMINAL
<1>6. ~Over
  BY DEF Over, Toggling
<1> QED
  BY <1>3, <1>4, <1>5, <1>6, EndByPath

\* The end of the watch, wherever the transition is allowed.
LEMMA TimeOutEnds ==
  ASSUME IInv, EndAs("TIMED_OUT"), late, claim = "none",
         pc \in {"prepare", "open", "complete"} \/ Toggling
  PROVE  Ends
<1>1. state \in {"ENTERING_RESERVATION", "SELECTING_DATE", "SELECTING_PERSON", "WAITING_FOR_OPEN",
                 "REFRESHING_SLOTS", "COMPLETING_RESERVATION"} /\ config.dryRun \in BOOLEAN
  BY Where
<1>2. state \in RunState /\ "TIMED_OUT" \in RunState
      /\ mayTransition(config.dryRun, state, "TIMED_OUT")
  BY <1>1, Allowed DEF TERMINAL, StoppableStates
<1>3. walk(config.dryRun, state, <<"TIMED_OUT">>).ok
      /\ walk(config.dryRun, state, <<"TIMED_OUT">>).state = "TIMED_OUT"
  BY <1>2, WalkOne
<1>4. EndBy(<<"TIMED_OUT">>) /\ cause' = cause
  BY DEF EndAs, End
<1>5. Fits("TIMED_OUT", FALSE)
  BY <1>2 DEF Fits, TERMINAL
<1>6. ~Over
  BY DEF Over, Toggling
<1> QED
  BY <1>3, <1>4, <1>5, <1>6, EndByPath

\* The user takes over, with or without a cause.
LEMMA HandOffEnds ==
  ASSUME IInv, EndBy(<<"HANDED_OFF">>), claim # "asked",
         pc \in {"prepare", "transition", "advance", "complete"} \/ Toggling,
         cause' = cause \/ (cause' \in Causes /\ ~executing)
  PROVE  Ends
<1>1. state \in {"ENTERING_RESERVATION", "SELECTING_DATE", "SELECTING_PERSON", "REFRESHING_SLOTS",
                 "SLOT_CLICK_DISPATCHED", "ADVANCING_RESERVATION", "COMPLETING_RESERVATION"}
      /\ config.dryRun \in BOOLEAN
  BY Where
<1>2. state \in RunState /\ "HANDED_OFF" \in RunState
      /\ mayTransition(config.dryRun, state, "HANDED_OFF")
  BY <1>1, Allowed DEF TERMINAL, StoppableStates
<1>3. walk(config.dryRun, state, <<"HANDED_OFF">>).ok
      /\ walk(config.dryRun, state, <<"HANDED_OFF">>).state = "HANDED_OFF"
  BY <1>2, WalkOne
<1>5. Fits("HANDED_OFF", FALSE)
  BY <1>2 DEF Fits, TERMINAL
<1>6. ~Over
  BY DEF Over, Toggling
<1> QED
  BY <1>3, <1>5, <1>6, EndByPath

LEMMA HandOffAs ==
  ASSUME IInv, EndAs("HANDED_OFF"), claim # "asked",
         pc \in {"prepare", "transition", "advance", "complete"} \/ Toggling
  PROVE  Ends
BY HandOffEnds DEF EndAs, End

\* An adapter throws.
LEMMA ThrowEnds ==
  ASSUME IInv, Throw
  PROVE  Ends
<1>1. pc \in {"sync", "prepare", "confirm", "adjacent", "target", "settle", "detect",
              "transition", "advance", "complete"}
      /\ claim = "none" /\ Catch(state) /\ UNCHANGED <<config, abort, late, done>>
  BY DEF Throw
<1>2. pc = "confirm" => state \in {"SYNCING_CLOCK", "SELECTING_PERSON"}
  BY DEF IInv, Places
<1>3. state \in StoppableStates /\ config.dryRun \in BOOLEAN
  BY <1>1, <1>2, Where DEF StoppableStates, Toggling
<1>4. state \in RunState /\ mayTransition(config.dryRun, state, "FAILED")
  BY <1>3, Allowed
<1>5. ~Over
  BY <1>1 DEF Over
<1> QED
  BY <1>1, <1>4, <1>5, CatchEnds

-----------------------------------------------------------------------------
(* Parts of the invariant that a step leaves alone *)

LEMMA WiresSame ==
  ASSUME WiresOK, UNCHANGED <<requests, mail, wake, signal>>
  PROVE  WiresOK'
BY DEF WiresOK

LEMMA StepSame ==
  ASSUME StepOK, UNCHANGED <<step, pressed>>
  PROVE  StepOK'
BY DEF StepOK, Measured

LEMMA PaymentsSame ==
  ASSUME PaymentPolicyKept, UNCHANGED <<config, agreed>>
  PROVE  PaymentPolicyKept'
BY DEF PaymentPolicyKept

\* Where no cycle is under way there is no signal.
LEMMA SignalsGone ==
  ASSUME wake' = NoWake, signal' = NoSignal, pc' \notin {"settle", "detect"},
         pc' \in {"adjacent", "target"} => cycle' \in 1..MaxCycles
  PROVE  SignalsOK'
BY Nothing DEF SignalsOK

LEMMA SignalsSame ==
  ASSUME SignalsOK, UNCHANGED <<config, cycle, wake, signal, requests>>,
         pc' \in {"settle", "detect"} <=> pc \in {"settle", "detect"},
         pc' \in {"adjacent", "target"} => pc \in {"adjacent", "target"}
  PROVE  SignalsOK'
BY DEF SignalsOK, meant

\* A step from one place before the toggling to another one.
LEMMA PreparingKeeps ==
  ASSUME IInv, pc \in {"start", "sync", "prepare"}, pc' \in {"sync", "prepare", "confirm"},
         state' \in RunState, UNCHANGED <<config, threw, abort, late, timer, world, hot, behind, done>>,
         pin' = pin, resources' \subseteq {"shadow", "slotWatch", "mutation", "clock"},
         step' \in Steps, pressed' \in Nat, StepOK', Places', pc' = "sync" => pressed' = 0
  PROVE  Keeps
<1>1. TypeOK /\ WiresOK /\ Progress /\ SignalsOK /\ PaymentPolicyKept
  BY DEF IInv
<1>2. UNCHANGED <<config, threw, abort, late, timer>> /\ UNCHANGED <<known, requests, mail>>
      /\ UNCHANGED <<cycle, result, wake, signal, tracker>> /\ UNCHANGED <<held, dismissed>>
      /\ UNCHANGED <<cause, executing, slotClicks, claim, agreed>>
  BY DEF world, hot, behind, done
<1>3. TypeOK'
  BY <1>1, <1>2 DEF TypeOK
<1>4. WiresOK' /\ PaymentPolicyKept'
  BY <1>1, <1>2, WiresSame, PaymentsSame
<1>5. SignalsOK'
  <2>1. wake = NoWake /\ signal = NoSignal
    BY <1>1 DEF SignalsOK
  <2> QED
    BY <1>2, <2>1, SignalsGone
<1>6. ~Over /\ ~Over' /\ ~Toggling'
  BY DEF Over, Toggling
<1>7. Progress'
  BY <1>1, <1>2, <1>6 DEF Progress
<1>8. IInv'
  BY <1>3, <1>4, <1>5, <1>6, <1>7, RunningKeeps
<1>9. Knowingly
  BY <1>2 DEF Knowingly
<1> QED
  BY <1>2, <1>6, <1>8, <1>9 DEF Keeps, Silent

-----------------------------------------------------------------------------
(* The steps up to the opening *)

LEMMA StartKeeps ==
  ASSUME IInv, Start
  PROVE  Keeps
<1>1. pc = "start" /\ state = "IDLE" /\ ~Over /\ config.dryRun \in BOOLEAN /\ cause = "none"
      /\ claim = "none" /\ ~executing /\ slotClicks = 0
  <2>1. pc = "start"
    BY DEF Start
  <2>2. ~Over
    BY <2>1 DEF Over
  <2> QED
    BY <2>1, <2>2, Where DEF IInv, Places, Progress
<1>2. "IDLE" \in RunState /\ "CONFIGURED" \in RunState /\ "VALIDATING" \in RunState
      /\ "SYNCING_CLOCK" \in RunState /\ "FAILED" \in RunState /\ "FAILED" \in TERMINAL
      /\ "IDLE" \notin TERMINAL
  BY <1>1, Allowed DEF TERMINAL, StoppableStates
<1>3. /\ mayTransition(config.dryRun, "IDLE", "CONFIGURED")
      /\ mayTransition(config.dryRun, "CONFIGURED", "VALIDATING")
      /\ mayTransition(config.dryRun, "VALIDATING", "FAILED")
      /\ mayTransition(config.dryRun, "VALIDATING", "SYNCING_CLOCK")
      /\ ~mayTransition(config.dryRun, "IDLE", "FAILED")
  BY <1>1, Allowed, AllowedOn
<1>4. CASE /\ resources' = {"slotWatch"} \cup (IF config.probe = "off" THEN {} ELSE {"shadow"})
           /\ Go(<<"CONFIGURED", "VALIDATING", "SYNCING_CLOCK">>, "sync")
           /\ UNCHANGED <<timer, world, hot, preparing, behind, done, pin>>
  <2>1. walk(config.dryRun, state, <<"CONFIGURED", "VALIDATING", "SYNCING_CLOCK">>).state
          = "SYNCING_CLOCK"
    BY <1>1, <1>2, <1>3, WalkThree
  <2>2. state' = "SYNCING_CLOCK" /\ pc' = "sync" /\ UNCHANGED <<config, threw, abort, late>>
    BY <1>4, <2>1 DEF Go
  <2>3. UNCHANGED <<step, pressed>> /\ step \in Steps /\ pressed = 0 /\ StepOK
    BY <1>1, <1>4 DEF preparing, IInv, TypeOK, Progress
  <2>4. StepOK'
    BY <2>3, StepSame
  <2>5. Places'
    BY <2>2 DEF Places, Toggling
  <2> QED
    BY <1>1, <1>2, <1>4, <2>2, <2>3, <2>4, <2>5, PreparingKeeps
<1>5. CASE Catch(state) /\ UNCHANGED <<config, abort, late, done>>
  BY <1>1, <1>2, <1>3, <1>5, CatchEnds DEF Keeps
<1>6. CASE End(<<"CONFIGURED", "VALIDATING", "FAILED">>)
  <2>1. walk(config.dryRun, state, <<"CONFIGURED", "VALIDATING", "FAILED">>).state = "FAILED"
        /\ walk(config.dryRun, state, <<"CONFIGURED", "VALIDATING", "FAILED">>).ok
    BY <1>1, <1>2, <1>3, WalkThree
  <2>2. EndBy(<<"CONFIGURED", "VALIDATING", "FAILED">>) /\ cause' = cause
    BY <1>6 DEF End
  <2>3. Fits("FAILED", FALSE)
    BY <1>1, <1>2 DEF Fits
  <2> QED
    BY <1>1, <2>1, <2>2, <2>3, EndByPath DEF Keeps
<1> QED
  BY <1>4, <1>5, <1>6 DEF Start

\* A step of the preparation at its beginning.
LEMMA Begun ==
  ASSUME NEW stage \in Stages, NEW overall \in Timer
  PROVE  /\ begin(stage, overall) \in Steps /\ begin(stage, overall).stage = stage
         /\ begin(stage, overall).attempts = 0 /\ begin(stage, overall).key = "none"
         /\ begin(stage, overall).confirm = "off" /\ begin(stage, overall).overall = overall
<1>1. begin(stage, overall) = [stage |-> stage, attempts |-> 0, key |-> "none", retry |-> "off",
                               confirm |-> "off", discovery |-> "set", overall |-> overall]
  BY DEF begin
<1>2. begin(stage, overall) \in Steps
  BY <1>1 DEF Steps, Months, Timer
<1> QED
  BY <1>1, <1>2

LEMMA Followed ==
  ASSUME NEW st \in Steps, NEW stage \in Stages
  PROVE  /\ follow(st, stage) \in Steps /\ follow(st, stage).stage = stage
         /\ follow(st, stage).attempts = 0 /\ follow(st, stage).key = "none"
<1>1. st.overall \in Timer /\ st.discovery \in Timer
  BY DEF Steps
<1>2. follow(st, stage)
        = [stage |-> stage, attempts |-> 0, key |-> "none", retry |-> "off",
           confirm |-> "off", discovery |-> st.discovery, overall |-> st.overall]
  BY DEF follow, begin
<1>3. follow(st, stage) \in Steps
  BY <1>1, <1>2 DEF Steps, Months, Timer
<1> QED
  BY <1>2, <1>3

\* The budget of a step that begins, or that follows another one, is whole.
LEMMA FreshStep ==
  ASSUME step'.stage \in Stages, step'.attempts = 0, step'.key = "none", pressed' = 0,
         step'.stage = "entry" => step'.overall = "off" /\ step'.confirm = "off"
  PROVE  StepOK'
<1>1. spec[step'.stage].max >= 0
  BY Budgets DEF Stages
<1> QED
  BY <1>1 DEF StepOK, Measured

LEMMA SyncedKeeps ==
  ASSUME IInv, Synced
  PROVE  Keeps
<1>1. pc = "sync" /\ state = "SYNCING_CLOCK" /\ ~Over /\ config.dryRun \in BOOLEAN /\ claim = "none"
  <2>1. pc = "sync"
    BY DEF Synced
  <2>2. ~Over
    BY <2>1 DEF Over
  <2> QED
    BY <2>1, <2>2, Where
<1>2. CASE abort
  BY <1>1, <1>2, StopEnds DEF Synced, Keeps
<1>3. CASE ~abort
  <2>1. resources' = resources \cup {"clock"}
        /\ UNCHANGED <<pressed, timer, world, hot, behind, done, pin>>
    BY <1>3 DEF Synced
  <2>2. step \in Steps /\ pressed \in Nat /\ StepOK /\ state \in RunState
        /\ resources \subseteq {"shadow", "slotWatch", "mutation", "clock"}
    BY DEF IInv, TypeOK
  <2>3. resources' \subseteq {"shadow", "slotWatch", "mutation", "clock"}
    BY <2>1, <2>2
  <2>4. CASE config.auto
    <3>1. Go(<<"ENTERING_RESERVATION">>, "prepare") /\ step' = begin("entry", "off")
      BY <1>3, <2>4 DEF Synced
    <3>2. mayTransition(config.dryRun, state, "ENTERING_RESERVATION")
          /\ "ENTERING_RESERVATION" \in RunState
      BY <1>1, Allowed, AllowedOn DEF StoppableStates
    <3>3. walk(config.dryRun, state, <<"ENTERING_RESERVATION">>).state = "ENTERING_RESERVATION"
      BY <2>2, <3>2, WalkOne
    <3>4. state' = "ENTERING_RESERVATION" /\ pc' = "prepare"
          /\ UNCHANGED <<config, threw, abort, late>>
      BY <3>1, <3>3 DEF Go
    <3>5. step' \in Steps /\ step'.stage = "entry" /\ step'.attempts = 0 /\ step'.key = "none"
          /\ step'.confirm = "off" /\ step'.overall = "off"
      BY <3>1, Begun DEF Stages, Timer
    <3>6. pressed' = 0
      BY <1>1, <2>1 DEF IInv, Progress
    <3>7. StepOK'
      BY <3>5, <3>6, FreshStep DEF Stages
    <3>8. Places'
      BY <3>4, <3>5 DEF Places, Toggling
    <3> QED
      BY <1>1, <2>1, <2>3, <3>2, <3>4, <3>5, <3>6, <3>7, <3>8, PreparingKeeps
  <2>5. CASE ~config.auto
    <3>1. Go(<<>>, "confirm") /\ UNCHANGED step
      BY <1>3, <2>5 DEF Synced, Stay
    <3>2. walk(config.dryRun, state, <<>>).state = state
      BY <2>2, WalkStay
    <3>3. state' = "SYNCING_CLOCK" /\ pc' = "confirm" /\ UNCHANGED <<config, threw, abort, late>>
      BY <1>1, <3>1, <3>2 DEF Go
    <3>4. StepOK'
      BY <2>1, <2>2, <3>1, StepSame
    <3>5. Places'
      BY <3>3 DEF Places, Toggling
    <3> QED
      BY <1>1, <2>1, <2>2, <2>3, <3>1, <3>3, <3>4, <3>5, PreparingKeeps
  <2> QED
    BY <2>4, <2>5
<1> QED
  BY <1>2, <1>3

-----------------------------------------------------------------------------
(* One poll of a preparation step *)

\* What a stage makes of its facts.
LEMMA SpecFacts ==
  ASSUME NEW stage \in Stages, NEW f \in factsOf(stage), NEW seen, seen = specOf(stage, f)
  PROVE  /\ seen.fatal \in (Causes \ {"ENTRY_CTA_MISSING", "ENTRY_TRANSITION_STALLED"}) \cup {"none"}
         /\ seen.press \in {"cta", "month", "date", "person"}
         /\ seen.progressKey \in Months \cup {"steady"}
         /\ stage \in {"entry", "person"} => seen.progressKey = "steady"
         /\ seen.interrupt => stage = "date"
<1>1. CASE stage = "entry"
  <2>1. seen = entrySpec(f)
    BY <1>1 DEF specOf
  <2> QED
    BY <1>1, <2>1 DEF entrySpec, classifyEntryFatal, Causes, BlockedCauses, StalledCauses
<1>2. CASE stage = "month"
  <2>1. seen = monthSpec(f)
    BY <1>2 DEF specOf
  <2>2. f \in CalendarFacts
    BY <1>2 DEF factsOf
  <2>3. f.month \in Months
    BY <2>2 DEF CalendarFacts
  <2> QED
    BY <1>2, <2>1, <2>3 DEF monthSpec, classifyMonthFatal, Causes, BlockedCauses, StalledCauses
<1>3. CASE stage = "date"
  <2>1. seen = dateSpec(f)
    BY <1>3 DEF specOf
  <2> QED
    BY <1>3, <2>1 DEF dateSpec, classifyDateFatal, Causes, BlockedCauses, StalledCauses
<1>4. CASE stage = "person"
  <2>1. seen = personSpec(f)
    BY <1>4 DEF specOf
  <2> QED
    BY <1>4, <2>1 DEF personSpec, classifyPersonFatal, Causes, BlockedCauses, StalledCauses
<1> QED
  BY <1>1, <1>2, <1>3, <1>4 DEF Stages

\* Progress keeps what a step is, and where nothing counts as progress also its budget.
LEMMA NotedFacts ==
  ASSUME NEW st \in Steps, NEW key \in Months \cup {"steady"}, NEW r, r = noted(st, key)
  PROVE  /\ r \in Steps /\ r.stage = st.stage /\ r.overall = st.overall
         /\ r.attempts \in {0, st.attempts}
         /\ key = "steady" /\ st.key \in {"none", "steady"} =>
              r.attempts = st.attempts /\ r.key = "steady" /\ r.confirm = st.confirm
<1> DEFINE kept == [st EXCEPT !.key = IF key # "none" THEN key ELSE @]
<1>1. kept \in Steps /\ kept.stage = st.stage /\ kept.overall = st.overall
      /\ kept.attempts = st.attempts /\ kept.confirm = st.confirm
      /\ kept.key = (IF key # "none" THEN key ELSE st.key)
  BY DEF Steps
<1> DEFINE fresh == [kept EXCEPT !.attempts = 0, !.retry = "off", !.confirm = "off"]
<1>2. fresh \in Steps /\ fresh.stage = st.stage /\ fresh.overall = st.overall /\ fresh.attempts = 0
  <2> HIDE DEF kept
  <2> QED
    BY <1>1 DEF Steps, Timer
<1>3. r = IF key # "none" /\ st.key # "none" /\ key # st.key THEN fresh ELSE kept
  BY DEF noted
<1> HIDE DEF kept, fresh
<1> QED
  BY <1>1, <1>2, <1>3

LEMMA ClearedFacts ==
  ASSUME NEW st \in Steps, NEW f, NEW r, r = cleared(st, f)
  PROVE  r \in Steps /\ r.stage = st.stage /\ r.overall = st.overall /\ r.attempts = st.attempts
         /\ r.key = st.key /\ r.confirm = st.confirm
BY DEF cleared, Steps, Timer

LEMMA DispatchedFacts ==
  ASSUME NEW st \in Steps, NEW r, r = dispatched(st)
  PROVE  /\ r \in Steps /\ r.stage = st.stage /\ r.overall = st.overall /\ r.key = st.key
         /\ r.attempts = st.attempts + 1 /\ r.retry = "set"
         /\ spec[st.stage].confirm /\ st.confirm = "off" => r.confirm = "set"
<1> DEFINE c == IF spec[st.stage].confirm /\ st.confirm = "off" THEN "set" ELSE st.confirm
<1>1. c \in Timer /\ (spec[st.stage].confirm /\ st.confirm = "off" => c = "set")
  BY DEF Steps, Timer
<1>2. r = [st EXCEPT !.attempts = @ + 1, !.retry = "set", !.confirm = c]
  BY DEF dispatched
<1> HIDE DEF c
<1>3. st.attempts \in Nat /\ st.attempts + 1 \in Nat
  BY DEF Steps
<1>4. r.stage = st.stage /\ r.overall = st.overall /\ r.key = st.key /\ r.confirm = c
      /\ r.attempts = st.attempts + 1 /\ r.retry = "set"
  BY <1>2 DEF Steps
<1>5. r \in Steps
  BY <1>1, <1>2, <1>3 DEF Steps, Timer
<1> QED
  BY <1>1, <1>4, <1>5

\* How a poll ends, by the step that the dispatch in it leaves.
LEMMA PollIs ==
  ASSUME NEW before \in Steps, NEW f \in factsOf(before.stage), NEW r, r = poll(before, f)
  PROVE  \E read \in Steps, after \in Steps :
           /\ read = cleared(noted(before, specOf(before.stage, f).progressKey), f)
           /\ after = IF dispatches(read, f) THEN dispatched(read) ELSE read
           /\ \/ r.kind = "ready" \/ (r.kind = "interrupted" /\ before.stage = "date")
              \/ /\ r.kind = "failed"
                 /\ r.cause \in Causes \ {"ENTRY_CTA_MISSING", "ENTRY_TRANSITION_STALLED"}
              \/ /\ r.kind = "failed" /\ overdue(after)
                 /\ r.cause = classifyStall(before.stage, after.attempts)
              \/ /\ r.kind = "continue" /\ r.step = after
                 /\ specOf(before.stage, f).press \in r.press <=> dispatches(read, f)
<1>1. PICK seen : seen = specOf(before.stage, f)
  OBVIOUS
<1>2. before.stage \in Stages
  BY DEF Steps
<1>3. /\ seen.fatal \in (Causes \ {"ENTRY_CTA_MISSING", "ENTRY_TRANSITION_STALLED"}) \cup {"none"}
      /\ seen.press \in {"cta", "month", "date", "person"}
      /\ seen.progressKey \in Months \cup {"steady"}
      /\ seen.interrupt => before.stage = "date"
  BY <1>1, <1>2, SpecFacts
<1>4. PICK st \in Steps : st = noted(before, seen.progressKey)
  BY <1>3, NotedFacts
<1>5. PICK read \in Steps : read = cleared(st, f)
  BY ClearedFacts
<1>6. PICK after \in Steps : after = IF dispatches(read, f) THEN dispatched(read) ELSE read
  BY DispatchedFacts
<1> DEFINE press == (IF dismisses(st, f) THEN {"promo"} ELSE {})
                      \cup (IF dispatches(read, f) THEN {seen.press} ELSE {})
<1>7. r = IF seen.isReady
          THEN [kind |-> "ready", cause |-> "none", step |-> before, press |-> {}]
          ELSE IF seen.interrupt
          THEN [kind |-> "interrupted", cause |-> "none", step |-> before, press |-> {}]
          ELSE IF seen.fatal # "none"
          THEN [kind |-> "failed", cause |-> seen.fatal, step |-> before, press |-> {}]
          ELSE IF overdue(after)
          THEN [kind |-> "failed", cause |-> classifyStall(before.stage, after.attempts),
                step |-> after, press |-> press]
          ELSE [kind |-> "continue", cause |-> "none", step |-> after, press |-> press]
  BY <1>1, <1>4, <1>5, <1>6 DEF poll
<1>8. seen.press \in press <=> dispatches(read, f)
  BY <1>3
<1> HIDE DEF press
<1>9. \/ r.kind = "ready" \/ (r.kind = "interrupted" /\ seen.interrupt)
      \/ r.kind = "failed" /\ r.cause = seen.fatal /\ seen.fatal # "none"
      \/ r.kind = "failed" /\ overdue(after) /\ r.cause = classifyStall(before.stage, after.attempts)
      \/ r.kind = "continue" /\ r.step = after /\ r.press = press
  BY <1>7
<1>10. \/ r.kind = "ready" \/ (r.kind = "interrupted" /\ before.stage = "date")
       \/ /\ r.kind = "failed"
          /\ r.cause \in Causes \ {"ENTRY_CTA_MISSING", "ENTRY_TRANSITION_STALLED"}
       \/ /\ r.kind = "failed" /\ overdue(after)
          /\ r.cause = classifyStall(before.stage, after.attempts)
       \/ /\ r.kind = "continue" /\ r.step = after
          /\ specOf(before.stage, f).press \in r.press <=> dispatches(read, f)
  BY <1>1, <1>3, <1>8, <1>9
<1>11. read = cleared(noted(before, specOf(before.stage, f).progressKey), f)
  BY <1>1, <1>4, <1>5
<1> QED
  BY <1>6, <1>10, <1>11

\* A poll that does not end the step keeps its measure; and the causes of a failed entry
\* tell whether its control was pressed.
LEMMA PollFacts ==
  ASSUME NEW before \in Steps, NEW n \in Nat, Measured(before, n),
         NEW f \in factsOf(before.stage), NEW r, r = poll(before, f),
         NEW m, m = IF specOf(before.stage, f).press \in r.press /\ spec[before.stage].confirm
                    THEN n + 1 ELSE n
  PROVE  /\ r.kind \in {"ready", "interrupted", "failed", "continue"}
         /\ r.kind = "interrupted" => before.stage = "date"
         /\ r.kind = "failed" =>
              /\ r.cause \in Causes
              /\ r.cause = "ENTRY_CTA_MISSING" => n = 0
              /\ r.cause = "ENTRY_TRANSITION_STALLED" => n > 0
         /\ r.kind = "continue" =>
              r.step \in Steps /\ r.step.stage = before.stage /\ m \in Nat /\ Measured(r.step, m)
<1>1. PICK read \in Steps, after \in Steps :
        /\ read = cleared(noted(before, specOf(before.stage, f).progressKey), f)
        /\ after = IF dispatches(read, f) THEN dispatched(read) ELSE read
        /\ \/ r.kind = "ready" \/ (r.kind = "interrupted" /\ before.stage = "date")
           \/ /\ r.kind = "failed"
              /\ r.cause \in Causes \ {"ENTRY_CTA_MISSING", "ENTRY_TRANSITION_STALLED"}
           \/ /\ r.kind = "failed" /\ overdue(after)
              /\ r.cause = classifyStall(before.stage, after.attempts)
           \/ /\ r.kind = "continue" /\ r.step = after
              /\ specOf(before.stage, f).press \in r.press <=> dispatches(read, f)
  BY PollIs
<1>2. before.stage \in Stages /\ before.attempts \in Nat /\ read.attempts \in Nat
      /\ spec[before.stage].max \in Nat
  BY Budgets DEF Steps, Stages
<1>3. PICK key \in Months \cup {"steady"} :
        /\ key = specOf(before.stage, f).progressKey
        /\ before.stage \in {"entry", "person"} => key = "steady"
  BY <1>2, SpecFacts
<1>4. PICK st \in Steps :
        /\ st = noted(before, key) /\ st.stage = before.stage /\ st.overall = before.overall
        /\ st.attempts \in {0, before.attempts}
        /\ key = "steady" /\ before.key \in {"none", "steady"} =>
             st.attempts = before.attempts /\ st.key = "steady" /\ st.confirm = before.confirm
  BY NotedFacts
<1>5. read = cleared(st, f)
  BY <1>1, <1>3, <1>4
<1>6. read.stage = st.stage /\ read.overall = st.overall /\ read.attempts = st.attempts
      /\ read.key = st.key /\ read.confirm = st.confirm
  BY <1>5, ClearedFacts
<1>7. before.attempts <= spec[before.stage].max
  BY DEF Measured
<1>8. read.stage = before.stage /\ read.overall = before.overall
      /\ read.attempts <= spec[before.stage].max
  BY <1>2, <1>4, <1>6, <1>7
<1>9. before.stage \in {"entry", "person"} =>
        n = read.attempts /\ read.key = "steady" /\ read.confirm = before.confirm
        /\ read.attempts = before.attempts
  BY <1>3, <1>4, <1>6, Budgets DEF Measured
<1>10. before.stage \in {"month", "date"} => n = 0
  BY Budgets DEF Measured
<1>11. CASE dispatches(read, f)
  <2>1. /\ after.stage = before.stage /\ after.overall = before.overall /\ after.key = read.key
        /\ after.attempts = read.attempts + 1 /\ after.retry = "set"
        /\ spec[read.stage].confirm /\ read.confirm = "off" => after.confirm = "set"
    BY <1>1, <1>8, <1>11, DispatchedFacts
  <2>2. read.attempts < spec[before.stage].max
    BY <1>8, <1>11 DEF dispatches
  <2>3. after.attempts <= spec[before.stage].max /\ after.attempts # 0
    BY <1>2, <2>1, <2>2
  <2>4. r.kind = "continue" => Measured(after, m) /\ m \in Nat
    <3>1. CASE before.stage \in {"entry", "person"}
      <4>1. r.kind = "continue" => m = n + 1
        BY <1>1, <1>11, <3>1, Budgets
      <4>2. before.stage = "entry" => before.overall = "off"
        BY DEF Measured
      <4> QED
        BY <1>2, <1>9, <2>1, <2>3, <3>1, <4>1, <4>2, Budgets DEF Measured
    <3>2. CASE before.stage \in {"month", "date"}
      <4>1. m = 0
        BY <1>10, <3>2, Budgets
      <4> QED
        BY <2>1, <2>3, <3>2, <4>1, Budgets DEF Measured
    <3> QED
      BY <1>2, <3>1, <3>2 DEF Stages
  <2>5. classifyStall(before.stage, after.attempts) \in Causes \ {"ENTRY_CTA_MISSING"}
    BY <1>2, <2>3 DEF classifyStall, Causes, StalledCauses, Stages
  <2>6. overdue(after) /\ classifyStall(before.stage, after.attempts) = "ENTRY_TRANSITION_STALLED"
          => n > 0
    <3> SUFFICES ASSUME overdue(after), n = 0,
                        classifyStall(before.stage, after.attempts) = "ENTRY_TRANSITION_STALLED"
                 PROVE  FALSE
      BY <1>2
    <3>1. before.stage = "entry"
      BY <1>2 DEF classifyStall, Stages
    <3>2. before.attempts = 0 /\ before.confirm = "off" /\ before.overall = "off"
      BY <1>9, <3>1 DEF Measured
    <3>3. after.confirm = "set" /\ after.overall = "off" /\ after.attempts = 1
      BY <1>8, <1>9, <2>1, <3>1, <3>2, Budgets
    <3> QED
      BY <2>1, <3>1, <3>3, Budgets DEF overdue
  <2> QED
    BY <1>1, <2>1, <2>4, <2>5, <2>6
<1>12. CASE ~dispatches(read, f)
  <2>1. after = read
    BY <1>1, <1>12
  <2>2. r.kind = "continue" => m = n
    BY <1>1, <1>12
  <2>3. r.kind = "continue" => Measured(read, m)
    <3>1. CASE before.stage \in {"entry", "person"}
      BY <1>8, <1>9, <2>2, <3>1, Budgets DEF Measured
    <3>2. CASE before.stage \in {"month", "date"}
      BY <1>8, <1>10, <2>2, <3>2, Budgets DEF Measured
    <3> QED
      BY <1>2, <3>1, <3>2 DEF Stages
  <2>4. classifyStall(before.stage, read.attempts) \in Causes
        /\ (classifyStall(before.stage, read.attempts) = "ENTRY_CTA_MISSING" => n = 0)
        /\ (classifyStall(before.stage, read.attempts) = "ENTRY_TRANSITION_STALLED" => n > 0)
    BY <1>2, <1>9 DEF classifyStall, Causes, StalledCauses, Stages
  <2> QED
    BY <1>1, <1>8, <2>1, <2>2, <2>3, <2>4
<1> QED
  BY <1>11, <1>12

\* A preparing flow stays or takes one transition.
LEMMA PreparedKeeps ==
  ASSUME IInv, pc = "prepare", Prepared
  PROVE  Keeps
<1>1. /\ pressed' = 0 /\ UNCHANGED <<timer, world, hot, behind, owned, done>>
      /\ CASE step.stage = "entry" ->
                Go(<<"SELECTING_DATE">>, "prepare") /\ step' = begin("month", "set")
           [] step.stage = "month" -> Stay("prepare") /\ step' = follow(step, "date")
           [] step.stage = "date" ->
                Go(<<"SELECTING_PERSON">>, "prepare") /\ step' = begin("person", "off")
           [] step.stage = "person" -> Stay("confirm") /\ step' = NoStep
  BY DEF Prepared
<1>2. step \in Steps /\ step.stage \in Stages /\ config.dryRun \in BOOLEAN /\ state \in RunState
      /\ resources' \subseteq {"shadow", "slotWatch", "mutation", "clock"} /\ UNCHANGED pin
  BY <1>1, Where DEF IInv, TypeOK, Steps, owned
<1>3. state = IF step.stage = "entry" THEN "ENTERING_RESERVATION"
              ELSE IF step.stage = "person" THEN "SELECTING_PERSON" ELSE "SELECTING_DATE"
  BY DEF IInv, Places
<1>4. {"ENTERING_RESERVATION", "SELECTING_DATE", "SELECTING_PERSON"} \subseteq RunState
  BY <1>2, Allowed DEF StoppableStates
<1>5. CASE step.stage = "entry"
  <2>1. Go(<<"SELECTING_DATE">>, "prepare") /\ step' = begin("month", "set")
    BY <1>1, <1>5
  <2>2. walk(config.dryRun, state, <<"SELECTING_DATE">>).state = "SELECTING_DATE"
    BY <1>2, <1>3, <1>4, <1>5, AllowedOn, WalkOne
  <2>3. state' = "SELECTING_DATE" /\ pc' = "prepare" /\ UNCHANGED <<config, threw, abort, late>>
    BY <2>1, <2>2 DEF Go
  <2>4. step' \in Steps /\ step'.stage = "month" /\ step'.attempts = 0 /\ step'.key = "none"
    BY <2>1, Begun DEF Stages, Timer
  <2>5. StepOK'
    BY <1>1, <2>4, FreshStep DEF Stages
  <2>6. Places'
    BY <2>3, <2>4 DEF Places, Toggling
  <2> QED
    BY <1>1, <1>2, <1>4, <2>3, <2>4, <2>5, <2>6, PreparingKeeps
<1>6. CASE step.stage = "month"
  <2>1. Go(<<>>, "prepare") /\ step' = follow(step, "date")
    BY <1>1, <1>6 DEF Stay
  <2>2. walk(config.dryRun, state, <<>>).state = state
    BY <1>2, WalkStay
  <2>3. state' = "SELECTING_DATE" /\ pc' = "prepare" /\ UNCHANGED <<config, threw, abort, late>>
    BY <1>3, <1>6, <2>1, <2>2 DEF Go
  <2>4. step' \in Steps /\ step'.stage = "date" /\ step'.attempts = 0 /\ step'.key = "none"
    BY <1>2, <2>1, Followed DEF Stages
  <2>5. StepOK'
    BY <1>1, <2>4, FreshStep DEF Stages
  <2>6. Places'
    BY <2>3, <2>4 DEF Places, Toggling
  <2> QED
    BY <1>1, <1>2, <1>4, <2>3, <2>4, <2>5, <2>6, PreparingKeeps
<1>7. CASE step.stage = "date"
  <2>1. Go(<<"SELECTING_PERSON">>, "prepare") /\ step' = begin("person", "off")
    BY <1>1, <1>7
  <2>2. walk(config.dryRun, state, <<"SELECTING_PERSON">>).state = "SELECTING_PERSON"
    BY <1>2, <1>3, <1>4, <1>7, AllowedOn, WalkOne
  <2>3. state' = "SELECTING_PERSON" /\ pc' = "prepare" /\ UNCHANGED <<config, threw, abort, late>>
    BY <2>1, <2>2 DEF Go
  <2>4. step' \in Steps /\ step'.stage = "person" /\ step'.attempts = 0 /\ step'.key = "none"
    BY <2>1, Begun DEF Stages, Timer
  <2>5. StepOK'
    BY <1>1, <2>4, FreshStep DEF Stages
  <2>6. Places'
    BY <2>3, <2>4 DEF Places, Toggling
  <2> QED
    BY <1>1, <1>2, <1>4, <2>3, <2>4, <2>5, <2>6, PreparingKeeps
<1>8. CASE step.stage = "person"
  <2>1. Go(<<>>, "confirm") /\ step' = NoStep
    BY <1>1, <1>8 DEF Stay
  <2>2. walk(config.dryRun, state, <<>>).state = state
    BY <1>2, WalkStay
  <2>3. state' = "SELECTING_PERSON" /\ pc' = "confirm" /\ UNCHANGED <<config, threw, abort, late>>
    BY <1>3, <1>8, <2>1, <2>2 DEF Go
  <2>4. step' \in Steps /\ step'.stage = "entry" /\ step'.attempts = 0 /\ step'.key = "none"
        /\ step'.confirm = "off" /\ step'.overall = "off"
    BY <2>1, Nothing
  <2>5. StepOK'
    BY <1>1, <2>4, FreshStep DEF Stages
  <2>6. Places'
    BY <2>3, <2>4 DEF Places, Toggling
  <2> QED
    BY <1>1, <1>2, <1>4, <2>3, <2>4, <2>5, <2>6, PreparingKeeps
<1> QED
  BY <1>2, <1>5, <1>6, <1>7, <1>8 DEF Stages

\* A preparing flow polls on, at the same stage or at the month again.
LEMMA PollingKeeps ==
  ASSUME IInv, pc = "prepare", Stay("prepare"),
         UNCHANGED <<timer, world, hot, behind, owned, done>>,
         step' \in Steps, pressed' \in Nat, StepOK',
         step'.stage = step.stage \/ (step.stage = "date" /\ step'.stage = "month")
  PROVE  Keeps
<1>1. config.dryRun \in BOOLEAN /\ state \in RunState
      /\ resources' \subseteq {"shadow", "slotWatch", "mutation", "clock"} /\ UNCHANGED pin
  BY Where DEF IInv, TypeOK, owned
<1>2. walk(config.dryRun, state, <<>>).state = state
  BY <1>1, WalkStay
<1>3. state' = state /\ pc' = "prepare" /\ UNCHANGED <<config, threw, abort, late>>
  BY <1>2 DEF Stay, Go
<1>4. state = IF step.stage = "entry" THEN "ENTERING_RESERVATION"
              ELSE IF step.stage = "person" THEN "SELECTING_PERSON" ELSE "SELECTING_DATE"
  BY DEF IInv, Places
<1>5. Places'
  BY <1>3, <1>4 DEF Places, Toggling
<1> QED
  BY <1>1, <1>3, <1>5, PreparingKeeps

LEMMA PrepareKeeps ==
  ASSUME IInv, Prepare
  PROVE  /\ Keeps
         /\ cause' # cause =>
              /\ cause' = "ENTRY_CTA_MISSING" => pressed = 0
              /\ cause' = "ENTRY_TRANSITION_STALLED" => pressed > 0
<1>1. pc = "prepare" /\ ~Over
  BY DEF Prepare, Over
<1>2. claim = "none" /\ ~executing /\ cause = "none" /\ step \in Steps /\ pressed \in Nat
      /\ Measured(step, pressed)
  BY <1>1, Where DEF IInv, TypeOK, Progress, StepOK
<1>3. CASE abort
  <2>1. EndAs("STOPPED")
    BY <1>3 DEF Prepare
  <2>2. cause' = cause
    BY <2>1 DEF EndAs, End
  <2> QED
    BY <1>1, <1>2, <1>3, <2>1, <2>2, StopEnds DEF Keeps
<1>4. CASE ~abort /\ late
  <2>1. EndAs("TIMED_OUT")
    BY <1>4 DEF Prepare
  <2>2. cause' = cause
    BY <2>1 DEF EndAs, End
  <2> QED
    BY <1>1, <1>2, <1>4, <2>1, <2>2, TimeOutEnds DEF Keeps
<1>5. CASE ~abort /\ ~late
  <2>1. PICK f \in factsOf(step.stage) :
          LET seen == poll(step, f)
              presses == IF specOf(step.stage, f).press \in seen.press /\ spec[step.stage].confirm
                         THEN pressed + 1 ELSE pressed
          IN CASE seen.kind = "ready" -> Prepared
               [] seen.kind = "failed" -> EndBy(<<"HANDED_OFF">>) /\ cause' = seen.cause
               [] seen.kind = "interrupted" /\ step.overall = "due" ->
                    EndBy(<<"HANDED_OFF">>) /\ cause' = "DATE_SELECTION_STALLED"
               [] OTHER ->
                    /\ Stay("prepare")
                    /\ IF seen.kind = "interrupted"
                       THEN step' = follow(step, "month") /\ pressed' = 0
                       ELSE step' = seen.step /\ pressed' = presses
                    /\ UNCHANGED <<timer, world, hot, behind, owned, done>>
    BY <1>5 DEF Prepare
  <2>2. PICK seen : seen = poll(step, f)
    OBVIOUS
  <2>3. PICK m : m = IF specOf(step.stage, f).press \in seen.press /\ spec[step.stage].confirm
                     THEN pressed + 1 ELSE pressed
    OBVIOUS
  <2>4. /\ seen.kind \in {"ready", "interrupted", "failed", "continue"}
        /\ seen.kind = "interrupted" => step.stage = "date"
        /\ seen.kind = "failed" =>
             /\ seen.cause \in Causes
             /\ seen.cause = "ENTRY_CTA_MISSING" => pressed = 0
             /\ seen.cause = "ENTRY_TRANSITION_STALLED" => pressed > 0
        /\ seen.kind = "continue" =>
             seen.step \in Steps /\ seen.step.stage = step.stage /\ m \in Nat /\ Measured(seen.step, m)
    BY <1>2, <2>2, <2>3, PollFacts
  <2>5. CASE seen.kind = "ready"
    <3>1. Prepared
      BY <2>1, <2>2, <2>5
    <3>2. cause' = cause
      BY <3>1 DEF Prepared, done
    <3> QED
      BY <1>1, <3>1, <3>2, PreparedKeeps
  <2>6. CASE seen.kind = "failed"
    <3>1. EndBy(<<"HANDED_OFF">>) /\ cause' = seen.cause
      BY <2>1, <2>2, <2>6
    <3> QED
      BY <1>1, <1>2, <2>4, <2>6, <3>1, HandOffEnds DEF Keeps
  <2>7. CASE seen.kind = "interrupted" /\ step.overall = "due"
    <3>1. EndBy(<<"HANDED_OFF">>) /\ cause' = "DATE_SELECTION_STALLED"
      BY <2>1, <2>2, <2>7
    <3>2. cause' \in Causes
      BY <3>1 DEF Causes, StalledCauses
    <3> QED
      BY <1>1, <1>2, <3>1, <3>2, HandOffEnds DEF Keeps
  <2>8. CASE seen.kind = "interrupted" /\ step.overall # "due"
    <3>1. Stay("prepare") /\ step' = follow(step, "month") /\ pressed' = 0
          /\ UNCHANGED <<timer, world, hot, behind, owned, done>>
      BY <2>1, <2>2, <2>8
    <3>2. step' \in Steps /\ step'.stage = "month" /\ step'.attempts = 0 /\ step'.key = "none"
      BY <1>2, <3>1, Followed DEF Stages
    <3>3. StepOK'
      BY <3>1, <3>2, FreshStep DEF Stages
    <3> QED
      BY <1>1, <2>4, <2>8, <3>1, <3>2, <3>3, PollingKeeps DEF done
  <2>9. CASE seen.kind = "continue"
    <3>1. Stay("prepare") /\ step' = seen.step /\ pressed' = m
          /\ UNCHANGED <<timer, world, hot, behind, owned, done>>
      BY <2>1, <2>2, <2>3, <2>9
    <3>2. step' \in Steps /\ step'.stage = step.stage /\ pressed' \in Nat /\ Measured(step', pressed')
      BY <2>4, <2>9, <3>1
    <3>3. StepOK'
      BY <3>2 DEF StepOK, Measured
    <3> QED
      BY <1>1, <3>1, <3>2, <3>3, PollingKeeps DEF done
  <2> QED
    BY <2>4, <2>5, <2>6, <2>7, <2>8, <2>9
<1> QED
  BY <1>3, <1>4, <1>5

\* Once the page is ready the supervisor is told, and the opening is waited for.
LEMMA ConfirmKeeps ==
  ASSUME IInv, Confirm
  PROVE  /\ Ends \/ (IInv' /\ ~Over' /\ ~executing /\ executing'
                      /\ UNCHANGED <<claim, abort, result>>)
         /\ UNCHANGED cause
<1>1. pc = "confirm" /\ ~Over
  BY DEF Confirm, Over
<1>2. TypeOK /\ WiresOK /\ StepOK /\ SignalsOK /\ PaymentPolicyKept
  BY DEF IInv
<1>3. state \in {"SYNCING_CLOCK", "SELECTING_PERSON"} /\ ~executing /\ slotClicks = 0
      /\ claim = "none" /\ cause = "none" /\ config.dryRun \in BOOLEAN /\ held # "waiting"
  BY <1>1, Where DEF IInv, Places, Progress
<1>4. state \in RunState /\ "PREPARING_PAGE" \in RunState /\ "WAITING_FOR_OPEN" \in RunState
      /\ "HANDED_OFF" \in RunState /\ "HANDED_OFF" \in TERMINAL
  BY <1>3, Allowed DEF StoppableStates, TERMINAL
<1>5. mayTransition(config.dryRun, state, "PREPARING_PAGE")
      /\ mayTransition(config.dryRun, "PREPARING_PAGE", "WAITING_FOR_OPEN")
      /\ mayTransition(config.dryRun, "PREPARING_PAGE", "HANDED_OFF")
  BY <1>3, Allowed, AllowedOn
<1>6. CASE /\ Go(<<"PREPARING_PAGE", "WAITING_FOR_OPEN">>, "open")
           /\ MarkExecuting /\ timer' = Waiting
           /\ UNCHANGED <<world, hot, preparing, behind, owned, cause, slotClicks, claim, agreed>>
  <2>1. walk(config.dryRun, state, <<"PREPARING_PAGE", "WAITING_FOR_OPEN">>).state
          = "WAITING_FOR_OPEN"
    BY <1>4, <1>5, WalkTwo
  <2>2. state' = "WAITING_FOR_OPEN" /\ pc' = "open" /\ UNCHANGED <<config, threw, abort, late>>
        /\ executing' = TRUE /\ timer' = Waiting
    BY <1>6, <2>1 DEF Go, MarkExecuting
  <2>3. UNCHANGED <<known, requests, mail>> /\ UNCHANGED <<cycle, result, wake, signal, tracker>>
        /\ UNCHANGED <<step, pressed>> /\ UNCHANGED <<held, dismissed>>
        /\ UNCHANGED <<pin, resources>> /\ UNCHANGED <<cause, slotClicks, claim, agreed>>
    BY <1>6 DEF world, hot, preparing, behind, owned
  <2>4. timer' \in [Timers -> Timer]
    BY <2>2 DEF Waiting, AllOff, Timers, Timer
  <2>5. TypeOK'
    BY <1>2, <1>4, <2>2, <2>3, <2>4 DEF TypeOK
  <2>6. WiresOK' /\ StepOK' /\ PaymentPolicyKept'
    BY <1>2, <2>2, <2>3, WiresSame, StepSame, PaymentsSame
  <2>7. SignalsOK'
    BY <1>1, <1>2, <2>2, <2>3, SignalsSame
  <2>8. ~Over' /\ ~Toggling'
    BY <2>2 DEF Over, Toggling
  <2>9. Places' /\ Progress'
    BY <1>3, <2>2, <2>3, <2>8 DEF Places, Progress
  <2>10. IInv'
    BY <2>5, <2>6, <2>7, <2>8, <2>9, RunningKeeps
  <2> QED
    BY <1>3, <2>2, <2>3, <2>8, <2>10
<1>7. CASE End(<<"PREPARING_PAGE", "HANDED_OFF">>)
  <2>1. walk(config.dryRun, state, <<"PREPARING_PAGE", "HANDED_OFF">>).state = "HANDED_OFF"
        /\ walk(config.dryRun, state, <<"PREPARING_PAGE", "HANDED_OFF">>).ok
    BY <1>4, <1>5, WalkTwo
  <2>2. Fits("HANDED_OFF", FALSE)
    BY <1>3, <1>4 DEF Fits
  <2>3. EndBy(<<"PREPARING_PAGE", "HANDED_OFF">>) /\ cause' = cause
    BY <1>7 DEF End
  <2> QED
    BY <1>1, <2>1, <2>2, <2>3, EndByPath
<1> QED
  BY <1>6, <1>7 DEF Confirm

\* A step to a place in the toggling, or from one to another.
LEMMA TogglingKeeps ==
  ASSUME IInv, pc = "open" \/ Toggling, Toggling', state' = "REFRESHING_SLOTS",
         UNCHANGED <<config, threw, abort, late, preparing, behind, pin, done>>,
         timer' \in [Timers -> Timer], cycle' \in 0..MaxCycles,
         tracker' \in [1..MaxCycles -> 0..MaxRequests],
         result' \in {"none", "NO_SLOT", "EMPTY_EARLY_EXIT", "SLOT_FOUND"},
         known' \subseteq 1..MaxCycles, Len(requests') <= MaxRequests,
         resources' \subseteq {"shadow", "slotWatch", "mutation", "clock"},
         WiresOK', SignalsOK', Knowingly
  PROVE  IInv' /\ Silent
<1>1. TypeOK /\ StepOK /\ PaymentPolicyKept
  BY DEF IInv
<1>2. UNCHANGED <<step, pressed>> /\ UNCHANGED <<held, dismissed>>
      /\ UNCHANGED <<cause, executing, slotClicks, claim, agreed>>
  BY DEF preparing, behind, done
<1>3. ~Over /\ pc \notin {"transition", "advance", "complete"} /\ executing
      /\ slotClicks = 0 /\ claim = "none" /\ cause = "none" /\ held # "waiting"
  <2>1. ~Over /\ pc \notin {"transition", "advance", "complete"}
    BY DEF Over, Toggling
  <2> QED
    BY <2>1 DEF IInv, Progress
<1>4. ~Over' /\ pc' \in {"search", "adjacent", "target", "settle", "detect"}
  BY DEF Over, Toggling
<1>5. TypeOK'
  <2>1. state' \in RunState
    BY DEF RunState, ALLOWED
  <2> QED
    BY <1>1, <1>2, <1>4, <2>1 DEF TypeOK
<1>6. StepOK' /\ PaymentPolicyKept'
  BY <1>1, <1>2, StepSame, PaymentsSame
<1>7. Places' /\ Progress'
  BY <1>2, <1>3, <1>4 DEF Places, Progress
<1>8. IInv'
  BY <1>4, <1>5, <1>6, <1>7, RunningKeeps
<1> QED
  BY <1>2, <1>4, <1>8 DEF Silent

\* The two ways in which a wait ends the run.
LEMMA WaitEnds ==
  ASSUME IInv, stopOrTimeout, pc = "open" \/ Toggling
  PROVE  Ends /\ UNCHANGED cause
<1>1. claim = "none"
  BY Where DEF Toggling, Over
<1>2. CASE waited = "stopped" /\ EndAs("STOPPED")
  <2>1. abort
    BY <1>2 DEF waited
  <2> QED
    BY <1>1, <1>2, <2>1, StopEnds DEF EndAs, End
<1>3. CASE waited = "timed_out" /\ EndAs("TIMED_OUT")
  <2>1. late
    BY <1>3 DEF waited
  <2> QED
    BY <1>1, <1>3, <2>1, TimeOutEnds DEF EndAs, End
<1> QED
  BY <1>2, <1>3 DEF stopOrTimeout

LEMMA OpenKeeps ==
  ASSUME IInv, Open
  PROVE  Keeps /\ UNCHANGED cause
<1>1. pc = "open" /\ state = "WAITING_FOR_OPEN" /\ config.dryRun \in BOOLEAN
  BY Where DEF Open
<1>2. CASE stopOrTimeout
  BY <1>1, <1>2, WaitEnds DEF Keeps
<1>3. CASE ~stopOrTimeout
  <2>1. /\ Go(<<"REFRESHING_SLOTS">>, "search")
        /\ resources' = (resources \ {"clock"}) \cup {"mutation"}
        /\ timer' = AllOff
        /\ UNCHANGED <<world, hot, preparing, behind, done, pin>>
    BY <1>3 DEF Open
  <2>2. "WAITING_FOR_OPEN" \in RunState /\ "REFRESHING_SLOTS" \in RunState
    BY <1>1, Allowed DEF StoppableStates
  <2>3. walk(config.dryRun, state, <<"REFRESHING_SLOTS">>).state = "REFRESHING_SLOTS"
    BY <1>1, <2>2, AllowedOn, WalkOne
  <2>4. state' = "REFRESHING_SLOTS" /\ pc' = "search" /\ UNCHANGED <<config, threw, abort, late>>
    BY <2>1, <2>3 DEF Go
  <2>5. Toggling'
    BY <2>4 DEF Toggling
  <2>6. UNCHANGED <<known, requests, mail>> /\ UNCHANGED <<cycle, result, wake, signal, tracker>>
    BY <2>1 DEF world, hot
  <2>7. TypeOK /\ WiresOK /\ SignalsOK
    BY DEF IInv
  <2>8. WiresOK' /\ SignalsOK'
    BY <1>1, <2>4, <2>6, <2>7, WiresSame, SignalsSame
  <2>9. /\ timer' \in [Timers -> Timer] /\ cycle' \in 0..MaxCycles
        /\ tracker' \in [1..MaxCycles -> 0..MaxRequests]
        /\ result' \in {"none", "NO_SLOT", "EMPTY_EARLY_EXIT", "SLOT_FOUND"}
        /\ known' \subseteq 1..MaxCycles /\ Len(requests') <= MaxRequests
        /\ resources' \subseteq {"shadow", "slotWatch", "mutation", "clock"}
    BY <2>1, <2>6, <2>7, Nothing DEF TypeOK
  <2>10. Knowingly
    BY <2>6 DEF Knowingly
  <2> QED
    BY <1>1, <2>1, <2>4, <2>5, <2>8, <2>9, <2>10, TogglingKeeps DEF Keeps, done
<1> QED
  BY <1>2, <1>3

-----------------------------------------------------------------------------
(* A toggle cycle *)

\* A step that makes no transition.
LEMMA StayIn ==
  ASSUME IInv, NEW next, Stay(next)
  PROVE  state' = state /\ pc' = next /\ UNCHANGED <<config, threw, abort, late>>
<1>1. state \in RunState
  BY DEF IInv, TypeOK
<1>2. walk(config.dryRun, state, <<>>).state = state
  BY <1>1, WalkStay
<1> QED
  BY <1>2 DEF Stay, Go

LEMMA SearchKeeps ==
  ASSUME IInv, Search
  PROVE  Keeps /\ UNCHANGED cause
<1>1. pc = "search" /\ Toggling /\ state = "REFRESHING_SLOTS" /\ claim = "none"
  <2>1. pc = "search" /\ Toggling /\ ~Over
    BY DEF Search, Toggling, Over
  <2> QED
    BY <2>1, Where
<1>2. CASE abort
  BY <1>1, <1>2, StopEnds DEF Search, Keeps, EndAs, End
<1>3. CASE ~abort /\ late
  BY <1>1, <1>3, TimeOutEnds DEF Search, Keeps, EndAs, End
<1>4. CASE ~abort /\ ~late
  <2>1. /\ cycle < MaxCycles /\ Stay("adjacent") /\ cycle' = cycle + 1 /\ timer' = Waiting
        /\ signal' = NoSignal /\ result' = "none"
        /\ UNCHANGED <<wake, tracker, world, preparing, behind, owned, done>>
    BY <1>4 DEF Search
  <2>2. state' = state /\ pc' = "adjacent" /\ UNCHANGED <<config, threw, abort, late>>
    BY <2>1, StayIn
  <2>3. TypeOK /\ WiresOK /\ SignalsOK
    BY DEF IInv
  <2>4. UNCHANGED <<known, requests, mail>> /\ UNCHANGED <<pin, resources>>
    BY <2>1 DEF world, owned
  <2>5. wake = NoWake /\ signal = NoSignal
    BY <1>1, <2>3 DEF SignalsOK
  <2>6. cycle' \in 1..MaxCycles /\ cycle' \in 0..MaxCycles
    BY <2>1, <2>3, BoundsAssumption DEF TypeOK
  <2>7. SignalsOK'
    BY <2>1, <2>2, <2>5, <2>6, SignalsGone
  <2>8. WiresOK'
    BY <2>1, <2>3, <2>4, <2>5, WiresSame
  <2>9. /\ timer' \in [Timers -> Timer]
        /\ tracker' \in [1..MaxCycles -> 0..MaxRequests]
        /\ result' \in {"none", "NO_SLOT", "EMPTY_EARLY_EXIT", "SLOT_FOUND"}
        /\ known' \subseteq 1..MaxCycles /\ Len(requests') <= MaxRequests
        /\ resources' \subseteq {"shadow", "slotWatch", "mutation", "clock"}
    BY <2>1, <2>3, <2>4 DEF TypeOK, Waiting, AllOff, Timers, Timer
  <2>10. Knowingly /\ Toggling'
    BY <2>1, <2>2 DEF Knowingly, Toggling
  <2> QED
    BY <1>1, <2>1, <2>2, <2>4, <2>6, <2>7, <2>8, <2>9, <2>10, TogglingKeeps DEF Keeps, done
<1> QED
  BY <1>2, <1>3, <1>4

LEMMA AdjacentKeeps ==
  ASSUME IInv, Adjacent
  PROVE  Keeps /\ UNCHANGED cause
<1>1. pc = "adjacent" /\ Toggling /\ state = "REFRESHING_SLOTS" /\ claim = "none"
  <2>1. pc = "adjacent" /\ Toggling /\ ~Over
    BY DEF Adjacent, Toggling, Over
  <2> QED
    BY <2>1, Where
<1>2. CASE stopOrTimeout
  BY <1>1, <1>2, WaitEnds DEF Keeps
<1>3. CASE EndAs("HANDED_OFF")
  BY <1>1, <1>3, HandOffAs DEF Keeps, EndAs, End
<1>4. CASE /\ Stay("target") /\ timer' = Waiting
           /\ UNCHANGED <<world, hot, preparing, behind, owned, done>>
  <2>2. state' = state /\ pc' = "target" /\ UNCHANGED <<config, threw, abort, late>>
    BY <1>4, StayIn
  <2>3. TypeOK /\ WiresOK /\ SignalsOK
    BY DEF IInv
  <2>4. UNCHANGED <<known, requests, mail>> /\ UNCHANGED <<pin, resources>>
        /\ UNCHANGED <<cycle, result, wake, signal, tracker>>
    BY <1>4 DEF world, owned, hot
  <2>7. SignalsOK'
    BY <1>1, <2>2, <2>3, <2>4, SignalsSame
  <2>8. WiresOK'
    BY <2>3, <2>4, WiresSame
  <2>9. /\ timer' \in [Timers -> Timer] /\ cycle' \in 0..MaxCycles
        /\ tracker' \in [1..MaxCycles -> 0..MaxRequests]
        /\ result' \in {"none", "NO_SLOT", "EMPTY_EARLY_EXIT", "SLOT_FOUND"}
        /\ known' \subseteq 1..MaxCycles /\ Len(requests') <= MaxRequests
        /\ resources' \subseteq {"shadow", "slotWatch", "mutation", "clock"}
    BY <1>4, <2>3, <2>4 DEF TypeOK, Waiting, AllOff, Timers, Timer
  <2>10. Knowingly /\ Toggling'
    BY <2>2, <2>4 DEF Knowingly, Toggling
  <2> QED
    BY <1>1, <1>4, <2>2, <2>4, <2>7, <2>8, <2>9, <2>10, TogglingKeeps DEF Keeps, done
<1> QED
  BY <1>2, <1>3, <1>4 DEF Adjacent

LEMMA TargetKeeps ==
  ASSUME IInv, Target
  PROVE  Keeps /\ UNCHANGED cause
<1>1. pc = "target" /\ Toggling /\ state = "REFRESHING_SLOTS" /\ claim = "none"
  <2>1. pc = "target" /\ Toggling /\ ~Over
    BY DEF Target, Toggling, Over
  <2> QED
    BY <2>1, Where
<1>2. CASE stopOrTimeout
  BY <1>1, <1>2, WaitEnds DEF Keeps
<1>3. CASE EndAs("HANDED_OFF")
  BY <1>1, <1>3, HandOffAs DEF Keeps, EndAs, End
<1>4. CASE /\ Stay("settle") /\ timer' = Waiting /\ wake' = beginCycle(wake, cycle)
           /\ mail' = IF "shadow" \in resources THEN Append(mail, <<"mark", cycle>>) ELSE mail
           /\ UNCHANGED <<cycle, result, signal, tracker, known, requests,
                          preparing, behind, owned, done>>
  <2>2. state' = state /\ pc' = "settle" /\ UNCHANGED <<config, threw, abort, late>>
    BY <1>4, StayIn
  <2>3. TypeOK /\ WiresOK /\ SignalsOK
    BY DEF IInv
  <2>4. UNCHANGED <<pin, resources>>
    BY <1>4 DEF owned
  <2>5. cycle \in 1..MaxCycles /\ cycle \in 0..MaxCycles /\ signal = NoSignal
    BY <1>1, <2>3 DEF SignalsOK, TypeOK
  <2>6. wake' = [active |-> cycle, last |-> 0, pending |-> NoSignal]
    BY <1>4 DEF beginCycle
  <2>7. SignalsOK'
    BY <1>4, <2>2, <2>5, <2>6 DEF SignalsOK
  <2>8. wake' \in Wakes
    BY <2>5, <2>6, Nothing DEF Wakes
  <2>9. mail' \in Seq(Mails) /\ \A n \in DOMAIN mail' : mail'[n][1] = "event" =>
          n \in DOMAIN mail /\ mail'[n] = mail[n]
    <3>1. mail \in Seq(Mails)
      BY <2>3 DEF WiresOK
    <3>2. <<"mark", cycle>> \in Mails
      BY <2>5 DEF Mails
    <3> DEFINE longer == Append(mail, <<"mark", cycle>>)
    <3>3. longer \in Seq(Mails) /\ Len(longer) = Len(mail) + 1
          /\ longer[Len(mail) + 1] = <<"mark", cycle>>
          /\ \A n \in 1..Len(mail) : longer[n] = mail[n]
      BY <3>1, <3>2, AppendProperties
    <3>4. ASSUME NEW n \in DOMAIN longer, longer[n][1] = "event"
          PROVE  n \in DOMAIN mail /\ longer[n] = mail[n]
      <4>1. n \in 1..Len(mail) + 1 /\ DOMAIN mail = 1..Len(mail)
        BY <3>1, <3>3
      <4>2. n # Len(mail) + 1
        BY <3>3, <3>4
      <4>3. Len(mail) \in Nat
        BY <3>1
      <4>4. n \in 1..Len(mail)
        BY <4>1, <4>2, <4>3
      <4> QED
        BY <3>3, <4>1, <4>4
    <3> HIDE DEF longer
    <3>5. mail' = longer \/ mail' = mail
      BY <1>4 DEF longer
    <3> QED
      BY <3>1, <3>3, <3>4, <3>5
  <2>10. WiresOK'
    BY <1>4, <2>3, <2>8, <2>9 DEF WiresOK
  <2>11. /\ timer' \in [Timers -> Timer] /\ cycle' \in 0..MaxCycles
         /\ tracker' \in [1..MaxCycles -> 0..MaxRequests]
         /\ result' \in {"none", "NO_SLOT", "EMPTY_EARLY_EXIT", "SLOT_FOUND"}
         /\ known' \subseteq 1..MaxCycles /\ Len(requests') <= MaxRequests
         /\ resources' \subseteq {"shadow", "slotWatch", "mutation", "clock"}
    BY <1>4, <2>3, <2>4 DEF TypeOK, Waiting, AllOff, Timers, Timer
  <2>12. Knowingly /\ Toggling'
    BY <1>4, <2>2 DEF Knowingly, Toggling
  <2> QED
    BY <1>1, <1>4, <2>2, <2>4, <2>7, <2>10, <2>11, <2>12, TogglingKeeps DEF Keeps, done
<1> QED
  BY <1>2, <1>3, <1>4 DEF Target

\* The signal the loop goes on with is of its cycle; one that ends the cycle is certain.
LEMMA InHand ==
  ASSUME IInv, pc \in {"settle", "detect"}, NEW hand \in {inHand, signal}
  PROVE  /\ hand \in Signals /\ wake.active = cycle
         /\ hand # NoSignal => meant(hand)
         /\ hand.kind = "empty_exit" =>
              /\ hand = inHand /\ inHand.seq = wake.last /\ config.probe = "empty_exit"
              /\ requests[inHand.seq].body = "EMPTY" /\ requests[inHand.seq].marker = cycle
              /\ cycle \in requests[inHand.seq].win
<1>1. SignalsOK /\ wake \in Wakes /\ signal \in Signals
  BY DEF IInv, WiresOK
<1>2. wake.active = cycle /\ wake.pending \in Signals
  BY <1>1 DEF SignalsOK, Wakes
<1>3. NoSignal.cycle = 0 /\ NoSignal.kind = "none"
  BY DEF NoSignal
<1>4. signal # NoSignal => meant(signal) /\ signal.kind # "empty_exit"
  BY <1>1 DEF SignalsOK
<1>5. signal.kind # "empty_exit"
  BY <1>3, <1>4
<1>6. wake.pending # NoSignal => meant(wake.pending) /\ wake.pending.seq = wake.last
  BY <1>1 DEF SignalsOK
<1>7. CASE hand = signal
  BY <1>1, <1>2, <1>4, <1>5, <1>7
<1>8. CASE hand # signal
  <2>1. hand = inHand /\ hand = wake.pending /\ consumable(wake, cycle)
    BY <1>8 DEF inHand
  <2>2. hand # NoSignal
    BY <1>3, <2>1 DEF consumable
  <2>3. meant(hand) /\ hand.seq = wake.last
    BY <1>6, <2>1, <2>2
  <2> QED
    BY <1>2, <2>1, <2>3 DEF meant
<1> QED
  BY <1>7, <1>8

\* What stays as it is when a cycle ends, or its scanning goes on.
LEMMA ScanningKeeps ==
  ASSUME IInv, pc \in {"settle", "detect"}, Toggling', state' = state,
         UNCHANGED <<config, threw, abort, late, cycle, tracker, world, preparing, behind, owned, done>>,
         timer' \in [Timers -> Timer],
         result' \in {"none", "NO_SLOT", "EMPTY_EARLY_EXIT", "SLOT_FOUND"},
         wake' \in Wakes, signal' \in Signals, SignalsOK', Knowingly
  PROVE  Keeps /\ UNCHANGED cause
<1>1. Toggling /\ state = "REFRESHING_SLOTS"
  <2>1. Toggling
    BY DEF Toggling
  <2> QED
    BY <2>1, Where
<1>2. TypeOK /\ WiresOK
  BY DEF IInv
<1>3. UNCHANGED <<known, requests, mail>> /\ UNCHANGED <<pin, resources>>
  BY DEF world, owned
<1>4. WiresOK'
  BY <1>2, <1>3 DEF WiresOK
<1>5. /\ cycle' \in 0..MaxCycles /\ tracker' \in [1..MaxCycles -> 0..MaxRequests]
      /\ known' \subseteq 1..MaxCycles /\ Len(requests') <= MaxRequests
      /\ resources' \subseteq {"shadow", "slotWatch", "mutation", "clock"}
  BY <1>2, <1>3 DEF TypeOK
<1> QED
  BY <1>1, <1>3, <1>4, <1>5, TogglingKeeps DEF Keeps, done

\* The signal is gone with its cycle.
LEMMA CycleEnds ==
  ASSUME IInv, pc \in {"settle", "detect"}
  PROVE  endCycle(wake, cycle) = NoWake
<1>1. wake.active = cycle
  BY DEF IInv, SignalsOK
<1> QED
  BY <1>1 DEF endCycle

LEMMA RetryKeeps ==
  ASSUME IInv, pc \in {"settle", "detect"}, NEW traced \in {"NO_SLOT", "EMPTY_EARLY_EXIT"},
         Retry(traced),
         traced = "EMPTY_EARLY_EXIT" => \E hand \in {inHand, signal} : hand.kind = "empty_exit"
  PROVE  Keeps /\ UNCHANGED cause
<1>1. /\ Stay("search") /\ result' = traced /\ timer' = AllOff
      /\ wake' = endCycle(wake, cycle) /\ signal' = NoSignal
      /\ UNCHANGED <<cycle, tracker, world, preparing, behind, owned, done>>
  BY DEF Retry
<1>2. state' = state /\ pc' = "search" /\ UNCHANGED <<config, threw, abort, late>>
  BY <1>1, StayIn
<1>3. wake' = NoWake
  BY <1>1, CycleEnds
<1>4. SignalsOK'
  BY <1>1, <1>2, <1>3, SignalsGone
<1>5. Knowingly
  BY <1>1, InHand DEF Knowingly
<1>6. Toggling'
  BY <1>2 DEF Toggling
<1> QED
  BY <1>1, <1>2, <1>3, <1>4, <1>5, <1>6, Nothing, ScanningKeeps

\* The slot is clicked, lost, or left alone at the end of a dry run or of the watch.
LEMMA SlotKeeps ==
  ASSUME IInv, pc \in {"settle", "detect"}, Slot
  PROVE  Keeps /\ UNCHANGED cause
<1>1. Toggling /\ ~Over /\ state = "REFRESHING_SLOTS" /\ claim = "none" /\ cause = "none"
      /\ config.dryRun \in BOOLEAN
  <2>1. Toggling /\ ~Over
    BY DEF Toggling, Over
  <2> QED
    BY <2>1, Where
<1>2. executing /\ slotClicks = 0 /\ held # "waiting"
  BY <1>1 DEF IInv, Progress, Toggling
<1>3. /\ "REFRESHING_SLOTS" \in RunState /\ "SLOT_DETECTED" \in RunState
      /\ "SLOT_CLICK_DISPATCHED" \in RunState
      /\ {"DRY_RUN_COMPLETED", "TIMED_OUT"} \subseteq RunState \cap TERMINAL
  BY <1>1, Allowed DEF StoppableStates, TERMINAL
<1>4. mayTransition(config.dryRun, "REFRESHING_SLOTS", "SLOT_DETECTED")
      /\ mayTransition(config.dryRun, "SLOT_DETECTED", "REFRESHING_SLOTS")
      /\ mayTransition(config.dryRun, "SLOT_DETECTED", "DRY_RUN_COMPLETED")
      /\ mayTransition(config.dryRun, "SLOT_DETECTED", "TIMED_OUT")
      /\ (~config.dryRun => mayTransition(config.dryRun, "SLOT_DETECTED", "SLOT_CLICK_DISPATCHED"))
  BY <1>1, AllowedOn
<1>5. CASE config.dryRun /\ End(<<"SLOT_DETECTED", "DRY_RUN_COMPLETED">>)
  <2>1. walk(config.dryRun, state, <<"SLOT_DETECTED", "DRY_RUN_COMPLETED">>).ok
        /\ walk(config.dryRun, state, <<"SLOT_DETECTED", "DRY_RUN_COMPLETED">>).state
             = "DRY_RUN_COMPLETED"
    BY <1>1, <1>3, <1>4, WalkTwo
  <2>2. Fits("DRY_RUN_COMPLETED", FALSE)
    BY <1>1, <1>2, <1>3, <1>5 DEF Fits
  <2>3. EndBy(<<"SLOT_DETECTED", "DRY_RUN_COMPLETED">>) /\ cause' = cause
    BY <1>5 DEF End
  <2> QED
    BY <1>1, <2>1, <2>2, <2>3, EndByPath DEF Keeps
<1>6. CASE ~config.dryRun /\ late /\ End(<<"SLOT_DETECTED", "TIMED_OUT">>)
  <2>1. walk(config.dryRun, state, <<"SLOT_DETECTED", "TIMED_OUT">>).ok
        /\ walk(config.dryRun, state, <<"SLOT_DETECTED", "TIMED_OUT">>).state = "TIMED_OUT"
    BY <1>1, <1>3, <1>4, WalkTwo
  <2>2. Fits("TIMED_OUT", FALSE)
    BY <1>1, <1>3, <1>6 DEF Fits
  <2>3. EndBy(<<"SLOT_DETECTED", "TIMED_OUT">>) /\ cause' = cause
    BY <1>6 DEF End
  <2> QED
    BY <1>1, <2>1, <2>2, <2>3, EndByPath DEF Keeps
<1>7. CASE /\ ~config.dryRun /\ ~late
           /\ wake' = endCycle(wake, cycle) /\ signal' = NoSignal /\ result' = "SLOT_FOUND"
           /\ SlotLost
  <2>1. walk(config.dryRun, state, <<"SLOT_DETECTED", "REFRESHING_SLOTS">>).state
          = "REFRESHING_SLOTS"
    BY <1>1, <1>3, <1>4, WalkTwo
  <2>2. state' = state /\ pc' = "search" /\ UNCHANGED <<config, threw, abort, late>>
    BY <1>1, <1>7, <2>1 DEF SlotLost, Go
  <2>3. timer' = AllOff /\ UNCHANGED <<cycle, tracker, world, preparing, behind, owned, done>>
    BY <1>7 DEF SlotLost
  <2>4. wake' = NoWake
    BY <1>7, CycleEnds
  <2>5. SignalsOK'
    BY <1>7, <2>2, <2>4, SignalsGone
  <2>6. Knowingly /\ Toggling'
    BY <1>7, <2>2 DEF Knowingly, Toggling
  <2> QED
    BY <1>7, <2>2, <2>3, <2>4, <2>5, <2>6, Nothing, ScanningKeeps
<1>8. CASE /\ ~config.dryRun /\ ~late
           /\ wake' = endCycle(wake, cycle) /\ signal' = NoSignal /\ result' = "SLOT_FOUND"
           /\ SlotClicked
  <2>1. walk(config.dryRun, state, <<"SLOT_DETECTED", "SLOT_CLICK_DISPATCHED">>).state
          = "SLOT_CLICK_DISPATCHED"
    BY <1>1, <1>3, <1>4, <1>8, WalkTwo
  <2>2. state' = "SLOT_CLICK_DISPATCHED" /\ pc' = "transition"
        /\ UNCHANGED <<config, threw, abort, late>>
    BY <1>8, <2>1 DEF SlotClicked, Go
  <2>3. slotClicks' = 1 /\ timer' = Waiting /\ known' = {} /\ requests' = <<>> /\ mail' = <<>>
        /\ UNCHANGED <<cycle, tracker, cause, executing, claim, agreed>>
        /\ UNCHANGED <<step, pressed>> /\ UNCHANGED <<held, dismissed>> /\ UNCHANGED <<pin, resources>>
    BY <1>2, <1>8 DEF SlotClicked, preparing, behind, owned
  <2>4. wake' = NoWake
    BY <1>8, CycleEnds
  <2>5. TypeOK /\ StepOK /\ PaymentPolicyKept
    BY DEF IInv
  <2>6. TypeOK'
    <3>1. Len(requests') <= MaxRequests
      <4>1. Len(<<>>) = 0
        OBVIOUS
      <4> QED
        BY <2>3, <4>1, BoundsAssumption
    <3>2. timer' \in [Timers -> Timer]
      BY <2>3 DEF Waiting, AllOff, Timers, Timer
    <3> QED
      BY <1>3, <1>8, <2>2, <2>3, <2>5, <3>1, <3>2 DEF TypeOK
  <2>7. WiresOK'
    <3>1. requests' \in Seq(Requests) /\ mail' \in Seq(Mails)
      BY <2>3
    <3>2. DOMAIN requests' = {} /\ DOMAIN mail' = {}
      BY <2>3
    <3>3. wake' \in Wakes /\ signal' \in Signals
      BY <1>8, <2>4, Nothing
    <3> QED
      BY <3>1, <3>2, <3>3 DEF WiresOK
  <2>8. SignalsOK'
    BY <1>8, <2>2, <2>4, SignalsGone
  <2>9. StepOK' /\ PaymentPolicyKept'
    BY <2>2, <2>3, <2>5, StepSame, PaymentsSame
  <2>10. ~Over' /\ ~Toggling'
    BY <2>2 DEF Over, Toggling
  <2>11. Places' /\ Progress'
    BY <1>1, <1>2, <1>8, <2>2, <2>3, <2>10 DEF Places, Progress
  <2>12. IInv'
    BY <2>6, <2>7, <2>8, <2>9, <2>10, <2>11, RunningKeeps
  <2>13. Knowingly
    BY <1>8 DEF Knowingly
  <2> QED
    BY <2>2, <2>3, <2>10, <2>12, <2>13 DEF Keeps, Silent
<1> QED
  BY <1>5, <1>6, <1>7, <1>8 DEF Slot

LEMMA ScanKeeps ==
  ASSUME IInv, pc \in {"settle", "detect"}, NEW timers \in [Timers -> Timer],
         Scan(inHand, timers)
  PROVE  Keeps /\ UNCHANGED cause
<1>1. PICK kept : kept = IF inHand.kind = "empty_exit" THEN NoSignal ELSE inHand
  OBVIOUS
<1>2. \/ Slot
      \/ inHand.kind = "empty_exit" /\ Retry("EMPTY_EARLY_EXIT")
      \/ Retry("NO_SLOT")
      \/ /\ Stay("detect") /\ timer' = timers
         /\ wake' = consumed(wake) /\ signal' = kept
         /\ UNCHANGED <<cycle, result, tracker, world, preparing, behind, owned, done>>
  BY <1>1 DEF Scan
<1>3. CASE Slot
  BY <1>3, SlotKeeps
<1>4. CASE inHand.kind = "empty_exit" /\ Retry("EMPTY_EARLY_EXIT")
  BY <1>4, RetryKeeps
<1>5. CASE Retry("NO_SLOT")
  BY <1>5, RetryKeeps
<1>6. CASE /\ Stay("detect") /\ timer' = timers
           /\ wake' = consumed(wake) /\ signal' = kept
           /\ UNCHANGED <<cycle, result, tracker, world, preparing, behind, owned, done>>
  <2>1. state' = state /\ pc' = "detect" /\ UNCHANGED <<config, threw, abort, late>>
    BY <1>6, StayIn
  <2>2. TypeOK /\ WiresOK /\ wake \in Wakes
    BY DEF IInv, WiresOK
  <2>3. inHand \in Signals /\ wake.active = cycle /\ (inHand # NoSignal => meant(inHand))
    BY InHand
  <2>4. kept \in Signals /\ (kept # NoSignal => meant(kept) /\ kept.kind # "empty_exit")
    BY <1>1, <2>3, Nothing
  <2>5. wake' \in Wakes /\ wake'.active = cycle /\ wake'.pending = NoSignal
    BY <1>6, <2>2, <2>3, Nothing DEF consumed, Wakes
  <2>6. UNCHANGED <<known, requests, mail>>
    BY <1>6 DEF world
  <2>7. kept # NoSignal => meant(signal)'
    BY <1>6, <2>1, <2>4, <2>6 DEF meant
  <2>11. cycle \in 1..MaxCycles
    BY DEF IInv, SignalsOK
  <2>8. SignalsOK'
    BY <1>6, <2>1, <2>4, <2>5, <2>7, <2>11 DEF SignalsOK
  <2>9. Knowingly /\ Toggling'
    BY <1>6, <2>1 DEF Knowingly, Toggling
  <2>10. result' \in {"none", "NO_SLOT", "EMPTY_EARLY_EXIT", "SLOT_FOUND"}
    BY <1>6, <2>2 DEF TypeOK
  <2> QED
    BY <1>6, <2>1, <2>4, <2>5, <2>8, <2>9, <2>10, ScanningKeeps
<1> QED
  BY <1>2, <1>3, <1>4, <1>5, <1>6

LEMMA SettleKeeps ==
  ASSUME IInv, Settle
  PROVE  Keeps /\ UNCHANGED cause
<1>1. pc = "settle" /\ Toggling /\ claim = "none" /\ timer \in [Timers -> Timer]
  <2>1. pc = "settle" /\ Toggling /\ ~Over
    BY DEF Settle, Toggling, Over
  <2> QED
    BY <2>1, Where DEF IInv, TypeOK
<1>2. CASE EndAs("STOPPED") /\ abort
  BY <1>1, <1>2, StopEnds DEF Keeps, EndAs, End
<1>3. CASE EndAs("TIMED_OUT") /\ late
  BY <1>1, <1>3, TimeOutEnds DEF Keeps, EndAs, End
<1>4. CASE EndAs("HANDED_OFF")
  BY <1>1, <1>4, HandOffAs DEF Keeps, EndAs, End
<1>5. CASE Scan(inHand, [timer EXCEPT !.wait = "set"])
  <2>1. PICK timers : timers = [timer EXCEPT !.wait = "set"]
    OBVIOUS
  <2>2. timers \in [Timers -> Timer]
    BY <1>1, <2>1 DEF Timers, Timer
  <2>3. Scan(inHand, timers)
    BY <1>5, <2>1
  <2> QED
    BY <1>1, <2>2, <2>3, ScanKeeps
<1> QED
  BY <1>2, <1>3, <1>4, <1>5 DEF Settle

LEMMA DetectKeeps ==
  ASSUME IInv, Detect
  PROVE  Keeps /\ UNCHANGED cause
<1>1. pc = "detect" /\ timer \in [Timers -> Timer]
  BY DEF Detect, IInv, TypeOK
<1>2. CASE abort
  <2>1. PICK hand \in {inHand, signal} :
          Slot \/ Retry("NO_SLOT") \/ (hand.kind = "empty_exit" /\ Retry("EMPTY_EARLY_EXIT"))
    BY <1>2 DEF Detect
  <2> QED
    BY <1>1, <2>1, SlotKeeps, RetryKeeps
<1>3. CASE ~abort
  <2>1. Scan(inHand, timer)
    BY <1>3 DEF Detect
  <2> QED
    BY <1>1, <2>1, ScanKeeps
<1> QED
  BY <1>2, <1>3

-----------------------------------------------------------------------------
(* Behind the slot *)

\* What a step there may agree to.
LEMMA AgreedByPolicy ==
  ASSUME NEW kind \in Kinds \ {"form", "waiting", "unknown"}, NEW auto \in BOOLEAN,
         NEW zeroOnly \in BOOLEAN, NEW at, at = [kind |-> kind, auto |-> auto, zeroOnly |-> zeroOnly],
         NEW act \in outcomes[at]
  PROVE  /\ act.pays \subseteq {"zero", "selected", "notice"}
         /\ act.pays # {} => auto
         /\ zeroOnly => "selected" \notin act.pays
<1>1. at \in [kind : Kinds \ {"form", "waiting", "unknown"}, auto : BOOLEAN, zeroOnly : BOOLEAN]
  OBVIOUS
<1>2. PICK f \in Facts, still \in BOOLEAN :
        act = LET a == advance(at.kind, still, f, at.auto, at.zeroOnly) IN
                [status |-> a.status, pays |-> agreesTo(at.kind, f, a)]
  BY <1>1 DEF outcomes
<1>3. PICK a, p : a = advance(kind, still, f, auto, zeroOnly) /\ p = agreesTo(kind, f, a)
  OBVIOUS
<1>4. act.pays = p
  BY <1>2, <1>3
<1>5. a.status = "acted" /\ kind \in {"deposit", "payment_method_notice"} => auto
  BY <1>3 DEF advance, waiting, blocked, did
<1>6. a.status = "acted" /\ kind = "deposit" /\ f.zero = "none" => ~zeroOnly
  BY <1>3 DEF advance, advanceDeposit, waiting, blocked, did
<1>7. p = IF a.status # "acted" THEN {}
          ELSE IF kind = "payment_method_notice" THEN {"notice"}
          ELSE IF kind # "deposit" THEN {}
          ELSE IF f.zero = "none" THEN {"selected"} ELSE {"zero"}
  BY <1>3 DEF agreesTo
<1> QED
  BY <1>4, <1>5, <1>6, <1>7

\* A step from one place behind the slot to another one.
LEMMA BehindKeeps ==
  ASSUME IInv, pc \in {"transition", "advance", "complete"}, pc' \in {"advance", "complete"},
         pc' = "advance" => state' = "ADVANCING_RESERVATION" /\ claim' = "none",
         pc' = "complete" => state' = "COMPLETING_RESERVATION",
         config.postSlot, state' \in RunState,
         UNCHANGED <<config, threw, abort, late, world, hot, preparing, resources>>,
         UNCHANGED <<cause, executing, slotClicks>>,
         claim' \in {"none", "asked", "made", "over"},
         timer' \in [Timers -> Timer], pin' \in {"none", "held", "taken", "gone"},
         held' \in Kinds \cup {"none"}, held' # "waiting", dismissed' \in BOOLEAN,
         agreed' \subseteq {"zero", "selected", "notice"}, PaymentPolicyKept'
  PROVE  IInv' /\ ~Over' /\ Knowingly
<1>1. TypeOK /\ WiresOK /\ Progress /\ StepOK /\ SignalsOK
  BY DEF IInv
<1>2. UNCHANGED <<known, requests, mail>> /\ UNCHANGED <<cycle, result, wake, signal, tracker>>
      /\ UNCHANGED <<step, pressed>>
  BY DEF world, hot, preparing
<1>3. TypeOK'
  BY <1>1, <1>2 DEF TypeOK
<1>4. WiresOK' /\ StepOK'
  BY <1>1, <1>2, WiresSame, StepSame
<1>5. SignalsOK'
  BY <1>1, <1>2, SignalsSame
<1>6. ~Over /\ ~Over' /\ ~Toggling'
  BY DEF Over, Toggling
<1>7. Places'
  BY <1>6 DEF Places
<1>8. Progress'
  BY <1>1, <1>2, <1>6 DEF Progress
<1>9. IInv'
  BY <1>3, <1>4, <1>5, <1>6, <1>7, <1>8, RunningKeeps
<1>10. Knowingly
  BY <1>2 DEF Knowingly
<1> QED
  BY <1>6, <1>9, <1>10

LEMMA TransitionKeeps ==
  ASSUME IInv, Transition
  PROVE  Keeps /\ UNCHANGED cause
<1>1. pc = "transition" /\ ~Over
  BY DEF Transition, Over
<1>2. state = "SLOT_CLICK_DISPATCHED" /\ claim = "none" /\ cause = "none" /\ ~config.dryRun
      /\ config.dryRun \in BOOLEAN
  BY <1>1, Where DEF IInv, Progress
<1>3. /\ state \in RunState /\ "SLOT_TRANSITION_CONFIRMED" \in RunState
      /\ "ADVANCING_RESERVATION" \in RunState /\ "HANDED_OFF" \in RunState \cap TERMINAL
  BY <1>2, Allowed DEF StoppableStates, TERMINAL
<1>4. mayTransition(config.dryRun, state, "SLOT_TRANSITION_CONFIRMED")
      /\ mayTransition(config.dryRun, "SLOT_TRANSITION_CONFIRMED", "ADVANCING_RESERVATION")
      /\ mayTransition(config.dryRun, "SLOT_TRANSITION_CONFIRMED", "HANDED_OFF")
  BY <1>2, Allowed, AllowedOn
<1>5. \/ EndAs("STOPPED") /\ abort
      \/ EndAs("HANDED_OFF")
      \/ End(<<"SLOT_TRANSITION_CONFIRMED", "HANDED_OFF">>)
      \/ \E kind \in Kinds \ {"waiting"} :
           /\ config.postSlot
           /\ Go(<<"SLOT_TRANSITION_CONFIRMED", "ADVANCING_RESERVATION">>, "advance")
           /\ held' = kind
           /\ UNCHANGED <<timer, world, hot, preparing, dismissed, owned, done>>
  <2>1. CASE abort \/ timer.wait = "due"
    BY <2>1 DEF Transition
  <2>2. CASE ~(abort \/ timer.wait = "due")
    <3>1. PICK kind \in Kinds \ {"waiting"} :
            CASE kind = "unknown" -> EndAs("HANDED_OFF")
              [] kind # "unknown" /\ ~config.postSlot ->
                   End(<<"SLOT_TRANSITION_CONFIRMED", "HANDED_OFF">>)
              [] OTHER ->
                   /\ Go(<<"SLOT_TRANSITION_CONFIRMED", "ADVANCING_RESERVATION">>, "advance")
                   /\ held' = kind
                   /\ UNCHANGED <<timer, world, hot, preparing, dismissed, owned, done>>
      BY <2>2 DEF Transition
    <3> QED
      BY <3>1
  <2> QED
    BY <2>1, <2>2
<1>6. CASE EndAs("STOPPED") /\ abort
  BY <1>1, <1>2, <1>6, StopEnds DEF Keeps, EndAs, End
<1>7. CASE EndAs("HANDED_OFF")
  BY <1>1, <1>2, <1>7, HandOffAs DEF Keeps, EndAs, End
<1>8. CASE End(<<"SLOT_TRANSITION_CONFIRMED", "HANDED_OFF">>)
  <2>1. walk(config.dryRun, state, <<"SLOT_TRANSITION_CONFIRMED", "HANDED_OFF">>).state
          = "HANDED_OFF"
        /\ walk(config.dryRun, state, <<"SLOT_TRANSITION_CONFIRMED", "HANDED_OFF">>).ok
    BY <1>3, <1>4, WalkTwo
  <2>2. Fits("HANDED_OFF", FALSE)
    BY <1>2, <1>3 DEF Fits
  <2>3. EndBy(<<"SLOT_TRANSITION_CONFIRMED", "HANDED_OFF">>) /\ cause' = cause
    BY <1>8 DEF End
  <2> QED
    BY <1>1, <2>1, <2>2, <2>3, EndByPath DEF Keeps
<1>9. ASSUME NEW kind \in Kinds \ {"waiting"}, config.postSlot,
             Go(<<"SLOT_TRANSITION_CONFIRMED", "ADVANCING_RESERVATION">>, "advance"),
             held' = kind,
             UNCHANGED <<timer, world, hot, preparing, dismissed, owned, done>>
      PROVE  Keeps /\ UNCHANGED cause
  <2>1. walk(config.dryRun, state, <<"SLOT_TRANSITION_CONFIRMED", "ADVANCING_RESERVATION">>).state
          = "ADVANCING_RESERVATION"
    BY <1>3, <1>4, WalkTwo
  <2>2. state' = "ADVANCING_RESERVATION" /\ pc' = "advance"
        /\ UNCHANGED <<config, threw, abort, late>>
    BY <1>9, <2>1 DEF Go
  <2>3. UNCHANGED <<cause, executing, slotClicks, claim, agreed>> /\ UNCHANGED <<pin, resources>>
        /\ UNCHANGED <<timer, dismissed>>
    BY <1>9 DEF done, owned
  <2>4. TypeOK /\ PaymentPolicyKept
    BY DEF IInv
  <2>5. PaymentPolicyKept'
    BY <2>2, <2>3, <2>4, PaymentsSame
  <2>6. /\ timer' \in [Timers -> Timer] /\ pin' \in {"none", "held", "taken", "gone"}
        /\ claim' \in {"none", "asked", "made", "over"} /\ dismissed' \in BOOLEAN
        /\ agreed' \subseteq {"zero", "selected", "notice"}
    BY <2>3, <2>4 DEF TypeOK
  <2>7. IInv' /\ ~Over' /\ Knowingly
    BY <1>1, <1>2, <1>3, <1>9, <2>2, <2>3, <2>5, <2>6, BehindKeeps
  <2> QED
    BY <2>2, <2>3, <2>7 DEF Keeps, Silent
<1> QED
  BY <1>5, <1>6, <1>7, <1>8, <1>9

\* The end of the watch is no way out of ADVANCING_RESERVATION: the run fails.
LEMMA LeaveFormKeeps ==
  ASSUME IInv, pc = "advance", LeaveForm, config.postSlot
  PROVE  Keeps /\ UNCHANGED cause
<1>1. state = "ADVANCING_RESERVATION" /\ claim = "none" /\ config.dryRun \in BOOLEAN /\ ~Over
  BY Where DEF Over
<1>2. state \in RunState /\ "COMPLETING_RESERVATION" \in RunState /\ "TIMED_OUT" \in RunState
  BY <1>1, Allowed DEF StoppableStates, TERMINAL
<1>3. CASE EndAs("HANDED_OFF")
  BY <1>1, <1>3, HandOffAs DEF Keeps, EndAs, End
<1>4. CASE EndAs("TIMED_OUT")
  <2>1. ~mayTransition(config.dryRun, state, "TIMED_OUT")
        /\ mayTransition(config.dryRun, state, "FAILED")
    BY <1>1, Allowed DEF StoppableStates
  <2>2. ~walk(config.dryRun, state, <<"TIMED_OUT">>).ok
        /\ walk(config.dryRun, state, <<"TIMED_OUT">>).state = state
    BY <1>2, <2>1, WalkRefused
  <2>3. Catch(state) /\ UNCHANGED <<config, abort, late, executing, slotClicks, claim, agreed>>
        /\ cause' = cause
    BY <1>4, <2>2 DEF EndAs, End, EndBy
  <2>4. UNCHANGED <<config, abort, late, done>>
    BY <2>3 DEF done
  <2> QED
    BY <1>1, <1>2, <2>1, <2>3, <2>4, CatchEnds DEF Keeps
<1>5. CASE /\ Go(<<"COMPLETING_RESERVATION">>, "complete")
           /\ timer' = AllOff /\ held' = "none" /\ dismissed' = FALSE
           /\ UNCHANGED <<world, hot, preparing, owned, done>>
  <2>1. walk(config.dryRun, state, <<"COMPLETING_RESERVATION">>).state = "COMPLETING_RESERVATION"
    BY <1>1, <1>2, AllowedOn, WalkOne
  <2>2. state' = "COMPLETING_RESERVATION" /\ pc' = "complete"
        /\ UNCHANGED <<config, threw, abort, late>>
    BY <1>5, <2>1 DEF Go
  <2>3. UNCHANGED <<cause, executing, slotClicks, claim, agreed>> /\ UNCHANGED <<pin, resources>>
    BY <1>5 DEF done, owned
  <2>4. TypeOK /\ PaymentPolicyKept
    BY DEF IInv
  <2>5. PaymentPolicyKept'
    BY <2>2, <2>3, <2>4, PaymentsSame
  <2>6. /\ timer' \in [Timers -> Timer] /\ pin' \in {"none", "held", "taken", "gone"}
        /\ claim' \in {"none", "asked", "made", "over"} /\ dismissed' \in BOOLEAN
        /\ agreed' \subseteq {"zero", "selected", "notice"} /\ held' \in Kinds \cup {"none"}
        /\ held' # "waiting"
    BY <1>5, <2>3, <2>4, Nothing DEF TypeOK
  <2>7. IInv' /\ ~Over' /\ Knowingly
    BY <1>2, <1>5, <2>2, <2>3, <2>5, <2>6, BehindKeeps
  <2> QED
    BY <2>2, <2>3, <2>7 DEF Keeps, Silent
<1> QED
  BY <1>3, <1>4, <1>5 DEF LeaveForm

\* The flow looks at the next page.
LEMMA RoundKeeps ==
  ASSUME IInv, pc = "advance", config.postSlot, Stay("advance"),
         held' = "none", timer' \in [Timers -> Timer], dismissed' \in BOOLEAN,
         agreed' \subseteq {"zero", "selected", "notice"}, PaymentPolicyKept',
         UNCHANGED <<world, hot, preparing, owned, cause, executing, slotClicks, claim>>
  PROVE  Keeps /\ UNCHANGED cause
<1>1. state = "ADVANCING_RESERVATION" /\ claim = "none"
  BY Where DEF Over
<1>2. state' = state /\ pc' = "advance" /\ UNCHANGED <<config, threw, abort, late>>
  BY StayIn
<1>3. TypeOK /\ state \in RunState
  BY DEF IInv, TypeOK
<1>4. UNCHANGED <<pin, resources>>
  BY DEF owned
<1>5. /\ pin' \in {"none", "held", "taken", "gone"}
      /\ claim' \in {"none", "asked", "made", "over"}
      /\ held' \in Kinds \cup {"none"} /\ held' # "waiting"
  BY <1>3, <1>4 DEF TypeOK
<1>6. IInv' /\ ~Over' /\ Knowingly
  BY <1>1, <1>2, <1>3, <1>4, <1>5, BehindKeeps
<1> QED
  BY <1>2, <1>6 DEF Keeps, Silent

LEMMA AdvanceKeeps ==
  ASSUME IInv, Advance
  PROVE  Keeps /\ UNCHANGED cause
<1>1. pc = "advance" /\ ~Over
  BY DEF Advance, Over
<1>2. claim = "none" /\ config.postSlot /\ TypeOK /\ PaymentPolicyKept /\ held # "waiting"
      /\ config \in Config /\ timer \in [Timers -> Timer]
  BY <1>1, Where DEF IInv, Progress, TypeOK
<1>3. CASE abort
  BY <1>1, <1>2, <1>3, StopEnds DEF Advance, Keeps, EndAs, End
<1>4. CASE EndAs("HANDED_OFF")
  BY <1>1, <1>2, <1>4, HandOffAs DEF Keeps, EndAs, End
<1>5. graceBegun \in [Timers -> Timer]
  BY <1>2 DEF graceBegun, Timers, Timer
<1>6. CASE ~abort /\ ~EndAs("HANDED_OFF")
  <2>1. PICK kind \in IF held # "none" THEN {held} ELSE Kinds \ {"waiting"} :
       CASE kind = "unknown" -> EndAs("HANDED_OFF")
         [] kind = "form" /\ (dismissed \/ timer.grace = "due") -> LeaveForm
         [] kind = "form" /\ ~(dismissed \/ timer.grace = "due") ->
              /\ Stay("advance")
              /\ held' = "none" /\ timer' = graceBegun
              /\ UNCHANGED <<world, hot, preparing, dismissed, owned, done>>
         [] OTHER ->
              \E act \in outcomes[[kind |-> kind, auto |-> config.payAuto,
                                  zeroOnly |-> config.zeroOnly]] : Advanced(kind, act)
    BY <1>6 DEF Advance
  <2>2. kind \in Kinds \ {"waiting"}
    BY <1>2 DEF TypeOK
  <2>3. CASE kind = "form" /\ (dismissed \/ timer.grace = "due")
    BY <1>1, <1>2, <2>1, <2>3, LeaveFormKeeps
  <2>4. CASE kind = "form" /\ ~(dismissed \/ timer.grace = "due")
    <3>1. /\ Stay("advance") /\ held' = "none" /\ timer' = graceBegun
          /\ UNCHANGED <<world, hot, preparing, dismissed, owned, done>>
      BY <2>1, <2>4
    <3>2. UNCHANGED <<cause, executing, slotClicks, claim, agreed>> /\ UNCHANGED dismissed
      BY <3>1 DEF done
    <3>3. UNCHANGED config
      BY <3>1, StayIn
    <3>4. PaymentPolicyKept'
      BY <1>2, <3>2, <3>3, PaymentsSame
    <3>5. dismissed' \in BOOLEAN /\ agreed' \subseteq {"zero", "selected", "notice"}
      BY <1>2, <3>2 DEF TypeOK
    <3> QED
      BY <1>1, <1>2, <1>5, <3>1, <3>2, <3>4, <3>5, RoundKeeps
  <2>5. CASE kind \notin {"form", "unknown"}
    <3>1. PICK at : at = [kind |-> kind, auto |-> config.payAuto, zeroOnly |-> config.zeroOnly]
      OBVIOUS
    <3>2. PICK act \in outcomes[at] : Advanced(kind, act)
      BY <2>1, <2>5, <3>1
    <3>3. config.payAuto \in BOOLEAN /\ config.zeroOnly \in BOOLEAN
      BY <1>2 DEF Config
    <3>4. /\ act.pays \subseteq {"zero", "selected", "notice"}
          /\ act.pays # {} => config.payAuto
          /\ config.zeroOnly => "selected" \notin act.pays
      BY <2>2, <2>5, <3>1, <3>2, <3>3, AgreedByPolicy
    <3>5. /\ Stay("advance") /\ held' = "none"
          /\ timer' \in {graceBegun, timer}
          /\ dismissed' = (dismissed \/ (kind = "form_notice" /\ act.status = "acted"))
          /\ agreed' = agreed \cup act.pays
          /\ UNCHANGED <<world, hot, preparing, owned, cause, executing, slotClicks, claim>>
      BY <1>6, <3>2 DEF Advanced
    <3>6. UNCHANGED config
      BY <3>5, StayIn
    <3>7. PaymentPolicyKept'
      BY <1>2, <3>4, <3>5, <3>6 DEF PaymentPolicyKept
    <3>8. dismissed' \in BOOLEAN
      BY <3>5
    <3>9. agreed' \subseteq {"zero", "selected", "notice"}
      BY <1>2, <3>4, <3>5 DEF TypeOK
    <3> QED
      BY <1>1, <1>2, <1>5, <3>5, <3>7, <3>8, <3>9, RoundKeeps
  <2> QED
    BY <1>6, <2>1, <2>3, <2>4, <2>5
<1> QED
  BY <1>3, <1>4, <1>6

\* A step of the completion that makes no transition.
LEMMA CompletionKeeps ==
  ASSUME IInv, pc = "complete", UNCHANGED <<config, ending, abort, late, timer, world, hot,
                                            preparing, behind, resources>>,
         UNCHANGED <<cause, executing, slotClicks, agreed>>,
         claim' \in {"none", "asked", "made", "over"}, pin' \in {"none", "held", "taken", "gone"}
  PROVE  IInv' /\ ~Over' /\ Knowingly
<1>1. state = "COMPLETING_RESERVATION" /\ config.postSlot /\ TypeOK /\ PaymentPolicyKept
      /\ held # "waiting"
  BY Where DEF IInv, Progress
<1>2. UNCHANGED <<state, pc, threw>> /\ UNCHANGED <<held, dismissed>>
  BY DEF ending, behind
<1>3. PaymentPolicyKept'
  BY <1>1, PaymentsSame
<1>4. /\ timer' \in [Timers -> Timer] /\ dismissed' \in BOOLEAN
      /\ agreed' \subseteq {"zero", "selected", "notice"} /\ held' \in Kinds \cup {"none"}
      /\ held' # "waiting" /\ state' \in RunState
  BY <1>1, <1>2 DEF TypeOK
<1> QED
  BY <1>1, <1>2, <1>3, <1>4, BehindKeeps

LEMMA TakePinKeeps ==
  ASSUME IInv, TakePin
  PROVE  Keeps /\ UNCHANGED cause
<1>1. pc = "complete" /\ pin' = "taken" /\ TypeOK
      /\ UNCHANGED <<config, ending, abort, late, timer, world, hot, preparing, behind,
                     resources, done>>
  BY DEF TakePin, IInv
<1>2. UNCHANGED <<cause, executing, slotClicks, claim, agreed>>
  BY <1>1 DEF done
<1>3. claim' \in {"none", "asked", "made", "over"}
  BY <1>1, <1>2 DEF TypeOK
<1>4. IInv' /\ ~Over' /\ Knowingly
  BY <1>1, <1>2, <1>3, CompletionKeeps
<1> QED
  BY <1>1, <1>2, <1>4 DEF Keeps, Silent

\* The final press is asked for once, and the supervisor answers once.
LEMMA ClaimKeeps ==
  ASSUME IInv, Claim
  PROVE  /\ IInv' /\ ~Over /\ ~Over' /\ Knowingly /\ UNCHANGED cause
         /\ UNCHANGED <<executing, abort>> /\ executing
         /\ \/ claim = "none" /\ claim' = "asked"
            \/ claim = "asked" /\ claim' \in {"made", "over"}
<1>1. /\ pc = "complete" /\ TypeOK
      /\ UNCHANGED <<config, ending, abort, late, timer, world, hot, preparing, behind, owned,
                     cause, executing, slotClicks, agreed>>
      /\ \/ claim = "none" /\ claim' = "asked"
         \/ claim = "asked" /\ claim' \in {"made", "over"}
  BY DEF Claim, IInv
<1>2. UNCHANGED <<pin, resources>>
  BY <1>1 DEF owned
<1>3. claim' \in {"none", "asked", "made", "over"} /\ pin' \in {"none", "held", "taken", "gone"}
  BY <1>1, <1>2 DEF TypeOK
<1>4. IInv' /\ ~Over' /\ Knowingly
  BY <1>1, <1>2, <1>3, CompletionKeeps
<1>5. ~Over /\ executing
  BY <1>1 DEF IInv, Progress, Over
<1> QED
  BY <1>1, <1>4, <1>5

LEMMA CompleteKeeps ==
  ASSUME IInv, Complete
  PROVE  Ends /\ UNCHANGED cause
<1>1. pc = "complete" /\ claim # "asked" /\ ~Over
  BY DEF Complete, Over
<1>2. state = "COMPLETING_RESERVATION" /\ config.dryRun \in BOOLEAN
  BY <1>1, Where
<1>3. CASE claim = "made" /\ EndAs("COMPLETED")
  <2>1. state \in RunState /\ "COMPLETED" \in RunState \cap TERMINAL
        /\ mayTransition(config.dryRun, state, "COMPLETED")
    BY <1>2, Allowed DEF StoppableStates, TERMINAL
  <2>2. walk(config.dryRun, state, <<"COMPLETED">>).ok
        /\ walk(config.dryRun, state, <<"COMPLETED">>).state = "COMPLETED"
    BY <2>1, WalkOne
  <2>3. Fits("COMPLETED", FALSE)
    BY <1>3, <2>1 DEF Fits
  <2>4. EndBy(<<"COMPLETED">>) /\ cause' = cause
    BY <1>3 DEF EndAs, End
  <2> QED
    BY <1>1, <2>2, <2>3, <2>4, EndByPath
<1>4. CASE claim = "none" /\ abort /\ EndAs("STOPPED")
  BY <1>1, <1>4, StopEnds DEF EndAs, End
<1>5. CASE claim = "none" /\ late /\ EndAs("TIMED_OUT")
  BY <1>1, <1>5, TimeOutEnds DEF EndAs, End
<1>6. CASE EndAs("HANDED_OFF")
  BY <1>1, <1>6, HandOffAs DEF EndAs, End
<1> QED
  BY <1>3, <1>4, <1>5, <1>6 DEF Complete

-----------------------------------------------------------------------------
(* The user, time and the slot lists *)

\* A step that leaves the flow where it is, and the run's promises with it.
LEMMA InPlaceKeeps ==
  ASSUME IInv, UNCHANGED <<config, ending, behind, owned, done, cycle, result, pressed>>,
         Over => UNCHANGED <<abort, late, wake>>,
         abort' \in BOOLEAN, late' \in BOOLEAN, timer' \in [Timers -> Timer], step' \in Steps,
         step'.stage = step.stage, StepOK',
         tracker' \in [1..MaxCycles -> 0..MaxRequests], known' \subseteq 1..MaxCycles,
         Len(requests') <= MaxRequests, WiresOK', SignalsOK'
  PROVE  IInv' /\ UNCHANGED <<pc, state, executing, claim, cause, result>> /\ (~Over => ~Over')
         /\ Knowingly
<1>1. /\ UNCHANGED <<state, pc, threw>> /\ UNCHANGED <<held, dismissed>>
      /\ UNCHANGED <<pin, resources>> /\ UNCHANGED <<cause, executing, slotClicks, claim, agreed>>
  BY DEF ending, behind, owned, done
<1>2. TypeOK /\ Places /\ Progress /\ SlotClickedOnce /\ PaymentPolicyKept
      /\ LeavesNothingBehind /\ EndingIsTrue
  BY DEF IInv
<1>3. TypeOK'
  BY <1>1, <1>2 DEF TypeOK
<1>4. (Over <=> Over') /\ (Toggling <=> Toggling')
  BY <1>1 DEF Over, Toggling
<1>5. Places'
  BY <1>1, <1>2, <1>4 DEF Places
<1>6. Progress'
  BY <1>1, <1>2, <1>4 DEF Progress
<1>7. SlotClickedOnce' /\ PaymentPolicyKept'
  BY <1>1, <1>2 DEF SlotClickedOnce, PaymentPolicyKept
<1>8. LeavesNothingBehind' /\ EndingIsTrue'
  BY <1>1, <1>2, <1>4 DEF LeavesNothingBehind, EndingIsTrue
<1>9. IInv'
  BY <1>3, <1>5, <1>6, <1>7, <1>8 DEF IInv
<1>10. Knowingly
  BY DEF Knowingly
<1> QED
  BY <1>1, <1>4, <1>9, <1>10

\* The signals stand for the same answers while those are as they were.
LEMMA SignalsStay ==
  ASSUME SignalsOK, UNCHANGED <<config, cycle, pc, wake, signal>>,
         \A i \in DOMAIN requests : ~requests[i].pending =>
           i \in DOMAIN requests' /\ requests'[i] = requests[i]
  PROVE  SignalsOK'
BY DEF SignalsOK, meant

\* The end of the run and the stop forget what only messages read.
LEMMA UnfollowedKeeps ==
  ASSUME IInv, Running, Unfollowed, abort' \in BOOLEAN, late' \in BOOLEAN,
         UNCHANGED <<config, ending, timer, requests, cycle, result, wake, signal,
                     preparing, behind, owned, done>>
  PROVE  /\ IInv' /\ UNCHANGED <<pc, state, executing, claim, cause, result>> /\ ~Over /\ ~Over'
         /\ Knowingly
<1>1. TypeOK /\ WiresOK /\ StepOK /\ SignalsOK
  BY DEF IInv
<1>2. UNCHANGED <<step, pressed>> /\ UNCHANGED pc
  BY DEF preparing, ending
<1>3. known' = {} /\ mail' = <<>> /\ tracker' = [c \in 1..MaxCycles |-> 0]
  BY DEF Unfollowed
<1>4. StepOK'
  BY <1>1, <1>2, StepSame
<1>5. SignalsOK'
  BY <1>1, <1>2, SignalsStay
<1>6. WiresOK'
  <2>1. mail' \in Seq(Mails) /\ DOMAIN mail' = {}
    BY <1>3
  <2> QED
    BY <1>1, <2>1 DEF WiresOK
<1>7. tracker' \in [1..MaxCycles -> 0..MaxRequests] /\ known' \subseteq 1..MaxCycles
  BY <1>3, Nothing
<1>8. timer' \in [Timers -> Timer] /\ step' \in Steps /\ Len(requests') <= MaxRequests
  BY <1>1, <1>2 DEF TypeOK
<1>9. ~Over
  BY DEF Running, Over
<1> QED
  BY <1>2, <1>4, <1>5, <1>6, <1>7, <1>8, <1>9, InPlaceKeeps

LEMMA AbortKeeps ==
  ASSUME IInv, Abort
  PROVE  /\ IInv' /\ UNCHANGED <<executing, claim, cause>> /\ ~Over /\ ~Over' /\ abort' = TRUE
         /\ Knowingly
<1>1. late' \in BOOLEAN /\ abort' \in BOOLEAN /\ abort' = TRUE
  BY DEF Abort, IInv, TypeOK
<1> QED
  BY <1>1, UnfollowedKeeps DEF Abort

LEMMA ExpireKeeps ==
  ASSUME IInv, Expire
  PROVE  Keeps /\ UNCHANGED cause
<1>1. late' \in BOOLEAN /\ abort' \in BOOLEAN /\ UNCHANGED abort
  BY DEF Expire, IInv, TypeOK
<1>2. IInv' /\ UNCHANGED <<pc, state, executing, claim, cause, result>> /\ ~Over' /\ Knowingly
  BY <1>1, UnfollowedKeeps DEF Expire
<1> QED
  BY <1>1, <1>2 DEF Keeps, Silent

\* A deadline passes.
LEMMA ClockKeeps ==
  ASSUME IInv, UNCHANGED <<config, ending, abort, late, world, hot, behind, owned, done, pressed>>,
         timer' \in [Timers -> Timer], step' \in Steps, step'.stage = step.stage, StepOK'
  PROVE  /\ IInv' /\ UNCHANGED <<executing, claim, abort, cause, state>> /\ (Over <=> Over')
         /\ Knowingly
<1>1. TypeOK /\ WiresOK /\ SignalsOK
  BY DEF IInv
<1>2. /\ UNCHANGED <<known, requests, mail>> /\ UNCHANGED <<cycle, result, wake, signal, tracker>>
      /\ UNCHANGED pc
  BY DEF world, hot, ending
<1>3. WiresOK' /\ SignalsOK'
  BY <1>1, <1>2, WiresSame, SignalsSame
<1>4. /\ abort' \in BOOLEAN /\ late' \in BOOLEAN /\ Len(requests') <= MaxRequests
      /\ tracker' \in [1..MaxCycles -> 0..MaxRequests] /\ known' \subseteq 1..MaxCycles
  BY <1>1, <1>2 DEF TypeOK
<1>5. Over <=> Over'
  BY <1>2 DEF Over
<1> QED
  BY <1>2, <1>3, <1>4, <1>5, InPlaceKeeps

LEMMA ElapseKeeps ==
  ASSUME IInv, Elapse
  PROVE  /\ IInv' /\ UNCHANGED <<executing, claim, abort, cause, state>> /\ (Over <=> Over')
         /\ Knowingly
<1>1. PICK t \in Timers : timer' = [timer EXCEPT ![t] = "due"]
  BY DEF Elapse
<1>2. TypeOK /\ StepOK
  BY DEF IInv
<1>3. timer' \in [Timers -> Timer]
  BY <1>1, <1>2 DEF TypeOK, Timer
<1>4. UNCHANGED <<config, ending, abort, late, world, hot, behind, owned, done, pressed>>
      /\ UNCHANGED <<step, pressed>>
  BY DEF Elapse, preparing
<1>5. step' \in Steps /\ StepOK'
  BY <1>2, <1>4, StepSame DEF TypeOK
<1> QED
  BY <1>3, <1>4, <1>5, ClockKeeps

LEMMA ElapseStepKeeps ==
  ASSUME IInv, ElapseStep
  PROVE  /\ IInv' /\ UNCHANGED <<executing, claim, abort, cause, state>> /\ (Over <=> Over')
         /\ Knowingly
<1>1. PICK t \in {"retry", "confirm", "discovery", "overall"} :
        step[t] = "set" /\ step' = [step EXCEPT ![t] = "due"]
  BY DEF ElapseStep
<1>2. step \in Steps /\ Measured(step, pressed)
  BY DEF IInv, TypeOK, StepOK
<1>3. UNCHANGED <<config, ending, abort, late, world, hot, behind, owned, done, pressed>>
      /\ UNCHANGED timer
  BY DEF ElapseStep
<1>4. timer' \in [Timers -> Timer]
  BY <1>3 DEF IInv, TypeOK
<1>5. /\ step' \in Steps /\ step'.stage = step.stage /\ step'.attempts = step.attempts
      /\ step'.key = step.key
      /\ step'.overall = (IF t = "overall" THEN "due" ELSE step.overall)
      /\ step'.confirm = (IF t = "confirm" THEN "due" ELSE step.confirm)
  <2>1. CASE t = "retry"
    BY <1>1, <1>2, <2>1 DEF Steps, Timer
  <2>2. CASE t = "confirm"
    BY <1>1, <1>2, <2>2 DEF Steps, Timer
  <2>3. CASE t = "discovery"
    BY <1>1, <1>2, <2>3 DEF Steps, Timer
  <2>4. CASE t = "overall"
    BY <1>1, <1>2, <2>4 DEF Steps, Timer
  <2> QED
    BY <2>1, <2>2, <2>3, <2>4
<1>6. step.stage = "entry" => t # "overall" /\ (step.attempts = 0 => t # "confirm")
  BY <1>1, <1>2 DEF Measured
<1>7. StepOK'
  BY <1>2, <1>3, <1>5, <1>6 DEF StepOK, Measured
<1> QED
  BY <1>3, <1>4, <1>5, <1>7, ClockKeeps

LEMMA ArrivalKeeps ==
  ASSUME IInv, Arrival
  PROVE  /\ IInv' /\ UNCHANGED <<executing, claim, abort, cause, state>> /\ (Over <=> Over')
         /\ Knowingly
<1>1. timer' = [timer EXCEPT !.wait = "set"] /\ TypeOK /\ StepOK
  BY DEF Arrival, IInv
<1>2. timer' \in [Timers -> Timer]
  BY <1>1 DEF TypeOK, Timer
<1>3. UNCHANGED <<config, ending, abort, late, world, hot, behind, owned, done>>
      /\ UNCHANGED <<step, pressed>>
  BY DEF Arrival, preparing
<1>4. step' \in Steps /\ StepOK'
  BY <1>1, <1>3, StepSame DEF TypeOK
<1> QED
  BY <1>2, <1>3, <1>4, ClockKeeps

\* The flush is over.
LEMMA ReturnKeeps ==
  ASSUME IInv, Return
  PROVE  /\ IInv' /\ UNCHANGED <<executing, claim, abort, cause, state>> /\ Over /\ Over'
         /\ Knowingly
<1>1. /\ pc = "flush" /\ pc' = "returned"
      /\ UNCHANGED <<config, state, threw, abort, late, timer, world, hot, preparing, behind,
                     owned, done>>
  BY DEF Return
<1>2. /\ UNCHANGED <<known, requests, mail>> /\ UNCHANGED <<cycle, result, wake, signal, tracker>>
      /\ UNCHANGED <<step, pressed>> /\ UNCHANGED <<held, dismissed>>
      /\ UNCHANGED <<pin, resources>> /\ UNCHANGED <<cause, executing, slotClicks, claim, agreed>>
  BY <1>1 DEF world, hot, preparing, behind, owned, done
<1>3. TypeOK /\ WiresOK /\ Progress /\ StepOK /\ SignalsOK /\ SlotClickedOnce /\ PaymentPolicyKept
      /\ LeavesNothingBehind /\ EndingIsTrue
  BY DEF IInv
<1>4. Over /\ Over' /\ ~Toggling'
  BY <1>1 DEF Over, Toggling
<1>5. TypeOK'
  BY <1>1, <1>2, <1>3 DEF TypeOK
<1>6. WiresOK' /\ StepOK' /\ PaymentPolicyKept'
  BY <1>1, <1>2, <1>3, WiresSame, StepSame, PaymentsSame
<1>7. SignalsOK'
  BY <1>1, <1>2, <1>3, SignalsSame
<1>8. Places' /\ Progress'
  BY <1>1, <1>2, <1>3, <1>4 DEF Places, Progress
<1>9. SlotClickedOnce' /\ LeavesNothingBehind' /\ EndingIsTrue'
  BY <1>1, <1>2, <1>3, <1>4 DEF SlotClickedOnce, LeavesNothingBehind, EndingIsTrue
<1>10. Knowingly
  BY <1>2 DEF Knowingly
<1> QED
  BY <1>1, <1>2, <1>4, <1>5, <1>6, <1>7, <1>8, <1>9, <1>10 DEF IInv

\* A step of the messages between the worlds of the page while the dates are toggled.
LEMMA MessageKeeps ==
  ASSUME IInv, Toggling,
         UNCHANGED <<config, ending, abort, late, cycle, result, signal, preparing, behind,
                     owned, done>>,
         timer' \in [Timers -> Timer], tracker' \in [1..MaxCycles -> 0..MaxRequests],
         known' \subseteq 1..MaxCycles, Len(requests') <= MaxRequests, WiresOK', SignalsOK'
  PROVE  Keeps /\ UNCHANGED cause
<1>1. UNCHANGED <<step, pressed>> /\ TypeOK /\ StepOK /\ ~Over
  BY DEF preparing, IInv, Toggling, Over
<1>2. StepOK' /\ step' \in Steps /\ abort' \in BOOLEAN /\ late' \in BOOLEAN
  BY <1>1, StepSame DEF TypeOK
<1>3. IInv' /\ UNCHANGED <<pc, state, executing, claim, cause, result>> /\ ~Over' /\ Knowingly
  BY <1>1, <1>2, InPlaceKeeps
<1> QED
  BY <1>3 DEF Keeps, Silent

\* The marker a request takes is one of its window.
LEMMA MarkerInWindow ==
  ASSUME NEW cycles \in SUBSET (1..MaxCycles), NEW win \in SUBSET Int
  PROVE  /\ matchingMarker(cycles, win) \in 0..MaxCycles
         /\ matchingMarker(cycles, win) # 0 => matchingMarker(cycles, win) \in win
<1>1. CASE cycles \cap win = {}
  BY <1>1, Nothing DEF matchingMarker
<1>2. CASE cycles \cap win # {}
  <2>1. IsFiniteSet(1..MaxCycles) /\ cycles \cap win \in SUBSET (1..MaxCycles)
    BY FS_Interval, BoundsAssumption
  <2>2. IsFiniteSet(cycles \cap win) /\ cycles \cap win \in SUBSET Int
    BY <2>1, FS_Subset
  <2>3. Max(cycles \cap win) \in cycles \cap win
    BY <1>2, <2>2, MaxOfFinite
  <2>4. matchingMarker(cycles, win) = Max(cycles \cap win)
    BY <1>2 DEF matchingMarker
  <2>5. matchingMarker(cycles, win) \in cycles \cap win
    BY <2>3, <2>4
  <2>6. cycles \subseteq 0..MaxCycles
    BY BoundsAssumption
  <2> QED
    BY ONLY <2>5, <2>6
<1> QED
  BY <1>1, <1>2

LEMMA RequestKeeps ==
  ASSUME IInv, Request
  PROVE  Keeps /\ UNCHANGED cause
<1>1. /\ Toggling /\ Len(requests) < MaxRequests
      /\ UNCHANGED <<config, ending, abort, late, timer, known, mail, hot, preparing, behind,
                     owned, done>>
  BY DEF Request, Listening
<1>2. PICK first \in 1..cycle + 1, last \in {0, Max(clicked \cup {0}), cycle} :
        requests' = Append(requests, [win |-> first..last, body |-> "none", pending |-> TRUE,
                                      marker |-> matchingMarker(known, first..last)])
  BY DEF Request
<1>3. TypeOK /\ WiresOK /\ SignalsOK /\ requests \in Seq(Requests)
  BY DEF IInv, WiresOK
<1>4. UNCHANGED <<cycle, result, wake, signal, tracker>> /\ UNCHANGED <<timer, known, mail>>
      /\ UNCHANGED pc
  BY <1>1 DEF hot, ending
<1>5. PICK win \in SUBSET Int : win = first..last
  OBVIOUS
<1>6. PICK marker \in 0..MaxCycles :
        marker = matchingMarker(known, win) /\ (marker # 0 => marker \in win)
  BY <1>3, MarkerInWindow DEF TypeOK
<1>20. PICK request :
         request = [win |-> win, body |-> "none", pending |-> TRUE, marker |-> marker]
  OBVIOUS
<1>21. request.win = win /\ request.marker = marker
  BY ONLY <1>20
<1>22. request \in Requests
  BY <1>20 DEF Requests
<1>7. /\ request = [win |-> win, body |-> "none", pending |-> TRUE, marker |-> marker]
      /\ request.marker # 0 => request.marker \in request.win
  BY <1>6, <1>20, <1>21
<1>8. requests' = Append(requests, request)
  BY <1>2, <1>5, <1>6, <1>7
<1>9. /\ requests' \in Seq(Requests) /\ Len(requests') = Len(requests) + 1
      /\ requests'[Len(requests) + 1] = request
      /\ \A i \in 1..Len(requests) : requests'[i] = requests[i]
  BY <1>3, <1>8, <1>22, AppendProperties
<1>10. Len(requests) \in Nat /\ DOMAIN requests = 1..Len(requests)
       /\ DOMAIN requests' = 1..Len(requests) + 1
  BY <1>3, <1>9
<1>11. \A i \in DOMAIN requests : i \in DOMAIN requests' /\ requests'[i] = requests[i]
  BY <1>9, <1>10
<1>12. \A i \in DOMAIN requests' : i \in DOMAIN requests \/ i = Len(requests) + 1
  BY <1>10
<1>13. \A i \in DOMAIN requests' : requests'[i].marker # 0 => requests'[i].marker \in requests'[i].win
  BY <1>3, <1>7, <1>9, <1>11, <1>12 DEF WiresOK
<1>14. \A n \in DOMAIN mail : mail[n][1] = "event" =>
         mail[n][2] \in DOMAIN requests' /\ ~requests'[mail[n][2]].pending
  BY <1>3, <1>11 DEF WiresOK
<1>15. WiresOK'
  BY <1>3, <1>4, <1>9, <1>13, <1>14 DEF WiresOK
<1>16. SignalsOK'
  BY <1>1, <1>3, <1>4, <1>11, SignalsStay
<1>17. /\ timer' \in [Timers -> Timer] /\ tracker' \in [1..MaxCycles -> 0..MaxRequests]
       /\ known' \subseteq 1..MaxCycles
  BY <1>3, <1>4 DEF TypeOK
<1>18. Len(requests') <= MaxRequests
  BY <1>1, <1>9, <1>10, BoundsAssumption
<1> QED
  BY <1>1, <1>4, <1>15, <1>16, <1>17, <1>18, MessageKeeps

LEMMA AnswerKeeps ==
  ASSUME IInv, Answer
  PROVE  Keeps /\ UNCHANGED cause
<1>1. /\ Toggling
      /\ UNCHANGED <<config, ending, abort, late, timer, known, hot, preparing, behind,
                     owned, done>>
  BY DEF Answer, Listening
<1>2. PICK i \in DOMAIN requests, body \in Answers :
        /\ requests[i].pending
        /\ requests' = [requests EXCEPT ![i].pending = FALSE, ![i].body = body]
        /\ mail' = Append(mail, <<"event", i>>)
  BY DEF Answer
<1>3. TypeOK /\ WiresOK /\ SignalsOK /\ requests \in Seq(Requests) /\ mail \in Seq(Mails)
  BY DEF IInv, WiresOK
<1>4. UNCHANGED <<cycle, result, wake, signal, tracker>> /\ UNCHANGED <<timer, known>>
      /\ UNCHANGED pc
  BY <1>1 DEF hot, ending
<1>5. Len(requests) \in Nat /\ DOMAIN requests = 1..Len(requests) /\ Len(requests) <= MaxRequests
      /\ i \in 1..MaxRequests
  BY <1>3, BoundsAssumption DEF TypeOK
<1>6. requests[i] \in Requests
  BY <1>3
<1>20. PICK old \in Requests : old = requests[i]
  BY <1>6
<1>21. PICK request : request = [old EXCEPT !.pending = FALSE, !.body = body]
  OBVIOUS
<1>22. request.win = old.win /\ request.marker = old.marker /\ ~request.pending
  BY <1>21 DEF Requests
<1>23. body \in Answers \cup {"none"}
  OBVIOUS
<1>24. request = [win |-> old.win, marker |-> old.marker, pending |-> FALSE, body |-> body]
  BY <1>21 DEF Requests
<1>25. request \in Requests
  BY <1>23, <1>24 DEF Requests
<1>7. /\ request = [requests[i] EXCEPT !.pending = FALSE, !.body = body]
      /\ request.win = requests[i].win /\ request.marker = requests[i].marker
      /\ ~request.pending
  BY <1>20, <1>21, <1>22
<1>26. PICK open : open = [old EXCEPT !.pending = FALSE]
  OBVIOUS
<1>27. request = [open EXCEPT !.body = body]
  BY <1>21, <1>26
<1>28. PICK mid : mid = [requests EXCEPT ![i] = open]
  OBVIOUS
<1>29. mid[i] = open
  BY <1>3, <1>28
<1>30. mid = [requests EXCEPT ![i] = [requests[i] EXCEPT !.pending = FALSE]]
  BY <1>20, <1>26, <1>28
<1>31. requests' = [mid EXCEPT ![i] = [mid[i] EXCEPT !.body = body]]
  BY <1>2, <1>30
<1>32. requests' = [mid EXCEPT ![i] = request]
  BY <1>27, <1>29, <1>31
<1>8. requests' = [requests EXCEPT ![i] = request]
  BY <1>3, <1>28, <1>32
<1>9. requests' \in Seq(Requests) /\ Len(requests') = Len(requests)
      /\ DOMAIN requests' = DOMAIN requests /\ requests'[i] = request
      /\ \A j \in DOMAIN requests : j # i => requests'[j] = requests[j]
  BY <1>3, <1>8, <1>25
<1>10. \A j \in DOMAIN requests' : requests'[j].marker # 0 => requests'[j].marker \in requests'[j].win
  BY <1>3, <1>7, <1>9 DEF WiresOK
<1>11. <<"event", i>> \in Mails
  BY <1>5 DEF Mails
<1>12. /\ mail' \in Seq(Mails) /\ Len(mail') = Len(mail) + 1
       /\ mail'[Len(mail) + 1] = <<"event", i>>
       /\ \A n \in 1..Len(mail) : mail'[n] = mail[n]
  BY <1>2, <1>3, <1>11, AppendProperties
<1>13. Len(mail) \in Nat /\ DOMAIN mail = 1..Len(mail) /\ DOMAIN mail' = 1..Len(mail) + 1
  BY <1>3, <1>12
<1>14. ASSUME NEW n \in DOMAIN mail', mail'[n][1] = "event"
       PROVE  mail'[n][2] \in DOMAIN requests' /\ ~requests'[mail'[n][2]].pending
  <2>1. CASE n = Len(mail) + 1
    <3>1. mail'[n] = <<"event", i>>
      BY <1>12, <2>1
    <3>2. mail'[n][2] = i
      BY <3>1
    <3> QED
      BY <1>7, <1>9, <3>2
  <2>2. CASE n # Len(mail) + 1
    <3>1. n \in DOMAIN mail /\ mail'[n] = mail[n]
      BY <1>12, <1>13, <2>2
    <3>2. PICK j : j = mail[n][2] /\ j = mail'[n][2]
      BY <3>1
    <3>3. j \in DOMAIN requests /\ ~requests[j].pending
      BY <1>3, <1>14, <3>1, <3>2 DEF WiresOK
    <3>4. requests'[j] = requests[j] /\ j \in DOMAIN requests'
      BY <1>2, <1>9, <3>3
    <3> QED
      BY <3>2, <3>3, <3>4
  <2> QED
    BY <2>1, <2>2
<1>15. WiresOK'
  BY <1>3, <1>4, <1>9, <1>10, <1>12, <1>14 DEF WiresOK
<1>16. \A j \in DOMAIN requests : ~requests[j].pending =>
         j \in DOMAIN requests' /\ requests'[j] = requests[j]
  BY <1>2, <1>9
<1>17. SignalsOK'
  BY <1>1, <1>3, <1>4, <1>16, SignalsStay
<1>18. /\ timer' \in [Timers -> Timer] /\ tracker' \in [1..MaxCycles -> 0..MaxRequests]
       /\ known' \subseteq 1..MaxCycles /\ Len(requests') <= MaxRequests
  BY <1>3, <1>4, <1>5, <1>9 DEF TypeOK
<1> QED
  BY <1>1, <1>4, <1>15, <1>17, <1>18, MessageKeeps

\* A marker from the page leaves the requests that are answered as they are.
LEMMA MarkedFacts ==
  ASSUME NEW old \in Requests, NEW cycles \in SUBSET (1..MaxCycles),
         old.marker # 0 => old.marker \in old.win
  PROVE  /\ marked(old, cycles) \in Requests
         /\ marked(old, cycles).marker # 0 =>
              marked(old, cycles).marker \in marked(old, cycles).win
         /\ marked(old, cycles).pending = old.pending
         /\ ~old.pending => marked(old, cycles) = old
<1>1. CASE old.pending /\ old.marker = 0
  <2>1. old.win \in SUBSET Int /\ old.body \in Answers \cup {"none"}
    BY DEF Requests
  <2>2. PICK marker \in 0..MaxCycles :
          marker = matchingMarker(cycles, old.win) /\ (marker # 0 => marker \in old.win)
    BY <2>1, MarkerInWindow
  <2>3. PICK new : new = marked(old, cycles)
    OBVIOUS
  <2>4. new = [old EXCEPT !.marker = marker]
    BY <1>1, <2>2, <2>3 DEF marked
  <2>5. new.win = old.win /\ new.pending = old.pending /\ new.marker = marker
    BY <2>4 DEF Requests
  <2>6. new = [win |-> old.win, marker |-> marker, pending |-> TRUE, body |-> old.body]
    BY <1>1, <2>4 DEF Requests
  <2>7. new \in Requests
    BY <2>1, <2>6 DEF Requests
  <2> QED
    BY <1>1, <2>2, <2>3, <2>5, <2>7
<1>2. CASE ~(old.pending /\ old.marker = 0)
  BY <1>2 DEF marked
<1> QED
  BY <1>1, <1>2

\* What the tracker says of an answer.
LEMMA CorrelatedFacts ==
  ASSUME NEW cycles \in SUBSET (1..MaxCycles), NEW track, NEW event, event.win \in SUBSET Int,
         event.marker \in 0..MaxCycles, event.marker # 0 => event.marker \in event.win,
         NEW body, body = correlateBody(track, cycles, event)
  PROVE  /\ body.cycle \in 0..MaxCycles
         /\ body.cycle # 0 => body.cycle \in event.win
         /\ body.cycle # 0 /\ body.quality = "EXACT" => body.cycle = event.marker
<1>1. PICK fitting : fitting = cycles \cap event.win
  OBVIOUS
<1>2. IsFiniteSet(1..MaxCycles) /\ fitting \in SUBSET (1..MaxCycles)
  BY <1>1, FS_Interval, BoundsAssumption
<1>14. IsFiniteSet(fitting)
  BY <1>2, FS_Subset
<1>3. IsFiniteSet(fitting) /\ fitting \in SUBSET Int
  BY <1>2, <1>14
<1>4. Cardinality(fitting) = 1 => fitting # {}
  BY FS_EmptySet
<1>5. Cardinality(fitting) = 1 => Max(fitting) \in fitting
  BY <1>3, <1>4, MaxOfFinite
<1>6. PICK of : of = IF event.marker # 0 THEN IF event.marker \in cycles THEN event.marker ELSE 0
                     ELSE IF Cardinality(fitting) = 1 THEN Max(fitting) ELSE 0
  OBVIOUS
<1>7. PICK quality :
        quality = IF of = 0
                  THEN IF event.marker # 0 \/ fitting # {} THEN "WEAK" ELSE "NONE"
                  ELSE IF event.marker # 0 THEN "EXACT" ELSE "STRONG"
  OBVIOUS
<1>8. body = [cycle |-> of, quality |-> quality,
              stale |-> of # 0 /\ event.seq <= track[of]]
  BY <1>1, <1>6, <1>7 DEF correlateBody
<1>9. body.cycle = of /\ body.quality = quality
  BY ONLY <1>8
<1>10. 0 \in 0..MaxCycles /\ 1..MaxCycles \subseteq 0..MaxCycles
  BY BoundsAssumption
<1>11. of \in 0..MaxCycles
  BY <1>2, <1>5, <1>6, <1>10
<1>12. of # 0 => of \in event.win
  BY <1>1, <1>5, <1>6
<1>13. of # 0 /\ quality = "EXACT" => of = event.marker
  BY <1>6, <1>7
<1> QED
  BY <1>9, <1>11, <1>12, <1>13

\* The message at the head of the queue is taken from it.
LEMMA MailTaken ==
  ASSUME IInv, Deliver
  PROVE  /\ Toggling /\ Head(mail) \in Mails /\ mail' \in Seq(Mails)
         /\ Head(mail)[1] = "event" =>
              Head(mail)[2] \in DOMAIN requests /\ ~requests[Head(mail)[2]].pending
         /\ \A n \in DOMAIN mail' : mail'[n][1] = "event" =>
              mail'[n][2] \in DOMAIN requests /\ ~requests[mail'[n][2]].pending
         /\ UNCHANGED <<config, ending, abort, late, cycle, result, signal, preparing, behind,
                        owned, done>>
<1>1. /\ Toggling /\ mail # <<>> /\ mail' = Tail(mail)
      /\ UNCHANGED <<config, ending, abort, late, cycle, result, signal, preparing, behind,
                     owned, done>>
  BY DEF Deliver, Listening
<1>2. /\ mail \in Seq(Mails)
      /\ \A n \in DOMAIN mail : mail[n][1] = "event" =>
           mail[n][2] \in DOMAIN requests /\ ~requests[mail[n][2]].pending
  BY DEF IInv, WiresOK
<1>3. /\ Len(mail) \in Nat /\ Len(mail) # 0 /\ DOMAIN mail = 1..Len(mail)
      /\ Head(mail) = mail[1]
  BY <1>1, <1>2
<1>4. 1 \in DOMAIN mail
  BY <1>3
<1>5. /\ mail' \in Seq(Mails) /\ Len(mail') = Len(mail) - 1
      /\ \A n \in 1..Len(mail') : mail'[n] = mail[n + 1]
  BY <1>1, <1>2, HeadTailProperties
<1>6. DOMAIN mail' = 1..Len(mail')
  BY <1>5
<1>7. \A n \in DOMAIN mail' : n + 1 \in DOMAIN mail /\ mail'[n] = mail[n + 1]
  BY <1>3, <1>5, <1>6
<1>8. \A n \in DOMAIN mail' : mail'[n][1] = "event" =>
        mail'[n][2] \in DOMAIN requests /\ ~requests[mail'[n][2]].pending
  BY <1>2, <1>7
<1>9. Head(mail) \in Mails
  BY <1>2, <1>3, <1>4
<1> QED
  BY <1>1, <1>2, <1>3, <1>4, <1>5, <1>8, <1>9

\* The probe hears of a click.
LEMMA MarkKeeps ==
  ASSUME IInv, Deliver, Head(mail)[1] = "mark"
  PROVE  Keeps /\ UNCHANGED cause
<1>1. /\ Toggling /\ Head(mail) \in Mails /\ mail' \in Seq(Mails)
      /\ \A n \in DOMAIN mail' : mail'[n][1] = "event" =>
           mail'[n][2] \in DOMAIN requests /\ ~requests[mail'[n][2]].pending
      /\ UNCHANGED <<config, ending, abort, late, cycle, result, signal, preparing, behind,
                     owned, done>>
  BY MailTaken
<1>2. /\ known' = known \cup {Head(mail)[2]}
      /\ requests' = [i \in DOMAIN requests |-> marked(requests[i], known')]
      /\ UNCHANGED <<tracker, wake, timer>>
  BY DEF Deliver
<1>3. TypeOK /\ WiresOK /\ SignalsOK /\ requests \in Seq(Requests)
  BY DEF IInv, WiresOK
<1>4. Head(mail)[2] \in 1..MaxCycles
  BY <1>1 DEF Mails
<1>5. known' \in SUBSET (1..MaxCycles)
  BY <1>2, <1>3, <1>4 DEF TypeOK
<1>6. Len(requests) \in Nat /\ DOMAIN requests = 1..Len(requests) /\ Len(requests) <= MaxRequests
  BY <1>3 DEF TypeOK
<1>7. \A i \in DOMAIN requests :
        /\ requests[i] \in Requests
        /\ requests[i].marker # 0 => requests[i].marker \in requests[i].win
  BY <1>3 DEF WiresOK
<1>8. DOMAIN requests' = DOMAIN requests
  BY <1>2
<1>9. \A i \in DOMAIN requests :
        /\ requests'[i] \in Requests
        /\ requests'[i].marker # 0 => requests'[i].marker \in requests'[i].win
        /\ requests'[i].pending = requests[i].pending
        /\ ~requests[i].pending => requests'[i] = requests[i]
  <2> SUFFICES ASSUME NEW i \in DOMAIN requests
               PROVE  /\ requests'[i] \in Requests
                      /\ requests'[i].marker # 0 => requests'[i].marker \in requests'[i].win
                      /\ requests'[i].pending = requests[i].pending
                      /\ ~requests[i].pending => requests'[i] = requests[i]
    OBVIOUS
  <2>1. PICK old \in Requests : old = requests[i] /\ (old.marker # 0 => old.marker \in old.win)
    BY <1>7
  <2>2. PICK cycles \in SUBSET (1..MaxCycles) : cycles = known'
    BY <1>5
  <2>3. requests'[i] = marked(old, cycles)
    BY <1>2, <2>1, <2>2
  <2>4. /\ marked(old, cycles) \in Requests
        /\ marked(old, cycles).marker # 0 =>
             marked(old, cycles).marker \in marked(old, cycles).win
        /\ marked(old, cycles).pending = old.pending
        /\ ~old.pending => marked(old, cycles) = old
    BY <2>1, MarkedFacts
  <2>5. old = requests[i]
    BY <2>1
  <2> HIDE DEF marked
  <2> QED
    BY ONLY <2>3, <2>4, <2>5
<1>10. requests' \in Seq(Requests) /\ Len(requests') = Len(requests)
  <2>1. requests' \in [1..Len(requests) -> Requests]
    BY <1>2, <1>6, <1>9
  <2> QED
    BY <1>6, <2>1
<1>11. \A n \in DOMAIN mail' : mail'[n][1] = "event" =>
         mail'[n][2] \in DOMAIN requests' /\ ~requests'[mail'[n][2]].pending
  BY <1>1, <1>8, <1>9
<1>12. WiresOK'
  BY <1>1, <1>2, <1>3, <1>8, <1>9, <1>10, <1>11 DEF WiresOK
<1>13. SignalsOK'
  BY <1>1, <1>2, <1>3, <1>8, <1>9, SignalsStay DEF ending
<1>14. timer' \in [Timers -> Timer] /\ tracker' \in [1..MaxCycles -> 0..MaxRequests]
  BY <1>2, <1>3 DEF TypeOK
<1> QED
  BY <1>1, <1>5, <1>6, <1>10, <1>12, <1>13, <1>14, MessageKeeps

\* The correlation and the wake after an answer.
LEMMA EventWires ==
  ASSUME IInv, Toggling, NEW i \in DOMAIN requests, ~requests[i].pending, HandleBody(i),
         UNCHANGED <<config, pc, cycle, signal>>
  PROVE  /\ tracker' \in [1..MaxCycles -> 0..MaxRequests] /\ wake' \in Wakes
         /\ timer' \in [Timers -> Timer] /\ SignalsOK'
<1>1. TypeOK /\ WiresOK /\ SignalsOK /\ requests \in Seq(Requests)
  BY DEF IInv, WiresOK
<1>2. /\ wake \in Wakes /\ cycle \in 0..MaxCycles
      /\ tracker \in [1..MaxCycles -> 0..MaxRequests] /\ timer \in [Timers -> Timer]
  BY <1>1 DEF WiresOK, TypeOK
<1>3. i \in 1..MaxRequests /\ i \in 0..MaxRequests
  <2>1. Len(requests) \in Nat /\ DOMAIN requests = 1..Len(requests) /\ Len(requests) <= MaxRequests
    BY <1>1 DEF TypeOK
  <2> QED
    BY <2>1, BoundsAssumption
<1>4. PICK request \in Requests :
        request = requests[i] /\ (request.marker # 0 => request.marker \in request.win)
  BY <1>1 DEF WiresOK
<1>5. PICK event : event = [seq |-> i, marker |-> requests[i].marker, win |-> requests[i].win,
                            body |-> requests[i].body]
  OBVIOUS
<1>6. event.seq = i /\ event.marker = request.marker /\ event.win = request.win
      /\ event.body = request.body
  BY ONLY <1>4, <1>5
<1>7. PICK body : body = correlateBody(tracker, clicked, event)
  OBVIOUS
<1>8. PICK taken \in BOOLEAN :
        taken = acceptable(wake, body, event, config.probe = "empty_exit")
  BY DEF acceptable
<1>9. /\ tracker' = recorded(tracker, body, event)
      /\ wake' = IF taken THEN offered(wake, body, event) ELSE wake
      /\ timer' = IF taken THEN [timer EXCEPT !.body = "set"] ELSE timer
      /\ UNCHANGED <<known, requests>>
  BY <1>5, <1>7, <1>8 DEF HandleBody
<1>10. clicked \in SUBSET (1..MaxCycles)
  BY <1>2, BoundsAssumption DEF clicked
<1>11. event.win \in SUBSET Int /\ event.marker \in 0..MaxCycles
       /\ (event.marker # 0 => event.marker \in event.win)
  BY <1>4, <1>6 DEF Requests
<1>12. /\ body.cycle \in 0..MaxCycles
       /\ body.cycle # 0 => body.cycle \in event.win
       /\ body.cycle # 0 /\ body.quality = "EXACT" => body.cycle = event.marker
  BY <1>7, <1>10, <1>11, CorrelatedFacts
<1>13. tracker' \in [1..MaxCycles -> 0..MaxRequests]
  <2>1. CASE body.cycle = 0 \/ body.stale
    BY <1>2, <1>9, <2>1 DEF recorded
  <2>2. CASE ~(body.cycle = 0 \/ body.stale)
    <3>1. tracker' = [tracker EXCEPT ![body.cycle] = i]
      BY <1>6, <1>9, <2>2 DEF recorded
    <3> QED
      BY <1>2, <1>3, <3>1
  <2> QED
    BY <2>1, <2>2
<1>14. timer' \in [Timers -> Timer]
  BY <1>2, <1>9 DEF Timers, Timer
<1>15. CASE ~taken
  <2>1. UNCHANGED <<wake, requests>>
    BY <1>9, <1>15
  <2> QED
    BY <1>1, <1>2, <1>13, <1>14, <2>1, SignalsStay
<1>16. CASE taken
  <2>1. /\ body.quality \in {"EXACT", "STRONG"} /\ body.cycle # 0 /\ body.cycle = wake.active
        /\ event.body = "EMPTY" => config.probe = "empty_exit" /\ body.quality = "EXACT"
    BY <1>8, <1>16 DEF acceptable
  <2>2. pc \in {"settle", "detect"} /\ body.cycle = cycle
    <3>1. wake # NoWake
      BY <2>1, Nothing
    <3> QED
      BY <1>1, <2>1, <3>1 DEF SignalsOK
  <2>3. PICK s : s = [cycle |-> body.cycle, seq |-> event.seq, quality |-> body.quality,
                      kind |-> IF event.body = "EMPTY" THEN "empty_exit" ELSE "scan_wake"]
    OBVIOUS
  <2>4. /\ s.cycle = body.cycle /\ s.seq = event.seq
        /\ s.kind = IF event.body = "EMPTY" THEN "empty_exit" ELSE "scan_wake"
    BY ONLY <2>3
  <2>5. s \in Signals
    BY <1>3, <1>6, <1>12, <2>1, <2>3 DEF Signals
  <2>6. wake' = [wake EXCEPT !.last = event.seq, !.pending = s]
    BY <1>9, <1>16, <2>3 DEF offered
  <2>7. wake'.active = wake.active /\ wake'.last = i /\ wake'.pending = s /\ wake' \in Wakes
    <3>1. wake' = [active |-> wake.active, last |-> i, pending |-> s]
      BY <1>2, <1>6, <2>6 DEF Wakes
    <3>2. wake'.active = wake.active /\ wake'.last = i /\ wake'.pending = s
      BY ONLY <3>1
    <3>3. wake.active \in 0..MaxCycles
      BY <1>2 DEF Wakes
    <3> QED
      BY <1>3, <2>5, <3>1, <3>2, <3>3 DEF Wakes
  <2>8. UNCHANGED <<config, pc, cycle, signal, requests>>
    BY <1>9
  <2>9. meant(s)
    <3>1. s.cycle = cycle /\ s.seq \in DOMAIN requests
      BY <1>6, <2>2, <2>4
    <3>2. cycle \in requests[s.seq].win /\ ~requests[s.seq].pending
      BY <1>4, <1>6, <1>12, <2>1, <2>2, <2>4
    <3>3. s.kind = "empty_exit" =>
            /\ config.probe = "empty_exit"
            /\ requests[s.seq].body = "EMPTY" /\ requests[s.seq].marker = cycle
      BY <1>4, <1>6, <1>12, <2>1, <2>2, <2>4
    <3> QED
      BY <3>1, <3>2, <3>3 DEF meant
  <2>10. meant(wake.pending)'
    BY <2>7, <2>8, <2>9 DEF meant
  <2>11. wake'.pending.seq = wake'.last
    BY <1>6, <2>4, <2>7
  <2>12. signal # NoSignal => meant(signal)' /\ signal.kind # "empty_exit"
    BY <1>1, <2>8 DEF SignalsOK, meant
  <2>13. wake.active = cycle /\ cycle \in 1..MaxCycles
    BY <1>1, <2>2 DEF SignalsOK
  <2>14. SignalsOK'
    BY <2>2, <2>7, <2>8, <2>10, <2>11, <2>12, <2>13 DEF SignalsOK
  <2> QED
    BY <1>13, <1>14, <2>7, <2>14
<1> QED
  BY <1>15, <1>16

\* An answer reaches the tracker.
LEMMA DeliverKeeps ==
  ASSUME IInv, Deliver
  PROVE  Keeps /\ UNCHANGED cause
<1>1. CASE Head(mail)[1] = "mark"
  BY <1>1, MarkKeeps
<1>2. CASE Head(mail)[1] # "mark"
  <2>1. /\ Toggling /\ Head(mail) \in Mails /\ mail' \in Seq(Mails)
        /\ Head(mail)[1] = "event" =>
             Head(mail)[2] \in DOMAIN requests /\ ~requests[Head(mail)[2]].pending
        /\ \A n \in DOMAIN mail' : mail'[n][1] = "event" =>
             mail'[n][2] \in DOMAIN requests /\ ~requests[mail'[n][2]].pending
        /\ UNCHANGED <<config, ending, abort, late, cycle, result, signal, preparing, behind,
                       owned, done>>
    BY MailTaken
  <2>2. Head(mail)[1] = "event"
    BY <1>2, <2>1 DEF Mails
  <2>3. PICK i \in DOMAIN requests : i = Head(mail)[2] /\ ~requests[i].pending
    BY <2>1, <2>2
  <2>4. HandleBody(i)
    BY <1>2, <2>3 DEF Deliver
  <2>5. UNCHANGED <<known, requests>>
    BY <2>4 DEF HandleBody
  <2>6. UNCHANGED pc
    BY <2>1 DEF ending
  <2>7. /\ tracker' \in [1..MaxCycles -> 0..MaxRequests] /\ wake' \in Wakes
        /\ timer' \in [Timers -> Timer] /\ SignalsOK'
    BY <2>1, <2>3, <2>4, <2>6, EventWires
  <2>8. WiresOK /\ TypeOK
    BY DEF IInv
  <2>9. WiresOK'
    BY <2>1, <2>5, <2>7, <2>8 DEF WiresOK
  <2>10. known' \subseteq 1..MaxCycles /\ Len(requests') <= MaxRequests
    BY <2>5, <2>8 DEF TypeOK
  <2> QED
    BY <2>1, <2>7, <2>9, <2>10, MessageKeeps
<1> QED
  BY <1>1, <1>2

-----------------------------------------------------------------------------
(* Every step *)

\* The first state of a page keeps the invariant.
LEMMA InitKeeps ==
  ASSUME Init
  PROVE  IInv
<1>1. /\ config \in Configs /\ state = "IDLE" /\ pc = "start" /\ threw = FALSE
      /\ abort = FALSE /\ late = FALSE /\ timer = AllOff
      /\ step = NoStep /\ pressed = 0 /\ cause = "none"
      /\ cycle = 0 /\ result = "none" /\ wake = NoWake /\ signal = NoSignal
      /\ tracker = [c \in 1..MaxCycles |-> 0]
      /\ known = {} /\ requests = <<>> /\ mail = <<>>
      /\ pin = (IF config.completion THEN "held" ELSE "none") /\ resources = {}
      /\ executing = FALSE /\ slotClicks = 0 /\ claim = "none"
      /\ held = "none" /\ dismissed = FALSE /\ agreed = {}
  BY DEF Init
<1>2. ~Over /\ ~Toggling
  BY <1>1 DEF Over, Toggling
<1>3. Len(requests) <= MaxRequests /\ requests \in Seq(Requests) /\ mail \in Seq(Mails)
      /\ DOMAIN requests = {} /\ DOMAIN mail = {}
  <2>1. Len(requests) = 0
    BY <1>1
  <2> QED
    BY <1>1, <2>1, BoundsAssumption
<1>4. state \in RunState
  <2>1. PICK d \in BOOLEAN : d = FALSE
    OBVIOUS
  <2>2. {"IDLE", "CONFIGURED", "VALIDATING", "PREPARING_PAGE", "SLOT_DETECTED",
         "SLOT_TRANSITION_CONFIRMED"} \subseteq RunState \ TERMINAL
    BY <2>1, Allowed
  <2> QED
    BY <1>1, <2>2
<1>5. tracker \in [1..MaxCycles -> 0..MaxRequests]
  <2>1. tracker = [c \in 1..MaxCycles |-> 0]
    BY DEF Init
  <2>2. 0 \in 0..MaxRequests
    BY Nothing
  <2> QED
    BY ONLY <2>1, <2>2
<1>6. TypeOK
  <2>1. cycle \in 0..MaxCycles /\ timer \in [Timers -> Timer] /\ step \in Steps
    BY <1>1, Nothing
  <2>2. known \subseteq 1..MaxCycles /\ resources \subseteq {"shadow", "slotWatch", "mutation", "clock"}
        /\ agreed \subseteq {"zero", "selected", "notice"}
    BY <1>1
  <2>3. pin \in {"none", "held", "taken", "gone"} /\ pressed \in Nat /\ slotClicks \in Nat
    BY <1>1
  <2> QED
    BY <1>1, <1>3, <1>4, <1>5, <2>1, <2>2, <2>3 DEF TypeOK
<1>7. WiresOK
  BY <1>1, <1>3, Nothing DEF WiresOK
<1>8. Places /\ Progress
  BY <1>1, <1>2 DEF Places, Progress
<1>9. StepOK
  BY <1>1, Nothing, Budgets DEF StepOK, Measured
<1>10. SignalsOK
  BY <1>1, Nothing DEF SignalsOK
<1>11. SlotClickedOnce /\ PaymentPolicyKept
  BY <1>1 DEF SlotClickedOnce, PaymentPolicyKept
<1>12. LeavesNothingBehind /\ EndingIsTrue
  BY <1>2 DEF LeavesNothingBehind, EndingIsTrue
<1> QED
  BY <1>6, <1>7, <1>8, <1>9, <1>10, <1>11, <1>12 DEF IInv

\* What is reported of the run stays as it is.
Still == (Over <=> Over') /\ (Over => UNCHANGED <<state, cause>>)

\* What a step tells the supervisor that does not end the flow.
Tells ==
  /\ Still
  /\ \/ UNCHANGED <<executing, claim, abort>>
     \/ ~Over /\ ~executing /\ executing' /\ UNCHANGED <<claim, abort>>
     \/ /\ ~Over /\ executing /\ UNCHANGED <<executing, abort>>
        /\ \/ claim = "none" /\ claim' = "asked"
           \/ claim = "asked" /\ claim' \in {"made", "over"}
     \/ abort' = TRUE /\ UNCHANGED <<executing, claim>>

Caused ==
  cause' # cause =>
    /\ cause' = "ENTRY_CTA_MISSING" => pressed = 0
    /\ cause' = "ENTRY_TRANSITION_STALLED" => pressed > 0

\* What every step of the page is.
Steady == IInv' /\ (Ends \/ (Knowingly /\ Tells)) /\ Caused

LEMMA KeepsSteady ==
  ASSUME IInv, Keeps, ~Over, Caused
  PROVE  Steady
<1>1. CASE Ends
  BY <1>1, EndsKeep DEF Steady
<1>2. CASE IInv' /\ Silent
  BY <1>2 DEF Steady, Silent, Tells, Still
<1> QED
  BY <1>1, <1>2 DEF Keeps

\* What the flow does.
LEMMA SessionKeeps ==
  ASSUME IInv, Session
  PROVE  Steady
<1>1. CASE Start
  <2>1. ~Over /\ UNCHANGED cause
    BY <1>1 DEF Start, Over, done, End
  <2> QED
    BY <1>1, <2>1, StartKeeps, KeepsSteady DEF Caused
<1>2. CASE Synced
  <2>1. ~Over /\ UNCHANGED cause
    BY <1>2 DEF Synced, Over, done, EndAs, End
  <2> QED
    BY <1>2, <2>1, SyncedKeeps, KeepsSteady DEF Caused
<1>3. CASE Prepare
  <2>1. ~Over
    BY <1>3 DEF Prepare, Over
  <2> QED
    BY <1>3, <2>1, PrepareKeeps, KeepsSteady DEF Caused
<1>4. CASE Confirm
  <2>1. ~Over
    BY <1>4 DEF Confirm, Over
  <2>2. UNCHANGED cause /\ (Ends \/ (IInv' /\ ~Over' /\ ~executing /\ executing'
                                      /\ UNCHANGED <<claim, abort, result>>))
    BY <1>4, ConfirmKeeps
  <2> QED
    BY <2>1, <2>2, EndsKeep DEF Steady, Tells, Still, Caused, Knowingly
<1>5. CASE Open \/ Search \/ Adjacent \/ Target
  <2>1. ~Over
    BY <1>5 DEF Open, Search, Adjacent, Target, Over
  <2>2. Keeps /\ UNCHANGED cause
    BY <1>5, OpenKeeps, SearchKeeps, AdjacentKeeps, TargetKeeps
  <2> QED
    BY <2>1, <2>2, KeepsSteady DEF Caused
<1>6. CASE Settle \/ Detect \/ Transition \/ Advance
  <2>1. ~Over
    BY <1>6 DEF Settle, Detect, Transition, Advance, Over
  <2>2. Keeps /\ UNCHANGED cause
    BY <1>6, SettleKeeps, DetectKeeps, TransitionKeeps, AdvanceKeeps
  <2> QED
    BY <2>1, <2>2, KeepsSteady DEF Caused
<1>7. CASE Claim
  BY <1>7, ClaimKeeps DEF Steady, Tells, Still, Caused
<1>8. CASE Complete
  BY <1>8, CompleteKeeps, EndsKeep DEF Steady, Caused
<1>9. CASE Return
  BY <1>9, ReturnKeeps DEF Steady, Tells, Still, Caused
<1> QED
  BY <1>1, <1>2, <1>3, <1>4, <1>5, <1>6, <1>7, <1>8, <1>9 DEF Session

\* What happens to the flow.
LEMMA EnvironmentKeeps ==
  ASSUME IInv, Environment
  PROVE  Steady
<1>1. CASE Throw
  <2>1. UNCHANGED cause
    BY <1>1 DEF Throw, done
  <2> QED
    BY <1>1, <2>1, ThrowEnds, EndsKeep DEF Steady, Caused
<1>2. CASE TakePin \/ Expire
  <2>1. ~Over
    BY <1>2 DEF TakePin, Expire, Running, Over
  <2>2. Keeps /\ UNCHANGED cause
    BY <1>2, TakePinKeeps, ExpireKeeps
  <2> QED
    BY <2>1, <2>2, KeepsSteady DEF Caused
<1>3. CASE Abort
  BY <1>3, AbortKeeps DEF Steady, Tells, Still, Caused
<1>4. CASE Elapse \/ ElapseStep \/ Arrival
  <2>1. /\ IInv' /\ UNCHANGED <<executing, claim, abort, cause, state>> /\ (Over <=> Over')
        /\ Knowingly
    BY <1>4, ElapseKeeps, ElapseStepKeeps, ArrivalKeeps
  <2> QED
    BY <2>1 DEF Steady, Tells, Still, Caused
<1>5. CASE Request \/ Answer \/ Deliver
  <2>1. ~Over
    BY <1>5 DEF Request, Answer, Deliver, Listening, Toggling, Over
  <2>2. Keeps /\ UNCHANGED cause
    BY <1>5, RequestKeeps, AnswerKeeps, DeliverKeeps
  <2> QED
    BY <2>1, <2>2, KeepsSteady DEF Caused
<1> QED
  BY <1>1, <1>2, <1>3, <1>4, <1>5 DEF Environment

LEMMA StutterKeeps ==
  ASSUME IInv, UNCHANGED vars
  PROVE  Steady
<1>1. /\ UNCHANGED <<config, abort, late, timer, cause, executing, slotClicks, claim, agreed>>
      /\ UNCHANGED <<state, pc, threw>> /\ UNCHANGED <<known, requests, mail>>
      /\ UNCHANGED <<cycle, result, wake, signal, tracker>> /\ UNCHANGED <<step, pressed>>
      /\ UNCHANGED <<held, dismissed>> /\ UNCHANGED <<pin, resources>>
  BY DEF vars, ending, world, hot, preparing, behind, owned, done
<1>2. (Over <=> Over') /\ (Toggling <=> Toggling')
  BY <1>1 DEF Over, Toggling
<1>3. TypeOK' /\ WiresOK'
  BY <1>1 DEF IInv, TypeOK, WiresOK
<1>4. Places' /\ Progress'
  BY <1>1, <1>2 DEF IInv, Places, Progress
<1>5. StepOK' /\ SignalsOK'
  BY <1>1, StepSame DEF IInv, SignalsOK, meant
<1>6. SlotClickedOnce' /\ PaymentPolicyKept'
  BY <1>1 DEF IInv, SlotClickedOnce, PaymentPolicyKept
<1>7. LeavesNothingBehind' /\ EndingIsTrue'
  BY <1>1, <1>2 DEF IInv, LeavesNothingBehind, EndingIsTrue
<1>8. IInv'
  BY <1>3, <1>4, <1>5, <1>6, <1>7 DEF IInv
<1>9. Knowingly /\ Tells /\ Caused
  BY <1>1, <1>2 DEF Knowingly, Tells, Still, Caused
<1> QED
  BY <1>8, <1>9 DEF Steady

LEMMA NextKeeps ==
  ASSUME IInv, [Next]_vars
  PROVE  Steady
BY SessionKeeps, EnvironmentKeeps, StutterKeeps DEF Next

\* The invariant holds in every state of an attempt.
LEMMA Invariant == Spec => []IInv
<1>1. Init => IInv
  BY InitKeeps
<1>2. IInv /\ [Next]_vars => IInv'
  BY NextKeeps DEF Steady
<1> QED
  BY <1>1, <1>2, PTL DEF Spec

-----------------------------------------------------------------------------
(* What follows from the invariant *)

\* Every variable has a value of its kind, whatever the page shows, whenever the deadlines
\* pass and in whatever order the messages come.
THEOREM TypeCorrect == Spec => []TypeOK
<1>1. IInv => TypeOK
  BY DEF IInv
<1> QED
  BY <1>1, Invariant, PTL

\* The slot is clicked at most once, never in a dry run, and not before the supervisor was
\* told that the attempt executes; no way leads back to the toggling (advanceFromSlot).
THEOREM OneClick == Spec => []SlotClickedOnce
<1>1. IInv => SlotClickedOnce
  BY DEF IInv
<1> QED
  BY <1>1, Invariant, PTL

\* A signal is of the cycle the loop is in, of an answer to a request sent in its window,
\* however many cycles and answers overlap (AvailabilityDomWake, correlateBody).
THEOREM SignalsAreCurrent == Spec => []WakeIsCurrent
<1>1. IInv => WakeIsCurrent
  <2> SUFFICES ASSUME IInv, NEW s \in {wake.pending, signal} \ {NoSignal}
               PROVE  /\ s.cycle = cycle /\ wake.active = cycle
                      /\ cycle \in requests[s.seq].win
    BY DEF WakeIsCurrent
  <2>1. SignalsOK
    BY DEF IInv
  <2>2. pc \in {"settle", "detect"}
    BY <2>1, Nothing DEF SignalsOK
  <2>3. meant(s) /\ wake.active = cycle
    BY <2>1, <2>2 DEF SignalsOK
  <2> QED
    BY <2>3 DEF meant
<1> QED
  BY <1>1, Invariant, PTL

\* A control is pressed at most as often as its specification says, through every retry,
\* interstitial and interruption of the month (runPreparationStep).
THEOREM PressesStayInMeasure == Spec => []PressesInMeasure
<1>1. IInv => PressesInMeasure
  <2> SUFFICES ASSUME IInv PROVE PressesInMeasure
    OBVIOUS
  <2>1. step \in Steps /\ Measured(step, pressed)
    BY DEF IInv, TypeOK, StepOK
  <2>2. step.stage \in Stages
    BY <2>1 DEF Steps
  <2>3. pressed = 0 \/ pressed = step.attempts
    BY <2>1 DEF Measured
  <2>4. step.attempts <= spec[step.stage].max /\ spec[step.stage].max >= 0
    BY <2>1, <2>2, Budgets DEF Measured, Stages
  <2> QED
    BY <2>3, <2>4 DEF PressesInMeasure
<1> QED
  BY <1>1, Invariant, PTL

\* No payment is agreed to that the user did not allow (PostSlotAdapter.advance).
THEOREM PaymentsAreAllowed == Spec => []PaymentPolicyKept
<1>1. IInv => PaymentPolicyKept
  BY DEF IInv
<1> QED
  BY <1>1, Invariant, PTL

\* A run that is over leaves no PIN, no signal and at most one watch whose own stop failed,
\* however it ended (RunKernel.execute's finally, cleanup).
THEOREM NothingIsLeftBehind == Spec => []LeavesNothingBehind
<1>1. IInv => LeavesNothingBehind
  BY DEF IInv
<1> QED
  BY <1>1, Invariant, PTL

\* The terminal state a run reports is true (RunSession's endings, RunKernel's catch).
THEOREM EndingsAreTrue == Spec => []EndingIsTrue
<1>1. IInv => EndingIsTrue
  BY DEF IInv
<1> QED
  BY <1>1, Invariant, PTL

\* A cycle is cut short only for the newest answer that counted in it, which was empty,
\* marked with this very cycle and asked for in its window, in a run that allows it
\* (runToggleCycle, acceptable).
THEOREM CutsAreKnowing == Spec => CutShortKnowingly
<1>1. IInv /\ [Next]_vars => [Knowingly]_vars
  <2> SUFFICES ASSUME IInv, [Next]_vars PROVE Knowingly
    OBVIOUS
  <2>1. Ends => result' = "none"
    BY DEF Ends, Finally
  <2>2. Ends => Knowingly
    BY <2>1 DEF Knowingly
  <2> QED
    BY <2>2, NextKeeps DEF Steady
<1>2. Spec => [][Knowingly]_vars
  BY <1>1, Invariant, PTL DEF Spec
<1> QED
  BY <1>2 DEF CutShortKnowingly, Knowingly

\* A diagnosis of a missing entry button is of an entry that was never pressed, and one of a
\* stalled transition of one that was (classifyStall).
THEOREM DiagnosesFit == Spec => CauseFitsPresses
<1>1. IInv /\ [Next]_vars => [Caused]_vars
  BY NextKeeps DEF Steady
<1>2. Spec => [][Caused]_vars
  BY <1>1, Invariant, PTL DEF Spec
<1> QED
  BY <1>2 DEF CauseFitsPresses, Caused

-----------------------------------------------------------------------------
(* The attempt the supervisor relies on *)

\* The phase the supervisor knows of.
phase == IF executing THEN "EXECUTING" ELSE "PREPARING"

\* The state of an ending is one of those the contract has for how far the run got.
LEMMA EndingFits ==
  ASSUME IInv, Ends
  PROVE  /\ reported = "none" /\ UNCHANGED <<executing, claim, abort>>
         /\ claim # "asked"
         /\ reported' \in {"none"} \cup Contract!attemptEndings(phase, claim, abort)
<1>1. /\ ~Over /\ Over' /\ UNCHANGED <<config, abort, executing, slotClicks, claim>>
      /\ Fits(state', threw')
      /\ cause' = cause \/ (cause' \in Causes /\ state' = "HANDED_OFF" /\ ~executing)
  BY DEF Ends, Finally, Over
<1>2. reported = "none" /\ cause = "none"
  BY <1>1 DEF reported, IInv, Progress
<1>3. claim \in {"none", "made", "over"} /\ (~executing => claim = "none")
  BY <1>1 DEF Fits, IInv, TypeOK, Progress, Over
<1>4. claim # "none" => slotClicks = 1
  BY <1>1 DEF IInv, Progress
<1>5. CASE state' \notin TERMINAL
  BY <1>1, <1>2, <1>5 DEF reported, Fits
<1>6. CASE state' \in TERMINAL /\ cause' # "none"
  <2>1. ~executing /\ claim = "none" /\ cause' \in Causes
    BY <1>1, <1>2, <1>3, <1>6
  <2>2. reported' \in {"PREP_BLOCKED", "PREP_STALLED"}
    BY <1>1, <1>6, <2>1 DEF reported, Causes
  <2> QED
    BY <1>1, <1>2, <2>1, <2>2 DEF Contract!attemptEndings, phase, Fits
<1>7. CASE state' \in TERMINAL /\ cause' = "none"
  <2>1. reported' = state'
    BY <1>1, <1>7 DEF reported, BlockedCauses, StalledCauses
  <2>2. /\ state' = "STOPPED" => abort /\ claim = "none"
        /\ state' = "TIMED_OUT" => claim = "none"
        /\ state' = "COMPLETED" => claim = "made"
        /\ state' = "DRY_RUN_COMPLETED" => claim = "none" /\ executing
        /\ state' = "FAILED" => claim = "none"
    BY <1>1, <1>3, <1>4 DEF Fits
  <2>3. state' \in Contract!attemptEndings(phase, claim, abort)
    BY <1>3, <1>7, <2>2 DEF Contract!attemptEndings, phase, TERMINAL
  <2> QED
    BY <1>1, <1>2, <2>1, <2>3 DEF Fits
<1> QED
  BY <1>5, <1>6, <1>7

\* Every step of the page is one of the contract, or none.
LEMMA StepIsContracted ==
  ASSUME IInv, [Next]_vars
  PROVE  [Contract!Next]_(Contract!vars)
<1>1. Steady
  BY NextKeeps
<1>2. CASE Ends
  <2>1. /\ reported = "none" /\ UNCHANGED <<executing, claim, abort>>
        /\ claim # "asked"
        /\ reported' \in {"none"} \cup Contract!attemptEndings(phase, claim, abort)
    BY <1>2, EndingFits
  <2>2. CASE reported' = "none"
    BY <2>1, <2>2 DEF Contract!vars
  <2>3. CASE reported' # "none"
    BY <2>1, <2>3 DEF Contract!Next, Contract!End, phase
  <2> QED
    BY <2>2, <2>3
<1>3. CASE ~Ends
  <2>1. Tells
    BY <1>1, <1>3 DEF Steady
  <2>2. reported' = reported
    BY <2>1 DEF Tells, Still, reported
  <2>3. ~Over => reported = "none"
    BY DEF reported
  <2>4. CASE UNCHANGED <<executing, claim, abort>>
    BY <2>2, <2>4 DEF Contract!vars
  <2>5. CASE ~Over /\ ~executing /\ executing' /\ UNCHANGED <<claim, abort>>
    BY <2>2, <2>3, <2>5 DEF Contract!Next, Contract!Execute
  <2>6. CASE /\ ~Over /\ executing /\ UNCHANGED <<executing, abort>>
             /\ \/ claim = "none" /\ claim' = "asked"
                \/ claim = "asked" /\ claim' \in {"made", "over"}
    BY <2>2, <2>3, <2>6 DEF Contract!Next, Contract!Ask, Contract!Answer
  <2>7. CASE abort' = TRUE /\ UNCHANGED <<executing, claim>>
    BY <2>2, <2>7 DEF Contract!Next, Contract!Stop
  <2> QED
    BY <2>1, <2>4, <2>5, <2>6, <2>7 DEF Tells
<1> QED
  BY <1>2, <1>3

\* An attempt is one the supervisor may rely on: it says so before it executes, asks for the
\* final press once and only then, and ends once, as befits how far it got (RunKernel.execute,
\* PageRuntime's reports).
THEOREM AttemptKeepsContract == Spec => HonoursContract
<1>1. Init => Contract!Init
  BY DEF Init, Contract!Init, reported, Over
<1>2. IInv /\ [Next]_vars => [Contract!Next]_(Contract!vars)
  BY StepIsContracted
<1> QED
  BY <1>1, <1>2, Invariant, PTL DEF Spec, HonoursContract, Contract!Spec
=============================================================================
