---------------------- MODULE CompletionDispatch_proofs ----------------------
(***************************************************************************)
(* The completion flow for every set of forms, every length of the PIN and *)
(* every limit of rounds: its type, its inductive invariant, and the       *)
(* promise of DispatchAuthority.                                           *)
(***************************************************************************)
EXTENDS CompletionDispatch, LogicalRun_proofs

USE CompletionAssumption, LogicalRunAssumption

\* The flow always works for the current attempt of its logical run.
CurrentAttempt == lr.cur = Attempt

\* The inductive invariant.
IInv == TypeOK /\ CurrentAttempt /\ FlowMatchesRecord /\ SecretIsShortLived

-----------------------------------------------------------------------------
(* Lemmas *)

\* A form that is ready or lies below a PIN surface has a fingerprint.
LEMMA FormHasFingerprint ==
  ASSUME form \in Forms, form.kind \in {"ready", "other", "pin"}
  PROVE  form.fp \in Fingerprints
BY DEF Forms, Shown, accepted

\* What a fingerprint says about its form.
LEMMA FactsType ==
  ASSUME NEW fp \in Fingerprints
  PROVE  /\ Facts[fp].amount \in Nat /\ Facts[fp].empty \in Nat
         /\ Facts[fp].unchecked \in Nat /\ Facts[fp].optional \in Nat
OBVIOUS

\* The permissions, read off the dispatch record.
LEMMA PermittedPhases ==
  /\ permitted \subseteq Phases
  /\ "outer" \in permitted <=> lr.dispatch.fp # NoId
  /\ "pin" \in permitted <=> lr.dispatch.pin
BY DEF permitted, Phases, isAcknowledgedCompletionClaim

\* The permissions are a function of the dispatch record alone.
LEMMA PermittedStays ==
  ASSUME lr'.dispatch = lr.dispatch
  PROVE  permitted' = permitted
BY DEF permitted, Phases, isAcknowledgedCompletionClaim

-----------------------------------------------------------------------------
(* The inductive invariant *)

\* The invariant holds before the flow begins.
LEMMA InitInvariant == Init => IInv
PROOF
<1> SUFFICES ASSUME Init PROVE IInv
  OBVIOUS
<1>1. PICK t \in Tabs, status \in {"PREPARING", "EXECUTING"} :
        lr = [createLogicalRun(Attempt, t) EXCEPT !.status = status]
  BY DEF Init
<1>2. lr \in LogicalRuns /\ lr.dispatch = NoDispatch /\ lr.cur = Attempt
  BY <1>1, CreatedRun DEF LogicalRuns, Statuses
<1>3. permitted = {}
  BY <1>2, PermittedPhases DEF NoDispatch, Phases
<1>4. TypeOK
  <2>1. rounds \in 0..MaxRounds /\ digits \in 0..PinLength /\ optional \in Nat
    BY DEF Init
  <2>2. stopping \in BOOLEAN /\ abort \in BOOLEAN /\ expired \in BOOLEAN /\ late \in BOOLEAN
    BY DEF Init
  <2> QED
    BY <1>2, <2>1, <2>2 DEF Init, TypeOK, Awaits, Phases, Holders
<1>5. FlowMatchesRecord
  BY <1>2, <1>3 DEF Init, FlowMatchesRecord, Phases, NoDispatch
<1>6. CurrentAttempt /\ SecretIsShortLived
  BY <1>2 DEF Init, CurrentAttempt, SecretIsShortLived
<1> QED
  BY <1>4, <1>5, <1>6 DEF IInv

\* A return from any await but a pending claim keeps the invariant.
LEMMA ReturnStep ==
  ASSUME IInv, NEW r \in Results, return(r), UNCHANGED <<lr, call>>,
         pc # "done", reply # "none" \/ pc \notin Phases
  PROVE  FlowMatchesRecord' /\ SecretIsShortLived'
PROOF
<1>1. permitted' = permitted
  BY PermittedStays
<1>2. call = "none"
  BY DEF IInv, FlowMatchesRecord, TypeOK, Phases
<1>3. FlowMatchesRecord'
  BY <1>1, <1>2 DEF IInv, FlowMatchesRecord, return, Results
<1>4. SecretIsShortLived'
  BY DEF IInv, SecretIsShortLived, return
<1> QED
  BY <1>3, <1>4

\* Begin either returns or enters the loop; nothing is claimed yet.
LEMMA BeginStep == IInv /\ Begin => IInv'
PROOF
<1> SUFFICES ASSUME IInv, Begin PROVE IInv'
  OBVIOUS
<1>1. permitted' = permitted
  BY PermittedStays DEF Begin, still, environment, control
<1>2. TypeOK'
  BY FormHasFingerprint, FactsType
  DEF IInv, TypeOK, Begin, still, environment, control, time, return, facts, undisturbed, Awaits, Results
<1>3. FlowMatchesRecord' /\ SecretIsShortLived'
  <2>1. CASE \E r \in Results : return(r)
    BY <2>1, ReturnStep DEF Begin, still, environment, control, Phases
  <2>2. CASE ~\E r \in Results : return(r)
    <3>1. /\ pc = "begin" /\ pc' = "loop" /\ secret' \in {secret, {}}
          /\ UNCHANGED <<lr, call, seen, digits, reply, submitted, result>>
      BY <2>2 DEF Begin, still, environment, control, Results
    <3>2. FlowMatchesRecord'
      BY <1>1, <3>1 DEF IInv, FlowMatchesRecord, Phases
    <3>3. SecretIsShortLived'
      BY <3>1 DEF IInv, SecretIsShortLived
    <3> QED
      BY <3>2, <3>3
  <2> QED
    BY <2>1, <2>2
<1>4. CurrentAttempt'
  BY DEF IInv, CurrentAttempt, Begin, still, environment, control
<1> QED
  BY <1>2, <1>3, <1>4 DEF IInv

\* LoopFill either returns or starts another round.
LEMMA LoopFillStep == IInv /\ LoopFill => IInv'
PROOF
<1> SUFFICES ASSUME IInv, LoopFill PROVE IInv'
  OBVIOUS
<1>1. permitted' = permitted
  BY PermittedStays DEF LoopFill, control
<1>2. TypeOK'
  <2>1. secret' \in {secret, secret \cap {"vault"}}
    BY DEF LoopFill, return
  <2>2. secret' \subseteq Holders
    BY <2>1 DEF IInv, TypeOK
  <2> QED
    BY <2>2, FormHasFingerprint, FactsType
    DEF IInv, TypeOK, LoopFill, control, time, return, facts, undisturbed, Awaits, Results
<1>3. FlowMatchesRecord' /\ SecretIsShortLived'
  <2>1. CASE \E r \in Results : return(r)
    BY <2>1, ReturnStep DEF LoopFill, control, Phases
  <2>2. CASE ~\E r \in Results : return(r)
    <3>1. /\ pc = "loop" /\ pc' = "loop"
          /\ UNCHANGED <<lr, call, seen, digits, secret, reply, submitted, result>>
      BY <2>2 DEF LoopFill, control, Results
    <3>2. FlowMatchesRecord'
      BY <1>1, <3>1 DEF IInv, FlowMatchesRecord, Phases
    <3>3. SecretIsShortLived'
      BY <3>1 DEF IInv, SecretIsShortLived
    <3> QED
      BY <3>2, <3>3
  <2> QED
    BY <2>1, <2>2
<1>4. CurrentAttempt'
  BY DEF IInv, CurrentAttempt, LoopFill, control
<1> QED
  BY <1>2, <1>3, <1>4 DEF IInv

\* LoopAgree either returns or waits for the click to settle.
LEMMA LoopAgreeStep == IInv /\ LoopAgree => IInv'
PROOF
<1> SUFFICES ASSUME IInv, LoopAgree PROVE IInv'
  OBVIOUS
<1>1. permitted' = permitted
  BY PermittedStays DEF LoopAgree, control
<1>2. TypeOK'
  BY FormHasFingerprint, FactsType
  DEF IInv, TypeOK, LoopAgree, control, time, return, facts, undisturbed, Awaits, Results
<1>3. FlowMatchesRecord' /\ SecretIsShortLived'
  <2>1. CASE \E r \in Results : return(r)
    BY <2>1, ReturnStep DEF LoopAgree, control, Phases
  <2>2. CASE ~\E r \in Results : return(r)
    <3>1. /\ pc = "loop" /\ pc' = "settle" /\ rounds' < MaxRounds
          /\ UNCHANGED <<lr, call, digits, secret, reply, submitted, result>>
      BY <2>2 DEF LoopAgree, control, Results
    <3>2. FlowMatchesRecord'
      BY <1>1, <3>1 DEF IInv, FlowMatchesRecord, Phases
    <3>3. SecretIsShortLived'
      BY <3>1 DEF IInv, SecretIsShortLived
    <3> QED
      BY <3>2, <3>3
  <2> QED
    BY <2>1, <2>2
<1>4. CurrentAttempt'
  BY DEF IInv, CurrentAttempt, LoopAgree, control
<1> QED
  BY <1>2, <1>3, <1>4 DEF IInv

\* LoopSettled either returns or starts another round.
LEMMA LoopSettledStep == IInv /\ LoopSettled => IInv'
PROOF
<1> SUFFICES ASSUME IInv, LoopSettled PROVE IInv'
  OBVIOUS
<1>1. permitted' = permitted
  BY PermittedStays DEF LoopSettled, still, environment, control
<1>2. TypeOK'
  <2>1. secret' \in {secret, secret \cap {"vault"}}
    BY DEF LoopSettled, return
  <2>2. secret' \subseteq Holders
    BY <2>1 DEF IInv, TypeOK
  <2> QED
    BY <2>2, FormHasFingerprint, FactsType
    DEF IInv, TypeOK, FlowMatchesRecord, LoopSettled, still, environment, control, time, return, facts, undisturbed, Awaits, Results
<1>3. FlowMatchesRecord' /\ SecretIsShortLived'
  <2>1. CASE \E r \in Results : return(r)
    BY <2>1, ReturnStep DEF LoopSettled, still, environment, control, Phases
  <2>2. CASE ~\E r \in Results : return(r)
    <3>1. /\ pc = "settle" /\ pc' = "loop"
          /\ UNCHANGED <<lr, call, seen, digits, secret, reply, submitted, result>>
      BY <2>2 DEF LoopSettled, still, environment, control, Results
    <3>2. FlowMatchesRecord'
      BY <1>1, <3>1 DEF IInv, FlowMatchesRecord, Phases
    <3>3. SecretIsShortLived'
      BY <3>1 DEF IInv, SecretIsShortLived
    <3> QED
      BY <3>2, <3>3
  <2> QED
    BY <2>1, <2>2
<1>4. CurrentAttempt'
  BY DEF IInv, CurrentAttempt, LoopSettled, still, environment, control
<1> QED
  BY <1>2, <1>3, <1>4 DEF IInv

\* LoopInterrupted only returns.
LEMMA LoopInterruptedStep == IInv /\ LoopInterrupted => IInv'
PROOF
<1> SUFFICES ASSUME IInv, LoopInterrupted PROVE IInv'
  OBVIOUS
<1>1. PICK r \in Results : return(r)
  BY DEF LoopInterrupted, Results
<1>2. TypeOK'
  BY <1>1 DEF IInv, TypeOK, LoopInterrupted, still, environment, control, time, return, Awaits
<1>3. FlowMatchesRecord' /\ SecretIsShortLived'
  BY <1>1, ReturnStep DEF LoopInterrupted, still, environment, control, Phases
<1>4. CurrentAttempt'
  BY DEF IInv, CurrentAttempt, LoopInterrupted, still, environment, control
<1> QED
  BY <1>2, <1>3, <1>4 DEF IInv

\* Observe only returns.
LEMMA ObserveStep == IInv /\ Observe => IInv'
PROOF
<1> SUFFICES ASSUME IInv, Observe PROVE IInv'
  OBVIOUS
<1>1. PICK r \in Results : return(r)
  BY DEF Observe, Results
<1>2. TypeOK'
  BY <1>1 DEF IInv, TypeOK, Observe, still, environment, control, time, return, Awaits
<1>3. FlowMatchesRecord' /\ SecretIsShortLived'
  BY <1>1, ReturnStep DEF Observe, still, environment, control, Phases
<1>4. CurrentAttempt'
  BY DEF IInv, CurrentAttempt, Observe, still, environment, control
<1> QED
  BY <1>2, <1>3, <1>4 DEF IInv

\* GiveUp only returns, and never while a claim is on its way.
LEMMA GiveUpStep == IInv /\ GiveUp => IInv'
PROOF
<1> SUFFICES ASSUME IInv, GiveUp PROVE IInv'
  OBVIOUS
<1>1. "handed_off" \in Results /\ return("handed_off")
  BY DEF GiveUp, Results
<1>2. TypeOK'
  BY <1>1 DEF IInv, TypeOK, still, GiveUp, environment, control, time, return, Awaits
<1>3. FlowMatchesRecord' /\ SecretIsShortLived'
  BY <1>1, ReturnStep DEF GiveUp, still, environment
<1>4. CurrentAttempt'
  BY DEF IInv, CurrentAttempt, GiveUp, still, environment
<1> QED
  BY <1>2, <1>3, <1>4 DEF IInv

\* LoopClaim asks for a permission the record does not hold yet.
LEMMA LoopClaimStep == IInv /\ LoopClaim => IInv'
PROOF
<1> SUFFICES ASSUME IInv, LoopClaim PROVE IInv'
  OBVIOUS
<1>1. permitted' = permitted
  BY PermittedStays DEF LoopClaim, environment, control
<1>2. TypeOK'
  <2>1. secret' \in {secret, secret \cap {"vault"}, {"run"}}
    BY DEF LoopClaim, return
  <2>2. secret' \subseteq Holders
    BY <2>1 DEF IInv, TypeOK, Holders
  <2> QED
    BY <2>2, FormHasFingerprint, FactsType
    DEF IInv, TypeOK, LoopClaim, environment, control, time, return, facts, undisturbed, Awaits, Results, Phases
<1>3. FlowMatchesRecord' /\ SecretIsShortLived'
  <2>1. CASE \E r \in Results : return(r)
    BY <2>1, ReturnStep DEF LoopClaim, return, environment, control, Phases
  <2>2. CASE ~\E r \in Results : return(r)
    <3>1. /\ pc = "loop" /\ pc' = "outer" /\ seen' \in Fingerprints /\ call' = "outer"
          /\ secret' = IF Facts[seen'].amount > 0 THEN {"run"} ELSE secret
          /\ UNCHANGED <<lr, digits, reply, submitted, result>>
      BY <2>2, FormHasFingerprint DEF IInv, TypeOK, LoopClaim, undisturbed, facts, environment, control, Results
    <3>2. FlowMatchesRecord'
      BY <1>1, <3>1, PermittedPhases DEF IInv, FlowMatchesRecord, Phases
    <3>3. SecretIsShortLived'
      BY <3>1 DEF IInv, FlowMatchesRecord, SecretIsShortLived
    <3> QED
      BY <3>2, <3>3
  <2> QED
    BY <2>1, <2>2
<1>4. CurrentAttempt'
  BY DEF IInv, CurrentAttempt, LoopClaim, environment, control
<1> QED
  BY <1>2, <1>3, <1>4 DEF IInv

\* Watch returns or types the first digit.
LEMMA WatchStep == IInv /\ Watch => IInv'
PROOF
<1> SUFFICES ASSUME IInv, Watch PROVE IInv'
  OBVIOUS
<1>1. permitted' = permitted
  BY PermittedStays DEF Watch, still, environment, control
<1>2. TypeOK'
  <2>1. secret' \in {secret, secret \cap {"vault"}}
    BY DEF Watch, return
  <2>2. secret' \subseteq Holders
    BY <2>1 DEF IInv, TypeOK
  <2> QED
    BY <2>2, FormHasFingerprint, FactsType
    DEF IInv, TypeOK, Watch, still, environment, control, time, return, facts, undisturbed, Awaits, Results
<1>3. FlowMatchesRecord' /\ SecretIsShortLived'
  <2>1. CASE \E r \in Results : return(r)
    BY <2>1, ReturnStep DEF Watch, still, environment, control, Phases
  <2>2. CASE ~\E r \in Results : return(r)
    <3>1. /\ pc = "watch" /\ pc' = "digits"
          /\ UNCHANGED <<lr, call, seen, secret, reply, submitted, result>>
      BY <2>2 DEF Watch, still, environment, control, Results
    <3>2. FlowMatchesRecord'
      BY <1>1, <3>1, PermittedPhases DEF IInv, FlowMatchesRecord, Phases
    <3>3. SecretIsShortLived'
      BY <3>1 DEF IInv, SecretIsShortLived
    <3> QED
      BY <3>2, <3>3
  <2> QED
    BY <2>1, <2>2
<1>4. CurrentAttempt'
  BY DEF IInv, CurrentAttempt, Watch, still, environment, control
<1> QED
  BY <1>2, <1>3, <1>4 DEF IInv

\* Digit returns or types one more digit, never more than PinLength.
LEMMA DigitStep == IInv /\ Digit => IInv'
PROOF
<1> SUFFICES ASSUME IInv, Digit PROVE IInv'
  OBVIOUS
<1>1. permitted' = permitted
  BY PermittedStays DEF Digit, still, environment, control
<1>2. TypeOK'
  <2>1. secret' \in {secret, secret \cap {"vault"}}
    BY DEF Digit, return
  <2>2. secret' \subseteq Holders
    BY <2>1 DEF IInv, TypeOK
  <2> QED
    BY <2>2, FormHasFingerprint, FactsType
    DEF IInv, TypeOK, Digit, still, environment, control, time, return, facts, undisturbed, Awaits, Results
<1>3. FlowMatchesRecord' /\ SecretIsShortLived'
  <2>1. CASE \E r \in Results : return(r)
    BY <2>1, ReturnStep DEF Digit, still, environment, control, Phases
  <2>2. CASE ~\E r \in Results : return(r)
    <3>1. /\ pc = "digits" /\ pc' = "digits"
          /\ UNCHANGED <<lr, call, seen, secret, reply, submitted, result>>
      BY <2>2 DEF Digit, still, environment, control, Results
    <3>2. FlowMatchesRecord'
      BY <1>1, <3>1, PermittedPhases DEF IInv, FlowMatchesRecord, Phases
    <3>3. SecretIsShortLived'
      BY <3>1 DEF IInv, SecretIsShortLived
    <3> QED
      BY <3>2, <3>3
  <2> QED
    BY <2>1, <2>2
<1>4. CurrentAttempt'
  BY DEF IInv, CurrentAttempt, Digit, still, environment, control
<1> QED
  BY <1>2, <1>3, <1>4 DEF IInv

\* PinClaim asks for the second permission and drops the copies of the PIN typed from.
LEMMA PinClaimStep == IInv /\ PinClaim => IInv'
PROOF
<1> SUFFICES ASSUME IInv, PinClaim PROVE IInv'
  OBVIOUS
<1>1. permitted' = permitted
  BY PermittedStays DEF PinClaim, environment, control
<1>2. TypeOK'
  BY FormHasFingerprint, FactsType
  DEF IInv, TypeOK, PinClaim, environment, control, time, return, facts, Awaits, Results, Phases
<1>3. FlowMatchesRecord' /\ SecretIsShortLived'
  <2>1. CASE \E r \in Results : return(r)
    BY <2>1, ReturnStep DEF PinClaim, return, environment, control, Phases
  <2>2. CASE ~\E r \in Results : return(r)
    <3>1. /\ pc = "digits" /\ pc' = "pin" /\ digits = PinLength
          /\ call' = "pin" /\ secret' = secret \ {"typing"}
          /\ UNCHANGED <<lr, seen, digits, reply, submitted, result>>
      BY <2>2 DEF PinClaim, environment, control, Results
    <3>2. FlowMatchesRecord'
      BY <1>1, <3>1, PermittedPhases DEF IInv, FlowMatchesRecord, Phases
    <3>3. SecretIsShortLived'
      BY <3>1 DEF IInv, FlowMatchesRecord, SecretIsShortLived
    <3> QED
      BY <3>2, <3>3
  <2> QED
    BY <2>1, <2>2
<1>4. CurrentAttempt'
  BY DEF IInv, CurrentAttempt, PinClaim, environment, control
<1> QED
  BY <1>2, <1>3, <1>4 DEF IInv

\* OuterClaimed presses only with a permission the record holds.
LEMMA OuterClaimedStep == IInv /\ OuterClaimed => IInv'
PROOF
<1> SUFFICES ASSUME IInv, OuterClaimed PROVE IInv'
  OBVIOUS
<1>1. permitted' = permitted
  BY PermittedStays DEF OuterClaimed, environment, control
<1>2. TypeOK'
  <2>1. secret' \in {secret, secret \cap {"vault"}, secret \cup {"typing"}}
    BY DEF OuterClaimed, return
  <2>2. secret' \subseteq Holders
    BY <2>1 DEF IInv, TypeOK, Holders
  <2> QED
    BY <2>2, FormHasFingerprint, FactsType
    DEF IInv, TypeOK, OuterClaimed, environment, control, time, return, facts, Awaits, Results, Phases
<1>3. FlowMatchesRecord' /\ SecretIsShortLived'
  <2>1. CASE \E r \in Results : return(r)
    BY <2>1, ReturnStep DEF OuterClaimed, environment, control, Phases
  <2>2. CASE ~\E r \in Results : return(r)
    <3>1. /\ pc = "outer" /\ reply = "granted" /\ submitted' = submitted \cup {"outer"}
          /\ reply' = "none"
          /\ \/ pc' = "observe" /\ Facts[seen].amount = 0 /\ secret' = secret
             \/ pc' = "watch" /\ Facts[seen].amount > 0 /\ secret' = secret \cup {"typing"}
          /\ UNCHANGED <<lr, call, seen, digits, result>>
      BY <2>2, FactsType DEF IInv, FlowMatchesRecord, OuterClaimed, environment, control, Results
    <3>2. FlowMatchesRecord'
      BY <1>1, <3>1, PermittedPhases DEF IInv, FlowMatchesRecord, Phases
    <3>3. SecretIsShortLived'
      BY <3>1 DEF IInv, SecretIsShortLived
    <3> QED
      BY <3>2, <3>3
  <2> QED
    BY <2>1, <2>2
<1>4. CurrentAttempt'
  BY DEF IInv, CurrentAttempt, OuterClaimed, environment, control
<1> QED
  BY <1>2, <1>3, <1>4 DEF IInv

\* PinClaimed presses only with a permission the record holds.
LEMMA PinClaimedStep == IInv /\ PinClaimed => IInv'
PROOF
<1> SUFFICES ASSUME IInv, PinClaimed PROVE IInv'
  OBVIOUS
<1>1. permitted' = permitted
  BY PermittedStays DEF PinClaimed, environment, control
<1>2. TypeOK'
  BY FormHasFingerprint, FactsType
  DEF IInv, TypeOK, PinClaimed, environment, control, time, return, facts, Awaits, Results, Phases
<1>3. FlowMatchesRecord' /\ SecretIsShortLived'
  <2>1. CASE \E r \in Results : return(r)
    BY <2>1, ReturnStep DEF PinClaimed, environment, control, Phases
  <2>2. CASE ~\E r \in Results : return(r)
    <3>1. /\ pc = "pin" /\ reply = "granted" /\ submitted' = submitted \cup {"pin"}
          /\ pc' = "observe" /\ reply' = "none"
          /\ UNCHANGED <<lr, call, seen, digits, secret, result>>
      BY <2>2 DEF PinClaimed, environment, control, Results
    <3>2. FlowMatchesRecord'
      BY <1>1, <3>1, PermittedPhases DEF IInv, FlowMatchesRecord, Phases
    <3>3. SecretIsShortLived'
      BY <3>1 DEF IInv, SecretIsShortLived
    <3> QED
      BY <3>2, <3>3
  <2> QED
    BY <2>1, <2>2
<1>4. CurrentAttempt'
  BY DEF IInv, CurrentAttempt, PinClaimed, environment, control
<1> QED
  BY <1>2, <1>3, <1>4 DEF IInv

\* A change of the record that leaves the dispatch record and the flow alone keeps the
\* invariant; so do the site, the clock and the delivery of a stop.
LEMMA FrameStep ==
  ASSUME IInv, TypeOK', lr'.dispatch = lr.dispatch, lr'.cur = lr.cur, UNCHANGED <<call, flow>>
  PROVE  IInv'
PROOF
<1>1. permitted' = permitted
  BY PermittedStays
<1>2. FlowMatchesRecord'
  BY <1>1 DEF IInv, FlowMatchesRecord, flow
<1>3. SecretIsShortLived' /\ CurrentAttempt'
  BY DEF IInv, SecretIsShortLived, CurrentAttempt, flow
<1> QED
  BY <1>2, <1>3 DEF IInv

\* HandleClaim: only an acknowledged claim is granted, and it is recorded first.
LEMMA HandleClaimStep == IInv /\ HandleClaim => IInv'
PROOF
<1> SUFFICES ASSUME IInv, HandleClaim PROVE IInv'
  OBVIOUS
<1>1. /\ lr \in LogicalRuns /\ call \in Phases /\ pc = call /\ reply = "none"
      /\ seen \in Fingerprints
  BY DEF IInv, TypeOK, FlowMatchesRecord, HandleClaim, Phases
<1>2. UNCHANGED <<form, control, time, pc, rounds, seen, optional, digits, secret,
                  submitted, result>> /\ call' = "none"
  BY DEF HandleClaim
<1>3. CASE claimKind(lr, Attempt, call, seen) = "ack"
  <2>1. lr' = applyCompletionDispatchClaim(lr, call, seen) /\ reply' = "granted"
    BY <1>3 DEF HandleClaim
  <2>2. /\ lr' \in LogicalRuns /\ lr'.cur = lr.cur
        /\ call = "outer" => lr'.dispatch.fp = seen /\ lr'.dispatch.pin = lr.dispatch.pin
        /\ call = "pin" => lr'.dispatch.fp = lr.dispatch.fp /\ lr'.dispatch.pin
    BY <1>1, <2>1, ClaimedRun
  <2>3. permitted' = permitted \cup {call}
    <3>1. CASE call = "outer"
      BY <1>1, <2>2, <3>1 DEF permitted, Phases, isAcknowledgedCompletionClaim
    <3>2. CASE call = "pin"
      BY <1>1, <2>2, <3>2 DEF permitted, Phases, isAcknowledgedCompletionClaim
    <3> QED
      BY <1>1, <3>1, <3>2 DEF Phases
  <2>4. TypeOK'
    BY <1>2, <2>1, <2>2 DEF IInv, TypeOK, control, time
  <2>5. FlowMatchesRecord'
    BY <1>1, <1>2, <2>1, <2>2, <2>3, PermittedPhases DEF IInv, FlowMatchesRecord, Phases
  <2>6. SecretIsShortLived' /\ CurrentAttempt'
    BY <1>2, <2>2 DEF IInv, SecretIsShortLived, CurrentAttempt
  <2> QED
    BY <2>4, <2>5, <2>6 DEF IInv
<1>4. CASE claimKind(lr, Attempt, call, seen) # "ack"
  <2>1. lr' = lr /\ reply' = "refused"
    BY <1>4 DEF HandleClaim
  <2>2. permitted' = permitted
    BY <2>1, PermittedStays
  <2>3. TypeOK'
    BY <1>2, <2>1 DEF IInv, TypeOK, control, time
  <2>4. FlowMatchesRecord'
    BY <1>1, <1>2, <2>1, <2>2 DEF IInv, FlowMatchesRecord
  <2>5. SecretIsShortLived' /\ CurrentAttempt'
    BY <1>2, <2>1 DEF IInv, SecretIsShortLived, CurrentAttempt
  <2> QED
    BY <2>3, <2>4, <2>5 DEF IInv
<1> QED
  BY <1>3, <1>4

\* A lost request and a lost answer are refusals to the flow.
LEMMA LossStep == IInv /\ (LoseCall \/ LoseReply) => IInv'
PROOF
<1> SUFFICES ASSUME IInv, LoseCall \/ LoseReply PROVE IInv'
  OBVIOUS
<1>1. /\ call # "none" \/ reply # "none"
      /\ call' = "none" /\ reply' = "refused"
      /\ UNCHANGED <<lr, form, control, time, pc, rounds, seen, optional, digits, secret,
                     submitted, result>>
  BY DEF LoseCall, LoseReply, environment, IInv, FlowMatchesRecord
<1>2. permitted' = permitted
  BY <1>1, PermittedStays
<1>3. TypeOK'
  BY <1>1 DEF IInv, TypeOK, control, time
<1>4. FlowMatchesRecord'
  BY <1>1, <1>2 DEF IInv, FlowMatchesRecord
<1>5. SecretIsShortLived' /\ CurrentAttempt'
  BY <1>1 DEF IInv, SecretIsShortLived, CurrentAttempt
<1> QED
  BY <1>3, <1>4, <1>5 DEF IInv

\* A phase message leaves the permissions alone.
LEMMA PhaseArrivesStep == IInv /\ PhaseArrives => IInv'
PROOF
<1> SUFFICES ASSUME IInv, PhaseArrives PROVE IInv'
  OBVIOUS
<1>1. lr \in LogicalRuns
  BY DEF IInv, TypeOK
<1>2. lr' \in LogicalRuns /\ lr'.dispatch = lr.dispatch /\ lr'.cur = lr.cur
  BY <1>1, PhasedRun DEF PhaseArrives
<1>3. TypeOK'
  BY <1>2 DEF IInv, TypeOK, PhaseArrives, control, time, flow
<1> QED
  BY <1>2, <1>3, FrameStep DEF PhaseArrives

\* The end of the run leaves the permissions alone.
LEMMA BackgroundEndsStep == IInv /\ BackgroundEnds => IInv'
PROOF
<1> SUFFICES ASSUME IInv, BackgroundEnds PROVE IInv'
  OBVIOUS
<1>1. lr \in LogicalRuns /\ lr.cur \in AttemptIds
  BY DEF IInv, TypeOK, CurrentAttempt
<1>2. PICK state \in TerminalStates : lr' = applyBackgroundTerminal(lr, state)
  BY DEF BackgroundEnds, TerminalStates
<1>3. lr' \in LogicalRuns /\ lr'.dispatch = lr.dispatch /\ lr'.cur = lr.cur
  BY <1>1, <1>2, TerminatedRun
<1>4. TypeOK'
  BY <1>3 DEF IInv, TypeOK, BackgroundEnds, control, time, flow
<1> QED
  BY <1>3, <1>4, FrameStep DEF BackgroundEnds

\* Stop leaves the permissions alone.
LEMMA StopStep == IInv /\ Stop => IInv'
PROOF
<1> SUFFICES ASSUME IInv, Stop PROVE IInv'
  OBVIOUS
<1>1. lr \in LogicalRuns
  BY DEF IInv, TypeOK
<1>2. /\ lr' \in LogicalRuns /\ lr'.cur = lr.cur
      /\ lr'.dispatch.fp = lr.dispatch.fp /\ lr'.dispatch.pin = lr.dispatch.pin
  BY <1>1, StoppedRun DEF Stop
<1>3. permitted' = permitted
  BY <1>2 DEF permitted, Phases, isAcknowledgedCompletionClaim
<1>4. UNCHANGED <<form, call, abort, time, flow>> /\ stopping' \in BOOLEAN
  BY DEF Stop, IInv, TypeOK
<1>5. TypeOK'
  BY <1>2, <1>4 DEF IInv, TypeOK, time, flow
<1>6. FlowMatchesRecord'
  BY <1>2, <1>3, <1>4 DEF IInv, FlowMatchesRecord, flow
<1>7. SecretIsShortLived' /\ CurrentAttempt'
  BY <1>2, <1>4 DEF IInv, SecretIsShortLived, CurrentAttempt, flow
<1> QED
  BY <1>5, <1>6, <1>7 DEF IInv

\* The rest does not touch the record.
LEMMA OutsideStep ==
  IInv /\ (DeliverStop \/ SiteRenders \/ Expire \/ StageTimeout \/ UNCHANGED vars) => IInv'
PROOF
<1> SUFFICES ASSUME IInv,
                    DeliverStop \/ SiteRenders \/ Expire \/ StageTimeout \/ UNCHANGED vars
             PROVE  IInv'
  OBVIOUS
<1>1. UNCHANGED <<lr, call, flow>>
  BY DEF DeliverStop, SiteRenders, Expire, StageTimeout, vars, background
<1>2. /\ form' \in Forms /\ stopping' \in BOOLEAN /\ abort' \in BOOLEAN
      /\ expired' \in BOOLEAN /\ late' \in BOOLEAN
  BY DEF IInv, TypeOK, DeliverStop, SiteRenders, Expire, StageTimeout, vars, control, time
<1>3. TypeOK'
  BY <1>1, <1>2 DEF IInv, TypeOK, flow
<1> QED
  BY <1>1, <1>3, FrameStep

\* Every step keeps the invariant.
LEMMA NextInvariant == IInv /\ [Next]_vars => IInv'
BY BeginStep, LoopInterruptedStep, LoopFillStep, LoopAgreeStep, LoopSettledStep, LoopClaimStep,
   OuterClaimedStep, WatchStep, DigitStep, PinClaimStep, PinClaimedStep, ObserveStep,
   GiveUpStep,   HandleClaimStep, LossStep, PhaseArrivesStep, StopStep, BackgroundEndsStep, OutsideStep
DEF Next, Coordinator, Background

\* The invariant holds in every reachable state.
LEMMA Invariant == Spec => []IInv
BY InitInvariant, NextInvariant, PTL DEF Spec

-----------------------------------------------------------------------------
(* What follows from the invariant *)

\* Every variable has its type, whatever the site, the user and the worker do.
THEOREM TypeCorrect == Spec => []TypeOK
<1>1. IInv => TypeOK
  BY DEF IInv
<1> QED
  BY <1>1, Invariant, PTL

\* The permissions in storage and the position of the flow never disagree
\* (onCompletionDispatchClaim, CompletionCoordinator.run).
THEOREM RecordAgrees == Spec => []FlowMatchesRecord
<1>1. IInv => FlowMatchesRecord
  BY DEF IInv
<1> QED
  BY <1>1, Invariant, PTL

\* Nobody holds the PIN longer than its use: it leaves the vault only for the submission
\* of a paid form, completePin's copies are gone when its press is claimed and that of
\* run() when the flow returns (takePin, completePin, the finally block of run()).
THEOREM SecretForgotten == Spec => []SecretIsShortLived
<1>1. IInv => SecretIsShortLived
  BY DEF IInv
<1> QED
  BY <1>1, Invariant, PTL

\* Only the two claimed awaits press anything.
LEMMA PressingSteps ==
  ASSUME [Next]_vars, submitted' # submitted
  PROVE  OuterClaimed \/ PinClaimed
BY DEF Next, Coordinator, Background, Begin, LoopInterrupted, LoopFill, LoopAgree, LoopSettled,
       LoopClaim, Watch, Digit, PinClaim, Observe, GiveUp, return, still, HandleClaim, LoseCall,
       LoseReply, PhaseArrives, Stop, DeliverStop, BackgroundEnds, SiteRenders, Expire,
       StageTimeout, flow, vars

\* What is pressed is what was claimed, for every amount and every PIN (submitOuter,
\* paymentContextMatchesBelowPin).
THEOREM PressedAsClaimed == Spec => PressMatchesClaim
<1> DEFINE Matches ==
      /\ "outer" \in submitted' \ submitted => form.fp = lr.dispatch.fp
      /\ "pin" \in submitted' \ submitted =>
           /\ facts.amount = Facts[lr.dispatch.fp].amount
           /\ facts.amount > 0 /\ digits = PinLength
<1>1. ASSUME IInv, [Next]_vars PROVE Matches
  <2>1. CASE submitted' = submitted
    BY <2>1
  <2>2. CASE OuterClaimed
    <3>1. "pin" \notin submitted' \ submitted
      BY <2>2 DEF OuterClaimed, return
    <3>2. "outer" \in submitted' \ submitted => reply = "granted" /\ submittable /\ pc = "outer"
      BY <2>2 DEF OuterClaimed, return
    <3>3. reply = "granted" /\ pc = "outer" => lr.dispatch.fp = seen
      BY <1>1, PermittedPhases DEF IInv, FlowMatchesRecord
    <3> QED
      BY <3>1, <3>2, <3>3 DEF submittable
  <2>3. CASE PinClaimed
    <3>1. "outer" \notin submitted' \ submitted
      BY <2>3 DEF PinClaimed, return
    <3>2. "pin" \in submitted' \ submitted => contextMatches /\ pc = "pin"
      BY <2>3 DEF PinClaimed, return
    <3>3. pc = "pin" => /\ lr.dispatch.fp = seen /\ Facts[seen].amount > 0
                        /\ digits = PinLength
      BY <1>1, PermittedPhases DEF IInv, FlowMatchesRecord
    <3> QED
      BY <3>1, <3>2, <3>3 DEF contextMatches
  <2> QED
    BY <1>1, <2>1, <2>2, <2>3, PressingSteps
<1>2. IInv /\ [Next]_vars => [Matches]_vars
  BY <1>1
<1> QED
  BY <1>2, Invariant, PTL DEF Spec, PressMatchesClaim

-----------------------------------------------------------------------------
(* Refinement of DispatchAuthority *)

\* The initial states are initial states of DispatchAuthority.
LEMMA InitRefines == Init => Authority!Init
PROOF
<1> SUFFICES ASSUME Init PROVE Authority!Init
  OBVIOUS
<1>1. PICK t \in Tabs, status \in {"PREPARING", "EXECUTING"} :
        lr = [createLogicalRun(Attempt, t) EXCEPT !.status = status]
  BY DEF Init
<1>2. lr.dispatch = NoDispatch /\ lr.status = status
  BY <1>1, CreatedRun DEF LogicalRuns
<1>3. permitted = {}
  BY <1>2, PermittedPhases DEF NoDispatch, Phases
<1> QED
  BY <1>2, <1>3 DEF Init, Authority!Init, NoDispatch

\* A return is a conclusion: a stop or a timeout is only told before the first claim,
\* a success only after a press.
LEMMA ReturnRefines ==
  ASSUME IInv, NEW r \in Results, return(r), lr' = lr, pc # "done",
         r \in {"stopped", "timed_out"} => pc \in {"begin", "loop", "settle"},
         r = "completed" => pc \in {"watch", "observe"}
  PROVE  Authority!Next
PROOF
<1>1. permitted' = permitted
  BY PermittedStays
<1>2. result = "none" /\ result' = r /\ submitted' = submitted
  BY DEF IInv, FlowMatchesRecord, return
<1>3. r \in {"stopped", "timed_out"} => permitted = {}
  BY DEF IInv, FlowMatchesRecord
<1>4. r = "completed" => "outer" \in submitted
  BY DEF IInv, FlowMatchesRecord
<1>5. Authority!Conclude(r)
  BY <1>1, <1>2, <1>3, <1>4 DEF Authority!Conclude
<1> QED
  BY <1>5 DEF Authority!Next, Authority!Results, Results

\* Steps that neither return nor press nor touch the record are invisible.
LEMMA InvisibleStep ==
  ASSUME UNCHANGED <<lr, submitted, result>>
  PROVE  UNCHANGED Authority!vars
BY PermittedStays DEF Authority!vars

\* Every step of the coordinator is a dispatch, a conclusion or invisible.
LEMMA CoordinatorRefines ==
  ASSUME IInv, Coordinator
  PROVE  Authority!Next \/ UNCHANGED Authority!vars
PROOF
<1>1. lr' = lr
  BY DEF Coordinator, Begin, LoopInterrupted, LoopFill, LoopAgree, LoopSettled, LoopClaim,
         OuterClaimed, Watch, Digit, PinClaim, PinClaimed, Observe, still, environment
<1>2. CASE \E r \in Results : return(r)
  <2>1. PICK r \in Results : return(r)
    BY <1>2
  <2>2. pc # "done"
    BY DEF Coordinator, Begin, LoopInterrupted, LoopFill, LoopAgree, LoopSettled, LoopClaim,
           OuterClaimed, Watch, Digit, PinClaim, PinClaimed, Observe
  <2>3. /\ r \in {"stopped", "timed_out"} => pc \in {"begin", "loop", "settle"}
        /\ r = "completed" => pc \in {"watch", "observe"}
    BY <2>1 DEF Coordinator, Begin, LoopInterrupted, LoopFill, LoopAgree, LoopSettled,
                LoopClaim, OuterClaimed, Watch, Digit, PinClaim, PinClaimed, Observe, return
  <2> QED
    BY <1>1, <2>1, <2>2, <2>3, ReturnRefines
<1>3. CASE ~\E r \in Results : return(r)
  <2>1. CASE OuterClaimed \/ PinClaimed
    <3>1. /\ pc \in Phases /\ reply = "granted"
          /\ submitted' = submitted \cup {pc} /\ result' = result
      BY <1>3, <2>1 DEF OuterClaimed, PinClaimed, Results, Phases
    <3>2. pc \in permitted /\ pc \notin submitted /\ result = "none"
      BY <3>1 DEF IInv, FlowMatchesRecord, Phases
    <3>3. permitted' = permitted
      BY <1>1, PermittedStays
    <3>4. Authority!Dispatch(pc)
      BY <1>1, <3>1, <3>2, <3>3 DEF Authority!Dispatch
    <3> QED
      BY <3>1, <3>4 DEF Authority!Next
  <2>2. CASE ~(OuterClaimed \/ PinClaimed)
    <3>1. UNCHANGED <<submitted, result>>
      BY <1>3, <2>2 DEF Coordinator, Begin, LoopInterrupted, LoopFill, LoopAgree, LoopSettled,
                        LoopClaim, Watch, Digit, PinClaim, Observe, Results
    <3> QED
      BY <1>1, <3>1, InvisibleStep
  <2> QED
    BY <2>1, <2>2
<1> QED
  BY <1>2, <1>3

\* A granted claim is a new permission: the run executes, nobody stopped it, and the
\* PIN is permitted only after the form was submitted.
LEMMA ClaimRefines ==
  ASSUME IInv, HandleClaim
  PROVE  Authority!Next \/ UNCHANGED Authority!vars
PROOF
<1>1. /\ lr \in LogicalRuns /\ call \in Phases /\ call = pc /\ result = "none"
      /\ call \notin permitted /\ seen \in Fingerprints
      /\ UNCHANGED <<submitted, result>>
  BY DEF IInv, TypeOK, FlowMatchesRecord, HandleClaim, Phases
<1>2. CASE claimKind(lr, Attempt, call, seen) = "ack"
  <2>1. lr.status = "EXECUTING" /\ ~lr.dispatch.stop
    BY <1>2 DEF claimKind
  <2>2. /\ lr'.status = lr.status /\ lr'.dispatch.stop = lr.dispatch.stop
        /\ call = "outer" => lr'.dispatch.fp = seen /\ lr'.dispatch.pin = lr.dispatch.pin
        /\ call = "pin" => lr'.dispatch.fp = lr.dispatch.fp /\ lr'.dispatch.pin
    BY <1>1, <1>2, ClaimedRun DEF HandleClaim
  <2>3. permitted' = permitted \cup {call}
    <3>1. CASE call = "outer"
      BY <1>1, <2>2, <3>1 DEF permitted, Phases, isAcknowledgedCompletionClaim
    <3>2. CASE call = "pin"
      BY <1>1, <2>2, <3>2 DEF permitted, Phases, isAcknowledgedCompletionClaim
    <3> QED
      BY <1>1, <3>1, <3>2 DEF Phases
  <2>4. call # "outer" => "outer" \in submitted
    BY <1>1 DEF IInv, FlowMatchesRecord, Phases
  <2>5. Authority!Permit(call)
    BY <1>1, <2>1, <2>2, <2>3, <2>4 DEF Authority!Permit
  <2> QED
    BY <1>1, <2>5 DEF Authority!Next
<1>3. CASE claimKind(lr, Attempt, call, seen) # "ack"
  BY <1>1, <1>3, InvisibleStep DEF HandleClaim
<1> QED
  BY <1>2, <1>3

\* Stop and the end of the run revoke, everything else of the background is invisible.
LEMMA BackgroundRefines ==
  ASSUME IInv, Background
  PROVE  Authority!Next \/ UNCHANGED Authority!vars
PROOF
<1>1. lr \in LogicalRuns /\ lr.cur \in AttemptIds
  BY DEF IInv, TypeOK, CurrentAttempt
<1>2. CASE HandleClaim
  BY <1>2, ClaimRefines
<1>3. CASE LoseCall \/ LoseReply \/ DeliverStop
  BY <1>3, InvisibleStep
  DEF LoseCall, LoseReply, DeliverStop, environment, background, flow
<1>4. CASE PhaseArrives
  <2>1. lr'.dispatch = lr.dispatch /\ (lr'.status = "TERMINAL" <=> lr.status = "TERMINAL")
    BY <1>1, <1>4, PhasedRun DEF PhaseArrives
  <2>2. permitted' = permitted /\ UNCHANGED <<submitted, result>>
    BY <1>4, <2>1, PermittedStays DEF PhaseArrives, flow
  <2> QED
    BY <2>1, <2>2 DEF Authority!vars
<1>5. CASE BackgroundEnds
  <2>1. lr'.dispatch = lr.dispatch /\ lr'.status = "TERMINAL"
    <3>1. PICK state \in TerminalStates : lr' = applyBackgroundTerminal(lr, state)
      BY <1>5 DEF BackgroundEnds, TerminalStates
    <3> QED
      BY <1>1, <3>1, TerminatedRun
  <2>2. permitted' = permitted /\ UNCHANGED <<submitted, result>>
    BY <1>5, <2>1, PermittedStays DEF BackgroundEnds, flow
  <2>3. Authority!Revoke
    BY <2>1, <2>2 DEF Authority!Revoke
  <2> QED
    BY <2>3 DEF Authority!Next
<1>6. CASE Stop
  <2>1. UNCHANGED <<submitted, result>>
    BY <1>6 DEF Stop, flow
  <2>2. CASE lr' = lr
    BY <2>1, <2>2, InvisibleStep
  <2>3. CASE lr' = requestCompletionStop(lr)
    <3>1. /\ lr'.dispatch.stop
          /\ lr'.dispatch.fp = lr.dispatch.fp /\ lr'.dispatch.pin = lr.dispatch.pin
      BY <1>1, <2>3, StoppedRun
    <3>2. permitted' = permitted
      BY <3>1 DEF permitted, Phases, isAcknowledgedCompletionClaim
    <3>3. Authority!Revoke
      BY <2>1, <3>1, <3>2 DEF Authority!Revoke
    <3> QED
      BY <3>3 DEF Authority!Next
  <2> QED
    BY <1>6, <2>2, <2>3 DEF Stop
<1> QED
  BY <1>2, <1>3, <1>4, <1>5, <1>6 DEF Background

\* The completion flow implements DispatchAuthority: every press has its permission,
\* stored before it, and none is stored once the stop marker is in storage or the run has
\* ended; the outcome never denies a press (CompletionCoordinator.run against
\* onCompletionDispatchClaim and stop).  A stop that stores no marker revokes nothing.
THEOREM KeepsAuthority == Spec => RefinesAuthority
<1>1. IInv /\ [Next]_vars => [Authority!Next]_(Authority!vars)
  <2> SUFFICES ASSUME IInv, [Next]_vars
               PROVE  Authority!Next \/ UNCHANGED Authority!vars
    OBVIOUS
  <2>1. CASE Coordinator
    BY <2>1, CoordinatorRefines
  <2>2. CASE Background
    BY <2>2, BackgroundRefines
  <2>3. CASE GiveUp
    <3>1. "handed_off" \in Results /\ return("handed_off") /\ lr' = lr /\ pc # "done"
      BY <2>3 DEF GiveUp, Results, still, environment
    <3> QED
      BY <3>1, ReturnRefines
  <2>4. CASE SiteRenders \/ Expire \/ StageTimeout \/ UNCHANGED vars
    BY <2>4, InvisibleStep DEF SiteRenders, Expire, StageTimeout, background, flow, vars
  <2> QED
    BY <2>1, <2>2, <2>3, <2>4 DEF Next
<1> QED
  BY <1>1, InitRefines, Invariant, PTL DEF Spec, RefinesAuthority, Authority!Spec
=============================================================================
