------------------------ MODULE JobScheduler_proofs ------------------------
(***************************************************************************)
(* Scheduled jobs, for any number of jobs and any windows: the type, the   *)
(* size and the windows of the stored list, and, in the second half, the   *)
(* story of a job: when it is launched, told missed and marked as ended.   *)
(***************************************************************************)
EXTENDS JobScheduler, FiniteSetTheorems, SequenceTheorems, TLAPS

-----------------------------------------------------------------------------
(* Values and pure functions *)

\* What may be in the list.
Entries == {Absent} \cup StoredJobs

\* A task comes out of the jobs queue as it went in.
LEMMA JobQueueFacts ==
  ASSUME NEW q \in Seq(JobTasks)
  PROVE  /\ q # <<>> => Head(q) \in JobTasks /\ Tail(q) \in Seq(JobTasks)
         /\ \A m \in JobTasks : Append(q, m) \in Seq(JobTasks)
BY HeadTailProperties, AppendProperties

\* A task comes out of the supervisor's queue as it went in.
LEMMA SupQueueFacts ==
  ASSUME NEW q \in Seq(SupTasks)
  PROVE  /\ q # <<>> => Head(q) \in SupTasks /\ Tail(q) \in Seq(SupTasks)
         /\ \A m \in SupTasks : Append(q, m) \in Seq(SupTasks)
BY HeadTailProperties, AppendProperties

\* The messages the code builds are tasks of the queue they are put into.
LEMMA TaskTypes ==
  /\ \A j \in JobIds \cup {NoJob}, c \in Configs : jobTask("save", j, c) \in JobTasks
  /\ \A j \in JobIds, op \in {"delete", "alarm", "finish"} : plainTask(op, j) \in JobTasks
  /\ plainTask("reconcile", NoJob) \in JobTasks
  /\ \A j \in JobIds \cup {NoJob}, n \in 0..MaxRuns,
        op \in {"launch", "finished", "complete", "interrupt", "boot"} :
          supTask(op, j, n) \in SupTasks
BY DEF jobTask, plainTask, supTask, JobTasks, SupTasks, Absent

\* Saves carry a window, the other tasks of the jobs queue but reconcile a job.
LEMMA TaskFields ==
  ASSUME NEW m \in JobTasks
  PROVE  /\ m.job \in JobIds \cup {NoJob}
         /\ m.op = "save" => m.config \in Configs
         /\ m.op \in {"delete", "alarm", "finish"} => m.job \in JobIds
BY DEF JobTasks

\* An entry of the list has the fields of a job, and every window ends.
LEMMA EntryFields ==
  ASSUME NEW e \in Entries
  PROVE  /\ e.rev \in 0..MaxSaves
         /\ e.status \in Statuses \cup {"none"}
         /\ e.config.alarm \in Nat /\ e.config.stop \in Nat
         /\ e.status = "none" => e = Absent
BY JobAssumption DEF Entries, Absent, StoredJobs, Statuses

\* A change of status keeps an entry an entry, its window and its revision.
LEMMA EntryChanged ==
  ASSUME NEW e \in Entries, e.status # "none", NEW s \in Statuses
  PROVE  LET f == [e EXCEPT !.status = s]
         IN f \in Entries /\ f.status = s /\ f.config = e.config /\ f.rev = e.rev
BY DEF Entries, Absent, StoredJobs, Statuses

\* transition touches the status of one job that is there, and nothing else.
LEMMA TransitionFacts ==
  ASSUME NEW list \in [JobIds -> Entries], NEW j \in JobIds, NEW s \in Statuses
  PROVE  /\ transition(list, j, s) \in [JobIds -> Entries]
         /\ \A i \in JobIds :
              LET e == transition(list, j, s)[i]
              IN /\ e.config = list[i].config
                 /\ i # j => e = list[i]
                 /\ i = j => e.status = IF list[i].status = "none" THEN "none" ELSE s
<1>1. CASE list[j].status = "none"
  BY <1>1 DEF transition
<1>2. CASE list[j].status # "none"
  <2> DEFINE f == [list[j] EXCEPT !.status = s]
  <2>1. f \in Entries /\ f.status = s /\ f.config = list[j].config
    BY <1>2, EntryChanged
  <2>2. transition(list, j, s) = [list EXCEPT ![j] = f]
    BY <1>2 DEF transition
  <2> QED
    BY <1>2, <2>1, <2>2
<1> QED
  BY <1>1, <1>2

\* reconciled keeps a list a list; what is not active stays so, windows stay.
LEMMA ReconciledFacts ==
  ASSUME NEW list \in [JobIds -> Entries]
  PROVE  /\ reconciled(list) \in [JobIds -> Entries]
         /\ \A i \in JobIds :
              LET e == reconciled(list)[i]
              IN /\ e.config = list[i].config
                 /\ isActive(e) => isActive(list[i])
                 /\ e.status # "none" => list[i].status # "none"
<1>1. SUFFICES ASSUME NEW i \in JobIds
               PROVE  LET e == reconciled(list)[i]
                      IN /\ e \in Entries /\ e.config = list[i].config
                         /\ isActive(e) => isActive(list[i])
                         /\ e.status # "none" => list[i].status # "none"
  BY DEF reconciled
<1>2. CASE ~isActive(list[i])
  BY <1>2 DEF reconciled
<1>3. CASE isActive(list[i])
  <2>1. list[i] \in Entries /\ list[i].status # "none"
    BY <1>3 DEF isActive
  <2>2. \A s \in Statuses : LET f == [list[i] EXCEPT !.status = s]
                            IN f \in Entries /\ f.config = list[i].config
    BY <2>1, EntryChanged
  <2>3. "missed" \in Statuses /\ "scheduled" \in Statuses
    BY DEF Statuses
  <2> QED
    BY <1>3, <2>1, <2>2, <2>3 DEF reconciled
<1> QED
  BY <1>2, <1>3

\* pruneFinished keeps every active job as it is and only removes jobs that are done.
LEMMA PrunedShape ==
  ASSUME NEW list, NEW pruned \in pruneFinished(list)
  PROVE  /\ \A i \in JobIds : pruned[i] = list[i] \/ (~isActive(list[i]) /\ pruned[i] = Absent)
         /\ activeJobs(pruned) = activeJobs(list)
         /\ Cardinality(present(pruned) \ activeJobs(pruned)) <= Keep
<1> DEFINE done == present(list) \ activeJobs(list)
<1>1. ~isActive(Absent) /\ Absent.status = "none"
  BY DEF isActive, Absent
<1>2. CASE Cardinality(done) <= Keep
  <2>1. pruned = list
    BY <1>2 DEF pruneFinished
  <2> QED
    BY <1>2, <2>1
<1>3. CASE ~(Cardinality(done) <= Keep)
  <2>1. PICK kept \in SUBSET done :
          /\ Cardinality(kept) = Keep
          /\ pruned = [j \in JobIds |-> IF j \in done \ kept THEN Absent ELSE list[j]]
    BY <1>3 DEF pruneFinished
  <2>2. \A i \in done : ~isActive(list[i])
    BY DEF activeJobs, present
  <2>3. activeJobs(pruned) = activeJobs(list)
    BY <1>1, <2>1, <2>2 DEF activeJobs
  <2>4. present(pruned) \ activeJobs(pruned) = kept
    BY <1>1, <2>1, <2>3 DEF present
  <2> QED
    BY <1>1, <2>1, <2>2, <2>3, <2>4, JobAssumption
<1> QED
  BY <1>2, <1>3

\* And the pruned list is a list.
LEMMA PrunedFacts ==
  ASSUME NEW list \in [JobIds -> Entries], NEW pruned \in pruneFinished(list)
  PROVE  pruned \in [JobIds -> Entries]
<1>1. Absent \in Entries
  BY DEF Entries
<1>2. pruned = list \/ \E gone : pruned = [j \in JobIds |-> IF j \in gone THEN Absent ELSE list[j]]
  BY DEF pruneFinished
<1> QED
  BY <1>1, <1>2

-----------------------------------------------------------------------------
(* Types *)

\* A start that was let in has room for one more run (bound of the model).
Capacity == st.pc = "starting" => run.n < MaxRuns

TypeInv == TypeOK /\ Capacity

\* The facts about the queues in a state of the right type.
LEMMA HeadsAndTails ==
  ASSUME TypeOK
  PROVE  /\ jq # <<>> => Head(jq) \in JobTasks /\ Tail(jq) \in Seq(JobTasks)
         /\ sq # <<>> => Head(sq) \in SupTasks /\ Tail(sq) \in Seq(SupTasks)
         /\ \A m \in JobTasks : Append(jq, m) \in Seq(JobTasks)
         /\ \A m \in SupTasks : Append(sq, m) \in Seq(SupTasks)
         /\ sq # <<>> => \A m \in SupTasks : Append(Tail(sq), m) \in Seq(SupTasks)
BY JobQueueFacts, SupQueueFacts DEF TypeOK, QueuesOK

\* A task names a job and a run.
LEMMA SupTaskFields ==
  ASSUME NEW m \in SupTasks
  PROVE  m.job \in JobIds \cup {NoJob} /\ m.n \in 0..MaxRuns
BY DEF SupTasks

\* Where a task of the jobs queue can be.
LEMMA JobPositionFacts ==
  /\ jobIdle \in JobPositions
  /\ \A j \in JobIds \cup {NoJob}, p \in {"arm", "disarm", "launching", "rearm"} :
       /\ [jobIdle EXCEPT !.pc = p] \in JobPositions
       /\ [jobIdle EXCEPT !.pc = p, !.job = j] \in JobPositions
  /\ \A t \in JobPositions, r \in {"ok", "busy", "failed"} :
       [t EXCEPT !.reply = r] \in JobPositions
BY DEF jobIdle, JobPositions

\* Where a task of the supervisor's queue can be.
LEMMA SupPositionFacts ==
  /\ supIdle \in SupPositions /\ supIdle.pc = "idle"
  /\ \A p \in {"effects", "waiting", "mark"} :
       LET t == [supIdle EXCEPT !.pc = p] IN t \in SupPositions /\ t.pc = p
  /\ \A t \in SupPositions, p \in {"effects", "waiting", "mark"} :
       LET u == [t EXCEPT !.pc = p] IN u \in SupPositions /\ u.pc = p
<1>1. supIdle \in SupPositions /\ supIdle.pc = "idle"
  BY JobAssumption DEF supIdle, SupPositions
<1>2. \A t \in SupPositions, p \in {"effects", "waiting", "mark"} :
       LET u == [t EXCEPT !.pc = p] IN u \in SupPositions /\ u.pc = p
  BY DEF SupPositions
<1> QED
  BY <1>1, <1>2

\* No run is a run, too.
LEMMA NoRunType == NoRun \in StoredRuns
<1>1. 0 \in 0..MaxRuns /\ 0 \in 0..MaxSaves
  BY JobAssumption
<1> QED
  BY <1>1 DEF StoredRuns, NoRun

\* What becomes of the stored run.
LEMMA RunFacts ==
  ASSUME NEW r \in StoredRuns
  PROVE  /\ r.n \in 0..MaxRuns /\ r.job \in JobIds \cup {NoJob}
         /\ [NoRun EXCEPT !.n = r.n] \in StoredRuns
         /\ LET t == [r EXCEPT !.status = "terminal"] IN t \in StoredRuns /\ t.n = r.n
         /\ LET t == [r EXCEPT !.done = TRUE] IN t \in StoredRuns /\ t.n = r.n
<1>1. r.n \in 0..MaxRuns /\ r.job \in JobIds \cup {NoJob}
  BY DEF StoredRuns
<1>2. [NoRun EXCEPT !.n = r.n] \in StoredRuns
  BY <1>1, NoRunType DEF StoredRuns
<1>3. LET t == [r EXCEPT !.status = "terminal"] IN t \in StoredRuns /\ t.n = r.n
  BY DEF StoredRuns
<1>4. LET t == [r EXCEPT !.done = TRUE] IN t \in StoredRuns /\ t.n = r.n
  BY DEF StoredRuns
<1> QED
  BY <1>1, <1>2, <1>3, <1>4

\* What becomes of the attempt in its tab.
LEMMA PageFacts ==
  /\ NoPage \in Pages
  /\ \A p \in Pages : /\ p.n \in 0..MaxRuns
                     /\ [p EXCEPT !.stage = "finishing"] \in Pages
                     /\ [p EXCEPT !.stage = "reported"] \in Pages
BY JobAssumption DEF Pages, NoPage

\* An answer to onAlarm changes nothing but its reply.
LEMMA AnswerType ==
  ASSUME QueuesOK, NEW j, NEW r \in {"ok", "busy", "failed"}, answerLaunch(j, r)
  PROVE  jt' \in JobPositions
BY JobPositionFacts DEF QueuesOK, answerLaunch

\* The alarm of a saved job is a time.
LEMMA ArmTypes == TypeInv /\ Arm => TypeInv'
<1> SUFFICES ASSUME TypeInv, Arm PROVE TypeInv'
  OBVIOUS
<1>1. jt.job \in JobIds => alarmAt(jobs[jt.job].config) \in Nat
  BY EntryFields, JobAssumption DEF TypeInv, TypeOK, StorageOK, CountersOK, Entries, alarmAt
<1>2. alarms' \in [JobIds -> Nat]
  BY <1>1 DEF Arm, TypeInv, TypeOK, StorageOK
<1> QED
  BY <1>2, JobPositionFacts
  DEF Arm, TypeInv, TypeOK, StorageOK, QueuesOK, RunsOK, CountersOK, Capacity,
      TakeJob, JobAt, jobDone, supSide, bounds, history

\* A cleared alarm is due after the end of time.
LEMMA DisarmTypes == TypeInv /\ Disarm => TypeInv'
<1> SUFFICES ASSUME TypeInv, Disarm PROVE TypeInv'
  OBVIOUS
<1>1. Off \in Nat
  BY JobAssumption DEF Off
<1>2. alarms' \in [JobIds -> Nat]
  BY <1>1 DEF Disarm, TypeInv, TypeOK, StorageOK
<1> QED
  BY <1>2, JobPositionFacts
  DEF Disarm, TypeInv, TypeOK, StorageOK, QueuesOK, RunsOK, CountersOK, Capacity,
      TakeJob, JobAt, jobDone, supSide, bounds, history

\* The alarms of reconciled jobs are times.
LEMMA RearmTypes == TypeInv /\ Rearm => TypeInv'
<1> SUFFICES ASSUME TypeInv, Rearm PROVE TypeInv'
  OBVIOUS
<1>1. \A j \in JobIds : alarmAt(jobs[j].config) \in Nat
  BY EntryFields, JobAssumption DEF TypeInv, TypeOK, StorageOK, CountersOK, Entries, alarmAt
<1>2. alarms' \in [JobIds -> Nat]
  BY <1>1 DEF Rearm, TypeInv, TypeOK, StorageOK
<1> QED
  BY <1>2, JobPositionFacts
  DEF Rearm, TypeInv, TypeOK, StorageOK, QueuesOK, RunsOK, CountersOK, Capacity,
      TakeJob, JobAt, jobDone, supSide, bounds, history

\* No alarm is due after the end of time.
LEMMA OffLate == Off \in Nat
BY JobAssumption DEF Off

\* The run that starts is numbered within its bound.
LEMMA SucceedsTypes == TypeInv /\ StartSucceeds => TypeInv'
<1> SUFFICES ASSUME TypeInv, StartSucceeds PROVE TypeInv'
  OBVIOUS
<1> USE DEF TypeInv, TypeOK
<1>1. run.n + 1 \in 0..MaxRuns /\ st.job \in JobIds \cup {NoJob} /\ st.rev \in 0..MaxSaves
  BY JobAssumption DEF StartSucceeds, SupAt, Capacity, QueuesOK, RunsOK, SupPositions, StoredRuns
<1>2. run' \in StoredRuns
  BY <1>1 DEF StartSucceeds, StoredRuns
<1>3. page' \in Pages
  BY <1>1 DEF StartSucceeds, Pages
<1>4. jt' \in JobPositions
  BY AnswerType DEF StartSucceeds
<1>5. st' \in SupPositions /\ st'.pc = "idle" /\ ready' \in BOOLEAN
  BY SupPositionFacts DEF StartSucceeds, supDone
<1> QED
  BY <1>2, <1>3, <1>4, <1>5
  DEF StartSucceeds, StorageOK, QueuesOK, RunsOK, CountersOK, Capacity, bounds, history

\* The effects of a decided outcome are queued as a task.
LEMMA OutcomeTypes == TypeInv /\ OutcomeTask => TypeInv'
<1> SUFFICES ASSUME TypeInv, OutcomeTask PROVE TypeInv'
  OBVIOUS
<1> USE DEF TypeInv, TypeOK
<1>1. supTask("complete", NoJob, 0) \in SupTasks
  BY TaskTypes, JobAssumption
<1>2. sq' \in Seq(SupTasks)
  BY <1>1, HeadsAndTails DEF OutcomeTask
<1>3. run' \in StoredRuns
  BY RunFacts DEF OutcomeTask, RunsOK
<1> QED
  BY <1>2, <1>3
  DEF OutcomeTask, StorageOK, QueuesOK, RunsOK, CountersOK, Capacity, jobSide, bounds, history

\* The effects queue the end of the job of the run.
LEMMA EffectsTypes == TypeInv /\ Effects => TypeInv'
<1> SUFFICES ASSUME TypeInv, Effects PROVE TypeInv'
  OBVIOUS
<1> USE DEF TypeInv, TypeOK
<1>1. run.job # NoJob => plainTask("finish", run.job) \in JobTasks
  BY TaskTypes DEF RunsOK, StoredRuns
<1>2. jq' \in Seq(JobTasks)
  BY <1>1, HeadsAndTails DEF Effects, QueuesOK
<1>3. st' \in SupPositions /\ st'.pc # "starting" /\ ready' = ready
  BY SupPositionFacts DEF Effects, supGoto
<1> QED
  BY <1>2, <1>3 DEF Effects, StorageOK, QueuesOK, RunsOK, CountersOK, Capacity, bounds, history

\* The queues of a worker that has just started.
LEMMA FreshQueues ==
  /\ <<>> \in Seq(JobTasks) /\ <<plainTask("reconcile", NoJob)>> \in Seq(JobTasks)
  /\ <<>> \in Seq(SupTasks) /\ <<supTask("boot", NoJob, 0)>> \in Seq(SupTasks)
BY TaskTypes, JobAssumption

\* A start that begins has room for its run.
LEMMA BeginsTypes == TypeInv /\ StartBegins => TypeInv'
<1> SUFFICES ASSUME TypeInv, StartBegins PROVE TypeInv'
  OBVIOUS
<1> USE DEF TypeInv, TypeOK
<1> DEFINE j == Head(sq).job
<1> DEFINE rev == IF j = NoJob THEN 0 ELSE jobs[j].rev
<1>1. /\ sq' \in Seq(SupTasks) /\ j \in JobIds \cup {NoJob} /\ run.n < MaxRuns
      /\ st' = [pc |-> "starting", job |-> j, rev |-> rev]
      /\ launches' = IF j = NoJob THEN launches ELSE [launches EXCEPT ![rev] = @ + 1]
      /\ busy' = TRUE /\ UNCHANGED <<jobSide, ready, run, page, now, bounds, restarts>>
  BY HeadsAndTails, SupTaskFields DEF StartBegins, TakeSup
<1>2. rev \in 0..MaxSaves
  BY <1>1, EntryFields, JobAssumption DEF StorageOK, Entries
<1>3. launches' \in [1..MaxSaves -> Nat]
  <2>1. launches \in [1..MaxSaves -> Nat]
    BY DEF CountersOK
  <2>2. launches[rev] + 1 \in Nat \/ rev \notin 1..MaxSaves
    BY <2>1
  <2>3. [launches EXCEPT ![rev] = launches[rev] + 1] \in [1..MaxSaves -> Nat]
    BY <2>1, <2>2
  <2> QED
    BY <1>1, <2>1, <2>3
<1>4. st' \in SupPositions
  BY <1>1, <1>2 DEF SupPositions
<1> QED
  BY <1>1, <1>3, <1>4
  DEF StorageOK, QueuesOK, RunsOK, CountersOK, Capacity, jobSide, bounds

\* A refused start answers at most the task that waits for it.
LEMMA RefusedTypes == TypeInv /\ StartRefused => TypeInv'
<1> SUFFICES ASSUME TypeInv, StartRefused PROVE TypeInv'
  OBVIOUS
<1> USE DEF TypeInv, TypeOK, StartRefused, TakeSup, SupAt, supDone, supGoto, jobSide, bounds, history
<1>1. StorageOK'
  BY DEF StorageOK
<1>2. QueuesOK'
  BY HeadsAndTails, SupTaskFields, SupPositionFacts, AnswerType DEF QueuesOK, RunsOK
<1>3. RunsOK'
  BY DEF RunsOK, QueuesOK
<1>4. CountersOK'
  BY DEF CountersOK
<1>5. Capacity'
  BY SupPositionFacts DEF Capacity
<1> QED
  BY <1>1, <1>2, <1>3, <1>4, <1>5 DEF TypeInv, TypeOK

\* A start that fails leaves the run or none.
LEMMA FailsTypes == TypeInv /\ StartFails => TypeInv'
<1> SUFFICES ASSUME TypeInv, StartFails PROVE TypeInv'
  OBVIOUS
<1> USE DEF TypeInv, TypeOK, StartFails, TakeSup, SupAt, supDone, supGoto, jobSide, bounds, history
<1>1. StorageOK'
  BY DEF StorageOK
<1>2. QueuesOK'
  BY HeadsAndTails, SupTaskFields, SupPositionFacts, AnswerType DEF QueuesOK, RunsOK
<1>3. RunsOK'
  BY RunFacts DEF RunsOK, QueuesOK
<1>4. CountersOK'
  BY DEF CountersOK
<1>5. Capacity'
  BY SupPositionFacts DEF Capacity
<1> QED
  BY <1>1, <1>2, <1>3, <1>4, <1>5 DEF TypeInv, TypeOK

\* completeTerminal goes on to the effects or ends.
LEMMA CompleteTypes == TypeInv /\ CompleteTask => TypeInv'
<1> SUFFICES ASSUME TypeInv, CompleteTask PROVE TypeInv'
  OBVIOUS
<1> USE DEF TypeInv, TypeOK, CompleteTask, TakeSup, SupAt, supDone, supGoto, jobSide, bounds, history
<1>1. StorageOK'
  BY DEF StorageOK
<1>2. QueuesOK'
  BY HeadsAndTails, SupTaskFields, SupPositionFacts DEF QueuesOK, RunsOK
<1>3. RunsOK'
  BY RunFacts DEF RunsOK, QueuesOK
<1>4. CountersOK'
  BY DEF CountersOK
<1>5. Capacity'
  BY SupPositionFacts DEF Capacity
<1> QED
  BY <1>1, <1>2, <1>3, <1>4, <1>5 DEF TypeInv, TypeOK

\* A closed tab ends its run.
LEMMA InterruptTypes == TypeInv /\ InterruptTask => TypeInv'
<1> SUFFICES ASSUME TypeInv, InterruptTask PROVE TypeInv'
  OBVIOUS
<1> USE DEF TypeInv, TypeOK, InterruptTask, TakeSup, SupAt, supDone, supGoto, jobSide, bounds, history
<1>1. StorageOK'
  BY DEF StorageOK
<1>2. QueuesOK'
  BY HeadsAndTails, SupTaskFields, SupPositionFacts DEF QueuesOK, RunsOK
<1>3. RunsOK'
  BY RunFacts DEF RunsOK, QueuesOK
<1>4. CountersOK'
  BY DEF CountersOK
<1>5. Capacity'
  BY SupPositionFacts DEF Capacity
<1> QED
  BY <1>1, <1>2, <1>3, <1>4, <1>5 DEF TypeInv, TypeOK

\* The bootstrap reconcile ends the run or leaves it.
LEMMA BootTypes == TypeInv /\ BootTask => TypeInv'
<1> SUFFICES ASSUME TypeInv, BootTask PROVE TypeInv'
  OBVIOUS
<1> USE DEF TypeInv, TypeOK, BootTask, TakeSup, SupAt, supDone, supGoto, jobSide, bounds, history
<1>1. StorageOK'
  BY DEF StorageOK
<1>2. QueuesOK'
  BY HeadsAndTails, SupTaskFields, SupPositionFacts DEF QueuesOK, RunsOK
<1>3. RunsOK'
  BY RunFacts DEF RunsOK, QueuesOK
<1>4. CountersOK'
  BY DEF CountersOK
<1>5. Capacity'
  BY SupPositionFacts DEF Capacity
<1> QED
  BY <1>1, <1>2, <1>3, <1>4, <1>5 DEF TypeInv, TypeOK

\* The marker is a part of the run.
LEMMA MarkTypes == TypeInv /\ Mark => TypeInv'
<1> SUFFICES ASSUME TypeInv, Mark PROVE TypeInv'
  OBVIOUS
<1> USE DEF TypeInv, TypeOK, Mark, TakeSup, SupAt, supDone, supGoto, jobSide, bounds, history
<1>1. StorageOK'
  BY DEF StorageOK
<1>2. QueuesOK'
  BY HeadsAndTails, SupTaskFields, SupPositionFacts DEF QueuesOK, RunsOK
<1>3. RunsOK'
  BY RunFacts DEF RunsOK, QueuesOK
<1>4. CountersOK'
  BY DEF CountersOK
<1>5. Capacity'
  BY SupPositionFacts DEF Capacity
<1> QED
  BY <1>1, <1>2, <1>3, <1>4, <1>5 DEF TypeInv, TypeOK

\* An attempt that is over stays in its tab.
LEMMA EndsTypes == TypeInv /\ PageEnds => TypeInv'
<1> SUFFICES ASSUME TypeInv, PageEnds PROVE TypeInv'
  OBVIOUS
<1> USE DEF TypeInv, TypeOK, PageEnds, jobSide, supSide, bounds, history, disruption
<1>1. StorageOK'
  BY DEF StorageOK
<1>2. QueuesOK'
  BY DEF QueuesOK, RunsOK
<1>3. RunsOK'
  BY PageFacts DEF RunsOK, QueuesOK
<1>4. CountersOK'
  BY JobAssumption DEF CountersOK
<1>5. Capacity'
  BY SupPositionFacts DEF Capacity
<1> QED
  BY <1>1, <1>2, <1>3, <1>4, <1>5 DEF TypeInv, TypeOK

\* The report names the run of the tab.
LEMMA ReportsTypes == TypeInv /\ PageReports => TypeInv'
<1> SUFFICES ASSUME TypeInv, PageReports PROVE TypeInv'
  OBVIOUS
<1> USE DEF TypeInv, TypeOK, PageReports, jobSide, supSide, bounds, history, disruption
<1>1. StorageOK'
  BY DEF StorageOK
<1>2. QueuesOK'
  BY HeadsAndTails, TaskTypes, PageFacts DEF QueuesOK, RunsOK
<1>3. RunsOK'
  BY PageFacts DEF RunsOK, QueuesOK
<1>4. CountersOK'
  BY DEF CountersOK
<1>5. Capacity'
  BY SupPositionFacts DEF Capacity
<1> QED
  BY <1>1, <1>2, <1>3, <1>4, <1>5 DEF TypeInv, TypeOK

\* What the panel sends to save is a task.
LEMMA SavesTypes == TypeInv /\ (\E j \in JobIds \cup {NoJob}, c \in Configs : UserSaves(j, c)) => TypeInv'
<1> SUFFICES ASSUME TypeInv, \E j \in JobIds \cup {NoJob}, c \in Configs : UserSaves(j, c) PROVE TypeInv'
  OBVIOUS
<1> USE DEF TypeInv, TypeOK, UserSaves, jobSide, supSide, bounds, history, disruption
<1>1. StorageOK'
  BY DEF StorageOK
<1>2. QueuesOK'
  BY HeadsAndTails, TaskTypes DEF QueuesOK, RunsOK
<1>3. RunsOK'
  BY DEF RunsOK, QueuesOK
<1>4. CountersOK'
  BY DEF CountersOK
<1>5. Capacity'
  BY SupPositionFacts DEF Capacity
<1> QED
  BY <1>1, <1>2, <1>3, <1>4, <1>5 DEF TypeInv, TypeOK

\* What the panel sends to delete is a task.
LEMMA DeletesTypes == TypeInv /\ (\E j \in JobIds : UserDeletes(j)) => TypeInv'
<1> SUFFICES ASSUME TypeInv, \E j \in JobIds : UserDeletes(j) PROVE TypeInv'
  OBVIOUS
<1> USE DEF TypeInv, TypeOK, UserDeletes, jobSide, supSide, bounds, history, disruption
<1>1. StorageOK'
  BY DEF StorageOK
<1>2. QueuesOK'
  BY HeadsAndTails, TaskTypes DEF QueuesOK, RunsOK
<1>3. RunsOK'
  BY DEF RunsOK, QueuesOK
<1>4. CountersOK'
  BY JobAssumption DEF CountersOK
<1>5. Capacity'
  BY SupPositionFacts DEF Capacity
<1> QED
  BY <1>1, <1>2, <1>3, <1>4, <1>5 DEF TypeInv, TypeOK

\* An alarm that fired is off.
LEMMA FiresTypes == TypeInv /\ (\E j \in JobIds : AlarmFires(j)) => TypeInv'
<1> SUFFICES ASSUME TypeInv, \E j \in JobIds : AlarmFires(j) PROVE TypeInv'
  OBVIOUS
<1> USE DEF TypeInv, TypeOK, AlarmFires, jobSide, supSide, bounds, history, disruption
<1>1. StorageOK'
  BY OffLate DEF StorageOK
<1>2. QueuesOK'
  BY DEF QueuesOK, RunsOK
<1>3. RunsOK'
  BY DEF RunsOK, QueuesOK
<1>4. CountersOK'
  BY DEF CountersOK
<1>5. Capacity'
  BY SupPositionFacts DEF Capacity
<1> QED
  BY <1>1, <1>2, <1>3, <1>4, <1>5 DEF TypeInv, TypeOK

\* An admitted alarm is a task.
LEMMA AdmittedTypes == TypeInv /\ (\E j \in JobIds : AlarmAdmitted(j)) => TypeInv'
<1> SUFFICES ASSUME TypeInv, \E j \in JobIds : AlarmAdmitted(j) PROVE TypeInv'
  OBVIOUS
<1> USE DEF TypeInv, TypeOK, AlarmAdmitted, jobSide, supSide, bounds, history, disruption
<1>1. StorageOK'
  BY DEF StorageOK
<1>2. QueuesOK'
  BY HeadsAndTails, TaskTypes DEF QueuesOK, RunsOK
<1>3. RunsOK'
  BY DEF RunsOK, QueuesOK
<1>4. CountersOK'
  BY DEF CountersOK
<1>5. Capacity'
  BY SupPositionFacts DEF Capacity
<1> QED
  BY <1>1, <1>2, <1>3, <1>4, <1>5 DEF TypeInv, TypeOK

\* A manual start is a launch without a job.
LEMMA StartsTypes == TypeInv /\ UserStarts => TypeInv'
<1> SUFFICES ASSUME TypeInv, UserStarts PROVE TypeInv'
  OBVIOUS
<1> USE DEF TypeInv, TypeOK, UserStarts, jobSide, supSide, bounds, history, disruption
<1>1. StorageOK'
  BY DEF StorageOK
<1>2. QueuesOK'
  BY HeadsAndTails, TaskTypes, JobAssumption DEF QueuesOK, RunsOK
<1>3. RunsOK'
  BY DEF RunsOK, QueuesOK
<1>4. CountersOK'
  BY JobAssumption DEF CountersOK
<1>5. Capacity'
  BY SupPositionFacts DEF Capacity
<1> QED
  BY <1>1, <1>2, <1>3, <1>4, <1>5 DEF TypeInv, TypeOK

\* A closed tab is reported with the run that was in it.
LEMMA ClosesTypes == TypeInv /\ UserClosesTab => TypeInv'
<1> SUFFICES ASSUME TypeInv, UserClosesTab PROVE TypeInv'
  OBVIOUS
<1> USE DEF TypeInv, TypeOK, UserClosesTab, jobSide, supSide, bounds, history, disruption
<1>1. StorageOK'
  BY DEF StorageOK
<1>2. QueuesOK'
  BY HeadsAndTails, TaskTypes, PageFacts DEF QueuesOK, RunsOK
<1>3. RunsOK'
  BY PageFacts DEF RunsOK, QueuesOK
<1>4. CountersOK'
  BY JobAssumption DEF CountersOK
<1>5. Capacity'
  BY SupPositionFacts DEF Capacity
<1> QED
  BY <1>1, <1>2, <1>3, <1>4, <1>5 DEF TypeInv, TypeOK

\* After a crash the reconcile is the only task.
LEMMA CrashTypes == TypeInv /\ Crash => TypeInv'
<1> SUFFICES ASSUME TypeInv, Crash PROVE TypeInv'
  OBVIOUS
<1> USE DEF TypeInv, TypeOK, Crash, reboot, jobSide, supSide, bounds, history, disruption
<1>1. StorageOK'
  BY DEF StorageOK
<1>2. QueuesOK'
  BY FreshQueues, JobPositionFacts, SupPositionFacts DEF QueuesOK, RunsOK
<1>3. RunsOK'
  BY DEF RunsOK, QueuesOK
<1>4. CountersOK'
  BY JobAssumption DEF CountersOK
<1>5. Capacity'
  BY SupPositionFacts DEF Capacity
<1> QED
  BY <1>1, <1>2, <1>3, <1>4, <1>5 DEF TypeInv, TypeOK

\* After a restart both queues start with their reconcile.
LEMMA RestartTypes == TypeInv /\ Restart => TypeInv'
<1> SUFFICES ASSUME TypeInv, Restart PROVE TypeInv'
  OBVIOUS
<1> USE DEF TypeInv, TypeOK, Restart, reboot, jobSide, supSide, bounds, history, disruption
<1>1. StorageOK'
  BY OffLate DEF StorageOK
<1>2. QueuesOK'
  BY FreshQueues, JobPositionFacts, SupPositionFacts DEF QueuesOK, RunsOK
<1>3. RunsOK'
  BY PageFacts DEF RunsOK, QueuesOK
<1>4. CountersOK'
  BY JobAssumption DEF CountersOK
<1>5. Capacity'
  BY SupPositionFacts DEF Capacity
<1> QED
  BY <1>1, <1>2, <1>3, <1>4, <1>5 DEF TypeInv, TypeOK

\* The clock stops at the bound.
LEMMA TickTypes == TypeInv /\ Tick => TypeInv'
<1> SUFFICES ASSUME TypeInv, Tick PROVE TypeInv'
  OBVIOUS
<1> USE DEF TypeInv, TypeOK, Tick, jobSide, supSide, bounds, history, disruption
<1>1. StorageOK'
  BY DEF StorageOK
<1>2. QueuesOK'
  BY DEF QueuesOK, RunsOK
<1>3. RunsOK'
  BY DEF RunsOK, QueuesOK
<1>4. CountersOK'
  BY JobAssumption DEF CountersOK
<1>5. Capacity'
  BY SupPositionFacts DEF Capacity
<1> QED
  BY <1>1, <1>2, <1>3, <1>4, <1>5 DEF TypeInv, TypeOK

-----------------------------------------------------------------------------
(* The list *)

\* The list only lost jobs, or active ones: windows stay, nothing becomes active.
Shrinks ==
  \A i \in JobIds :
    /\ isActive(jobs'[i]) => isActive(jobs[i]) /\ jobs'[i].config = jobs[i].config
    /\ jobs'[i].status # "none" => jobs[i].status # "none"

\* Removing a job or changing its status, unless an inactive one becomes active, shrinks
\* the list.
LEMMA TransitionShrinks ==
  ASSUME jobs \in [JobIds -> Entries], NEW j \in JobIds, NEW s \in Statuses,
         isActive(jobs[j]) \/ s \in {"finished", "missed"},
         jobs' = transition(jobs, j, s)
  PROVE  jobs' \in [JobIds -> Entries] /\ Shrinks
BY TransitionFacts DEF Shrinks, isActive

\* The types of all but the list and the alarms.
OtherTypes == QueuesOK' /\ RunsOK' /\ CountersOK' /\ Capacity'

\* A list of entries and untouched alarms have their type.
LEMMA ListTypes ==
  ASSUME TypeInv, jobs' \in [JobIds -> Entries], alarms' = alarms, fired' = fired, OtherTypes
  PROVE  TypeInv'
BY DEF TypeInv, TypeOK, StorageOK, Entries, OtherTypes

\* A deleted job is gone (removeScheduledJob).
LEMMA DeleteShrinks == TypeInv /\ DeleteTask => TypeInv' /\ Shrinks
<1> SUFFICES ASSUME TypeInv, DeleteTask PROVE TypeInv' /\ Shrinks
  OBVIOUS
<1> DEFINE j == Head(jq).job
<1>0. TypeOK
  BY DEF TypeInv
<1>1. j \in JobIds /\ jq' \in Seq(JobTasks)
  BY <1>0, HeadsAndTails, TaskFields DEF DeleteTask, TakeJob
<1>2. jt' \in JobPositions
  BY <1>1, JobPositionFacts DEF DeleteTask, jobDone
<1>3. jobs \in [JobIds -> Entries]
  BY <1>0 DEF TypeOK, StorageOK, Entries
<1>4. Absent \in Entries /\ ~isActive(Absent) /\ Absent.status = "none"
  BY DEF Absent, Entries, isActive
<1>5. jobs' \in {jobs, [jobs EXCEPT ![j] = Absent]}
  BY DEF DeleteTask
<1>6. jobs' \in [JobIds -> Entries] /\ Shrinks
  BY <1>1, <1>3, <1>4, <1>5 DEF Shrinks
<1>7. OtherTypes
  BY <1>0, <1>1, <1>2
  DEF DeleteTask, TypeInv, TypeOK, OtherTypes, QueuesOK, RunsOK, CountersOK, Capacity,
      supSide, bounds, history
<1> QED
  BY <1>6, <1>7, ListTypes DEF DeleteTask

\* An alarm turns a waiting job into a running or a missed one (onAlarm).
LEMMA AlarmShrinks == TypeInv /\ AlarmTask => TypeInv' /\ Shrinks
<1> SUFFICES ASSUME TypeInv, AlarmTask PROVE TypeInv' /\ Shrinks
  OBVIOUS
<1> DEFINE j == Head(jq).job
<1>0. TypeOK
  BY DEF TypeInv
<1>1. j \in JobIds /\ jq' \in Seq(JobTasks) /\ onAlarm(j)
  BY <1>0, HeadsAndTails, TaskFields DEF AlarmTask, TakeJob
<1>2. jt' \in JobPositions
  BY <1>1, JobPositionFacts DEF onAlarm, jobDone
<1>3. jobs \in [JobIds -> Entries]
  BY <1>0 DEF TypeOK, StorageOK, Entries
<1>4. sq' \in Seq(SupTasks)
  <2>1. supTask("launch", j, 0) \in SupTasks
    BY <1>1, TaskTypes, JobAssumption
  <2> QED
    BY <1>0, <1>1, <2>1, HeadsAndTails DEF onAlarm, TypeOK, QueuesOK
<1>5. "running" \in Statuses /\ "missed" \in Statuses
  BY DEF Statuses
<1>6. jobs' \in [JobIds -> Entries] /\ Shrinks
  <2>1. CASE jobs' = jobs
    BY <1>3, <2>1 DEF Shrinks
  <2>2. CASE isActive(jobs[j]) /\ jobs' = transition(jobs, j, "running")
    BY <1>1, <1>3, <1>5, <2>2, TransitionShrinks
  <2>3. CASE jobs' = transition(jobs, j, "missed")
    BY <1>1, <1>3, <1>5, <2>3, TransitionShrinks
  <2> QED
    BY <1>1, <2>1, <2>2, <2>3 DEF onAlarm, isActive
<1>7. OtherTypes
  BY <1>0, <1>1, <1>2, <1>4
  DEF AlarmTask, TypeInv, TypeOK, OtherTypes, QueuesOK, RunsOK, CountersOK, Capacity,
      bounds, history
<1> QED
  BY <1>6, <1>7, ListTypes DEF AlarmTask

\* A refused or failed launch ends the job (onAlarm).
LEMMA AnsweredShrinks == TypeInv /\ LaunchAnswered => TypeInv' /\ Shrinks
<1> SUFFICES ASSUME TypeInv, LaunchAnswered PROVE TypeInv' /\ Shrinks
  OBVIOUS
<1>0. TypeOK
  BY DEF TypeInv
<1>1. jobs \in [JobIds -> Entries] /\ jt.reply \in {"ok", "busy", "failed"}
      /\ jt.job \in JobIds \cup {NoJob}
  BY <1>0 DEF LaunchAnswered, TypeOK, StorageOK, QueuesOK, JobPositions, Entries
<1>2. "finished" \in Statuses /\ "missed" \in Statuses
  BY DEF Statuses
<1>3. jobs' \in {jobs, transition(jobs, jt.job, "missed"), transition(jobs, jt.job, "finished")}
  BY <1>1 DEF LaunchAnswered
<1>4. jobs' \in [JobIds -> Entries] /\ Shrinks
  <2>1. CASE jobs' = jobs
    BY <1>1, <2>1 DEF Shrinks
  <2>2. CASE jt.job \in JobIds /\ jobs' # jobs
    BY <1>1, <1>2, <1>3, <2>2, TransitionShrinks
  <2>3. CASE jt.job = NoJob
    <3>1. \A s : transition(jobs, NoJob, s) = jobs
      BY <1>1, JobAssumption DEF transition
    <3> QED
      BY <1>1, <1>3, <2>1, <2>3, <3>1
  <2> QED
    BY <1>1, <2>1, <2>2, <2>3
<1>5. OtherTypes
  BY <1>0, JobPositionFacts
  DEF LaunchAnswered, jobDone, TypeInv, TypeOK, OtherTypes, QueuesOK, RunsOK, CountersOK,
      Capacity, supSide, bounds, history
<1> QED
  BY <1>4, <1>5, ListTypes DEF LaunchAnswered

\* After a restart of Chrome active jobs wait again or are missed (reconcileJobs).
LEMMA ReconcileShrinks == TypeInv /\ ReconcileJobsTask => TypeInv' /\ Shrinks
<1> SUFFICES ASSUME TypeInv, ReconcileJobsTask PROVE TypeInv' /\ Shrinks
  OBVIOUS
<1>0. TypeOK
  BY DEF TypeInv
<1>1. jq' \in Seq(JobTasks)
  BY <1>0, HeadsAndTails DEF ReconcileJobsTask, TakeJob
<1>2. jobs' \in [JobIds -> Entries] /\ Shrinks
  BY <1>0, ReconciledFacts DEF ReconcileJobsTask, TypeOK, StorageOK, Entries, Shrinks
<1>3. OtherTypes
  BY <1>0, <1>1, JobPositionFacts
  DEF ReconcileJobsTask, TypeInv, TypeOK, OtherTypes, QueuesOK, RunsOK, CountersOK,
      Capacity, supSide, bounds, history
<1> QED
  BY <1>2, <1>3, ListTypes DEF ReconcileJobsTask

\* The effects of a run end its job, whatever its status is (finishJob).
LEMMA FinishShrinks == TypeInv /\ FinishTask => TypeInv' /\ Shrinks
<1> SUFFICES ASSUME TypeInv, FinishTask PROVE TypeInv' /\ Shrinks
  OBVIOUS
<1> DEFINE j == Head(jq).job
<1>0. TypeOK
  BY DEF TypeInv
<1>1. j \in JobIds /\ jq' \in Seq(JobTasks)
  BY <1>0, HeadsAndTails, TaskFields DEF FinishTask, TakeJob
<1>2. "finished" \in Statuses
  BY DEF Statuses
<1>3. jobs' \in [JobIds -> Entries] /\ Shrinks
  BY <1>0, <1>1, <1>2, TransitionShrinks DEF FinishTask, TypeOK, StorageOK, Entries
<1>4. st' \in SupPositions /\ st'.pc # "starting"
  BY <1>0, SupPositionFacts DEF FinishTask, TypeOK, QueuesOK
<1>5. OtherTypes
  BY <1>0, <1>1, <1>4
  DEF FinishTask, TypeInv, TypeOK, OtherTypes, QueuesOK, RunsOK, CountersOK, Capacity,
      bounds, history
<1> QED
  BY <1>3, <1>5, ListTypes DEF FinishTask

\* A saved job: the list before it, with the job written over, then pruned (scheduleJob).
Saved(j, id, c) ==
  /\ j \in JobIds /\ c \in Configs /\ (id = NoJob \/ id = j)
  /\ schedulable(jobs, id, c)
  /\ jobs' \in scheduled(jobs, j, c)

\* SCHEDULE_JOB leaves the list alone or saves one job.
LEMMA SaveTypes ==
  TypeInv /\ SaveTask =>
    TypeInv' /\ (jobs' = jobs \/ \E j \in JobIds, id \in JobIds \cup {NoJob}, c \in Configs : Saved(j, id, c))
<1> SUFFICES ASSUME TypeInv, SaveTask
             PROVE  TypeInv' /\ (jobs' = jobs \/ \E j \in JobIds, id \in JobIds \cup {NoJob}, c \in Configs : Saved(j, id, c))
  OBVIOUS
<1> DEFINE m == Head(jq)
           j == IF m.job # NoJob THEN m.job
                ELSE IF drawn # JobIds THEN CHOOSE i \in JobIds : i \notin drawn ELSE NoJob
<1>0. TypeOK
  BY DEF TypeInv
<1>1. /\ jq' \in Seq(JobTasks) /\ m.job \in JobIds \cup {NoJob} /\ m.config \in Configs
  BY <1>0, HeadsAndTails, TaskFields DEF SaveTask, TakeJob
<1>2. drawn \subseteq JobIds /\ saves \in 0..MaxSaves /\ jobs \in [JobIds -> Entries]
  BY <1>0 DEF TypeOK, CountersOK, StorageOK, Entries
<1>3. CASE schedulable(jobs, m.job, m.config) /\ j \in JobIds /\ saves < MaxSaves
  <2>1. /\ jobs' \in scheduled(jobs, j, m.config)
        /\ saves' = saves + 1 /\ drawn' = drawn \cup {j}
        /\ jt' = [jobIdle EXCEPT !.pc = "arm", !.job = j]
    BY <1>3 DEF SaveTask
  <2>2. Saved(j, m.job, m.config)
    BY <1>1, <1>3, <2>1 DEF Saved
  <2> DEFINE job == [status |-> "scheduled", config |-> m.config, rev |-> saves + 1]
  <2>3. saves + 1 \in 1..MaxSaves /\ saves' \in 0..MaxSaves
    BY <1>2, <1>3, <2>1, JobAssumption
  <2>4. job \in Entries
    BY <1>1, <2>3 DEF Entries, StoredJobs, Statuses
  <2>5. jobs' \in [JobIds -> Entries]
    <3> DEFINE list == [jobs EXCEPT ![j] = job]
    <3> HIDE DEF job
    <3>1. list \in [JobIds -> Entries]
      BY <1>2, <1>3, <2>4
    <3> HIDE DEF list
    <3>2. jobs' \in pruneFinished(list)
      BY <2>1 DEF scheduled, list, job
    <3> QED
      BY <3>1, <3>2, PrunedFacts
  <2>6. jt' \in JobPositions
    BY <1>3, <2>1, JobPositionFacts
  <2>7. OtherTypes
    BY <1>0, <1>1, <1>3, <2>1, <2>3, <2>6
    DEF SaveTask, TypeInv, TypeOK, OtherTypes, QueuesOK, RunsOK, CountersOK, Capacity,
        supSide, history
  <2> QED
    BY <1>1, <1>3, <2>2, <2>5, <2>7, ListTypes DEF SaveTask
<1>4. CASE ~(schedulable(jobs, m.job, m.config) /\ j \in JobIds /\ saves < MaxSaves)
  <2>1. jobDone /\ UNCHANGED <<jobs, saves, drawn>>
    BY <1>4 DEF SaveTask
  <2>2. OtherTypes
    BY <1>0, <1>1, <2>1, JobPositionFacts
    DEF SaveTask, jobDone, TypeInv, TypeOK, OtherTypes, QueuesOK, RunsOK, CountersOK,
        Capacity, supSide, history
  <2> QED
    BY <1>2, <2>1, <2>2, ListTypes DEF SaveTask
<1> QED
  BY <1>3, <1>4

\* What a saved job does to the active ones: it comes to those that were active before,
\* does not overlap any of them, and is one of at most Limit.
LEMMA SavedFacts ==
  ASSUME TypeInv, NEW j \in JobIds, NEW id \in JobIds \cup {NoJob}, NEW c \in Configs,
         Saved(j, id, c)
  PROVE  /\ jobs'[j].config = c
         /\ \A i \in activeJobs(jobs') \ {j} : i \in activeJobs(jobs) /\ jobs'[i] = jobs[i]
         /\ \A i \in activeJobs(jobs) \ {j} : ~overlap(jobs[i].config, c)
         /\ activeJobs(jobs') = (activeJobs(jobs) \ {j}) \cup {j}
         /\ Cardinality(present(jobs') \ activeJobs(jobs')) <= Keep
         /\ Cardinality(activeJobs(jobs) \ {id}) < Limit
<1> DEFINE job == [status |-> "scheduled", config |-> c, rev |-> saves + 1]
           list == [jobs EXCEPT ![j] = job]
<1>1. jobs \in [JobIds -> Entries]
  BY DEF TypeInv, TypeOK, StorageOK, Entries
<1>2. isActive(job) /\ job.config = c
  BY DEF isActive
<1>3. jobs' \in pruneFinished(list)
  BY DEF Saved, scheduled
<1> HIDE DEF job
<1>4. /\ list[j] = job /\ \A i \in JobIds \ {j} : list[i] = jobs[i]
  BY <1>1
<1> HIDE DEF list
<1>5. /\ \A i \in JobIds : jobs'[i] = list[i] \/ (~isActive(list[i]) /\ jobs'[i] = Absent)
      /\ activeJobs(jobs') = activeJobs(list)
      /\ Cardinality(present(jobs') \ activeJobs(jobs')) <= Keep
  BY <1>3, PrunedShape
<1>6. ~isActive(Absent)
  BY DEF isActive, Absent
<1>7. activeJobs(list) = (activeJobs(jobs) \ {j}) \cup {j}
  BY <1>2, <1>4 DEF activeJobs
<1>8. \A i \in activeJobs(jobs) \ {j} : ~overlap(jobs[i].config, c)
  <2>1. activeJobs(jobs) \ {j} \subseteq activeJobs(jobs) \ {id}
    BY JobAssumption DEF Saved, activeJobs
  <2> QED
    BY <2>1 DEF Saved, schedulable, findScheduleConflict
<1> QED
  BY <1>2, <1>4, <1>5, <1>6, <1>7, <1>8 DEF Saved, schedulable, activeJobs

\* No two active jobs overlap, through saves and whatever shrinks the list.
LEMMA OverlapKept ==
  ASSUME TypeInv, NoOverlap,
         \/ Shrinks
         \/ \E j \in JobIds, id \in JobIds \cup {NoJob}, c \in Configs : Saved(j, id, c)
  PROVE  NoOverlap'
<1>1. CASE Shrinks
  BY <1>1 DEF Shrinks, NoOverlap, activeJobs
<1>2. ASSUME NEW j \in JobIds, NEW id \in JobIds \cup {NoJob}, NEW c \in Configs, Saved(j, id, c)
      PROVE  NoOverlap'
  <2>1. SUFFICES ASSUME NEW a \in activeJobs(jobs'), NEW b \in activeJobs(jobs'), a # b
                 PROVE  ~overlap(jobs'[a].config, jobs'[b].config)
    BY DEF NoOverlap
  <2>2. \A x, y : overlap(x, y) <=> overlap(y, x)
    BY DEF overlap
  <2>3. /\ jobs'[j].config = c
        /\ \A i \in activeJobs(jobs') \ {j} : i \in activeJobs(jobs) /\ jobs'[i] = jobs[i]
        /\ \A i \in activeJobs(jobs) \ {j} : ~overlap(jobs[i].config, c)
    BY <1>2, SavedFacts
  <2>4. CASE a = j
    BY <2>1, <2>2, <2>3, <2>4
  <2>5. CASE b = j
    BY <2>1, <2>3, <2>5
  <2>6. CASE a # j /\ b # j
    BY <2>1, <2>3, <2>6 DEF NoOverlap
  <2> QED
    BY <2>4, <2>5, <2>6
<1> QED
  BY <1>1, <1>2

\* The active jobs and the list stay within their limits.
LEMMA BoundKept ==
  ASSUME TypeInv, ListBounded,
         \/ Shrinks
         \/ \E j \in JobIds, id \in JobIds \cup {NoJob}, c \in Configs : Saved(j, id, c)
  PROVE  ListBounded'
<1>1. /\ IsFiniteSet(JobIds) /\ Limit \in Nat /\ Keep \in Nat
      /\ \A list : activeJobs(list) \subseteq JobIds /\ present(list) \subseteq JobIds
  BY JobAssumption DEF activeJobs, present
<1>2. \A S \in SUBSET JobIds : IsFiniteSet(S) /\ Cardinality(S) \in Nat
  BY <1>1, FS_Subset, FS_CardinalityType
<1>3. CASE Shrinks
  <2>1. activeJobs(jobs') \subseteq activeJobs(jobs) /\ present(jobs') \subseteq present(jobs)
    BY <1>3 DEF Shrinks, activeJobs, present
  <2>2. /\ Cardinality(activeJobs(jobs')) <= Cardinality(activeJobs(jobs))
        /\ Cardinality(present(jobs')) <= Cardinality(present(jobs))
    BY <1>1, <1>2, <2>1, FS_Subset
  <2>3. /\ Cardinality(activeJobs(jobs)) \in Nat /\ Cardinality(present(jobs)) \in Nat
        /\ Cardinality(activeJobs(jobs')) \in Nat /\ Cardinality(present(jobs')) \in Nat
    BY <1>1, <1>2
  <2> QED
    BY <1>1, <2>2, <2>3 DEF ListBounded
<1>4. ASSUME NEW j \in JobIds, NEW id \in JobIds \cup {NoJob}, NEW c \in Configs, Saved(j, id, c)
      PROVE  ListBounded'
  <2> DEFINE old == activeJobs(jobs) \ {id}
             new == activeJobs(jobs')
             done == present(jobs') \ activeJobs(jobs')
  <2>1. new \subseteq old \cup {j} /\ Cardinality(old) < Limit /\ Cardinality(done) <= Keep
    <3>1. /\ new = (activeJobs(jobs) \ {j}) \cup {j}
          /\ Cardinality(done) <= Keep /\ Cardinality(old) < Limit
      BY <1>4, SavedFacts
    <3>2. activeJobs(jobs) \ {j} \subseteq old
      BY <1>1, <1>4, JobAssumption DEF Saved
    <3> QED
      BY <3>1, <3>2
  <2>2. present(jobs') = new \cup done
    BY DEF present, activeJobs, isActive
  <2>3. old \in SUBSET JobIds /\ new \in SUBSET JobIds /\ done \in SUBSET JobIds
    BY <1>1
  <2> HIDE DEF old, new, done
  <2>4. Cardinality(old \cup {j}) <= Cardinality(old) + 1
    BY <1>2, <2>3, FS_AddElement
  <2>5. Cardinality(new) <= Cardinality(old \cup {j})
    BY <1>2, <2>1, <2>3, FS_Subset
  <2>6. Cardinality(new) <= Limit
    BY <1>1, <1>2, <2>1, <2>3, <2>4, <2>5
  <2>7. Cardinality(new \cup done) <= Cardinality(new) + Cardinality(done)
    <3>1. Cardinality(new \cup done)
            = Cardinality(new) + Cardinality(done) - Cardinality(new \cap done)
      BY <1>2, <2>3, FS_Union
    <3>2. /\ Cardinality(new \cap done) \in Nat
          /\ Cardinality(new) \in Nat /\ Cardinality(done) \in Nat
      <4>1. new \cap done \in SUBSET JobIds
        BY <2>3
      <4> QED
        BY <1>2, <2>3, <4>1
    <3> QED
      BY <3>1, <3>2
  <2> QED
    BY <1>1, <1>2, <2>1, <2>2, <2>3, <2>6, <2>7 DEF ListBounded, new
<1> QED
  BY <1>3, <1>4

-----------------------------------------------------------------------------
(* Invariance *)

\* The inductive invariant: both properties of the list need only the types besides
\* themselves, since nothing but a save makes a job active.
IInv == TypeInv /\ NoOverlap /\ ListBounded

\* A step that leaves the list alone keeps both properties of it.
LEMMA ListKept == ASSUME TypeInv, jobs' = jobs PROVE Shrinks
BY DEF Shrinks

\* The list starts empty.
LEMMA InitInvariant == Init => IInv
<1> SUFFICES ASSUME Init PROVE IInv
  OBVIOUS
<1>1. StorageOK
  <2>1. Off \in Nat /\ Absent \in Entries
    BY OffLate DEF Entries
  <2> QED
    BY <2>1 DEF Init, StorageOK, Entries
<1>2. QueuesOK
  BY JobPositionFacts, SupPositionFacts, FreshQueues DEF Init, QueuesOK
<1>3. RunsOK
  BY PageFacts, NoRunType DEF Init, RunsOK
<1>4. CountersOK
  BY JobAssumption DEF Init, CountersOK
<1>5. Capacity
  BY SupPositionFacts DEF Init, Capacity
<1>6. activeJobs(jobs) = {} /\ present(jobs) = {}
  BY DEF Init, activeJobs, present, isActive, Absent
<1>7. ListBounded
  BY <1>6, FS_EmptySet, JobAssumption DEF ListBounded
<1> QED
  BY <1>1, <1>2, <1>3, <1>4, <1>5, <1>6, <1>7 DEF IInv, TypeInv, TypeOK, NoOverlap

\* Every step of the jobs queue keeps the types and changes the list as it may.
LEMMA JobSteps ==
  TypeInv /\ JobStep =>
    TypeInv' /\ (\/ Shrinks
                 \/ \E j \in JobIds, id \in JobIds \cup {NoJob}, c \in Configs : Saved(j, id, c))
<1>1. TypeInv /\ (Arm \/ Disarm \/ Rearm) => jobs' = jobs
  BY DEF Arm, Disarm, Rearm
<1> QED
  BY <1>1, ListKept, ArmTypes, DisarmTypes, RearmTypes, SaveTypes, DeleteShrinks, AlarmShrinks,
     AnsweredShrinks, ReconcileShrinks, FinishShrinks
  DEF JobStep

\* Every step of the supervisor's queue keeps the types and the list.
LEMMA SupSteps == TypeInv /\ SupStep => TypeInv' /\ Shrinks
<1>1. TypeInv /\ SupStep => jobs' = jobs
  BY DEF SupStep, StartRefused, StartBegins, StartSucceeds, StartFails, OutcomeTask,
         CompleteTask, InterruptTask, BootTask, Effects, Mark, jobSide
<1> QED
  BY <1>1, ListKept, RefusedTypes, BeginsTypes, SucceedsTypes, FailsTypes, OutcomeTypes,
     CompleteTypes, InterruptTypes, BootTypes, EffectsTypes, MarkTypes
  DEF SupStep

\* The steps of the page, the user, Chrome and the clock.
OutsideStep ==
  \/ PageEnds \/ PageReports \/ UserStarts \/ UserClosesTab \/ Crash \/ Restart \/ Tick
  \/ \E j \in JobIds \cup {NoJob}, c \in Configs : UserSaves(j, c)
  \/ \E j \in JobIds : UserDeletes(j) \/ AlarmFires(j) \/ AlarmAdmitted(j)

\* They keep the types and the list, too.
LEMMA OutsideSteps == TypeInv /\ OutsideStep => TypeInv' /\ Shrinks
<1>1. TypeInv /\ OutsideStep => jobs' = jobs
  BY DEF OutsideStep, PageEnds, PageReports, UserStarts, UserClosesTab, Crash, Restart, Tick,
         UserSaves, UserDeletes, AlarmFires, AlarmAdmitted, jobSide
<1> QED
  BY <1>1, ListKept, EndsTypes, ReportsTypes, StartsTypes, ClosesTypes, CrashTypes, RestartTypes,
     TickTypes, SavesTypes, DeletesTypes, FiresTypes, AdmittedTypes
  DEF OutsideStep

\* A stutter changes nothing the invariant looks at.
LEMMA Stutters == TypeInv /\ UNCHANGED vars => TypeInv' /\ Shrinks
<1> SUFFICES ASSUME TypeInv, UNCHANGED vars PROVE TypeInv' /\ Shrinks
  OBVIOUS
<1> USE DEF vars, jobSide, supSide, bounds, history, TypeInv, TypeOK
<1>1. StorageOK' /\ QueuesOK'
  BY DEF StorageOK, QueuesOK
<1>2. RunsOK' /\ CountersOK' /\ Capacity'
  BY DEF RunsOK, CountersOK, Capacity
<1>3. Shrinks
  BY ListKept
<1> QED
  BY <1>1, <1>2, <1>3

\* Every step keeps the invariant.
LEMMA NextInvariant == IInv /\ [Next]_vars => IInv'
<1> SUFFICES ASSUME IInv, [Next]_vars PROVE IInv'
  OBVIOUS
<1>1. TypeInv' /\ (\/ Shrinks
                   \/ \E j \in JobIds, id \in JobIds \cup {NoJob}, c \in Configs : Saved(j, id, c))
  BY JobSteps, SupSteps, OutsideSteps, Stutters DEF IInv, Next, OutsideStep
<1> QED
  BY <1>1, OverlapKept, BoundKept DEF IInv

\* The invariant holds in every reachable state.
LEMMA Invariant == Spec => []IInv
BY InitInvariant, NextInvariant, PTL DEF Spec

-----------------------------------------------------------------------------
(* What follows from the invariant *)

\* Every variable has its type, whatever the user, Chrome and the page do.
THEOREM TypeCorrect == Spec => []TypeOK
<1>1. IInv => TypeOK
  BY DEF IInv, TypeInv
<1> QED
  BY <1>1, Invariant, PTL

\* Two jobs that wait or run never have overlapping windows, in any interleaving of saves,
\* alarms, ends, crashes and restarts (scheduleJob, reconcileJobs, transition).
THEOREM WindowsDisjoint == Spec => []NoOverlap
<1>1. IInv => NoOverlap
  BY DEF IInv
<1> QED
  BY <1>1, Invariant, PTL

\* The stored list stays within its two limits (scheduleJob, pruneFinished).
THEOREM ListStaysBounded == Spec => []ListBounded
<1>1. IInv => ListBounded
  BY DEF IInv
<1> QED
  BY <1>1, Invariant, PTL

-----------------------------------------------------------------------------
(* The story of a job: when it may be launched, when it is told missed, when its end is
   marked.  Behind it stand the places a launch, a repair of the list and the end of a job
   can be in the two queues. *)

awaits(j) == \E n \in DOMAIN sq : sq[n].op = "launch" /\ sq[n].job = j
OneLaunch == \A m, n \in DOMAIN sq :
               /\ sq[m].op = "launch" /\ sq[m].job # NoJob
               /\ sq[n].op = "launch" /\ sq[n].job # NoJob
               => m = n

reconciling == \E n \in DOMAIN jq : jq[n].op = "reconcile"
ReconcileFirst == \A n \in DOMAIN jq : jq[n].op = "reconcile" => n = 1
finishes(j) == \E n \in DOMAIN jq : jq[n].op = "finish" /\ jq[n].job = j
OneFinish == \A m, n \in DOMAIN jq : jq[m].op = "finish" /\ jq[n].op = "finish" => m = n

plays(j) == page.stage = "playing" /\ page.rev = jobs[j].rev
told == run.job = NoJob \/ jobs[run.job].rev # run.rev \/ jobs[run.job].status = "finished"

\* Revisions are drawn once, and none lies ahead.
RevisionsOK ==
  /\ \A j \in JobIds : jobs[j].rev <= saves
  /\ \A i, j \in present(jobs) : i # j => jobs[i].rev # jobs[j].rev
  /\ run.rev <= saves /\ st.rev <= saves /\ page.rev <= saves
  /\ run.job # NoJob => run.rev # 0
  /\ st.job = NoJob => st.rev = 0

\* The launch of a job, in the supervisor's queue or under way, is waited for.
LaunchesOK ==
  /\ OneLaunch
  /\ jt.pc = "launching" => jt.job \in JobIds /\ jobs[jt.job].status = "running"
  /\ \A j \in JobIds : awaits(j) \/ (st.pc = "starting" /\ st.job = j) =>
       jt.pc = "launching" /\ jt.job = j /\ jt.reply = "none"
  /\ st.pc = "starting" /\ st.job # NoJob => ~awaits(st.job) /\ st.rev = jobs[st.job].rev

\* The list is reconciled first of all after a restart, before any job is played again.
ReconcileOK ==
  /\ ReconcileFirst
  /\ reconciling => jt.pc = "idle" /\ page.rev = 0

\* What may still be launched was launched in earlier lives of Chrome only.
mayLaunch(j) ==
  \/ jobs[j].status = "scheduled"
  \/ jobs[j].status = "running" /\ (reconciling \/ awaits(j))

CountsOK ==
  /\ \A j \in present(jobs) : mayLaunch(j) => launches[jobs[j].rev] <= restarts
  /\ \A r \in 1..MaxSaves : launches[r] <= 1 + restarts
  /\ \A r \in 1..MaxSaves : r > saves => launches[r] = 0

\* No attempt of a job is at work while the job waits, is told missed, or may be told so.
PlaysOK ==
  /\ \A j \in present(jobs) : jobs[j].status \in {"scheduled", "missed"} => ~plays(j)
  /\ jt.pc = "launching" /\ jt.reply # "ok" => ~plays(jt.job)

\* The effects of a run end its job before they are marked.
EffectsOK ==
  /\ run.done => run.status # "running"
  /\ st.pc \in {"effects", "waiting", "mark"} => run.status = "terminal"
  /\ run.status = "terminal" /\ run.done => told
  /\ st.pc = "mark" => told
  /\ OneFinish
  /\ \A j \in JobIds : finishes(j) => st.pc = "waiting" /\ run.job = j

StoryInv == RevisionsOK /\ LaunchesOK /\ ReconcileOK /\ CountsOK /\ PlaysOK /\ EffectsOK

\* Nothing came into a queue but what the story does not look at.
JobQueueKept ==
  /\ ReconcileFirst' /\ OneFinish' /\ (reconciling' => reconciling)
  /\ \A j \in JobIds : finishes(j)' => finishes(j)
SupQueueKept == OneLaunch' /\ \A j \in JobIds : awaits(j)' => awaits(j)

-----------------------------------------------------------------------------
(* The queues *)

\* Where the elements of a jobs queue are after its head was taken, or a task was added.
LEMMA JobIndices ==
  ASSUME NEW q \in Seq(JobTasks)
  PROVE  /\ q # <<>> => /\ 1 \in DOMAIN q /\ Head(q) = q[1]
                        /\ \A n \in DOMAIN Tail(q) : n \in Nat /\ n + 1 \in DOMAIN q /\ n # 0
                                                     /\ Tail(q)[n] = q[n + 1]
         /\ \A m \in JobTasks :
              /\ \A n \in DOMAIN Append(q, m) : \/ n \in DOMAIN q /\ Append(q, m)[n] = q[n]
                                                \/ n = Len(q) + 1 /\ Append(q, m)[n] = m
              /\ \A n \in DOMAIN q : n \in DOMAIN Append(q, m) /\ Append(q, m)[n] = q[n]
<1>1. DOMAIN q = 1..Len(q) /\ Len(q) \in Nat
  OBVIOUS
<1>2. ASSUME q # <<>>
      PROVE  /\ 1 \in DOMAIN q /\ Head(q) = q[1]
             /\ \A n \in DOMAIN Tail(q) : n \in Nat /\ n + 1 \in DOMAIN q /\ n # 0
                                          /\ Tail(q)[n] = q[n + 1]
  <2>1. 1 \in DOMAIN q /\ Head(q) = q[1]
    BY <1>1, <1>2, EmptySeq
  <2>2. /\ Tail(q) \in Seq(JobTasks) /\ Len(Tail(q)) = Len(q) - 1
        /\ \A i \in 1..Len(Tail(q)) : Tail(q)[i] = q[i + 1]
    BY <1>2, HeadTailProperties
  <2>3. DOMAIN Tail(q) = 1..Len(Tail(q))
    BY <2>2
  <2> QED
    BY <1>1, <2>1, <2>2, <2>3
<1>3. ASSUME NEW m \in JobTasks
      PROVE  /\ \A n \in DOMAIN Append(q, m) : \/ n \in DOMAIN q /\ Append(q, m)[n] = q[n]
                                               \/ n = Len(q) + 1 /\ Append(q, m)[n] = m
             /\ \A n \in DOMAIN q : n \in DOMAIN Append(q, m) /\ Append(q, m)[n] = q[n]
  BY <1>1, AppendProperties
<1> QED
  BY <1>2, <1>3

\* The same for the supervisor's queue.
LEMMA SupIndices ==
  ASSUME NEW q \in Seq(SupTasks)
  PROVE  /\ q # <<>> => /\ 1 \in DOMAIN q /\ Head(q) = q[1]
                        /\ \A n \in DOMAIN Tail(q) : n \in Nat /\ n + 1 \in DOMAIN q /\ n # 0
                                                     /\ Tail(q)[n] = q[n + 1]
         /\ \A m \in SupTasks :
              /\ \A n \in DOMAIN Append(q, m) : \/ n \in DOMAIN q /\ Append(q, m)[n] = q[n]
                                                \/ n = Len(q) + 1 /\ Append(q, m)[n] = m
              /\ \A n \in DOMAIN q : n \in DOMAIN Append(q, m) /\ Append(q, m)[n] = q[n]
<1>1. DOMAIN q = 1..Len(q) /\ Len(q) \in Nat
  OBVIOUS
<1>2. ASSUME q # <<>>
      PROVE  /\ 1 \in DOMAIN q /\ Head(q) = q[1]
             /\ \A n \in DOMAIN Tail(q) : n \in Nat /\ n + 1 \in DOMAIN q /\ n # 0
                                          /\ Tail(q)[n] = q[n + 1]
  <2>1. 1 \in DOMAIN q /\ Head(q) = q[1]
    BY <1>1, <1>2, EmptySeq
  <2>2. /\ Tail(q) \in Seq(SupTasks) /\ Len(Tail(q)) = Len(q) - 1
        /\ \A i \in 1..Len(Tail(q)) : Tail(q)[i] = q[i + 1]
    BY <1>2, HeadTailProperties
  <2>3. DOMAIN Tail(q) = 1..Len(Tail(q))
    BY <2>2
  <2> QED
    BY <1>1, <2>1, <2>2, <2>3
<1>3. ASSUME NEW m \in SupTasks
      PROVE  /\ \A n \in DOMAIN Append(q, m) : \/ n \in DOMAIN q /\ Append(q, m)[n] = q[n]
                                               \/ n = Len(q) + 1 /\ Append(q, m)[n] = m
             /\ \A n \in DOMAIN q : n \in DOMAIN Append(q, m) /\ Append(q, m)[n] = q[n]
  BY <1>1, AppendProperties
<1> QED
  BY <1>2, <1>3

\* A task of the jobs queue is taken: what else was in it is still there, but no repair,
\* which is the first when there is one, and after the end of a job no other.
LEMMA JobTaken ==
  ASSUME TypeInv, StoryInv, jq # <<>>, jq' = Tail(jq)
  PROVE  /\ JobQueueKept /\ ~reconciling'
         /\ Head(jq).op # "reconcile" => ~reconciling
         /\ Head(jq) \in JobTasks
         /\ Head(jq).op = "finish" => /\ finishes(Head(jq).job) /\ Head(jq).job \in JobIds
                                      /\ \A j \in JobIds : ~finishes(j)'
<1>1. jq \in Seq(JobTasks) /\ ReconcileFirst /\ OneFinish
  BY DEF TypeInv, TypeOK, QueuesOK, StoryInv, ReconcileOK, EffectsOK
<1>2. /\ 1 \in DOMAIN jq /\ Head(jq) = jq[1]
      /\ \A n \in DOMAIN jq' : n \in Nat /\ n + 1 \in DOMAIN jq /\ n # 0 /\ jq'[n] = jq[n + 1]
  BY <1>1, JobIndices
<1>3. \A n \in DOMAIN jq' : n + 1 # 1
  BY <1>2
<1>4. ~reconciling' /\ ReconcileFirst'
  BY <1>1, <1>2, <1>3 DEF reconciling, ReconcileFirst
<1>5. Head(jq).op # "reconcile" => ~reconciling
  BY <1>1, <1>2 DEF reconciling, ReconcileFirst
<1>6. OneFinish'
  <2> SUFFICES ASSUME NEW m \in DOMAIN jq', NEW n \in DOMAIN jq',
                      jq'[m].op = "finish", jq'[n].op = "finish"
               PROVE  m = n
    BY DEF OneFinish
  <2>1. m + 1 = n + 1 /\ m \in Nat /\ n \in Nat
    BY <1>1, <1>2 DEF OneFinish
  <2> QED
    BY <2>1
<1>7. \A j \in JobIds : finishes(j)' => finishes(j)
  BY <1>2 DEF finishes
<1>8. Head(jq) \in JobTasks
  BY <1>1, JobQueueFacts
<1>9. ASSUME Head(jq).op = "finish"
      PROVE  /\ finishes(Head(jq).job) /\ Head(jq).job \in JobIds
             /\ \A j \in JobIds : ~finishes(j)'
  <2>1. Head(jq).job \in JobIds
    BY <1>8, <1>9, TaskFields
  <2>2. finishes(Head(jq).job)
    BY <1>2, <1>9 DEF finishes
  <2>3. \A n \in DOMAIN jq' : jq'[n].op # "finish"
    BY <1>1, <1>2, <1>3, <1>9 DEF OneFinish
  <2> QED
    BY <2>1, <2>2, <2>3 DEF finishes
<1> QED
  BY <1>4, <1>5, <1>6, <1>7, <1>8, <1>9 DEF JobQueueKept

\* A task other than a repair or the end of a job is added to the jobs queue.
LEMMA JobAdded ==
  ASSUME TypeInv, StoryInv, NEW m \in JobTasks, jq' = Append(jq, m), m.op # "reconcile"
  PROVE  /\ ReconcileFirst' /\ (reconciling' => reconciling)
         /\ \A j \in JobIds : finishes(j)' => finishes(j) \/ (m.op = "finish" /\ m.job = j)
         /\ m.op # "finish" \/ (\A j \in JobIds : ~finishes(j)) => OneFinish'
<1>1. jq \in Seq(JobTasks) /\ ReconcileFirst /\ OneFinish
  BY DEF TypeInv, TypeOK, QueuesOK, StoryInv, ReconcileOK, EffectsOK
<1>2. \A n \in DOMAIN jq' : \/ n \in DOMAIN jq /\ jq'[n] = jq[n]
                            \/ n = Len(jq) + 1 /\ jq'[n] = m
  BY <1>1, JobIndices
<1>3. ReconcileFirst' /\ (reconciling' => reconciling)
  BY <1>1, <1>2 DEF reconciling, ReconcileFirst
<1>4. \A j \in JobIds : finishes(j)' => finishes(j) \/ (m.op = "finish" /\ m.job = j)
  BY <1>2 DEF finishes
<1>5. ASSUME m.op # "finish" \/ \A j \in JobIds : ~finishes(j)
      PROVE  OneFinish'
  <2>1. CASE m.op # "finish"
    BY <1>1, <1>2, <2>1 DEF OneFinish
  <2>2. CASE \A j \in JobIds : ~finishes(j)
    <3>1. \A n \in DOMAIN jq : jq[n].op # "finish"
      <4> SUFFICES ASSUME NEW n \in DOMAIN jq, jq[n].op = "finish" PROVE FALSE
        OBVIOUS
      <4>1. jq[n] \in JobTasks
        BY <1>1
      <4>2. jq[n].job \in JobIds
        BY <4>1, TaskFields
      <4> QED
        BY <2>2, <4>2 DEF finishes
    <3> QED
      BY <1>2, <3>1 DEF OneFinish
  <2> QED
    BY <1>5, <2>1, <2>2
<1> QED
  BY <1>3, <1>4, <1>5

\* A task of the supervisor's queue is taken; after the launch of a job no other is there.
LEMMA SupTaken ==
  ASSUME TypeInv, StoryInv, sq # <<>>, sq' = Tail(sq)
  PROVE  /\ SupQueueKept
         /\ Head(sq) \in SupTasks
         /\ Head(sq).op = "launch" /\ Head(sq).job # NoJob =>
              /\ awaits(Head(sq).job) /\ Head(sq).job \in JobIds
              /\ \A j \in JobIds : ~awaits(j)'
<1>1. sq \in Seq(SupTasks) /\ OneLaunch
  BY DEF TypeInv, TypeOK, QueuesOK, StoryInv, LaunchesOK
<1>2. /\ 1 \in DOMAIN sq /\ Head(sq) = sq[1]
      /\ \A n \in DOMAIN sq' : n \in Nat /\ n + 1 \in DOMAIN sq /\ n # 0 /\ sq'[n] = sq[n + 1]
  BY <1>1, SupIndices
<1>3. \A n \in DOMAIN sq' : n + 1 # 1
  BY <1>2
<1>4. OneLaunch'
  <2> SUFFICES ASSUME NEW m \in DOMAIN sq', NEW n \in DOMAIN sq',
                      sq'[m].op = "launch", sq'[m].job # NoJob,
                      sq'[n].op = "launch", sq'[n].job # NoJob
               PROVE  m = n
    BY DEF OneLaunch
  <2>1. m + 1 = n + 1 /\ m \in Nat /\ n \in Nat
    BY <1>1, <1>2 DEF OneLaunch
  <2> QED
    BY <2>1
<1>5. \A j \in JobIds : awaits(j)' => awaits(j)
  BY <1>2 DEF awaits
<1>6. Head(sq) \in SupTasks
  BY <1>1, SupQueueFacts
<1>7. ASSUME Head(sq).op = "launch", Head(sq).job # NoJob
      PROVE  /\ awaits(Head(sq).job) /\ Head(sq).job \in JobIds
             /\ \A j \in JobIds : ~awaits(j)'
  <2>1. Head(sq).job \in JobIds
    BY <1>6, <1>7, SupTaskFields
  <2>2. awaits(Head(sq).job)
    BY <1>2, <1>7 DEF awaits
  <2>3. \A n \in DOMAIN sq' : sq'[n].op = "launch" => sq'[n].job = NoJob
    BY <1>1, <1>2, <1>3, <1>7 DEF OneLaunch
  <2> QED
    BY <2>1, <2>2, <2>3, JobAssumption DEF awaits
<1> QED
  BY <1>4, <1>5, <1>6, <1>7 DEF SupQueueKept

\* A task is added to the supervisor's queue.
LEMMA SupAdded ==
  ASSUME TypeInv, StoryInv, NEW m \in SupTasks, sq' = Append(sq, m)
  PROVE  /\ \A j \in JobIds : awaits(j)' => awaits(j) \/ (m.op = "launch" /\ m.job = j)
         /\ m.op = "launch" /\ m.job # NoJob => \A j \in JobIds : m.job = j => awaits(j)'
         /\ \/ m.op # "launch" \/ m.job = NoJob
            \/ \A j \in JobIds : ~awaits(j)
            => OneLaunch'
<1>1. sq \in Seq(SupTasks) /\ OneLaunch
  BY DEF TypeInv, TypeOK, QueuesOK, StoryInv, LaunchesOK
<1>2. \A n \in DOMAIN sq' : \/ n \in DOMAIN sq /\ sq'[n] = sq[n]
                            \/ n = Len(sq) + 1 /\ sq'[n] = m
  BY <1>1, SupIndices
<1>3. \A j \in JobIds : awaits(j)' => awaits(j) \/ (m.op = "launch" /\ m.job = j)
  BY <1>2 DEF awaits
<1>4. Len(sq) + 1 \in DOMAIN sq' /\ sq'[Len(sq) + 1] = m
  <2>1. Len(sq) \in Nat /\ Len(sq') = Len(sq) + 1 /\ sq' \in Seq(SupTasks)
        /\ sq'[Len(sq) + 1] = m
    BY <1>1, AppendProperties
  <2>2. DOMAIN sq' = 1..Len(sq')
    BY <2>1
  <2> QED
    BY <2>1, <2>2
<1>5. m.op = "launch" => \A j \in JobIds : m.job = j => awaits(j)'
  BY <1>4 DEF awaits
<1>6. ASSUME m.op # "launch" \/ m.job = NoJob \/ \A j \in JobIds : ~awaits(j)
      PROVE  OneLaunch'
  <2>1. CASE m.op # "launch" \/ m.job = NoJob
    BY <1>1, <1>2, <2>1 DEF OneLaunch
  <2>2. CASE \A j \in JobIds : ~awaits(j)
    <3>1. \A n \in DOMAIN sq : sq[n].op = "launch" => sq[n].job = NoJob
      <4> SUFFICES ASSUME NEW n \in DOMAIN sq, sq[n].op = "launch", sq[n].job # NoJob
                   PROVE FALSE
        OBVIOUS
      <4>1. sq[n] \in SupTasks
        BY <1>1
      <4>2. sq[n].job \in JobIds
        BY <4>1, SupTaskFields
      <4> QED
        BY <2>2, <4>2 DEF awaits
    <3> QED
      BY <1>2, <3>1 DEF OneLaunch
  <2> QED
    BY <1>6, <2>1, <2>2
<1> QED
  BY <1>3, <1>5, <1>6

\* Queues that do not change keep what the story says of them.
LEMMA QueuesSame ==
  ASSUME StoryInv
  PROVE  /\ jq' = jq => JobQueueKept /\ (\A j \in JobIds : finishes(j)' <=> finishes(j))
                        /\ (reconciling' <=> reconciling)
         /\ sq' = sq => SupQueueKept /\ \A j \in JobIds : awaits(j)' <=> awaits(j)
BY DEF StoryInv, LaunchesOK, ReconcileOK, EffectsOK, JobQueueKept, SupQueueKept,
       ReconcileFirst, OneFinish, reconciling, finishes, OneLaunch, awaits

\* A task that is no launch of a job is added to the supervisor's queue.
LEMMA SupAddedPlain ==
  ASSUME TypeInv, StoryInv, NEW m \in SupTasks, sq' = Append(sq, m), m.op # "launch" \/ m.job = NoJob
  PROVE  SupQueueKept
BY SupAdded, JobAssumption DEF SupQueueKept

\* The numbers the story compares.
LEMMA Numbers ==
  ASSUME TypeInv
  PROVE  /\ jobs \in [JobIds -> Entries]
         /\ \A j \in JobIds : jobs[j].rev \in Nat
         /\ \A j \in present(jobs) : j \in JobIds /\ jobs[j].rev \in 1..MaxSaves
         /\ saves \in Nat /\ restarts \in Nat /\ MaxSaves \in Nat
         /\ run.rev \in Nat /\ st.rev \in Nat /\ page.rev \in Nat
         /\ \A r \in 1..MaxSaves : launches[r] \in Nat
         /\ Absent.rev = 0 /\ Absent.status = "none"
         /\ NoJob \notin JobIds
<1>1. jobs \in [JobIds -> Entries]
  BY DEF TypeInv, TypeOK, StorageOK, Entries
<1>2. \A j \in present(jobs) : j \in JobIds /\ jobs[j].rev \in 1..MaxSaves
  BY <1>1 DEF present, Entries, Absent, StoredJobs
<1>3. \A j \in JobIds : jobs[j].rev \in Nat
  BY <1>1, EntryFields
<1>4. saves \in Nat /\ restarts \in Nat /\ MaxSaves \in Nat
  BY JobAssumption DEF TypeInv, TypeOK, CountersOK
<1>5. run.rev \in Nat /\ st.rev \in Nat /\ page.rev \in Nat
  <2>1. run \in StoredRuns /\ page \in Pages /\ st \in SupPositions
    BY DEF TypeInv, TypeOK, RunsOK, QueuesOK
  <2> QED
    BY <2>1 DEF StoredRuns, Pages, SupPositions
<1>6. \A r \in 1..MaxSaves : launches[r] \in Nat
  BY DEF TypeInv, TypeOK, CountersOK
<1> QED
  BY <1>1, <1>2, <1>3, <1>4, <1>5, <1>6, JobAssumption DEF Absent

-----------------------------------------------------------------------------
(* Steps that leave the list alone *)

\* No attempt of a revision is at work after the step that was not before.
PageFades == /\ page'.rev \in {page.rev, 0}
             /\ page'.stage = "playing" => page.stage = "playing" /\ page'.rev = page.rev

\* A step that leaves the jobs and the run alone, and no launch behind, keeps the story.
LEMMA Quiet ==
  ASSUME TypeInv, StoryInv, UNCHANGED <<jobs, st, run, launches, restarts>>,
         jt' = jt \/ (jt.pc # "launching" /\ jt' = jobIdle),
         saves' \in Nat, saves <= saves', PageFades, JobQueueKept, SupQueueKept
  PROVE  StoryInv'
<1>0. /\ RevisionsOK /\ LaunchesOK /\ ReconcileOK /\ CountsOK /\ PlaysOK /\ EffectsOK
  BY DEF StoryInv
<1>1. jobIdle.pc = "idle"
  BY DEF jobIdle
<1>2. RevisionsOK'
  <2>1. page'.rev <= saves' /\ run.rev <= saves' /\ st.rev <= saves'
    BY <1>0, Numbers DEF RevisionsOK, PageFades
  <2>2. \A j \in JobIds : jobs[j].rev <= saves'
    BY <1>0, Numbers DEF RevisionsOK
  <2> QED
    BY <1>0, <2>1, <2>2 DEF RevisionsOK, present
<1>3. LaunchesOK'
  <2>1. OneLaunch' /\ \A j \in JobIds : awaits(j)' => awaits(j)
    BY DEF SupQueueKept
  <2>2. CASE jt' = jt
    <3>1. /\ jt'.pc = "launching" => jt'.job \in JobIds /\ jobs'[jt'.job].status = "running"
          /\ \A j \in JobIds : awaits(j)' \/ (st'.pc = "starting" /\ st'.job = j) =>
               jt'.pc = "launching" /\ jt'.job = j /\ jt'.reply = "none"
      BY <1>0, <2>1, <2>2 DEF LaunchesOK
    <3>2. (st.pc = "starting" /\ st.job # NoJob => ~awaits(st.job) /\ st.rev = jobs[st.job].rev)'
      <4>1. PICK j : j = st.job
        OBVIOUS
      <4>2. j # NoJob => j \in JobIds
        BY <4>1 DEF TypeInv, TypeOK, QueuesOK, SupPositions
      <4>3. st.pc = "starting" /\ j # NoJob => ~awaits(j) /\ st.rev = jobs[j].rev
        BY <1>0, <4>1 DEF LaunchesOK
      <4>4. st.pc = "starting" /\ j # NoJob => ~awaits(j)' /\ st.rev = jobs[j].rev
        BY <2>1, <4>2, <4>3
      <4> QED
        BY <4>1, <4>4 DEF awaits
    <3> QED
      BY <2>1, <3>1, <3>2 DEF LaunchesOK
  <2>3. CASE jt.pc # "launching" /\ jt' = jobIdle
    <3>1. \A j \in JobIds : ~awaits(j) /\ ~(st.pc = "starting" /\ st.job = j)
      BY <1>0, <2>3 DEF LaunchesOK
    <3>2. st.job # NoJob => st.job \in JobIds
      BY DEF TypeInv, TypeOK, QueuesOK, SupPositions
    <3> QED
      BY <1>1, <2>1, <2>3, <3>1, <3>2 DEF LaunchesOK
  <2> QED
    BY <2>2, <2>3
<1>4. ReconcileOK'
  BY <1>0, <1>1 DEF ReconcileOK, JobQueueKept, PageFades
<1>5. CountsOK'
  <2>1. \A j \in JobIds : mayLaunch(j)' => mayLaunch(j)
    BY DEF mayLaunch, JobQueueKept, SupQueueKept
  <2>2. \A j \in present(jobs) : mayLaunch(j)' => launches[jobs[j].rev] <= restarts
    BY <1>0, <2>1 DEF CountsOK, present
  <2>3. \A r \in 1..MaxSaves : r > saves' => launches[r] = 0
    BY <1>0, Numbers DEF CountsOK
  <2> QED
    BY <1>0, <2>2, <2>3 DEF CountsOK, present
<1>6. PlaysOK'
  <2>1. \A j : plays(j)' => plays(j)
    BY DEF plays, PageFades
  <2> QED
    BY <1>0, <1>1, <2>1 DEF PlaysOK, present
<1>7. EffectsOK'
  BY <1>0 DEF EffectsOK, told, JobQueueKept
<1> QED
  BY <1>2, <1>3, <1>4, <1>5, <1>6, <1>7 DEF StoryInv

\* A step of the supervisor that is about the run alone keeps all of the story but the
\* effects.
LEMMA RunStepKeeps ==
  ASSUME TypeInv, StoryInv, UNCHANGED <<jobs, jt, launches, restarts, saves, page>>,
         st'.pc # "starting", st'.rev = 0 \/ st'.rev = st.rev, st'.job = NoJob => st'.rev = 0,
         run'.job = run.job, run'.rev = run.rev, JobQueueKept, SupQueueKept
  PROVE  EffectsOK' => StoryInv'
<1>0. /\ RevisionsOK /\ LaunchesOK /\ ReconcileOK /\ CountsOK /\ PlaysOK /\ EffectsOK
  BY DEF StoryInv
<1>1. RevisionsOK'
  BY <1>0, Numbers DEF RevisionsOK, present
<1>2. LaunchesOK'
  BY <1>0 DEF LaunchesOK, SupQueueKept
<1>3. ReconcileOK'
  BY <1>0 DEF ReconcileOK, JobQueueKept
<1>4. CountsOK'
  <2>1. \A j \in JobIds : mayLaunch(j)' => mayLaunch(j)
    BY DEF mayLaunch, JobQueueKept, SupQueueKept
  <2> QED
    BY <1>0, <2>1 DEF CountsOK, present
<1>5. PlaysOK'
  BY <1>0 DEF PlaysOK, present, plays
<1> QED
  BY <1>1, <1>2, <1>3, <1>4, <1>5 DEF StoryInv

\* Where the supervisor goes in such a step.
LEMMA SupGoes ==
  /\ supIdle.pc = "idle" /\ supIdle.rev = 0 /\ supIdle.job = NoJob
  /\ supDone => st'.pc = "idle" /\ st'.rev = 0 /\ st'.job = NoJob
  /\ \A p \in {"effects", "waiting", "mark"} :
       supGoto(p) => st'.pc = p /\ st'.rev = 0 /\ st'.job = NoJob
BY DEF supIdle, supDone, supGoto

\* The outcome of an attempt ends the run.
LEMMA OutcomeStory == TypeInv /\ StoryInv /\ OutcomeTask => StoryInv'
<1> SUFFICES ASSUME TypeInv, StoryInv, OutcomeTask PROVE StoryInv'
  OBVIOUS
<1>0. EffectsOK /\ RevisionsOK /\ run \in StoredRuns
  BY DEF StoryInv, TypeInv, TypeOK, RunsOK
<1>1. /\ UNCHANGED <<jobs, jt, jq, launches, restarts, saves, page, st>>
      /\ st.pc = "idle" /\ sq # <<>>
      /\ \/ run.status = "running" /\ run' = [run EXCEPT !.status = "terminal"]
            /\ sq' = Append(Tail(sq), supTask("complete", NoJob, 0))
         \/ run' = run /\ sq' = Tail(sq)
  BY DEF OutcomeTask, jobSide, bounds, history
<1>2. run'.job = run.job /\ run'.rev = run.rev /\ run'.done = run.done
  BY <1>0, <1>1 DEF StoredRuns
<1>3. run' = run \/ (run.status = "running" /\ run'.status = "terminal")
  BY <1>0, <1>1 DEF StoredRuns
<1>4. SupQueueKept
  <2>1. CASE sq' = Tail(sq)
    BY <1>1, <2>1, SupTaken
  <2>2. CASE sq' = Append(Tail(sq), supTask("complete", NoJob, 0))
    <3>1. sq \in Seq(SupTasks) /\ OneLaunch
      BY DEF TypeInv, TypeOK, QueuesOK, StoryInv, LaunchesOK
    <3>2. PICK t : t = Tail(sq)
      OBVIOUS
    <3>3. PICK m : m = supTask("complete", NoJob, 0)
      OBVIOUS
    <3>4. m \in SupTasks /\ m.op = "complete"
      <4>1. 0 \in 0..MaxRuns
        BY JobAssumption
      <4>2. supTask("complete", NoJob, 0) \in SupTasks
        BY <4>1, TaskTypes
      <4> QED
        BY <3>3, <4>2 DEF supTask
    <3>5. t \in Seq(SupTasks)
      BY <1>1, <3>1, <3>2, SupQueueFacts
    <3>6. \A n \in DOMAIN t : n \in Nat /\ n + 1 \in DOMAIN sq /\ t[n] = sq[n + 1]
      BY <1>1, <3>1, <3>2, SupIndices
    <3>7. \A n \in DOMAIN sq' : \/ n \in DOMAIN t /\ sq'[n] = t[n]
                                \/ sq'[n] = m
      BY <2>2, <3>2, <3>3, <3>4, <3>5, SupIndices
    <3>8. \A n \in DOMAIN sq' : sq'[n].op = "launch" =>
            n \in Nat /\ n + 1 \in DOMAIN sq /\ sq'[n] = sq[n + 1]
      BY <3>4, <3>6, <3>7
    <3>9. OneLaunch'
      <4> SUFFICES ASSUME NEW a \in DOMAIN sq', NEW b \in DOMAIN sq',
                          sq'[a].op = "launch", sq'[a].job # NoJob,
                          sq'[b].op = "launch", sq'[b].job # NoJob
                   PROVE  a = b
        BY DEF OneLaunch
      <4>1. a + 1 = b + 1 /\ a \in Nat /\ b \in Nat
        BY <3>1, <3>8 DEF OneLaunch
      <4> QED
        BY <4>1
    <3> QED
      BY <3>8, <3>9 DEF SupQueueKept, awaits
  <2> QED
    BY <1>1, <2>1, <2>2
<1>5. JobQueueKept /\ \A j \in JobIds : finishes(j)' <=> finishes(j)
  BY <1>1, QueuesSame
<1>6. EffectsOK'
  <2>1. told' <=> told
    BY <1>1, <1>2 DEF told
  <2> QED
    BY <1>0, <1>1, <1>2, <1>3, <1>5, <2>1 DEF EffectsOK, JobQueueKept
<1>7. st'.job = NoJob => st'.rev = 0
  BY <1>0, <1>1 DEF RevisionsOK
<1> QED
  BY <1>1, <1>2, <1>4, <1>5, <1>6, <1>7, RunStepKeeps

\* A task of the supervisor that may begin the effects of a run that has not had them.
LEMMA TaskStory == TypeInv /\ StoryInv /\ (CompleteTask \/ InterruptTask \/ BootTask) => StoryInv'
<1> SUFFICES ASSUME TypeInv, StoryInv, CompleteTask \/ InterruptTask \/ BootTask PROVE StoryInv'
  OBVIOUS
<1>0. EffectsOK /\ run \in StoredRuns
  BY DEF StoryInv, TypeInv, TypeOK, RunsOK
<1>1. /\ UNCHANGED <<jobs, jt, jq, launches, restarts, saves, page>>
      /\ st.pc = "idle" /\ sq # <<>> /\ sq' = Tail(sq)
  BY DEF CompleteTask, InterruptTask, BootTask, TakeSup, jobSide, bounds, history
<1>2. \/ run' = run /\ supDone
      \/ run.status = "terminal" /\ run' = run /\ supGoto("effects")
      \/ run.status = "running" /\ run' = [run EXCEPT !.status = "terminal"] /\ supGoto("effects")
  BY DEF CompleteTask, InterruptTask, BootTask
<1>3. run'.job = run.job /\ run'.rev = run.rev /\ run'.done = run.done
  BY <1>0, <1>2 DEF StoredRuns
<1>4. \/ run' = run /\ st'.pc = "idle"
      \/ run.status = "terminal" /\ run' = run /\ st'.pc = "effects"
      \/ run.status = "running" /\ run'.status = "terminal" /\ st'.pc = "effects"
  BY <1>0, <1>2, SupGoes DEF StoredRuns
<1>5. st'.rev = 0 /\ st'.job = NoJob
  BY <1>2, SupGoes
<1>6. SupQueueKept
  BY <1>1, SupTaken
<1>7. JobQueueKept /\ \A j \in JobIds : finishes(j)' <=> finishes(j)
  BY <1>1, QueuesSame
<1>8. EffectsOK'
  <2>1. told' <=> told
    BY <1>1, <1>3 DEF told
  <2> QED
    BY <1>0, <1>1, <1>3, <1>4, <1>7, <2>1 DEF EffectsOK, JobQueueKept
<1> QED
  BY <1>1, <1>3, <1>4, <1>5, <1>6, <1>7, <1>8, RunStepKeeps

\* The effects queue the end of the job, and the supervisor waits for it.
LEMMA EffectsStory == TypeInv /\ StoryInv /\ Effects => StoryInv'
<1> SUFFICES ASSUME TypeInv, StoryInv, Effects PROVE StoryInv'
  OBVIOUS
<1>0. EffectsOK /\ run \in StoredRuns
  BY DEF StoryInv, TypeInv, TypeOK, RunsOK
<1>1. /\ UNCHANGED <<jobs, jt, sq, launches, restarts, saves, page, run>> /\ st.pc = "effects"
  BY DEF Effects, SupAt, bounds, history
<1>2. SupQueueKept
  BY <1>1, QueuesSame
<1>3. \A j \in JobIds : ~finishes(j)
  BY <1>0, <1>1 DEF EffectsOK
<1>4. told' <=> told
  BY <1>1 DEF told
<1>5. CASE run.job = NoJob
  <2>1. jq' = jq /\ supGoto("mark")
    BY <1>5 DEF Effects
  <2>2. st'.pc = "mark" /\ st'.rev = 0 /\ st'.job = NoJob
    BY <2>1, SupGoes
  <2>3. JobQueueKept /\ \A j \in JobIds : finishes(j)' <=> finishes(j)
    BY <2>1, QueuesSame
  <2>4. told
    BY <1>5 DEF told
  <2>5. EffectsOK'
    BY <1>0, <1>1, <1>3, <1>4, <2>2, <2>3, <2>4 DEF EffectsOK, JobQueueKept
  <2> QED
    BY <1>1, <1>2, <2>2, <2>3, <2>5, RunStepKeeps
<1>6. CASE run.job # NoJob
  <2>1. jq' = Append(jq, plainTask("finish", run.job)) /\ supGoto("waiting")
    BY <1>6 DEF Effects
  <2>2. st'.pc = "waiting" /\ st'.rev = 0 /\ st'.job = NoJob
    BY <2>1, SupGoes
  <2>3. run.job \in JobIds
    BY <1>0, <1>6 DEF StoredRuns
  <2>4. PICK m : m = plainTask("finish", run.job)
    OBVIOUS
  <2>5. m \in JobTasks /\ m.op = "finish" /\ m.job = run.job
    BY <2>3, <2>4, TaskTypes DEF plainTask, jobTask
  <2>6. jq' = Append(jq, m)
    BY <2>1, <2>4
  <2>7. /\ ReconcileFirst' /\ (reconciling' => reconciling) /\ OneFinish'
        /\ \A j \in JobIds : finishes(j)' => finishes(j) \/ (m.op = "finish" /\ m.job = j)
    BY <1>3, <2>5, <2>6, JobAdded
  <2>8. \A j \in JobIds : finishes(j)' => j = run.job
    BY <1>3, <2>5, <2>7
  <2>9. EffectsOK'
    BY <1>0, <1>1, <1>4, <2>2, <2>7, <2>8 DEF EffectsOK
  <2>10. RevisionsOK' /\ LaunchesOK' /\ ReconcileOK' /\ CountsOK' /\ PlaysOK'
    <3>0. /\ RevisionsOK /\ LaunchesOK /\ ReconcileOK /\ CountsOK /\ PlaysOK
      BY DEF StoryInv
    <3>1. RevisionsOK'
      BY <1>1, <2>2, <3>0, Numbers DEF RevisionsOK, present
    <3>2. LaunchesOK'
      BY <1>1, <1>2, <2>2, <3>0 DEF LaunchesOK, SupQueueKept
    <3>3. ReconcileOK'
      BY <1>1, <2>7, <3>0 DEF ReconcileOK
    <3>4. \A j \in JobIds : mayLaunch(j)' => mayLaunch(j)
      BY <1>1, <1>2, <2>7 DEF mayLaunch, SupQueueKept
    <3>5. CountsOK'
      BY <1>1, <3>0, <3>4 DEF CountsOK, present
    <3>6. PlaysOK'
      BY <1>1, <3>0 DEF PlaysOK, present, plays
    <3> QED
      BY <3>1, <3>2, <3>3, <3>5, <3>6
  <2> QED
    BY <2>9, <2>10 DEF StoryInv
<1> QED
  BY <1>5, <1>6

\* The marker is written when the job has been told.
LEMMA MarkStory == TypeInv /\ StoryInv /\ Mark => StoryInv'
<1> SUFFICES ASSUME TypeInv, StoryInv, Mark PROVE StoryInv'
  OBVIOUS
<1>0. EffectsOK /\ run \in StoredRuns
  BY DEF StoryInv, TypeInv, TypeOK, RunsOK
<1>1. /\ UNCHANGED <<jobs, jt, sq, jq, launches, restarts, saves, page>>
      /\ st.pc = "mark" /\ run' = [run EXCEPT !.done = TRUE] /\ supDone
  BY DEF Mark, SupAt, bounds, history, jobSide
<1>2. run'.job = run.job /\ run'.rev = run.rev /\ run'.status = run.status
  BY <1>0, <1>1 DEF StoredRuns
<1>3. st'.pc = "idle" /\ st'.rev = 0 /\ st'.job = NoJob
  BY <1>1, SupGoes
<1>4. /\ JobQueueKept /\ SupQueueKept
      /\ \A j \in JobIds : finishes(j)' <=> finishes(j)
  BY <1>1, QueuesSame
<1>5. EffectsOK'
  <2>1. told' <=> told
    BY <1>1, <1>2 DEF told
  <2> QED
    BY <1>0, <1>1, <1>2, <1>3, <1>4, <2>1 DEF EffectsOK, JobQueueKept
<1> QED
  BY <1>1, <1>2, <1>3, <1>4, <1>5, RunStepKeeps

\* Alarms are set and cleared without a trace in the story.
LEMMA AlarmsStory == TypeInv /\ StoryInv /\ (Arm \/ Disarm \/ Rearm) => StoryInv'
<1> SUFFICES ASSUME TypeInv, StoryInv, Arm \/ Disarm \/ Rearm PROVE StoryInv'
  OBVIOUS
<1>1. /\ UNCHANGED <<jobs, st, run, launches, restarts, saves, page, jq, sq>>
      /\ jt.pc # "launching" /\ jt' = jobIdle
  BY DEF Arm, Disarm, Rearm, JobAt, jobDone, supSide, bounds, history
<1> QED
  BY <1>1, Quiet, QueuesSame, Numbers DEF PageFades

\* The page ends its attempt and reports it.
LEMMA PageStory == TypeInv /\ StoryInv /\ (PageEnds \/ PageReports) => StoryInv'
<1> SUFFICES ASSUME TypeInv, StoryInv, PageEnds \/ PageReports PROVE StoryInv'
  OBVIOUS
<1>1. UNCHANGED <<jobs, st, run, launches, restarts, saves, jt, jq>>
  BY DEF PageEnds, PageReports, jobSide, bounds, history
<1>2. page \in Pages
  BY DEF TypeInv, TypeOK, RunsOK
<1>3. \/ page' = [page EXCEPT !.stage = "finishing"] \/ page' = [page EXCEPT !.stage = "reported"]
  BY DEF PageEnds, PageReports
<1>4. PageFades
  BY <1>2, <1>3 DEF PageFades, Pages
<1>5. SupQueueKept
  <2>1. CASE PageEnds
    BY <2>1, QueuesSame DEF PageEnds
  <2>2. CASE PageReports
    <3>1. supTask("finished", NoJob, page.n) \in SupTasks
      BY <1>2, TaskTypes, PageFacts
    <3>2. supTask("finished", NoJob, page.n).job = NoJob
      BY DEF supTask
    <3> QED
      BY <2>2, <3>1, <3>2, SupAddedPlain DEF PageReports
  <2> QED
    BY <2>1, <2>2
<1> QED
  BY <1>1, <1>4, <1>5, Quiet, QueuesSame, Numbers

\* The user closes the tab or starts a run by hand.
LEMMA HandStory == TypeInv /\ StoryInv /\ (UserStarts \/ UserClosesTab) => StoryInv'
<1> SUFFICES ASSUME TypeInv, StoryInv, UserStarts \/ UserClosesTab PROVE StoryInv'
  OBVIOUS
<1>1. UNCHANGED <<jobs, st, run, launches, restarts, saves, jt, jq>>
  BY DEF UserStarts, UserClosesTab, jobSide, history
<1>2. page \in Pages /\ 0 \in 0..MaxRuns
  BY JobAssumption DEF TypeInv, TypeOK, RunsOK
<1>3. PageFades
  BY DEF PageFades, UserStarts, UserClosesTab, NoPage
<1>4. SupQueueKept
  <2>1. CASE UserStarts
    <3>1. /\ supTask("launch", NoJob, 0) \in SupTasks
          /\ supTask("launch", NoJob, 0).job = NoJob
      BY <1>2, TaskTypes DEF supTask
    <3> QED
      BY <2>1, <3>1, SupAddedPlain DEF UserStarts
  <2>2. CASE UserClosesTab
    <3>1. supTask("interrupt", NoJob, page.n) \in SupTasks
      BY <1>2, TaskTypes, PageFacts
    <3>2. supTask("interrupt", NoJob, page.n).job = NoJob
      BY DEF supTask
    <3> QED
      BY <2>2, <3>1, <3>2, SupAddedPlain DEF UserClosesTab
  <2> QED
    BY <2>1, <2>2
<1> QED
  BY <1>1, <1>3, <1>4, Quiet, QueuesSame, Numbers

\* A task the panel or an alarm puts into the jobs queue.
LEMMA MessageStory ==
  ASSUME TypeInv, StoryInv, NEW m \in JobTasks, jq' = Append(jq, m),
         m.op \in {"save", "delete", "alarm"},
         UNCHANGED <<jobs, st, run, launches, restarts, page, jt, sq>>,
         saves' \in Nat, saves <= saves'
  PROVE  StoryInv'
<1>1. JobQueueKept
  BY JobAdded DEF JobQueueKept
<1> QED
  BY <1>1, Quiet, QueuesSame DEF PageFades

\* The panel saves and deletes, alarms fire and reach the queue, time goes by.
LEMMA OutsideStory ==
  ASSUME TypeInv, StoryInv,
         \/ \E j \in JobIds \cup {NoJob}, c \in Configs : UserSaves(j, c)
         \/ \E j \in JobIds : UserDeletes(j) \/ AlarmFires(j) \/ AlarmAdmitted(j)
         \/ Tick \/ UNCHANGED vars
  PROVE  StoryInv'
<1>1. ASSUME NEW j \in JobIds \cup {NoJob}, NEW c \in Configs, UserSaves(j, c)
      PROVE  StoryInv'
  <2>1. PICK m : m = jobTask("save", j, c)
    OBVIOUS
  <2>2. m \in JobTasks /\ m.op = "save"
    BY <2>1, TaskTypes DEF jobTask
  <2>3. /\ jq' = Append(jq, m) /\ saves' = saves
        /\ UNCHANGED <<jobs, st, run, launches, restarts, page, jt, sq>>
    BY <1>1, <2>1 DEF UserSaves, supSide, bounds, history
  <2> QED
    BY <2>2, <2>3, MessageStory, Numbers
<1>2. ASSUME NEW j \in JobIds, UserDeletes(j)
      PROVE  StoryInv'
  <2>1. PICK m : m = plainTask("delete", j)
    OBVIOUS
  <2>2. m \in JobTasks /\ m.op = "delete"
    BY <2>1, TaskTypes DEF jobTask, plainTask
  <2>3. /\ jq' = Append(jq, m) /\ saves' = saves + 1
        /\ UNCHANGED <<jobs, st, run, launches, restarts, page, jt, sq>>
    BY <1>2, <2>1 DEF UserDeletes, supSide, history
  <2>4. saves' \in Nat /\ saves <= saves'
    BY <2>3, Numbers
  <2> QED
    BY <2>2, <2>3, <2>4, MessageStory
<1>3. ASSUME NEW j \in JobIds, AlarmAdmitted(j)
      PROVE  StoryInv'
  <2>1. PICK m : m = plainTask("alarm", j)
    OBVIOUS
  <2>2. m \in JobTasks /\ m.op = "alarm"
    BY <2>1, TaskTypes DEF jobTask, plainTask
  <2>3. /\ jq' = Append(jq, m) /\ saves' = saves
        /\ UNCHANGED <<jobs, st, run, launches, restarts, page, jt, sq>>
    BY <1>3, <2>1 DEF AlarmAdmitted, supSide, bounds, history
  <2> QED
    BY <2>2, <2>3, MessageStory, Numbers
<1>4. ASSUME (\E j \in JobIds : AlarmFires(j)) \/ Tick \/ UNCHANGED vars
      PROVE  StoryInv'
  <2>1. UNCHANGED <<jobs, st, run, launches, restarts, saves, page, jq, sq, jt>>
    BY <1>4 DEF AlarmFires, Tick, vars, jobSide, supSide, bounds, history
  <2> QED
    BY <2>1, Quiet, QueuesSame, Numbers DEF PageFades
<1> QED
  BY <1>1, <1>2, <1>3, <1>4

-----------------------------------------------------------------------------
(* The launch of a job, from the queue to its answer *)

\* The launch that is taken from the queue is the one the jobs queue waits for.
LEMMA LaunchTaken ==
  ASSUME TypeInv, StoryInv, TakeSup("launch"), NEW j, j = Head(sq).job, j # NoJob
  PROVE  /\ j \in JobIds /\ jt.pc = "launching" /\ jt.job = j /\ jt.reply = "none"
         /\ \A i \in JobIds : ~awaits(i)'
         /\ j \in present(jobs) /\ jobs[j].status = "running" /\ jobs[j].rev \in 1..MaxSaves
         /\ mayLaunch(j) /\ ~reconciling /\ ~plays(j)
<1>1. sq # <<>> /\ sq' = Tail(sq) /\ Head(sq).op = "launch"
  BY DEF TakeSup
<1>2. j \in JobIds /\ awaits(j) /\ \A i \in JobIds : ~awaits(i)'
  BY <1>1, SupTaken
<1>3. LaunchesOK /\ ReconcileOK /\ PlaysOK
  BY DEF StoryInv
<1>4. jt.pc = "launching" /\ jt.job = j /\ jt.reply = "none"
  BY <1>2, <1>3 DEF LaunchesOK
<1>5. jobs[j].status = "running"
  BY <1>3, <1>4 DEF LaunchesOK
<1>6. j \in present(jobs)
  BY <1>2, <1>5 DEF present
<1>7. mayLaunch(j)
  BY <1>2, <1>5 DEF mayLaunch
<1>8. ~reconciling /\ ~plays(j)
  BY <1>3, <1>4 DEF ReconcileOK, PlaysOK
<1> QED
  BY <1>2, <1>4, <1>5, <1>6, <1>7, <1>8, Numbers

\* An answer leaves the task of the jobs queue where it is.
LEMMA Answered ==
  ASSUME TypeInv, NEW j, NEW r \in {"ok", "busy", "failed"}, answerLaunch(j, r)
  PROVE  /\ jt'.pc = jt.pc /\ jt'.job = jt.job
         /\ IF j = NoJob THEN jt' = jt ELSE jt'.reply = r
<1>1. jt \in JobPositions
  BY DEF TypeInv, TypeOK, QueuesOK
<1> QED
  BY <1>1 DEF answerLaunch, JobPositions

\* A start that is refused is answered, and nothing is launched.
LEMMA RefusedStory == TypeInv /\ StoryInv /\ StartRefused => StoryInv'
<1> SUFFICES ASSUME TypeInv, StoryInv, StartRefused PROVE StoryInv'
  OBVIOUS
<1>1. PICK j : j = Head(sq).job
  OBVIOUS
<1>2. PICK r \in {"busy", "failed"} : answerLaunch(j, r)
  BY <1>1 DEF StartRefused
<1>3. /\ TakeSup("launch") /\ st.pc = "idle"
      /\ UNCHANGED <<jobs, jq, st, run, page, saves, launches, restarts>>
  BY DEF StartRefused, TakeSup, bounds, history
<1>4. SupQueueKept
  BY <1>3, SupTaken DEF TakeSup
<1>5. JobQueueKept
  BY <1>3, QueuesSame
<1>6. CASE j = NoJob
  <2>1. jt' = jt
    BY <1>2, <1>6 DEF answerLaunch
  <2> QED
    BY <1>3, <1>4, <1>5, <2>1, Quiet, Numbers DEF PageFades
<1>7. CASE j # NoJob
  <2>0. /\ RevisionsOK /\ LaunchesOK /\ ReconcileOK /\ CountsOK /\ PlaysOK /\ EffectsOK
    BY DEF StoryInv
  <2>1. /\ j \in JobIds /\ jt.pc = "launching" /\ jt.job = j /\ jt.reply = "none"
        /\ jobs[j].status = "running" /\ ~reconciling /\ ~plays(j)
        /\ \A i \in JobIds : ~awaits(i)'
    BY <1>1, <1>3, <1>7, LaunchTaken
  <2>2. jt'.pc = "launching" /\ jt'.job = j
    BY <1>2, <2>1, Answered
  <2>3. RevisionsOK'
    BY <1>3, <2>0 DEF RevisionsOK, present
  <2>4. LaunchesOK'
    BY <1>3, <1>4, <2>0, <2>1, <2>2 DEF LaunchesOK, SupQueueKept
  <2>5. ReconcileOK'
    BY <1>3, <1>5, <2>0, <2>1 DEF ReconcileOK, JobQueueKept
  <2>6. CountsOK'
    <3>1. \A i \in JobIds : mayLaunch(i)' => mayLaunch(i)
      BY <1>3, <1>4, <1>5 DEF mayLaunch, JobQueueKept, SupQueueKept
    <3> QED
      BY <1>3, <2>0, <3>1 DEF CountsOK, present
  <2>7. PlaysOK'
    BY <1>3, <2>0, <2>1, <2>2 DEF PlaysOK, present, plays
  <2>8. EffectsOK'
    BY <1>3, <1>5, <2>0 DEF EffectsOK, JobQueueKept, told
  <2> QED
    BY <2>3, <2>4, <2>5, <2>6, <2>7, <2>8 DEF StoryInv
<1> QED
  BY <1>6, <1>7

\* A start that begins counts one launch more, of a job that was launched in earlier lives
\* of Chrome at most.
LEMMA BeginsStory == TypeInv /\ StoryInv /\ StartBegins => StoryInv'
<1> SUFFICES ASSUME TypeInv, StoryInv, StartBegins PROVE StoryInv'
  OBVIOUS
<1>1. PICK j : j = Head(sq).job
  OBVIOUS
<1>2. PICK rev : rev = IF j = NoJob THEN 0 ELSE jobs[j].rev
  OBVIOUS
<1>3. /\ TakeSup("launch") /\ st.pc = "idle"
      /\ UNCHANGED <<jobs, jt, jq, run, page, saves, restarts>>
      /\ st' = [pc |-> "starting", job |-> j, rev |-> rev]
      /\ launches' = IF j = NoJob THEN launches ELSE [launches EXCEPT ![rev] = @ + 1]
  BY <1>1, <1>2 DEF StartBegins, TakeSup, jobSide, bounds, history
<1>4. st'.pc = "starting" /\ st'.job = j /\ st'.rev = rev
  BY <1>3
<1>5. SupQueueKept
  BY <1>3, SupTaken DEF TakeSup
<1>6. JobQueueKept
  BY <1>3, QueuesSame
<1>7. j # NoJob =>
        /\ j \in JobIds /\ jt.pc = "launching" /\ jt.job = j /\ jt.reply = "none"
        /\ \A i \in JobIds : ~awaits(i)'
        /\ j \in present(jobs) /\ jobs[j].status = "running" /\ jobs[j].rev \in 1..MaxSaves
        /\ mayLaunch(j) /\ ~reconciling
  BY <1>1, <1>3, LaunchTaken
<1>0. /\ RevisionsOK /\ LaunchesOK /\ ReconcileOK /\ CountsOK /\ PlaysOK /\ EffectsOK
  BY DEF StoryInv
<1>8. RevisionsOK'
  BY <1>0, <1>2, <1>3, <1>4, <1>7, Numbers DEF RevisionsOK, present
<1>9. LaunchesOK'
  <2>1. CASE j = NoJob
    BY <1>0, <1>3, <1>4, <1>5, <2>1, Numbers DEF LaunchesOK, SupQueueKept
  <2>2. CASE j # NoJob
    <3>1. \A i \in JobIds : i = st'.job => ~awaits(i)'
      BY <1>7, <2>2
    <3>2. ~awaits(st.job)'
      BY <1>4, <1>7, <2>2, <3>1 DEF awaits
    <3> QED
      BY <1>0, <1>2, <1>3, <1>4, <1>5, <1>7, <2>2, <3>2 DEF LaunchesOK, SupQueueKept
  <2> QED
    BY <2>1, <2>2
<1>10. ReconcileOK'
  BY <1>0, <1>3, <1>6 DEF ReconcileOK, JobQueueKept
<1>11. CountsOK'
  <2>1. \A i \in JobIds : mayLaunch(i)' => mayLaunch(i)
    BY <1>3, <1>5, <1>6 DEF mayLaunch, JobQueueKept, SupQueueKept
  <2>2. CASE j = NoJob
    BY <1>0, <1>3, <2>1, <2>2 DEF CountsOK, present
  <2>3. CASE j # NoJob
    <3>1. launches' = [launches EXCEPT ![rev] = @ + 1] /\ rev = jobs[j].rev
          /\ rev \in 1..MaxSaves
      BY <1>2, <1>3, <1>7, <2>3
    <3>2. launches \in [1..MaxSaves -> Nat]
      BY DEF TypeInv, TypeOK, CountersOK
    <3>3. /\ launches'[rev] = launches[rev] + 1
          /\ \A r \in 1..MaxSaves : r # rev => launches'[r] = launches[r]
      BY <3>1, <3>2
    <3>4. launches[rev] <= restarts
      BY <1>0, <1>7, <2>3, <3>1 DEF CountsOK
    <3>5. ~mayLaunch(j)'
      BY <1>3, <1>6, <1>7, <2>3 DEF mayLaunch, JobQueueKept
    <3>6. \A i \in present(jobs) : mayLaunch(i)' => launches'[jobs[i].rev] <= restarts
      <4> SUFFICES ASSUME NEW i \in present(jobs), mayLaunch(i)'
                   PROVE  launches'[jobs[i].rev] <= restarts
        OBVIOUS
      <4>1. i # j /\ i \in JobIds /\ jobs[i].rev \in 1..MaxSaves
        BY <3>5, Numbers
      <4>2. jobs[i].rev # rev
        BY <1>0, <1>7, <2>3, <3>1, <4>1 DEF RevisionsOK
      <4>3. launches[jobs[i].rev] <= restarts
        BY <1>0, <2>1, <4>1 DEF CountsOK
      <4> QED
        BY <3>3, <4>1, <4>2, <4>3
    <3>7. \A r \in 1..MaxSaves : launches'[r] <= 1 + restarts
      <4> SUFFICES ASSUME NEW r \in 1..MaxSaves PROVE launches'[r] <= 1 + restarts
        OBVIOUS
      <4>1. launches[r] <= 1 + restarts /\ launches[r] \in Nat /\ restarts \in Nat
        BY <1>0, Numbers DEF CountsOK
      <4> QED
        BY <3>3, <3>4, <4>1
    <3>8. \A r \in 1..MaxSaves : r > saves => launches'[r] = 0
      <4>1. rev <= saves /\ rev \in Nat /\ saves \in Nat
        BY <1>0, <1>7, <2>3, <3>1, Numbers DEF RevisionsOK
      <4> QED
        BY <1>0, <3>3, <4>1 DEF CountsOK
    <3> QED
      BY <1>3, <3>6, <3>7, <3>8 DEF CountsOK, present
  <2> QED
    BY <2>2, <2>3
<1>12. PlaysOK'
  BY <1>0, <1>3 DEF PlaysOK, present, plays
<1>13. EffectsOK'
  BY <1>0, <1>3, <1>4, <1>6 DEF EffectsOK, JobQueueKept, told
<1> QED
  BY <1>8, <1>9, <1>10, <1>11, <1>12, <1>13 DEF StoryInv

\* While a start of a job is under way its jobs-queue task waits, and no other launch is
\* queued.
LEMMA Starting ==
  ASSUME TypeInv, StoryInv, st.pc = "starting"
  PROVE  /\ st.job = NoJob => st.rev = 0
         /\ st.job # NoJob =>
              /\ st.job \in JobIds /\ jt.pc = "launching" /\ jt.job = st.job /\ jt.reply = "none"
              /\ \A i \in JobIds : ~awaits(i)
              /\ st.job \in present(jobs) /\ jobs[st.job].status = "running"
              /\ st.rev = jobs[st.job].rev /\ st.rev \in 1..MaxSaves
              /\ ~reconciling /\ ~plays(st.job)
<1>0. /\ RevisionsOK /\ LaunchesOK /\ ReconcileOK /\ PlaysOK
  BY DEF StoryInv
<1>1. st.job = NoJob => st.rev = 0
  BY <1>0 DEF RevisionsOK
<1>2. ASSUME st.job # NoJob
      PROVE  /\ st.job \in JobIds /\ jt.pc = "launching" /\ jt.job = st.job /\ jt.reply = "none"
             /\ \A i \in JobIds : ~awaits(i)
             /\ st.job \in present(jobs) /\ jobs[st.job].status = "running"
             /\ st.rev = jobs[st.job].rev /\ st.rev \in 1..MaxSaves
             /\ ~reconciling /\ ~plays(st.job)
  <2>1. st.job \in JobIds
    BY <1>2 DEF TypeInv, TypeOK, QueuesOK, SupPositions
  <2>2. jt.pc = "launching" /\ jt.job = st.job /\ jt.reply = "none"
    BY <1>0, <2>1 DEF LaunchesOK
  <2>3. jobs[st.job].status = "running" /\ st.rev = jobs[st.job].rev /\ ~awaits(st.job)
    BY <1>0, <1>2, <2>2 DEF LaunchesOK
  <2>4. \A i \in JobIds : ~awaits(i)
    <3> SUFFICES ASSUME NEW i \in JobIds, awaits(i) PROVE FALSE
      OBVIOUS
    <3>1. i = st.job
      BY <1>0, <2>2 DEF LaunchesOK
    <3> QED
      BY <2>3, <3>1
  <2>5. st.job \in present(jobs)
    BY <2>1, <2>3 DEF present
  <2>6. ~reconciling
    BY <1>0, <2>2 DEF ReconcileOK
  <2>7. ~plays(st.job)
    <3>1. ~plays(jt.job)
      BY <1>0, <2>2 DEF PlaysOK
    <3> QED
      BY <2>2, <3>1
  <2> QED
    BY <2>1, <2>2, <2>3, <2>4, <2>5, <2>6, <2>7, Numbers
<1> QED
  BY <1>1, <1>2

\* A start that succeeds plays the revision it was launched for.
LEMMA SucceedsStory == TypeInv /\ StoryInv /\ StartSucceeds => StoryInv'
<1> SUFFICES ASSUME TypeInv, StoryInv, StartSucceeds PROVE StoryInv'
  OBVIOUS
<1>0. /\ RevisionsOK /\ LaunchesOK /\ ReconcileOK /\ CountsOK /\ PlaysOK /\ EffectsOK
  BY DEF StoryInv
<1>1. PICK j : j = st.job
  OBVIOUS
<1>2. /\ UNCHANGED <<jobs, jq, sq, launches, restarts, saves>>
      /\ run' = [n |-> run.n + 1, job |-> j, rev |-> st.rev, status |-> "running", done |-> FALSE]
      /\ page' = [n |-> run.n + 1, rev |-> st.rev, stage |-> "playing"]
      /\ answerLaunch(j, "ok") /\ st.pc = "starting" /\ supDone
  BY <1>1 DEF StartSucceeds, SupAt, bounds, history
<1>3. st'.pc = "idle" /\ st'.rev = 0 /\ st'.job = NoJob
  BY <1>2, SupGoes
<1>4. /\ run'.job = j /\ run'.rev = st.rev /\ run'.status = "running" /\ run'.done = FALSE
      /\ page'.rev = st.rev /\ page'.stage = "playing"
  BY <1>2
<1>5. /\ j = NoJob => st.rev = 0
      /\ j # NoJob =>
            /\ j \in JobIds /\ jt.pc = "launching" /\ jt.job = j /\ jt.reply = "none"
            /\ \A i \in JobIds : ~awaits(i)
            /\ j \in present(jobs) /\ jobs[j].status = "running"
            /\ st.rev = jobs[j].rev /\ st.rev \in 1..MaxSaves
            /\ ~reconciling /\ ~plays(j)
  BY <1>1, <1>2, Starting
<1>6. /\ jt'.pc = jt.pc /\ jt'.job = jt.job
      /\ IF j = NoJob THEN jt' = jt ELSE jt'.reply = "ok"
  BY <1>2, Answered
<1>7. /\ JobQueueKept /\ SupQueueKept
      /\ \A i \in JobIds : awaits(i)' <=> awaits(i)
      /\ \A i \in JobIds : finishes(i)' <=> finishes(i)
      /\ reconciling' <=> reconciling
  BY <1>2, QueuesSame
<1>8. RevisionsOK'
  BY <1>0, <1>2, <1>3, <1>4, <1>5, Numbers DEF RevisionsOK, present
<1>9. LaunchesOK'
  <2>1. CASE j = NoJob
    BY <1>0, <1>2, <1>3, <1>6, <1>7, <2>1 DEF LaunchesOK, SupQueueKept
  <2>2. CASE j # NoJob
    BY <1>2, <1>3, <1>5, <1>6, <1>7, <2>2 DEF LaunchesOK, SupQueueKept
  <2> QED
    BY <2>1, <2>2
<1>10. ReconcileOK'
  <2>1. ReconcileFirst'
    BY <1>7 DEF JobQueueKept
  <2>2. reconciling => jt'.pc = "idle" /\ page'.rev = 0
    BY <1>0, <1>4, <1>5, <1>6 DEF ReconcileOK
  <2> QED
    BY <1>7, <2>1, <2>2 DEF ReconcileOK
<1>11. CountsOK'
  <2>1. \A i \in JobIds : mayLaunch(i)' => mayLaunch(i)
    BY <1>2, <1>7 DEF mayLaunch
  <2> QED
    BY <1>0, <1>2, <2>1 DEF CountsOK, present
<1>12. PlaysOK'
  <2>1. \A i \in present(jobs) : jobs[i].status \in {"scheduled", "missed"} => jobs[i].rev # st.rev
    <3>1. CASE j = NoJob
      BY <1>5, <3>1, Numbers
    <3>2. CASE j # NoJob
      BY <1>0, <1>5, <3>2 DEF RevisionsOK
    <3> QED
      BY <3>1, <3>2
  <2>2. jt'.pc = "launching" /\ jt'.reply # "ok" => jobs[jt.job].rev # st.rev
    <3>1. CASE j = NoJob
      <4>1. jt.pc = "launching" => jt.job \in present(jobs)
        BY <1>0 DEF LaunchesOK, present
      <4> QED
        BY <1>5, <1>6, <3>1, <4>1, Numbers
    <3>2. CASE j # NoJob
      BY <1>6, <3>2
    <3> QED
      BY <3>1, <3>2
  <2> QED
    BY <1>2, <1>4, <1>6, <2>1, <2>2 DEF PlaysOK, present, plays
<1>13. EffectsOK'
  BY <1>0, <1>2, <1>3, <1>4, <1>7 DEF EffectsOK, JobQueueKept
<1> QED
  BY <1>8, <1>9, <1>10, <1>11, <1>12, <1>13 DEF StoryInv

\* A start that fails leaves the run before it, or none.
LEMMA FailsStory == TypeInv /\ StoryInv /\ StartFails => StoryInv'
<1> SUFFICES ASSUME TypeInv, StoryInv, StartFails PROVE StoryInv'
  OBVIOUS
<1>0. /\ RevisionsOK /\ LaunchesOK /\ ReconcileOK /\ CountsOK /\ PlaysOK /\ EffectsOK
  BY DEF StoryInv
<1>1. PICK j : j = st.job
  OBVIOUS
<1>2. /\ UNCHANGED <<jobs, jq, sq, launches, restarts, saves, page>>
      /\ run' \in {run, [NoRun EXCEPT !.n = run.n]}
      /\ answerLaunch(j, "failed") /\ st.pc = "starting" /\ supDone
  BY <1>1 DEF StartFails, SupAt, bounds, history
<1>3. st'.pc = "idle" /\ st'.rev = 0 /\ st'.job = NoJob
  BY <1>2, SupGoes
<1>4. \/ run' = run
      \/ run'.job = NoJob /\ run'.rev = 0 /\ run'.status = "none" /\ run'.done = FALSE
  BY <1>2 DEF NoRun
<1>5. j # NoJob =>
        /\ j \in JobIds /\ jt.pc = "launching" /\ jt.job = j /\ jt.reply = "none"
        /\ \A i \in JobIds : ~awaits(i)
        /\ ~reconciling /\ ~plays(j)
  BY <1>1, <1>2, Starting
<1>6. /\ jt'.pc = jt.pc /\ jt'.job = jt.job
      /\ IF j = NoJob THEN jt' = jt ELSE jt'.reply = "failed"
  BY <1>2, Answered
<1>7. /\ JobQueueKept /\ SupQueueKept
      /\ \A i \in JobIds : awaits(i)' <=> awaits(i)
      /\ \A i \in JobIds : finishes(i)' <=> finishes(i)
      /\ reconciling' <=> reconciling
  BY <1>2, QueuesSame
<1>8. RevisionsOK'
  BY <1>0, <1>2, <1>3, <1>4, Numbers DEF RevisionsOK, present
<1>9. LaunchesOK'
  <2>1. CASE j = NoJob
    BY <1>0, <1>2, <1>3, <1>6, <1>7, <2>1 DEF LaunchesOK, SupQueueKept
  <2>2. CASE j # NoJob
    BY <1>0, <1>2, <1>3, <1>5, <1>6, <1>7, <2>2 DEF LaunchesOK, SupQueueKept
  <2> QED
    BY <2>1, <2>2
<1>10. ReconcileOK'
  BY <1>0, <1>2, <1>6, <1>7 DEF ReconcileOK, JobQueueKept
<1>11. CountsOK'
  <2>1. \A i \in JobIds : mayLaunch(i)' => mayLaunch(i)
    BY <1>2, <1>7 DEF mayLaunch
  <2> QED
    BY <1>0, <1>2, <2>1 DEF CountsOK, present
<1>12. PlaysOK'
  <2>1. \A i : plays(i)' <=> plays(i)
    BY <1>2 DEF plays
  <2>2. jt'.pc = "launching" /\ jt'.reply # "ok" => ~plays(jt.job)
    BY <1>0, <1>5, <1>6 DEF PlaysOK
  <2> QED
    BY <1>0, <1>2, <1>6, <2>1, <2>2 DEF PlaysOK, present, plays
<1>13. EffectsOK'
  <2>1. /\ run'.done => run'.status # "running"
        /\ run'.status = "terminal" /\ run'.done => told'
    BY <1>0, <1>2, <1>4 DEF EffectsOK, told
  <2> QED
    BY <1>0, <1>2, <1>3, <1>7, <2>1 DEF EffectsOK, JobQueueKept
<1> QED
  BY <1>8, <1>9, <1>10, <1>11, <1>12, <1>13 DEF StoryInv

-----------------------------------------------------------------------------
(* The worker's end *)

\* A crash forgets both queues; what is stored tells the same story.
LEMMA CrashStory == TypeInv /\ StoryInv /\ (Crash \/ Restart) => StoryInv'
<1> SUFFICES ASSUME TypeInv, StoryInv, Crash \/ Restart PROVE StoryInv'
  OBVIOUS
<1>0. /\ RevisionsOK /\ LaunchesOK /\ ReconcileOK /\ CountsOK /\ PlaysOK /\ EffectsOK
  BY DEF StoryInv
<1>1. /\ UNCHANGED <<jobs, run, saves, launches>>
      /\ jt' = jobIdle /\ st' = supIdle /\ sq' = <<supTask("boot", NoJob, 0)>>
      /\ \/ jq' = <<>> /\ restarts' = restarts /\ page' = page
         \/ jq' = <<plainTask("reconcile", NoJob)>> /\ restarts' = restarts + 1 /\ page' = NoPage
  BY DEF Crash, Restart, reboot, history
<1>2. jt'.pc = "idle" /\ st'.pc = "idle" /\ st'.rev = 0 /\ st'.job = NoJob
  BY <1>1, SupGoes DEF jobIdle
<1>3. \A n \in DOMAIN sq' : sq'[n].op = "boot"
  BY <1>1 DEF supTask
<1>4. \A n \in DOMAIN jq' : n = 1 /\ jq'[n].op = "reconcile"
  BY <1>1 DEF plainTask, jobTask
<1>5. OneLaunch' /\ \A j \in JobIds : ~awaits(j)'
  BY <1>3 DEF OneLaunch, awaits
<1>6. ReconcileFirst' /\ OneFinish' /\ \A j \in JobIds : ~finishes(j)'
  BY <1>4 DEF ReconcileFirst, OneFinish, finishes
<1>7. page'.rev = page.rev \/ page'.rev = 0
  BY <1>1 DEF NoPage
<1>8. RevisionsOK'
  BY <1>0, <1>1, <1>2, <1>7, Numbers DEF RevisionsOK, present
<1>9. LaunchesOK'
  BY <1>2, <1>5 DEF LaunchesOK
<1>10. ReconcileOK'
  <2>1. reconciling' => page' = NoPage
    <3>1. jq' = <<>> => ~reconciling'
      BY DEF reconciling
    <3> QED
      BY <1>1, <3>1
  <2> QED
    BY <1>2, <1>6, <2>1 DEF ReconcileOK, NoPage
<1>11. CountsOK'
  <2>1. CASE jq' = <<>> /\ restarts' = restarts
    <3>1. ~reconciling'
      BY <2>1 DEF reconciling
    <3>2. \A j \in JobIds : mayLaunch(j)' => mayLaunch(j)
      BY <1>1, <1>5, <3>1 DEF mayLaunch
    <3> QED
      BY <1>0, <1>1, <2>1, <3>2 DEF CountsOK, present
  <2>2. CASE restarts' = restarts + 1
    <3>1. \A r \in 1..MaxSaves : launches[r] <= restarts' /\ launches[r] <= 1 + restarts'
      BY <1>0, <2>2, Numbers DEF CountsOK
    <3>2. \A j \in present(jobs) : jobs[j].rev \in 1..MaxSaves
      BY Numbers
    <3> QED
      BY <1>0, <1>1, <3>1, <3>2 DEF CountsOK, present
  <2> QED
    BY <1>1, <2>1, <2>2
<1>12. PlaysOK'
  <2>1. \A j : plays(j)' => plays(j)
    BY <1>1 DEF plays, NoPage
  <2> QED
    BY <1>0, <1>1, <1>2, <2>1 DEF PlaysOK, present
<1>13. EffectsOK'
  BY <1>0, <1>1, <1>2, <1>6 DEF EffectsOK, told
<1> QED
  BY <1>8, <1>9, <1>10, <1>11, <1>12, <1>13 DEF StoryInv

-----------------------------------------------------------------------------
(* Steps that write the list *)

\* What a task of the jobs queue may do to the list besides a save: the revision of a job
\* stays, or the job goes; a finished job stays finished; a job becomes missed or waits
\* again only when no attempt of it is at work; what may be launched could be before.
ListMoves ==
  /\ \A j \in JobIds : \/ /\ jobs'[j].rev = jobs[j].rev
                          /\ jobs'[j].status # "none" => jobs[j].status # "none"
                          /\ jobs[j].status = "finished" => jobs'[j].status = "finished"
                       \/ jobs'[j] = Absent
  /\ \A j \in JobIds : jobs'[j].status \in {"scheduled", "missed"} => ~plays(j)
  /\ \A j \in JobIds : mayLaunch(j)' => jobs'[j].rev = jobs[j].rev /\ mayLaunch(j)

\* Such a task keeps the story, when it ends or goes to a place without a launch.
LEMMA ListStory ==
  ASSUME TypeInv, StoryInv, ListMoves, jt.pc = "idle" \/ (jt.pc = "launching" /\ jt.reply # "none"),
         jt'.pc # "launching", UNCHANGED <<sq, st, run, page, saves, restarts, launches>>,
         JobQueueKept, reconciling' => jt'.pc = "idle"
  PROVE  StoryInv'
<1>0. /\ RevisionsOK /\ LaunchesOK /\ ReconcileOK /\ CountsOK /\ PlaysOK /\ EffectsOK
  BY DEF StoryInv
<1>1. /\ \A j \in JobIds : ~awaits(j) /\ ~awaits(j)'
      /\ st.pc = "starting" => st.job = NoJob
  <2>1. \A j \in JobIds : ~awaits(j)
    BY <1>0 DEF LaunchesOK
  <2>2. st.job # NoJob => st.job \in JobIds
    BY DEF TypeInv, TypeOK, QueuesOK, SupPositions
  <2>3. st.pc = "starting" => st.job = NoJob
    BY <1>0, <2>2 DEF LaunchesOK
  <2> QED
    BY <2>1, <2>3, QueuesSame
<1>2. \A j \in present(jobs') : j \in present(jobs) /\ jobs'[j].rev = jobs[j].rev
  BY Numbers DEF ListMoves, present
<1>3. RevisionsOK'
  <2>1. \A j \in JobIds : jobs'[j].rev <= saves
    BY <1>0, Numbers DEF RevisionsOK, ListMoves
  <2>2. \A i, j \in present(jobs') : i # j => jobs'[i].rev # jobs'[j].rev
    BY <1>0, <1>2 DEF RevisionsOK
  <2> QED
    BY <1>0, <2>1, <2>2 DEF RevisionsOK, present
<1>4. LaunchesOK'
  <2>1. OneLaunch'
    BY QueuesSame DEF SupQueueKept
  <2> QED
    BY <1>1, <2>1, JobAssumption DEF LaunchesOK
<1>5. ReconcileOK'
  BY <1>0 DEF ReconcileOK, JobQueueKept
<1>6. CountsOK'
  <2>1. \A j \in present(jobs') : mayLaunch(j)' => launches[jobs'[j].rev] <= restarts
    <3> SUFFICES ASSUME NEW j \in present(jobs'), mayLaunch(j)'
                 PROVE  launches[jobs'[j].rev] <= restarts
      OBVIOUS
    <3>1. j \in JobIds /\ j \in present(jobs)
      BY <1>2, Numbers
    <3>2. jobs'[j].rev = jobs[j].rev /\ mayLaunch(j)
      BY <3>1 DEF ListMoves
    <3> QED
      BY <1>0, <3>1, <3>2 DEF CountsOK
  <2> QED
    BY <1>0, <2>1 DEF CountsOK, present
<1>7. PlaysOK'
  <2>1. \A j \in present(jobs') : jobs'[j].status \in {"scheduled", "missed"} => ~plays(j)'
    <3> SUFFICES ASSUME NEW j \in present(jobs'), jobs'[j].status \in {"scheduled", "missed"}
                 PROVE  ~plays(j)'
      OBVIOUS
    <3>1. j \in JobIds /\ jobs'[j].rev = jobs[j].rev
      BY <1>2, Numbers
    <3>2. ~plays(j)
      BY <3>1 DEF ListMoves
    <3> QED
      BY <3>1, <3>2 DEF plays
  <2> QED
    BY <2>1 DEF PlaysOK, present
<1>8. told => told'
  <2>1. CASE run.job = NoJob
    BY <2>1 DEF told
  <2>2. CASE run.job # NoJob
    <3>1. run.job \in JobIds /\ run.rev # 0
      BY <1>0, <2>2 DEF RevisionsOK, TypeInv, TypeOK, RunsOK, StoredRuns
    <3>2. CASE jobs'[run.job] = Absent
      BY <3>1, <3>2, Numbers DEF told
    <3>3. CASE jobs'[run.job] # Absent
      BY <3>1, <3>3 DEF told, ListMoves
    <3> QED
      BY <3>2, <3>3
  <2> QED
    BY <2>1, <2>2
<1>9. EffectsOK'
  BY <1>0, <1>8 DEF EffectsOK, JobQueueKept
<1> QED
  BY <1>3, <1>4, <1>5, <1>6, <1>7, <1>9 DEF StoryInv

\* A change of one job's status, by its entries.
LEMMA TransitionMoves ==
  ASSUME TypeInv, NEW j \in JobIds, NEW s \in Statuses, jobs' = transition(jobs, j, s)
  PROVE  /\ \A i \in JobIds : jobs'[i].rev = jobs[i].rev /\ (i # j => jobs'[i] = jobs[i])
         /\ jobs'[j].status = IF jobs[j].status = "none" THEN "none" ELSE s
<1>1. jobs \in [JobIds -> Entries]
  BY Numbers
<1>2. CASE jobs[j].status = "none"
  BY <1>2 DEF transition
<1>3. CASE jobs[j].status # "none"
  <2> DEFINE f == [jobs[j] EXCEPT !.status = s]
  <2>1. f.rev = jobs[j].rev /\ f.status = s
    BY <1>1, <1>3, EntryChanged
  <2>2. jobs' = [jobs EXCEPT ![j] = f]
    BY <1>3 DEF transition
  <2> HIDE DEF f
  <2>3. jobs'[j] = f /\ \A i \in JobIds : i # j => jobs'[i] = jobs[i]
    BY <1>1, <2>2
  <2> QED
    BY <1>3, <2>1, <2>3
<1> QED
  BY <1>2, <1>3

\* A deleted job leaves no trace.
LEMMA DeleteStory == TypeInv /\ StoryInv /\ DeleteTask => StoryInv'
<1> SUFFICES ASSUME TypeInv, StoryInv, DeleteTask PROVE StoryInv'
  OBVIOUS
<1>1. PICK j : j = Head(jq).job
  OBVIOUS
<1>2. /\ jt.pc = "idle" /\ jq # <<>> /\ Head(jq).op = "delete" /\ jq' = Tail(jq)
      /\ UNCHANGED <<sq, st, run, page, saves, restarts, launches>>
  BY DEF DeleteTask, TakeJob, supSide, bounds, history
<1>3. JobQueueKept /\ ~reconciling' /\ Head(jq) \in JobTasks
  BY <1>2, JobTaken
<1>4. SupQueueKept
  BY <1>2, QueuesSame
<1>5. CASE jobDone /\ jobs' = jobs
  BY <1>2, <1>3, <1>4, <1>5, Quiet, Numbers DEF jobDone, PageFades
<1>6. CASE jobs' = [jobs EXCEPT ![j] = Absent] /\ jt' = [jobIdle EXCEPT !.pc = "disarm", !.job = j]
  <2>1. j \in JobIds
    BY <1>1, <1>2, <1>3, TaskFields
  <2>2. jobs'[j] = Absent /\ \A i \in JobIds : i # j => jobs'[i] = jobs[i]
    BY <1>6, <2>1, Numbers
  <2>3. jt'.pc # "launching"
    BY <1>6 DEF jobIdle
  <2>4. \A i \in JobIds : mayLaunch(i)' => jobs'[i].rev = jobs[i].rev /\ mayLaunch(i)
    <3>1. ~mayLaunch(j)'
      BY <2>2, Numbers DEF mayLaunch
    <3>2. \A i \in JobIds : i # j /\ mayLaunch(i)' => mayLaunch(i)
      BY <1>3, <1>4, <2>2 DEF mayLaunch, SupQueueKept
    <3> QED
      BY <2>2, <3>1, <3>2
  <2>5. \A i \in JobIds : jobs'[i].status \in {"scheduled", "missed"} => ~plays(i)
    BY <2>2, Numbers DEF StoryInv, PlaysOK, present
  <2>6. ListMoves
    BY <2>2, <2>4, <2>5 DEF ListMoves
  <2> QED
    BY <1>2, <1>3, <2>3, <2>6, ListStory
<1> QED
  BY <1>1, <1>5, <1>6 DEF DeleteTask

\* The answer to a launch tells the job missed only when nothing was started.
LEMMA AnsweredStory == TypeInv /\ StoryInv /\ LaunchAnswered => StoryInv'
<1> SUFFICES ASSUME TypeInv, StoryInv, LaunchAnswered PROVE StoryInv'
  OBVIOUS
<1>0. /\ LaunchesOK /\ PlaysOK /\ ReconcileOK
  BY DEF StoryInv
<1>1. PICK j : j = jt.job
  OBVIOUS
<1>2. /\ jt.pc = "launching" /\ jt.reply # "none" /\ jt' = jobIdle
      /\ UNCHANGED <<sq, st, run, page, saves, restarts, launches, jq>>
  BY DEF LaunchAnswered, JobAt, jobDone, supSide, bounds, history
<1>3. j \in JobIds /\ jobs[j].status = "running" /\ j \in present(jobs)
  BY <1>0, <1>1, <1>2 DEF LaunchesOK, present
<1>4. /\ JobQueueKept /\ SupQueueKept /\ ~reconciling /\ ~reconciling'
  BY <1>0, <1>2, QueuesSame DEF ReconcileOK
<1>5. jt'.pc # "launching"
  BY <1>2 DEF jobIdle
<1>6. /\ \A i \in JobIds : jobs'[i].rev = jobs[i].rev /\ (i # j => jobs'[i] = jobs[i])
      /\ jobs'[j].status \in {"running", "missed", "finished"}
      /\ jobs'[j].status = "missed" => jt.reply # "ok"
  <2>1. "missed" \in Statuses /\ "finished" \in Statuses
    BY DEF Statuses
  <2>2. jt.reply \in {"ok", "busy", "failed"}
    BY <1>2 DEF TypeInv, TypeOK, QueuesOK, JobPositions
  <2>3. \/ jt.reply = "ok" /\ jobs' = jobs
        \/ jt.reply = "busy" /\ jobs' = transition(jobs, j, "missed")
        \/ jt.reply = "failed" /\ jobs' = transition(jobs, j, "finished")
    BY <1>1, <2>2 DEF LaunchAnswered
  <2> QED
    BY <1>3, <2>1, <2>3, TransitionMoves
<1>7. \A i \in JobIds : jobs'[i].status \in {"scheduled", "missed"} => ~plays(i)
  <2>1. jt.reply # "ok" => ~plays(j)
    BY <1>0, <1>1, <1>2 DEF PlaysOK
  <2>2. \A i \in JobIds : jobs[i].status \in {"scheduled", "missed"} => ~plays(i)
    BY <1>0 DEF PlaysOK, present
  <2> QED
    BY <1>6, <2>1, <2>2
<1>8. \A i \in JobIds : mayLaunch(i)' => mayLaunch(i)
  <2> SUFFICES ASSUME NEW i \in JobIds, mayLaunch(i)' PROVE mayLaunch(i)
    OBVIOUS
  <2>1. awaits(i)' => awaits(i)
    BY <1>4 DEF SupQueueKept
  <2>2. jobs'[i].status \in {"scheduled", "running"} => jobs[i].status = jobs'[i].status
    BY <1>3, <1>6
  <2> QED
    BY <1>4, <2>1, <2>2 DEF mayLaunch
<1>9. ListMoves
  BY <1>3, <1>6, <1>7, <1>8 DEF ListMoves
<1> QED
  BY <1>2, <1>4, <1>5, <1>9, ListStory

\* Reconciling happens before any attempt of this life of Chrome; a job that ran waits
\* again.
LEMMA ReconcileStory == TypeInv /\ StoryInv /\ ReconcileJobsTask => StoryInv'
<1> SUFFICES ASSUME TypeInv, StoryInv, ReconcileJobsTask PROVE StoryInv'
  OBVIOUS
<1>0. ReconcileOK
  BY DEF StoryInv
<1>1. /\ jt.pc = "idle" /\ jq # <<>> /\ Head(jq).op = "reconcile" /\ jq' = Tail(jq)
      /\ jobs' = reconciled(jobs) /\ jt' = [jobIdle EXCEPT !.pc = "rearm"]
      /\ UNCHANGED <<sq, st, run, page, saves, restarts, launches>>
  BY DEF ReconcileJobsTask, TakeJob, supSide, bounds, history
<1>2. JobQueueKept /\ ~reconciling'
  BY <1>1, JobTaken
<1>3. reconciling /\ page.rev = 0
  <2>1. 1 \in DOMAIN jq /\ Head(jq) = jq[1]
    BY <1>1, JobIndices DEF TypeInv, TypeOK, QueuesOK
  <2>2. reconciling
    BY <1>1, <2>1 DEF reconciling
  <2> QED
    BY <1>0, <2>2 DEF ReconcileOK
<1>4. jt'.pc # "launching"
  BY <1>1 DEF jobIdle
<1>5. \A i \in JobIds : /\ jobs'[i].rev = jobs[i].rev
                        /\ IF isActive(jobs[i]) THEN jobs'[i].status \in {"missed", "scheduled"}
                           ELSE jobs'[i] = jobs[i]
  <2> SUFFICES ASSUME NEW i \in JobIds
               PROVE  /\ jobs'[i].rev = jobs[i].rev
                      /\ IF isActive(jobs[i]) THEN jobs'[i].status \in {"missed", "scheduled"}
                         ELSE jobs'[i] = jobs[i]
    OBVIOUS
  <2>1. CASE ~isActive(jobs[i])
    BY <1>1, <2>1 DEF reconciled
  <2>2. CASE isActive(jobs[i])
    <3>1. PICK s \in {"missed", "scheduled"} : jobs'[i] = [jobs[i] EXCEPT !.status = s]
      BY <1>1, <2>2 DEF reconciled
    <3>2. jobs[i] \in Entries /\ jobs[i].status # "none" /\ s \in Statuses
      BY <2>2, Numbers DEF isActive, Statuses
    <3>3. jobs'[i].status = s /\ jobs'[i].rev = jobs[i].rev
      BY <3>1, <3>2, EntryChanged
    <3> QED
      BY <2>2, <3>3
  <2> QED
    BY <2>1, <2>2
<1>6. \A i \in JobIds : jobs'[i].status \in {"scheduled", "missed"} => ~plays(i)
  <2> SUFFICES ASSUME NEW i \in JobIds, jobs'[i].status \in {"scheduled", "missed"}
               PROVE  ~plays(i)
    OBVIOUS
  <2>1. jobs[i].status # "none"
    BY <1>5 DEF isActive
  <2>2. jobs[i].rev # 0
    BY <2>1, Numbers DEF present
  <2> QED
    BY <1>3, <2>2 DEF plays
<1>7. \A i \in JobIds : mayLaunch(i)' => mayLaunch(i)
  <2> SUFFICES ASSUME NEW i \in JobIds, mayLaunch(i)' PROVE mayLaunch(i)
    OBVIOUS
  <2>1. jobs'[i].status \in {"scheduled", "running"}
    BY DEF mayLaunch
  <2>2. isActive(jobs[i])
    BY <1>5, <2>1 DEF isActive
  <2> QED
    BY <1>3, <2>2 DEF mayLaunch, isActive
<1>8. ListMoves
  BY <1>5, <1>6, <1>7 DEF ListMoves, isActive
<1> QED
  BY <1>1, <1>2, <1>4, <1>8, ListStory

\* The end of a job is told before the marker of its run is written.
LEMMA FinishStory == TypeInv /\ StoryInv /\ FinishTask => StoryInv'
<1> SUFFICES ASSUME TypeInv, StoryInv, FinishTask PROVE StoryInv'
  OBVIOUS
<1>0. /\ RevisionsOK /\ LaunchesOK /\ ReconcileOK /\ CountsOK /\ PlaysOK /\ EffectsOK
  BY DEF StoryInv
<1>1. PICK j : j = Head(jq).job
  OBVIOUS
<1>2. /\ jt.pc = "idle" /\ jq # <<>> /\ Head(jq).op = "finish" /\ jq' = Tail(jq)
      /\ jobs' = transition(jobs, j, "finished") /\ st' = [st EXCEPT !.pc = "mark"]
      /\ UNCHANGED <<sq, jt, run, page, saves, restarts, launches>>
  BY <1>1 DEF FinishTask, TakeJob, bounds, history
<1>3. /\ JobQueueKept /\ ~reconciling' /\ j \in JobIds /\ finishes(j)
      /\ \A i \in JobIds : ~finishes(i)'
  BY <1>1, <1>2, JobTaken
<1>4. st.pc = "waiting" /\ run.job = j
  BY <1>0, <1>3 DEF EffectsOK
<1>5. /\ st'.pc = "mark" /\ st'.job = st.job /\ st'.rev = st.rev
  BY <1>2 DEF TypeInv, TypeOK, QueuesOK, SupPositions
<1>6. SupQueueKept /\ \A i \in JobIds : ~awaits(i) /\ ~awaits(i)'
  <2>1. \A i \in JobIds : ~awaits(i)
    BY <1>0, <1>2 DEF LaunchesOK
  <2> QED
    BY <1>2, <2>1, QueuesSame
<1>7. /\ \A i \in JobIds : jobs'[i].rev = jobs[i].rev /\ (i # j => jobs'[i] = jobs[i])
      /\ jobs'[j].status = IF jobs[j].status = "none" THEN "none" ELSE "finished"
  BY <1>2, <1>3, TransitionMoves DEF Statuses
<1>8. \A i \in JobIds : (jobs'[i].status # "none") <=> (jobs[i].status # "none")
  BY <1>7
<1>9. RevisionsOK'
  BY <1>0, <1>2, <1>5, <1>7, <1>8 DEF RevisionsOK, present
<1>10. LaunchesOK'
  BY <1>2, <1>5, <1>6 DEF LaunchesOK, SupQueueKept
<1>11. ReconcileOK'
  BY <1>3 DEF ReconcileOK, JobQueueKept
<1>12. CountsOK'
  <2>1. \A i \in JobIds : mayLaunch(i)' => mayLaunch(i)
    BY <1>3, <1>6, <1>7 DEF mayLaunch
  <2> QED
    BY <1>0, <1>2, <1>7, <1>8, <2>1 DEF CountsOK, present
<1>13. PlaysOK'
  <2>1. \A i \in JobIds : plays(i)' => plays(i)
    BY <1>2, <1>7 DEF plays
  <2>2. \A i \in JobIds : jobs'[i].status \in {"scheduled", "missed"} => jobs'[i] = jobs[i]
    BY <1>7
  <2> QED
    BY <1>0, <1>2, <1>8, <2>1, <2>2 DEF PlaysOK, present
<1>14. told'
  <2>1. CASE jobs[j].status = "none"
    <3>1. jobs[j] = Absent
      BY <1>3, <2>1, Numbers, EntryFields
    <3>2. jobs'[j].rev = 0 /\ run.rev # 0
      BY <1>0, <1>3, <1>4, <1>7, <3>1, Numbers DEF RevisionsOK
    <3> QED
      BY <1>2, <1>4, <3>2 DEF told
  <2>2. CASE jobs[j].status # "none"
    BY <1>2, <1>4, <1>7, <2>2 DEF told
  <2> QED
    BY <2>1, <2>2
<1>15. EffectsOK'
  BY <1>0, <1>2, <1>3, <1>4, <1>5, <1>14 DEF EffectsOK, JobQueueKept
<1> QED
  BY <1>9, <1>10, <1>11, <1>12, <1>13, <1>15 DEF StoryInv

\* An alarm launches a job that waits, once, or tells it missed.
LEMMA AlarmStory == TypeInv /\ StoryInv /\ AlarmTask => StoryInv'
<1> SUFFICES ASSUME TypeInv, StoryInv, AlarmTask PROVE StoryInv'
  OBVIOUS
<1>0. /\ RevisionsOK /\ LaunchesOK /\ ReconcileOK /\ CountsOK /\ PlaysOK /\ EffectsOK
  BY DEF StoryInv
<1>1. PICK j : j = Head(jq).job
  OBVIOUS
<1>2. /\ jt.pc = "idle" /\ jq # <<>> /\ Head(jq).op = "alarm" /\ jq' = Tail(jq)
      /\ UNCHANGED <<st, run, page, saves, restarts, launches>> /\ onAlarm(j)
  BY <1>1 DEF AlarmTask, TakeJob, bounds, history
<1>3. JobQueueKept /\ ~reconciling' /\ j \in JobIds
  BY <1>1, <1>2, JobTaken, TaskFields
<1>4. CASE jobDone /\ jobs' = jobs /\ sq' = sq
  BY <1>2, <1>3, <1>4, QueuesSame, Quiet, Numbers DEF jobDone, PageFades
<1>5. jobs[j].status = "scheduled" => /\ j \in present(jobs) /\ ~plays(j)
                                      /\ mayLaunch(j)
  BY <1>0, <1>3 DEF PlaysOK, present, mayLaunch
<1>6. CASE /\ jobs[j].status = "scheduled" /\ jobs' = transition(jobs, j, "missed")
           /\ jobDone /\ sq' = sq
  <2>1. /\ \A i \in JobIds : jobs'[i].rev = jobs[i].rev /\ (i # j => jobs'[i] = jobs[i])
        /\ jobs'[j].status = "missed"
    BY <1>3, <1>6, TransitionMoves DEF Statuses
  <2>2. jt'.pc = "idle"
    BY <1>6 DEF jobDone, jobIdle
  <2>3. \A i \in JobIds : jobs'[i].status \in {"scheduled", "missed"} => ~plays(i)
    BY <1>0, <1>5, <1>6, <2>1 DEF PlaysOK, present
  <2>4. SupQueueKept
    BY <1>6, QueuesSame
  <2>5. \A i \in JobIds : mayLaunch(i)' => mayLaunch(i)
    BY <1>3, <2>1, <2>4 DEF mayLaunch, SupQueueKept
  <2>6. ListMoves
    BY <1>6, <2>1, <2>3, <2>5 DEF ListMoves
  <2> QED
    BY <1>2, <1>3, <1>6, <2>2, <2>6, ListStory
<1>7. CASE /\ jobs[j].status = "scheduled" /\ jobs' = transition(jobs, j, "running")
           /\ sq' = Append(sq, supTask("launch", j, 0))
           /\ jt' = [jobIdle EXCEPT !.pc = "launching", !.job = j]
  <2>1. /\ \A i \in JobIds : jobs'[i].rev = jobs[i].rev /\ (i # j => jobs'[i] = jobs[i])
        /\ jobs'[j].status = "running"
    BY <1>3, <1>7, TransitionMoves DEF Statuses
  <2>2. jt'.pc = "launching" /\ jt'.job = j /\ jt'.reply = "none"
    BY <1>7 DEF jobIdle
  <2>3. PICK m : m = supTask("launch", j, 0)
    OBVIOUS
  <2>4. m \in SupTasks /\ m.op = "launch" /\ m.job = j
    <3>1. 0 \in 0..MaxRuns
      BY JobAssumption
    <3>2. supTask("launch", j, 0) \in SupTasks
      BY <1>3, <3>1, TaskTypes
    <3> QED
      BY <2>3, <3>2 DEF supTask
  <2>5. \A i \in JobIds : ~awaits(i) /\ ~(st.pc = "starting" /\ st.job = i)
    BY <1>0, <1>2 DEF LaunchesOK
  <2>6. OneLaunch' /\ \A i \in JobIds : awaits(i)' => i = j
    BY <1>7, <2>3, <2>4, <2>5, SupAdded
  <2>7. st.job # NoJob => st.job \in JobIds
    BY DEF TypeInv, TypeOK, QueuesOK, SupPositions
  <2>8. \A i \in JobIds : (jobs'[i].status # "none") <=> (jobs[i].status # "none")
    BY <1>7, <2>1
  <2>9. RevisionsOK'
    BY <1>0, <1>2, <2>1, <2>8 DEF RevisionsOK, present
  <2>10. LaunchesOK'
    BY <1>2, <1>3, <2>1, <2>2, <2>5, <2>6, <2>7 DEF LaunchesOK
  <2>11. ReconcileOK'
    BY <1>3 DEF ReconcileOK, JobQueueKept
  <2>12. CountsOK'
    <3>1. \A i \in JobIds : mayLaunch(i)' => mayLaunch(i)
      BY <1>3, <1>5, <1>7, <2>1, <2>6 DEF mayLaunch
    <3> QED
      BY <1>0, <1>2, <2>1, <2>8, <3>1 DEF CountsOK, present
  <2>13. PlaysOK'
    <3>1. \A i \in JobIds : plays(i)' <=> plays(i)
      BY <1>2, <2>1 DEF plays
    <3>2. \A i \in JobIds : jobs'[i].status \in {"scheduled", "missed"} => jobs'[i] = jobs[i]
      BY <2>1
    <3> QED
      BY <1>0, <1>3, <1>5, <1>7, <2>2, <2>8, <3>1, <3>2 DEF PlaysOK, present
  <2>14. EffectsOK'
    <3>1. told => told'
      <4>1. \A i \in JobIds : jobs[i].status = "finished" => jobs'[i].status = "finished"
        BY <1>7, <2>1
      <4>2. run.job # NoJob => run.job \in JobIds
        BY DEF TypeInv, TypeOK, RunsOK, StoredRuns
      <4> QED
        BY <1>2, <2>1, <4>1, <4>2 DEF told
    <3> QED
      BY <1>0, <1>2, <1>3, <3>1 DEF EffectsOK, JobQueueKept
  <2> QED
    BY <2>9, <2>10, <2>11, <2>12, <2>13, <2>14 DEF StoryInv
<1> QED
  BY <1>2, <1>4, <1>6, <1>7 DEF onAlarm

\* A saved job begins a revision of its own, which nothing knows yet.
LEMMA SaveStory == TypeInv /\ StoryInv /\ SaveTask => StoryInv'
<1> SUFFICES ASSUME TypeInv, StoryInv, SaveTask PROVE StoryInv'
  OBVIOUS
<1>0. /\ RevisionsOK /\ LaunchesOK /\ ReconcileOK /\ CountsOK /\ PlaysOK /\ EffectsOK
  BY DEF StoryInv
<1>1. /\ jt.pc = "idle" /\ jq # <<>> /\ Head(jq).op = "save" /\ jq' = Tail(jq)
      /\ UNCHANGED <<sq, st, run, page, restarts, launches>>
  BY DEF SaveTask, TakeJob, supSide, history
<1>2. JobQueueKept /\ ~reconciling'
  BY <1>1, JobTaken
<1>3. SupQueueKept /\ \A i \in JobIds : ~awaits(i) /\ ~awaits(i)'
  <2>1. \A i \in JobIds : ~awaits(i)
    BY <1>0, <1>1 DEF LaunchesOK
  <2> QED
    BY <1>1, <2>1, QueuesSame
<1>4. CASE jobDone /\ UNCHANGED <<jobs, saves>>
  BY <1>1, <1>2, <1>3, <1>4, Quiet, Numbers DEF jobDone, PageFades
<1>5. CASE \E j \in JobIds, c \in Configs :
             /\ jobs' \in scheduled(jobs, j, c) /\ saves < MaxSaves /\ saves' = saves + 1
             /\ jt' = [jobIdle EXCEPT !.pc = "arm", !.job = j]
  <2>1. PICK j \in JobIds, c \in Configs :
             /\ jobs' \in scheduled(jobs, j, c) /\ saves < MaxSaves /\ saves' = saves + 1
             /\ jt' = [jobIdle EXCEPT !.pc = "arm", !.job = j]
    BY <1>5
  <2>2. PICK fresh : fresh = saves + 1
    OBVIOUS
  <2>3. fresh \in 1..MaxSaves /\ fresh \in Nat /\ saves' = fresh /\ fresh > saves
    BY <2>1, <2>2, Numbers
  <2>4. jt'.pc = "arm"
    BY <2>1 DEF jobIdle
  <2>5. /\ jobs'[j].rev = fresh /\ jobs'[j].status = "scheduled"
        /\ \A i \in JobIds : i # j => jobs'[i] = jobs[i] \/ jobs'[i] = Absent
    <3>1. PICK job : job = [status |-> "scheduled", config |-> c, rev |-> saves + 1]
      OBVIOUS
    <3>2. PICK list : list = [jobs EXCEPT ![j] = job]
      OBVIOUS
    <3>3. jobs' \in pruneFinished(list)
      BY <2>1, <3>1, <3>2 DEF scheduled
    <3>4. \A i \in JobIds : jobs'[i] = list[i] \/ (~isActive(list[i]) /\ jobs'[i] = Absent)
      BY <3>3, PrunedShape
    <3>5. isActive(job) /\ job.rev = fresh /\ job.status = "scheduled"
      BY <2>2, <3>1 DEF isActive
    <3>6. list[j] = job /\ \A i \in JobIds : i # j => list[i] = jobs[i]
      BY <3>2, Numbers
    <3> QED
      BY <3>4, <3>5, <3>6
  <2>6. /\ \A i \in JobIds : i # j /\ jobs'[i].status # "none" =>
             jobs'[i] = jobs[i] /\ i \in present(jobs)
        /\ run.rev < fresh /\ st.rev < fresh /\ page.rev < fresh
        /\ \A i \in JobIds : jobs[i].rev < fresh
    BY <1>0, <2>3, <2>5, Numbers DEF RevisionsOK, present
  <2>7. RevisionsOK'
    <3>1. \A i \in JobIds : jobs'[i].rev <= fresh
      <4>1. \A i \in JobIds : i # j => jobs'[i].rev <= fresh
        BY <2>3, <2>5, <2>6, Numbers
      <4> QED
        BY <2>3, <2>5, <4>1
    <3>2. \A a, b \in present(jobs') : a # b => jobs'[a].rev # jobs'[b].rev
      <4> SUFFICES ASSUME NEW a \in present(jobs'), NEW b \in present(jobs'), a # b
                   PROVE  jobs'[a].rev # jobs'[b].rev
        OBVIOUS
      <4>1. a \in JobIds /\ b \in JobIds /\ jobs'[a].status # "none" /\ jobs'[b].status # "none"
        BY DEF present
      <4>2. CASE a = j
        BY <2>3, <2>5, <2>6, <4>1, <4>2, Numbers
      <4>3. CASE b = j
        BY <2>3, <2>5, <2>6, <4>1, <4>3, Numbers
      <4>4. CASE a # j /\ b # j
        BY <1>0, <2>6, <4>1, <4>4 DEF RevisionsOK
      <4> QED
        BY <4>2, <4>3, <4>4
    <3>3. run.rev <= fresh /\ st.rev <= fresh /\ page.rev <= fresh
      BY <2>3, <2>6, Numbers
    <3> QED
      BY <1>0, <1>1, <2>3, <3>1, <3>2, <3>3 DEF RevisionsOK
  <2>8. LaunchesOK'
    <3>1. st.pc = "starting" => st.job = NoJob
      <4>1. st.job # NoJob => st.job \in JobIds
        BY DEF TypeInv, TypeOK, QueuesOK, SupPositions
      <4> QED
        BY <1>0, <1>1, <4>1 DEF LaunchesOK
    <3> QED
      BY <1>1, <1>3, <2>4, <3>1, JobAssumption DEF LaunchesOK, SupQueueKept
  <2>9. ReconcileOK'
    BY <1>2 DEF ReconcileOK, JobQueueKept
  <2>10. CountsOK'
    <3>1. launches[fresh] = 0 /\ restarts \in Nat
      BY <1>0, <2>3, Numbers DEF CountsOK
    <3>2. \A i \in present(jobs') : mayLaunch(i)' => launches[jobs'[i].rev] <= restarts
      <4> SUFFICES ASSUME NEW i \in present(jobs'), mayLaunch(i)'
                   PROVE  launches[jobs'[i].rev] <= restarts
        OBVIOUS
      <4>1. CASE i = j
        BY <2>5, <3>1, <4>1
      <4>2. CASE i # j
        <5>1. i \in JobIds /\ jobs'[i] = jobs[i] /\ i \in present(jobs)
          BY <2>6, <4>2 DEF present
        <5>2. mayLaunch(i)
          BY <1>2, <1>3, <5>1 DEF mayLaunch
        <5> QED
          BY <1>0, <5>1, <5>2 DEF CountsOK
      <4> QED
        BY <4>1, <4>2
    <3>3. \A r \in 1..MaxSaves : r > fresh => launches[r] = 0
      BY <1>0, <2>3, Numbers DEF CountsOK
    <3> QED
      BY <1>0, <1>1, <2>3, <3>2, <3>3 DEF CountsOK
  <2>11. PlaysOK'
    <3> SUFFICES ASSUME NEW i \in present(jobs'), jobs'[i].status \in {"scheduled", "missed"}
                 PROVE  ~plays(i)'
      BY <2>4 DEF PlaysOK
    <3>1. CASE i = j
      BY <1>1, <2>3, <2>5, <2>6, <3>1, Numbers DEF plays
    <3>2. CASE i # j
      <4>1. i \in JobIds /\ jobs'[i] = jobs[i] /\ i \in present(jobs)
        BY <2>6, <3>2 DEF present
      <4> QED
        BY <1>0, <1>1, <4>1 DEF PlaysOK, plays
    <3> QED
      BY <3>1, <3>2
  <2>12. told => told'
    <3>1. CASE run.job = NoJob
      BY <1>1, <3>1 DEF told
    <3>2. CASE run.job # NoJob
      <4>1. run.job \in JobIds /\ run.rev # 0
        BY <1>0, <3>2 DEF RevisionsOK, TypeInv, TypeOK, RunsOK, StoredRuns
      <4>2. CASE run.job = j
        BY <1>1, <2>3, <2>5, <2>6, <4>2, Numbers DEF told
      <4>3. CASE jobs'[run.job] = Absent
        BY <1>1, <4>1, <4>3, Numbers DEF told
      <4>4. CASE jobs'[run.job] = jobs[run.job]
        BY <1>1, <4>4 DEF told
      <4> QED
        BY <2>5, <4>1, <4>2, <4>3, <4>4
    <3> QED
      BY <3>1, <3>2
  <2>13. EffectsOK'
    BY <1>0, <1>1, <1>2, <2>12 DEF EffectsOK, JobQueueKept
  <2> QED
    BY <2>7, <2>8, <2>9, <2>10, <2>11, <2>13 DEF StoryInv
<1>6. \/ jobDone /\ UNCHANGED <<jobs, saves>>
      \/ \E j \in JobIds, c \in Configs :
             /\ jobs' \in scheduled(jobs, j, c) /\ saves < MaxSaves /\ saves' = saves + 1
             /\ jt' = [jobIdle EXCEPT !.pc = "arm", !.job = j]
  <2>1. Head(jq) \in JobTasks
    BY <1>1, JobTaken
  <2>2. Head(jq).config \in Configs
    BY <1>1, <2>1, TaskFields
  <2> QED
    BY <2>2 DEF SaveTask
<1> QED
  BY <1>4, <1>5, <1>6

-----------------------------------------------------------------------------
(* Invariance of the story *)

\* Nothing is queued, nothing plays.
LEMMA InitStory == Init => StoryInv
<1> SUFFICES ASSUME Init PROVE StoryInv
  OBVIOUS
<1>1. \A j \in JobIds : jobs[j].rev = 0 /\ jobs[j].status = "none"
  BY DEF Init, Absent
<1>2. /\ sq = <<>> /\ jq = <<>> /\ jt.pc = "idle" /\ st.pc = "idle" /\ st.rev = 0
      /\ run.rev = 0 /\ run.job = NoJob /\ run.done = FALSE /\ run.status = "none"
      /\ page.rev = 0 /\ saves = 0 /\ restarts = 0
      /\ launches = [r \in 1..MaxSaves |-> 0]
  BY DEF Init, jobIdle, supIdle, NoRun, NoPage
<1>3. /\ \A j \in JobIds : ~awaits(j) /\ ~finishes(j)
      /\ OneLaunch /\ OneFinish /\ ReconcileFirst /\ ~reconciling
  BY <1>2 DEF awaits, finishes, OneLaunch, OneFinish, ReconcileFirst, reconciling
<1>4. RevisionsOK /\ LaunchesOK /\ ReconcileOK /\ PlaysOK /\ EffectsOK
  BY <1>1, <1>2, <1>3 DEF RevisionsOK, LaunchesOK, ReconcileOK, PlaysOK, EffectsOK, present
<1>5. CountsOK
  BY <1>1, <1>2 DEF CountsOK, present
<1> QED
  BY <1>4, <1>5 DEF StoryInv

\* Every step tells the same story.
LEMMA NextStory == TypeInv /\ StoryInv /\ [Next]_vars => StoryInv'
<1> SUFFICES ASSUME TypeInv, StoryInv, [Next]_vars PROVE StoryInv'
  OBVIOUS
<1>1. CASE JobStep
  BY <1>1, SaveStory, AlarmsStory, DeleteStory, AlarmStory, AnsweredStory, ReconcileStory,
     FinishStory
  DEF JobStep
<1>2. CASE SupStep
  BY <1>2, RefusedStory, BeginsStory, SucceedsStory, FailsStory, OutcomeStory, TaskStory,
     EffectsStory, MarkStory
  DEF SupStep
<1>3. CASE PageEnds \/ PageReports \/ UserStarts \/ UserClosesTab \/ Crash \/ Restart
  BY <1>3, PageStory, HandStory, CrashStory
<1>4. CASE \/ \E j \in JobIds \cup {NoJob}, c \in Configs : UserSaves(j, c)
           \/ \E j \in JobIds : UserDeletes(j) \/ AlarmFires(j) \/ AlarmAdmitted(j)
           \/ Tick \/ UNCHANGED vars
  BY <1>4, OutsideStory
<1> QED
  BY <1>1, <1>2, <1>3, <1>4 DEF Next

\* The story of every job, in every reachable state.
LEMMA StoryHolds == Spec => []StoryInv
<1>1. IInv => TypeInv
  BY DEF IInv
<1> QED
  BY <1>1, Invariant, InitStory, NextStory, PTL DEF Spec

\* A saved job is launched once, and once more at most for every restart of Chrome: no
\* second alarm, crash, repeated message or edit launches it again (onAlarm, startScheduled,
\* reconcileJobs).
THEOREM LaunchesAreSingle == Spec => []LaunchedOnce
<1>1. StoryInv => LaunchedOnce
  BY DEF StoryInv, CountsOK, LaunchedOnce
<1> QED
  BY <1>1, StoryHolds, PTL

\* A marked run has ended its job, whatever died between the end of the job and the marker
\* (runTerminalEffects, completeTerminal, finishJob).
THEOREM MarkersTellTheTruth == Spec => []MarkedMeansFinished
<1>1. StoryInv => MarkedMeansFinished
  BY DEF StoryInv, EffectsOK, told, MarkedMeansFinished
<1> QED
  BY <1>1, StoryHolds, PTL

\* No job is told missed while an attempt of it plays (onAlarm, reconcileJobs).
THEOREM MissedMeansNotAtWork == Spec => []MissedIsNotPlaying
<1>1. StoryInv => MissedIsNotPlaying
  BY DEF StoryInv, PlaysOK, plays, present, MissedIsNotPlaying
<1> QED
  BY <1>1, StoryHolds, PTL
=============================================================================
