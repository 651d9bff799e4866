---------------------------- MODULE JobScheduler ----------------------------
(***************************************************************************)
(* Scheduled jobs: the stored list, Chrome's alarms, the jobs queue of the *)
(* background and its meeting with the supervisor's queue.                 *)
(*                                                                         *)
(* Two serial queues call each other.  A task of the jobs queue (onAlarm)  *)
(* waits for a launch, which is a task of the supervisor's queue; a task   *)
(* of the supervisor's queue (the effects of a run) waits for finishJob,   *)
(* which is a task of the jobs queue.  A task is cut where it waits and    *)
(* where a write and what follows it may be separated by the worker's end. *)
(*                                                                         *)
(* Of the supervisor only what jobs can see is kept: whether the run of a  *)
(* job goes on, has ended, and has had its effects (RunSupervisor has the  *)
(* rest).  Times are the points at which alarms are due and windows end.   *)
(***************************************************************************)
EXTENDS Naturals, Sequences, FiniteSets

CONSTANTS JobIds,          \* uuids of jobs
          NoJob,           \* no job: a manual run, a new job
          Configs,         \* what a job asks for: its occupancy window
          Limit,           \* SCHEDULED_JOB_LIMIT (10)
          Keep,            \* FINISHED_JOB_KEEP (20)
          MaxSaves,        \* bounds of the model: saves and deletions,
          MaxRuns,         \* runs started,
          MaxDisruptions,  \* crashes, restarts, stops and lost events,
          MaxQueue,        \* waiting tasks per queue
          MaxTime          \* and the clock

ASSUME JobAssumption ==
  /\ IsFiniteSet(JobIds) /\ NoJob \notin JobIds
  /\ \A c \in Configs : c.alarm \in Nat /\ c.stop \in Nat /\ c.alarm < c.stop
  /\ Limit \in Nat /\ Keep \in Nat
  /\ MaxSaves \in Nat /\ MaxRuns \in Nat /\ MaxDisruptions \in Nat
  /\ MaxQueue \in Nat /\ MaxTime \in Nat

VARIABLES
  jobs,       \* storage.scheduledJobs
  alarms,     \* when Chrome fires the alarm of a job (Off: never)
  fired,      \* alarm events that wait for supervisorReady
  jq, jt,     \* the jobs queue and the task it executes
  sq, st,     \* the supervisor's queue and the task it executes
  ready,      \* supervisorReady has resolved
  run,        \* the stored logical run, as jobs see it
  busy,       \* activeRun is not terminal
  page,       \* the attempt in its tab
  now,        \* the clock
  saves,      \* saves and deletions so far; numbers the revisions of jobs
  drawn,      \* job ids drawn so far
  disruptions,\* crashes, restarts, manual starts, closed tabs, lost events so far
  restarts,   \* history: restarts of Chrome so far
  launches    \* history: runs started for each revision

jobSide == <<jobs, alarms, fired, jq, jt>>
supSide == <<sq, st, ready, run, busy>>
bounds  == <<saves, drawn, disruptions>>
history == <<restarts, launches>>
vars == <<jobSide, supSide, page, now, bounds, history>>

-----------------------------------------------------------------------------
(* Values *)

Off == MaxTime + 1
Absent == [status |-> "none", config |-> [alarm |-> 0, stop |-> 0], rev |-> 0]
isActive(job) == job.status \in {"scheduled", "running"}
present(list) == {j \in JobIds : list[j].status # "none"}
activeJobs(list) == {j \in JobIds : isActive(list[j])}

\* rev numbers the saves of jobs (history): a run belongs to one of them.
NoRun == [n |-> 0, job |-> NoJob, rev |-> 0, status |-> "none", done |-> FALSE]
NoPage == [n |-> 0, rev |-> 0, stage |-> "none"]
jobIdle == [pc |-> "idle", job |-> NoJob, reply |-> "none"]
supIdle == [pc |-> "idle", job |-> NoJob, rev |-> 0]

jobTask(op, j, c) == [op |-> op, job |-> j, config |-> c]
plainTask(op, j) == jobTask(op, j, Absent.config)
supTask(op, j, n) == [op |-> op, job |-> j, n |-> n]

Init ==
  /\ jobs = [j \in JobIds |-> Absent]
  /\ alarms = [j \in JobIds |-> Off] /\ fired = {}
  /\ jq = <<>> /\ jt = jobIdle /\ sq = <<>> /\ st = supIdle /\ ready = TRUE
  /\ run = NoRun /\ busy = FALSE /\ page = NoPage /\ now = 0
  /\ saves = 0 /\ drawn = {} /\ disruptions = 0 /\ restarts = 0
  /\ launches = [r \in 1..MaxSaves |-> 0]

-----------------------------------------------------------------------------
(* Pure functions of shared/scheduled-jobs.ts *)

overlap(c, d) == c.alarm < d.stop /\ d.alarm < c.stop

findScheduleConflict(list, c, exclude) ==
  \E j \in activeJobs(list) \ {exclude} : overlap(list[j].config, c)

\* Keep of the jobs that are done stay.  (The latest ones; which ones they are makes no
\* difference to any property and is left open.)
pruneFinished(list) ==
  LET done == present(list) \ activeJobs(list)
  IN IF Cardinality(done) <= Keep THEN {list}
     ELSE {[j \in JobIds |-> IF j \in done \ kept THEN Absent ELSE list[j]] :
             kept \in {k \in SUBSET done : Cardinality(k) = Keep}}

\* Mutant: windows are not compared.
schedulableAnyway(list, id, c) ==
  /\ c.stop > now
  /\ id = NoJob \/ list[id].status \notin {"none", "running"}
  /\ Cardinality(activeJobs(list) \ {id}) < Limit

\* scheduleJob accepts: valid, known and not running, no conflict, below the limit.
schedulable(list, id, c) ==
  /\ c.stop > now
  /\ id = NoJob \/ list[id].status \notin {"none", "running"}
  /\ ~findScheduleConflict(list, c, id)
  /\ Cardinality(activeJobs(list) \ {id}) < Limit

\* scheduleJob: an edited job starts all over.
scheduled(list, j, c) ==
  pruneFinished([list EXCEPT ![j] = [status |-> "scheduled", config |-> c, rev |-> saves + 1]])

\* Mutant: a job that was deleted comes back.
transitionAny(list, j, status) == [list EXCEPT ![j].status = status]

\* markJobRunning, markJobMissed, finishJob: whatever the job's status is.
transition(list, j, status) ==
  IF list[j].status = "none" THEN list ELSE [list EXCEPT ![j].status = status]

reconciled(list) ==
  [j \in JobIds |-> IF ~isActive(list[j]) THEN list[j]
                    ELSE [list[j] EXCEPT !.status = IF now >= list[j].config.stop
                                                    THEN "missed" ELSE "scheduled"]]

alarmAt(c) == IF now < c.alarm THEN c.alarm ELSE now

-----------------------------------------------------------------------------
(* The jobs queue *)

TakeJob(op) == /\ jt.pc = "idle" /\ jq # <<>> /\ Head(jq).op = op
               /\ jq' = Tail(jq)
JobAt(pc) == jt.pc = pc
jobDone == jt' = jobIdle

\* SCHEDULE_JOB: the list is written, then the alarm is created.
SaveTask ==
  /\ TakeJob("save")
  /\ LET m == Head(jq)
         j == IF m.job # NoJob THEN m.job
              ELSE IF drawn # JobIds THEN CHOOSE i \in JobIds : i \notin drawn ELSE NoJob
     IN IF schedulable(jobs, m.job, m.config) /\ j \in JobIds /\ saves < MaxSaves
        THEN /\ jobs' \in scheduled(jobs, j, m.config)
             /\ saves' = saves + 1 /\ drawn' = drawn \cup {j}
             /\ jt' = [jobIdle EXCEPT !.pc = "arm", !.job = j]
        ELSE jobDone /\ UNCHANGED <<jobs, saves, drawn>>
  /\ UNCHANGED <<alarms, fired, supSide, page, now, disruptions, history>>

Arm ==
  /\ JobAt("arm")
  /\ alarms' = [alarms EXCEPT ![jt.job] = alarmAt(jobs[jt.job].config)]
  /\ jobDone
  /\ UNCHANGED <<jobs, fired, jq, supSide, page, now, bounds, history>>

\* DELETE_JOB: a running job stays; the alarm goes after the job.
DeleteTask ==
  /\ TakeJob("delete")
  /\ LET j == Head(jq).job
     IN IF jobs[j].status \in {"none", "running"} THEN jobDone /\ UNCHANGED jobs
        ELSE /\ jobs' = [jobs EXCEPT ![j] = Absent]
             /\ jt' = [jobIdle EXCEPT !.pc = "disarm", !.job = j]
  /\ UNCHANGED <<alarms, fired, supSide, page, now, bounds, history>>

Disarm ==
  /\ JobAt("disarm")
  /\ alarms' = [alarms EXCEPT ![jt.job] = Off]
  /\ jobDone
  /\ UNCHANGED <<jobs, fired, jq, supSide, page, now, bounds, history>>

\* Mutant: the status of the job is not looked at.
onAlarmAnyway(j) ==
  IF jobs[j].status = "none" THEN jobDone /\ UNCHANGED <<jobs, sq>>
  ELSE IF now >= jobs[j].config.stop
  THEN jobs' = transition(jobs, j, "missed") /\ jobDone /\ UNCHANGED sq
  ELSE /\ jobs' = transition(jobs, j, "running")
       /\ sq' = Append(sq, supTask("launch", j, 0))
       /\ jt' = [jobIdle EXCEPT !.pc = "launching", !.job = j]

\* onAlarm: too late, or written running and then launched.
onAlarm(j) ==
  IF jobs[j].status # "scheduled" THEN jobDone /\ UNCHANGED <<jobs, sq>>
  ELSE IF now >= jobs[j].config.stop
  THEN jobs' = transition(jobs, j, "missed") /\ jobDone /\ UNCHANGED sq
  ELSE /\ jobs' = transition(jobs, j, "running")
       /\ sq' = Append(sq, supTask("launch", j, 0))
       /\ jt' = [jobIdle EXCEPT !.pc = "launching", !.job = j]

AlarmTask ==
  /\ TakeJob("alarm")
  /\ onAlarm(Head(jq).job)
  /\ UNCHANGED <<alarms, fired, st, ready, run, busy, page, now, bounds, history>>

\* The supervisor's answer: started, refused as busy, or failed.
LaunchAnswered ==
  /\ JobAt("launching") /\ jt.reply # "none"
  /\ jobs' = CASE jt.reply = "ok"     -> jobs
               [] jt.reply = "busy"   -> transition(jobs, jt.job, "missed")
               [] jt.reply = "failed" -> transition(jobs, jt.job, "finished")
  /\ jobDone
  /\ UNCHANGED <<alarms, fired, jq, supSide, page, now, bounds, history>>

\* onStartup, onInstalled: the list is written, then the alarms are created.
ReconcileJobsTask ==
  /\ TakeJob("reconcile")
  /\ jobs' = reconciled(jobs)
  /\ jt' = [jobIdle EXCEPT !.pc = "rearm"]
  /\ UNCHANGED <<alarms, fired, supSide, page, now, bounds, history>>

Rearm ==
  /\ JobAt("rearm")
  /\ alarms' = [j \in JobIds |-> IF isActive(jobs[j]) THEN alarmAt(jobs[j].config)
                                 ELSE alarms[j]]
  /\ jobDone
  /\ UNCHANGED <<jobs, fired, jq, supSide, page, now, bounds, history>>

\* The finishJob of the effects; the supervisor's task that waits for it goes on.
FinishTask ==
  /\ TakeJob("finish")
  /\ jobs' = transition(jobs, Head(jq).job, "finished")
  /\ st' = [st EXCEPT !.pc = "mark"]
  /\ UNCHANGED <<alarms, fired, jt, sq, ready, run, busy, page, now, bounds, history>>

-----------------------------------------------------------------------------
(* The supervisor's queue *)

TakeSup(op) == /\ st.pc = "idle" /\ sq # <<>> /\ Head(sq).op = op
               /\ sq' = Tail(sq)
SupAt(pc) == st.pc = pc
supDone == st' = supIdle /\ ready' = TRUE
supGoto(pc) == st' = [supIdle EXCEPT !.pc = pc] /\ UNCHANGED ready

\* The onAlarm that waits for the launch of job j is answered; a manual start has none.
answerLaunch(j, reply) ==
  jt' = IF j # NoJob THEN [jt EXCEPT !.reply = reply] ELSE jt

\* startScheduled or startManual, refused: invalid by now, or another run goes on.
StartRefused ==
  /\ TakeSup("launch")
  /\ LET j == Head(sq).job
         reply == IF j # NoJob /\ jobs[j].config.stop <= now THEN "failed" ELSE "busy"
     IN /\ reply = "failed" \/ busy
        /\ answerLaunch(j, reply)
  /\ UNCHANGED <<jobs, alarms, fired, jq, st, ready, run, busy, page, now, bounds, history>>

StartBegins ==
  /\ TakeSup("launch") /\ ~busy /\ run.n < MaxRuns
  /\ LET j == Head(sq).job
         rev == IF j = NoJob THEN 0 ELSE jobs[j].rev
     IN /\ j # NoJob => jobs[j].config.stop > now
        /\ st' = [pc |-> "starting", job |-> j, rev |-> rev]
        /\ launches' = IF j = NoJob THEN launches ELSE [launches EXCEPT ![rev] = @ + 1]
  /\ busy' = TRUE
  /\ UNCHANGED <<jobSide, ready, run, page, now, bounds, restarts>>

\* The logical run is written over the one before; the page takes START.
StartSucceeds ==
  /\ SupAt("starting")
  /\ run' = [n |-> run.n + 1, job |-> st.job, rev |-> st.rev, status |-> "running", done |-> FALSE]
  /\ page' = [n |-> run.n + 1, rev |-> st.rev, stage |-> "playing"]
  /\ answerLaunch(st.job, "ok")
  /\ supDone
  /\ UNCHANGED <<jobs, alarms, fired, jq, sq, busy, now, bounds, history>>

\* No tab, no page, START refused: before or after the logical run was written.
StartFails ==
  /\ SupAt("starting")
  /\ run' \in {run, [NoRun EXCEPT !.n = run.n]}
  /\ busy' = FALSE
  /\ answerLaunch(st.job, "failed")
  /\ supDone
  /\ UNCHANGED <<jobs, alarms, fired, jq, sq, page, now, bounds, history>>

\* ATTEMPT_FINISHED: of the current run the outcome is stored; its effects take their
\* turn at the end of the queue.
OutcomeTask ==
  /\ st.pc = "idle" /\ sq # <<>> /\ Head(sq).op = "finished"
  /\ IF run.n = Head(sq).n /\ run.status = "running"
     THEN /\ run' = [run EXCEPT !.status = "terminal"]
          /\ sq' = Append(Tail(sq), supTask("complete", NoJob, 0))
     ELSE sq' = Tail(sq) /\ UNCHANGED run
  /\ UNCHANGED <<jobSide, st, ready, busy, page, now, bounds, history>>

\* completeTerminal: nothing when the marker is there already.
CompleteTask ==
  /\ TakeSup("complete")
  /\ IF run.status = "terminal" /\ ~run.done THEN supGoto("effects") ELSE supDone
  /\ UNCHANGED <<jobSide, run, busy, page, now, bounds, history>>

\* onTabRemoved, onTabUrlChanged: the run of the tab ends here and now, with its effects.
InterruptTask ==
  /\ TakeSup("interrupt")
  /\ IF run.n = Head(sq).n
     THEN /\ busy' = FALSE
          /\ IF run.status = "running"
             THEN run' = [run EXCEPT !.status = "terminal"] /\ supGoto("effects")
             ELSE supDone /\ UNCHANGED run
     ELSE supDone /\ UNCHANGED <<run, busy>>
  /\ UNCHANGED <<jobSide, page, now, bounds, history>>

\* The bootstrap reconcile: repeated effects, a collected outcome, a lost context.
BootTask ==
  /\ TakeSup("boot")
  /\ \/ /\ run.status = "none" \/ (run.status = "terminal" /\ run.done)
             \/ (run.status = "running" /\ page.n = run.n /\ page.stage = "playing")
        /\ supDone /\ UNCHANGED <<run, busy>>
     \/ /\ run.status = "terminal" /\ ~run.done
        /\ supGoto("effects") /\ UNCHANGED <<run, busy>>
     \/ /\ run.status = "running" /\ ~(page.n = run.n /\ page.stage = "playing")
        /\ run' = [run EXCEPT !.status = "terminal"] /\ supGoto("effects")
        /\ busy' = (busy /\ page.n = run.n /\ page.stage = "reported")
  /\ UNCHANGED <<jobSide, page, now, bounds, history>>

\* Mutant: the end of the job is not waited for.
EffectsForgotten ==
  /\ SupAt("effects")
  /\ supGoto("mark")
  /\ UNCHANGED <<jobSide, sq, run, busy, page, now, bounds, history>>

\* runTerminalEffects: badge and notification, then the end of the scheduled job.
Effects ==
  /\ SupAt("effects")
  /\ IF run.job = NoJob THEN supGoto("mark") /\ UNCHANGED jq
     ELSE jq' = Append(jq, plainTask("finish", run.job)) /\ supGoto("waiting")
  /\ UNCHANGED <<jobs, alarms, fired, jt, sq, run, busy, page, now, bounds, history>>

Mark ==
  /\ SupAt("mark")
  /\ run' = [run EXCEPT !.done = TRUE]
  /\ supDone
  /\ UNCHANGED <<jobSide, sq, busy, page, now, bounds, history>>

-----------------------------------------------------------------------------
(* The attempt in its tab *)

disruption == disruptions < MaxDisruptions /\ disruptions' = disruptions + 1
jobRoom == Len(jq) < MaxQueue
supRoom == Len(sq) < MaxQueue

\* The attempt is over; its last RUN_EVENT makes the projection terminal, unless lost.
PageEnds ==
  /\ page.stage = "playing"
  /\ page' = [page EXCEPT !.stage = "finishing"]
  /\ \/ busy' = FALSE /\ UNCHANGED disruptions
     \/ disruption /\ UNCHANGED busy
  /\ UNCHANGED <<jobSide, sq, st, ready, run, now, saves, drawn, history>>

PageReports ==
  /\ page.stage = "finishing" /\ supRoom
  /\ page' = [page EXCEPT !.stage = "reported"]
  /\ sq' = Append(sq, supTask("finished", NoJob, page.n))
  /\ UNCHANGED <<jobSide, st, ready, run, busy, now, bounds, history>>

-----------------------------------------------------------------------------
(* The user, Chrome, time *)

UserSaves(j, c) ==
  /\ jobRoom /\ saves < MaxSaves
  /\ jq' = Append(jq, jobTask("save", j, c))
  /\ UNCHANGED <<jobs, alarms, fired, jt, supSide, page, now, bounds, history>>

UserDeletes(j) ==
  /\ jobRoom /\ saves < MaxSaves /\ jobs[j].status # "none"
  /\ jq' = Append(jq, plainTask("delete", j))
  /\ saves' = saves + 1
  /\ UNCHANGED <<jobs, alarms, fired, jt, supSide, page, now, drawn, disruptions, history>>

UserStarts ==
  /\ supRoom /\ ready /\ run.n < MaxRuns /\ disruption
  /\ sq' = Append(sq, supTask("launch", NoJob, 0))
  /\ UNCHANGED <<jobSide, st, ready, run, busy, page, now, saves, drawn, history>>

UserClosesTab ==
  /\ supRoom /\ disruption /\ page # NoPage
  /\ page' = NoPage
  /\ sq' = Append(sq, supTask("interrupt", NoJob, page.n))
  /\ UNCHANGED <<jobSide, st, ready, run, busy, now, saves, drawn, history>>

\* An alarm fires once, when it is due or any time later.
AlarmFires(j) ==
  /\ alarms[j] <= now
  /\ alarms' = [alarms EXCEPT ![j] = Off]
  /\ fired' = fired \cup {j}
  /\ UNCHANGED <<jobs, jq, jt, supSide, page, now, bounds, history>>

\* The handler has waited for supervisorReady.
AlarmAdmitted(j) ==
  /\ j \in fired /\ ready
  /\ fired' = fired \ {j}
  /\ jq' = Append(jq, plainTask("alarm", j))
  /\ UNCHANGED <<jobs, alarms, jt, supSide, page, now, bounds, history>>

\* The worker dies; the next event starts it, the supervisor's reconcile is its first
\* task.  Only messages of the panel do not wait for it.
reboot(tasks) ==
  /\ fired' = {} /\ jq' = tasks /\ jt' = jobIdle
  /\ sq' = <<supTask("boot", NoJob, 0)>> /\ st' = supIdle /\ ready' = FALSE

Crash ==
  /\ disruption
  /\ reboot(<<>>)
  /\ UNCHANGED <<jobs, alarms, run, busy, page, now, saves, drawn, history>>

\* Chrome restarts or the extension is updated: no page is connected any more, and the
\* alarms may be gone.
Restart ==
  /\ disruption
  /\ reboot(<<plainTask("reconcile", NoJob)>>)
  /\ page' = NoPage /\ restarts' = restarts + 1
  /\ alarms' \in {alarms, [j \in JobIds |-> Off]}
  /\ UNCHANGED <<jobs, run, busy, now, saves, drawn, launches>>

Tick ==
  /\ now < MaxTime /\ now' = now + 1
  /\ UNCHANGED <<jobSide, supSide, page, bounds, history>>

-----------------------------------------------------------------------------
(* Specification *)

JobStep == \/ SaveTask \/ Arm \/ DeleteTask \/ Disarm \/ AlarmTask \/ LaunchAnswered
           \/ ReconcileJobsTask \/ Rearm \/ FinishTask

SupStep == \/ StartRefused \/ StartBegins \/ StartSucceeds \/ StartFails \/ OutcomeTask
           \/ CompleteTask \/ InterruptTask \/ BootTask \/ Effects \/ Mark

Next ==
  \/ JobStep \/ SupStep
  \/ PageEnds \/ PageReports
  \/ \E j \in JobIds \cup {NoJob}, c \in Configs : UserSaves(j, c)
  \/ \E j \in JobIds : UserDeletes(j) \/ AlarmFires(j) \/ AlarmAdmitted(j)
  \/ UserStarts \/ UserClosesTab
  \/ Crash \/ Restart \/ Tick

Spec == Init /\ [][Next]_vars

\* The worker runs what is queued, Chrome fires what is due, an attempt ends and reports.
FairSpec ==
  /\ Spec
  /\ WF_vars(JobStep) /\ WF_vars(SupStep) /\ WF_vars(PageEnds) /\ WF_vars(PageReports)
  /\ \A j \in JobIds : WF_vars(AlarmFires(j)) /\ WF_vars(AlarmAdmitted(j))

-----------------------------------------------------------------------------
(* Properties *)

Statuses == {"scheduled", "running", "finished", "missed"}
StoredJobs == [status : Statuses, config : Configs, rev : 1..MaxSaves]
JobTasks == [op : {"save"}, job : JobIds \cup {NoJob}, config : Configs]
       \cup [op : {"delete", "alarm", "finish"}, job : JobIds, config : {Absent.config}]
       \cup [op : {"reconcile"}, job : {NoJob}, config : {Absent.config}]
SupTasks == [op : {"launch", "finished", "complete", "interrupt", "boot"},
             job : JobIds \cup {NoJob}, n : 0..MaxRuns]

JobPositions == [pc : {"idle", "arm", "disarm", "launching", "rearm"},
                 job : JobIds \cup {NoJob}, reply : {"none", "ok", "busy", "failed"}]
SupPositions == [pc : {"idle", "starting", "effects", "waiting", "mark"},
                 job : JobIds \cup {NoJob}, rev : 0..MaxSaves]
StoredRuns == [n : 0..MaxRuns, job : JobIds \cup {NoJob}, rev : 0..MaxSaves,
               status : {"none", "running", "terminal"}, done : BOOLEAN]
Pages == [n : 0..MaxRuns, rev : 0..MaxSaves,
          stage : {"none", "playing", "finishing", "reported"}]

StorageOK == /\ jobs \in [JobIds -> {Absent} \cup StoredJobs]
             /\ alarms \in [JobIds -> Nat] /\ fired \subseteq JobIds
QueuesOK == /\ jq \in Seq(JobTasks) /\ sq \in Seq(SupTasks)
            /\ jt \in JobPositions /\ st \in SupPositions
RunsOK == run \in StoredRuns /\ page \in Pages /\ ready \in BOOLEAN /\ busy \in BOOLEAN
CountersOK ==
  /\ now \in 0..MaxTime /\ saves \in 0..MaxSaves /\ drawn \subseteq JobIds
  /\ disruptions \in 0..MaxDisruptions /\ restarts \in 0..disruptions
  /\ launches \in [1..MaxSaves -> Nat]

\* Every variable has its type.
TypeOK == StorageOK /\ QueuesOK /\ RunsOK /\ CountersOK

\* No two jobs that wait or run have overlapping windows, through saves, edits, restarts
\* and late ends (scheduleJob, reconcileJobs, transition).
NoOverlap ==
  \A i, j \in activeJobs(jobs) : i # j => ~overlap(jobs[i].config, jobs[j].config)

\* The stored list does not grow beyond its two limits, whichever way jobs end
\* (scheduleJob, pruneFinished).
ListBounded ==
  /\ Cardinality(activeJobs(jobs)) <= Limit
  /\ Cardinality(present(jobs)) <= Limit + Keep

\* A saved job is launched once, however often its alarm fires; only a restart of Chrome
\* may launch it again (onAlarm, reconcileJobs).
LaunchedOnce == \A r \in 1..MaxSaves : launches[r] <= 1 + restarts

\* A run whose effects are marked complete has ended its job: the marker is not written
\* before the job is (runTerminalEffects, completeTerminal, finishJob).
MarkedMeansFinished ==
  run.status = "terminal" /\ run.done /\ run.job # NoJob /\ jobs[run.job].rev = run.rev
  => jobs[run.job].status = "finished"

\* A job is told missed only when no attempt of it is at work (onAlarm, reconcileJobs).
MissedIsNotPlaying ==
  \A j \in JobIds : jobs[j].status = "missed" =>
    ~(page.stage = "playing" /\ page.rev = jobs[j].rev)

\* What the documents say and the code does not do: each is a run of its own.

\* The end of a run ends its job (docs/specs/scheduler/20-design.md, run flow: the job
\* becomes finished when the run is terminal; onAlarm, runTerminalEffects).
RunEndsItsJob ==
  \A n \in 1..MaxRuns :
    run.n = n /\ run.status = "terminal" ~>
      run.n # n \/ run.job = NoJob \/ jobs[run.job].rev # run.rev
        \/ jobs[run.job].status = "finished"
=============================================================================
