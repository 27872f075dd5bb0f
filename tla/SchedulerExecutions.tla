--------------------------- MODULE SchedulerExecutions ---------------------------
(***************************************************************************)
(* Runs of the scheduled jobs and their records in scheduler_executions.    *)
(* Six writers share a record without any lock or compare-and-set: the      *)
(* trigger call, the APScheduler listeners (detached asyncio tasks), the    *)
(* progress reports of the job itself, the zombie checker, and the cancel,  *)
(* mark-failed and delete calls of an administrator.                        *)
(*                                                                         *)
(* A step runs from one await to the next: every find and every write of    *)
(* the async driver is a step of its own. update_job_progress uses the      *)
(* blocking driver inside the event loop, so its find and write are one.    *)
(*                                                                         *)
(* Records are numbered in the order of their timestamps. Time is the two   *)
(* cutoffs the queries use: records from young on are at most 5 minutes     *)
(* old, records before old are more than 30 minutes old.                    *)
(***************************************************************************)
EXTENDS Naturals, Sequences, FiniteSets

CONSTANTS
  Jobs,        \* APScheduler job ids
  Reporting,   \* jobs that call update_job_progress (tushare_financial_sync)
  Polling,     \* jobs that call _should_stop (the other Tushare syncs)
  MaxDocs,     \* bound: records ever inserted
  MaxRuns,     \* bound: runs started or missed, over all jobs
  MaxTriggers, \* bound: manual triggers
  MaxRestarts  \* bound: restarts of the server process

ASSUME KindsAssumption == Reporting \subseteq Jobs /\ Polling \subseteq Jobs
ASSUME BoundsAssumption ==
  MaxDocs \in Nat /\ MaxRuns \in Nat /\ MaxTriggers \in Nat /\ MaxRestarts \in Nat

VARIABLES
  docs,      \* the records, oldest first: job, status, cancel_requested
  young, old,
  active,    \* jobs with a running instance (max_instances = 1)
  serviceUp, \* has get_scheduler_service() created the service in this process?
  recorder,  \* _record_job_execution tasks: job, run, status, and the record found
  checker,   \* records the zombie checker has read and not yet written
  user,      \* an administrator's call between its find and its write
  sawCancel, \* history: sawCancel[j] reports of the run of j met a cancel request
  succeeded, \* history: succeeded[j] runs of j that ended well, seen by the listener
  runs, triggers, restarts

vars == <<docs, young, old, active, serviceUp, recorder, checker, user,
          sawCancel, succeeded, runs, triggers, restarts>>

Statuses == {"running", "success", "failed", "missed", "deleted"}
DocIds == 1..Len(docs)

\* The record a recorder task works on: not looked up yet, or none found.
Unknown == 0
NoRecord == MaxDocs + 1

-----------------------------------------------------------------------------
(* Queries and writes                                                       *)

SetStatus(d, s) == docs' = [docs EXCEPT ![d].status = IF @ = "deleted" THEN @ ELSE s]

Insert(j, s) ==
  /\ Len(docs) < MaxDocs
  /\ docs' = Append(docs, [job |-> j, status |-> s, cancel |-> FALSE])

\* Of the records of j in one of the states S, the latest from record first on.
Found(j, S, first) ==
  {d \in DocIds : d >= first /\ docs[d].job = j /\ docs[d].status \in S}
Latest(D) == CHOOSE d \in D : \A e \in D : e <= d

\* Wrong variant: the 5 minute window is forgotten.
FirstMatched == 1
\* Listeners only match records at most 5 minutes old.
FirstMatching == young

-----------------------------------------------------------------------------
Init ==
  /\ docs = <<>> /\ young = 1 /\ old = 1
  /\ active = {} /\ serviceUp = FALSE
  /\ recorder = {} /\ checker = {} /\ user = [op |-> "none", doc |-> 0]
  /\ sawCancel = [j \in Jobs |-> 0] /\ succeeded = [j \in Jobs |-> 0]
  /\ runs = 0 /\ triggers = 0 /\ restarts = 0

-----------------------------------------------------------------------------
(* The scheduler                                                            *)

\* A job may become due at any time, by its cron expression or by a trigger. When
\* it already has a running instance the run is dropped and no listener hears of it.
StartRun(j) ==
  /\ j \notin active /\ runs < MaxRuns
  /\ active' = active \cup {j}
  /\ runs' = runs + 1
  /\ UNCHANGED <<docs, young, old, serviceUp, recorder, checker, user, sawCancel,
                 succeeded, triggers, restarts>>

\* The listeners exist once somebody has used the scheduler pages.
Record(j, s) ==
  recorder' = IF serviceUp
              THEN recorder \cup {[job |-> j, run |-> runs, status |-> s, doc |-> Unknown]}
              ELSE recorder

\* The event loop woke up later than the misfire grace time.
MissRun(j) ==
  /\ j \notin active /\ runs < MaxRuns
  /\ runs' = runs + 1
  /\ Record(j, "missed")
  /\ UNCHANGED <<docs, young, old, active, serviceUp, checker, user, sawCancel,
                 succeeded, triggers, restarts>>

EndRun(j, s) ==
  /\ j \in active
  /\ active' = active \ {j}
  /\ sawCancel' = [sawCancel EXCEPT ![j] = 0]
  /\ Record(j, s)
  /\ succeeded' = IF serviceUp /\ s = "success"
                  THEN [succeeded EXCEPT ![j] = @ + 1] ELSE succeeded

Finish(j) ==
  /\ \E s \in {"success", "failed"} : EndRun(j, s)
  /\ UNCHANGED <<docs, young, old, serviceUp, checker, user, runs, triggers, restarts>>

-----------------------------------------------------------------------------
(* The job reports and polls                                                *)

\* Wrong variant: a report that comes after the end of the run.
ReportAfterEnd(j) ==
  /\ j \in Reporting
  /\ LET D == Found(j, {"running", "success", "failed"}, 1)
     IN  D # {} /\ ~docs[Latest(D)].cancel /\ SetStatus(Latest(D), "running")
  /\ UNCHANGED <<young, old, active, serviceUp, recorder, checker, user, sawCancel,
                 succeeded, runs, triggers, restarts>>

\* update_job_progress. The cancel request it raises for is caught by its own
\* except clause, and once more by the loop over the symbols: the run goes on.
ReportProgress(j) ==
  /\ j \in active \cap Reporting
  /\ LET D == Found(j, {"running", "success", "failed"}, 1)
     IN  \/ D = {} /\ Insert(j, "running") /\ UNCHANGED sawCancel
         \/ /\ D # {} /\ docs[Latest(D)].cancel
            /\ sawCancel' = [sawCancel EXCEPT ![j] = IF @ < 2 THEN @ + 1 ELSE @]
            /\ UNCHANGED docs
         \/ /\ D # {} /\ ~docs[Latest(D)].cancel
            /\ SetStatus(Latest(D), "running")
            /\ UNCHANGED sawCancel
  /\ UNCHANGED <<young, old, active, serviceUp, recorder, checker, user, succeeded,
                 runs, triggers, restarts>>

\* _should_stop: the loop breaks and the function returns its statistics.
StopOnRequest(j) ==
  /\ j \in Polling
  /\ LET D == Found(j, {"running"}, 1) IN D # {} /\ docs[Latest(D)].cancel
  /\ EndRun(j, "success")
  /\ UNCHANGED <<docs, young, old, serviceUp, checker, user, runs, triggers, restarts>>

-----------------------------------------------------------------------------
(* _record_job_execution                                                    *)

LookUp(r) ==
  /\ r.doc = Unknown
  /\ LET D == IF r.status \in {"success", "failed"}
              THEN Found(r.job, {"running"}, FirstMatching) ELSE {}
         d == IF D = {} THEN NoRecord ELSE Latest(D)
     IN  recorder' = (recorder \ {r}) \cup {[r EXCEPT !.doc = d]}
  /\ UNCHANGED <<docs, young, old, active, serviceUp, checker, user, sawCancel,
                 succeeded, runs, triggers, restarts>>

\* Wrong variant: the outcome goes to every running record of the job.
WriteOutcomes(r) ==
  /\ r.doc # Unknown
  /\ IF r.doc = NoRecord THEN Insert(r.job, r.status)
     ELSE docs' = [d \in DocIds |->
            IF docs[d].job = r.job /\ docs[d].status = "running"
            THEN [docs[d] EXCEPT !.status = r.status] ELSE docs[d]]
  /\ recorder' = recorder \ {r}
  /\ UNCHANGED <<young, old, active, serviceUp, checker, user, sawCancel, succeeded,
                 runs, triggers, restarts>>

WriteOutcome(r) ==
  /\ r.doc # Unknown
  /\ IF r.doc = NoRecord THEN Insert(r.job, r.status) ELSE SetStatus(r.doc, r.status)
  /\ recorder' = recorder \ {r}
  /\ UNCHANGED <<young, old, active, serviceUp, checker, user, sawCancel, succeeded,
                 runs, triggers, restarts>>

-----------------------------------------------------------------------------
(* _check_zombie_tasks                                                      *)

Scan ==
  /\ serviceUp /\ checker = {}
  /\ checker' = {d \in DocIds : d < old /\ docs[d].status = "running"}
  /\ UNCHANGED <<docs, young, old, active, serviceUp, recorder, user, sawCancel,
                 succeeded, runs, triggers, restarts>>

\* Wrong variant: the checker reads the records and writes none of them.
LeaveZombie(d) ==
  /\ d \in checker
  /\ checker' = checker \ {d}
  /\ UNCHANGED <<docs, young, old, active, serviceUp, recorder, user, sawCancel,
                 succeeded, runs, triggers, restarts>>

FailZombie(d) ==
  /\ d \in checker
  /\ SetStatus(d, "failed")
  /\ checker' = checker \ {d}
  /\ UNCHANGED <<young, old, active, serviceUp, recorder, user, sawCancel, succeeded,
                 runs, triggers, restarts>>

-----------------------------------------------------------------------------
(* Administrator calls                                                      *)

Free == user.op = "none"
Done == user' = [op |-> "none", doc |-> 0]

\* The first use of the scheduler pages.
CreateService ==
  /\ ~serviceUp /\ serviceUp' = TRUE
  /\ UNCHANGED <<docs, young, old, active, recorder, checker, user, sawCancel,
                 succeeded, runs, triggers, restarts>>

\* Wrong variant: a status that the queries do not know.
TriggerQueued(j) ==
  /\ serviceUp /\ triggers < MaxTriggers
  /\ triggers' = triggers + 1
  /\ recorder' = recorder \cup
       {[job |-> j, run |-> triggers, status |-> "queued", doc |-> NoRecord]}
  /\ UNCHANGED <<docs, young, old, active, serviceUp, checker, user, sawCancel,
                 succeeded, runs, restarts>>

\* trigger_job makes the job due, awaits the action log, and only then inserts the
\* running record: by then the run may have started, been dropped, or ended.
Trigger(j) ==
  /\ serviceUp /\ triggers < MaxTriggers
  /\ triggers' = triggers + 1
  /\ recorder' = recorder \cup
       {[job |-> j, run |-> triggers, status |-> "running", doc |-> NoRecord]}
  /\ UNCHANGED <<docs, young, old, active, serviceUp, checker, user, sawCancel,
                 succeeded, runs, restarts>>

FindToCancel(d) ==
  /\ serviceUp /\ Free /\ docs[d].status = "running" /\ ~docs[d].cancel
  /\ user' = [op |-> "cancel", doc |-> d]
  /\ UNCHANGED <<docs, young, old, active, serviceUp, recorder, checker, sawCancel,
                 succeeded, runs, triggers, restarts>>

RequestCancel ==
  /\ user.op = "cancel"
  /\ docs' = [docs EXCEPT ![user.doc].cancel = TRUE]
  /\ Done
  /\ UNCHANGED <<young, old, active, serviceUp, recorder, checker, sawCancel,
                 succeeded, runs, triggers, restarts>>

\* mark_execution_as_failed looks at the status neither before nor while it writes.
MarkFailed(d) ==
  /\ serviceUp /\ Free
  /\ SetStatus(d, "failed")
  /\ UNCHANGED <<young, old, active, serviceUp, recorder, checker, user, sawCancel,
                 succeeded, runs, triggers, restarts>>

FindToDelete(d) ==
  /\ serviceUp /\ Free /\ docs[d].status \notin {"running", "deleted"}
  /\ user' = [op |-> "delete", doc |-> d]
  /\ UNCHANGED <<docs, young, old, active, serviceUp, recorder, checker, sawCancel,
                 succeeded, runs, triggers, restarts>>

Delete ==
  /\ user.op = "delete"
  /\ SetStatus(user.doc, "deleted")
  /\ Done
  /\ UNCHANGED <<young, old, active, serviceUp, recorder, checker, sawCancel,
                 succeeded, runs, triggers, restarts>>

-----------------------------------------------------------------------------
(* The environment                                                          *)

FiveMinutesPass ==
  /\ young <= Len(docs)
  /\ young' = young + 1
  /\ UNCHANGED <<docs, old, active, serviceUp, recorder, checker, user, sawCancel,
                 succeeded, runs, triggers, restarts>>

\* A listener that has found its record writes it within the 25 minutes that
\* separate the two cutoffs.
ThirtyMinutesPass ==
  /\ old < young
  /\ \A r \in recorder : r.doc # old
  /\ old' = old + 1
  /\ UNCHANGED <<docs, young, active, serviceUp, recorder, checker, user, sawCancel,
                 succeeded, runs, triggers, restarts>>

\* Jobs live in a memory job store: pauses, runs and tasks are forgotten.
Restart ==
  /\ restarts < MaxRestarts
  /\ restarts' = restarts + 1
  /\ active' = {} /\ serviceUp' = FALSE
  /\ recorder' = {} /\ checker' = {}
  /\ sawCancel' = [j \in Jobs |-> 0]
  /\ Done
  /\ UNCHANGED <<docs, young, old, succeeded, runs, triggers>>

-----------------------------------------------------------------------------
Next ==
  \/ \E j \in Jobs : \/ StartRun(j) \/ MissRun(j) \/ Finish(j)
                     \/ ReportProgress(j) \/ StopOnRequest(j) \/ Trigger(j)
  \/ \E r \in recorder : LookUp(r) \/ WriteOutcome(r)
  \/ Scan \/ \E d \in checker : FailZombie(d)
  \/ CreateService \/ RequestCancel \/ Delete
  \/ \E d \in DocIds : FindToCancel(d) \/ MarkFailed(d) \/ FindToDelete(d)
  \/ FiveMinutesPass \/ ThirtyMinutesPass
  \/ Restart

\* Time passes, and the event loop runs the checker and every task it was given.
Fairness ==
  /\ WF_vars(FiveMinutesPass) /\ WF_vars(ThirtyMinutesPass)
  /\ WF_vars(Scan) /\ WF_vars(\E d \in checker : FailZombie(d))
  /\ WF_vars(\E r \in recorder : LookUp(r) \/ WriteOutcome(r))

Spec == Init /\ [][Next]_vars /\ Fairness

-----------------------------------------------------------------------------
(* Properties                                                               *)

TypeOK ==
  /\ docs \in Seq([job : Jobs, status : Statuses, cancel : BOOLEAN])
  /\ Len(docs) <= MaxDocs
  /\ old \in 1..young /\ young \in 1..Len(docs) + 1
  /\ active \subseteq Jobs
  /\ serviceUp \in BOOLEAN
  /\ recorder \subseteq [job : Jobs, run : Nat, status : Statuses, doc : 0..NoRecord]
  /\ checker \subseteq DocIds
  /\ user \in [op : {"none", "cancel", "delete"}, doc : 0..Len(docs)]
  /\ sawCancel \in [Jobs -> 0..2] /\ succeeded \in [Jobs -> Nat]
  /\ runs \in 0..MaxRuns /\ triggers \in 0..MaxTriggers /\ restarts \in 0..MaxRestarts

\* The history never shows more successful runs of a job than the listener has seen,
\* although an outcome may go to the record of another run.
SuccessesHappened ==
  \A j \in Jobs :
    Cardinality({d \in DocIds : docs[d].job = j /\ docs[d].status = "success"})
      + Cardinality({r \in recorder : r.job = j /\ r.status = "success"})
      <= succeeded[j]

\* The checker overwrites what it read as running without looking again, yet it never
\* turns a success into a failure: listeners match young records only.
CheckerSparesSuccess == \A d \in checker : docs[d].status # "success"

\* A finished record is set back to running only while its job has a run that could
\* report, and a missed or deleted one never is.
OnlyItsRunReopens ==
  [][\A d \in DocIds :
       docs[d].status # "running" /\ docs'[d].status = "running" =>
         docs[d].job \in active /\ docs[d].status \in {"success", "failed"}]_vars

\* With the scheduler service up for good, no record reads running for ever: neither
\* after a crash, nor for a trigger whose run was skipped or missed.
StaleRunningCleared ==
  <>[]serviceUp =>
    \A d \in 1..MaxDocs :
      (d \in DocIds /\ docs[d].status = "running")
        ~> (d \in DocIds /\ docs[d].status # "running")

\* What the comment in sync_financial_data promises: a run whose progress report meets
\* a cancel request is over, so it never makes another one.
CancelledRunStops == \A j \in Jobs : sawCancel[j] <= 1
=============================================================================
