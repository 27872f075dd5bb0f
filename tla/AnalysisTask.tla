------------------------------ MODULE AnalysisTask ------------------------------
(***************************************************************************)
(* The life of a stock analysis task: the in-memory record kept by         *)
(* MemoryStateManager, the MongoDB documents in analysis_tasks and         *)
(* analysis_reports, the coroutine SimpleAnalysisService.                  *)
(* execute_analysis_background that drives both, the shared thread pool    *)
(* that runs the analysis, and the operator calls of routers/analysis.py   *)
(* (mark-failed, delete, zombie cleanup) that write the same records.      *)
(*                                                                         *)
(* One step is one memory update (atomic under MemoryStateManager._lock)   *)
(* or one MongoDB write; everything may interleave between two of them.    *)
(***************************************************************************)
EXTENDS Naturals, Sequences, FiniteSets

CONSTANTS
  Tasks,        \* task ids (uuid4, never reused)
  PoolSize,     \* max_workers of the shared ThreadPoolExecutor
  MaxFaults,    \* bound: MongoDB calls that fail
  MaxRestarts   \* bound: restarts of the server process

ASSUME PoolSizeAssumption == PoolSize \in Nat \ {0}
ASSUME BoundsAssumption == MaxFaults \in Nat /\ MaxRestarts \in Nat

VARIABLES
  mem,       \* mem[t]: status in MemoryStateManager._tasks, "absent" when there is no entry
  mongo,     \* mongo[t]: status in analysis_tasks, "absent" when there is no document
  reports,   \* reports[t]: documents inserted into analysis_reports for t
  pc,        \* pc[t]: where execute_analysis_background stands for t
  waiting,   \* tasks submitted to the thread pool and not started, in order
  trackers,  \* tasks in _progress_trackers and in the log handler's registry
  admin,     \* admin[t]: an operator call on t between its memory and its MongoDB half
  analysed,  \* history: tasks whose analysis returned a result
  disturbed, \* history: tasks touched by an operator, a restart, a failed write, a
             \*   rejected batch or an exception that escaped the error handler
  faults, restarts

vars == <<mem, mongo, reports, pc, waiting, trackers, admin, analysed,
          disturbed, faults, restarts>>

\* "failedA" is a record whose status is AnalysisStatus.FAILED instead of
\* TaskStatus.FAILED: it reads "failed", but no end_time is ever set on it.
MemStatus == {"absent", "pending", "running", "completed", "failed", "failedA"}
MongoStatus == {"absent", "pending", "processing", "completed", "failed"}

PCs == {"none", "creating", "queued", "invalidMem", "invalidDb", "validated",
        "mem10", "db10", "mem20", "db20", "submitted", "working",
        "saveReport", "memDone", "dbDone",
        "error", "dbFailed", "ended", "lost"}

Ended == {"none", "ended", "lost"}
Active(t) == pc[t] \notin Ended

Open == {"pending", "processing"}

-----------------------------------------------------------------------------
(* Helpers: the two stores                                                  *)

\* Wrong variant: creates the entry it does not find.
MemUpsert(t, s) == mem' = [mem EXCEPT ![t] = s]

\* update_task_status: no entry, no update; otherwise the status is overwritten
\* whatever it was.
MemUpdate(t, s) ==
  mem' = IF mem[t] = "absent" THEN mem ELSE [mem EXCEPT ![t] = s]

\* update_one without upsert: only an existing document changes.
SetStatus(t, s) ==
  mongo' = IF mongo[t] = "absent" THEN mongo ELSE [mongo EXCEPT ![t] = s]

\* A MongoDB call that raises, before or after the server has applied it. The
\* background run logs it and goes on; an operator call answers HTTP 500 with its
\* first half already done.
SwallowedFault(t) ==
  /\ faults < MaxFaults
  /\ faults' = faults + 1
  /\ disturbed' = disturbed \cup {t}

MongoUpdate(t, s) ==
  \/ SetStatus(t, s) /\ (UNCHANGED <<faults, disturbed>> \/ SwallowedFault(t))
  \/ SwallowedFault(t) /\ UNCHANGED mongo

Goto(t, label) == pc' = [pc EXCEPT ![t] = label]

\* Wrong variant: cleanup that is not in the finally block.
FinishKeepingTracker(t) == Goto(t, "ended") /\ UNCHANGED trackers

\* The finally block: drop the cached tracker and its log registration.
Finish(t) == Goto(t, "ended") /\ trackers' = trackers \ {t}

-----------------------------------------------------------------------------
Init ==
  /\ mem = [t \in Tasks |-> "absent"]
  /\ mongo = [t \in Tasks |-> "absent"]
  /\ reports = [t \in Tasks |-> 0]
  /\ pc = [t \in Tasks |-> "none"]
  /\ waiting = <<>>
  /\ trackers = {}
  /\ admin = [t \in Tasks |-> "idle"]
  /\ analysed = {} /\ disturbed = {}
  /\ faults = 0 /\ restarts = 0

-----------------------------------------------------------------------------
(* POST /single, POST /batch: create_analysis_task, then the background run *)

CreateInMemory(t) ==
  /\ pc[t] = "none"
  /\ mem' = [mem EXCEPT ![t] = "pending"]
  /\ Goto(t, "creating")
  /\ UNCHANGED <<mongo, reports, waiting, trackers, admin, analysed, disturbed,
                 faults, restarts>>

\* The $setOnInsert upsert; a failure is logged and the task runs all the same.
CreateInMongo(t) ==
  /\ pc[t] = "creating"
  /\ \/ /\ mongo' = [mongo EXCEPT ![t] = IF @ = "absent" THEN "pending" ELSE @]
        /\ UNCHANGED <<faults, disturbed>> \/ SwallowedFault(t)
     \/ SwallowedFault(t) /\ UNCHANGED mongo
  /\ Goto(t, "queued")
  /\ UNCHANGED <<mem, reports, waiting, trackers, admin, analysed, restarts>>

\* A batch starts its runs once every task is created. When a later stock of the
\* batch has no code, the request fails and the tasks created before are left behind.
BatchRejected(t) ==
  /\ pc[t] = "queued"
  /\ Goto(t, "lost")
  /\ disturbed' = disturbed \cup {t}
  /\ UNCHANGED <<mem, mongo, reports, waiting, trackers, admin, analysed, faults,
                 restarts>>

\* prepare_stock_data_async: valid, invalid, or an exception.
Validate(t) ==
  /\ pc[t] = "queued"
  /\ \E label \in {"validated", "invalidMem", "error"} : Goto(t, label)
  /\ UNCHANGED <<mem, mongo, reports, waiting, trackers, admin, analysed, disturbed,
                 faults, restarts>>

\* Wrong variant: only MongoDB hears of the rejection.
RejectSilently(t) ==
  /\ pc[t] = "invalidMem"
  /\ Goto(t, "invalidDb")
  /\ UNCHANGED <<mem, mongo, reports, waiting, trackers, admin, analysed, disturbed,
                 faults, restarts>>

\* The rejected stock code: AnalysisStatus.FAILED goes into the memory record.
RejectInMemory(t) ==
  /\ pc[t] = "invalidMem"
  /\ MemUpdate(t, "failedA")
  /\ Goto(t, "invalidDb")
  /\ UNCHANGED <<mongo, reports, waiting, trackers, admin, analysed, disturbed,
                 faults, restarts>>

RejectInMongo(t) ==
  /\ pc[t] = "invalidDb"
  /\ MongoUpdate(t, "failed")
  /\ Finish(t)
  /\ UNCHANGED <<mem, reports, waiting, admin, analysed, restarts>>

\* Create the tracker, cache it, register it with the log handler, set 10%.
StartTracker(t) ==
  /\ pc[t] = "validated"
  /\ \/ trackers' = trackers \cup {t} /\ Goto(t, "mem10")
     \/ UNCHANGED trackers /\ Goto(t, "error")
  /\ UNCHANGED <<mem, mongo, reports, waiting, admin, analysed, disturbed, faults,
                 restarts>>

\* Wrong variant: the status of the other enumeration.
RunningAsProcessing(t) ==
  /\ pc[t] = "mem10" /\ Goto(t, "db10")
  /\ MemUpdate(t, "processing")
  /\ UNCHANGED <<mongo, reports, waiting, trackers, admin, analysed, disturbed,
                 faults, restarts>>

RunningInMemory(t) ==
  /\ \/ pc[t] = "mem10" /\ Goto(t, "db10")
     \/ pc[t] = "mem20" /\ Goto(t, "db20")
  /\ MemUpdate(t, "running")
  /\ UNCHANGED <<mongo, reports, waiting, trackers, admin, analysed, disturbed,
                 faults, restarts>>

\* _update_task_status(PROCESSING, 10), which also sets started_at
ProcessingInMongo10(t) ==
  /\ pc[t] = "db10"
  /\ MongoUpdate(t, "processing")
  /\ Goto(t, "mem20")
  /\ UNCHANGED <<mem, reports, waiting, trackers, admin, analysed, restarts>>

\* Wrong variant: the function never reaches the pool.
SubmitNothing(t) ==
  /\ pc[t] = "db20"
  /\ MongoUpdate(t, "processing")
  /\ Goto(t, "submitted")
  /\ UNCHANGED <<mem, reports, waiting, trackers, admin, analysed, restarts>>

\* The second PROCESSING write and run_in_executor.
SubmitToPool(t) ==
  /\ pc[t] = "db20"
  /\ MongoUpdate(t, "processing")
  /\ waiting' = Append(waiting, t)
  /\ Goto(t, "submitted")
  /\ UNCHANGED <<mem, reports, trackers, admin, analysed, restarts>>

-----------------------------------------------------------------------------
(* The worker thread: _run_analysis_sync                                    *)

InPool == {t \in Tasks : pc[t] = "working"}

StartWork(t) ==
  /\ waiting # <<>> /\ Head(waiting) = t
  /\ Cardinality(InPool) < PoolSize
  /\ waiting' = Tail(waiting)
  /\ Goto(t, "working")
  /\ UNCHANGED <<mem, mongo, reports, trackers, admin, analysed, disturbed, faults,
                 restarts>>

\* Wrong variant: a callback handed to the event loop and run after the result.
ProgressTooLate(t) ==
  /\ pc[t] \in {"working", "dbDone"}
  /\ MemUpdate(t, "running")
  /\ UNCHANGED <<mongo, reports, pc, waiting, trackers, admin, analysed, disturbed,
                 faults, restarts>>

\* update_progress_sync and graph_progress_callback: the memory record is set to
\* RUNNING again, the MongoDB document gets progress and message but no status.
Progress(t) ==
  /\ pc[t] = "working"
  /\ MemUpdate(t, "running")
  /\ UNCHANGED <<mongo, reports, pc, waiting, trackers, admin, analysed, disturbed,
                 faults, restarts>>

\* Wrong variant: the result is not saved before completion.
ReturnsUnsaved(t) ==
  /\ pc[t] = "working"
  /\ analysed' = analysed \cup {t}
  /\ Goto(t, "memDone")
  /\ UNCHANGED <<mem, mongo, reports, waiting, trackers, admin, disturbed, faults,
                 restarts>>

AnalysisReturns(t) ==
  /\ pc[t] = "working"
  /\ analysed' = analysed \cup {t}
  /\ Goto(t, "saveReport")
  /\ UNCHANGED <<mem, mongo, reports, waiting, trackers, admin, disturbed, faults,
                 restarts>>

AnalysisRaises(t) ==
  /\ pc[t] = "working"
  /\ Goto(t, "error")
  /\ UNCHANGED <<mem, mongo, reports, waiting, trackers, admin, analysed, disturbed,
                 faults, restarts>>

-----------------------------------------------------------------------------
(* Back in the coroutine: save the result, then complete or fail            *)

\* Wrong variant: the fallback of the caller saves a second time.
SaveReportTwice(t) ==
  /\ pc[t] = "saveReport"
  /\ reports' = [reports EXCEPT ![t] = @ + 2]
  /\ Goto(t, "memDone")
  /\ UNCHANGED <<mem, mongo, waiting, trackers, admin, analysed, disturbed, faults,
                 restarts>>

\* mark_completed, then _save_analysis_result_web_style: insert the report. A
\* failed insert is caught there and a short result is written instead.
SaveReport(t) ==
  /\ pc[t] = "saveReport"
  /\ \/ /\ reports' = [reports EXCEPT ![t] = @ + 1]
        /\ UNCHANGED <<faults, disturbed>> \/ SwallowedFault(t)
     \/ SwallowedFault(t) /\ UNCHANGED reports
  /\ Goto(t, "memDone")
  /\ UNCHANGED <<mem, mongo, waiting, trackers, admin, analysed, restarts>>

CompleteInMemory(t) ==
  /\ pc[t] = "memDone"
  /\ MemUpdate(t, "completed")
  /\ Goto(t, "dbDone")
  /\ UNCHANGED <<mongo, reports, waiting, trackers, admin, analysed, disturbed,
                 faults, restarts>>

CompleteInMongo(t) ==
  /\ pc[t] = "dbDone"
  /\ MongoUpdate(t, "completed")
  /\ Finish(t)
  /\ UNCHANGED <<mem, reports, waiting, admin, analysed, restarts>>

\* The except handler up to the memory update.
FailInMemory(t) ==
  /\ pc[t] = "error"
  /\ MemUpdate(t, "failed")
  /\ Goto(t, "dbFailed")
  /\ UNCHANGED <<mongo, reports, waiting, trackers, admin, analysed, disturbed,
                 faults, restarts>>

\* ErrorFormatter cannot be imported or raises: the exception leaves the handler
\* before any status is written; only the finally block runs.
HandlerRaises(t) ==
  /\ pc[t] = "error"
  /\ disturbed' = disturbed \cup {t}
  /\ Finish(t)
  /\ UNCHANGED <<mem, mongo, reports, waiting, admin, analysed, faults, restarts>>

\* Wrong variant: the failure stays in memory.
FailInMemoryOnly(t) ==
  /\ pc[t] = "dbFailed"
  /\ Finish(t)
  /\ UNCHANGED <<mem, mongo, reports, waiting, admin, analysed, disturbed, faults,
                 restarts>>

FailInMongo(t) ==
  /\ pc[t] = "dbFailed"
  /\ MongoUpdate(t, "failed")
  /\ Finish(t)
  /\ UNCHANGED <<mem, reports, waiting, admin, analysed, restarts>>

-----------------------------------------------------------------------------
(* Operator calls                                                           *)

\* POST /tasks/{id}/mark-failed, first half
MarkFailedInMemory(t) ==
  /\ pc[t] # "none" /\ admin[t] = "idle"
  /\ MemUpdate(t, "failed")
  /\ admin' = [admin EXCEPT ![t] = "marking"]
  /\ disturbed' = disturbed \cup {t}
  /\ UNCHANGED <<mongo, reports, pc, waiting, trackers, analysed, faults, restarts>>

MarkFailedInMongo(t) ==
  /\ admin[t] = "marking"
  /\ MongoUpdate(t, "failed")
  /\ admin' = [admin EXCEPT ![t] = "idle"]
  /\ UNCHANGED <<mem, reports, pc, waiting, trackers, analysed, restarts>>

\* DELETE /tasks/{id}, first half
DeleteFromMemory(t) ==
  /\ pc[t] # "none" /\ admin[t] = "idle"
  /\ mem' = [mem EXCEPT ![t] = "absent"]
  /\ admin' = [admin EXCEPT ![t] = "deleting"]
  /\ disturbed' = disturbed \cup {t}
  /\ UNCHANGED <<mongo, reports, pc, waiting, trackers, analysed, faults, restarts>>

DeleteFromMongo(t) ==
  /\ admin[t] = "deleting"
  /\ \/ /\ mongo' = [mongo EXCEPT ![t] = "absent"]
        /\ UNCHANGED <<faults, disturbed>> \/ SwallowedFault(t)
     \/ SwallowedFault(t) /\ UNCHANGED mongo
  /\ admin' = [admin EXCEPT ![t] = "idle"]
  /\ UNCHANGED <<mem, reports, pc, waiting, trackers, analysed, restarts>>

\* POST /admin/cleanup-zombie-tasks when the tasks in old are past the limit. Only
\* the memory half has an effect: the second branch of the MongoDB filter puts
\* "started_at" inside the operator document of "created_at", which MongoDB rejects
\* as an unknown operator, so update_many raises, the handler answers
\* success = False, and no document changes.
CleanupZombies(old) ==
  LET zombies == {t \in old : mem[t] \in {"pending", "running"}}
  IN  /\ mem' = [t \in Tasks |-> IF t \in zombies THEN "failed" ELSE mem[t]]
      /\ disturbed' = disturbed \cup zombies
      /\ UNCHANGED <<mongo, reports, pc, waiting, trackers, admin, analysed, faults,
                     restarts>>

-----------------------------------------------------------------------------
\* The process dies: memory, coroutines, pool and open requests are gone, and
\* nothing resumes a task found in MongoDB at the next start.
Restart ==
  /\ restarts < MaxRestarts
  /\ restarts' = restarts + 1
  /\ mem' = [t \in Tasks |-> "absent"]
  /\ pc' = [t \in Tasks |-> IF Active(t) THEN "lost" ELSE pc[t]]
  /\ disturbed' = disturbed \cup {t \in Tasks : pc[t] # "none"}
  /\ waiting' = <<>> /\ trackers' = {}
  /\ admin' = [t \in Tasks |-> "idle"]
  /\ UNCHANGED <<mongo, reports, analysed, faults>>

-----------------------------------------------------------------------------
\* The request of the client
Submit(t) == CreateInMemory(t) \/ BatchRejected(t)

\* The coroutine of one task
Execute(t) ==
  \/ CreateInMongo(t) \/ Validate(t) \/ RejectInMemory(t) \/ RejectInMongo(t)
  \/ StartTracker(t) \/ RunningInMemory(t) \/ ProcessingInMongo10(t)
  \/ SubmitToPool(t) \/ SaveReport(t) \/ CompleteInMemory(t) \/ CompleteInMongo(t)
  \/ FailInMemory(t) \/ HandlerRaises(t) \/ FailInMongo(t)

\* Its worker thread
AnalysisEnds(t) == AnalysisReturns(t) \/ AnalysisRaises(t)
Work(t) == StartWork(t) \/ Progress(t) \/ AnalysisEnds(t)

Operate(t) ==
  \/ MarkFailedInMemory(t) \/ MarkFailedInMongo(t)
  \/ DeleteFromMemory(t) \/ DeleteFromMongo(t)

Next ==
  \/ \E t \in Tasks : Submit(t) \/ Execute(t) \/ Work(t) \/ Operate(t)
  \/ \E old \in SUBSET Tasks : CleanupZombies(old)
  \/ Restart

\* The event loop runs every ready coroutine and the pool every submitted function;
\* an analysis, which is a bounded graph of model calls, returns or raises.
Fairness == \A t \in Tasks :
  WF_vars(Execute(t)) /\ WF_vars(StartWork(t)) /\ WF_vars(AnalysisEnds(t))

Spec == Init /\ [][Next]_vars /\ Fairness

-----------------------------------------------------------------------------
(* Properties                                                               *)

TypeOK ==
  /\ mem \in [Tasks -> MemStatus]
  /\ mongo \in [Tasks -> MongoStatus]
  /\ reports \in [Tasks -> Nat]
  /\ pc \in [Tasks -> PCs]
  /\ waiting \in Seq(Tasks)
  /\ admin \in [Tasks -> {"idle", "marking", "deleting"}]
  /\ trackers \subseteq Tasks
  /\ analysed \subseteq Tasks /\ disturbed \subseteq Tasks
  /\ faults \in 0..MaxFaults /\ restarts \in 0..MaxRestarts

\* A record that reads completed is never set back to pending or running, although
\* progress callbacks of the worker thread write RUNNING over whatever they find.
CompletedNeverReopened ==
  [][\A t \in Tasks : mem[t] = "completed" => mem'[t] \notin {"pending", "running"}]_vars

\* A document that reads pending or processing belongs to a run that is still going
\* on, unless an operator, a restart, a failed write, a rejected batch or an exception
\* inside the error handler got in the way.
OpenTaskHasOwner ==
  \A t \in Tasks : mongo[t] \in Open => Active(t) \/ t \in disturbed

Verdict(s) == IF s = "failedA" THEN "failed" ELSE s

\* When the run of an undisturbed task is over, memory and MongoDB tell the client
\* the same final verdict.
UntouchedTasksAgree ==
  \A t \in Tasks : pc[t] = "ended" /\ t \notin disturbed =>
    /\ mongo[t] \in {"completed", "failed"}
    /\ Verdict(mem[t]) = mongo[t]

\* No store says completed for an analysis that did not return, a report is inserted
\* at most once, and an undisturbed completed task has its report.
CompletedHasReport ==
  \A t \in Tasks :
    /\ "completed" \in {mem[t], mongo[t]} => t \in analysed
    /\ reports[t] <= 1
    /\ mongo[t] = "completed" /\ t \notin disturbed => reports[t] = 1

\* A tracker cached for a task, and registered with the log handler, is released on
\* every path out of the run: rejection, success, failure, failed error handler.
TrackersFreed == \A t \in trackers : Active(t)

\* Once the client has the task id, a deleted task is not brought back by the run
\* that is still writing to it, in either store.
DeletedStaysDeleted ==
  [][\A t \in Tasks : pc[t] \notin {"none", "creating"} =>
       /\ mem[t] = "absent" => mem'[t] = "absent"
       /\ mongo[t] = "absent" => mongo'[t] = "absent"]_vars

\* The document as TaskPromise sees it
doc == [t \in Tasks |->
  IF t \in disturbed THEN "touched"
  ELSE IF mongo[t] = "processing" /\ reports[t] = 1 THEN "published"
  ELSE mongo[t]]

Promise == INSTANCE TaskPromise WITH Tasks <- Tasks, doc <- doc

\* The detailed run of a task, with its two stores, its worker thread and its error
\* paths, keeps the promise of TaskPromise about the document a client polls.
KeepsPromise == Promise!Spec

\* Every accepted task leaves the background run, however few workers there are and
\* whatever the others do.
EveryExecutionEnds == \A t \in Tasks : (pc[t] = "queued") ~> (pc[t] \in {"ended", "lost"})
=============================================================================
