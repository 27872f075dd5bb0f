# Verification of the stock analysis platform

TLA+ models of the parts of this repository (a FastAPI backend in `src/app`, a
LangGraph agent library in `src/tradingagents`) whose correctness depends on the
order in which several processes touch shared state. Every definition is
translated from the source lines that `PROJECT.json` names under `map`.

    tlc -workers 2 -config MCAnalysisTask.cfg MCAnalysisTask     # a run
    tlapm AnalysisTask_proofs.tla                                # the proofs

## 1. Inventory

The backend is one process with one event loop. A client submits stock analyses;
each runs as a coroutine plus a function in a shared thread pool, which drives a
graph of language-model agents. The rest of the backend keeps market data in
MongoDB up to date with scheduled jobs, and serves it.

| component | state | operations | interacts with | hard behaviour | what makes it correct |
|---|---|---|---|---|---|
| Analysis task (`simple_analysis_service.py`, `memory_state_manager.py`, `routers/analysis.py`) | memory record, document in `analysis_tasks`, document in `analysis_reports`, cached tracker | submit, batch, background run, progress reports, complete, fail, mark failed, delete, zombie cleanup | MongoDB, thread pool, tracker, operators | two stores written one after the other, faults swallowed, operators beside the run, restarts | the stores agree, completed has a report, completed and deleted are final, every run ends |
| Scheduler executions (`scheduler_service.py`, `tushare_sync_service.py`) | records in `scheduler_executions`, the running instances | trigger, listeners, progress, cancel, mark failed, delete, zombie checker | APScheduler, sync workers, administrators | six writers, find-then-write without compare-and-set, no link between a run and its record | no success is invented or lost to the checker, a record is reopened by its job only, nothing reads running for ever |
| Redis task queue (`queue_service.py`, `queue/`) | ready list, task hashes, processing sets, visibility keys | enqueue, batch, dequeue, ack, cancel, clean-up | routers; no worker is in the repository | several commands per call without a transaction, crashes in between, key expiry | bounded overrun of the limits, no lost or doubled delivery, slots are released, batches list their tasks |
| Progress tracker and log handler (`progress/`) | steps and percentage per task, in Redis or a file | update, complete, fail, read | the run, a simulation thread, every log line | three writers, a late simulated report, log lines of two tasks | progress does not go back, a finished tracker stays finished |
| Quotes ingestion (`quotes_ingestion_service.py`) | rotation index, times of recent calls, permission flag | run once, backfill | Tushare, two AKShare interfaces, MongoDB | quota with a sliding window, fallback, restart forgets the quota | never more than the quota in an hour, every source gets its turn, the status document is true |
| Agent graph (`tradingagents/graph`, `tradingagents/agents`) | messages, tool-call counts, debate counters | one node per agent, conditional edges | model clients, the progress callback | loops bounded by counters only; one message list used by all analysts | the graph ends below its recursion limit; message lists are well formed; each side of a debate speaks as often as configured |
| Paper trading (`routers/paper.py`) | account, positions, orders, trades | place order, reset, reads | quotes | find, compute, write absolute values; reset in four steps | cash and shares are conserved; no sale of today's purchase |
| Basics sync, of several sources and of Tushare alone (`multi_source_basics_sync_service.py`, `basics_sync_service.py`) | running flag, status document | run full sync, clear cache, status | start-up, routers, data sources | forced runs beside a running one, two service objects with one status document, repeated writes | a known number of syncs at a time, the flag is released, the status is true |
| Configuration (`config_service.py`, `routers/config.py`) | documents of `system_configs`, one of them active | read with default and fallback, edits of models, sources, databases and settings, import, priorities | administrators, every reader of the configuration | read, change in memory, retire all, insert; failures in between | no change is lost, one configuration is active |
| Rate limiter (`core/rate_limiter.py`) | times of the calls in the window | acquire | sync workers | sleep under the lock, clock read again | never more than the limit in a window |
| WebSockets, notifications | connection sets; stored messages | connect, disconnect, publish | task updates, Redis | a disconnect during a broadcast | no message to a closed connection |

The remaining parts are listed in `PROJECT.json` as not modelled, with the reason:
the older `analysis_service.py` (unreachable), users and authentication, data-source adapters and sync workers, caches and database
clients, agents and model clients, screening and other CRUD services, backups and
log export. They are sequential per request or pure I/O.

`PROJECT.json` lists the hazards of the code, each at its line, with the
properties that cover it.

## 2. Modules

| module | models | run by |
|---|---|---|
| `AnalysisTask` | the life of an analysis task | `MCAnalysisTask` |
| `TaskPromise` | abstract: what a client that polls a task's document may see | through `AnalysisTask` |
| `AgentGraph` | the graph of agents that makes one analysis | `MCAgentGraph` |
| `RoundTable` | abstract: a moderated debate | through `AgentGraph`, twice |
| `SchedulerExecutions` | runs of scheduled jobs and their records | `MCSchedulerExecutions` |
| `BasicsSync` | the full synchronisation of the stock list, both services | `MCBasicsSync` |
| `QuotesIngestion` | the job that keeps quotes up to date | `MCQuotesIngestion` |
| `RateLimiter` | the limiter of the sync workers | `MCRateLimiter` |
| `SlidingWindow` | abstract: at most so many calls in a window | through `RateLimiter` and `QuotesIngestion` |
| `ConfigService`, `ConfigEdits` | the system configuration; what each request changes in it | `MCConfigService` |
| `ConfigRegister` | abstract: one configuration, changed in one step | through `ConfigService` |
| `PaperTrading` | the paper account of one user | `MCPaperTrading` |
| `Ledger` | abstract: orders carried out in one step | through `PaperTrading` |
| `TaskQueue` | the Redis queue, one step per command | `MCTaskQueue` |
| `AnalysisTask_proofs`, `AgentGraph_proofs`, `BasicsSync_proofs`, `SlidingWindow_proofs`, `ConfigService_proofs`, `SchedulerExecutions_proofs`, `TaskQueue_proofs`, `PaperTrading_proofs` | theorems about them (`SlidingWindow_proofs` about both `RateLimiter` and `QuotesIngestion`) | TLAPS |

How they meet. The step `AnalysisEnds` of `AnalysisTask`, which may return, return nothing
of use, or raise, stands for the whole of an `AgentGraph`: `Ends` says that
a graph comes to one of these ends provided its model calls do, which is the
assumption behind the fairness of `AnalysisEnds`. The jobs of `SchedulerExecutions` are, among others,
the callers of `RateLimiter`. Both limiters implement one `SlidingWindow`, both
debates one `RoundTable`.

Some properties leave out what a history variable marks: `disturbed` (tasks, queue,
configuration) or `raced` (paper account). There the code itself keeps no promise - a lost
update is lost, a task cut off by a restart stays open - and the models contain these
steps; the note of each hazard in `PROJECT.json` says what is outside the property.

Definitions called *wrong variant* in the modules are not used by any
specification. Each is a plausible bug of one operation; substituting it must
make TLC find the property it belongs to violated (`mutants`).

### AnalysisTask

One step is one update of the memory record (atomic under
`MemoryStateManager._lock`) or one MongoDB write. `pc[t]` is the place of the
coroutine `execute_analysis_background`: `Execute(t)` is the coroutine, `Work(t)`
the function in the thread pool, `Operate(t)` the operators' calls, each of them in
a memory and a MongoDB half. What the code does and a reader might not expect:

- `update_task_status` writes any status over any other; a missing entry is left
  missing (`MemUpdate`). MongoDB updates have no upsert (`SetStatus`) and
  their failures, before or after the server applied them, are swallowed
  (`SwallowedFault`).
- A rejected stock code writes `AnalysisStatus.FAILED` into a record of
  `TaskStatus`. The two enumerations are unequal, so `end_time` is not set
  (`"failedA"`). Both read "failed" to a client.
- The error handler calls `ErrorFormatter` before it writes any status.
  `app/utils/error_formatter.py` is not in the repository, so the handler may
  leave with an exception: `HandlerRaises` next to `FailInMemory`. In the same
  way `Validate` may raise, since the stock validator is not there either.
- The MongoDB half of the zombie cleanup is rejected by the server
  (`CleanupZombies` says why), so it changes memory only.
- A batch starts its runs after it has created all of its tasks
  (`BatchRejected`).

`disturbed` collects the tasks for which something outside their run got in the way: an
operator, a restart, a failed write, an exception inside the handler, a rejected
batch. Properties about agreement speak of the other tasks; properties about
finality speak of all.

`TaskPromise` is the abstract specification: pending, processing, report published,
completed, or failed before the report is out. `doc` is the refinement mapping:
a document in processing whose report is inserted is "published".

### SchedulerExecutions

One step lasts from one `await` to the next: a find and the write that follows
are two steps, except in `update_job_progress`, which blocks the event loop.
Records are numbered by age. `young` and `old` are the two cutoffs the queries use
(5 and 30 minutes) and move forward by themselves. `recorder` holds the detached
listener tasks (`Record`, `LookUp`, `WriteOutcome`), `checker` what the zombie checker has
read and not written, `user` an administrator's call between its find and its
write. `Reporting` jobs call `update_job_progress`, `Polling` jobs
`_should_stop`. Pausing, resuming and changing arguments of a job only restrict
when it becomes due; here it may become due at any time. Assumption: a listener that
found its record writes it within the 25 minutes between the cutoffs
(`ThirtyMinutesPass`).

### TaskQueue

One step is one Redis command. `worker[w]`, `client` and `janitor` say which command a call
issues next. A call may die between two commands, which covers both a crash and
a Redis error, because every method catches its exceptions. `key[t]` is the
visibility key: its TTL runs out at `timeout_at` unless the clock moved on between
the two commands that create it ("slack"), and a worker that dies between these
leaves a key without a TTL. A batch is one call that enqueues its tasks one after the other
(`CreateBatch`, `NextSymbol`); a limit that is reached half-way ends it, with what it
enqueued left in the queue. `unlisted` holds the tasks whose hash names a batch that does not list them
yet. Clients call one at a time. A reader should know that the
repository calls enqueue and cancel only; dequeue, ack and clean-up are offered to
a worker that is not part of it. `Without` is LREM with count 0; it says which places are kept and in
which order, without recursion, so that it can be reasoned about.

### AgentGraph

One step is one node of the compiled LangGraph, which runs one node at a time, with the
conditional edge that follows. A model's answer is free: it asks for any number of tools up
to `MaxTools`, or none, and its text falls on either side of the thresholds of the code. A
message is its author and the number of tools it asks for; each tool answers with a
message of its own (`Results`), so that the code can count them. Two families of
models take different paths (`google`): Google's models go through
`GoogleToolCallHandler`, which runs the tools itself. `debate` and `risk` are the
sequences of speakers; the counts of the code are their lengths. What a reader might not
expect:

- The social analyst's report may stay empty: after its third request for tools the
  edge goes on without its having written one (`social_media_analyst.py:223`).
- The fundamentals analyst decides by the tool results in the shared message list
  whether it has asked (`fundamentals_analyst.py:108`); that these are its own is a
  property (`CapsRespected`), not given. It counts results and not requests (`ToolCount`): one
  request for two tools takes its counter to 2, above the `max_tool_calls` of 1 the node compares
  it with. `CapsRespected` therefore bounds its requests, one in its turn, and not its
  counter; the counters of the other analysts count runs of their node, at most three. Inside one run a
  node may call its model two or three times, which nothing counts.
- The risk judge makes three attempts and then decides "hold". Its look-up of
  memories stands before them (`risk_manager.py:28`) and may raise, as may that of the other
  agents and their model calls (`ModelRaises`).
- `china_market_analyst.py` is no node of the graph.

### BasicsSync

One model for both services, which share their shape; where they differ
(`MultiSource`, `Forceable`) is a constant. A service is an object with a flag:
`main.py:262` makes one of its own for the start-up run while the routers share
another, and both write one status document, so `ServiceOf` and `JobOf` are
constants too. The lock of `run_full_sync` spans no `await` but the question for the status of a
skipped caller (`Locked`). The first status is written outside the `try`: if
that fails the flag stays set until `DELETE /cache` or a restart (pc "raised"). `DELETE /cache`
resets the flag of a running sync, but not the status the service remembers in memory, so a caller
that is skipped may be told an old "success"; that memory only answers and
is not modelled. Neither are the daily jobs of `main.py:288` and `:297`: a lambda returns a coroutine that
nothing awaits.

### QuotesIngestion, RateLimiter, SlidingWindow

Time is counted in ticks and a call is known by its age, which stops growing once it
has left the window. In the limiter `Enter` is the code under the lock up to the sleep or
the end; the lock is held across the sleep, so `waiters` is a queue.
In the quotes job a step lasts from one `await` to the next. The quota
counts what the code counts: the permission probe (`rt_k`), failed and empty calls and the
backfill from a snapshot are not in it, and a restart forgets it (`Reset` in
`SlidingWindow`). The service asks one source per run and rotates; the docstring of `run_once` speaks of trying them in order.
`_fix_missing_volume` (line 426) does not exist; the
exception is swallowed with the others of the backfill. A check of emptiness that fails
counts as empty. The early return of `_bulk_upsert` for an answer
without a usable code (line 405) is left out, since the adapters key their answers by code. With a paid account the list of call times grows for ever and is never read.

### ConfigService, ConfigEdits, ConfigRegister

`ConfigEdits` says what each request accepts and changes (`Accepts`, `Apply`
and an operator for each edit of a list), on lists that may hold
a name twice as the code allows. `ConfigService` is the protocol round it: read the
active document of the highest version, change it in memory, retire every active document,
insert a new one; or, for priorities, write into the document that was read. A read that finds nothing
saves the default first, and one that fails answers with the JSON files. `disturbed` is
true from the moment two changes overlap, one stops between retiring and
inserting, or one starts from the JSON files, until a change that met no other
has been saved. A plain GET can be such a change: between the retire and the insert of another client it finds
nothing active and stores the default, and it may retire the document that client has just inserted. Readers that do not sort by version (`core/config_bridge.py:380`,
`tradingagents/dataflows/data_source_manager.py:516`) depend on there being one active document:
`ReadersAgree`, a part of `IsRegister`. The functions `set_default_*` stand twice in
`config_service.py`; the later ones (2754-2796) are in force.

### PaperTrading, Ledger

One step is one MongoDB operation of a request; two clients of one user interleave there.
A collection is the sequence of the user's documents, since nothing makes them unique.
An order counts in the ledger when it is recorded, a reset when it starts: that
is the refinement mapping. `raced` is true once requests have overlapped or one has
stopped half-way, until a reset without company. The position is written before the trade is inserted,
so a sale in between would count today's purchase as available; this is one of the
overlaps `raced` stands for. `paper_market_rules`, from which T+1 is read, is filled nowhere in
the repository; `TPlus` is a constant. The conversion of accounts of an older form, whose cash is one
number (`paper.py:94`), is left out: it keeps the cash.

## 3. Runs

| run | instance | shows |
|---|---|---|
| `task` | 2 tasks, 1 thread, 1 MongoDB fault, 1 restart, symmetric | types; `OpenTaskHasOwner`, `UntouchedTasksAgree`, `CompletedHasReport`, `TrackersFreed`, `CompletedNeverReopened`, `DeletedStaysDeleted` |
| `task_live` | 2 tasks, 1 thread | the refinement `KeepsPromise`; `EveryExecutionEnds` |
| `graph` | every ordered pair of analysts and all four, depths 2 to 5, both kinds of models, up to 2 tools in one request | `RequestsAnswered`, `CapsRespected`, `WithinRecursionLimit`, `DecisionIsInformed`, `Ends`; the refinements `DebateIsRoundTable`, `RiskIsRoundTable` |
| `scheduler` | 2 jobs of different kinds, 2 records, 2 runs, 1 trigger | types; `SuccessesHappened`, `CheckerSparesSuccess`, `OnlyItsRunReopens` |
| `scheduler_live` | 1 reporting job, 2 records, 1 run, 1 trigger, 1 restart | `StaleRunningCleared` |
| `scheduler_cancel` | 1 reporting job, 3 records, 2 runs, 1 trigger | violation of `CancelledRunStops` |
| `sync` | 2 calls on one service, forced or not, 2 batches, 2 tries, 1 `DELETE /cache`, 1 crash | `RunsBounded`, `SuccessIsComplete`, `RunningIsTrue`, `FlagFreed` |
| `quotes` | an hour of 3 ticks, quota 2, 2 restarts | `ReportIsTrue`, `EverySourceAsked`; the refinement `KeepsHourlyLimit` |
| `limiter` | 4 callers, 3 calls in 4 ticks | the refinement `IsSlidingWindow`; `EveryCallerProceeds` |
| `config` | 2 clients, 3 requests, 2 models, 1 source, 1 database, symmetric | `OneActiveEach`; the refinement `IsRegister` |
| `paper` | 2 clients, 4 requests, cash 7, price 2, fee 1, quantities 1 and 2, T+1, symmetric | types; the refinement `IsLedger` |
| `queue` | 3 tasks of one user, batches of up to 2, 2 workers, limit 1, 2 upsets, symmetric | types; `OverrunBounded`, `SlotsHaveHolders`, `QueuedIsDeliverable`, `DeliveredOnce`, `BatchesAgree` |

Why the bounds suffice. Tasks interact only through the pool and the restart, so
two tasks and one thread give a task that waits for another; one fault can hit
any MongoDB write of the behaviour, and a restart any state. In the graph an analyst meets
what others left in the message list, which takes two of them, in either
order; depths 1 and 2 have the same rounds; two tools in one request make results and
requests differ in number. Two records of a job are
enough for an outcome to land on another run's record and for the checker to hold one
record while another is written; two jobs show that records of different jobs are
not mixed up. Two calls of a sync are the least of which one may free the flag of
the other; for `RunsBounded` they only show that two unforced calls exclude each other, since a
forced call or a reset makes its bound two, and a third run beside the first is left to the theorem
`RunsAreBounded`; two batches, that an error is forgotten; two tries, that a write is repeated.
Two restarts show that the quota starts anew more than once. Four callers and three calls in the
limiter put a caller behind a sleeper with the window full. Three requests
on the configuration are two that overlap and one that meets nobody; four on the paper account
are a purchase, two that overlap and a reset. Three tasks are the least for which two workers and a limit of
one can exceed the bound of `OverrunBounded`, and two tasks of a batch for which the second is refused. An *upset* of the queue is a death, a
cancel or a key that outlives its timeout: two of them allow a cancel during the
recovery from a death, or a second delivery followed by a second death. Every
run turns the deadlock check off: tasks and graphs end, and the
bounds on runs, records, requests, restarts and upsets stop the others.

Fairness. `AnalysisTask`: the event loop runs every ready coroutine
(`WF(Execute)`), the pool takes queued functions in order (`WF(StartWork)`), and an
analysis returns or raises (`WF(AnalysisEnds)`). The last is an assumption on the
model clients: the code sets no timeout on the executor, and a
call that hangs would hold its thread for ever. No fairness is assumed of clients,
operators, progress reports, faults or restarts. `AgentGraph`: LangGraph runs the next node
(`WF(Next)`), under the same assumption on model calls. `SchedulerExecutions`: time passes, the loop
runs the listener tasks and the checker, whose interval job is added when the
scheduler service is created; `StaleRunningCleared` is therefore conditional on the service being
up for good. `BasicsSync`: a call of MongoDB returns or raises, since it has a socket timeout
(`core/database.py:54`), and the loop resumes the run. That a call of a source does is an assumption:
it runs in `asyncio.to_thread` without a timeout (`multi_source_basics_sync_service.py:179`), and the
adapters of BaoStock and AKShare set none of their own, so a source that hangs keeps the flag set. No fairness is
assumed of callers, `DELETE /cache` and crashes. `QuotesIngestion`: the scheduler starts the job again and again and its calls return;
`EverySourceAsked` is conditional on a market that stays open from some time on, and a turn that the quota of a
source refuses counts as its turn. `RateLimiter`: time passes and
the loop resumes sleepers and the holder of the lock. `TaskQueue`, `ConfigService` and
`PaperTrading` have safety properties only.

### Disagreement between the code and what it says of itself

`scheduler_cancel` expects a violation: the log lines at the cancel check say that
the run is about to stop, but the exception that carries the request is raised and caught inside
`update_job_progress`, so the run goes on. The finding in `PROJECT.json`
quotes the lines.

Known weaknesses that the models contain as steps, without a property that says
otherwise: a task marked failed by hand is set back to running by its own run
(`routers/analysis.py:1181`); the MongoDB filter of the zombie cleanup is rejected by the server, so that it
changes memory only (`simple_analysis_service.py:2219`); a record of a running execution
can be deleted (`scheduler_service.py:559`); a visibility key of the queue expires
when the clean-up would count it (`queue/helpers.py:54`), so that the task of a dead worker
stays in processing; `dequeue_task` does not look at the global limit (`queue_service.py:117`);
requests that overlap on a paper account or on the configuration lose updates.

## 4. Proofs

The proofs hold for every value of the constants under their named assumptions: any
sets of tasks, callers, clients or runs, any limits, and any number of faults and restarts.

| module | theorems |
|---|---|
| `AnalysisTask_proofs` | `TypeCorrect`, `TrackersAreFreed`, `OpenTasksHaveOwners`, `StoresAgree`, `CompletedHaveReports`: `Spec => []P` for `TypeOK`, `TrackersFreed`, `OpenTaskHasOwner`, `UntouchedTasksAgree`, `CompletedHasReport`; `NeverReopened`, `DeletedForGood`: the action properties; `RunKeepsPromise`: the refinement |
| `AgentGraph_proofs` | `TypeCorrect`, `CapsHold`, `NoOpenRequests`, `LimitNeverReached`, `DecisionsInformed`: the invariants, for every selection of distinct analysts; `DebateTakesTurns`, `DiscussionTakesTurns`: both refinements |
| `SlidingWindow_proofs` | of the limiter: `LimiterTypeCorrect`, `SleepsSuffice`, and `KeepsWindow`: the refinement; of the quotes job: `TypeCorrect`, `StatusIsTrue`, and `QuotaKept`: the refinement |
| `ConfigService_proofs` | `TypeCorrect`, `OneActive`, and `IsOneRegister`: the refinement |
| `BasicsSync_proofs` | `TypeCorrect`, `RunsAreBounded`, `SuccessesComplete`, `RunningTold` |
| `SchedulerExecutions_proofs` | `TypeCorrect`, `NoInventedSuccess`, `SuccessSpared`, and `OnlyRunsReopen`: the action property |
| `TaskQueue_proofs` | `QueueTyped`, `OverrunIsBounded`, `SlotsHeld`, `BatchesListTheirs`, `DeliveredAtMostOnce`, `QueuedIsNotLost` |
| `PaperTrading_proofs` | `TypeCorrect`, and `AccountIsLedger`: the refinement |

None of the safety properties is inductive as it stands. Each module has an inductive invariant
`IInv`, with `Init => IInv`, one lemma per action or group of actions, `Inductive`, and the
theorems read off from it.

- `AnalysisTask`. That both stores agree at the end says nothing of a run in the middle. `IInv` adds
  `OnTrack(t)`: for an undisturbed task, what each place of the coroutine implies for
  both stores and the report (at "dbDone", memory reads completed, the
  document processing, and there is one report); `Reported(t)`: for every task, disturbed or not, what the
  place implies for the number of reports and for `analysed`, and that no tracker exists before the run
  starts; `QueueOK`: a task waits in the pool exactly when its place is "submitted", so a step of the pool
  moves the right coroutine; and that an open operator call implies a disturbed task.
- `AgentGraph`. `Listed`: what each place says of the message list, such as that it ends in a request
  when the tools are next, and that every other request is followed by the results of all
  its tools (`RequestFacts` and `CountFacts` say what an appended message does to requests and to the count of results); `Untouched`: debates, plan and decision are empty
  before their time; `Spent`: a bound on the nodes run so far by turn, tool calls, and speeches,
  from which the recursion limit follows; `Seated`: who may speak next, by the number of speeches.
- `RateLimiter` (`LimiterInv`). `SleepSuffices`: when a sleep ends the oldest call has left the window, so that
  the call recorded then needs no second check of the limit, which the code does not make;
  and never more than `MaxCalls` calls are remembered.
- `QuotesIngestion`. `RoomForCall`: while a Tushare call is out there is room in the window
  for its record, which is made only after the answer; `StoredIsThere`: a run that is about to report a success
  has left its quotes complete.
- `ConfigService`. `AloneIsAlone`: a client without company is the only one that changes anything, and
  has retired every document when it is about to insert; `Sound`: if nothing is disturbed, one change is on its
  way and one document active at most, and what is about to be saved is an accepted
  edit applied to it; `Prepared`: what is saved has a version above 1.
- `BasicsSync`. `Counted`: the runs at work, and the flag, against the forced runs and resets;
  `BatchesStored`, `SuccessEarned`: a run without errors has had every batch before its
  current one applied, and a success has had them all; `OwnDocument`: a document holds the status of a run of
  its own job; `Replaced`: a run that has written its last status has replaced its first.
- `SchedulerExecutions`. `RecordsKnown`: what a listener knows of the record it found until it
  writes it: the record is one of its job and not yet 30 minutes old, and only a trigger inserts a
  running one; `CheckerHoldsOld`: the checker holds older records, so the two never meet. `SuccessesHappened`
  is inductive because an outcome leaves the way in the step that writes it.
- `TaskQueue`. `RoomKept`: workers between the check and the mark are counted with the slots, since they
  will take one whatever happens; `ListingAhead`: a task that is in a batch but not yet listed is
  held by a call that still lists it. That a task is delivered at most once, and that a task which
  reads "queued" is still on its way to a worker, need a second invariant on top of the first: `TInv`.
  Both count copies of a task: in the ready list, in the hands of workers, and in the push that an enqueue
  still owes. `CopiesChange` says what each command does to that number (`DequeuePop` moves a copy, LREM
  takes the listed ones, a requeue makes one), from lemmas on `Append`, `Tail` and `Without`. What the
  count alone does not know is added: `Unborn` and `BornOnce`: a task without a hash is nowhere
  but with the client that is about to create it; `Acknowledged`: an `ack` writes the final status before
  it counts the task as ended; and `PlacesFit`: which calls hold a task at which of their commands.
- `PaperTrading`. The refinement counts an order when its trade is recorded, four or five
  database operations after the cash was read, so the invariant has to carry what a request knows.
  `Informed`: while the books are in order (`~raced`), what it read is still what the
  collections hold, the amount is a price times the quantity with the fee, a buyer
  can pay and a seller has the shares, today's purchases set aside. `NoCompany`, `OneAtATime`: who believes to be
  alone is, which lets one client's step be judged without the others. `OneDocument`: the collections then hold
  one account and one position at most. `Emptied` holds even when the books are
  not in order: a reset that meets nobody empties one collection after the
  other, and that is why it may end `raced`. TLC checked the whole invariant
  before it was proved.

Every invariant, action property and refinement of the passing runs is a theorem. Only model-checked
are the liveness properties, `EveryExecutionEnds`, `Ends`, `StaleRunningCleared`,
`FlagFreed`, `EverySourceAsked` and `EveryCallerProceeds`, which need fairness and `ENABLED` and are beyond the
prover; and the violation of `CancelledRunStops` is a counterexample, which TLC finds. The other way round, the type
invariants of `AgentGraph`, `RateLimiter` (`LimiterTypeOK`), `QuotesIngestion`, `BasicsSync` and `ConfigService`, and
`SleepSuffices`, are proved and not run.

## 5. Not modelled

In the modelled components: progress percentages and messages, the listing and status
queries, stock-name look-up, notifications sent after completion, the two memory clean-ups without a caller
(`cleanup_old_tasks`, `delete_task`), the second layout in which a report is
written when its insertion failed; job metadata and the action log of the
scheduler; what models write; the rows that are synchronised; average costs, profits, the
list of orders and the other markets of a paper account; market categories, groupings,
providers and model catalogues of the configuration, its connection tests and the contents
of its JSON files.

Whole components, with the reason, stand in `PROJECT.json`. The largest are the
data-source adapters and sync workers (`tradingagents/dataflows`, `app/worker`,
`services/data_sources`, `foreign_stock_service.py`): they call a third-party interface, convert its tables and
fall back to the next source on an exception. Then the agents' prompts and the model
clients, the CRUD services and their routers, which write one document per request, and
set-up code, command lines and exports. They make up most of the lines of the repository and hold no
protocol between actors; a model of them would restate their conversions. The progress
tracker has three writers and promises nothing: its simulation thread goes on
after the tracker was marked completed (`tracker.py:424`), and the log handler gives a line to
the first running tracker it finds (`log_handler.py:93`).

## 6. Plan

Done: the modules above. What is left, in this order:

1. `TaskQueue` with several users, for the global limit.
2. The fallback chain of the data sources as one loop over providers, with the
   cache in front of it. In `foreign_stock_service.py` every request builds its own service
   (`routers/stocks.py:244`), so the locks that allow one call of a source at a time
   (`foreign_stock_service.py:51`) are shared by nobody.
