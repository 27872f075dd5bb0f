-------------------------------- MODULE TaskQueue --------------------------------
(***************************************************************************)
(* The Redis task queue of QueueService: a ready list, one hash per task,   *)
(* the sets of tasks in processing (per user and over all users) that count *)
(* against the concurrency limits, and one visibility key per delivered     *)
(* task.                                                                    *)
(*                                                                         *)
(* Every Redis command is atomic and a step of its own; each call of the    *)
(* service is several of them, with no transaction around them. A call may  *)
(* die between two commands, by a crash or a Redis error: dequeue, ack,     *)
(* cancel and cleanup catch the exception and return.                       *)
(*                                                                         *)
(* A worker dequeues a task and later acknowledges it. The clean-up runs as *)
(* one process. A task belongs to one user for ever, so the per-user sets   *)
(* are one set of tasks here; of the sets of tasks of the batches only what *)
(* they lack is kept.                                                       *)
(* The ready list is popped at index 1. One client calls at a time.         *)
(***************************************************************************)
EXTENDS Naturals, Sequences, FiniteSets

CONSTANTS
  Tasks, NoTask,
  Users,
  Owner,       \* Owner[t]: the user who submitted t
  Workers,     \* concurrent callers of dequeue_task
  UserLimit,   \* DEFAULT_USER_CONCURRENT_LIMIT
  GlobalLimit, \* GLOBAL_CONCURRENT_LIMIT
  MaxBatch,    \* bound: symbols of a batch
  MaxUpsets    \* bound: calls that die half-way, calls of cancel_task and visibility
               \*   keys that outlive timeout_at, counted together

ASSUME NoTaskAssumption == NoTask \notin Tasks
ASSUME OwnerAssumption == Owner \in [Tasks -> Users]
ASSUME WorkersAssumption == IsFiniteSet(Workers) /\ Workers # {}
ASSUME LimitsAssumption == UserLimit \in Nat \ {0} /\ GlobalLimit \in Nat
ASSUME BoundAssumption == MaxBatch \in Nat /\ MaxUpsets \in Nat

VARIABLES
  status,     \* status[t]: field status of the hash of t, "absent" without one
  ready,      \* READY_LIST
  userSlots,  \* members of the qa:user_processing sets
  slots,      \* SET_PROCESSING
  key,        \* key[t]: the visibility key of t
  ended,      \* SET_COMPLETED and SET_FAILED together
  unlisted,   \* tasks whose hash names a batch, and that its set of tasks lacks
  worker,     \* worker[w]: the next command of w's dequeue or ack, and its task
  client,     \* an enqueue, batch or cancel call; rest: what a batch still submits
  janitor,    \* the requeueing of one expired task
  expired,    \* tasks the clean-up found expired and has not handled yet
  disturbed,  \* history: tasks of a call that died, or requeued by the clean-up
  upsets

vars == <<status, ready, userSlots, slots, key, ended, unlisted, worker, client, janitor,
          expired, disturbed, upsets>>

\* "ended": completed or failed
Statuses == {"absent", "queued", "processing", "ended", "cancelled"}

\* "fresh": no TTL yet. "running": the TTL ends at or before timeout_at. "slack": the
\* clock reached the next second between the two commands, so the key outlives
\* timeout_at by less than a second. "late", "stuck": past timeout_at, with and
\* without a TTL.
Keys == {"none", "fresh", "running", "slack", "late", "stuck"}

\* The next command of a call. A worker holds its user's slot from markGlobal to the
\* ack, and the global one a command longer on both sides.
HoldsUserSlot == {"markGlobal", "setKey", "setTTL", "setProcessing", "holding"}
HoldsSlot == {"setKey", "setTTL", "setProcessing", "holding", "unmarkGlobal"}
WorkerPlaces ==
  {"idle", "check", "back", "markUser"} \cup HoldsUserSlot \cup HoldsSlot \cup
  {"clearKey", "setOutcome", "addOutcome"}
ClientPlaces ==
  {"idle", "symbol", "checkGlobal", "create", "push", "list",
   "cancelUser", "cancelGlobal", "cancelKey", "cancelReady", "cancelHash"}
JanitorPlaces == {"idle", "expireGlobal", "expireKey", "requeue", "setQueued"}

Upset == upsets < MaxUpsets /\ upsets' = upsets + 1

Idle == [at |-> "idle", task |-> NoTask]
NoCall == [at |-> "idle", task |-> NoTask, rest |-> {}]

SlotsOf(u) == {t \in userSlots : Owner[t] = u}
UserHasRoom(u) == Cardinality(SlotsOf(u)) < UserLimit
GlobalHasRoom == Cardinality(slots) < GlobalLimit

-----------------------------------------------------------------------------
Init ==
  /\ status = [t \in Tasks |-> "absent"]
  /\ ready = <<>>
  /\ userSlots = {} /\ slots = {}
  /\ key = [t \in Tasks |-> "none"]
  /\ ended = {} /\ unlisted = {}
  /\ worker = [w \in Workers |-> Idle]
  /\ client = NoCall /\ janitor = Idle
  /\ expired = {} /\ disturbed = {}
  /\ upsets = 0

-----------------------------------------------------------------------------
(* create_batch and enqueue_task                                            *)

ClientAt(place) == client.at = place
ClientGo(place) ==
  client' = IF place = "idle" THEN NoCall ELSE [client EXCEPT !.at = place]

\* The hash of the batch is written first. Nothing of it is read but by clients.
CreateBatch(submitted) ==
  /\ ClientAt("idle") /\ submitted # {}
  /\ Cardinality(submitted) <= MaxBatch
  /\ \A t \in submitted : status[t] = "absent"
  /\ \A t, other \in submitted : Owner[t] = Owner[other]
  /\ client' = [at |-> "symbol", task |-> NoTask, rest |-> submitted]
  /\ UNCHANGED <<status, ready, userSlots, slots, key, ended, unlisted, worker, janitor,
                 expired, disturbed, upsets>>

\* A task of its own, or the next one of a batch. A limit that is reached raises, which
\* ends a batch half-way.
CheckUserLimit(t) ==
  /\ status[t] = "absent"
  /\ \/ ClientAt("idle") /\ UserHasRoom(Owner[t])
     \/ ClientAt("symbol") /\ t \in client.rest
  /\ client' = IF UserHasRoom(Owner[t])
               THEN [client EXCEPT !.at = "checkGlobal", !.task = t] ELSE NoCall
  /\ UNCHANGED <<status, ready, userSlots, slots, key, ended, unlisted, worker, janitor,
                 expired, disturbed, upsets>>

CheckGlobalLimit ==
  /\ ClientAt("checkGlobal")
  /\ ClientGo(IF GlobalHasRoom THEN "create" ELSE "idle")
  /\ UNCHANGED <<status, ready, userSlots, slots, key, ended, unlisted, worker, janitor,
                 expired, disturbed, upsets>>

\* Wrong variant: the status of the other enumeration.
CreatePending ==
  /\ ClientAt("create")
  /\ status' = [status EXCEPT ![client.task] = "pending"]
  /\ unlisted' = unlisted \cup ({client.task} \cap client.rest)
  /\ ClientGo("push")
  /\ UNCHANGED <<ready, userSlots, slots, key, ended, worker, janitor, expired,
                 disturbed, upsets>>

CreateHash ==
  /\ ClientAt("create")
  /\ status' = [status EXCEPT ![client.task] = "queued"]
  /\ unlisted' = unlisted \cup ({client.task} \cap client.rest)
  /\ ClientGo("push")
  /\ UNCHANGED <<ready, userSlots, slots, key, ended, worker, janitor, expired,
                 disturbed, upsets>>

PushReady ==
  /\ ClientAt("push")
  /\ ready' = Append(ready, client.task)
  /\ ClientGo(IF client.task \in client.rest THEN "list" ELSE "idle")
  /\ UNCHANGED <<status, userSlots, slots, key, ended, unlisted, worker, janitor,
                 expired, disturbed, upsets>>

NextSymbol ==
  LET rest == client.rest \ {client.task} IN
  client' = IF rest = {} THEN NoCall
            ELSE [at |-> "symbol", task |-> NoTask, rest |-> rest]

\* Wrong variant: the batch lists the task that comes next.
ListNext ==
  /\ ClientAt("list")
  /\ \E t \in client.rest : unlisted' = unlisted \ {t}
  /\ NextSymbol
  /\ UNCHANGED <<status, ready, userSlots, slots, key, ended, worker, janitor,
                 expired, disturbed, upsets>>

\* A worker may have the task by now, or be done with it.
ListTask ==
  /\ ClientAt("list")
  /\ unlisted' = unlisted \ {client.task}
  /\ NextSymbol
  /\ UNCHANGED <<status, ready, userSlots, slots, key, ended, worker, janitor,
                 expired, disturbed, upsets>>

-----------------------------------------------------------------------------
(* dequeue_task                                                             *)

WorkerAt(w, place) == worker[w].at = place
WorkerGo(w, place) ==
  worker' = [worker EXCEPT ![w] =
               IF place = "idle" THEN Idle ELSE [@ EXCEPT !.at = place]]

\* Wrong variant: the task is read from the list and not removed.
PeekReady(w) ==
  /\ WorkerAt(w, "idle") /\ ready # <<>>
  /\ worker' = [worker EXCEPT ![w] = [at |-> "check", task |-> Head(ready)]]
  /\ UNCHANGED <<status, ready, userSlots, slots, key, ended, unlisted, client, janitor,
                 expired, disturbed, upsets>>

PopReady(w) ==
  /\ WorkerAt(w, "idle") /\ ready # <<>>
  /\ ready' = Tail(ready)
  /\ worker' = [worker EXCEPT ![w] = [at |-> "check", task |-> Head(ready)]]
  /\ UNCHANGED <<status, userSlots, slots, key, ended, unlisted, client, janitor,
                 expired, disturbed, upsets>>

\* Wrong variant: the limit is checked by enqueue_task only.
SkipCheck(w) ==
  /\ WorkerAt(w, "check")
  /\ WorkerGo(w, "markUser")
  /\ UNCHANGED <<status, ready, userSlots, slots, key, ended, unlisted, client, janitor,
                 expired, disturbed, upsets>>

\* The user's limit only; the global one is not looked at again.
CheckAgain(w) ==
  /\ WorkerAt(w, "check")
  /\ WorkerGo(w, IF UserHasRoom(Owner[worker[w].task]) THEN "markUser" ELSE "back")
  /\ UNCHANGED <<status, ready, userSlots, slots, key, ended, unlisted, client, janitor,
                 expired, disturbed, upsets>>

\* Wrong variant: the popped task is not put back.
DropTask(w) ==
  /\ WorkerAt(w, "back")
  /\ WorkerGo(w, "idle")
  /\ UNCHANGED <<status, ready, userSlots, slots, key, ended, unlisted, client, janitor,
                 expired, disturbed, upsets>>

PushBack(w) ==
  /\ WorkerAt(w, "back")
  /\ ready' = Append(ready, worker[w].task)
  /\ WorkerGo(w, "idle")
  /\ UNCHANGED <<status, userSlots, slots, key, ended, unlisted, client, janitor,
                 expired, disturbed, upsets>>

MarkUser(w) ==
  /\ WorkerAt(w, "markUser")
  /\ userSlots' = userSlots \cup {worker[w].task}
  /\ WorkerGo(w, "markGlobal")
  /\ UNCHANGED <<status, ready, slots, key, ended, unlisted, client, janitor, expired,
                 disturbed, upsets>>

MarkGlobal(w) ==
  /\ WorkerAt(w, "markGlobal")
  /\ slots' = slots \cup {worker[w].task}
  /\ WorkerGo(w, "setKey")
  /\ UNCHANGED <<status, ready, userSlots, key, ended, unlisted, client, janitor,
                 expired, disturbed, upsets>>

\* HSET on an existing key leaves its TTL alone; EXPIRE restarts it, or does nothing
\* when the key was deleted in between.
SetKey(w) ==
  /\ WorkerAt(w, "setKey")
  /\ key' = [key EXCEPT ![worker[w].task] = IF @ \in {"none", "fresh", "stuck"}
                                                THEN "fresh" ELSE "running"]
  /\ WorkerGo(w, "setTTL")
  /\ UNCHANGED <<status, ready, userSlots, slots, ended, unlisted, client, janitor,
                 expired, disturbed, upsets>>

SetTTL(w) ==
  /\ WorkerAt(w, "setTTL")
  /\ \E k \in {"running", "slack"} :
       /\ key' = [key EXCEPT ![worker[w].task] = IF @ = "none" THEN @ ELSE k]
       /\ IF k = "slack" THEN Upset ELSE UNCHANGED upsets
  /\ WorkerGo(w, "setProcessing")
  /\ UNCHANGED <<status, ready, userSlots, slots, ended, unlisted, client, janitor,
                 expired, disturbed>>

SetProcessing(w) ==
  /\ WorkerAt(w, "setProcessing")
  /\ status' = [status EXCEPT ![worker[w].task] = "processing"]
  /\ WorkerGo(w, "holding")
  /\ UNCHANGED <<ready, userSlots, slots, key, ended, unlisted, client, janitor, expired,
                 disturbed, upsets>>

-----------------------------------------------------------------------------
(* ack_task                                                                 *)

\* Wrong variant: the user's slot is kept.
UnmarkNothing(w) ==
  /\ WorkerAt(w, "holding")
  /\ WorkerGo(w, "unmarkGlobal")
  /\ UNCHANGED <<status, ready, userSlots, slots, key, ended, unlisted, client, janitor,
                 expired, disturbed, upsets>>

UnmarkUser(w) ==
  /\ WorkerAt(w, "holding")
  /\ userSlots' = userSlots \ {worker[w].task}
  /\ WorkerGo(w, "unmarkGlobal")
  /\ UNCHANGED <<status, ready, slots, key, ended, unlisted, client, janitor, expired,
                 disturbed, upsets>>

UnmarkGlobal(w) ==
  /\ WorkerAt(w, "unmarkGlobal")
  /\ slots' = slots \ {worker[w].task}
  /\ WorkerGo(w, "clearKey")
  /\ UNCHANGED <<status, ready, userSlots, key, ended, unlisted, client, janitor,
                 expired, disturbed, upsets>>

ClearKey(w) ==
  /\ WorkerAt(w, "clearKey")
  /\ key' = [key EXCEPT ![worker[w].task] = "none"]
  /\ WorkerGo(w, "setOutcome")
  /\ UNCHANGED <<status, ready, userSlots, slots, ended, unlisted, client, janitor,
                 expired, disturbed, upsets>>

SetOutcome(w) ==
  /\ WorkerAt(w, "setOutcome")
  /\ status' = [status EXCEPT ![worker[w].task] = "ended"]
  /\ WorkerGo(w, "addOutcome")
  /\ UNCHANGED <<ready, userSlots, slots, key, ended, unlisted, client, janitor, expired,
                 disturbed, upsets>>

AddOutcome(w) ==
  /\ WorkerAt(w, "addOutcome")
  /\ ended' = ended \cup {worker[w].task}
  /\ WorkerGo(w, "idle")
  /\ UNCHANGED <<status, ready, userSlots, slots, key, unlisted, client, janitor,
                 expired, disturbed, upsets>>

-----------------------------------------------------------------------------
(* cancel_task                                                              *)

ReadToCancel(t) ==
  /\ ClientAt("idle") /\ status[t] # "absent" /\ Upset
  /\ client' = [task |-> t, rest |-> {},
                at |-> CASE status[t] = "processing" -> "cancelUser"
                         [] status[t] = "queued" -> "cancelReady"
                         [] OTHER -> "cancelHash"]
  /\ UNCHANGED <<status, ready, userSlots, slots, key, ended, unlisted, worker, janitor,
                 expired, disturbed>>

CancelUser ==
  /\ ClientAt("cancelUser")
  /\ userSlots' = userSlots \ {client.task}
  /\ ClientGo("cancelGlobal")
  /\ UNCHANGED <<status, ready, slots, key, ended, unlisted, worker, janitor, expired,
                 disturbed, upsets>>

CancelGlobal ==
  /\ ClientAt("cancelGlobal")
  /\ slots' = slots \ {client.task}
  /\ ClientGo("cancelKey")
  /\ UNCHANGED <<status, ready, userSlots, key, ended, unlisted, worker, janitor,
                 expired, disturbed, upsets>>

CancelKey ==
  /\ ClientAt("cancelKey")
  /\ key' = [key EXCEPT ![client.task] = "none"]
  /\ ClientGo("cancelHash")
  /\ UNCHANGED <<status, ready, userSlots, slots, ended, unlisted, worker, janitor,
                 expired, disturbed, upsets>>

\* LREM with count 0: every copy of t goes, and the others keep their order.
Without(s, t) ==
  LET kept == {i \in DOMAIN s : s[i] # t}
      rank(i) == Cardinality({j \in kept : j <= i})
  IN [n \in 1..Cardinality(kept) |-> s[CHOOSE i \in kept : rank(i) = n]]

CancelReady ==
  /\ ClientAt("cancelReady")
  /\ ready' = Without(ready, client.task)
  /\ ClientGo("cancelHash")
  /\ UNCHANGED <<status, userSlots, slots, key, ended, unlisted, worker, janitor,
                 expired, disturbed, upsets>>

CancelHash ==
  /\ ClientAt("cancelHash")
  /\ status' = [status EXCEPT ![client.task] = "cancelled"]
  /\ ClientGo("idle")
  /\ UNCHANGED <<ready, userSlots, slots, key, ended, unlisted, worker, janitor, expired,
                 disturbed, upsets>>

-----------------------------------------------------------------------------
(* cleanup_expired_tasks                                                    *)

JanitorAt(place) == janitor.at = place
JanitorGo(place) ==
  janitor' = IF place = "idle" THEN Idle ELSE [janitor EXCEPT !.at = place]

FindExpired(t) ==
  /\ JanitorAt("idle") /\ key[t] \in {"late", "stuck"} /\ t \notin expired
  /\ expired' = expired \cup {t}
  /\ UNCHANGED <<status, ready, userSlots, slots, key, ended, unlisted, worker, client,
                 janitor, disturbed, upsets>>

ExpireUser(t) ==
  /\ JanitorAt("idle") /\ t \in expired
  /\ expired' = expired \ {t}
  /\ userSlots' = userSlots \ {t}
  /\ janitor' = [at |-> "expireGlobal", task |-> t]
  /\ disturbed' = disturbed \cup {t}
  /\ UNCHANGED <<status, ready, slots, key, ended, unlisted, worker, client, upsets>>

ExpireGlobal ==
  /\ JanitorAt("expireGlobal")
  /\ slots' = slots \ {janitor.task}
  /\ JanitorGo("expireKey")
  /\ UNCHANGED <<status, ready, userSlots, key, ended, unlisted, worker, client, expired,
                 disturbed, upsets>>

ExpireKey ==
  /\ JanitorAt("expireKey")
  /\ key' = [key EXCEPT ![janitor.task] = "none"]
  /\ JanitorGo("requeue")
  /\ UNCHANGED <<status, ready, userSlots, slots, ended, unlisted, worker, client,
                 expired, disturbed, upsets>>

Requeue ==
  /\ JanitorAt("requeue")
  /\ ready' = Append(ready, janitor.task)
  /\ JanitorGo("setQueued")
  /\ UNCHANGED <<status, userSlots, slots, key, ended, unlisted, worker, client, expired,
                 disturbed, upsets>>

SetQueued ==
  /\ JanitorAt("setQueued")
  /\ status' = [status EXCEPT ![janitor.task] = "queued"]
  /\ JanitorGo("idle")
  /\ UNCHANGED <<ready, userSlots, slots, key, ended, unlisted, worker, client, expired,
                 disturbed, upsets>>

-----------------------------------------------------------------------------
(* Time and failures                                                        *)

\* 300 seconds go by, or the rest of a second. They do not go by between the two
\* commands of one set_visibility_timeout.
KeyAges(t) ==
  /\ \/ /\ key[t] = "fresh"
        /\ \A w \in Workers : worker[w] # [at |-> "setTTL", task |-> t]
        /\ key' = [key EXCEPT ![t] = "stuck"]
     \/ key[t] = "slack" /\ key' = [key EXCEPT ![t] = "late"]
     \/ key[t] \in {"running", "late"} /\ key' = [key EXCEPT ![t] = "none"]
  /\ UNCHANGED <<status, ready, userSlots, slots, ended, unlisted, worker, client,
                 janitor, expired, disturbed, upsets>>

Die(process, tasks) ==
  /\ process.at # "idle" /\ Upset
  /\ disturbed' = disturbed \cup tasks

WorkerDies(w) ==
  /\ Die(worker[w], {worker[w].task}) /\ WorkerGo(w, "idle")
  /\ UNCHANGED <<status, ready, userSlots, slots, key, ended, unlisted, client, janitor,
                 expired>>

ClientDies ==
  /\ Die(client, {client.task} \ {NoTask}) /\ client' = NoCall
  /\ UNCHANGED <<status, ready, userSlots, slots, key, ended, unlisted, worker, janitor,
                 expired>>

JanitorDies ==
  /\ Die(janitor, {janitor.task}) /\ janitor' = Idle
  /\ UNCHANGED <<status, ready, userSlots, slots, key, ended, unlisted, worker, client,
                 expired>>

-----------------------------------------------------------------------------
Enqueue ==
  \/ \E submitted \in SUBSET Tasks : CreateBatch(submitted)
  \/ \E t \in Tasks : CheckUserLimit(t)
  \/ CheckGlobalLimit \/ CreateHash \/ PushReady \/ ListTask

Dequeue(w) ==
  \/ PopReady(w) \/ CheckAgain(w) \/ PushBack(w)
  \/ MarkUser(w) \/ MarkGlobal(w) \/ SetKey(w) \/ SetTTL(w) \/ SetProcessing(w)

Ack(w) ==
  \/ UnmarkUser(w) \/ UnmarkGlobal(w) \/ ClearKey(w) \/ SetOutcome(w) \/ AddOutcome(w)

Cancel ==
  \/ \E t \in Tasks : ReadToCancel(t)
  \/ CancelUser \/ CancelGlobal \/ CancelKey \/ CancelReady \/ CancelHash

CleanUp ==
  \/ \E t \in Tasks : FindExpired(t) \/ ExpireUser(t)
  \/ ExpireGlobal \/ ExpireKey \/ Requeue \/ SetQueued

Next ==
  \/ Enqueue \/ Cancel \/ CleanUp
  \/ \E w \in Workers : Dequeue(w) \/ Ack(w) \/ WorkerDies(w)
  \/ \E t \in Tasks : KeyAges(t)
  \/ ClientDies \/ JanitorDies

Spec == Init /\ [][Next]_vars

-----------------------------------------------------------------------------
(* Properties                                                               *)

TypeOK ==
  /\ status \in [Tasks -> Statuses]
  /\ ready \in Seq(Tasks)
  /\ userSlots \subseteq Tasks /\ slots \subseteq Tasks
  /\ key \in [Tasks -> Keys]
  /\ ended \subseteq Tasks /\ unlisted \subseteq Tasks
  /\ worker \in [Workers -> [at : WorkerPlaces, task : Tasks \cup {NoTask}]]
  /\ client \in [at : ClientPlaces, task : Tasks \cup {NoTask}, rest : SUBSET Tasks]
  /\ janitor \in [at : JanitorPlaces, task : Tasks \cup {NoTask}]
  /\ expired \subseteq Tasks /\ disturbed \subseteq Tasks
  /\ upsets \in 0..MaxUpsets

\* Check and mark are two commands, so workers that checked at the same time go over
\* the user's limit: by less than the number of workers, and no further, whatever
\* slots dead workers leave behind and in whatever order acks and cancels free them.
OverrunBounded ==
  \A u \in Users : Cardinality(SlotsOf(u)) < UserLimit + Cardinality(Workers)

\* A task that counts against a limit is in the hands of a worker that will release
\* the slot when it acknowledges, unless a call on that task died.
SlotsHaveHolders ==
  /\ \A t \in userSlots \ disturbed : \E w \in Workers :
       worker[w].task = t /\ worker[w].at \in HoldsUserSlot
  /\ \A t \in slots \ disturbed : \E w \in Workers :
       worker[w].task = t /\ worker[w].at \in HoldsSlot

Copies(t) ==
  Cardinality({i \in DOMAIN ready : ready[i] = t})
    + Cardinality({w \in Workers : worker[w].task = t})
    + (IF client.at = "push" /\ client.task = t THEN 1 ELSE 0)

\* A task that reads queued can still be delivered, unless a call on it died or the
\* clean-up requeued it: it is in the list, or a call on the way there or from there
\* has it, or a cancel is about to overwrite the status.
QueuedIsDeliverable ==
  \A t \in Tasks \ disturbed :
    status[t] = "queued" =>
      Copies(t) = 1 \/ (client.at = "cancelHash" /\ client.task = t)

\* No task is handed to two workers, or again after it ended, unless the clean-up
\* requeued it or a call on it died: whatever pushbacks, cancels and acks overlap.
DeliveredOnce ==
  \A t \in Tasks \ disturbed :
    /\ Copies(t) <= 1
    /\ t \in ended => Copies(t) = 0

\* A task that names a batch is listed by the batch, however far a worker is with it
\* by then, and whether or not a limit ended the batch half-way; only a call that died
\* in between leaves a task that its batch does not list.
BatchesAgree ==
  \A t \in unlisted :
    \/ t \in disturbed
    \/ client.task = t /\ client.at \in {"push", "list"}
=============================================================================
