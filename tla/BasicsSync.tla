----------------------------- MODULE BasicsSync -----------------------------
(***************************************************************************)
(* The full synchronisation of the stock list: the service of several      *)
(* sources (app/services/multi_source_basics_sync_service.py) and the one  *)
(* of Tushare alone (app/services/basics_sync_service.py), which share     *)
(* their shape: a lock round a running flag, a status document written at  *)
(* the start and at the end, and batches of upserts in between.  A service *)
(* here is an object with a flag of its own.  app/main.py makes one for    *)
(* the start-up run and the routers use another; both write the same       *)
(* status document.  A step is what happens between two awaits, and the    *)
(* answer of the database is a step of its own.                            *)
(***************************************************************************)
EXTENDS Naturals, FiniteSets

CONSTANTS Runs,         \* calls of run_full_sync
          Services,
          ServiceOf,    \* the service of each call
          Jobs,         \* the status documents, named by JOB_KEY
          JobOf,        \* the document of each service
          MultiSource,  \* the services of several sources
          Forceable,    \* the services whose callers pass force
          Shared,       \* the service whose flag DELETE /cache resets
          NumBatches,   \* batches of the stock list
          MaxTries,     \* max_retries
          None,
          MaxClears, MaxCrashes  \* bounds of the model

(* What the document holds of a run.                                       *)
Statuses == {"running", "success", "success_with_errors", "failed"}
Records == [run : Runs, status : Statuses]

ASSUME SyncAssumption ==
  /\ IsFiniteSet(Runs) /\ None \notin Runs \cup Records
  /\ ServiceOf \in [Runs -> Services]
  /\ JobOf \in [Services -> Jobs]
  /\ MultiSource \subseteq Services /\ Forceable \subseteq Services
  /\ Shared \in Services
  /\ NumBatches \in Nat \ {0} /\ MaxTries \in Nat \ {0}
  /\ MaxClears \in Nat /\ MaxCrashes \in Nat

VARIABLES
  running,   \* _running of each service
  document,  \* the status documents
  data,      \* the run that wrote each batch of the collection last
  pc,        \* the place of each run
  forced,    \* the runs called with force
  batch,     \* the batch a run writes next
  tries,     \* retry_count of that batch
  errors,    \* errors > 0
  status,    \* stats.status of each run
  wrote,     \* the batches of each run that the database has applied
  clearing,  \* calls of DELETE /cache between their delete and their reset
  resets,    \* resets of the flag done
  crashes

of_run == <<forced, batch, tries, errors>>
shared == <<running, document, data>>
outside == <<clearing, resets, crashes>>
vars == <<shared, pc, of_run, status, wrote, outside>>

Batches == 1..NumBatches
Busy == {"claimed", "fetching", "writing", "failing", "freeing"}
Places == Busy \cup {"new", "asking", "skipped", "raised", "ended", "killed"}

Mine(r) == JobOf[ServiceOf[r]]
(* A caller that is told the status holds the lock while it reads it.      *)
Locked(s) == \E r \in Runs : ServiceOf[r] = s /\ pc[r] = "asking"
Go(r, place) == pc' = [pc EXCEPT ![r] = place]

Init == /\ running = [s \in Services |-> FALSE]
        /\ document = [j \in Jobs |-> None] /\ data = [b \in Batches |-> None]
        /\ pc = [r \in Runs |-> "new"] /\ forced = {}
        /\ batch = [r \in Runs |-> 1] /\ tries = [r \in Runs |-> 0]
        /\ errors = [r \in Runs |-> FALSE]
        /\ status = [r \in Runs |-> "none"] /\ wrote = [r \in Runs |-> {}]
        /\ clearing = 0 /\ resets = 0 /\ crashes = 0
-----------------------------------------------------------------------------
(* run_full_sync takes the flag unless it is taken and force is not given.  *)
Call(r) == /\ pc[r] = "new" /\ ~Locked(ServiceOf[r])
           /\ UNCHANGED <<document, data, batch, tries, errors, status, wrote, outside>>

(* Wrong variant: the flag is not looked at.                               *)
ClaimAnyway(r, force) ==
  /\ Call(r)
  /\ running' = [running EXCEPT ![ServiceOf[r]] = TRUE]
  /\ forced' = IF force THEN forced \cup {r} ELSE forced
  /\ Go(r, "claimed")

Claim(r, force) ==
  /\ Call(r)
  /\ running[ServiceOf[r]] => force
  /\ running' = [running EXCEPT ![ServiceOf[r]] = TRUE]
  /\ forced' = IF force THEN forced \cup {r} ELSE forced
  /\ Go(r, "claimed")

(* The service of several sources answers from memory if it can; else, and  *)
(* in the other service, the answer is read from the database.              *)
Skip(r) ==
  /\ Call(r) /\ running[ServiceOf[r]]
  /\ \/ Go(r, "asking")
     \/ ServiceOf[r] \in MultiSource /\ Go(r, "skipped")
  /\ UNCHANGED <<running, forced>>

Answer(r) == /\ pc[r] = "asking" /\ Go(r, "skipped")
             /\ UNCHANGED <<shared, of_run, status, wrote, outside>>

Start(r) == \/ \E force \in {FALSE, ServiceOf[r] \in Forceable} : Claim(r, force)
            \/ Skip(r)
-----------------------------------------------------------------------------
(* _persist_status replaces the document.  A write that raises may have     *)
(* been applied.                                                            *)
Store(r) == document' = [document EXCEPT ![Mine(r)] = [run |-> r, status |-> status'[r]]]

Persist(r, result, stored, raised) ==
  /\ status' = [status EXCEPT ![r] = result]
  /\ \/ Store(r) /\ Go(r, stored)
     \/ /\ Store(r) \/ UNCHANGED document
        /\ Go(r, raised)
  /\ UNCHANGED <<running, data, of_run, wrote, outside>>

(* The first write happens outside the try block: the flag stays set if it  *)
(* raises.                                                                  *)
Announce(r) == pc[r] = "claimed" /\ Persist(r, "running", "fetching", "raised")

(* The lists come, or no source has them.  A row that cannot be processed   *)
(* is an error of the service of several sources and fails the other.       *)
Fetch(r) ==
  /\ pc[r] = "fetching"
  /\ \/ /\ errors' \in {[errors EXCEPT ![r] = bad] : bad \in {FALSE, ServiceOf[r] \in MultiSource}}
        /\ Go(r, "writing")
     \/ Go(r, "failing") /\ UNCHANGED errors
  /\ UNCHANGED <<shared, forced, batch, tries, status, wrote, outside>>
-----------------------------------------------------------------------------
(* _execute_bulk_write_with_retry: a batch is counted if the write changed  *)
(* something.  A write of what is already there changes nothing, and one    *)
(* that times out is repeated, whether or not it was applied.               *)
Apply(r) == /\ data' = [data EXCEPT ![batch[r]] = r]
            /\ wrote' = [wrote EXCEPT ![r] = @ \cup {batch[r]}]
Changes(r) == data[batch[r]] # r

(* Wrong variant: each batch forgets the errors before it.                  *)
NextBatchForgets(r, error) ==
  /\ batch' = [batch EXCEPT ![r] = @ + 1]
  /\ tries' = [tries EXCEPT ![r] = 0]
  /\ errors' = [errors EXCEPT ![r] = error]

NextBatch(r, error) ==
  /\ batch' = [batch EXCEPT ![r] = @ + 1]
  /\ tries' = [tries EXCEPT ![r] = 0]
  /\ errors' = [errors EXCEPT ![r] = @ \/ error]

Write(r) ==
  /\ pc[r] = "writing" /\ batch[r] <= NumBatches
  /\ \/ Apply(r) /\ NextBatch(r, ~Changes(r))
     \/ /\ Apply(r) \/ UNCHANGED <<data, wrote>>
        /\ \/ NextBatch(r, TRUE)
           \/ /\ tries[r] + 1 < MaxTries
              /\ tries' = [tries EXCEPT ![r] = @ + 1]
              /\ UNCHANGED <<batch, errors>>
  /\ UNCHANGED <<running, document, pc, forced, status, outside>>

Outcome(r) == IF errors[r] THEN "success_with_errors" ELSE "success"

(* After the last batch the outcome is written.  If that fails the run goes *)
(* on as any failed run: it writes "failed", and if that fails too it       *)
(* raises, but frees the flag.                                              *)
(* Wrong variant: a failed write of the outcome is ignored.                 *)
FinishIgnores(r) == /\ pc[r] = "writing" /\ batch[r] > NumBatches
                    /\ Persist(r, Outcome(r), "freeing", "freeing")

Finish(r) == /\ pc[r] = "writing" /\ batch[r] > NumBatches
             /\ Persist(r, Outcome(r), "freeing", "failing")
Fail(r) == /\ pc[r] = "failing"
           /\ Persist(r, "failed", "freeing", "freeing")

(* Wrong variant: a failed run keeps the flag.                              *)
FreeOnSuccess(r) ==
  /\ pc[r] = "freeing" /\ ~Locked(ServiceOf[r])
  /\ running' = [running EXCEPT ![ServiceOf[r]] = status[r] = "failed"]
  /\ Go(r, "ended")
  /\ UNCHANGED <<document, data, of_run, status, wrote, outside>>

Free(r) ==
  /\ pc[r] = "freeing" /\ ~Locked(ServiceOf[r])
  /\ running' = [running EXCEPT ![ServiceOf[r]] = FALSE]
  /\ Go(r, "ended")
  /\ UNCHANGED <<document, data, of_run, status, wrote, outside>>
-----------------------------------------------------------------------------
(* DELETE /cache removes the status document and then resets the flag of    *)
(* the service of the routers, but not what that remembers.                *)
ClearDocument ==
  /\ clearing + resets < MaxClears
  /\ document' = [document EXCEPT ![JobOf[Shared]] = None]
  /\ clearing' = clearing + 1
  /\ UNCHANGED <<running, data, pc, of_run, status, wrote, resets, crashes>>

ResetFlag ==
  /\ clearing > 0
  /\ clearing' = clearing - 1 /\ resets' = resets + 1
  /\ running' = [running EXCEPT ![Shared] = FALSE]
  /\ UNCHANGED <<document, data, pc, of_run, status, wrote, crashes>>

(* The process is killed and started again: what is in memory is lost.      *)
Crash ==
  /\ crashes < MaxCrashes /\ crashes' = crashes + 1
  /\ pc' = [r \in Runs |-> IF pc[r] \in Busy \cup {"asking"} THEN "killed" ELSE pc[r]]
  /\ running' = [s \in Services |-> FALSE]
  /\ clearing' = 0
  /\ UNCHANGED <<document, data, of_run, status, wrote, resets>>
-----------------------------------------------------------------------------
Step(r) == \/ Answer(r) \/ Announce(r) \/ Fetch(r) \/ Write(r)
           \/ Finish(r) \/ Fail(r) \/ Free(r)

Next == \/ \E r \in Runs : Start(r) \/ Step(r)
        \/ ClearDocument \/ ResetFlag \/ Crash

(* The event loop resumes what can go on, and a call of the database returns *)
(* or raises (MONGO_SOCKET_TIMEOUT_MS).  That a call of a data source does   *)
(* is an assumption: it runs in asyncio.to_thread without a timeout, and the *)
(* adapters of BaoStock and AKShare set none of their own.                   *)
Fairness == \A r \in Runs : WF_vars(Step(r))

Spec == Init /\ [][Next]_vars
FairSpec == Spec /\ Fairness
-----------------------------------------------------------------------------
(* Every variable has its type.                                             *)
TypeOK ==
  /\ running \in [Services -> BOOLEAN]
  /\ document \in [Jobs -> Records \cup {None}]
  /\ data \in [Batches -> Runs \cup {None}]
  /\ pc \in [Runs -> Places]
  /\ forced \subseteq Runs
  /\ batch \in [Runs -> 1..NumBatches + 1] /\ tries \in [Runs -> 0..MaxTries - 1]
  /\ errors \in [Runs -> BOOLEAN]
  /\ status \in [Runs -> Statuses \cup {"none"}]
  /\ wrote \in [Runs -> SUBSET Batches]
  /\ clearing \in Nat /\ resets \in Nat /\ crashes \in Nat

Going(s) == {r \in Runs : ServiceOf[r] = s /\ pc[r] \in Busy}
ForcedOn(s) == {r \in forced : ServiceOf[r] = s}

(* The lock and the flag let one run go at a time, but for each forced run  *)
(* and each reset of the flag: both end up clearing a flag that belongs to  *)
(* another run, and another unforced run may start beside that one.  There  *)
(* are never more runs at work on a service than one, one for each forced   *)
(* run and, on the service of the routers, one for each reset.              *)
RunsBounded ==
  \A s \in Services :
    Cardinality(Going(s)) <= 1 + Cardinality(ForcedOn(s)) + (IF s = Shared THEN resets ELSE 0)

Says(record) == record # None
(* The document says "success" only of a run whose every batch the database *)
(* has applied, however many writes timed out and whoever else was writing. *)
SuccessIsComplete ==
  \A j \in Jobs : Says(document[j]) /\ document[j].status = "success"
                   => wrote[document[j].run] = Batches

(* The document says "running" only of a run that still goes, that was      *)
(* killed, that could not announce itself, or whose last status could not   *)
(* be written: no other run brings it back.                                 *)
RunningIsTrue ==
  \A j \in Jobs : Says(document[j]) /\ document[j].status = "running"
                   => LET r == document[j].run
                      IN \/ pc[r] \in Busy \cup {"killed", "raised"}
                         \/ pc[r] = "ended" /\ status[r] = "failed"

(* A flag that is set is freed, unless a run could not announce itself.     *)
FlagFreed ==
  \A s \in Services :
    running[s] ~> ~running[s] \/ \E r \in Runs : ServiceOf[r] = s /\ pc[r] = "raised"
=============================================================================
