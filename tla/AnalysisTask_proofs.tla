--------------------------- MODULE AnalysisTask_proofs ---------------------------
(***************************************************************************)
(* Proofs about AnalysisTask, for any set of tasks, any pool size and any   *)
(* number of faults and restarts.                                           *)
(*                                                                         *)
(* The safety invariants are not inductive: that memory and MongoDB agree   *)
(* at the end follows from what they hold at every earlier point of the     *)
(* run (OnTrack), and a worker only starts a run that has been submitted    *)
(* because the queue of the pool holds exactly such runs, each once         *)
(* (QueueOK).                                                               *)
(***************************************************************************)
EXTENDS AnalysisTask, TLAPS

\* The pool's queue: submitted runs, each of them once.
QueueOK ==
  /\ \A i \in 1..Len(waiting) : pc[waiting[i]] = "submitted"
  /\ \A i, j \in 1..Len(waiting) : waiting[i] = waiting[j] => i = j

\* Where the run of t stands says what both stores hold, if nobody interfered.
OnTrack(t) ==
  /\ pc[t] # "lost"
  /\ pc[t] = "none" => mem[t] = "absent" /\ mongo[t] = "absent"
  /\ pc[t] = "creating" => mem[t] = "pending" /\ mongo[t] = "absent"
  /\ pc[t] \in {"queued", "invalidMem", "validated", "mem10"} =>
       mem[t] = "pending" /\ mongo[t] = "pending"
  /\ pc[t] = "invalidDb" => mem[t] = "failedA" /\ mongo[t] = "pending"
  /\ pc[t] = "db10" => mem[t] = "running" /\ mongo[t] = "pending"
  /\ pc[t] \in {"mem20", "db20", "submitted", "working", "saveReport", "memDone"} =>
       mem[t] = "running" /\ mongo[t] = "processing"
  /\ pc[t] = "dbDone" => mem[t] = "completed" /\ mongo[t] = "processing"
  /\ pc[t] = "error" => mem[t] \in {"pending", "running"} /\ mongo[t] \in Open
  /\ pc[t] = "dbFailed" => mem[t] = "failed" /\ mongo[t] \in Open
  /\ pc[t] = "ended" =>
       /\ mongo[t] \in {"completed", "failed"}
       /\ Verdict(mem[t]) = mongo[t]
  /\ pc[t] \in {"memDone", "dbDone"} => reports[t] = 1
  /\ pc[t] = "ended" /\ mongo[t] = "completed" => reports[t] = 1

\* Holds for every task, interfered with or not.
Reported(t) ==
  /\ pc[t] \in {"saveReport", "memDone", "dbDone"} => t \in analysed
  /\ "completed" \in {mem[t], mongo[t]} => t \in analysed
  /\ mem[t] = "completed" => pc[t] \in {"dbDone", "ended"}
  /\ pc[t] \notin {"memDone", "dbDone", "ended", "lost"} => reports[t] = 0
  /\ reports[t] <= 1
  /\ pc[t] \in {"creating", "queued"} => t \notin trackers

IInv ==
  /\ TypeOK
  /\ TrackersFreed
  /\ QueueOK
  /\ \A t \in Tasks : admin[t] # "idle" => t \in disturbed
  /\ \A t \in Tasks : Reported(t)
  /\ \A t \in Tasks \ disturbed : OnTrack(t)

-----------------------------------------------------------------------------

\* The initial state satisfies the inductive invariant.
LEMMA InitInv == Init => IInv
<1> USE PoolSizeAssumption, BoundsAssumption
<1> QED
  BY DEF Init, IInv, TypeOK, TrackersFreed, QueueOK, Reported, OnTrack, MemStatus,
         MongoStatus, PCs, Active, Ended

\* What a MongoDB update does, whether it is applied, finds nothing or fails.
LEMMA MongoUpdateFacts ==
  ASSUME TypeOK, NEW t \in Tasks, NEW s \in MongoStatus, MongoUpdate(t, s)
  PROVE  /\ mongo' \in [Tasks -> MongoStatus]
         /\ \A u \in Tasks \ {t} : mongo'[u] = mongo[u]
         /\ mongo'[t] \in {mongo[t], s}
         /\ t \notin disturbed' /\ mongo[t] # "absent" => mongo'[t] = s
         /\ disturbed \subseteq disturbed' /\ disturbed' \subseteq Tasks
         /\ disturbed' \subseteq disturbed \cup {t}
         /\ faults' \in 0..MaxFaults
<1> USE BoundsAssumption DEF TypeOK, MongoUpdate, SetStatus, SwallowedFault
<1>1. CASE SetStatus(t, s) /\ (UNCHANGED <<faults, disturbed>> \/ SwallowedFault(t))
  BY <1>1
<1>2. CASE SwallowedFault(t) /\ UNCHANGED mongo
  BY <1>2
<1> QED
  BY <1>1, <1>2

\* The queue keeps its shape as long as a submitted run stays submitted.
LEMMA QueueKept ==
  ASSUME QueueOK, TypeOK, waiting' = waiting,
         \A u \in Tasks : pc[u] = "submitted" => pc'[u] = "submitted"
  PROVE  QueueOK'
<1>1. \A i \in 1..Len(waiting) : waiting[i] \in Tasks
  BY DEF TypeOK
<1> QED
  BY <1>1 DEF QueueOK

\* Every step of one task keeps the invariant: the run itself, its worker thread, an
\* operator call.
LEMMA TaskStepInv ==
  ASSUME IInv, NEW t \in Tasks,
         Submit(t) \/ Execute(t) \/ Work(t) \/ Operate(t)
  PROVE IInv'
<1> USE PoolSizeAssumption, BoundsAssumption
    DEF IInv, MemStatus, MongoStatus, PCs, Active, Ended, Open, Verdict, Goto, Finish,
        MemUpdate
<1>1. CASE CreateInMemory(t)
  <2>1. TypeOK'
    BY <1>1 DEF TypeOK, CreateInMemory
  <2>2. TrackersFreed'
    BY <1>1 DEF TypeOK, TrackersFreed, CreateInMemory
  <2>3. QueueOK'
    BY <1>1, QueueKept DEF TypeOK, CreateInMemory
  <2>o. (\A u \in Tasks : admin[u] # "idle" => u \in disturbed)'
    BY <1>1 DEF TypeOK, CreateInMemory
  <2>4. (\A u \in Tasks : Reported(u))'
    BY <1>1 DEF TypeOK, TrackersFreed, Reported, CreateInMemory
  <2>5. (\A u \in Tasks \ disturbed : OnTrack(u))'
    BY <1>1 DEF TypeOK, OnTrack, Reported, CreateInMemory
  <2> QED
    BY <2>1, <2>2, <2>3, <2>o, <2>4, <2>5
<1>2. CASE CreateInMongo(t)
  <2>1. TypeOK'
    <3>1. mongo' \in [Tasks -> MongoStatus]
      BY <1>2 DEF TypeOK, CreateInMongo
    <3>2. disturbed' \subseteq Tasks /\ faults' \in 0..MaxFaults
      BY <1>2 DEF TypeOK, CreateInMongo, SwallowedFault
    <3> QED
      BY <1>2, <3>1, <3>2 DEF TypeOK, CreateInMongo
  <2>2. TrackersFreed'
    BY <1>2 DEF TypeOK, TrackersFreed, CreateInMongo, SwallowedFault
  <2>3. QueueOK'
    BY <1>2, QueueKept DEF TypeOK, CreateInMongo
  <2>o. (\A u \in Tasks : admin[u] # "idle" => u \in disturbed)'
    BY <1>2 DEF TypeOK, CreateInMongo, SwallowedFault
  <2>4. (\A u \in Tasks : Reported(u))'
    BY <1>2 DEF TypeOK, Reported, CreateInMongo, SwallowedFault
  <2>5. (\A u \in Tasks \ disturbed : OnTrack(u))'
    BY <1>2 DEF TypeOK, OnTrack, Reported, CreateInMongo, SwallowedFault
  <2> QED
    BY <2>1, <2>2, <2>3, <2>o, <2>4, <2>5
<1>3. CASE Validate(t)
  <2>1. TypeOK'
    BY <1>3 DEF TypeOK, Validate
  <2>2. TrackersFreed'
    BY <1>3 DEF TypeOK, TrackersFreed, Validate
  <2>3. QueueOK'
    BY <1>3, QueueKept DEF TypeOK, Validate
  <2>o. (\A u \in Tasks : admin[u] # "idle" => u \in disturbed)'
    BY <1>3 DEF TypeOK, Validate
  <2>4. (\A u \in Tasks : Reported(u))'
    BY <1>3 DEF TypeOK, Reported, Validate
  <2>5. (\A u \in Tasks \ disturbed : OnTrack(u))'
    BY <1>3 DEF TypeOK, OnTrack, Reported, Validate
  <2> QED
    BY <2>1, <2>2, <2>3, <2>o, <2>4, <2>5
<1>4. CASE RejectInMemory(t)
  <2>1. TypeOK'
    BY <1>4 DEF TypeOK, RejectInMemory
  <2>2. TrackersFreed'
    BY <1>4 DEF TypeOK, TrackersFreed, RejectInMemory
  <2>3. QueueOK'
    BY <1>4, QueueKept DEF TypeOK, RejectInMemory
  <2>o. (\A u \in Tasks : admin[u] # "idle" => u \in disturbed)'
    BY <1>4 DEF TypeOK, RejectInMemory
  <2>4. (\A u \in Tasks : Reported(u))'
    BY <1>4 DEF TypeOK, Reported, RejectInMemory
  <2>5. (\A u \in Tasks \ disturbed : OnTrack(u))'
    BY <1>4 DEF TypeOK, OnTrack, Reported, RejectInMemory
  <2> QED
    BY <2>1, <2>2, <2>3, <2>o, <2>4, <2>5
<1>5. CASE RejectInMongo(t)
  <2>0. MongoUpdate(t, "failed")
    BY <1>5 DEF RejectInMongo
  <2>m. /\ mongo' \in [Tasks -> MongoStatus]
        /\ \A u \in Tasks \ {t} : mongo'[u] = mongo[u]
        /\ mongo'[t] \in {mongo[t], "failed"}
        /\ t \notin disturbed' /\ mongo[t] # "absent" => mongo'[t] = "failed"
        /\ disturbed \subseteq disturbed' /\ disturbed' \subseteq Tasks
        /\ disturbed' \subseteq disturbed \cup {t}
        /\ faults' \in 0..MaxFaults
    BY <2>0, MongoUpdateFacts
  <2>1. TypeOK'
    BY <1>5, <2>m DEF TypeOK, RejectInMongo
  <2>2. TrackersFreed'
    BY <1>5, <2>m DEF TypeOK, TrackersFreed, RejectInMongo
  <2>3. QueueOK'
    BY <1>5, <2>m, QueueKept DEF TypeOK, RejectInMongo
  <2>o. (\A u \in Tasks : admin[u] # "idle" => u \in disturbed)'
    BY <1>5, <2>m DEF TypeOK, RejectInMongo
  <2>4. (\A u \in Tasks : Reported(u))'
    BY <1>5, <2>m DEF TypeOK, Reported, RejectInMongo
  <2>5. (\A u \in Tasks \ disturbed : OnTrack(u))'
    BY <1>5, <2>m DEF TypeOK, OnTrack, Reported, RejectInMongo
  <2> QED
    BY <2>1, <2>2, <2>3, <2>o, <2>4, <2>5
<1>6. CASE StartTracker(t)
  <2>1. TypeOK'
    BY <1>6 DEF TypeOK, StartTracker
  <2>2. TrackersFreed'
    BY <1>6 DEF TypeOK, TrackersFreed, StartTracker
  <2>3. QueueOK'
    BY <1>6, QueueKept DEF TypeOK, StartTracker
  <2>o. (\A u \in Tasks : admin[u] # "idle" => u \in disturbed)'
    BY <1>6 DEF TypeOK, StartTracker
  <2>4. (\A u \in Tasks : Reported(u))'
    <3>1. /\ trackers' \subseteq trackers \cup {t}
          /\ pc'[t] \in {"mem10", "error"}
          /\ \A u \in Tasks \ {t} : pc'[u] = pc[u]
      BY <1>6 DEF TypeOK, StartTracker
    <3> QED
      BY <1>6, <3>1 DEF TypeOK, Reported, StartTracker
  <2>5. (\A u \in Tasks \ disturbed : OnTrack(u))'
    BY <1>6 DEF TypeOK, OnTrack, Reported, StartTracker
  <2> QED
    BY <2>1, <2>2, <2>3, <2>o, <2>4, <2>5
<1>7. CASE RunningInMemory(t)
  <2>1. TypeOK'
    BY <1>7 DEF TypeOK, RunningInMemory
  <2>2. TrackersFreed'
    BY <1>7 DEF TypeOK, TrackersFreed, RunningInMemory
  <2>3. QueueOK'
    BY <1>7, QueueKept DEF TypeOK, RunningInMemory
  <2>o. (\A u \in Tasks : admin[u] # "idle" => u \in disturbed)'
    BY <1>7 DEF TypeOK, RunningInMemory
  <2>4. (\A u \in Tasks : Reported(u))'
    BY <1>7 DEF TypeOK, Reported, RunningInMemory
  <2>5. (\A u \in Tasks \ disturbed : OnTrack(u))'
    BY <1>7 DEF TypeOK, OnTrack, Reported, RunningInMemory
  <2> QED
    BY <2>1, <2>2, <2>3, <2>o, <2>4, <2>5
<1>8. CASE ProcessingInMongo10(t)
  <2>0. MongoUpdate(t, "processing")
    BY <1>8 DEF ProcessingInMongo10
  <2>m. /\ mongo' \in [Tasks -> MongoStatus]
        /\ \A u \in Tasks \ {t} : mongo'[u] = mongo[u]
        /\ mongo'[t] \in {mongo[t], "processing"}
        /\ t \notin disturbed' /\ mongo[t] # "absent" => mongo'[t] = "processing"
        /\ disturbed \subseteq disturbed' /\ disturbed' \subseteq Tasks
        /\ disturbed' \subseteq disturbed \cup {t}
        /\ faults' \in 0..MaxFaults
    BY <2>0, MongoUpdateFacts
  <2>1. TypeOK'
    BY <1>8, <2>m DEF TypeOK, ProcessingInMongo10
  <2>2. TrackersFreed'
    BY <1>8, <2>m DEF TypeOK, TrackersFreed, ProcessingInMongo10
  <2>3. QueueOK'
    BY <1>8, <2>m, QueueKept DEF TypeOK, ProcessingInMongo10
  <2>o. (\A u \in Tasks : admin[u] # "idle" => u \in disturbed)'
    BY <1>8, <2>m DEF TypeOK, ProcessingInMongo10
  <2>4. (\A u \in Tasks : Reported(u))'
    BY <1>8, <2>m DEF TypeOK, Reported, ProcessingInMongo10
  <2>5. (\A u \in Tasks \ disturbed : OnTrack(u))'
    BY <1>8, <2>m DEF TypeOK, OnTrack, Reported, ProcessingInMongo10
  <2> QED
    BY <2>1, <2>2, <2>3, <2>o, <2>4, <2>5
<1>9. CASE SubmitToPool(t)
  <2>0. MongoUpdate(t, "processing")
    BY <1>9 DEF SubmitToPool
  <2>m. /\ mongo' \in [Tasks -> MongoStatus]
        /\ \A u \in Tasks \ {t} : mongo'[u] = mongo[u]
        /\ mongo'[t] \in {mongo[t], "processing"}
        /\ t \notin disturbed' /\ mongo[t] # "absent" => mongo'[t] = "processing"
        /\ disturbed \subseteq disturbed' /\ disturbed' \subseteq Tasks
        /\ disturbed' \subseteq disturbed \cup {t}
        /\ faults' \in 0..MaxFaults
    BY <2>0, MongoUpdateFacts
  <2>1. TypeOK'
    <3>1. waiting' \in Seq(Tasks)
      BY <1>9 DEF TypeOK, SubmitToPool
    <3> QED
      BY <1>9, <2>m, <3>1 DEF TypeOK, SubmitToPool
  <2>2. TrackersFreed'
    BY <1>9, <2>m DEF TypeOK, TrackersFreed, SubmitToPool
  <2>3. QueueOK'
    <3>1. /\ pc[t] = "db20" /\ waiting' = Append(waiting, t)
          /\ pc' = [pc EXCEPT ![t] = "submitted"]
      BY <1>9 DEF SubmitToPool
    <3>2. \A i \in 1..Len(waiting) : waiting[i] \in Tasks /\ waiting[i] # t
      BY <3>1 DEF TypeOK, QueueOK
    <3>3. /\ Len(waiting') = Len(waiting) + 1
          /\ waiting'[Len(waiting) + 1] = t
          /\ \A i \in 1..Len(waiting) : waiting'[i] = waiting[i]
      BY <3>1 DEF TypeOK
    <3> QED
      BY <3>1, <3>2, <3>3 DEF TypeOK, QueueOK
  <2>o. (\A u \in Tasks : admin[u] # "idle" => u \in disturbed)'
    BY <1>9, <2>m DEF TypeOK, SubmitToPool
  <2>4. (\A u \in Tasks : Reported(u))'
    BY <1>9, <2>m DEF TypeOK, Reported, SubmitToPool
  <2>5. (\A u \in Tasks \ disturbed : OnTrack(u))'
    BY <1>9, <2>m DEF TypeOK, OnTrack, Reported, SubmitToPool
  <2> QED
    BY <2>1, <2>2, <2>3, <2>o, <2>4, <2>5
<1>10. CASE StartWork(t)
  <2>1. TypeOK'
    BY <1>10 DEF TypeOK, StartWork
  <2>2. TrackersFreed'
    BY <1>10 DEF TypeOK, TrackersFreed, StartWork
  <2>3. QueueOK'
    <3>1. /\ waiting # <<>> /\ waiting[1] = t /\ waiting' = Tail(waiting)
          /\ pc' = [pc EXCEPT ![t] = "working"]
      BY <1>10 DEF TypeOK, StartWork
    <3>2. /\ Len(waiting) \in Nat \ {0} /\ Len(waiting') = Len(waiting) - 1
          /\ \A i \in 1..Len(waiting') : waiting'[i] = waiting[i + 1]
      BY <3>1 DEF TypeOK
    <3>3. \A i \in 1..Len(waiting) : waiting[i] \in Tasks
      BY DEF TypeOK
    <3>4. \A i \in 1..Len(waiting') : i + 1 \in 1..Len(waiting) /\ waiting'[i] # t
      BY <3>1, <3>2 DEF QueueOK
    <3> QED
      BY <3>1, <3>2, <3>3, <3>4 DEF TypeOK, QueueOK
  <2>s. pc[t] = "submitted"
    <3>1. waiting # <<>> /\ waiting[1] = t
      BY <1>10 DEF TypeOK, StartWork
    <3>2. 1 \in 1..Len(waiting)
      BY <3>1 DEF TypeOK
    <3> QED
      BY <3>1, <3>2 DEF QueueOK
  <2>o. (\A u \in Tasks : admin[u] # "idle" => u \in disturbed)'
    BY <1>10 DEF TypeOK, StartWork
  <2>4. (\A u \in Tasks : Reported(u))'
    BY <1>10, <2>s DEF TypeOK, Reported, StartWork
  <2>5. (\A u \in Tasks \ disturbed : OnTrack(u))'
    BY <1>10, <2>s DEF TypeOK, OnTrack, Reported, StartWork
  <2> QED
    BY <2>1, <2>2, <2>3, <2>o, <2>4, <2>5
<1>11. CASE Progress(t)
  <2>1. TypeOK'
    BY <1>11 DEF TypeOK, Progress
  <2>2. TrackersFreed'
    BY <1>11 DEF TypeOK, TrackersFreed, Progress
  <2>3. QueueOK'
    BY <1>11, QueueKept DEF TypeOK, Progress
  <2>o. (\A u \in Tasks : admin[u] # "idle" => u \in disturbed)'
    BY <1>11 DEF TypeOK, Progress
  <2>4. (\A u \in Tasks : Reported(u))'
    BY <1>11 DEF TypeOK, Reported, Progress
  <2>5. (\A u \in Tasks \ disturbed : OnTrack(u))'
    BY <1>11 DEF TypeOK, OnTrack, Reported, Progress
  <2> QED
    BY <2>1, <2>2, <2>3, <2>o, <2>4, <2>5
<1>12. CASE AnalysisReturns(t)
  <2>1. TypeOK'
    BY <1>12 DEF TypeOK, AnalysisReturns
  <2>2. TrackersFreed'
    BY <1>12 DEF TypeOK, TrackersFreed, AnalysisReturns
  <2>3. QueueOK'
    BY <1>12, QueueKept DEF TypeOK, AnalysisReturns
  <2>o. (\A u \in Tasks : admin[u] # "idle" => u \in disturbed)'
    BY <1>12 DEF TypeOK, AnalysisReturns
  <2>4. (\A u \in Tasks : Reported(u))'
    BY <1>12 DEF TypeOK, Reported, AnalysisReturns
  <2>5. (\A u \in Tasks \ disturbed : OnTrack(u))'
    BY <1>12 DEF TypeOK, OnTrack, Reported, AnalysisReturns
  <2> QED
    BY <2>1, <2>2, <2>3, <2>o, <2>4, <2>5
<1>13. CASE AnalysisRaises(t)
  <2>1. TypeOK'
    BY <1>13 DEF TypeOK, AnalysisRaises
  <2>2. TrackersFreed'
    BY <1>13 DEF TypeOK, TrackersFreed, AnalysisRaises
  <2>3. QueueOK'
    BY <1>13, QueueKept DEF TypeOK, AnalysisRaises
  <2>o. (\A u \in Tasks : admin[u] # "idle" => u \in disturbed)'
    BY <1>13 DEF TypeOK, AnalysisRaises
  <2>4. (\A u \in Tasks : Reported(u))'
    BY <1>13 DEF TypeOK, Reported, AnalysisRaises
  <2>5. (\A u \in Tasks \ disturbed : OnTrack(u))'
    BY <1>13 DEF TypeOK, OnTrack, Reported, AnalysisRaises
  <2> QED
    BY <2>1, <2>2, <2>3, <2>o, <2>4, <2>5
<1>14. CASE SaveReport(t)
  <2>1. TypeOK'
    <3>1. reports' \in [Tasks -> Nat]
      <4>1. reports[t] + 1 \in Nat
        BY DEF TypeOK
      <4>2. reports' = [reports EXCEPT ![t] = @ + 1] \/ reports' = reports
        BY <1>14 DEF SaveReport
      <4> QED
        BY <4>1, <4>2 DEF TypeOK
    <3>2. disturbed' \subseteq Tasks /\ faults' \in 0..MaxFaults
      BY <1>14 DEF TypeOK, SaveReport, SwallowedFault
    <3> QED
      BY <1>14, <3>1, <3>2 DEF TypeOK, SaveReport
  <2>2. TrackersFreed'
    BY <1>14 DEF TypeOK, TrackersFreed, SaveReport, SwallowedFault
  <2>3. QueueOK'
    BY <1>14, QueueKept DEF TypeOK, SaveReport
  <2>o. (\A u \in Tasks : admin[u] # "idle" => u \in disturbed)'
    BY <1>14 DEF TypeOK, SaveReport, SwallowedFault
  <2>4. (\A u \in Tasks : Reported(u))'
    BY <1>14 DEF TypeOK, Reported, SaveReport, SwallowedFault
  <2>5. (\A u \in Tasks \ disturbed : OnTrack(u))'
    BY <1>14 DEF TypeOK, OnTrack, Reported, SaveReport, SwallowedFault
  <2> QED
    BY <2>1, <2>2, <2>3, <2>o, <2>4, <2>5
<1>15. CASE CompleteInMemory(t)
  <2>1. TypeOK'
    BY <1>15 DEF TypeOK, CompleteInMemory
  <2>2. TrackersFreed'
    BY <1>15 DEF TypeOK, TrackersFreed, CompleteInMemory
  <2>3. QueueOK'
    BY <1>15, QueueKept DEF TypeOK, CompleteInMemory
  <2>o. (\A u \in Tasks : admin[u] # "idle" => u \in disturbed)'
    BY <1>15 DEF TypeOK, CompleteInMemory
  <2>4. (\A u \in Tasks : Reported(u))'
    BY <1>15 DEF TypeOK, Reported, CompleteInMemory
  <2>5. (\A u \in Tasks \ disturbed : OnTrack(u))'
    BY <1>15 DEF TypeOK, OnTrack, Reported, CompleteInMemory
  <2> QED
    BY <2>1, <2>2, <2>3, <2>o, <2>4, <2>5
<1>16. CASE CompleteInMongo(t)
  <2>0. MongoUpdate(t, "completed")
    BY <1>16 DEF CompleteInMongo
  <2>m. /\ mongo' \in [Tasks -> MongoStatus]
        /\ \A u \in Tasks \ {t} : mongo'[u] = mongo[u]
        /\ mongo'[t] \in {mongo[t], "completed"}
        /\ t \notin disturbed' /\ mongo[t] # "absent" => mongo'[t] = "completed"
        /\ disturbed \subseteq disturbed' /\ disturbed' \subseteq Tasks
        /\ disturbed' \subseteq disturbed \cup {t}
        /\ faults' \in 0..MaxFaults
    BY <2>0, MongoUpdateFacts
  <2>1. TypeOK'
    BY <1>16, <2>m DEF TypeOK, CompleteInMongo
  <2>2. TrackersFreed'
    BY <1>16, <2>m DEF TypeOK, TrackersFreed, CompleteInMongo
  <2>3. QueueOK'
    BY <1>16, <2>m, QueueKept DEF TypeOK, CompleteInMongo
  <2>o. (\A u \in Tasks : admin[u] # "idle" => u \in disturbed)'
    BY <1>16, <2>m DEF TypeOK, CompleteInMongo
  <2>4. (\A u \in Tasks : Reported(u))'
    BY <1>16, <2>m DEF TypeOK, Reported, CompleteInMongo
  <2>5. (\A u \in Tasks \ disturbed : OnTrack(u))'
    BY <1>16, <2>m DEF TypeOK, OnTrack, Reported, CompleteInMongo
  <2> QED
    BY <2>1, <2>2, <2>3, <2>o, <2>4, <2>5
<1>17. CASE FailInMemory(t)
  <2>1. TypeOK'
    BY <1>17 DEF TypeOK, FailInMemory
  <2>2. TrackersFreed'
    BY <1>17 DEF TypeOK, TrackersFreed, FailInMemory
  <2>3. QueueOK'
    BY <1>17, QueueKept DEF TypeOK, FailInMemory
  <2>o. (\A u \in Tasks : admin[u] # "idle" => u \in disturbed)'
    BY <1>17 DEF TypeOK, FailInMemory
  <2>4. (\A u \in Tasks : Reported(u))'
    BY <1>17 DEF TypeOK, Reported, FailInMemory
  <2>5. (\A u \in Tasks \ disturbed : OnTrack(u))'
    BY <1>17 DEF TypeOK, OnTrack, Reported, FailInMemory
  <2> QED
    BY <2>1, <2>2, <2>3, <2>o, <2>4, <2>5
<1>18. CASE HandlerRaises(t)
  <2>1. TypeOK'
    BY <1>18 DEF TypeOK, HandlerRaises
  <2>2. TrackersFreed'
    BY <1>18 DEF TypeOK, TrackersFreed, HandlerRaises
  <2>3. QueueOK'
    BY <1>18, QueueKept DEF TypeOK, HandlerRaises
  <2>o. (\A u \in Tasks : admin[u] # "idle" => u \in disturbed)'
    BY <1>18 DEF TypeOK, HandlerRaises
  <2>4. (\A u \in Tasks : Reported(u))'
    BY <1>18 DEF TypeOK, Reported, HandlerRaises
  <2>5. (\A u \in Tasks \ disturbed : OnTrack(u))'
    BY <1>18 DEF TypeOK, OnTrack, Reported, HandlerRaises
  <2> QED
    BY <2>1, <2>2, <2>3, <2>o, <2>4, <2>5
<1>19. CASE FailInMongo(t)
  <2>0. MongoUpdate(t, "failed")
    BY <1>19 DEF FailInMongo
  <2>m. /\ mongo' \in [Tasks -> MongoStatus]
        /\ \A u \in Tasks \ {t} : mongo'[u] = mongo[u]
        /\ mongo'[t] \in {mongo[t], "failed"}
        /\ t \notin disturbed' /\ mongo[t] # "absent" => mongo'[t] = "failed"
        /\ disturbed \subseteq disturbed' /\ disturbed' \subseteq Tasks
        /\ disturbed' \subseteq disturbed \cup {t}
        /\ faults' \in 0..MaxFaults
    BY <2>0, MongoUpdateFacts
  <2>1. TypeOK'
    BY <1>19, <2>m DEF TypeOK, FailInMongo
  <2>2. TrackersFreed'
    BY <1>19, <2>m DEF TypeOK, TrackersFreed, FailInMongo
  <2>3. QueueOK'
    BY <1>19, <2>m, QueueKept DEF TypeOK, FailInMongo
  <2>o. (\A u \in Tasks : admin[u] # "idle" => u \in disturbed)'
    BY <1>19, <2>m DEF TypeOK, FailInMongo
  <2>4. (\A u \in Tasks : Reported(u))'
    BY <1>19, <2>m DEF TypeOK, Reported, FailInMongo
  <2>5. (\A u \in Tasks \ disturbed : OnTrack(u))'
    BY <1>19, <2>m DEF TypeOK, OnTrack, Reported, FailInMongo
  <2> QED
    BY <2>1, <2>2, <2>3, <2>o, <2>4, <2>5
<1>20. CASE MarkFailedInMemory(t)
  <2>1. TypeOK'
    BY <1>20 DEF TypeOK, MarkFailedInMemory
  <2>2. TrackersFreed'
    BY <1>20 DEF TypeOK, TrackersFreed, MarkFailedInMemory
  <2>3. QueueOK'
    BY <1>20, QueueKept DEF TypeOK, MarkFailedInMemory
  <2>o. (\A u \in Tasks : admin[u] # "idle" => u \in disturbed)'
    BY <1>20 DEF TypeOK, MarkFailedInMemory
  <2>4. (\A u \in Tasks : Reported(u))'
    BY <1>20 DEF TypeOK, Reported, MarkFailedInMemory
  <2>5. (\A u \in Tasks \ disturbed : OnTrack(u))'
    BY <1>20 DEF TypeOK, OnTrack, Reported, MarkFailedInMemory
  <2> QED
    BY <2>1, <2>2, <2>3, <2>o, <2>4, <2>5
<1>21. CASE MarkFailedInMongo(t)
  <2>0. MongoUpdate(t, "failed")
    BY <1>21 DEF MarkFailedInMongo
  <2>m. /\ mongo' \in [Tasks -> MongoStatus]
        /\ \A u \in Tasks \ {t} : mongo'[u] = mongo[u]
        /\ mongo'[t] \in {mongo[t], "failed"}
        /\ t \notin disturbed' /\ mongo[t] # "absent" => mongo'[t] = "failed"
        /\ disturbed \subseteq disturbed' /\ disturbed' \subseteq Tasks
        /\ disturbed' \subseteq disturbed \cup {t}
        /\ faults' \in 0..MaxFaults
    BY <2>0, MongoUpdateFacts
  <2>1. TypeOK'
    BY <1>21, <2>m DEF TypeOK, MarkFailedInMongo
  <2>2. TrackersFreed'
    BY <1>21, <2>m DEF TypeOK, TrackersFreed, MarkFailedInMongo
  <2>3. QueueOK'
    BY <1>21, <2>m, QueueKept DEF TypeOK, MarkFailedInMongo
  <2>o. (\A u \in Tasks : admin[u] # "idle" => u \in disturbed)'
    BY <1>21, <2>m DEF TypeOK, MarkFailedInMongo
  <2>4. (\A u \in Tasks : Reported(u))'
    BY <1>21, <2>m DEF TypeOK, Reported, MarkFailedInMongo
  <2>5. (\A u \in Tasks \ disturbed : OnTrack(u))'
    BY <1>21, <2>m DEF TypeOK, OnTrack, Reported, MarkFailedInMongo
  <2> QED
    BY <2>1, <2>2, <2>3, <2>o, <2>4, <2>5
<1>22. CASE DeleteFromMemory(t)
  <2>1. TypeOK'
    BY <1>22 DEF TypeOK, DeleteFromMemory
  <2>2. TrackersFreed'
    BY <1>22 DEF TypeOK, TrackersFreed, DeleteFromMemory
  <2>3. QueueOK'
    BY <1>22, QueueKept DEF TypeOK, DeleteFromMemory
  <2>o. (\A u \in Tasks : admin[u] # "idle" => u \in disturbed)'
    BY <1>22 DEF TypeOK, DeleteFromMemory
  <2>4. (\A u \in Tasks : Reported(u))'
    BY <1>22 DEF TypeOK, Reported, DeleteFromMemory
  <2>5. (\A u \in Tasks \ disturbed : OnTrack(u))'
    BY <1>22 DEF TypeOK, OnTrack, Reported, DeleteFromMemory
  <2> QED
    BY <2>1, <2>2, <2>3, <2>o, <2>4, <2>5
<1>23. CASE DeleteFromMongo(t)
  <2>1. TypeOK'
    <3>1. mongo' \in [Tasks -> MongoStatus]
      BY <1>23 DEF TypeOK, DeleteFromMongo
    <3>2. disturbed' \subseteq Tasks /\ faults' \in 0..MaxFaults
      BY <1>23 DEF TypeOK, DeleteFromMongo, SwallowedFault
    <3> QED
      BY <1>23, <3>1, <3>2 DEF TypeOK, DeleteFromMongo
  <2>2. TrackersFreed'
    BY <1>23 DEF TypeOK, TrackersFreed, DeleteFromMongo, SwallowedFault
  <2>3. QueueOK'
    BY <1>23, QueueKept DEF TypeOK, DeleteFromMongo
  <2>o. (\A u \in Tasks : admin[u] # "idle" => u \in disturbed)'
    BY <1>23 DEF TypeOK, DeleteFromMongo, SwallowedFault
  <2>4. (\A u \in Tasks : Reported(u))'
    BY <1>23 DEF TypeOK, Reported, DeleteFromMongo, SwallowedFault
  <2>5. (\A u \in Tasks \ disturbed : OnTrack(u))'
    BY <1>23 DEF TypeOK, OnTrack, Reported, DeleteFromMongo, SwallowedFault
  <2> QED
    BY <2>1, <2>2, <2>3, <2>o, <2>4, <2>5
<1>24. CASE BatchRejected(t)
  <2>1. TypeOK'
    BY <1>24 DEF TypeOK, BatchRejected
  <2>2. TrackersFreed'
    BY <1>24 DEF TypeOK, TrackersFreed, Reported, BatchRejected
  <2>3. QueueOK'
    BY <1>24, QueueKept DEF TypeOK, BatchRejected
  <2>o. (\A u \in Tasks : admin[u] # "idle" => u \in disturbed)'
    BY <1>24 DEF TypeOK, BatchRejected
  <2>4. (\A u \in Tasks : Reported(u))'
    BY <1>24 DEF TypeOK, Reported, BatchRejected
  <2>5. (\A u \in Tasks \ disturbed : OnTrack(u))'
    BY <1>24 DEF TypeOK, OnTrack, Reported, BatchRejected
  <2> QED
    BY <2>1, <2>2, <2>3, <2>o, <2>4, <2>5
<1> QED
  BY <1>1, <1>2, <1>3, <1>4, <1>5, <1>6, <1>7, <1>8, <1>9, <1>10, <1>11, <1>12,
     <1>13, <1>14, <1>15, <1>16, <1>17, <1>18, <1>19, <1>20, <1>21, <1>22, <1>23,
     <1>24
  DEF Submit, Execute, Work, AnalysisEnds, Operate

\* The zombie cleanup and a restart keep the invariant.
LEMMA CleanupInv ==
  ASSUME IInv, NEW old \in SUBSET Tasks, CleanupZombies(old)
  PROVE  IInv'
<1> USE DEF IInv, MemStatus, Active, Ended
<1>1. TypeOK'
  BY DEF TypeOK, CleanupZombies
<1>2. TrackersFreed'
  BY DEF TypeOK, TrackersFreed, CleanupZombies
<1>3. QueueOK'
  BY QueueKept DEF TypeOK, CleanupZombies
<1>4. (\A t \in Tasks : admin[t] # "idle" => t \in disturbed)'
  BY DEF CleanupZombies
<1>5. (\A t \in Tasks : Reported(t))'
  BY DEF TypeOK, Reported, CleanupZombies
<1>6. (\A t \in Tasks \ disturbed : OnTrack(t))'
  BY DEF TypeOK, OnTrack, CleanupZombies
<1> QED
  BY <1>1, <1>2, <1>3, <1>4, <1>5, <1>6

LEMMA RestartInv == IInv /\ Restart => IInv'
<1> SUFFICES ASSUME IInv, Restart PROVE IInv'
  OBVIOUS
<1> USE BoundsAssumption DEF IInv, MemStatus, PCs, Active, Ended
<1>1. TypeOK'
  BY DEF TypeOK, Restart
<1>2. TrackersFreed' /\ QueueOK'
  BY DEF TypeOK, TrackersFreed, QueueOK, Restart
<1>3. (\A t \in Tasks : admin[t] # "idle" => t \in disturbed)'
  BY DEF Restart
<1>4. (\A t \in Tasks : Reported(t))'
  BY DEF TypeOK, Reported, Restart
<1>5. (\A t \in Tasks \ disturbed : OnTrack(t))'
  BY DEF TypeOK, OnTrack, Restart
<1> QED
  BY <1>1, <1>2, <1>3, <1>4, <1>5

LEMMA StepInv == IInv /\ [Next]_vars => IInv'
<1> SUFFICES ASSUME IInv, [Next]_vars PROVE IInv'
  OBVIOUS
<1>1. CASE Next
  BY <1>1, TaskStepInv, CleanupInv, RestartInv DEF Next
<1>2. CASE UNCHANGED vars
  BY <1>2 DEF vars, IInv, TypeOK, TrackersFreed, QueueOK, Reported, OnTrack, Active
<1> QED
  BY <1>1, <1>2

LEMMA Inductive == Spec => []IInv
  BY InitInv, StepInv, PTL DEF Spec

-----------------------------------------------------------------------------
(* The invariants the runs check                                            *)

\* Every variable keeps its type.
THEOREM TypeCorrect == Spec => []TypeOK
<1>1. IInv => TypeOK
  BY DEF IInv
<1> QED
  BY <1>1, Inductive, PTL

\* A tracker is released on every path out of execute_analysis_background.
THEOREM TrackersAreFreed == Spec => []TrackersFreed
<1>1. IInv => TrackersFreed
  BY DEF IInv
<1> QED
  BY <1>1, Inductive, PTL

\* An open document has a run, unless somebody interfered.
THEOREM OpenTasksHaveOwners == Spec => []OpenTaskHasOwner
<1>1. IInv => OpenTaskHasOwner
  BY DEF IInv, OpenTaskHasOwner, OnTrack, Open, Active, Ended
<1> QED
  BY <1>1, Inductive, PTL

\* Memory and MongoDB end with the same verdict, unless somebody interfered.
THEOREM StoresAgree == Spec => []UntouchedTasksAgree
<1>1. IInv => UntouchedTasksAgree
  BY DEF IInv, UntouchedTasksAgree, OnTrack
<1> QED
  BY <1>1, Inductive, PTL

\* Completion is never claimed for an analysis that did not return, and its report
\* is stored once.
THEOREM CompletedHaveReports == Spec => []CompletedHasReport
<1>1. IInv => CompletedHasReport
  <2> SUFFICES ASSUME IInv, NEW t \in Tasks
               PROVE  /\ "completed" \in {mem[t], mongo[t]} => t \in analysed
                      /\ reports[t] <= 1
                      /\ mongo[t] = "completed" /\ t \notin disturbed => reports[t] = 1
    BY DEF CompletedHasReport
  <2>1. Reported(t) /\ (t \notin disturbed => OnTrack(t)) /\ pc[t] \in PCs
    BY DEF IInv, TypeOK
  <2> QED
    BY <2>1 DEF Reported, OnTrack, Open, PCs
<1> QED
  BY <1>1, Inductive, PTL

-----------------------------------------------------------------------------
(* Action properties and refinement                                         *)

\* A progress callback never finds a completed record: it belongs to a run whose
\* worker thread has returned.
THEOREM NeverReopened == Spec => CompletedNeverReopened
<1> DEFINE A == \A t \in Tasks : mem[t] = "completed" => mem'[t] \notin {"pending", "running"}
<1>1. IInv /\ [Next]_vars => [A]_vars
  <2> SUFFICES ASSUME IInv, Next, NEW t \in Tasks, mem[t] = "completed"
               PROVE  mem'[t] \notin {"pending", "running"}
    OBVIOUS
  <2>1. pc[t] \in {"dbDone", "ended"} /\ mem \in [Tasks -> MemStatus]
    BY DEF IInv, Reported, TypeOK
  <2>2. CASE Restart
    BY <2>2 DEF Restart
  <2>3. ASSUME NEW old \in SUBSET Tasks, CleanupZombies(old)
        PROVE  mem'[t] \notin {"pending", "running"}
    BY <2>3 DEF CleanupZombies
  <2>4. ASSUME NEW u \in Tasks, Submit(u) \/ Execute(u) \/ Work(u) \/ Operate(u)
        PROVE  mem'[t] \notin {"pending", "running"}
    <3>1. CASE UNCHANGED mem
      BY <3>1
    <3>2. CASE CreateInMemory(u)
      BY <2>1, <3>2 DEF CreateInMemory
    <3>3. CASE MemUpdate(u, "running") /\ pc[u] \notin {"dbDone", "ended"}
      BY <2>1, <3>3 DEF MemUpdate
    <3>4. CASE \E s \in {"completed", "failed", "failedA"} : MemUpdate(u, s)
      BY <2>1, <3>4 DEF MemUpdate
    <3>5. CASE DeleteFromMemory(u)
      BY <2>1, <3>5 DEF DeleteFromMemory
    <3>6. \/ UNCHANGED mem
          \/ CreateInMemory(u)
          \/ MemUpdate(u, "running") /\ pc[u] \notin {"dbDone", "ended"}
          \/ \E s \in {"completed", "failed", "failedA"} : MemUpdate(u, s)
          \/ DeleteFromMemory(u)
      BY <2>4 DEF Submit, BatchRejected, Execute, Work, AnalysisEnds, Operate,
                  CreateInMongo, Validate,
                  RejectInMemory, RejectInMongo, StartTracker, RunningInMemory,
                  ProcessingInMongo10, SubmitToPool, StartWork, Progress,
                  AnalysisReturns, AnalysisRaises, SaveReport, CompleteInMemory,
                  CompleteInMongo, FailInMemory, HandlerRaises, FailInMongo,
                  MarkFailedInMemory, MarkFailedInMongo, DeleteFromMongo
    <3> QED
      BY <3>1, <3>2, <3>3, <3>4, <3>5, <3>6
  <2> QED
    BY <2>2, <2>3, <2>4 DEF Next
<1> QED
  BY <1>1, Inductive, PTL DEF Spec, CompletedNeverReopened

\* No write of the run recreates a deleted record: only the two creating steps can,
\* and they come before the client has the task id.
THEOREM DeletedForGood == Spec => DeletedStaysDeleted
<1> DEFINE A == \A t \in Tasks : pc[t] \notin {"none", "creating"} =>
                  /\ mem[t] = "absent" => mem'[t] = "absent"
                  /\ mongo[t] = "absent" => mongo'[t] = "absent"
<1>1. IInv /\ [Next]_vars => [A]_vars
  <2> SUFFICES ASSUME IInv, Next, NEW t \in Tasks, pc[t] \notin {"none", "creating"}
               PROVE  /\ mem[t] = "absent" => mem'[t] = "absent"
                      /\ mongo[t] = "absent" => mongo'[t] = "absent"
    OBVIOUS
  <2>1. mem \in [Tasks -> MemStatus] /\ mongo \in [Tasks -> MongoStatus]
    BY DEF IInv, TypeOK
  <2>2. ASSUME Restart \/ \E old \in SUBSET Tasks : CleanupZombies(old)
        PROVE  (mem[t] = "absent" => mem'[t] = "absent") /\ UNCHANGED mongo
    BY <2>2 DEF Restart, CleanupZombies
  <2>3. ASSUME NEW u \in Tasks, Submit(u) \/ Execute(u) \/ Work(u) \/ Operate(u)
        PROVE  mem[t] = "absent" => mem'[t] = "absent"
    <3>1. \/ UNCHANGED mem
          \/ pc[u] = "none"
          \/ \E s \in MemStatus : MemUpdate(u, s)
          \/ mem' = [mem EXCEPT ![u] = "absent"]
      BY <2>3 DEF Submit, BatchRejected, Execute, Work, AnalysisEnds, Operate, CreateInMemory,
                  CreateInMongo,
                  Validate, RejectInMemory, RejectInMongo, StartTracker,
                  RunningInMemory, ProcessingInMongo10, SubmitToPool, StartWork,
                  Progress, AnalysisReturns, AnalysisRaises, SaveReport,
                  CompleteInMemory, CompleteInMongo, FailInMemory, HandlerRaises,
                  FailInMongo, MarkFailedInMemory, MarkFailedInMongo,
                  DeleteFromMemory, DeleteFromMongo, MemStatus
    <3>2. CASE pc[u] = "none"
      BY <2>1, <2>3, <3>2
      DEF Submit, BatchRejected, Execute, Work, AnalysisEnds, Operate, CreateInMemory,
                  CreateInMongo,
          Validate, RejectInMemory, RejectInMongo, StartTracker, RunningInMemory,
          ProcessingInMongo10, SubmitToPool, StartWork, Progress, AnalysisReturns,
          AnalysisRaises, SaveReport, CompleteInMemory, CompleteInMongo, FailInMemory,
          HandlerRaises, FailInMongo, MarkFailedInMemory, MarkFailedInMongo,
          DeleteFromMemory, DeleteFromMongo
    <3> QED
      BY <2>1, <3>1, <3>2 DEF MemUpdate
  <2>4. ASSUME NEW u \in Tasks, Submit(u) \/ Execute(u) \/ Work(u) \/ Operate(u)
        PROVE  mongo[t] = "absent" => mongo'[t] = "absent"
    <3>1. \/ UNCHANGED mongo
          \/ CreateInMongo(u)
          \/ \E s \in MongoStatus : MongoUpdate(u, s)
          \/ DeleteFromMongo(u)
      BY <2>4 DEF Submit, BatchRejected, Execute, Work, AnalysisEnds, Operate, CreateInMemory,
                  Validate,
                  RejectInMemory, RejectInMongo, StartTracker, RunningInMemory,
                  ProcessingInMongo10, SubmitToPool, StartWork, Progress,
                  AnalysisReturns, AnalysisRaises, SaveReport, CompleteInMemory,
                  CompleteInMongo, FailInMemory, HandlerRaises, FailInMongo,
                  MarkFailedInMemory, MarkFailedInMongo, DeleteFromMemory,
                  MongoStatus
    <3> QED
      BY <2>1, <3>1 DEF CreateInMongo, MongoUpdate, SetStatus, DeleteFromMongo
  <2> QED
    BY <2>2, <2>3, <2>4 DEF Next
<1> QED
  BY <1>1, Inductive, PTL DEF Spec, DeletedStaysDeleted

\* The two stores, the worker and the error paths implement TaskPromise: every step
\* of a run that nobody interfered with is a step of the promised document, or leaves
\* it alone.
THEOREM RunKeepsPromise == Spec => KeepsPromise
<1>1. Init => Promise!Init
  BY DEF Init, Promise!Init, doc
<1>2. IInv /\ [Next]_vars => [Promise!Next]_doc
  <2> SUFFICES ASSUME IInv, [Next]_vars PROVE [Promise!Next]_doc
    OBVIOUS
  <2>0. /\ doc = [t \in Tasks |-> doc[t]]
        /\ doc' = [t \in Tasks |-> doc'[t]]
    BY DEF doc
  <2>1. CASE UNCHANGED vars
    BY <2>1 DEF vars, doc
  <2>2. CASE Restart
    <3>1. doc' = [t \in Tasks |-> IF t \in disturbed' THEN "touched" ELSE doc[t]]
      BY <2>2 DEF Restart, doc
    <3>2. disturbed' \in SUBSET Tasks
      BY <2>2 DEF Restart, IInv, TypeOK
    <3> QED
      BY <3>1, <3>2 DEF Promise!Next, Promise!Touch
  <2>3. ASSUME NEW old \in SUBSET Tasks, CleanupZombies(old)
        PROVE  Promise!Next
    <3>1. doc' = [t \in Tasks |-> IF t \in disturbed' THEN "touched" ELSE doc[t]]
      BY <2>3 DEF CleanupZombies, doc
    <3>2. disturbed' \in SUBSET Tasks
      BY <2>3 DEF CleanupZombies, IInv, TypeOK
    <3> QED
      BY <3>1, <3>2 DEF Promise!Next, Promise!Touch
  <2>4. ASSUME NEW u \in Tasks, Submit(u) \/ Execute(u) \/ Work(u) \/ Operate(u)
        PROVE  Promise!Next \/ doc' = doc
    <3>1. \A t \in Tasks \ {u} : doc'[t] = doc[t]
      <4>1. /\ mongo \in [Tasks -> MongoStatus] /\ reports \in [Tasks -> Nat]
            /\ \/ UNCHANGED mongo
               \/ \E s \in MongoStatus : mongo' = [mongo EXCEPT ![u] = s]
            /\ \/ UNCHANGED reports
               \/ reports' = [reports EXCEPT ![u] = @ + 1]
            /\ disturbed' \in {disturbed, disturbed \cup {u}}
        BY <2>4
        DEF Submit, BatchRejected, Execute, Work, AnalysisEnds, Operate, CreateInMemory,
            CreateInMongo, Validate,
            RejectInMemory, RejectInMongo, StartTracker, RunningInMemory,
            ProcessingInMongo10, SubmitToPool, StartWork, Progress,
            AnalysisReturns, AnalysisRaises, SaveReport, CompleteInMemory,
            CompleteInMongo, FailInMemory, HandlerRaises, FailInMongo,
            MarkFailedInMemory, MarkFailedInMongo, DeleteFromMemory,
            DeleteFromMongo,
            IInv, TypeOK, MongoUpdate, SetStatus, SwallowedFault, MongoStatus
      <4> QED
        BY <4>1 DEF doc
    <3>2. CASE u \in disturbed'
      <4>1. doc' = [t \in Tasks |-> IF t \in {u} THEN "touched" ELSE doc[t]]
        BY <2>0, <3>1, <3>2 DEF doc
      <4> QED
        BY <4>1 DEF Promise!Next, Promise!Touch
    <3>3. CASE u \notin disturbed'
      <4>1. u \notin disturbed /\ OnTrack(u) /\ Reported(u) /\ OnTrack(u)'
        <5>1. IInv' /\ disturbed \subseteq disturbed'
          BY <2>4, TaskStepInv
          DEF Submit, BatchRejected, Execute, Work, AnalysisEnds, Operate, CreateInMemory,
            CreateInMongo, Validate,
            RejectInMemory, RejectInMongo, StartTracker, RunningInMemory,
            ProcessingInMongo10, SubmitToPool, StartWork, Progress,
            AnalysisReturns, AnalysisRaises, SaveReport, CompleteInMemory,
            CompleteInMongo, FailInMemory, HandlerRaises, FailInMongo,
            MarkFailedInMemory, MarkFailedInMongo, DeleteFromMemory,
            DeleteFromMongo,
              MongoUpdate, SwallowedFault
        <5> QED
          BY <5>1, <3>3 DEF IInv
      <4>2. \/ doc'[u] = doc[u]
            \/ doc[u] = "absent" /\ doc'[u] = "pending"
            \/ doc[u] = "pending" /\ doc'[u] = "processing"
            \/ doc[u] = "processing" /\ doc'[u] = "published"
            \/ doc[u] = "published" /\ doc'[u] = "completed"
            \/ doc[u] \in {"pending", "processing"} /\ doc'[u] = "failed"
        <5>1. /\ mongo \in [Tasks -> MongoStatus] /\ reports \in [Tasks -> Nat]
          BY DEF IInv, TypeOK
        <5>2. \/ UNCHANGED <<mongo, reports>>
              \/ CreateInMongo(u)
              \/ RejectInMongo(u) \/ ProcessingInMongo10(u) \/ SubmitToPool(u)
              \/ SaveReport(u) \/ CompleteInMongo(u) \/ FailInMongo(u)
          BY <2>4, <3>3, <4>1
          DEF Submit, BatchRejected, Execute, Work, AnalysisEnds, Operate, CreateInMemory,
            CreateInMongo, Validate,
            RejectInMemory, RejectInMongo, StartTracker, RunningInMemory,
            ProcessingInMongo10, SubmitToPool, StartWork, Progress,
            AnalysisReturns, AnalysisRaises, SaveReport, CompleteInMemory,
            CompleteInMongo, FailInMemory, HandlerRaises, FailInMongo,
            MarkFailedInMemory, MarkFailedInMongo, DeleteFromMemory,
            DeleteFromMongo,
              IInv, TypeOK
        <5>3. CASE UNCHANGED <<mongo, reports>>
          BY <3>3, <4>1, <5>3 DEF doc
        <5>4. CASE CreateInMongo(u)
          BY <3>3, <4>1, <5>1, <5>4 DEF CreateInMongo, SwallowedFault, OnTrack, Reported, doc
        <5>5. CASE RejectInMongo(u) \/ FailInMongo(u)
          BY <3>3, <4>1, <5>1, <5>5
          DEF RejectInMongo, FailInMongo, MongoUpdate, SetStatus, SwallowedFault,
              OnTrack, Reported, Open, doc
        <5>6. CASE ProcessingInMongo10(u) \/ SubmitToPool(u)
          BY <3>3, <4>1, <5>1, <5>6
          DEF ProcessingInMongo10, SubmitToPool, MongoUpdate, SetStatus,
              SwallowedFault, OnTrack, Reported, doc
        <5>7. CASE SaveReport(u)
          BY <3>3, <4>1, <5>1, <5>7 DEF SaveReport, SwallowedFault, OnTrack, Reported, doc
        <5>8. CASE CompleteInMongo(u)
          BY <3>3, <4>1, <5>1, <5>8
          DEF CompleteInMongo, MongoUpdate, SetStatus, SwallowedFault, OnTrack, doc
        <5> QED
          BY <5>2, <5>3, <5>4, <5>5, <5>6, <5>7, <5>8
      <4>3. doc' = [doc EXCEPT ![u] = doc'[u]]
        BY <2>0, <3>1
      <4> QED
        BY <4>2, <4>3, <2>0
        DEF Promise!Next, Promise!Move, Promise!Accept, Promise!Take, Promise!Publish,
            Promise!Complete, Promise!Fail
    <3> QED
      BY <3>2, <3>3
  <2> QED
    BY <2>1, <2>2, <2>3, <2>4 DEF Next
<1> QED
  BY <1>1, <1>2, Inductive, PTL DEF Spec, KeepsPromise, Promise!Spec

=============================================================================
