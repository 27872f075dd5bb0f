---------------------- MODULE SchedulerExecutions_proofs ----------------------
(***************************************************************************)
(* For every number of jobs, records, runs, triggers and restarts: what the *)
(* six writers of the execution history can never do to each other's        *)
(* records.  A listener writes the record it found without looking again;   *)
(* the proofs rest on what is known of that record until then.              *)
(***************************************************************************)
EXTENDS SchedulerExecutions, FiniteSetTheorems, SequenceTheorems, WellFoundedInduction, TLAPS

Doc == [job : Jobs, status : Statuses, cancel : BOOLEAN]

(* What a listener on its way knows of the record it will write: it is one  *)
(* of its job, and not yet 30 minutes old.                                  *)
RecordsKnown ==
  /\ IsFiniteSet(recorder)
  /\ user.op # "none" => user.doc \in DocIds
  /\ \A r \in recorder :
       /\ r.status \in {"running", "success", "failed", "missed"}
       /\ r.doc \in DocIds \cup {Unknown, NoRecord}
       /\ r.status = "running" => r.doc = NoRecord
       /\ r.doc \in DocIds => /\ r.doc >= old /\ docs[r.doc].job = r.job
                              /\ r.status \in {"success", "failed"}

(* The checker holds records older than any a listener can hold.            *)
CheckerHoldsOld == \A d \in checker : d < old

IInv ==
  TypeOK /\ RecordsKnown /\ CheckerHoldsOld /\ CheckerSparesSuccess /\ SuccessesHappened

Succeeded(j) == {d \in DocIds : docs[d].job = j /\ docs[d].status = "success"}
Pending(j) == {r \in recorder : r.job = j /\ r.status = "success"}

(* Records are neither lost nor moved to another job, and none becomes a success. *)
Evolves ==
  /\ docs' \in Seq(Doc) /\ Len(docs') <= MaxDocs /\ Len(docs) <= Len(docs')
  /\ \A d \in DocIds : docs'[d].job = docs[d].job
NoNewSuccess ==
  \A d \in 1..Len(docs') :
    docs'[d].status = "success" => d \in DocIds /\ docs[d].status = "success"

-----------------------------------------------------------------------------
(* Queries and writes                                                       *)

LEMMA LatestIsThere ==
  ASSUME NEW D, NEW n \in Nat, D \subseteq 1..n, D # {}
  PROVE  Latest(D) \in D
<1>1. \E d \in D : \A e \in D : e <= d
  <2> DEFINE R == OpToRel(<, Nat)
             Ages == {n - d : d \in D}
  <2>1. IsWellFoundedOn(R, Nat)
    BY NatLessThanWellFounded
  <2>2. \A i, j \in Nat : i < j => <<i, j>> \in R
    BY DEF OpToRel
  <2>3. Ages \subseteq Nat /\ Ages # {}
    <3>1. ASSUME NEW d \in D PROVE n - d \in Nat
      <4>1. d \in 1..n
        OBVIOUS
      <4> QED
        BY <4>1
    <3> QED
      BY <3>1
  <2> HIDE DEF R, Ages
  <2>4. PICK a \in Ages : \A b \in Ages : ~ (<<b, a>> \in R)
    BY <2>1, <2>3, WFMin
  <2>5. PICK d \in D : a = n - d
    BY DEF Ages
  <2>6. ASSUME NEW e \in D PROVE e <= d
    <3>1. n - e \in Ages /\ n - e \in Nat /\ a \in Nat
      BY <2>3 DEF Ages
    <3>2. ~ (n - e < a)
      BY <2>2, <2>4, <3>1
    <3>3. n \in Int /\ e \in Int /\ d \in Int
      OBVIOUS
    <3> QED
      BY <2>5, <3>2, <3>3
  <2> QED
    BY <2>6
<1> QED
  BY <1>1 DEF Latest

LEMMA FoundIsThere ==
  ASSUME TypeOK, NEW j, NEW S, NEW first, Found(j, S, first) # {}
  PROVE  Latest(Found(j, S, first)) \in Found(j, S, first)
<1>1. Found(j, S, first) \subseteq 1..Len(docs)
  BY DEF Found, DocIds
<1>2. Len(docs) \in Nat
  BY LenProperties DEF TypeOK
<1> QED
  BY <1>1, <1>2, LatestIsThere

LEMMA SetStatusEffect ==
  ASSUME TypeOK, NEW d \in DocIds, NEW s \in Statuses, SetStatus(d, s)
  PROVE  /\ Evolves /\ Len(docs') = Len(docs)
         /\ \A e \in DocIds \ {d} : docs'[e] = docs[e]
         /\ docs'[d].status \in {"deleted", s}
         /\ docs[d].status = "deleted" => docs'[d].status = "deleted"
<1> DEFINE new == [docs[d] EXCEPT !.status = IF @ = "deleted" THEN @ ELSE s]
<1>1. docs \in Seq(Doc) /\ d \in 1..Len(docs) /\ docs[d] \in Doc /\ Len(docs) \in Nat
  BY ElementOfSeq, LenProperties DEF TypeOK, Doc, DocIds
<1>2. new \in Doc /\ new.job = docs[d].job
  BY <1>1 DEF Doc
<1>3. new.status = IF docs[d].status = "deleted" THEN "deleted" ELSE s
  BY <1>1 DEF Doc
<1>4. docs' = [docs EXCEPT ![d] = new]
  BY DEF SetStatus
<1> HIDE DEF new
<1>5. /\ docs' \in Seq(Doc) /\ Len(docs') = Len(docs)
      /\ \A e \in 1..Len(docs) : docs'[e] = IF e = d THEN new ELSE docs[e]
  BY <1>1, <1>2, <1>4, ExceptSeq
<1> QED
  BY <1>1, <1>2, <1>3, <1>5 DEF Evolves, TypeOK, DocIds

LEMMA InsertEffect ==
  ASSUME TypeOK, NEW j \in Jobs, NEW s \in Statuses, Insert(j, s)
  PROVE  /\ Evolves /\ Len(docs') = Len(docs) + 1
         /\ \A e \in DocIds : docs'[e] = docs[e]
         /\ docs'[Len(docs) + 1] = [job |-> j, status |-> s, cancel |-> FALSE]
<1>1. docs \in Seq(Doc) /\ [job |-> j, status |-> s, cancel |-> FALSE] \in Doc /\ Len(docs) \in Nat
  BY LenProperties DEF TypeOK, Doc
<1>2. Len(docs) < MaxDocs /\ docs' = Append(docs, [job |-> j, status |-> s, cancel |-> FALSE])
  BY DEF Insert
<1> QED
  BY <1>1, <1>2, AppendProperties, BoundsAssumption DEF Evolves, DocIds

-----------------------------------------------------------------------------
(* What each writer does to the records                                     *)

LEMMA DocsKept ==
  ASSUME TypeOK, docs' = docs
  PROVE  Evolves /\ NoNewSuccess
<1>1. docs \in Seq(Doc) /\ Len(docs) \in Nat
  BY LenProperties DEF TypeOK, Doc
<1> QED
  BY <1>1 DEF Evolves, NoNewSuccess, TypeOK, DocIds

LEMMA NoSuccessWritten ==
  ASSUME TypeOK, NEW d \in DocIds, NEW s \in Statuses \ {"success"}, SetStatus(d, s)
  PROVE  Evolves /\ NoNewSuccess
BY SetStatusEffect DEF NoNewSuccess, DocIds

LEMMA NoSuccessInserted ==
  ASSUME TypeOK, NEW j \in Jobs, NEW s \in Statuses \ {"success"}, Insert(j, s)
  PROVE  Evolves /\ NoNewSuccess
<1>1. Len(docs) \in Nat
  BY LenProperties DEF TypeOK
<1>2. \A d \in 1..Len(docs) + 1 : d \in DocIds \/ d = Len(docs) + 1
  BY <1>1 DEF DocIds
<1>3. /\ Evolves /\ Len(docs') = Len(docs) + 1
      /\ \A e \in DocIds : docs'[e] = docs[e]
      /\ docs'[Len(docs) + 1] = [job |-> j, status |-> s, cancel |-> FALSE]
  <2>1. s \in Statuses
    OBVIOUS
  <2> QED
    BY <2>1, InsertEffect
<1>4. docs'[Len(docs) + 1].status = s
  BY <1>3
<1> QED
  BY <1>2, <1>3, <1>4 DEF NoNewSuccess

LEMMA ReportEffect ==
  ASSUME TypeOK, NEW j \in Jobs, ReportProgress(j)
  PROVE  /\ Evolves /\ NoNewSuccess
         /\ \A d \in DocIds : docs[d].status # "running" /\ docs'[d].status = "running"
              => docs[d].job \in active /\ docs[d].status \in {"success", "failed"}
<1> DEFINE D == Found(j, {"running", "success", "failed"}, 1)
<1>1. CASE docs' = docs
  BY <1>1, DocsKept
<1>2. CASE Insert(j, "running")
  BY <1>2, NoSuccessInserted, InsertEffect DEF Statuses
<1>3. CASE D # {} /\ SetStatus(Latest(D), "running")
  <2>1. Latest(D) \in D
    BY <1>3, FoundIsThere
  <2>2. Latest(D) \in DocIds /\ docs[Latest(D)].job = j
        /\ docs[Latest(D)].status \in {"running", "success", "failed"}
    BY <2>1 DEF Found
  <2>3. j \in active
    BY DEF ReportProgress
  <2>4. \A d \in DocIds \ {Latest(D)} : docs'[d] = docs[d]
    BY <1>3, <2>2, SetStatusEffect DEF Statuses
  <2> QED
    BY <1>3, <2>2, <2>3, <2>4, NoSuccessWritten DEF Statuses
<1> QED
  BY <1>1, <1>2, <1>3 DEF ReportProgress

(* Nobody but a listener adds a success, and nobody but a report or a listener's        *)
(* insertion makes a record running.                                                    *)
LEMMA OthersAddNoSuccess ==
  ASSUME TypeOK, RecordsKnown, Next, ~ \E r \in recorder : WriteOutcome(r)
  PROVE  /\ Evolves /\ NoNewSuccess
         /\ \A d \in DocIds : docs[d].status # "running" /\ docs'[d].status = "running"
              => docs[d].job \in active /\ docs[d].status \in {"success", "failed"}
<1>1. CASE docs' = docs
  BY <1>1, DocsKept
<1>2. ASSUME NEW j \in Jobs, ReportProgress(j)
      PROVE  /\ Evolves /\ NoNewSuccess
             /\ \A d \in DocIds : docs[d].status # "running" /\ docs'[d].status = "running"
                  => docs[d].job \in active /\ docs[d].status \in {"success", "failed"}
  BY <1>2, ReportEffect
<1>3. ASSUME NEW d \in DocIds, SetStatus(d, "failed") \/ SetStatus(d, "deleted")
      PROVE  /\ Evolves /\ NoNewSuccess
             /\ \A e \in DocIds : docs[e].status # "running" => docs'[e].status # "running"
  <2>1. Evolves /\ NoNewSuccess
    BY <1>3, NoSuccessWritten DEF Statuses
  <2>2. docs'[d].status \in {"failed", "deleted"} /\ \A e \in DocIds \ {d} : docs'[e] = docs[e]
    BY <1>3, SetStatusEffect DEF Statuses
  <2> QED
    BY <2>1, <2>2
<1>4. CASE RequestCancel
  <2>1. user.doc \in DocIds /\ docs' = [docs EXCEPT ![user.doc].cancel = TRUE]
    BY <1>4 DEF RequestCancel, RecordsKnown
  <2>2. /\ docs \in Seq(Doc) /\ docs[user.doc] \in Doc /\ Len(docs) \in Nat
    BY <2>1, ElementOfSeq, LenProperties DEF TypeOK, Doc, DocIds
  <2> DEFINE new == [docs[user.doc] EXCEPT !.cancel = TRUE]
  <2>3. new \in Doc /\ new.job = docs[user.doc].job /\ new.status = docs[user.doc].status
    BY <2>2 DEF Doc
  <2>4. docs' = [docs EXCEPT ![user.doc] = new] /\ user.doc \in 1..Len(docs)
    BY <2>1 DEF DocIds
  <2> HIDE DEF new
  <2>5. /\ docs' \in Seq(Doc) /\ Len(docs') = Len(docs)
        /\ \A e \in 1..Len(docs) : docs'[e] = IF e = user.doc THEN new ELSE docs[e]
    BY <2>2, <2>3, <2>4, ExceptSeq
  <2>6. \A e \in DocIds : docs'[e].job = docs[e].job /\ docs'[e].status = docs[e].status
    BY <2>3, <2>5 DEF DocIds
  <2>7. Evolves
    BY <2>2, <2>5, <2>6 DEF Evolves, TypeOK
  <2>8. NoNewSuccess
    BY <2>5, <2>6 DEF NoNewSuccess, DocIds
  <2> QED
    BY <2>6, <2>7, <2>8
<1>5. ASSUME NEW d \in checker, FailZombie(d)
      PROVE  d \in DocIds /\ SetStatus(d, "failed")
  BY <1>5 DEF FailZombie, TypeOK
<1>6. ASSUME Delete
      PROVE  user.doc \in DocIds /\ SetStatus(user.doc, "deleted")
  BY <1>6 DEF Delete, RecordsKnown
<1>7. ASSUME NEW d \in DocIds, MarkFailed(d)
      PROVE  SetStatus(d, "failed")
  BY <1>7 DEF MarkFailed
<1>8. ASSUME NEW j \in Jobs,
             StartRun(j) \/ MissRun(j) \/ Finish(j) \/ StopOnRequest(j) \/ Trigger(j)
      PROVE  docs' = docs
  BY <1>8 DEF StartRun, MissRun, Finish, StopOnRequest, Trigger
<1>9. ASSUME (\E r \in recorder : LookUp(r)) \/ Scan \/ CreateService
               \/ (\E d \in DocIds : FindToCancel(d) \/ FindToDelete(d))
               \/ FiveMinutesPass \/ ThirtyMinutesPass \/ Restart
      PROVE  docs' = docs
  BY <1>9 DEF LookUp, Scan, CreateService, FindToCancel, FindToDelete, FiveMinutesPass,
              ThirtyMinutesPass, Restart
<1> QED
  BY <1>1, <1>2, <1>3, <1>4, <1>5, <1>6, <1>7, <1>8, <1>9 DEF Next

LEMMA ListenerEffect ==
  ASSUME TypeOK, RecordsKnown, NEW r \in recorder, WriteOutcome(r)
  PROVE  /\ Evolves
         /\ \A d \in DocIds : docs'[d].status # docs[d].status
              => d = r.doc /\ docs'[d].status \in {r.status, "deleted"}
         /\ \A d \in 1..Len(docs') \ DocIds :
              /\ r.doc = NoRecord /\ d = Len(docs) + 1
              /\ docs'[d].job = r.job /\ docs'[d].status = r.status
<1>1. r.job \in Jobs /\ r.status \in Statuses /\ Len(docs) \in Nat
  BY LenProperties DEF TypeOK
<1>2. CASE r.doc = NoRecord
  <2>1. Insert(r.job, r.status)
    BY <1>2 DEF WriteOutcome
  <2>2. /\ Evolves /\ Len(docs') = Len(docs) + 1
        /\ \A e \in DocIds : docs'[e] = docs[e]
        /\ docs'[Len(docs) + 1] = [job |-> r.job, status |-> r.status, cancel |-> FALSE]
    BY <1>1, <2>1, InsertEffect
  <2> QED
    BY <1>1, <1>2, <2>2 DEF DocIds
<1>3. CASE r.doc # NoRecord
  <2>1. r.doc \in DocIds /\ SetStatus(r.doc, r.status)
    BY <1>3 DEF WriteOutcome, RecordsKnown
  <2> QED
    BY <1>1, <2>1, SetStatusEffect DEF DocIds
<1> QED
  BY <1>2, <1>3

-----------------------------------------------------------------------------
(* What listeners and the checker hold                                      *)

LEMMA StepEvolves ==
  ASSUME TypeOK, RecordsKnown, Next
  PROVE  Evolves
BY OthersAddNoSuccess, ListenerEffect

(* Knowledge of a record lasts, as records stay with their jobs.            *)
LEMMA KnowledgeLasts ==
  ASSUME TypeOK, RecordsKnown, Evolves, NEW r \in recorder,
         old' = old \/ (old' = old + 1 /\ r.doc # old)
  PROVE  /\ r.doc \in DocIds' \cup {Unknown, NoRecord}
         /\ r.doc \in DocIds' => /\ r.doc >= old' /\ docs'[r.doc].job = r.job
                                 /\ r.status \in {"success", "failed"}
<1>1. /\ r.doc \in DocIds \cup {Unknown, NoRecord}
      /\ r.doc \in DocIds => /\ r.doc >= old /\ docs[r.doc].job = r.job
                             /\ r.status \in {"success", "failed"}
  BY DEF RecordsKnown
<1>2. Len(docs) \in Nat /\ Len(docs') \in Nat /\ old \in Nat
  BY LenProperties DEF TypeOK, Evolves
<1>3. DocIds \subseteq DocIds' /\ DocIds' \subseteq 1..MaxDocs
  BY <1>2, BoundsAssumption DEF DocIds, Evolves
<1>4. Unknown \notin DocIds' /\ NoRecord \notin DocIds'
  BY <1>3, BoundsAssumption DEF Unknown, NoRecord
<1>5. CASE r.doc \in DocIds
  <2>1. r.doc \in Nat /\ r.doc >= old'
    BY <1>1, <1>2, <1>5 DEF DocIds
  <2>2. docs'[r.doc].job = r.job
    BY <1>1, <1>5 DEF Evolves
  <2> QED
    BY <1>1, <1>3, <1>5, <2>1, <2>2
<1>6. CASE r.doc \notin DocIds
  BY <1>1, <1>4, <1>6
<1> QED
  BY <1>5, <1>6

(* Listeners that stay, and perhaps a new one.                              *)
LEMMA KnownAfter ==
  ASSUME TypeOK, RecordsKnown, Evolves, NEW fresh,
         recorder' \subseteq recorder \cup fresh, IsFiniteSet(fresh),
         user'.op # "none" => user'.doc \in DocIds,
         \A r \in recorder : old' = old \/ (old' = old + 1 /\ r.doc # old),
         \A r \in fresh :
           /\ r.status \in {"running", "success", "failed", "missed"}
           /\ r.doc \in DocIds' \cup {Unknown, NoRecord}
           /\ r.status = "running" => r.doc = NoRecord
           /\ r.doc \in DocIds' => /\ r.doc >= old' /\ docs'[r.doc].job = r.job
                                   /\ r.status \in {"success", "failed"}
  PROVE  RecordsKnown'
<1>1. IsFiniteSet(recorder')
  BY FS_Union, FS_Subset DEF RecordsKnown
<1>2. DocIds \subseteq DocIds'
  <2>1. Len(docs) \in Nat /\ Len(docs') \in Nat
    BY LenProperties DEF TypeOK, Evolves
  <2> QED
    BY <2>1 DEF DocIds, Evolves
<1>3. ASSUME NEW r \in recorder
      PROVE  /\ r.status \in {"running", "success", "failed", "missed"}
             /\ r.status = "running" => r.doc = NoRecord
             /\ r.doc \in DocIds' \cup {Unknown, NoRecord}
             /\ r.doc \in DocIds' => /\ r.doc >= old' /\ docs'[r.doc].job = r.job
                                     /\ r.status \in {"success", "failed"}
  BY KnowledgeLasts DEF RecordsKnown
<1> QED
  BY <1>1, <1>2, <1>3 DEF RecordsKnown

(* No new listener.                                                         *)
LEMMA KnownKept ==
  ASSUME TypeOK, RecordsKnown, Evolves, recorder' \subseteq recorder, old' = old,
         user'.op # "none" => user'.doc \in DocIds
  PROVE  RecordsKnown'
<1>1. recorder' \subseteq recorder \cup {} /\ IsFiniteSet({})
  BY FS_EmptySet
<1> QED
  BY <1>1, KnownAfter

(* A listener that has not looked yet.                                      *)
LEMMA KnownAfterRecord ==
  ASSUME TypeOK, RecordsKnown, NEW j \in Jobs, NEW s \in {"success", "failed", "missed"},
         Record(j, s), UNCHANGED <<docs, old, user>>
  PROVE  RecordsKnown'
<1> DEFINE new == [job |-> j, run |-> runs, status |-> s, doc |-> Unknown]
<1>1. Evolves
  BY DocsKept
<1>2. recorder' \subseteq recorder \cup {new} /\ IsFiniteSet({new})
  BY FS_Singleton DEF Record
<1>3. new.status = s /\ new.doc = Unknown
  OBVIOUS
<1>4. Unknown \notin DocIds'
  <2>1. Len(docs') \in Nat
    BY <1>1, LenProperties DEF Evolves
  <2> QED
    BY <2>1 DEF Unknown, DocIds
<1>5. user'.op # "none" => user'.doc \in DocIds
  BY DEF RecordsKnown
<1> HIDE DEF new
<1>6. \A r \in {new} :
        /\ r.status \in {"running", "success", "failed", "missed"}
        /\ r.doc \in DocIds' \cup {Unknown, NoRecord}
        /\ r.status = "running" => r.doc = NoRecord
        /\ r.doc \in DocIds' => /\ r.doc >= old' /\ docs'[r.doc].job = r.job
                                /\ r.status \in {"success", "failed"}
  BY <1>3, <1>4
<1> QED
  BY <1>1, <1>2, <1>5, <1>6, KnownAfter

LEMMA KnownAfterTrigger ==
  ASSUME TypeOK, RecordsKnown, NEW j \in Jobs, Trigger(j)
  PROVE  RecordsKnown'
<1> DEFINE new == [job |-> j, run |-> triggers, status |-> "running", doc |-> NoRecord]
<1>1. Evolves /\ UNCHANGED <<docs, old, user>>
  BY DocsKept DEF Trigger
<1>2. recorder' \subseteq recorder \cup {new} /\ IsFiniteSet({new})
  BY FS_Singleton DEF Trigger
<1>3. new.status = "running" /\ new.doc = NoRecord
  OBVIOUS
<1>4. NoRecord \notin DocIds'
  <2>1. Len(docs') \in Nat /\ Len(docs') <= MaxDocs
    BY <1>1, LenProperties DEF Evolves
  <2> QED
    BY <2>1, BoundsAssumption DEF NoRecord, DocIds
<1>5. user'.op # "none" => user'.doc \in DocIds
  BY <1>1 DEF RecordsKnown
<1> HIDE DEF new
<1>6. \A r \in {new} :
        /\ r.status \in {"running", "success", "failed", "missed"}
        /\ r.doc \in DocIds' \cup {Unknown, NoRecord}
        /\ r.status = "running" => r.doc = NoRecord
        /\ r.doc \in DocIds' => /\ r.doc >= old' /\ docs'[r.doc].job = r.job
                                /\ r.status \in {"success", "failed"}
  BY <1>3, <1>4
<1> QED
  BY <1>1, <1>2, <1>5, <1>6, KnownAfter

(* What LookUp finds is young, and so it is not old.                        *)
LEMMA LookUpEffect ==
  ASSUME TypeOK, RecordsKnown, NEW r \in recorder, LookUp(r)
  PROVE  \E d \in DocIds \cup {NoRecord} :
           /\ recorder' = (recorder \ {r})
                \cup {[job |-> r.job, run |-> r.run, status |-> r.status, doc |-> d]}
           /\ r.status \in {"success", "failed", "missed"}
           /\ d \in DocIds => /\ d >= young /\ docs[d].job = r.job
                              /\ r.status \in {"success", "failed"}
<1> DEFINE D == IF r.status \in {"success", "failed"}
                THEN Found(r.job, {"running"}, FirstMatching) ELSE {}
           d == IF D = {} THEN NoRecord ELSE Latest(D)
<1>1. r \in [job : Jobs, run : Nat, status : Statuses, doc : 0..NoRecord]
  BY DEF TypeOK
<1>2. recorder' = (recorder \ {r})
                  \cup {[job |-> r.job, run |-> r.run, status |-> r.status, doc |-> d]}
  <2>1. recorder' = (recorder \ {r}) \cup {[r EXCEPT !.doc = d]}
    BY DEF LookUp
  <2> HIDE DEF d
  <2> QED
    BY <1>1, <2>1
<1>3. r.status \in {"success", "failed", "missed"}
  <2>1. r.doc = Unknown /\ NoRecord # Unknown
    BY BoundsAssumption DEF LookUp, Unknown, NoRecord
  <2> QED
    BY <2>1 DEF RecordsKnown
<1>4. CASE D = {}
  <2>1. d = NoRecord /\ d \notin DocIds
    BY <1>4, LenProperties, BoundsAssumption DEF NoRecord, DocIds, TypeOK
  <2> QED
    BY <1>2, <1>3, <2>1
<1>5. CASE D # {}
  <2>1. r.status \in {"success", "failed"} /\ D = Found(r.job, {"running"}, young)
    BY <1>5 DEF FirstMatching
  <2>2. d \in Found(r.job, {"running"}, young)
    BY <1>5, <2>1, FoundIsThere
  <2>3. d \in DocIds /\ d >= young /\ docs[d].job = r.job
    BY <2>2 DEF Found
  <2> HIDE DEF d
  <2> QED
    BY <1>2, <1>3, <2>1, <2>3
<1> QED
  BY <1>4, <1>5

LEMMA KnownAfterLookUp ==
  ASSUME TypeOK, RecordsKnown, NEW r \in recorder, LookUp(r)
  PROVE  RecordsKnown'
<1>1. PICK d \in DocIds \cup {NoRecord} :
        /\ recorder' = (recorder \ {r})
             \cup {[job |-> r.job, run |-> r.run, status |-> r.status, doc |-> d]}
        /\ r.status \in {"success", "failed", "missed"}
        /\ d \in DocIds => /\ d >= young /\ docs[d].job = r.job
                           /\ r.status \in {"success", "failed"}
  BY LookUpEffect
<1> DEFINE new == [job |-> r.job, run |-> r.run, status |-> r.status, doc |-> d]
<1>2. Evolves /\ UNCHANGED <<docs, old, user>>
  BY DocsKept DEF LookUp
<1>3. recorder' \subseteq recorder \cup {new} /\ IsFiniteSet({new})
  BY <1>1, FS_Singleton
<1>4. new.status = r.status /\ new.doc = d /\ new.job = r.job
  OBVIOUS
<1>5. Len(docs) \in Nat /\ old \in Nat /\ young \in Nat /\ old <= young /\ DocIds' = DocIds
  BY <1>2, LenProperties DEF TypeOK, DocIds
<1>6. d \in DocIds => d >= old
  BY <1>1, <1>5 DEF DocIds
<1>7. user'.op # "none" => user'.doc \in DocIds
  BY <1>2 DEF RecordsKnown
<1> HIDE DEF new
<1>8. \A x \in {new} :
        /\ x.status \in {"running", "success", "failed", "missed"}
        /\ x.doc \in DocIds' \cup {Unknown, NoRecord}
        /\ x.status = "running" => x.doc = NoRecord
        /\ x.doc \in DocIds' => /\ x.doc >= old' /\ docs'[x.doc].job = x.job
                                /\ x.status \in {"success", "failed"}
  BY <1>1, <1>2, <1>4, <1>5, <1>6
<1> QED
  BY <1>2, <1>3, <1>7, <1>8, KnownAfter

LEMMA RecordsStep ==
  ASSUME TypeOK, RecordsKnown, [Next]_vars
  PROVE  RecordsKnown'
<1>1. CASE UNCHANGED vars
  BY <1>1 DEF vars, RecordsKnown, DocIds
<1>2. ASSUME Next, recorder' \subseteq recorder, old' = old,
             user'.op # "none" => user'.doc \in DocIds
      PROVE  RecordsKnown'
  BY <1>2, StepEvolves, KnownKept
<1>3. user.op # "none" => user.doc \in DocIds
  BY DEF RecordsKnown
<1>4. ASSUME NEW j \in Jobs, MissRun(j) \/ Finish(j) \/ StopOnRequest(j)
      PROVE  RecordsKnown'
  BY <1>4, KnownAfterRecord DEF MissRun, Finish, StopOnRequest, EndRun
<1>5. ASSUME NEW j \in Jobs, StartRun(j) \/ ReportProgress(j), Next
      PROVE  RecordsKnown'
  BY <1>2, <1>3, <1>5 DEF StartRun, ReportProgress
<1>6. ASSUME NEW r \in recorder, WriteOutcome(r), Next
      PROVE  RecordsKnown'
  BY <1>2, <1>3, <1>6 DEF WriteOutcome
<1>7. ASSUME Next, Scan \/ (\E d \in checker : FailZombie(d)) \/ CreateService
               \/ (\E d \in DocIds : MarkFailed(d)) \/ FiveMinutesPass
      PROVE  RecordsKnown'
  BY <1>2, <1>3, <1>7 DEF Scan, FailZombie, CreateService, MarkFailed, FiveMinutesPass
<1>8. ASSUME Next, RequestCancel \/ Delete \/ Restart
      PROVE  RecordsKnown'
  <2>1. user'.op = "none" /\ old' = old /\ recorder' \subseteq recorder
    BY <1>8 DEF RequestCancel, Delete, Restart, Done
  <2> QED
    BY <1>2, <1>8, <2>1
<1>9. ASSUME Next, NEW d \in DocIds, FindToCancel(d) \/ FindToDelete(d)
      PROVE  RecordsKnown'
  <2>1. user'.doc \in DocIds /\ old' = old /\ recorder' = recorder
    BY <1>9 DEF FindToCancel, FindToDelete
  <2> QED
    BY <1>2, <1>9, <2>1
<1>10. ASSUME Next, ThirtyMinutesPass
       PROVE  RecordsKnown'
  <2>1. /\ recorder' \subseteq recorder \cup {} /\ IsFiniteSet({}) /\ user' = user
        /\ \A r \in recorder : old' = old + 1 /\ r.doc # old
    BY <1>10, FS_EmptySet DEF ThirtyMinutesPass
  <2> QED
    BY <1>3, <1>10, <2>1, StepEvolves, KnownAfter
<1> QED
  BY <1>1, <1>4, <1>5, <1>6, <1>7, <1>8, <1>9, <1>10, KnownAfterTrigger, KnownAfterLookUp DEF Next

LEMMA CheckerStep ==
  ASSUME TypeOK, RecordsKnown, CheckerHoldsOld, CheckerSparesSuccess, [Next]_vars
  PROVE  CheckerHoldsOld' /\ CheckerSparesSuccess'
<1>1. CASE UNCHANGED vars
  BY <1>1 DEF vars, CheckerHoldsOld, CheckerSparesSuccess
<1>2. CASE Scan
  BY <1>2 DEF Scan, CheckerHoldsOld, CheckerSparesSuccess
<1>3. CASE Next /\ ~Scan
  <2>1. checker' \subseteq checker
    BY <1>3 DEF Next, StartRun, MissRun, Finish, ReportProgress, StopOnRequest, Trigger, LookUp,
                WriteOutcome, FailZombie, CreateService, RequestCancel, Delete, FindToCancel,
                MarkFailed, FindToDelete, FiveMinutesPass, ThirtyMinutesPass, Restart
  <2>2. old' \in {old, old + 1} /\ old \in Nat /\ young \in Nat
    <3>1. old \in Nat /\ young \in Nat
      BY LenProperties DEF TypeOK
    <3> QED
      BY <1>3, <3>1 DEF Next, StartRun, MissRun, Finish, ReportProgress, StopOnRequest, Trigger,
                LookUp, WriteOutcome, FailZombie, CreateService, RequestCancel, Delete,
                FindToCancel, MarkFailed, FindToDelete, FiveMinutesPass, ThirtyMinutesPass, Restart
  <2>3. \A d \in checker : d \in Nat /\ d < old /\ d \in DocIds /\ docs[d].status # "success"
    BY LenProperties DEF CheckerHoldsOld, CheckerSparesSuccess, TypeOK, DocIds
  <2>4. CheckerHoldsOld'
    BY <2>1, <2>2, <2>3 DEF CheckerHoldsOld
  <2>5. CASE ~ \E r \in recorder : WriteOutcome(r)
    <3>1. Evolves /\ NoNewSuccess
      BY <1>3, <2>5, OthersAddNoSuccess
    <3>2. \A d \in DocIds : d \in 1..Len(docs')
      <4>1. Len(docs) \in Nat /\ Len(docs') \in Nat
        BY <3>1, LenProperties DEF TypeOK, Evolves
      <4> QED
        BY <3>1, <4>1 DEF DocIds, Evolves
    <3> QED
      BY <2>1, <2>3, <2>4, <3>1, <3>2 DEF CheckerSparesSuccess, NoNewSuccess
  <2>6. ASSUME NEW r \in recorder, WriteOutcome(r)
        PROVE  CheckerSparesSuccess'
    <3>1. ASSUME NEW d \in checker'
          PROVE  docs'[d].status # "success"
      <4>1. d \in DocIds /\ d \in Nat /\ d < old /\ docs[d].status # "success"
        BY <2>1, <2>3
      <4>2. d # r.doc
        BY <2>2, <4>1 DEF RecordsKnown
      <4>3. docs'[d].status = docs[d].status
        BY <2>6, <4>1, <4>2, ListenerEffect
      <4> QED
        BY <4>1, <4>3
    <3> QED
      BY <3>1 DEF CheckerSparesSuccess
  <2> QED
    BY <2>4, <2>5, <2>6
<1> QED
  BY <1>1, <1>2, <1>3

-----------------------------------------------------------------------------
(* The count of successes                                                   *)

LEMMA OneMore ==
  ASSUME NEW A, IsFiniteSet(A), NEW x, NEW B, B \subseteq A \cup {x}
  PROVE  /\ Cardinality(A) \in Nat /\ Cardinality(B) \in Nat
         /\ Cardinality(B) <= Cardinality(A) + 1
<1>1. /\ IsFiniteSet(A \cup {x})
      /\ Cardinality(A \cup {x}) = IF x \in A THEN Cardinality(A) ELSE Cardinality(A) + 1
  BY FS_AddElement
<1>2. IsFiniteSet(B) /\ Cardinality(B) <= Cardinality(A \cup {x})
  BY <1>1, FS_Subset
<1>3. Cardinality(A) \in Nat /\ Cardinality(B) \in Nat
  BY <1>2, FS_CardinalityType
<1> QED
  BY <1>1, <1>2, <1>3

LEMMA OneLess ==
  ASSUME NEW A, IsFiniteSet(A), NEW y \in A, NEW B, B \subseteq A \ {y}
  PROVE  /\ Cardinality(A) \in Nat /\ Cardinality(B) \in Nat
         /\ Cardinality(B) <= Cardinality(A) - 1
<1>1. IsFiniteSet(A \ {y}) /\ Cardinality(A \ {y}) = Cardinality(A) - 1
  BY FS_RemoveElement
<1>2. IsFiniteSet(B) /\ Cardinality(B) <= Cardinality(A \ {y})
  BY <1>1, FS_Subset
<1>3. Cardinality(A) \in Nat /\ Cardinality(B) \in Nat
  BY <1>2, FS_CardinalityType
<1> QED
  BY <1>1, <1>2, <1>3

LEMMA Replacement ==
  ASSUME NEW A, IsFiniteSet(A), NEW y \in A, NEW x, NEW B, B \subseteq (A \ {y}) \cup {x}
  PROVE  /\ Cardinality(A) \in Nat /\ Cardinality(B) \in Nat
         /\ Cardinality(B) <= Cardinality(A)
<1>1. IsFiniteSet(A \ {y}) /\ Cardinality(A \ {y}) = Cardinality(A) - 1
  BY FS_RemoveElement
<1>2. Cardinality(B) \in Nat /\ Cardinality(B) <= Cardinality(A \ {y}) + 1
  BY <1>1, OneMore
<1>3. Cardinality(A) \in Nat
  BY FS_CardinalityType
<1> QED
  BY <1>1, <1>2, <1>3

LEMMA CountsFinite ==
  ASSUME TypeOK, RecordsKnown, NEW j \in Jobs
  PROVE  /\ IsFiniteSet(Succeeded(j)) /\ Cardinality(Succeeded(j)) \in Nat
         /\ IsFiniteSet(Pending(j)) /\ Cardinality(Pending(j)) \in Nat
         /\ succeeded[j] \in Nat
<1>1. Len(docs) \in Nat
  BY LenProperties DEF TypeOK
<1>2. IsFiniteSet(DocIds) /\ Succeeded(j) \subseteq DocIds /\ Pending(j) \subseteq recorder
  BY <1>1, FS_Interval DEF DocIds, Succeeded, Pending
<1>3. IsFiniteSet(Succeeded(j)) /\ IsFiniteSet(Pending(j))
  BY <1>2, FS_Subset DEF RecordsKnown
<1> QED
  BY <1>3, FS_CardinalityType DEF TypeOK

(* The count of a job whose successes and outcomes on the way only become fewer.        *)
LEMMA CountKept ==
  ASSUME TypeOK, RecordsKnown, SuccessesHappened, NEW j \in Jobs,
         Succeeded(j)' \subseteq Succeeded(j), Pending(j)' \subseteq Pending(j),
         succeeded'[j] \in {succeeded[j], succeeded[j] + 1}
  PROVE  Cardinality(Succeeded(j)') + Cardinality(Pending(j)') <= succeeded'[j]
<1>1. /\ IsFiniteSet(Succeeded(j)) /\ Cardinality(Succeeded(j)) \in Nat
      /\ IsFiniteSet(Pending(j)) /\ Cardinality(Pending(j)) \in Nat /\ succeeded[j] \in Nat
  BY CountsFinite
<1>2. Cardinality(Succeeded(j)') <= Cardinality(Succeeded(j)) /\ Cardinality(Succeeded(j)') \in Nat
  BY <1>1, FS_Subset, FS_CardinalityType
<1>3. Cardinality(Pending(j)') <= Cardinality(Pending(j)) /\ Cardinality(Pending(j)') \in Nat
  BY <1>1, FS_Subset, FS_CardinalityType
<1>4. Cardinality(Succeeded(j)) + Cardinality(Pending(j)) <= succeeded[j]
  BY DEF SuccessesHappened, Succeeded, Pending
<1> QED
  BY <1>1, <1>2, <1>3, <1>4

LEMMA NoNewSucceeded ==
  ASSUME TypeOK, Evolves, NoNewSuccess, NEW j \in Jobs
  PROVE  Succeeded(j)' \subseteq Succeeded(j)
BY DEF Succeeded, NoNewSuccess, Evolves, DocIds

Counted(j) == Cardinality(Succeeded(j)) + Cardinality(Pending(j)) <= succeeded[j]

(* A run that ends adds an outcome and, if the listener hears of a success, one to count. *)
LEMMA CountAfterEnd ==
  ASSUME TypeOK, RecordsKnown, SuccessesHappened, NEW k \in Jobs, NEW s \in {"success", "failed"},
         EndRun(k, s), docs' = docs, NEW j \in Jobs
  PROVE  Counted(j)'
<1> DEFINE new == [job |-> k, run |-> runs, status |-> s, doc |-> Unknown]
<1>1. Succeeded(j)' = Succeeded(j)
  BY DEF Succeeded, DocIds
<1>2. recorder' = IF serviceUp THEN recorder \cup {new} ELSE recorder
  BY DEF EndRun, Record
<1>3. succeeded' = IF serviceUp /\ s = "success"
                   THEN [succeeded EXCEPT ![k] = @ + 1] ELSE succeeded
  BY DEF EndRun
<1>4. new.job = k /\ new.status = s
  OBVIOUS
<1> HIDE DEF new
<1>5. CASE serviceUp /\ s = "success" /\ j = k
  <2>1. Pending(j)' \subseteq Pending(j) \cup {new}
    BY <1>2 DEF Pending
  <2>2. /\ IsFiniteSet(Succeeded(j)) /\ Cardinality(Succeeded(j)) \in Nat
        /\ IsFiniteSet(Pending(j)) /\ Cardinality(Pending(j)) \in Nat /\ succeeded[j] \in Nat
    BY CountsFinite
  <2>3. /\ Cardinality(Pending(j)') <= Cardinality(Pending(j)) + 1
        /\ Cardinality(Pending(j)') \in Nat
    BY <2>1, <2>2, OneMore
  <2>4. succeeded'[j] = succeeded[j] + 1
    BY <1>3, <1>5 DEF TypeOK
  <2>5. Cardinality(Succeeded(j)) + Cardinality(Pending(j)) <= succeeded[j]
    BY DEF SuccessesHappened, Succeeded, Pending
  <2> QED
    BY <1>1, <2>2, <2>3, <2>4, <2>5 DEF Counted
<1>6. CASE ~ (serviceUp /\ s = "success" /\ j = k)
  <2>1. Pending(j)' \subseteq Pending(j)
    BY <1>2, <1>3, <1>4, <1>6 DEF Pending
  <2>2. succeeded'[j] = succeeded[j]
    BY <1>3, <1>6 DEF TypeOK
  <2> QED
    BY <1>1, <2>1, <2>2, CountKept DEF Counted
<1> QED
  BY <1>5, <1>6

(* An outcome that found its record is the same outcome.                    *)
LEMMA CountAfterLookUp ==
  ASSUME TypeOK, RecordsKnown, SuccessesHappened, NEW r \in recorder, LookUp(r), NEW j \in Jobs
  PROVE  Counted(j)'
<1>1. PICK d \in DocIds \cup {NoRecord} :
        recorder' = (recorder \ {r})
          \cup {[job |-> r.job, run |-> r.run, status |-> r.status, doc |-> d]}
  BY LookUpEffect
<1> DEFINE new == [job |-> r.job, run |-> r.run, status |-> r.status, doc |-> d]
<1>2. Succeeded(j)' = Succeeded(j) /\ succeeded' = succeeded
  BY DEF LookUp, Succeeded, DocIds
<1>3. new.job = r.job /\ new.status = r.status
  OBVIOUS
<1> HIDE DEF new
<1>4. CASE r \in Pending(j)
  <2>1. Pending(j)' \subseteq (Pending(j) \ {r}) \cup {new}
    BY <1>1 DEF Pending, new
  <2>2. /\ IsFiniteSet(Succeeded(j)) /\ Cardinality(Succeeded(j)) \in Nat
        /\ IsFiniteSet(Pending(j)) /\ Cardinality(Pending(j)) \in Nat /\ succeeded[j] \in Nat
    BY CountsFinite
  <2>3. /\ Cardinality(Pending(j)') <= Cardinality(Pending(j))
        /\ Cardinality(Pending(j)') \in Nat
    BY <1>4, <2>1, <2>2, Replacement
  <2>4. Cardinality(Succeeded(j)) + Cardinality(Pending(j)) <= succeeded[j]
    BY DEF SuccessesHappened, Succeeded, Pending
  <2> QED
    BY <1>2, <2>2, <2>3, <2>4 DEF Counted
<1>5. CASE r \notin Pending(j)
  <2>1. Pending(j)' \subseteq Pending(j)
    BY <1>1, <1>3, <1>5 DEF Pending, new
  <2> QED
    BY <1>2, <2>1, CountKept DEF Counted
<1> QED
  BY <1>4, <1>5

(* An outcome that is written is off the way.                               *)
LEMMA CountAfterOutcome ==
  ASSUME TypeOK, RecordsKnown, SuccessesHappened, NEW r \in recorder, WriteOutcome(r),
         NEW j \in Jobs
  PROVE  Counted(j)'
<1>1. recorder' = recorder \ {r} /\ succeeded' = succeeded
  BY DEF WriteOutcome
<1>2. /\ Evolves
      /\ \A d \in DocIds : docs'[d].status # docs[d].status
           => d = r.doc /\ docs'[d].status \in {r.status, "deleted"}
      /\ \A d \in 1..Len(docs') \ DocIds :
           /\ r.doc = NoRecord /\ d = Len(docs) + 1
           /\ docs'[d].job = r.job /\ docs'[d].status = r.status
  BY ListenerEffect
<1>3. ASSUME NEW d \in Succeeded(j)', d \notin Succeeded(j)
      PROVE  /\ r.job = j /\ r.status = "success"
             /\ d = IF r.doc \in DocIds THEN r.doc ELSE Len(docs) + 1
  <2>1. d \in 1..Len(docs') /\ docs'[d].job = j /\ docs'[d].status = "success"
    BY <1>3 DEF Succeeded, DocIds
  <2>2. CASE d \in DocIds
    <3>1. docs[d].job = j
      BY <1>2, <2>1, <2>2 DEF Evolves
    <3>2. docs'[d].status # docs[d].status
      BY <1>3, <2>1, <2>2, <3>1 DEF Succeeded
    <3>3. d = r.doc /\ r.status = "success"
      BY <1>2, <2>1, <2>2, <3>2
    <3> QED
      BY <2>2, <3>1, <3>3 DEF RecordsKnown
  <2>3. CASE d \notin DocIds
    <3>1. r.doc = NoRecord /\ d = Len(docs) + 1 /\ r.job = j /\ r.status = "success"
      BY <1>2, <2>1, <2>3
    <3>2. NoRecord \notin DocIds
      BY LenProperties, BoundsAssumption DEF NoRecord, DocIds, TypeOK
    <3> QED
      BY <3>1, <3>2
  <2> QED
    BY <2>2, <2>3
<1>4. CASE r.job = j /\ r.status = "success"
  <2> DEFINE x == IF r.doc \in DocIds THEN r.doc ELSE Len(docs) + 1
  <2>1. Succeeded(j)' \subseteq Succeeded(j) \cup {x}
    BY <1>3
  <2>2. Pending(j)' \subseteq Pending(j) \ {r} /\ r \in Pending(j)
    BY <1>1, <1>4 DEF Pending
  <2>3. /\ IsFiniteSet(Succeeded(j)) /\ Cardinality(Succeeded(j)) \in Nat
        /\ IsFiniteSet(Pending(j)) /\ Cardinality(Pending(j)) \in Nat /\ succeeded[j] \in Nat
    BY CountsFinite
  <2> HIDE DEF x
  <2>4. /\ Cardinality(Succeeded(j)') <= Cardinality(Succeeded(j)) + 1
        /\ Cardinality(Succeeded(j)') \in Nat
    BY <2>1, <2>3, OneMore
  <2>5. /\ Cardinality(Pending(j)') <= Cardinality(Pending(j)) - 1
        /\ Cardinality(Pending(j)') \in Nat
    BY <2>2, <2>3, OneLess
  <2>6. Cardinality(Succeeded(j)) + Cardinality(Pending(j)) <= succeeded[j]
    BY DEF SuccessesHappened, Succeeded, Pending
  <2> QED
    BY <1>1, <2>3, <2>4, <2>5, <2>6 DEF Counted
<1>5. CASE ~ (r.job = j /\ r.status = "success")
  <2>1. Succeeded(j)' \subseteq Succeeded(j)
    BY <1>3, <1>5
  <2>2. Pending(j)' \subseteq Pending(j)
    BY <1>1 DEF Pending
  <2> QED
    BY <1>1, <2>1, <2>2, CountKept DEF Counted
<1> QED
  BY <1>4, <1>5

LEMMA SuccessStep ==
  ASSUME TypeOK, RecordsKnown, SuccessesHappened, [Next]_vars
  PROVE  SuccessesHappened'
<1> SUFFICES ASSUME NEW j \in Jobs PROVE Counted(j)'
  BY DEF SuccessesHappened, Counted, Succeeded, Pending
<1>1. ASSUME Next, ~ \E r \in recorder : WriteOutcome(r),
             \A r \in recorder' \ recorder : r.status # "success", succeeded' = succeeded
      PROVE  Counted(j)'
  <2>1. Succeeded(j)' \subseteq Succeeded(j)
    BY <1>1, OthersAddNoSuccess, NoNewSucceeded
  <2>2. Pending(j)' \subseteq Pending(j)
    BY <1>1 DEF Pending
  <2> QED
    BY <1>1, <2>1, <2>2, CountKept DEF Counted
<1>2. CASE UNCHANGED vars
  BY <1>2, CountKept DEF vars, Counted, Succeeded, Pending, DocIds
<1>3. ASSUME NEW r \in recorder, WriteOutcome(r) PROVE Counted(j)'
  BY <1>3, CountAfterOutcome
<1>4. ASSUME NEW r \in recorder, LookUp(r) PROVE Counted(j)'
  BY <1>4, CountAfterLookUp
<1>5. ASSUME NEW k \in Jobs, Finish(k) \/ StopOnRequest(k) PROVE Counted(j)'
  BY <1>5, CountAfterEnd DEF Finish, StopOnRequest
<1>6. ASSUME NEW k \in Jobs, MissRun(k)
      PROVE  (\A r \in recorder' \ recorder : r.status # "success") /\ succeeded' = succeeded
  BY <1>6 DEF MissRun, Record
<1>7. ASSUME NEW k \in Jobs, Trigger(k)
      PROVE  (\A r \in recorder' \ recorder : r.status # "success") /\ succeeded' = succeeded
  BY <1>7 DEF Trigger
<1>8. ASSUME NEW k \in Jobs, StartRun(k) \/ ReportProgress(k)
      PROVE  recorder' = recorder /\ succeeded' = succeeded
  BY <1>8 DEF StartRun, ReportProgress
<1>9. ASSUME Scan \/ (\E d \in checker : FailZombie(d)) \/ CreateService \/ RequestCancel \/ Delete
               \/ (\E d \in DocIds : FindToCancel(d) \/ MarkFailed(d) \/ FindToDelete(d))
               \/ FiveMinutesPass \/ ThirtyMinutesPass \/ Restart
      PROVE  recorder' \subseteq recorder /\ succeeded' = succeeded
  BY <1>9 DEF Scan, FailZombie, CreateService, RequestCancel, Delete, FindToCancel, MarkFailed,
              FindToDelete, FiveMinutesPass, ThirtyMinutesPass, Restart
<1>10. CASE Next /\ ~ (\E r \in recorder : LookUp(r) \/ WriteOutcome(r))
              /\ ~ (\E k \in Jobs : Finish(k) \/ StopOnRequest(k))
  <2>1. (\A r \in recorder' \ recorder : r.status # "success") /\ succeeded' = succeeded
    BY <1>6, <1>7, <1>8, <1>9, <1>10 DEF Next
  <2> QED
    BY <1>1, <1>10, <2>1
<1> QED
  BY <1>2, <1>3, <1>4, <1>5, <1>10

-----------------------------------------------------------------------------
(* Types                                                                    *)

Listener == [job : Jobs, run : Nat, status : Statuses, doc : 0..NoRecord]

(* The types after a step, but for docs, in terms of the records before it. *)
ClocksTyped == old' \in 1..young' /\ young' \in 1..Len(docs) + 1
ActorsTyped ==
  /\ active' \subseteq Jobs /\ serviceUp' \in BOOLEAN /\ recorder' \subseteq Listener
  /\ checker' \subseteq DocIds
  /\ user' \in [op : {"none", "cancel", "delete"}, doc : 0..Len(docs)]
CountersTyped ==
  /\ sawCancel' \in [Jobs -> 0..2] /\ succeeded' \in [Jobs -> Nat]
  /\ runs' \in 0..MaxRuns /\ triggers' \in 0..MaxTriggers /\ restarts' \in 0..MaxRestarts

LEMMA RecordTyped ==
  ASSUME TypeOK, NEW j \in Jobs, NEW s \in Statuses, Record(j, s)
  PROVE  recorder' \subseteq Listener
<1> DEFINE new == [job |-> j, run |-> runs, status |-> s, doc |-> Unknown]
<1>1. runs \in Nat /\ Unknown \in 0..NoRecord
  BY BoundsAssumption DEF TypeOK, Unknown, NoRecord
<1>2. new \in Listener
  BY <1>1 DEF Listener
<1>3. recorder \subseteq Listener
  BY DEF TypeOK, Listener
<1> QED
  BY <1>2, <1>3 DEF Record

LEMMA ClocksStep ==
  ASSUME TypeOK, Next
  PROVE  ClocksTyped
<1>1. Len(docs) \in Nat /\ old \in 1..young /\ young \in 1..Len(docs) + 1
  BY LenProperties DEF TypeOK
<1>2. CASE UNCHANGED <<old, young>>
  BY <1>1, <1>2 DEF ClocksTyped
<1>3. CASE FiveMinutesPass
  BY <1>1, <1>3 DEF FiveMinutesPass, ClocksTyped
<1>4. CASE ThirtyMinutesPass
  BY <1>1, <1>4 DEF ThirtyMinutesPass, ClocksTyped
<1>5. CASE Next /\ ~FiveMinutesPass /\ ~ThirtyMinutesPass
  <2>1. UNCHANGED <<old, young>>
    BY <1>5 DEF Next, StartRun, MissRun, Finish, ReportProgress, StopOnRequest, Trigger, LookUp,
                WriteOutcome, Scan, FailZombie, CreateService, RequestCancel, Delete,
                FindToCancel, MarkFailed, FindToDelete, Restart
  <2> QED
    BY <1>2, <2>1
<1> QED
  BY <1>3, <1>4, <1>5

LEMMA ActorsStep ==
  ASSUME TypeOK, RecordsKnown, Next
  PROVE  ActorsTyped
<1>1. /\ active \subseteq Jobs /\ serviceUp \in BOOLEAN /\ recorder \subseteq Listener
      /\ checker \subseteq DocIds
      /\ user \in [op : {"none", "cancel", "delete"}, doc : 0..Len(docs)]
      /\ Len(docs) \in Nat /\ DocIds \subseteq 0..Len(docs)
  BY LenProperties DEF TypeOK, Listener, DocIds
<1>2. ASSUME NEW j \in Jobs, StartRun(j) \/ ReportProgress(j)
      PROVE  ActorsTyped
  BY <1>1, <1>2 DEF StartRun, ReportProgress, ActorsTyped
<1>3. ASSUME NEW j \in Jobs, MissRun(j) \/ Finish(j) \/ StopOnRequest(j)
      PROVE  ActorsTyped
  <2>1. recorder' \subseteq Listener
    BY <1>3, RecordTyped DEF MissRun, Finish, StopOnRequest, EndRun, Statuses
  <2> QED
    BY <1>1, <1>3, <2>1 DEF MissRun, Finish, StopOnRequest, EndRun, ActorsTyped
<1>4. ASSUME NEW j \in Jobs, Trigger(j)
      PROVE  ActorsTyped
  <2> DEFINE new == [job |-> j, run |-> triggers, status |-> "running", doc |-> NoRecord]
  <2>1. new \in Listener
    BY BoundsAssumption DEF Listener, Statuses, NoRecord, TypeOK
  <2>2. recorder' = recorder \cup {new}
    BY <1>4 DEF Trigger
  <2> HIDE DEF new
  <2>3. recorder' \subseteq Listener
    BY <1>1, <2>1, <2>2
  <2> QED
    BY <1>1, <1>4, <2>3 DEF Trigger, ActorsTyped
<1>5. ASSUME NEW r \in recorder, LookUp(r)
      PROVE  ActorsTyped
  <2>1. PICK d \in DocIds \cup {NoRecord} :
          recorder' = (recorder \ {r})
            \cup {[job |-> r.job, run |-> r.run, status |-> r.status, doc |-> d]}
    BY <1>5, LookUpEffect
  <2>2. d \in 0..NoRecord
    BY LenProperties, BoundsAssumption DEF TypeOK, DocIds, NoRecord
  <2>3. r \in Listener
    BY <1>1
  <2>4. recorder' \subseteq Listener
    BY <1>1, <2>1, <2>2, <2>3 DEF Listener
  <2> QED
    BY <1>1, <1>5, <2>4 DEF LookUp, ActorsTyped
<1>6. ASSUME NEW r \in recorder, WriteOutcome(r)
      PROVE  ActorsTyped
  BY <1>1, <1>6 DEF WriteOutcome, ActorsTyped
<1>7. ASSUME Scan \/ (\E d \in checker : FailZombie(d)) \/ CreateService
               \/ (\E d \in DocIds : MarkFailed(d)) \/ FiveMinutesPass \/ ThirtyMinutesPass
      PROVE  ActorsTyped
  BY <1>1, <1>7 DEF Scan, FailZombie, CreateService, MarkFailed, FiveMinutesPass,
                    ThirtyMinutesPass, ActorsTyped
<1>8. ASSUME RequestCancel \/ Delete \/ Restart
      PROVE  ActorsTyped
  <2>1. user' = [op |-> "none", doc |-> 0]
    BY <1>8 DEF RequestCancel, Delete, Restart, Done
  <2>2. user' \in [op : {"none", "cancel", "delete"}, doc : 0..Len(docs)]
    BY <1>1, <2>1
  <2>3. /\ active' \subseteq active /\ recorder' \subseteq recorder
        /\ checker' \subseteq checker /\ serviceUp' \in {serviceUp, FALSE}
    BY <1>8 DEF RequestCancel, Delete, Restart
  <2> QED
    BY <1>1, <2>2, <2>3 DEF ActorsTyped
<1>9. ASSUME NEW d \in DocIds, FindToCancel(d) \/ FindToDelete(d)
      PROVE  ActorsTyped
  BY <1>1, <1>9 DEF FindToCancel, FindToDelete, ActorsTyped
<1> QED
  BY <1>2, <1>3, <1>4, <1>5, <1>6, <1>7, <1>8, <1>9 DEF Next

LEMMA CountersStep ==
  ASSUME TypeOK, Next
  PROVE  CountersTyped
<1>1. /\ sawCancel \in [Jobs -> 0..2] /\ succeeded \in [Jobs -> Nat]
      /\ runs \in 0..MaxRuns /\ triggers \in 0..MaxTriggers /\ restarts \in 0..MaxRestarts
  BY DEF TypeOK
<1>2. ASSUME NEW j \in Jobs, StartRun(j) \/ MissRun(j) \/ Trigger(j)
      PROVE  CountersTyped
  BY <1>1, <1>2, BoundsAssumption DEF StartRun, MissRun, Trigger, CountersTyped
<1>3. ASSUME NEW j \in Jobs, Finish(j) \/ StopOnRequest(j)
      PROVE  CountersTyped
  BY <1>1, <1>3 DEF Finish, StopOnRequest, EndRun, CountersTyped
<1>4. ASSUME NEW j \in Jobs, ReportProgress(j)
      PROVE  CountersTyped
  BY <1>1, <1>4 DEF ReportProgress, CountersTyped
<1>5. CASE Restart
  BY <1>1, <1>5, BoundsAssumption DEF Restart, CountersTyped
<1>6. CASE (\E r \in recorder : LookUp(r) \/ WriteOutcome(r)) \/ Scan
            \/ (\E d \in checker : FailZombie(d)) \/ CreateService \/ RequestCancel \/ Delete
            \/ (\E d \in DocIds : FindToCancel(d) \/ MarkFailed(d) \/ FindToDelete(d))
            \/ FiveMinutesPass \/ ThirtyMinutesPass
  <2>1. UNCHANGED <<sawCancel, succeeded, runs, triggers, restarts>>
    BY <1>6 DEF LookUp, WriteOutcome, Scan, FailZombie, CreateService, RequestCancel, Delete,
                FindToCancel, MarkFailed, FindToDelete, FiveMinutesPass, ThirtyMinutesPass
  <2> QED
    BY <1>1, <2>1 DEF CountersTyped
<1> QED
  BY <1>2, <1>3, <1>4, <1>5, <1>6 DEF Next

LEMMA TypeStep ==
  ASSUME TypeOK, RecordsKnown, [Next]_vars
  PROVE  TypeOK'
<1>1. CASE UNCHANGED vars
  BY <1>1 DEF vars, TypeOK, DocIds
<1>2. CASE Next
  <2>1. Evolves /\ ClocksTyped /\ ActorsTyped /\ CountersTyped
    BY <1>2, StepEvolves, ClocksStep, ActorsStep, CountersStep
  <2>2. Len(docs) \in Nat /\ Len(docs') \in Nat /\ Len(docs) <= Len(docs')
    BY <2>1, LenProperties DEF TypeOK, Evolves
  <2>3. /\ DocIds \subseteq DocIds' /\ 0..Len(docs) \subseteq 0..Len(docs')
        /\ 1..Len(docs) + 1 \subseteq 1..Len(docs') + 1
    BY <2>2 DEF DocIds
  <2>4. docs' \in Seq([job : Jobs, status : Statuses, cancel : BOOLEAN]) /\ Len(docs') <= MaxDocs
    BY <2>1 DEF Evolves, Doc
  <2>5. old' \in 1..young' /\ young' \in 1..Len(docs') + 1
    BY <2>1, <2>3 DEF ClocksTyped
  <2>6. /\ active' \subseteq Jobs /\ serviceUp' \in BOOLEAN
        /\ recorder' \subseteq [job : Jobs, run : Nat, status : Statuses, doc : 0..NoRecord]
        /\ checker' \subseteq DocIds'
        /\ user' \in [op : {"none", "cancel", "delete"}, doc : 0..Len(docs')]
    BY <2>1, <2>3 DEF ActorsTyped, Listener
  <2> QED
    BY <2>1, <2>4, <2>5, <2>6 DEF TypeOK, CountersTyped
<1> QED
  BY <1>1, <1>2

LEMMA InitInv == Init => IInv
<1> SUFFICES ASSUME Init PROVE IInv
  OBVIOUS
<1>1. /\ Len(docs) = 0 /\ DocIds = {}
      /\ docs \in Seq([job : Jobs, status : Statuses, cancel : BOOLEAN])
  BY EmptySeq DEF Init, DocIds
<1>2. TypeOK
  <2>1. 0 \in 0..MaxRuns /\ 0 \in 0..MaxTriggers /\ 0 \in 0..MaxRestarts /\ 0 <= MaxDocs
    BY BoundsAssumption
  <2>2. sawCancel \in [Jobs -> 0..2] /\ succeeded \in [Jobs -> Nat]
    BY DEF Init
  <2>3. user \in [op : {"none", "cancel", "delete"}, doc : 0..Len(docs)]
    BY <1>1 DEF Init
  <2>4. old \in 1..young /\ young \in 1..Len(docs) + 1
    BY <1>1 DEF Init
  <2> QED
    BY <1>1, <2>1, <2>2, <2>3, <2>4 DEF Init, TypeOK
<1>3. RecordsKnown
  BY FS_EmptySet DEF Init, RecordsKnown
<1>4. CheckerHoldsOld /\ CheckerSparesSuccess
  BY DEF Init, CheckerHoldsOld, CheckerSparesSuccess
<1>5. SuccessesHappened
  <2> SUFFICES ASSUME NEW j \in Jobs
               PROVE  Cardinality(Succeeded(j)) + Cardinality(Pending(j)) <= succeeded[j]
    BY DEF SuccessesHappened, Succeeded, Pending
  <2>1. Succeeded(j) = {} /\ Pending(j) = {} /\ succeeded[j] = 0
    BY <1>1 DEF Init, Succeeded, Pending
  <2> QED
    BY <2>1, FS_EmptySet
<1> QED
  BY <1>2, <1>3, <1>4, <1>5 DEF IInv

LEMMA StepInv == IInv /\ [Next]_vars => IInv'
BY TypeStep, RecordsStep, CheckerStep, SuccessStep DEF IInv

(* The invariant from which the theorems follow.                            *)
THEOREM Invariant == Spec => []IInv
<1>1. Init => IInv
  BY InitInv
<1>2. IInv /\ [Next]_vars => IInv'
  BY StepInv
<1> QED
  BY <1>1, <1>2, PTL DEF Spec

(* Every variable has its type: no listener holds a record that is not there.           *)
THEOREM TypeCorrect == Spec => []TypeOK
<1>1. IInv => TypeOK
  BY DEF IInv
<1> QED
  BY <1>1, Invariant, PTL

(* No history shows more successful runs of a job than there were, whatever records the *)
(* outcomes went to.                                                                    *)
THEOREM NoInventedSuccess == Spec => []SuccessesHappened
<1>1. IInv => SuccessesHappened
  BY DEF IInv
<1> QED
  BY <1>1, Invariant, PTL

(* The zombie checker never holds a record that reads success, although it writes       *)
(* what it read a while ago.                                                            *)
THEOREM SuccessSpared == Spec => []CheckerSparesSuccess
<1>1. IInv => CheckerSparesSuccess
  BY DEF IInv
<1> QED
  BY <1>1, Invariant, PTL

(* A record that has ended is set back to running only while its job is running.        *)
THEOREM OnlyRunsReopen == Spec => OnlyItsRunReopens
<1> DEFINE Reopens == \A d \in DocIds :
             docs[d].status # "running" /\ docs'[d].status = "running" =>
               docs[d].job \in active /\ docs[d].status \in {"success", "failed"}
<1>1. ASSUME IInv, [Next]_vars PROVE [Reopens]_vars
  <2>1. CASE UNCHANGED vars
    BY <2>1
  <2>2. CASE Next /\ ~ \E r \in recorder : WriteOutcome(r)
    BY <1>1, <2>2, OthersAddNoSuccess DEF IInv
  <2>3. ASSUME NEW r \in recorder, WriteOutcome(r)
        PROVE  Reopens
    <3>1. \A d \in DocIds : docs'[d].status # docs[d].status
            => d = r.doc /\ docs'[d].status \in {r.status, "deleted"}
      BY <1>1, <2>3, ListenerEffect DEF IInv
    <3>2. \A d \in DocIds : d = r.doc => r.status \in {"success", "failed"}
      BY <1>1 DEF IInv, RecordsKnown
    <3> QED
      BY <3>1, <3>2
  <2> QED
    BY <1>1, <2>1, <2>2, <2>3
<1> QED
  BY <1>1, Invariant, PTL DEF Spec, OnlyItsRunReopens
=============================================================================
