-------------------------- MODULE BasicsSync_proofs --------------------------
(***************************************************************************)
(* What the status document of the stock synchronisation says is true, and *)
(* the number of runs at work on a service is bounded, for every number of *)
(* calls, services, batches, tries, resets and restarts.  The bound needs  *)
(* the flag: while it is down there is room for one more run.  What the    *)
(* document says rests on what each run has done when it stores its status.*)
(***************************************************************************)
EXTENDS BasicsSync, FiniteSetTheorems, TLAPS

(* What lets more than one run work on a service.                          *)
Excuses(s) == Cardinality(ForcedOn(s)) + (IF s = Shared THEN resets ELSE 0)

Counted ==
  /\ \A r \in forced : pc[r] # "new"
  /\ \A s \in Services :
       Cardinality(Going(s)) <= IF running[s] THEN 1 + Excuses(s) ELSE Excuses(s)

(* The batches a run without errors has behind it are stored.              *)
BatchesStored ==
  \A r \in Runs : /\ pc[r] \in {"new", "claimed", "fetching"} => batch[r] = 1
                  /\ ~errors[r] => \A b \in Batches : b < batch[r] => b \in wrote[r]

SuccessEarned == \A r \in Runs : status[r] = "success" => wrote[r] = Batches

(* A document is one of a run of that job.                                 *)
OwnDocument == \A j \in Jobs : document[j] # None => Mine(document[j].run) = j

(* A run that has written its last status has replaced its first.          *)
Replaced ==
  \A r \in Runs : pc[r] = "freeing" /\ status[r] # "failed"
                  => document[Mine(r)] # [run |-> r, status |-> "running"]

Told == OwnDocument /\ Replaced /\ RunningIsTrue
Stored == BatchesStored /\ SuccessEarned /\ SuccessIsComplete
IInv == TypeOK /\ Counted /\ Stored /\ Told
-----------------------------------------------------------------------------

LEMMA InitInv == Init => IInv
<1> SUFFICES ASSUME Init PROVE IInv
  OBVIOUS
<1>1. TypeOK
  <2>1. /\ 1 \in 1..NumBatches + 1 /\ 0 \in 0..MaxTries - 1
    BY SyncAssumption
  <2>2. /\ "new" \in Places /\ {} \in SUBSET Batches
    BY DEF Places
  <2> QED
    BY <2>1, <2>2 DEF Init, TypeOK
<1>2. Counted
  <2> SUFFICES ASSUME NEW s \in Services PROVE Cardinality(Going(s)) <= Excuses(s)
    BY DEF Counted, Init
  <2>1. Going(s) = {} /\ ForcedOn(s) = {}
    BY DEF Init, Going, ForcedOn, Busy
  <2> QED
    BY <2>1, FS_EmptySet DEF Excuses, Init
<1>3. Stored
  BY SyncAssumption DEF Init, Stored, BatchesStored, SuccessEarned, SuccessIsComplete, Says, Batches
<1>4. Told
  BY DEF Init, Told, OwnDocument, Replaced, RunningIsTrue, Says
<1> QED
  BY <1>1, <1>2, <1>3, <1>4 DEF IInv
-----------------------------------------------------------------------------
(* Types.                                                                   *)

LEMMA GoType ==
  ASSUME pc \in [Runs -> Places], NEW r \in Runs, NEW place \in Places, Go(r, place)
  PROVE  pc' \in [Runs -> Places]
  BY DEF Go

LEMMA PersistType ==
  ASSUME TypeOK, NEW r \in Runs, NEW result \in Statuses,
         NEW place \in Places, NEW other \in Places,
         Persist(r, result, place, other)
  PROVE  TypeOK'
<1>1. pc' \in [Runs -> Places]
  BY GoType DEF TypeOK, Persist
<1>2. status' \in [Runs -> Statuses \cup {"none"}] /\ status'[r] = result
  BY DEF TypeOK, Persist
<1>3. [run |-> r, status |-> status'[r]] \in Records
  BY <1>2 DEF Records
<1>4. document' \in [Jobs -> Records \cup {None}]
  BY <1>3 DEF TypeOK, Persist, Store
<1> QED
  BY <1>1, <1>2, <1>4 DEF TypeOK, Persist, of_run, outside

\* A call takes the flag or is told the status.
LEMMA StartCases ==
  ASSUME NEW r \in Runs, Start(r)
  PROVE  Skip(r) \/ \E force \in BOOLEAN : Claim(r, force)
<1>1. FALSE \in BOOLEAN /\ (ServiceOf[r] \in Forceable) \in BOOLEAN
  OBVIOUS
<1> QED
  BY <1>1, Zenon DEF Start

\* A fetch fails or leaves the run with some errors or none.
LEMMA FetchCases ==
  ASSUME NEW r \in Runs, Fetch(r)
  PROVE  \/ Go(r, "failing") /\ errors' = errors
         \/ Go(r, "writing") /\ \E bad \in BOOLEAN : errors' = [errors EXCEPT ![r] = bad]
<1>1. FALSE \in BOOLEAN /\ (ServiceOf[r] \in MultiSource) \in BOOLEAN
  OBVIOUS
<1> QED
  BY <1>1, Zenon DEF Fetch

LEMMA NextType ==
  ASSUME TypeOK, [Next]_vars
  PROVE  TypeOK'
<1> USE DEF of_run, shared, outside
<1>1. ASSUME NEW r \in Runs, Start(r)
      PROVE  TypeOK'
  <2>1. ASSUME NEW force \in BOOLEAN, Claim(r, force)
        PROVE  TypeOK'
    <3>1. pc' \in [Runs -> Places]
      BY <2>1, GoType DEF Claim, TypeOK, Places, Busy
    <3> QED
      BY <3>1, <2>1 DEF Claim, Call, TypeOK
  <2>2. CASE Skip(r)
    <3>1. pc' \in [Runs -> Places]
      BY <2>2, GoType DEF Skip, TypeOK, Places
    <3> QED
      BY <3>1, <2>2 DEF Skip, Call, TypeOK
  <2> QED
    BY <1>1, <2>1, <2>2, StartCases
<1>2. ASSUME NEW r \in Runs, Answer(r)
      PROVE  TypeOK'
  <2>1. pc' \in [Runs -> Places]
    BY <1>2, GoType DEF Answer, TypeOK, Places
  <2> QED
    BY <2>1, <1>2 DEF Answer, TypeOK
<1>3. ASSUME NEW r \in Runs, Announce(r)
      PROVE  TypeOK'
  BY <1>3, PersistType DEF Announce, Statuses, Places, Busy
<1>4. ASSUME NEW r \in Runs, Fetch(r)
      PROVE  TypeOK'
  <2>1. pc' \in [Runs -> Places]
    BY <1>4, GoType DEF Fetch, TypeOK, Places, Busy
  <2>2. errors' \in [Runs -> BOOLEAN]
    BY <1>4, FetchCases DEF TypeOK
  <2> QED
    BY <2>1, <2>2, <1>4 DEF Fetch, TypeOK
<1>5. ASSUME NEW r \in Runs, Write(r)
      PROVE  TypeOK'
  <2>1. batch[r] \in Batches /\ batch[r] + 1 \in 1..NumBatches + 1
    BY <1>5, SyncAssumption DEF Write, TypeOK, Batches
  <2>2. data' \in [Batches -> Runs \cup {None}] /\ wrote' \in [Runs -> SUBSET Batches]
    <3>1. Apply(r) \/ UNCHANGED <<data, wrote>>
      BY <1>5 DEF Write
    <3>2. data \in [Batches -> Runs \cup {None}] /\ wrote \in [Runs -> SUBSET Batches]
      BY DEF TypeOK
    <3>3. wrote[r] \cup {batch[r]} \in SUBSET Batches
      BY <2>1, <3>2
    <3> QED
      BY <3>1, <3>2, <3>3 DEF Apply
  <2>3. 0 \in 0..MaxTries - 1 /\ (tries[r] + 1 < MaxTries => tries[r] + 1 \in 0..MaxTries - 1)
    BY SyncAssumption DEF TypeOK
  <2>4. /\ batch' \in [Runs -> 1..NumBatches + 1] /\ tries' \in [Runs -> 0..MaxTries - 1]
        /\ errors' \in [Runs -> BOOLEAN]
    <3>1. ASSUME NEW error \in BOOLEAN, NextBatch(r, error)
          PROVE  /\ batch' \in [Runs -> 1..NumBatches + 1] /\ tries' \in [Runs -> 0..MaxTries - 1]
                 /\ errors' \in [Runs -> BOOLEAN]
      BY <3>1, <2>1, <2>3 DEF NextBatch, TypeOK
    <3>2. CASE NextBatch(r, ~Changes(r)) \/ NextBatch(r, TRUE)
      BY <3>1, <3>2 DEF Changes
    <3>3. CASE /\ tries[r] + 1 < MaxTries
               /\ tries' = [tries EXCEPT ![r] = @ + 1]
               /\ UNCHANGED <<batch, errors>>
      BY <3>3, <2>3 DEF TypeOK
    <3> QED
      BY <1>5, <3>2, <3>3 DEF Write
  <2> QED
    BY <1>5, <2>2, <2>4 DEF Write, TypeOK
<1>6. ASSUME NEW r \in Runs, Finish(r)
      PROVE  TypeOK'
  BY <1>6, PersistType DEF Finish, Outcome, Statuses, Places, Busy
<1>7. ASSUME NEW r \in Runs, Fail(r)
      PROVE  TypeOK'
  BY <1>7, PersistType DEF Fail, Statuses, Places, Busy
<1>8. ASSUME NEW r \in Runs, Free(r)
      PROVE  TypeOK'
  <2>1. pc' \in [Runs -> Places]
    BY <1>8, GoType DEF Free, TypeOK, Places
  <2> QED
    BY <2>1, <1>8 DEF Free, TypeOK
<1>9. CASE ClearDocument
  <2>1. document' \in [Jobs -> Records \cup {None}]
    BY <1>9 DEF ClearDocument, TypeOK
  <2>2. clearing' \in Nat
    BY <1>9 DEF ClearDocument, TypeOK
  <2> QED
    BY <2>1, <2>2, <1>9 DEF ClearDocument, TypeOK
<1>10. CASE ResetFlag
  <2>1. clearing' \in Nat /\ resets' \in Nat
    BY <1>10 DEF ResetFlag, TypeOK
  <2>2. running' \in [Services -> BOOLEAN]
    BY <1>10 DEF ResetFlag, TypeOK
  <2> QED
    BY <2>1, <2>2, <1>10 DEF ResetFlag, TypeOK
<1>11. CASE Crash
  <2>1. pc' \in [Runs -> Places]
    BY <1>11 DEF Crash, TypeOK, Places
  <2> QED
    BY <2>1, <1>11 DEF Crash, TypeOK
<1>12. CASE UNCHANGED vars
  BY <1>12 DEF vars, TypeOK
<1> QED
  BY <1>1, <1>2, <1>3, <1>4, <1>5, <1>6, <1>7, <1>8, <1>9, <1>10, <1>11, <1>12 DEF Next, Step
-----------------------------------------------------------------------------
(* The number of runs at work.                                              *)

LEMMA Sizes ==
  ASSUME TypeOK, NEW s \in Services
  PROVE  /\ IsFiniteSet(Going(s)) /\ Cardinality(Going(s)) \in Nat
         /\ IsFiniteSet(ForcedOn(s)) /\ Cardinality(ForcedOn(s)) \in Nat
         /\ Excuses(s) \in Nat
<1>1. Going(s) \in SUBSET Runs /\ ForcedOn(s) \in SUBSET Runs
  BY DEF Going, ForcedOn, TypeOK
<1>2. IsFiniteSet(Going(s)) /\ IsFiniteSet(ForcedOn(s))
  BY <1>1, SyncAssumption, FS_Subset
<1>3. Cardinality(Going(s)) \in Nat /\ Cardinality(ForcedOn(s)) \in Nat
  BY <1>2, FS_CardinalityType
<1> QED
  BY <1>2, <1>3 DEF Excuses, TypeOK

\* A step that starts no run and leaves the flags alone keeps the count.
LEMMA FewerGoing ==
  ASSUME TypeOK, Counted, UNCHANGED <<running, forced, resets>>,
         \A r \in Runs : pc'[r] # pc[r] => pc[r] # "new" /\ pc'[r] # "new",
         \A r \in Runs : pc'[r] \in Busy => pc[r] \in Busy
  PROVE  Counted'
<1>1. \A r \in forced' : pc'[r] # "new"
  BY DEF Counted, TypeOK
<1>2. ASSUME NEW s \in Services
      PROVE  Cardinality(Going(s)') <= Cardinality(Going(s)) /\ Excuses(s)' = Excuses(s)
  <2>1. Going(s)' \in SUBSET Going(s)
    BY DEF Going
  <2> QED
    BY <2>1, Sizes, FS_Subset DEF Excuses, ForcedOn
<1>3. ASSUME NEW s \in Services
      PROVE  Cardinality(Going(s)') <= IF running'[s] THEN 1 + Excuses(s)' ELSE Excuses(s)'
  <2>1. Cardinality(Going(s)') \in Nat
    <3>1. Going(s)' \in SUBSET Runs
      BY DEF Going
    <3> QED
      BY <3>1, SyncAssumption, FS_Subset, FS_CardinalityType
  <2> QED
    BY <1>2, <2>1, Sizes DEF Counted
<1> QED
  BY <1>1, <1>3 DEF Counted

LEMMA ClaimCounted ==
  ASSUME TypeOK, Counted, NEW r \in Runs, NEW force \in BOOLEAN, Claim(r, force)
  PROVE  Counted'
<1>1. /\ pc[r] = "new" /\ pc' = [pc EXCEPT ![r] = "claimed"] /\ r \notin forced
      /\ ServiceOf[r] \in Services /\ resets' = resets
      /\ running' = [running EXCEPT ![ServiceOf[r]] = TRUE]
      /\ running[ServiceOf[r]] => force
      /\ forced' = IF force THEN forced \cup {r} ELSE forced
  BY SyncAssumption DEF Claim, Call, Go, Counted, outside
<1>2. \A p \in forced' : pc'[p] # "new"
  BY <1>1 DEF Counted, TypeOK
<1>3. ASSUME NEW s \in Services
      PROVE  Cardinality(Going(s)') <= IF running'[s] THEN 1 + Excuses(s)' ELSE Excuses(s)'
  <2>1. CASE s # ServiceOf[r]
    <3>1. Going(s)' = Going(s) /\ ForcedOn(s)' = ForcedOn(s) /\ running'[s] = running[s]
      BY <1>1, <2>1 DEF Going, ForcedOn, Busy, TypeOK
    <3> QED
      BY <1>1, <3>1 DEF Counted, Excuses
  <2>2. CASE s = ServiceOf[r]
    <3>1. Going(s)' = Going(s) \cup {r} /\ running'[s]
      BY <1>1, <2>2 DEF Going, Busy, TypeOK
    <3>2. r \notin Going(s)
      BY <1>1 DEF Going, Busy
    <3>3. Cardinality(Going(s)') = Cardinality(Going(s)) + 1
      BY <3>1, <3>2, Sizes, FS_AddElement
    <3>4. CASE force
      <4>1. ForcedOn(s)' = ForcedOn(s) \cup {r} /\ r \notin ForcedOn(s)
        BY <1>1, <2>2, <3>4 DEF ForcedOn
      <4>2. Cardinality(ForcedOn(s)') = Cardinality(ForcedOn(s)) + 1
        BY <4>1, Sizes, FS_AddElement
      <4>3. Excuses(s)' = Excuses(s) + 1
        BY <4>2, <1>1, Sizes DEF Excuses, TypeOK
      <4> QED
        BY <3>1, <3>3, <4>3, Sizes DEF Counted
    <3>5. CASE ~force
      <4>1. ForcedOn(s)' = ForcedOn(s) /\ ~running[s]
        BY <1>1, <2>2, <3>5 DEF ForcedOn
      <4>2. Excuses(s)' = Excuses(s)
        BY <4>1, <1>1 DEF Excuses
      <4> QED
        BY <3>1, <3>3, <4>1, <4>2, Sizes DEF Counted
    <3> QED
      BY <3>4, <3>5
  <2> QED
    BY <2>1, <2>2
<1> QED
  BY <1>2, <1>3 DEF Counted

LEMMA FreeCounted ==
  ASSUME TypeOK, Counted, NEW r \in Runs, Free(r)
  PROVE  Counted'
<1>1. /\ pc[r] = "freeing" /\ pc' = [pc EXCEPT ![r] = "ended"]
      /\ ServiceOf[r] \in Services /\ resets' = resets /\ forced' = forced
      /\ running' = [running EXCEPT ![ServiceOf[r]] = FALSE]
  BY SyncAssumption DEF Free, Go, of_run, outside
<1>2. \A p \in forced' : pc'[p] # "new"
  BY <1>1 DEF Counted, TypeOK
<1>3. ASSUME NEW s \in Services
      PROVE  Cardinality(Going(s)') <= IF running'[s] THEN 1 + Excuses(s)' ELSE Excuses(s)'
  <2>1. Excuses(s)' = Excuses(s)
    BY <1>1 DEF Excuses, ForcedOn
  <2>2. CASE s # ServiceOf[r]
    <3>1. Going(s)' = Going(s) /\ running'[s] = running[s]
      BY <1>1, <2>2 DEF Going, Busy, TypeOK
    <3> QED
      BY <2>1, <3>1 DEF Counted
  <2>3. CASE s = ServiceOf[r]
    <3>1. Going(s)' = Going(s) \ {r} /\ r \in Going(s) /\ ~running'[s]
      BY <1>1, <2>3 DEF Going, Busy, TypeOK
    <3>2. Cardinality(Going(s)') = Cardinality(Going(s)) - 1
      BY <3>1, Sizes, FS_RemoveElement
    <3> QED
      BY <2>1, <3>1, <3>2, Sizes DEF Counted
  <2> QED
    BY <2>2, <2>3
<1> QED
  BY <1>2, <1>3 DEF Counted

LEMMA ResetCounted ==
  ASSUME TypeOK, Counted, ResetFlag
  PROVE  Counted'
<1>1. /\ pc' = pc /\ forced' = forced /\ resets' = resets + 1 /\ resets \in Nat
      /\ running' = [running EXCEPT ![Shared] = FALSE]
  BY DEF ResetFlag, of_run, TypeOK
<1>2. ASSUME NEW s \in Services
      PROVE  Cardinality(Going(s)') <= IF running'[s] THEN 1 + Excuses(s)' ELSE Excuses(s)'
  <2>1. Going(s)' = Going(s) /\ ForcedOn(s)' = ForcedOn(s)
    BY <1>1 DEF Going, ForcedOn
  <2>2. CASE s = Shared
    <3>1. Excuses(s)' = Excuses(s) + 1 /\ ~running'[s]
      BY <1>1, <2>1, <2>2, Sizes DEF Excuses, TypeOK
    <3> QED
      BY <2>1, <3>1, Sizes DEF Counted
  <2>3. CASE s # Shared
    <3>1. Excuses(s)' = Excuses(s) /\ running'[s] = running[s]
      BY <1>1, <2>1, <2>3 DEF Excuses, TypeOK
    <3> QED
      BY <2>1, <3>1 DEF Counted
  <2> QED
    BY <2>2, <2>3
<1> QED
  BY <1>1, <1>2 DEF Counted

LEMMA CrashCounted ==
  ASSUME TypeOK, Counted, Crash
  PROVE  Counted'
<1>1. \A r \in Runs : pc'[r] \notin Busy /\ (pc[r] # "new" => pc'[r] # "new")
  BY DEF Crash, Busy, TypeOK
<1>2. forced' = forced /\ resets' = resets
  BY DEF Crash, of_run
<1>3. ASSUME NEW s \in Services
      PROVE  Cardinality(Going(s)') = 0 /\ Excuses(s)' \in Nat /\ ~running'[s]
  <2>1. Going(s)' = {}
    BY <1>1 DEF Going
  <2> QED
    BY <2>1, <1>2, FS_EmptySet, Sizes DEF Excuses, ForcedOn, Crash
<1>4. \A r \in forced' : pc'[r] # "new"
  BY <1>1, <1>2 DEF Counted, TypeOK
<1> QED
  BY <1>3, <1>4 DEF Counted

LEMMA NextCounted ==
  ASSUME TypeOK, Counted, [Next]_vars
  PROVE  Counted'
<1> USE DEF of_run, shared, outside
<1>1. ASSUME NEW r \in Runs, Start(r)
      PROVE  Counted'
  <2>1. CASE Skip(r)
    <3>1. /\ UNCHANGED <<running, forced, resets>> /\ pc[r] = "new"
          /\ \A p \in Runs : pc'[p] = pc[p] \/ (p = r /\ pc'[p] \in {"asking", "skipped"})
      BY <2>1 DEF Skip, Call, Go, TypeOK
    <3>2. ASSUME NEW s \in Services PROVE Going(s)' = Going(s)
      BY <3>1 DEF Going, Busy
    <3> QED
      BY <3>1, <3>2 DEF Counted, Excuses, ForcedOn, TypeOK
  <2> QED
    BY <1>1, <2>1, StartCases, ClaimCounted
<1>2. ASSUME NEW r \in Runs, Answer(r) \/ Announce(r) \/ Fetch(r) \/ Write(r) \/ Finish(r) \/ Fail(r)
      PROVE  Counted'
  <2>1. UNCHANGED <<running, forced, resets>>
    BY <1>2 DEF Answer, Announce, Fetch, Write, Finish, Fail, Persist
  <2>2. /\ \A p \in Runs : p # r => pc'[p] = pc[p]
        /\ pc'[r] # pc[r] => pc[r] # "new" /\ pc'[r] # "new"
        /\ pc'[r] \in Busy => pc[r] \in Busy
    <3>1. CASE Answer(r)
      BY <3>1 DEF Answer, Go, Busy, TypeOK
    <3>2. CASE Announce(r) \/ Finish(r) \/ Fail(r)
      BY <3>2 DEF Announce, Finish, Fail, Persist, Go, Busy, TypeOK
    <3>3. CASE Fetch(r) \/ Write(r)
      BY <3>3 DEF Fetch, Write, Go, Busy, TypeOK
    <3> QED
      BY <1>2, <3>1, <3>2, <3>3
  <2> QED
    BY <2>1, <2>2, FewerGoing
<1>3. ASSUME NEW r \in Runs, Free(r)
      PROVE  Counted'
  BY <1>3, FreeCounted
<1>4. CASE ResetFlag
  BY <1>4, ResetCounted
<1>5. CASE Crash
  BY <1>5, CrashCounted
<1>6. CASE ClearDocument \/ UNCHANGED vars
  <2>1. UNCHANGED <<running, forced, resets, pc>>
    BY <1>6 DEF ClearDocument, vars
  <2> QED
    BY <2>1, FewerGoing
<1> QED
  BY <1>1, <1>2, <1>3, <1>4, <1>5, <1>6 DEF Next, Step
-----------------------------------------------------------------------------
(* What is stored.                                                          *)

\* The last status of a run: success is earned, and the document gets it.
LEMMA PersistStored ==
  ASSUME TypeOK, Stored, NEW r \in Runs, NEW result \in Statuses,
         NEW place, NEW other, Persist(r, result, place, other),
         result = "success" => wrote[r] = Batches,
         place \notin {"new", "claimed", "fetching"} \/ pc[r] = "claimed",
         other \notin {"new", "claimed", "fetching"}
  PROVE  Stored'
<1>1. /\ status' = [status EXCEPT ![r] = result] /\ status'[r] = result
      /\ pc' = [pc EXCEPT ![r] = place] \/ pc' = [pc EXCEPT ![r] = other]
      /\ wrote' = wrote /\ batch' = batch /\ errors' = errors
      /\ document' = document \/ document' = [document EXCEPT ![Mine(r)] = [run |-> r, status |-> result]]
  BY DEF Persist, Store, Go, of_run, TypeOK
<1>2. BatchesStored'
  BY <1>1 DEF Stored, BatchesStored, TypeOK
<1>3. SuccessEarned'
  BY <1>1 DEF Stored, SuccessEarned, TypeOK
<1>4. SuccessIsComplete'
  <2> SUFFICES ASSUME NEW j \in Jobs, document'[j] # None, document'[j].status = "success"
               PROVE  wrote'[document'[j].run] = Batches
    BY DEF SuccessIsComplete, Says
  <2>1. CASE document'[j] = document[j]
    BY <2>1, <1>1 DEF Stored, SuccessIsComplete, Says
  <2>2. CASE document'[j] # document[j]
    BY <2>2, <1>1 DEF TypeOK
  <2> QED
    BY <2>1, <2>2
<1> QED
  BY <1>2, <1>3, <1>4 DEF Stored

LEMMA WriteStored ==
  ASSUME TypeOK, Stored, NEW r \in Runs, Write(r)
  PROVE  Stored'
<1>1. /\ pc[r] = "writing" /\ pc' = pc /\ status' = status /\ document' = document
      /\ batch[r] \in Batches
  BY SyncAssumption DEF Write, TypeOK, Batches
<1>2. \A p \in Runs : wrote[p] \subseteq wrote'[p] /\ wrote'[p] \subseteq Batches
  <2>1. Apply(r) \/ wrote' = wrote
    BY DEF Write
  <2>2. wrote \in [Runs -> SUBSET Batches] /\ wrote[r] \cup {batch[r]} \subseteq Batches
    BY <1>1 DEF TypeOK
  <2>3. CASE Apply(r)
    BY <2>2, <2>3 DEF Apply
  <2> QED
    BY <2>1, <2>2, <2>3
<1>3. \A p \in Runs : p # r => batch'[p] = batch[p] /\ errors'[p] = errors[p]
  BY DEF Write, NextBatch, TypeOK
<1>4. ~errors'[r] => ~errors[r] /\ (batch'[r] = batch[r] \/ (batch'[r] = batch[r] + 1 /\ batch[r] \in wrote'[r]))
  <2>1. ASSUME Apply(r), NextBatch(r, ~Changes(r))
        PROVE  /\ batch'[r] = batch[r] + 1 /\ batch[r] \in wrote'[r]
               /\ ~errors'[r] => ~errors[r]
    BY <2>1 DEF Apply, NextBatch, TypeOK
  <2>2. ASSUME NextBatch(r, TRUE)
        PROVE  errors'[r]
    BY <2>2 DEF NextBatch, TypeOK
  <2> QED
    BY <2>1, <2>2 DEF Write
<1>5. BatchesStored'
  <2> SUFFICES ASSUME NEW p \in Runs
               PROVE  /\ pc[p] \in {"new", "claimed", "fetching"} => batch'[p] = 1
                      /\ ~errors'[p] => \A b \in Batches : b < batch'[p] => b \in wrote'[p]
    BY <1>1 DEF BatchesStored
  <2>1. CASE p # r
    BY <2>1, <1>2, <1>3 DEF Stored, BatchesStored
  <2>2. CASE p = r
    <3>1. ~errors[r] => \A b \in Batches : b < batch[r] => b \in wrote[r]
      BY DEF Stored, BatchesStored
    <3>2. ASSUME ~errors'[r], NEW b \in Batches, b < batch'[r]
          PROVE  b \in wrote'[r]
      <4>1. b \in Nat /\ batch[r] \in Nat
        BY <1>1, SyncAssumption DEF Batches
      <4>2. b < batch[r] \/ (b = batch[r] /\ batch[r] \in wrote'[r])
        BY <4>1, <1>4, <3>2
      <4> QED
        BY <4>2, <3>1, <3>2, <1>2, <1>4
    <3> QED
      BY <2>2, <1>1, <3>2
  <2> QED
    BY <2>1, <2>2
<1>6. SuccessEarned'
  BY <1>1, <1>2 DEF Stored, SuccessEarned
<1>7. SuccessIsComplete'
  <2> SUFFICES ASSUME NEW j \in Jobs, document[j] # None, document[j].status = "success"
               PROVE  wrote'[document[j].run] = Batches
    BY <1>1 DEF SuccessIsComplete, Says
  <2>1. document[j].run \in Runs
    BY DEF TypeOK, Records
  <2> QED
    BY <2>1, <1>2 DEF Stored, SuccessIsComplete, Says
<1> QED
  BY <1>5, <1>6, <1>7 DEF Stored

LEMMA NextStored ==
  ASSUME TypeOK, Stored, [Next]_vars
  PROVE  Stored'
<1> USE DEF of_run, shared, outside
<1>1. ASSUME NEW r \in Runs, Start(r) \/ Answer(r) \/ Free(r)
      PROVE  Stored'
  <2>1. UNCHANGED <<document, status, wrote, batch, errors>>
    <3>1. ASSUME NEW force \in BOOLEAN, Claim(r, force)
          PROVE  UNCHANGED <<document, status, wrote, batch, errors>>
      BY <3>1 DEF Claim, Call
    <3>2. CASE Skip(r) \/ Answer(r) \/ Free(r)
      BY <3>2 DEF Skip, Call, Answer, Free
    <3> QED
      BY <1>1, <3>1, <3>2, StartCases
  <2>2. \A p \in Runs : pc'[p] \in {"new", "claimed", "fetching"} => pc[p] \in {"new", "claimed", "fetching"}
    <3>1. ASSUME NEW force \in BOOLEAN, Claim(r, force)
          PROVE  \A p \in Runs : pc'[p] \in {"new", "claimed", "fetching"} => pc[p] \in {"new", "claimed", "fetching"}
      BY <3>1 DEF Claim, Call, Go, TypeOK
    <3>2. CASE Skip(r) \/ Answer(r) \/ Free(r)
      BY <3>2 DEF Skip, Answer, Free, Go, TypeOK
    <3> QED
      BY <1>1, <3>1, <3>2, StartCases
  <2> QED
    BY <2>1, <2>2 DEF Stored, BatchesStored, SuccessEarned, SuccessIsComplete, Says
<1>2. ASSUME NEW r \in Runs, Announce(r)
      PROVE  Stored'
  BY <1>2, PersistStored DEF Announce, Statuses
<1>3. ASSUME NEW r \in Runs, Fetch(r)
      PROVE  Stored'
  <2>1. UNCHANGED <<document, status, wrote, batch>> /\ pc[r] = "fetching"
    BY <1>3 DEF Fetch
  <2>2. /\ \A p \in Runs : p # r => pc'[p] = pc[p] /\ errors'[p] = errors[p]
        /\ pc'[r] \in {"writing", "failing"}
    BY <1>3, FetchCases DEF Go, TypeOK
  <2>3. batch[r] = 1
    BY <2>1 DEF Stored, BatchesStored
  <2>4. BatchesStored'
    BY <2>1, <2>2, <2>3 DEF Stored, BatchesStored, Batches
  <2> QED
    BY <2>1, <2>4 DEF Stored, SuccessEarned, SuccessIsComplete, Says
<1>4. ASSUME NEW r \in Runs, Write(r)
      PROVE  Stored'
  BY <1>4, WriteStored
<1>5. ASSUME NEW r \in Runs, Finish(r)
      PROVE  Stored'
  <2>1. Outcome(r) = "success" => wrote[r] = Batches
    <3>1. wrote[r] \subseteq Batches /\ NumBatches \in Nat /\ batch[r] \in Nat
      BY SyncAssumption DEF TypeOK
    <3>2. \A b \in Batches : b < batch[r]
      BY <1>5, <3>1 DEF Finish, Batches
    <3> QED
      BY <3>1, <3>2 DEF Outcome, Stored, BatchesStored
  <2>2. Outcome(r) \in Statuses
    BY DEF Outcome, Statuses
  <2> QED
    BY <1>5, <2>1, <2>2, PersistStored DEF Finish
<1>6. ASSUME NEW r \in Runs, Fail(r)
      PROVE  Stored'
  BY <1>6, PersistStored DEF Fail, Statuses
<1>7. CASE ClearDocument
  BY <1>7 DEF ClearDocument, Stored, BatchesStored, SuccessEarned, SuccessIsComplete, Says, TypeOK
<1>8. CASE ResetFlag \/ UNCHANGED vars
  BY <1>8 DEF ResetFlag, vars, Stored, BatchesStored, SuccessEarned, SuccessIsComplete, Says
<1>9. CASE Crash
  <2>1. \A p \in Runs : pc'[p] \in {"new", "claimed", "fetching"} => pc[p] \in {"new", "claimed", "fetching"}
    BY <1>9 DEF Crash, TypeOK
  <2> QED
    BY <2>1, <1>9 DEF Crash, Stored, BatchesStored, SuccessEarned, SuccessIsComplete, Says
<1> QED
  BY <1>1, <1>2, <1>3, <1>4, <1>5, <1>6, <1>7, <1>8, <1>9 DEF Next, Step
-----------------------------------------------------------------------------
(* What the document tells.                                                 *)

LEMMA MineIsJob == \A r \in Runs : Mine(r) \in Jobs
  BY SyncAssumption DEF Mine

LEMMA PersistTold ==
  ASSUME TypeOK, Told, NEW r \in Runs, NEW result \in Statuses,
         NEW place \in Busy, NEW other \in Busy \cup {"raised"},
         Persist(r, result, place, other),
         place = "freeing" => result # "running",
         other = "freeing" => result = "failed"
  PROVE  Told'
<1>1. /\ status' = [status EXCEPT ![r] = result] /\ status'[r] = result
      /\ \/ /\ pc' = [pc EXCEPT ![r] = place]
            /\ document' = [document EXCEPT ![Mine(r)] = [run |-> r, status |-> result]]
         \/ /\ pc' = [pc EXCEPT ![r] = other]
            /\ \/ document' = document
               \/ document' = [document EXCEPT ![Mine(r)] = [run |-> r, status |-> result]]
  BY DEF Persist, Store, Go, TypeOK
<1>2. /\ \A j \in Jobs : \/ document'[j] = document[j]
                         \/ j = Mine(r) /\ document'[j] = [run |-> r, status |-> result]
      /\ \A p \in Runs : p # r => pc'[p] = pc[p] /\ status'[p] = status[p]
      /\ pc'[r] \in Busy \cup {"raised"}
  BY <1>1, MineIsJob DEF TypeOK
<1>3. OwnDocument'
  BY <1>2 DEF Told, OwnDocument, Mine
<1>4. Replaced'
  <2> SUFFICES ASSUME NEW p \in Runs, pc'[p] = "freeing", status'[p] # "failed"
               PROVE  document'[Mine(p)] # [run |-> p, status |-> "running"]
    BY DEF Replaced, Mine
  <2>1. CASE p # r
    BY <2>1, <1>2, MineIsJob DEF Told, Replaced
  <2>2. CASE p = r
    <3>1. document' = [document EXCEPT ![Mine(r)] = [run |-> r, status |-> result]] /\ result # "running"
      BY <1>1, <2>2 DEF TypeOK
    <3> QED
      BY <3>1, <2>2, MineIsJob DEF TypeOK
  <2> QED
    BY <2>1, <2>2
<1>5. RunningIsTrue'
  <2> SUFFICES ASSUME NEW j \in Jobs, document'[j] # None, document'[j].status = "running"
               PROVE  \/ pc'[document'[j].run] \in Busy \cup {"killed", "raised"}
                      \/ pc'[document'[j].run] = "ended" /\ status'[document'[j].run] = "failed"
    BY DEF RunningIsTrue, Says
  <2>1. CASE document'[j] = document[j]
    <3>1. document[j].run \in Runs
      BY <2>1 DEF TypeOK, Records
    <3> QED
      BY <2>1, <3>1, <1>2 DEF Told, RunningIsTrue, Says
  <2>2. CASE document'[j] = [run |-> r, status |-> result]
    BY <2>2, <1>2
  <2> QED
    BY <2>1, <2>2, <1>2
<1> QED
  BY <1>3, <1>4, <1>5 DEF Told

LEMMA FreeTold ==
  ASSUME TypeOK, Told, NEW r \in Runs, Free(r)
  PROVE  Told'
<1>1. /\ pc[r] = "freeing" /\ document' = document /\ status' = status
      /\ \A p \in Runs : p # r => pc'[p] = pc[p]
      /\ pc'[r] = "ended"
  BY DEF Free, Go, TypeOK
<1>2. RunningIsTrue'
  <2> SUFFICES ASSUME NEW j \in Jobs, document[j] # None, document[j].status = "running"
               PROVE  \/ pc'[document[j].run] \in Busy \cup {"killed", "raised"}
                      \/ pc'[document[j].run] = "ended" /\ status[document[j].run] = "failed"
    BY <1>1 DEF RunningIsTrue, Says
  <2>1. document[j] \in Records /\ document[j].run \in Runs
    BY DEF TypeOK, Records
  <2>2. CASE document[j].run # r
    BY <2>1, <2>2, <1>1 DEF Told, RunningIsTrue, Says
  <2>3. CASE document[j].run = r
    <3>1. j = Mine(r) /\ document[Mine(r)] = [run |-> r, status |-> "running"]
      BY <2>1, <2>3 DEF Told, OwnDocument, Records
    <3> QED
      BY <3>1, <2>3, <1>1 DEF Told, Replaced
  <2> QED
    BY <2>2, <2>3
<1>3. OwnDocument' /\ Replaced'
  BY <1>1 DEF Told, OwnDocument, Replaced, Mine
<1> QED
  BY <1>2, <1>3 DEF Told

\* A step that writes neither a document nor a status, and moves only runs
\* that still go to where they may be when the document says "running".
LEMMA QuietTold ==
  ASSUME TypeOK, Told, UNCHANGED <<document, status>>,
         \A p \in Runs : pc[p] \in Busy => pc'[p] \in Busy \cup {"killed"},
         \A p \in Runs : pc[p] \in {"raised", "ended", "killed"} => pc'[p] = pc[p],
         \A p \in Runs : pc'[p] = "freeing" => pc[p] = "freeing"
  PROVE  Told'
<1>1. OwnDocument' /\ Replaced'
  BY DEF Told, OwnDocument, Replaced, Mine
<1>2. \A j \in Jobs : document[j] # None => document[j].run \in Runs
  BY DEF TypeOK, Records
<1>3. RunningIsTrue'
  BY <1>2 DEF Told, RunningIsTrue, Says
<1> QED
  BY <1>1, <1>3 DEF Told

LEMMA NextTold ==
  ASSUME TypeOK, Told, [Next]_vars
  PROVE  Told'
<1> USE DEF of_run, shared, outside
<1>1. ASSUME NEW r \in Runs, Start(r) \/ Answer(r)
      PROVE  Told'
  <2>1. ASSUME NEW force \in BOOLEAN, Claim(r, force)
        PROVE  /\ UNCHANGED <<document, status>> /\ pc[r] = "new" /\ Go(r, "claimed")
    BY <2>1 DEF Claim, Call
  <2>2. CASE Skip(r)
    BY <2>2, QuietTold DEF Skip, Call, Go, TypeOK, Busy
  <2>3. CASE Answer(r)
    BY <2>3, QuietTold DEF Answer, Go, TypeOK, Busy
  <2>4. CASE \E force \in BOOLEAN : Claim(r, force)
    <3>1. UNCHANGED <<document, status>> /\ pc[r] = "new" /\ Go(r, "claimed")
      BY <2>1, <2>4
    <3> QED
      BY <3>1, QuietTold DEF Go, TypeOK, Busy
  <2> QED
    BY <1>1, <2>2, <2>3, <2>4, StartCases
<1>2. ASSUME NEW r \in Runs, Announce(r)
      PROVE  Told'
  BY <1>2, PersistTold DEF Announce, Statuses, Busy
<1>3. ASSUME NEW r \in Runs, Fetch(r) \/ Write(r)
      PROVE  Told'
  <2>1. /\ UNCHANGED <<document, status>>
        /\ \A p \in Runs : pc'[p] = pc[p] \/ (pc[p] = "fetching" /\ pc'[p] \in {"writing", "failing"})
    BY <1>3 DEF Fetch, Write, Go, TypeOK
  <2> QED
    BY <2>1, QuietTold DEF Busy
<1>4. ASSUME NEW r \in Runs, Finish(r)
      PROVE  Told'
  <2>1. Outcome(r) \in Statuses /\ Outcome(r) # "running"
    BY DEF Outcome, Statuses
  <2> QED
    BY <1>4, <2>1, PersistTold DEF Finish, Busy
<1>5. ASSUME NEW r \in Runs, Fail(r)
      PROVE  Told'
  BY <1>5, PersistTold DEF Fail, Statuses, Busy
<1>6. ASSUME NEW r \in Runs, Free(r)
      PROVE  Told'
  BY <1>6, FreeTold
<1>7. CASE ClearDocument
  <2>1. /\ UNCHANGED <<pc, status>>
        /\ \A j \in Jobs : document'[j] = document[j] \/ document'[j] = None
    BY <1>7 DEF ClearDocument, TypeOK
  <2>2. \A p \in Runs : None # [run |-> p, status |-> "running"]
    <3>1. \A p \in Runs : [run |-> p, status |-> "running"] \in Records
      BY DEF Records, Statuses
    <3> QED
      BY <3>1, SyncAssumption
  <2>3. OwnDocument' /\ RunningIsTrue'
    BY <2>1 DEF Told, OwnDocument, RunningIsTrue, Mine, Says
  <2>4. Replaced'
    BY <2>1, <2>2, MineIsJob DEF Told, Replaced, Mine
  <2> QED
    BY <2>3, <2>4 DEF Told
<1>8. CASE ResetFlag \/ UNCHANGED vars
  BY <1>8, QuietTold DEF ResetFlag, vars, Busy
<1>9. CASE Crash
  BY <1>9, QuietTold DEF Crash, Busy, TypeOK
<1> QED
  BY <1>1, <1>2, <1>3, <1>4, <1>5, <1>6, <1>7, <1>8, <1>9 DEF Next, Step
-----------------------------------------------------------------------------
(* The invariant holds in every reachable state, and with it the three      *)
(* properties.                                                              *)

THEOREM Inductive == Spec => []IInv
<1>1. Init => IInv
  BY InitInv
<1>2. IInv /\ [Next]_vars => IInv'
  BY NextType, NextCounted, NextStored, NextTold DEF IInv
<1> QED
  BY <1>1, <1>2, PTL DEF Spec

(* Every variable keeps its type.                                           *)
THEOREM TypeCorrect == Spec => []TypeOK
<1>1. IInv => TypeOK
  BY DEF IInv
<1> QED
  BY <1>1, Inductive, PTL

(* Never more runs are at work on a service than one, one for each forced   *)
(* call and one for each reset of its flag.                                 *)
THEOREM RunsAreBounded == Spec => []RunsBounded
<1>1. ASSUME IInv PROVE RunsBounded
  <2> SUFFICES ASSUME NEW s \in Services
               PROVE  Cardinality(Going(s)) <= 1 + Cardinality(ForcedOn(s))
                                               + (IF s = Shared THEN resets ELSE 0)
    BY DEF RunsBounded
  <2>1. TypeOK /\ Cardinality(Going(s)) <= IF running[s] THEN 1 + Excuses(s) ELSE Excuses(s)
    BY <1>1 DEF IInv, Counted
  <2>2. /\ Cardinality(Going(s)) \in Nat /\ Cardinality(ForcedOn(s)) \in Nat
        /\ Excuses(s) \in Nat /\ resets \in Nat
    BY <2>1, Sizes DEF TypeOK
  <2> QED
    BY <2>1, <2>2 DEF Excuses
<1> QED
  BY <1>1, Inductive, PTL

(* The document says "success" only of a run that stored every batch.       *)
THEOREM SuccessesComplete == Spec => []SuccessIsComplete
<1>1. IInv => SuccessIsComplete
  BY DEF IInv, Stored
<1> QED
  BY <1>1, Inductive, PTL

(* The document says "running" only of a run that goes or could not say     *)
(* how it ended.                                                            *)
THEOREM RunningTold == Spec => []RunningIsTrue
<1>1. IInv => RunningIsTrue
  BY DEF IInv, Told
<1> QED
  BY <1>1, Inductive, PTL
=============================================================================
