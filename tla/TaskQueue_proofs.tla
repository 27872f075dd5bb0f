--------------------------- MODULE TaskQueue_proofs ---------------------------
(***************************************************************************)
(* For every number of tasks, users and workers, every limit, and every    *)
(* number of deaths and cancels: how far a user's limit can be overrun, who *)
(* holds the slots, what batches list, and that a task is neither lost nor  *)
(* delivered twice.  A worker between the check and the mark is counted     *)
(* with the slots, because its slot is as good as taken.                    *)
(***************************************************************************)
EXTENDS TaskQueue, FiniteSetTheorems, SequenceTheorems, TLAPS

(* A worker is at a place with a task, and so is a client.                  *)
WorkersShaped ==
  /\ worker = [w \in Workers |-> worker[w]]
  /\ \A w \in Workers : worker[w] = [at |-> worker[w].at, task |-> worker[w].task]
ClientShaped ==
  client \in [at : ClientPlaces, task : Tasks \cup {NoTask}, rest : SUBSET Tasks]

(* Workers that will take a slot of u next.                                 *)
Checked(u) == {w \in Workers : worker[w].at = "markUser" /\ Owner[worker[w].task] = u}

RoomKept ==
  /\ IsFiniteSet(userSlots)
  /\ \A u \in Users : Cardinality(SlotsOf(u)) + Cardinality(Checked(u))
                        < UserLimit + Cardinality(Workers)

(* A call that is about to list a task holds it as one of its batch.        *)
ListingAhead ==
  /\ unlisted \subseteq Tasks
  /\ \A t \in unlisted :
       \/ t \in disturbed
       \/ client.task = t /\ t \in client.rest /\ client.at \in {"push", "list"}

IInv == WorkersShaped /\ ClientShaped /\ RoomKept /\ SlotsHaveHolders /\ ListingAhead

(* Steps that give nobody a slot, and take none from a holder.              *)
NoNewSlots ==
  /\ userSlots' \subseteq userSlots
  /\ \A u \in Users : Checked(u)' \subseteq Checked(u)
-----------------------------------------------------------------------------


LEMMA InitInv == Init => IInv
<1> SUFFICES ASSUME Init PROVE IInv
  OBVIOUS
<1>1. WorkersShaped
  BY DEF Init, Idle, WorkersShaped
<1>2. ClientShaped
  BY DEF Init, NoCall, ClientShaped, ClientPlaces
<1>3. RoomKept
  <2>1. IsFiniteSet(userSlots)
    BY FS_EmptySet DEF Init
  <2>2. ASSUME NEW u \in Users
        PROVE  SlotsOf(u) = {} /\ Checked(u) = {}
    BY DEF Init, SlotsOf, Checked, Idle
  <2>3. 0 < UserLimit + Cardinality(Workers)
    BY LimitsAssumption, WorkersAssumption, FS_CardinalityType
  <2> QED
    BY <2>1, <2>2, <2>3, FS_EmptySet DEF RoomKept
<1>4. SlotsHaveHolders
  BY DEF Init, SlotsHaveHolders
<1>5. ListingAhead
  BY DEF Init, ListingAhead
<1> QED
  BY <1>1, <1>2, <1>3, <1>4, <1>5 DEF IInv

-----------------------------------------------------------------------------
(* A step of one worker leaves the others where they are.                   *)
LEMMA WorkerMoves ==
  ASSUME WorkersShaped, NEW w \in Workers, NEW place, place # "idle", WorkerGo(w, place)
  PROVE  /\ worker' = [worker EXCEPT ![w] = [at |-> place, task |-> worker[w].task]]
         /\ WorkersShaped'
<1>1. worker' = [worker EXCEPT ![w] = [at |-> place, task |-> worker[w].task]]
  <2>1. worker[w] = [at |-> worker[w].at, task |-> worker[w].task]
    BY DEF WorkersShaped
  <2>2. [worker[w] EXCEPT !.at = place] = [at |-> place, task |-> worker[w].task]
    BY <2>1
  <2> QED
    BY <2>2 DEF WorkerGo
<1>2. WorkersShaped'
  BY <1>1 DEF WorkersShaped
<1> QED
  BY <1>1, <1>2

LEMMA WorkerRests ==
  ASSUME WorkersShaped, NEW w \in Workers, WorkerGo(w, "idle")
  PROVE  /\ worker' = [worker EXCEPT ![w] = Idle]
         /\ WorkersShaped'
<1>1. worker' = [worker EXCEPT ![w] = Idle]
  BY DEF WorkersShaped, WorkerGo
<1>2. WorkersShaped'
  BY <1>1 DEF WorkersShaped, Idle
<1> QED
  BY <1>1, <1>2

LEMMA PopMoves ==
  ASSUME WorkersShaped, NEW w \in Workers, PopReady(w)
  PROVE  /\ worker' = [worker EXCEPT ![w] = [at |-> "check", task |-> Head(ready)]]
         /\ WorkersShaped'
<1>1. worker' = [worker EXCEPT ![w] = [at |-> "check", task |-> Head(ready)]]
  BY DEF PopReady
<1>2. WorkersShaped'
  BY <1>1 DEF WorkersShaped
<1> QED
  BY <1>1, <1>2

-----------------------------------------------------------------------------
(* What the calls of clients, the clean-up and time leave to the workers.   *)
LEMMA OthersOnlyRelease ==
  ASSUME Enqueue \/ Cancel \/ CleanUp \/ (\E t \in Tasks : KeyAges(t)) \/ ClientDies \/ JanitorDies
  PROVE  /\ worker' = worker
         /\ userSlots' \subseteq userSlots /\ slots' \subseteq slots
         /\ disturbed \subseteq disturbed'
<1>1. CASE Enqueue
  BY <1>1 DEF Enqueue, CreateBatch, CheckUserLimit, CheckGlobalLimit, CreateHash, PushReady,
              ListTask
<1>2. CASE Cancel
  BY <1>2 DEF Cancel, ReadToCancel, CancelUser, CancelGlobal, CancelKey, CancelReady, CancelHash
<1>3. CASE CleanUp
  BY <1>3 DEF CleanUp, FindExpired, ExpireUser, ExpireGlobal, ExpireKey, Requeue, SetQueued
<1>4. CASE \E t \in Tasks : KeyAges(t)
  BY <1>4 DEF KeyAges
<1>5. CASE ClientDies
  BY <1>5 DEF ClientDies, Die
<1>6. CASE JanitorDies
  BY <1>6 DEF JanitorDies, Die
<1> QED
  BY <1>1, <1>2, <1>3, <1>4, <1>5, <1>6

(* What everybody but a client leaves to it.                                *)
LEMMA ClientsUndisturbed ==
  ASSUME \/ \E w \in Workers : Dequeue(w) \/ Ack(w) \/ WorkerDies(w)
         \/ CleanUp \/ (\E t \in Tasks : KeyAges(t)) \/ JanitorDies
  PROVE  /\ client' = client /\ unlisted' = unlisted
         /\ disturbed \subseteq disturbed'
<1>1. ASSUME NEW w \in Workers, Dequeue(w)
      PROVE  UNCHANGED <<client, unlisted, disturbed>>
  BY <1>1 DEF Dequeue, PopReady, CheckAgain, PushBack, MarkUser, MarkGlobal, SetKey, SetTTL,
              SetProcessing
<1>2. ASSUME NEW w \in Workers, Ack(w)
      PROVE  UNCHANGED <<client, unlisted, disturbed>>
  BY <1>2 DEF Ack, UnmarkUser, UnmarkGlobal, ClearKey, SetOutcome, AddOutcome
<1>3. ASSUME NEW w \in Workers, WorkerDies(w)
      PROVE  UNCHANGED <<client, unlisted>> /\ disturbed \subseteq disturbed'
  BY <1>3 DEF WorkerDies, Die
<1>4. CASE CleanUp
  BY <1>4 DEF CleanUp, FindExpired, ExpireUser, ExpireGlobal, ExpireKey, Requeue, SetQueued
<1>5. CASE \E t \in Tasks : KeyAges(t)
  BY <1>5 DEF KeyAges
<1>6. CASE JanitorDies
  BY <1>6 DEF JanitorDies, Die
<1> QED
  BY <1>1, <1>2, <1>3, <1>4, <1>5, <1>6

-----------------------------------------------------------------------------
(* The user's limit                                                         *)

LEMMA SlotsOfFinite ==
  ASSUME IsFiniteSet(userSlots), NEW u \in Users
  PROVE  /\ IsFiniteSet(SlotsOf(u)) /\ Cardinality(SlotsOf(u)) \in Nat
         /\ IsFiniteSet(Checked(u)) /\ Cardinality(Checked(u)) \in Nat
         /\ Cardinality(Checked(u)) <= Cardinality(Workers)
         /\ Cardinality(Workers) \in Nat
<1>1. SlotsOf(u) \subseteq userSlots /\ Checked(u) \subseteq Workers
  BY DEF SlotsOf, Checked
<1>2. IsFiniteSet(SlotsOf(u))
  BY <1>1, FS_Subset
<1>3. IsFiniteSet(Checked(u)) /\ Cardinality(Checked(u)) <= Cardinality(Workers)
  BY <1>1, FS_Subset, WorkersAssumption
<1> QED
  BY <1>2, <1>3, FS_CardinalityType, WorkersAssumption

(* Releasing slots, and taking none, leaves room.                           *)
LEMMA RoomKeptByReleases ==
  ASSUME RoomKept, NoNewSlots
  PROVE  RoomKept'
<1>1. IsFiniteSet(userSlots')
  BY FS_Subset DEF RoomKept, NoNewSlots
<1>2. ASSUME NEW u \in Users
      PROVE  Cardinality(SlotsOf(u)') + Cardinality(Checked(u)')
               < UserLimit + Cardinality(Workers)
  <2>1. /\ IsFiniteSet(SlotsOf(u)) /\ Cardinality(SlotsOf(u)) \in Nat
        /\ IsFiniteSet(Checked(u)) /\ Cardinality(Checked(u)) \in Nat
        /\ Cardinality(Workers) \in Nat
    BY SlotsOfFinite DEF RoomKept
  <2>2. SlotsOf(u)' \subseteq SlotsOf(u) /\ Checked(u)' \subseteq Checked(u)
    BY DEF NoNewSlots, SlotsOf
  <2>3. Cardinality(SlotsOf(u)') <= Cardinality(SlotsOf(u)) /\ Cardinality(SlotsOf(u)') \in Nat
    BY <2>1, <2>2, FS_Subset, FS_CardinalityType
  <2>4. Cardinality(Checked(u)') <= Cardinality(Checked(u)) /\ Cardinality(Checked(u)') \in Nat
    BY <2>1, <2>2, FS_Subset, FS_CardinalityType
  <2>5. Cardinality(SlotsOf(u)) + Cardinality(Checked(u)) < UserLimit + Cardinality(Workers)
    BY DEF RoomKept
  <2> QED
    BY <2>1, <2>3, <2>4, <2>5, LimitsAssumption
<1> QED
  BY <1>1, <1>2 DEF RoomKept

(* A worker that finds room may be the last of all that found it: each takes one slot. *)
LEMMA RoomKeptByCheck ==
  ASSUME WorkersShaped, RoomKept, NEW w \in Workers, CheckAgain(w)
  PROVE  RoomKept'
<1> DEFINE owner == Owner[worker[w].task]
<1>1. userSlots' = userSlots
  BY DEF CheckAgain
<1>2. CASE UserHasRoom(owner)
  <2>1. worker' = [worker EXCEPT ![w] = [at |-> "markUser", task |-> worker[w].task]]
    BY <1>2, WorkerMoves DEF CheckAgain
  <2>2. ASSUME NEW u \in Users, u # owner
        PROVE  Checked(u)' \subseteq Checked(u)
    BY <2>1, <2>2 DEF Checked, WorkersShaped
  <2>3. ASSUME NEW u \in Users
        PROVE  Cardinality(SlotsOf(u)') + Cardinality(Checked(u)')
                 < UserLimit + Cardinality(Workers)
    <3>1. /\ IsFiniteSet(SlotsOf(u)) /\ Cardinality(SlotsOf(u)) \in Nat
          /\ IsFiniteSet(Checked(u)) /\ Cardinality(Checked(u)) \in Nat
          /\ Cardinality(Workers) \in Nat
      BY SlotsOfFinite DEF RoomKept
    <3>2. SlotsOf(u)' = SlotsOf(u)
      BY <1>1 DEF SlotsOf
    <3>3. CASE u = owner
      <4>1. Checked(u)' \subseteq Workers
        BY DEF Checked
      <4>2. Cardinality(Checked(u)') <= Cardinality(Workers) /\ Cardinality(Checked(u)') \in Nat
        BY <4>1, WorkersAssumption, FS_Subset, FS_CardinalityType
      <4>3. Cardinality(SlotsOf(u)) < UserLimit
        BY <1>2, <3>3 DEF UserHasRoom
      <4> QED
        BY <3>1, <3>2, <4>2, <4>3, LimitsAssumption
    <3>4. CASE u # owner
      <4>1. Cardinality(Checked(u)') <= Cardinality(Checked(u)) /\ Cardinality(Checked(u)') \in Nat
        BY <2>2, <3>1, <3>4, FS_Subset, FS_CardinalityType
      <4>2. Cardinality(SlotsOf(u)) + Cardinality(Checked(u)) < UserLimit + Cardinality(Workers)
        BY DEF RoomKept
      <4> QED
        BY <3>1, <3>2, <4>1, <4>2, LimitsAssumption
    <3> QED
      BY <3>3, <3>4
  <2> QED
    BY <1>1, <2>3 DEF RoomKept
<1>3. CASE ~UserHasRoom(owner)
  <2>1. worker' = [worker EXCEPT ![w] = [at |-> "back", task |-> worker[w].task]]
    BY <1>3, WorkerMoves DEF CheckAgain
  <2>2. ASSUME NEW u \in Users PROVE Checked(u)' \subseteq Checked(u)
    BY <2>1 DEF Checked, WorkersShaped
  <2>3. NoNewSlots
    BY <1>1, <2>2 DEF NoNewSlots
  <2> QED
    BY <2>3, RoomKeptByReleases
<1> QED
  BY <1>2, <1>3

(* The mark turns a claim into a slot.                                      *)
LEMMA RoomKeptByMark ==
  ASSUME WorkersShaped, RoomKept, NEW w \in Workers, MarkUser(w)
  PROVE  RoomKept'
<1> DEFINE task == worker[w].task
<1>1. /\ worker' = [worker EXCEPT ![w] = [at |-> "markGlobal", task |-> task]]
      /\ worker[w].at = "markUser"
      /\ userSlots' = userSlots \cup {task}
  BY WorkerMoves DEF MarkUser, WorkerAt
<1>2. IsFiniteSet(userSlots')
  BY <1>1, FS_AddElement DEF RoomKept
<1>3. ASSUME NEW u \in Users
      PROVE  Cardinality(SlotsOf(u)') + Cardinality(Checked(u)')
               < UserLimit + Cardinality(Workers)
  <2>1. /\ IsFiniteSet(SlotsOf(u)) /\ Cardinality(SlotsOf(u)) \in Nat
        /\ IsFiniteSet(Checked(u)) /\ Cardinality(Checked(u)) \in Nat
        /\ Cardinality(Workers) \in Nat
    BY SlotsOfFinite DEF RoomKept
  <2>2. Cardinality(SlotsOf(u)) + Cardinality(Checked(u)) < UserLimit + Cardinality(Workers)
    BY DEF RoomKept
  <2>3. CASE Owner[task] = u
    <3>1. SlotsOf(u)' = SlotsOf(u) \cup {task}
      BY <1>1, <2>3 DEF SlotsOf
    <3>2. Checked(u)' = Checked(u) \ {w} /\ w \in Checked(u)
      BY <1>1, <2>3 DEF Checked, WorkersShaped
    <3>3. /\ Cardinality(SlotsOf(u)') <= Cardinality(SlotsOf(u)) + 1
          /\ Cardinality(SlotsOf(u)') \in Nat
      <4>1. /\ IsFiniteSet(SlotsOf(u) \cup {task})
            /\ Cardinality(SlotsOf(u) \cup {task}) \in {Cardinality(SlotsOf(u)),
                                                     Cardinality(SlotsOf(u)) + 1}
        BY <2>1, FS_AddElement
      <4> HIDE DEF task
      <4> QED
        BY <2>1, <3>1, <4>1
    <3>4. Cardinality(Checked(u)') = Cardinality(Checked(u)) - 1
      BY <2>1, <3>2, FS_RemoveElement
    <3> QED
      BY <2>1, <2>2, <3>3, <3>4, LimitsAssumption
  <2>4. CASE Owner[task] # u
    <3>1. SlotsOf(u)' = SlotsOf(u)
      BY <1>1, <2>4 DEF SlotsOf
    <3>2. Checked(u)' = Checked(u)
      BY <1>1, <2>4 DEF Checked, WorkersShaped
    <3> QED
      BY <2>2, <3>1, <3>2
  <2> QED
    BY <2>3, <2>4
<1> QED
  BY <1>2, <1>3 DEF RoomKept

(* A worker at any other step claims no slot.                               *)
LEMMA OtherStepsClaimNothing ==
  ASSUME WorkersShaped, RoomKept, NEW w \in Workers, NEW place, NEW task,
         place # "markUser", userSlots' \subseteq userSlots,
         worker' = [worker EXCEPT ![w] = [at |-> place, task |-> task]]
  PROVE  RoomKept'
<1>1. ASSUME NEW u \in Users PROVE Checked(u)' \subseteq Checked(u)
  BY DEF Checked, WorkersShaped
<1>2. NoNewSlots
  BY <1>1 DEF NoNewSlots
<1> QED
  BY <1>2, RoomKeptByReleases

LEMMA RoomStep ==
  ASSUME WorkersShaped, RoomKept, [Next]_vars
  PROVE  RoomKept'
<1>1. ASSUME worker' = worker, userSlots' \subseteq userSlots
      PROVE  RoomKept'
  <2>1. NoNewSlots
    BY <1>1 DEF NoNewSlots, Checked
  <2> QED
    BY <2>1, RoomKeptByReleases
<1>2. CASE UNCHANGED vars
  BY <1>1, <1>2 DEF vars
<1>3. CASE Enqueue \/ Cancel \/ CleanUp \/ (\E t \in Tasks : KeyAges(t))
             \/ ClientDies \/ JanitorDies
  BY <1>1, <1>3, OthersOnlyRelease
<1>4. ASSUME NEW w \in Workers, NEW place, place \notin {"idle", "markUser"},
             WorkerGo(w, place), userSlots' \subseteq userSlots
      PROVE  RoomKept'
  <2>1. worker' = [worker EXCEPT ![w] = [at |-> place, task |-> worker[w].task]]
    BY <1>4, WorkerMoves
  <2> QED
    BY <1>4, <2>1, OtherStepsClaimNothing
<1>5. ASSUME NEW w \in Workers, WorkerGo(w, "idle"), userSlots' \subseteq userSlots
      PROVE  RoomKept'
  <2>1. worker' = [worker EXCEPT ![w] = [at |-> "idle", task |-> NoTask]]
    BY <1>5, WorkerRests DEF Idle
  <2> QED
    BY <1>5, <2>1, OtherStepsClaimNothing
<1>6. ASSUME NEW w \in Workers, Dequeue(w)
      PROVE  RoomKept'
  <2>1. CASE PopReady(w)
    <3>1. worker' = [worker EXCEPT ![w] = [at |-> "check", task |-> Head(ready)]]
      BY <2>1 DEF PopReady
    <3>2. userSlots' = userSlots
      BY <2>1 DEF PopReady
    <3> QED
      BY <3>1, <3>2, OtherStepsClaimNothing
  <2>2. CASE CheckAgain(w)
    BY <2>2, RoomKeptByCheck
  <2>3. CASE PushBack(w)
    BY <2>3, <1>5 DEF PushBack
  <2>4. CASE MarkUser(w)
    BY <2>4, RoomKeptByMark
  <2>5. CASE MarkGlobal(w)
    BY <2>5, <1>4 DEF MarkGlobal
  <2>6. CASE SetKey(w)
    BY <2>6, <1>4 DEF SetKey
  <2>7. CASE SetTTL(w)
    BY <2>7, <1>4 DEF SetTTL
  <2>8. CASE SetProcessing(w)
    BY <2>8, <1>4 DEF SetProcessing
  <2> QED
    BY <1>6, <2>1, <2>2, <2>3, <2>4, <2>5, <2>6, <2>7, <2>8 DEF Dequeue
<1>7. ASSUME NEW w \in Workers, Ack(w)
      PROVE  RoomKept'
  <2>1. CASE UnmarkUser(w)
    BY <2>1, <1>4 DEF UnmarkUser
  <2>2. CASE UnmarkGlobal(w)
    BY <2>2, <1>4 DEF UnmarkGlobal
  <2>3. CASE ClearKey(w)
    BY <2>3, <1>4 DEF ClearKey
  <2>4. CASE SetOutcome(w)
    BY <2>4, <1>4 DEF SetOutcome
  <2>5. CASE AddOutcome(w)
    BY <2>5, <1>5 DEF AddOutcome
  <2> QED
    BY <1>7, <2>1, <2>2, <2>3, <2>4, <2>5 DEF Ack
<1>8. ASSUME NEW w \in Workers, WorkerDies(w)
      PROVE  RoomKept'
  BY <1>8, <1>5 DEF WorkerDies
<1> QED
  BY <1>2, <1>3, <1>6, <1>7, <1>8 DEF Next

-----------------------------------------------------------------------------
(* Who holds the slots                                                      *)

(* Every slot stays with its worker if no worker moves.                     *)
LEMMA HoldersStay ==
  ASSUME SlotsHaveHolders, worker' = worker, userSlots' \subseteq userSlots,
         slots' \subseteq slots, disturbed \subseteq disturbed'
  PROVE  SlotsHaveHolders'
BY DEF SlotsHaveHolders

(* A worker that moves on keeps its slots, gives them up, or takes them for its task.   *)
LEMMA HoldersMove ==
  ASSUME WorkersShaped, SlotsHaveHolders, NEW w \in Workers, NEW place, NEW task,
         worker' = [worker EXCEPT ![w] = [at |-> place, task |-> task]],
         disturbed \subseteq disturbed',
         \A t \in userSlots' \ disturbed' :
            \/ t = task /\ place \in HoldsUserSlot
            \/ t \in userSlots /\ (t = worker[w].task => worker[w].at \notin HoldsUserSlot),
         \A t \in slots' \ disturbed' :
            \/ t = task /\ place \in HoldsSlot
            \/ t \in slots /\ (t = worker[w].task => worker[w].at \notin HoldsSlot)
  PROVE  SlotsHaveHolders'
<1>1. ASSUME NEW t \in userSlots' \ disturbed'
      PROVE  \E v \in Workers : worker'[v].task = t /\ worker'[v].at \in HoldsUserSlot
  <2>1. CASE t = task /\ place \in HoldsUserSlot
    BY <2>1 DEF WorkersShaped
  <2>2. CASE t \in userSlots /\ (t = worker[w].task => worker[w].at \notin HoldsUserSlot)
    <3>1. PICK v \in Workers : worker[v].task = t /\ worker[v].at \in HoldsUserSlot
      BY <2>2 DEF SlotsHaveHolders
    <3>2. v # w
      BY <2>2, <3>1
    <3> QED
      BY <3>1, <3>2 DEF WorkersShaped
  <2> QED
    BY <2>1, <2>2
<1>2. ASSUME NEW t \in slots' \ disturbed'
      PROVE  \E v \in Workers : worker'[v].task = t /\ worker'[v].at \in HoldsSlot
  <2>1. CASE t = task /\ place \in HoldsSlot
    BY <2>1 DEF WorkersShaped
  <2>2. CASE t \in slots /\ (t = worker[w].task => worker[w].at \notin HoldsSlot)
    <3>1. PICK v \in Workers : worker[v].task = t /\ worker[v].at \in HoldsSlot
      BY <2>2 DEF SlotsHaveHolders
    <3>2. v # w
      BY <2>2, <3>1
    <3> QED
      BY <3>1, <3>2 DEF WorkersShaped
  <2> QED
    BY <2>1, <2>2
<1> QED
  BY <1>1, <1>2 DEF SlotsHaveHolders

LEMMA HoldersStep ==
  ASSUME WorkersShaped, SlotsHaveHolders, [Next]_vars
  PROVE  SlotsHaveHolders'
<1>1. CASE UNCHANGED vars
  BY <1>1, HoldersStay DEF vars
<1>2. CASE Enqueue \/ Cancel \/ CleanUp \/ (\E t \in Tasks : KeyAges(t))
             \/ ClientDies \/ JanitorDies
  BY <1>2, OthersOnlyRelease, HoldersStay
<1>3. ASSUME NEW w \in Workers, Dequeue(w)
      PROVE  SlotsHaveHolders'
  <2>1. CASE PopReady(w)
    <3>1. worker' = [worker EXCEPT ![w] = [at |-> "check", task |-> Head(ready)]]
      BY <2>1 DEF PopReady
    <3>2. worker[w].at = "idle" /\ UNCHANGED <<userSlots, slots, disturbed>>
      BY <2>1 DEF PopReady, WorkerAt
    <3> QED
      BY <3>1, <3>2, HoldersMove DEF HoldsUserSlot, HoldsSlot
  <2>2. CASE CheckAgain(w)
    <3>1. PICK place \in {"markUser", "back"} : WorkerGo(w, place)
      BY <2>2 DEF CheckAgain
    <3>2. worker' = [worker EXCEPT ![w] = [at |-> place, task |-> worker[w].task]]
      BY <3>1, WorkerMoves
    <3>3. worker[w].at = "check" /\ UNCHANGED <<userSlots, slots, disturbed>>
      BY <2>2 DEF CheckAgain, WorkerAt
    <3> QED
      BY <3>2, <3>3, HoldersMove DEF HoldsUserSlot, HoldsSlot
  <2>3. CASE PushBack(w)
    <3>1. worker' = [worker EXCEPT ![w] = [at |-> "idle", task |-> NoTask]]
      BY <2>3, WorkerRests DEF PushBack, Idle
    <3>2. /\ worker[w].at = "back"
          /\ UNCHANGED <<userSlots, slots, disturbed>>
      BY <2>3 DEF PushBack, WorkerAt
    <3> QED
      BY <3>1, <3>2, HoldersMove DEF HoldsUserSlot, HoldsSlot
  <2>4. CASE MarkUser(w)
    <3>1. worker' = [worker EXCEPT ![w] = [at |-> "markGlobal", task |-> worker[w].task]]
      BY <2>4, WorkerMoves DEF MarkUser
    <3>2. /\ worker[w].at = "markUser"
          /\ userSlots' = userSlots \cup {worker[w].task} /\ UNCHANGED <<slots, disturbed>>
      BY <2>4 DEF MarkUser, WorkerAt
    <3>3. \A t \in userSlots' \ disturbed' :
             \/ t = worker[w].task /\ "markGlobal" \in HoldsUserSlot
             \/ t \in userSlots /\ (t = worker[w].task => worker[w].at \notin HoldsUserSlot)
      BY <3>2 DEF HoldsUserSlot
    <3>4. \A t \in slots' \ disturbed' :
             \/ t = worker[w].task /\ "markGlobal" \in HoldsSlot
             \/ t \in slots /\ (t = worker[w].task => worker[w].at \notin HoldsSlot)
      BY <3>2 DEF HoldsSlot
    <3> QED
      BY <3>1, <3>2, <3>3, <3>4, HoldersMove
  <2>5. CASE MarkGlobal(w)
    <3>1. worker' = [worker EXCEPT ![w] = [at |-> "setKey", task |-> worker[w].task]]
      BY <2>5, WorkerMoves DEF MarkGlobal
    <3>2. /\ worker[w].at = "markGlobal"
          /\ slots' = slots \cup {worker[w].task} /\ UNCHANGED <<userSlots, disturbed>>
      BY <2>5 DEF MarkGlobal, WorkerAt
    <3>3. \A t \in slots' \ disturbed' :
             \/ t = worker[w].task /\ "setKey" \in HoldsSlot
             \/ t \in slots /\ (t = worker[w].task => worker[w].at \notin HoldsSlot)
      BY <3>2 DEF HoldsSlot
    <3>4. \A t \in userSlots' \ disturbed' :
             \/ t = worker[w].task /\ "setKey" \in HoldsUserSlot
             \/ t \in userSlots /\ (t = worker[w].task => worker[w].at \notin HoldsUserSlot)
      BY <3>2 DEF HoldsUserSlot
    <3> QED
      BY <3>1, <3>2, <3>3, <3>4, HoldersMove
  <2>6. CASE SetKey(w)
    <3>1. worker' = [worker EXCEPT ![w] = [at |-> "setTTL", task |-> worker[w].task]]
      BY <2>6, WorkerMoves DEF SetKey
    <3>2. /\ worker[w].at = "setKey"
          /\ UNCHANGED <<userSlots, slots, disturbed>>
      BY <2>6 DEF SetKey, WorkerAt
    <3> QED
      BY <3>1, <3>2, HoldersMove DEF HoldsUserSlot, HoldsSlot
  <2>7. CASE SetTTL(w)
    <3>1. worker' = [worker EXCEPT ![w] = [at |-> "setProcessing", task |-> worker[w].task]]
      BY <2>7, WorkerMoves DEF SetTTL
    <3>2. /\ worker[w].at = "setTTL"
          /\ UNCHANGED <<userSlots, slots, disturbed>>
      BY <2>7 DEF SetTTL, WorkerAt
    <3> QED
      BY <3>1, <3>2, HoldersMove DEF HoldsUserSlot, HoldsSlot
  <2>8. CASE SetProcessing(w)
    <3>1. worker' = [worker EXCEPT ![w] = [at |-> "holding", task |-> worker[w].task]]
      BY <2>8, WorkerMoves DEF SetProcessing
    <3>2. /\ worker[w].at = "setProcessing"
          /\ UNCHANGED <<userSlots, slots, disturbed>>
      BY <2>8 DEF SetProcessing, WorkerAt
    <3> QED
      BY <3>1, <3>2, HoldersMove DEF HoldsUserSlot, HoldsSlot
  <2> QED
    BY <1>3, <2>1, <2>2, <2>3, <2>4, <2>5, <2>6, <2>7, <2>8 DEF Dequeue
<1>4. ASSUME NEW w \in Workers, Ack(w)
      PROVE  SlotsHaveHolders'
  <2>1. CASE UnmarkUser(w)
    <3>1. worker' = [worker EXCEPT ![w] = [at |-> "unmarkGlobal", task |-> worker[w].task]]
      BY <2>1, WorkerMoves DEF UnmarkUser
    <3>2. /\ worker[w].at = "holding"
          /\ userSlots' = userSlots \ {worker[w].task} /\ UNCHANGED <<slots, disturbed>>
      BY <2>1 DEF UnmarkUser, WorkerAt
    <3> QED
      BY <3>1, <3>2, HoldersMove DEF HoldsUserSlot, HoldsSlot
  <2>2. CASE UnmarkGlobal(w)
    <3>1. worker' = [worker EXCEPT ![w] = [at |-> "clearKey", task |-> worker[w].task]]
      BY <2>2, WorkerMoves DEF UnmarkGlobal
    <3>2. /\ worker[w].at = "unmarkGlobal"
          /\ slots' = slots \ {worker[w].task} /\ UNCHANGED <<userSlots, disturbed>>
      BY <2>2 DEF UnmarkGlobal, WorkerAt
    <3> QED
      BY <3>1, <3>2, HoldersMove DEF HoldsUserSlot, HoldsSlot
  <2>3. CASE ClearKey(w)
    <3>1. worker' = [worker EXCEPT ![w] = [at |-> "setOutcome", task |-> worker[w].task]]
      BY <2>3, WorkerMoves DEF ClearKey
    <3>2. /\ worker[w].at = "clearKey"
          /\ UNCHANGED <<userSlots, slots, disturbed>>
      BY <2>3 DEF ClearKey, WorkerAt
    <3> QED
      BY <3>1, <3>2, HoldersMove DEF HoldsUserSlot, HoldsSlot
  <2>4. CASE SetOutcome(w)
    <3>1. worker' = [worker EXCEPT ![w] = [at |-> "addOutcome", task |-> worker[w].task]]
      BY <2>4, WorkerMoves DEF SetOutcome
    <3>2. /\ worker[w].at = "setOutcome"
          /\ UNCHANGED <<userSlots, slots, disturbed>>
      BY <2>4 DEF SetOutcome, WorkerAt
    <3> QED
      BY <3>1, <3>2, HoldersMove DEF HoldsUserSlot, HoldsSlot
  <2>5. CASE AddOutcome(w)
    <3>1. worker' = [worker EXCEPT ![w] = [at |-> "idle", task |-> NoTask]]
      BY <2>5, WorkerRests DEF AddOutcome, Idle
    <3>2. /\ worker[w].at = "addOutcome"
          /\ UNCHANGED <<userSlots, slots, disturbed>>
      BY <2>5 DEF AddOutcome, WorkerAt
    <3> QED
      BY <3>1, <3>2, HoldersMove DEF HoldsUserSlot, HoldsSlot
  <2> QED
    BY <1>4, <2>1, <2>2, <2>3, <2>4, <2>5 DEF Ack
<1>5. ASSUME NEW w \in Workers, WorkerDies(w)
      PROVE  SlotsHaveHolders'
  <2>1. worker' = [worker EXCEPT ![w] = [at |-> "idle", task |-> NoTask]]
    BY <1>5, WorkerRests DEF WorkerDies, Idle
  <2>2. disturbed' = disturbed \cup {worker[w].task} /\ UNCHANGED <<userSlots, slots>>
    BY <1>5 DEF WorkerDies, Die
  <2> QED
    BY <2>1, <2>2, HoldersMove
<1> QED
  BY <1>1, <1>2, <1>3, <1>4, <1>5 DEF Next

-----------------------------------------------------------------------------
(* What batches list, and the shapes of workers and clients                 *)

LEMMA ListingStep ==
  ASSUME ClientShaped, ListingAhead, [Next]_vars
  PROVE  ClientShaped' /\ ListingAhead'
<1>1. ASSUME client' = client, unlisted' = unlisted, disturbed \subseteq disturbed'
      PROVE  ClientShaped' /\ ListingAhead'
  BY <1>1 DEF ClientShaped, ListingAhead
<1>2. CASE UNCHANGED vars
  BY <1>1, <1>2 DEF vars
<1>3. CASE \/ \E w \in Workers : Dequeue(w) \/ Ack(w) \/ WorkerDies(w)
           \/ CleanUp \/ (\E t \in Tasks : KeyAges(t)) \/ JanitorDies
  BY <1>1, <1>3, ClientsUndisturbed
<1>4. CASE Enqueue
  <2>1. ASSUME NEW submitted \in SUBSET Tasks, CreateBatch(submitted)
        PROVE  ClientShaped' /\ ListingAhead'
    BY <2>1 DEF CreateBatch, ClientAt, ClientShaped, ClientPlaces, ListingAhead
  <2>2. ASSUME NEW t \in Tasks, CheckUserLimit(t)
        PROVE  ClientShaped' /\ ListingAhead'
    <3>1. ClientShaped'
      BY <2>2 DEF CheckUserLimit, ClientShaped, ClientPlaces, NoCall
    <3>2. client.at \in {"idle", "symbol"} /\ UNCHANGED <<unlisted, disturbed>>
      BY <2>2 DEF CheckUserLimit, ClientAt
    <3> QED
      BY <3>1, <3>2 DEF ListingAhead
  <2>3. CASE CheckGlobalLimit
    <3>1. ClientShaped'
      BY <2>3 DEF CheckGlobalLimit, ClientGo, ClientShaped, ClientPlaces, NoCall
    <3>2. client.at = "checkGlobal" /\ UNCHANGED <<unlisted, disturbed>>
      BY <2>3 DEF CheckGlobalLimit, ClientAt
    <3> QED
      BY <3>1, <3>2 DEF ListingAhead
  <2>4. CASE CreateHash
    <3>1. client' = [client EXCEPT !.at = "push"]
      BY <2>4 DEF CreateHash, ClientGo
    <3>2. /\ client.at = "create" /\ disturbed' = disturbed
          /\ unlisted' = unlisted \cup ({client.task} \cap client.rest)
      BY <2>4 DEF CreateHash, ClientAt
    <3> QED
      BY <3>1, <3>2 DEF ClientShaped, ClientPlaces, ListingAhead
  <2>5. CASE PushReady
    <3>1. ClientShaped'
      BY <2>5 DEF PushReady, ClientGo, ClientShaped, ClientPlaces, NoCall
    <3>2. client.at = "push" /\ UNCHANGED <<unlisted, disturbed>>
      BY <2>5 DEF PushReady, ClientAt
    <3>3. client.task \in client.rest => client' = [client EXCEPT !.at = "list"]
      BY <2>5 DEF PushReady, ClientGo
    <3> QED
      BY <3>1, <3>2, <3>3 DEF ListingAhead, ClientShaped
  <2>6. CASE ListTask
    <3>1. ClientShaped'
      BY <2>6 DEF ListTask, NextSymbol, ClientShaped, ClientPlaces, NoCall
    <3>2. unlisted' = unlisted \ {client.task} /\ disturbed' = disturbed
      BY <2>6 DEF ListTask
    <3> QED
      BY <3>1, <3>2 DEF ListingAhead
  <2> QED
    BY <1>4, <2>1, <2>2, <2>3, <2>4, <2>5, <2>6 DEF Enqueue
<1>5. CASE Cancel
  <2>1. ASSUME NEW t \in Tasks, ReadToCancel(t)
        PROVE  ClientShaped'
    BY <2>1 DEF ReadToCancel, ClientShaped, ClientPlaces
  <2>2. ASSUME CancelUser \/ CancelGlobal \/ CancelKey \/ CancelReady \/ CancelHash
        PROVE  ClientShaped'
    <3>1. PICK place \in ClientPlaces : ClientGo(place)
      BY <2>2 DEF CancelUser, CancelGlobal, CancelKey, CancelReady, CancelHash, ClientPlaces
    <3>2. CASE place = "idle"
      BY <3>1, <3>2 DEF ClientGo, ClientShaped, ClientPlaces, NoCall
    <3>3. CASE place # "idle"
      <4>1. client' = [client EXCEPT !.at = place]
        BY <3>1, <3>3 DEF ClientGo
      <4> QED
        BY <4>1 DEF ClientShaped
    <3> QED
      BY <3>2, <3>3
  <2>3. /\ client.at \in {"idle", "cancelUser", "cancelGlobal", "cancelKey", "cancelReady",
                          "cancelHash"}
        /\ UNCHANGED <<unlisted, disturbed>>
    BY <1>5 DEF Cancel, ReadToCancel, CancelUser, CancelGlobal, CancelKey, CancelReady,
                CancelHash, ClientAt
  <2>4. ListingAhead'
    BY <2>3 DEF ListingAhead
  <2> QED
    BY <1>5, <2>1, <2>2, <2>4 DEF Cancel
<1>6. CASE ClientDies
  <2>1. ClientShaped'
    BY <1>6 DEF ClientDies, NoCall, ClientShaped, ClientPlaces
  <2>2. unlisted' = unlisted /\ disturbed' = disturbed \cup ({client.task} \ {NoTask})
    BY <1>6 DEF ClientDies, Die
  <2> QED
    BY <2>1, <2>2, NoTaskAssumption DEF ListingAhead
<1> QED
  BY <1>2, <1>3, <1>4, <1>5, <1>6 DEF Next

LEMMA WorkersStep ==
  ASSUME WorkersShaped, [Next]_vars
  PROVE  WorkersShaped'
<1>1. CASE worker' = worker
  BY <1>1 DEF WorkersShaped
<1>2. ASSUME NEW w \in Workers, PopReady(w) \/ \E place \in WorkerPlaces : WorkerGo(w, place)
      PROVE  WorkersShaped'
  BY <1>2, PopMoves, WorkerMoves, WorkerRests
<1>3. ASSUME NEW w \in Workers, Dequeue(w) \/ Ack(w) \/ WorkerDies(w)
      PROVE  PopReady(w) \/ \E place \in WorkerPlaces : WorkerGo(w, place)
  <2>1. CASE Dequeue(w)
    BY <2>1 DEF Dequeue, CheckAgain, PushBack, MarkUser, MarkGlobal, SetKey, SetTTL,
                SetProcessing, WorkerPlaces, HoldsUserSlot, HoldsSlot
  <2>2. CASE Ack(w)
    BY <2>2 DEF Ack, UnmarkUser, UnmarkGlobal, ClearKey, SetOutcome, AddOutcome,
                WorkerPlaces, HoldsUserSlot, HoldsSlot
  <2>3. CASE WorkerDies(w)
    BY <2>3 DEF WorkerDies, WorkerPlaces
  <2> QED
    BY <1>3, <2>1, <2>2, <2>3
<1>4. CASE UNCHANGED vars
  BY <1>1, <1>4 DEF vars
<1> QED
  BY <1>1, <1>2, <1>3, <1>4, OthersOnlyRelease DEF Next

-----------------------------------------------------------------------------
LEMMA StepInv == IInv /\ [Next]_vars => IInv'
BY WorkersStep, RoomStep, HoldersStep, ListingStep DEF IInv

(* The invariant from which the theorems follow.                            *)
THEOREM Invariant == Spec => []IInv
<1>1. Init => IInv
  BY InitInv
<1>2. IInv /\ [Next]_vars => IInv'
  BY StepInv
<1> QED
  BY <1>1, <1>2, PTL DEF Spec

-----------------------------------------------------------------------------
(* The list: how often it has a task after each command                    *)

(* Where a list has a task.                                                 *)
Where(s, t) == {i \in DOMAIN s : s[i] = t}

(* A one-to-one correspondence, given by its properties.                    *)
LEMMA SameSize ==
  ASSUME NEW A, NEW B, IsFiniteSet(A), NEW f \in [A -> B],
         \A a, b \in A : f[a] = f[b] => a = b,
         \A b \in B : \E a \in A : f[a] = b
  PROVE  IsFiniteSet(B) /\ Cardinality(B) = Cardinality(A)
<1>1. f \in Bijection(A, B)
  BY DEF Bijection, Injection, Surjection, IsInjective
<1>2. ExistsBijection(A, B)
  BY <1>1 DEF ExistsBijection
<1> QED
  BY <1>2, FS_Bijection

LEMMA WhereFinite ==
  ASSUME NEW S, NEW s \in Seq(S), NEW t
  PROVE  /\ IsFiniteSet(Where(s, t)) /\ Cardinality(Where(s, t)) \in Nat
         /\ Where(s, t) \subseteq 1..Len(s)
<1>1. Len(s) \in Nat /\ DOMAIN s = 1..Len(s)
  BY LenProperties
<1>2. IsFiniteSet(1..Len(s))
  BY <1>1, FS_Interval
<1>3. Where(s, t) \subseteq 1..Len(s)
  BY <1>1 DEF Where
<1>4. IsFiniteSet(Where(s, t))
  BY <1>2, <1>3, FS_Subset
<1> QED
  BY <1>3, <1>4, FS_CardinalityType

LEMMA AppendCounts ==
  ASSUME NEW S, NEW s \in Seq(S), NEW a \in S, NEW t
  PROVE  /\ Append(s, a) \in Seq(S)
         /\ Cardinality(Where(Append(s, a), t))
              = Cardinality(Where(s, t)) + (IF a = t THEN 1 ELSE 0)
<1>1. /\ Append(s, a) \in Seq(S) /\ Len(Append(s, a)) = Len(s) + 1
      /\ \A i \in 1..Len(s) : Append(s, a)[i] = s[i]
      /\ Append(s, a)[Len(s) + 1] = a
  BY AppendProperties
<1>2. Len(s) \in Nat /\ DOMAIN s = 1..Len(s) /\ DOMAIN Append(s, a) = 1..(Len(s) + 1)
  BY <1>1, LenProperties
<1>3. CASE a = t
  <2>1. Where(Append(s, a), t) = Where(s, t) \cup {Len(s) + 1}
    BY <1>1, <1>2, <1>3 DEF Where
  <2>2. Len(s) + 1 \notin Where(s, t)
    BY <1>2 DEF Where
  <2>3. IsFiniteSet(Where(s, t))
    BY WhereFinite
  <2>4. Cardinality(Where(s, t) \cup {Len(s) + 1}) = Cardinality(Where(s, t)) + 1
    BY <2>2, <2>3, FS_AddElement
  <2> QED
    BY <1>1, <1>3, <2>1, <2>4
<1>4. CASE a # t
  <2>1. Where(Append(s, a), t) = Where(s, t)
    BY <1>1, <1>2, <1>4 DEF Where
  <2>2. Cardinality(Where(s, t)) \in Nat
    BY WhereFinite
  <2> QED
    BY <1>1, <1>4, <2>1, <2>2
<1> QED
  BY <1>3, <1>4

LEMMA TailCounts ==
  ASSUME NEW S, NEW s \in Seq(S), s # << >>, NEW t
  PROVE  /\ Head(s) \in S /\ Tail(s) \in Seq(S)
         /\ Cardinality(Where(s, t))
              = Cardinality(Where(Tail(s), t)) + (IF Head(s) = t THEN 1 ELSE 0)
<1>1. /\ Head(s) \in S /\ Tail(s) \in Seq(S) /\ Len(Tail(s)) = Len(s) - 1
      /\ \A i \in 1..Len(Tail(s)) : Tail(s)[i] = s[i + 1]
  BY HeadTailProperties
<1>2. /\ Len(s) \in Nat \ {0} /\ DOMAIN s = 1..Len(s) /\ DOMAIN Tail(s) = 1..(Len(s) - 1)
      /\ Head(s) = s[1]
  BY <1>1, EmptySeq, LenProperties
<1> DEFINE Rest == Where(s, t) \ {1}
           f == [i \in Where(Tail(s), t) |-> i + 1]
<1>3. Cardinality(Rest) = Cardinality(Where(Tail(s), t))
  <2>1. IsFiniteSet(Where(Tail(s), t))
    BY <1>1, WhereFinite
  <2>2. f \in [Where(Tail(s), t) -> Rest]
    BY <1>1, <1>2 DEF Where
  <2>3. \A i, j \in Where(Tail(s), t) : f[i] = f[j] => i = j
    BY <1>2 DEF Where
  <2>4. ASSUME NEW i \in Rest PROVE \E j \in Where(Tail(s), t) : f[j] = i
    <3>1. i \in 2..Len(s) /\ s[i] = t
      BY <1>2 DEF Where
    <3>2. i - 1 \in 1..(Len(s) - 1) /\ (i - 1) + 1 = i
      BY <1>2, <3>1
    <3>3. Tail(s)[i - 1] = s[i]
      BY <1>1, <3>2
    <3>4. i - 1 \in Where(Tail(s), t)
      BY <1>2, <3>1, <3>2, <3>3 DEF Where
    <3> QED
      BY <3>2, <3>4
  <2> HIDE DEF f, Rest
  <2> QED
    BY <2>1, <2>2, <2>3, <2>4, SameSize
<1>4. IsFiniteSet(Where(s, t)) /\ Cardinality(Where(s, t)) \in Nat
  BY WhereFinite
<1>5. Cardinality(Rest) = IF 1 \in Where(s, t) THEN Cardinality(Where(s, t)) - 1
                                                ELSE Cardinality(Where(s, t))
  BY <1>4, FS_RemoveElement
<1>6. 1 \in Where(s, t) <=> Head(s) = t
  BY <1>2 DEF Where
<1> QED
  BY <1>1, <1>3, <1>4, <1>5, <1>6

(* A removed task is gone, and every other one is there as often as before. *)
LEMMA WithoutCounts ==
  ASSUME NEW S, NEW s \in Seq(S), NEW t
  PROVE  /\ Without(s, t) \in Seq(S)
         /\ Where(Without(s, t), t) = {}
         /\ \A u : u # t => Cardinality(Where(Without(s, t), u)) = Cardinality(Where(s, u))
<1> DEFINE kept == {i \in DOMAIN s : s[i] # t}
           size == Cardinality(kept)
           rank(i) == Cardinality({j \in kept : j <= i})
           at(n) == CHOOSE i \in kept : rank(i) = n
           rest == [n \in 1..size |-> s[at(n)]]
<1>1. Len(s) \in Nat /\ DOMAIN s = 1..Len(s) /\ \A i \in DOMAIN s : s[i] \in S
  BY LenProperties, ElementOfSeq
<1>2. Without(s, t) = rest
  BY DEF Without
<1>3. kept \subseteq 1..Len(s) /\ IsFiniteSet(kept) /\ size \in Nat
  <2>1. kept \subseteq 1..Len(s)
    BY <1>1
  <2>2. IsFiniteSet(1..Len(s))
    BY <1>1, FS_Interval
  <2>3. IsFiniteSet(kept)
    BY <2>1, <2>2, FS_Subset
  <2> QED
    BY <2>1, <2>3, FS_CardinalityType
<1>4. ASSUME NEW i \in kept
      PROVE  rank(i) \in 1..size
  <2> DEFINE upTo == {j \in kept : j <= i}
  <2>1. upTo \subseteq kept /\ i \in upTo
    BY <1>3
  <2>2. IsFiniteSet(upTo) /\ Cardinality(upTo) <= size
    BY <1>3, <2>1, FS_Subset
  <2>3. Cardinality(upTo) \in Nat /\ Cardinality(upTo) # 0
    BY <2>1, <2>2, FS_CardinalityType, FS_EmptySet
  <2> QED
    BY <1>3, <2>2, <2>3
<1>5. ASSUME NEW i \in kept, NEW j \in kept, i < j
      PROVE  rank(i) < rank(j)
  <2> DEFINE upToI == {h \in kept : h <= i}
             upToJ == {h \in kept : h <= j}
  <2>1. upToI \subseteq upToJ /\ j \in upToJ /\ j \notin upToI /\ upToJ \subseteq kept
    BY <1>3, <1>5
  <2>2. IsFiniteSet(upToJ)
    BY <1>3, <2>1, FS_Subset
  <2>3. /\ Cardinality(upToI) <= Cardinality(upToJ)
        /\ Cardinality(upToI) # Cardinality(upToJ)
    BY <2>1, <2>2, FS_Subset
  <2>4. rank(i) \in 1..size /\ rank(j) \in 1..size
    BY <1>4
  <2> QED
    BY <1>3, <2>3, <2>4
<1> HIDE DEF rank
<1>6. \A i, j \in kept : rank(i) = rank(j) => i = j
  <2> SUFFICES ASSUME NEW i \in kept, NEW j \in kept, i # j
               PROVE  rank(i) # rank(j)
    OBVIOUS
  <2>1. rank(i) \in 1..size /\ rank(j) \in 1..size
    BY <1>4
  <2>2. i < j \/ j < i
    BY <1>3
  <2> QED
    BY <1>3, <1>5, <2>1, <2>2
<1>7. \A n \in 1..size : \E i \in kept : rank(i) = n
  <2> DEFINE f == [i \in kept |-> rank(i)]
  <2>1. f \in Injection(kept, 1..size)
    BY <1>4, <1>6 DEF Injection, IsInjective
  <2>2. IsFiniteSet(1..size) /\ Cardinality(1..size) = size
    BY <1>3, FS_Interval
  <2>3. f \in Surjection(kept, 1..size)
    <3> HIDE DEF f
    <3> QED
      BY <2>1, <2>2, FS_Injection
  <2> QED
    BY <2>3 DEF Surjection
<1>8. \A n \in 1..size : at(n) \in kept /\ rank(at(n)) = n
  BY <1>7
<1>9. \A i \in kept : rank(i) \in 1..size /\ at(rank(i)) = i
  BY <1>4, <1>6, <1>8
<1> HIDE DEF at
<1>10. \A n \in 1..size : rest[n] = s[at(n)]
  OBVIOUS
<1>11. rest \in Seq(S)
  <2>1. rest \in [1..size -> S]
    BY <1>1, <1>8
  <2> HIDE DEF rest
  <2> QED
    BY <1>3, <2>1, SeqDef
<1>12. Where(rest, t) = {}
  BY <1>8 DEF Where
<1>13. ASSUME NEW u, u # t
       PROVE  Cardinality(Where(rest, u)) = Cardinality(Where(s, u))
  <2> DEFINE g == [n \in Where(rest, u) |-> at(n)]
  <2>1. IsFiniteSet(Where(rest, u))
    BY <1>11, WhereFinite
  <2>2. g \in [Where(rest, u) -> Where(s, u)]
    BY <1>1, <1>8 DEF Where
  <2>3. ASSUME NEW n \in Where(rest, u), NEW m \in Where(rest, u), g[n] = g[m]
        PROVE  n = m
    <3>1. n \in 1..size /\ m \in 1..size /\ at(n) = at(m)
      BY <2>3 DEF Where
    <3> QED
      BY <1>8, <3>1
  <2>4. ASSUME NEW i \in Where(s, u)
        PROVE  \E n \in Where(rest, u) : g[n] = i
    <3>1. i \in kept
      BY <1>13 DEF Where
    <3>2. rank(i) \in 1..size /\ at(rank(i)) = i
      BY <1>9, <3>1
    <3>3. rank(i) \in Where(rest, u)
      BY <3>2 DEF Where
    <3> QED
      BY <3>2, <3>3
  <2> HIDE DEF g, rest
  <2> QED
    BY <2>1, <2>2, <2>3, <2>4, SameSize
<1> QED
  BY <1>2, <1>11, <1>12, <1>13

-----------------------------------------------------------------------------
(* Types                                                                    *)

(* A process at work has a task, and the clean-up disturbs the one it has.  *)
PlacesFit ==
  /\ \A w \in Workers : worker[w].task = NoTask <=> worker[w].at = "idle"
  /\ client.task = NoTask <=> client.at \in {"idle", "symbol"}
  /\ janitor.task = NoTask <=> janitor.at = "idle"
  /\ janitor.task \in disturbed \cup {NoTask}

WorkersTyped ==
  /\ worker \in [Workers -> [at : WorkerPlaces, task : Tasks \cup {NoTask}]]
  /\ \A w \in Workers : worker[w].task = NoTask <=> worker[w].at = "idle"
JanitorTyped ==
  /\ janitor \in [at : JanitorPlaces, task : Tasks \cup {NoTask}]
  /\ janitor.task = NoTask <=> janitor.at = "idle"
  /\ janitor.task \in disturbed \cup {NoTask}

LEMMA InitTypes == Init => TypeOK /\ PlacesFit
<1> SUFFICES ASSUME Init PROVE TypeOK /\ PlacesFit
  OBVIOUS
<1>1. TypeOK
  <2>1. ready \in Seq(Tasks)
    BY EmptySeq DEF Init
  <2>2. 0 \in 0..MaxUpsets
    BY BoundAssumption
  <2> QED
    BY <2>1, <2>2 DEF Init, TypeOK, Idle, NoCall, Statuses, Keys, WorkerPlaces, ClientPlaces,
                      JanitorPlaces
<1>2. PlacesFit
  BY NoTaskAssumption DEF Init, PlacesFit, Idle, NoCall
<1> QED
  BY <1>1, <1>2

(* What a step does to the workers: one of them moves on, rests or takes the first task. *)
LEMMA WorkerStep ==
  ASSUME WorkersShaped, [Next]_vars
  PROVE  \/ worker' = worker
         \/ \E w \in Workers, place \in WorkerPlaces \ {"idle"} :
              /\ worker[w].at # "idle"
              /\ worker' = [worker EXCEPT ![w] = [at |-> place, task |-> worker[w].task]]
         \/ \E w \in Workers : worker' = [worker EXCEPT ![w] = Idle]
         \/ \E w \in Workers :
              /\ PopReady(w)
              /\ worker' = [worker EXCEPT ![w] = [at |-> "check", task |-> Head(ready)]]
<1>1. CASE UNCHANGED vars
  BY <1>1 DEF vars
<1>2. CASE Enqueue \/ Cancel \/ CleanUp \/ (\E t \in Tasks : KeyAges(t))
             \/ ClientDies \/ JanitorDies
  BY <1>2, OthersOnlyRelease
<1>3. ASSUME NEW w \in Workers, Dequeue(w) \/ Ack(w) \/ WorkerDies(w)
      PROVE  \/ PopReady(w)
             \/ WorkerGo(w, "idle")
             \/ worker[w].at # "idle" /\ \E place \in WorkerPlaces \ {"idle"} : WorkerGo(w, place)
  <2>1. CASE Dequeue(w)
    BY <2>1 DEF Dequeue, CheckAgain, PushBack, MarkUser, MarkGlobal, SetKey, SetTTL,
                SetProcessing, WorkerAt, WorkerPlaces, HoldsUserSlot, HoldsSlot
  <2>2. CASE Ack(w)
    BY <2>2 DEF Ack, UnmarkUser, UnmarkGlobal, ClearKey, SetOutcome, AddOutcome, WorkerAt,
                WorkerPlaces, HoldsUserSlot, HoldsSlot
  <2>3. CASE WorkerDies(w)
    BY <2>3 DEF WorkerDies
  <2> QED
    BY <1>3, <2>1, <2>2, <2>3
<1>4. ASSUME NEW w \in Workers, PopReady(w)
      PROVE  worker' = [worker EXCEPT ![w] = [at |-> "check", task |-> Head(ready)]]
  BY <1>4, PopMoves
<1>5. ASSUME NEW w \in Workers, WorkerGo(w, "idle")
      PROVE  worker' = [worker EXCEPT ![w] = Idle]
  BY <1>5, WorkerRests
<1>6. ASSUME NEW w \in Workers, NEW place \in WorkerPlaces \ {"idle"}, WorkerGo(w, place)
      PROVE  worker' = [worker EXCEPT ![w] = [at |-> place, task |-> worker[w].task]]
  <2>1. place # "idle"
    OBVIOUS
  <2> QED
    BY <1>6, <2>1, WorkerMoves
<1>7. ASSUME NEW w \in Workers, Dequeue(w) \/ Ack(w) \/ WorkerDies(w)
      PROVE  \/ \E place \in WorkerPlaces \ {"idle"} :
                  /\ worker[w].at # "idle"
                  /\ worker' = [worker EXCEPT ![w] = [at |-> place, task |-> worker[w].task]]
             \/ worker' = [worker EXCEPT ![w] = Idle]
             \/ /\ PopReady(w)
                /\ worker' = [worker EXCEPT ![w] = [at |-> "check", task |-> Head(ready)]]
  BY <1>3, <1>4, <1>5, <1>6, <1>7
<1> QED
  BY <1>1, <1>2, <1>7 DEF Next

LEMMA WorkersTypedStep ==
  ASSUME WorkersShaped, WorkersTyped, ready \in Seq(Tasks), [Next]_vars
  PROVE  WorkersTyped'
<1>1. CASE worker' = worker
  BY <1>1 DEF WorkersTyped
<1>2. ASSUME NEW w \in Workers, NEW place \in WorkerPlaces \ {"idle"}, worker[w].at # "idle",
             worker' = [worker EXCEPT ![w] = [at |-> place, task |-> worker[w].task]]
      PROVE  WorkersTyped'
  BY <1>2 DEF WorkersTyped
<1>3. ASSUME NEW w \in Workers, worker' = [worker EXCEPT ![w] = Idle]
      PROVE  WorkersTyped'
  BY <1>3 DEF WorkersTyped, Idle, WorkerPlaces
<1>4. ASSUME NEW w \in Workers, PopReady(w),
             worker' = [worker EXCEPT ![w] = [at |-> "check", task |-> Head(ready)]]
      PROVE  WorkersTyped'
  <2>1. ready # << >>
    BY <1>4 DEF PopReady
  <2>2. Head(ready) \in Tasks
    BY <2>1, TailCounts
  <2> QED
    BY <1>4, <2>2, NoTaskAssumption DEF WorkersTyped, WorkerPlaces
<1> QED
  BY <1>1, <1>2, <1>3, <1>4, WorkerStep

LEMMA JanitorTypedStep ==
  ASSUME JanitorTyped, disturbed \subseteq Tasks, expired \subseteq Tasks, [Next]_vars
  PROVE  JanitorTyped'
<1>1. ASSUME janitor' = janitor, disturbed \subseteq disturbed'
      PROVE  JanitorTyped'
  BY <1>1 DEF JanitorTyped
<1>2. CASE UNCHANGED vars
  BY <1>1, <1>2 DEF vars
<1>3. CASE Enqueue
  BY <1>1, <1>3 DEF Enqueue, CreateBatch, CheckUserLimit, CheckGlobalLimit, CreateHash, PushReady,
              ListTask
<1>4. CASE Cancel
  BY <1>1, <1>4 DEF Cancel, ReadToCancel, CancelUser, CancelGlobal, CancelKey, CancelReady,
                    CancelHash
<1>5. ASSUME NEW w \in Workers, Dequeue(w)
      PROVE  JanitorTyped'
  BY <1>1, <1>5 DEF Dequeue, PopReady, CheckAgain, PushBack, MarkUser, MarkGlobal, SetKey, SetTTL,
              SetProcessing
<1>6. ASSUME NEW w \in Workers, Ack(w) \/ WorkerDies(w)
      PROVE  JanitorTyped'
  BY <1>1, <1>6 DEF Ack, UnmarkUser, UnmarkGlobal, ClearKey, SetOutcome, AddOutcome, WorkerDies,
                    Die
<1>7. CASE (\E t \in Tasks : KeyAges(t)) \/ ClientDies
  BY <1>1, <1>7 DEF KeyAges, ClientDies, Die
<1>8. CASE JanitorDies
  BY <1>8 DEF JanitorDies, JanitorTyped, JanitorPlaces, Idle
<1>9. CASE CleanUp
  <2>1. ASSUME NEW t \in Tasks, FindExpired(t) PROVE JanitorTyped'
    BY <1>1, <2>1 DEF FindExpired
  <2>2. ASSUME NEW t \in Tasks, ExpireUser(t) PROVE JanitorTyped'
    BY <2>2, NoTaskAssumption DEF ExpireUser, JanitorTyped, JanitorPlaces
  <2>3. CASE ExpireGlobal \/ ExpireKey \/ Requeue \/ SetQueued
    <3>1. /\ disturbed' = disturbed /\ janitor.at # "idle"
          /\ \E place \in JanitorPlaces : JanitorGo(place)
      BY <2>3 DEF ExpireGlobal, ExpireKey, Requeue, SetQueued, JanitorAt, JanitorPlaces
    <3>2. PICK place \in JanitorPlaces : JanitorGo(place)
      BY <3>1
    <3>3. CASE place = "idle"
      BY <3>1, <3>2, <3>3 DEF JanitorGo, JanitorTyped, Idle
    <3>4. CASE place # "idle"
      <4>1. janitor' = [janitor EXCEPT !.at = place]
        BY <3>2, <3>4 DEF JanitorGo
      <4> QED
        BY <3>1, <3>4, <4>1 DEF JanitorTyped
    <3> QED
      BY <3>3, <3>4
  <2> QED
    BY <1>9, <2>1, <2>2, <2>3 DEF CleanUp
<1> QED
  BY <1>2, <1>3, <1>4, <1>5, <1>6, <1>7, <1>8, <1>9 DEF Next

(* What the steps of clients keep of the places.                            *)
ClientPlaced == client.task = NoTask <=> client.at \in {"idle", "symbol"}

LEMMA ClientPlacedStep ==
  ASSUME ClientShaped, ClientPlaced, [Next]_vars
  PROVE  ClientPlaced'
<1>1. CASE client' = client
  BY <1>1 DEF ClientPlaced
<1>2. CASE client' = NoCall
  BY <1>2 DEF ClientPlaced, NoCall
<1>3. ASSUME NEW place, client.at \notin {"idle", "symbol"}, place \notin {"idle", "symbol"},
             client' = [client EXCEPT !.at = place]
      PROVE  ClientPlaced'
  BY <1>3 DEF ClientPlaced, ClientShaped
<1>4. CASE \/ \E w \in Workers : Dequeue(w) \/ Ack(w) \/ WorkerDies(w)
           \/ CleanUp \/ (\E t \in Tasks : KeyAges(t)) \/ JanitorDies
  BY <1>1, <1>4, ClientsUndisturbed
<1>5. CASE Enqueue
  <2>1. ASSUME NEW submitted \in SUBSET Tasks, CreateBatch(submitted)
        PROVE  ClientPlaced'
    BY <2>1 DEF CreateBatch, ClientPlaced
  <2>2. ASSUME NEW t \in Tasks, CheckUserLimit(t)
        PROVE  ClientPlaced'
    <3>1. client' \in {NoCall, [client EXCEPT !.at = "checkGlobal", !.task = t]}
      BY <2>2 DEF CheckUserLimit
    <3> QED
      BY <1>2, <3>1, NoTaskAssumption DEF ClientPlaced, ClientShaped
  <2>3. CASE CheckGlobalLimit \/ CreateHash \/ PushReady
    BY <1>2, <1>3, <2>3 DEF CheckGlobalLimit, CreateHash, PushReady, ClientAt, ClientGo
  <2>4. CASE ListTask
    BY <1>2, <2>4 DEF ListTask, NextSymbol, ClientPlaced
  <2> QED
    BY <1>5, <2>1, <2>2, <2>3, <2>4 DEF Enqueue
<1>6. CASE Cancel
  <2>1. ASSUME NEW t \in Tasks, ReadToCancel(t)
        PROVE  ClientPlaced'
    BY <2>1, NoTaskAssumption DEF ReadToCancel, ClientPlaced
  <2>2. CASE CancelUser \/ CancelGlobal \/ CancelKey \/ CancelReady \/ CancelHash
    BY <1>2, <1>3, <2>2 DEF CancelUser, CancelGlobal, CancelKey, CancelReady, CancelHash, ClientAt,
                            ClientGo
  <2> QED
    BY <1>6, <2>1, <2>2 DEF Cancel
<1>7. CASE ClientDies
  BY <1>2, <1>7 DEF ClientDies
<1>8. CASE UNCHANGED vars
  BY <1>1, <1>8 DEF vars
<1> QED
  BY <1>4, <1>5, <1>6, <1>7, <1>8 DEF Next

(* What is stored in Redis, and the history.                                *)
RedisTyped ==
  /\ status \in [Tasks -> Statuses]
  /\ ready \in Seq(Tasks)
  /\ userSlots \subseteq Tasks /\ slots \subseteq Tasks
  /\ key \in [Tasks -> Keys]
  /\ ended \subseteq Tasks /\ unlisted \subseteq Tasks
  /\ expired \subseteq Tasks /\ disturbed \subseteq Tasks
  /\ upsets \in 0..MaxUpsets

LEMMA RedisTypedStep ==
  ASSUME TypeOK, PlacesFit, [Next]_vars
  PROVE  RedisTyped'
<1>0. RedisTyped
  BY DEF TypeOK, RedisTyped
<1>1. CASE UNCHANGED vars
  BY <1>0, <1>1 DEF RedisTyped, vars
<1>2. ASSUME Upset PROVE upsets' \in 0..MaxUpsets
  BY <1>0, <1>2, BoundAssumption DEF Upset, RedisTyped
<1>3. CASE Enqueue
  <2>1. CASE CreateHash
    <3>1. client.task \in Tasks
      BY <2>1 DEF CreateHash, ClientAt, PlacesFit, TypeOK
    <3> QED
      BY <1>0, <2>1, <3>1 DEF CreateHash, RedisTyped, Statuses
  <2>2. CASE PushReady
    <3>1. client.task \in Tasks
      BY <2>2 DEF PushReady, ClientAt, PlacesFit, TypeOK
    <3>2. Append(ready, client.task) \in Seq(Tasks)
      BY <1>0, <3>1, AppendProperties DEF RedisTyped
    <3> QED
      BY <1>0, <2>2, <3>2 DEF PushReady, RedisTyped
  <2>3. CASE \/ \E submitted \in SUBSET Tasks : CreateBatch(submitted)
             \/ \E t \in Tasks : CheckUserLimit(t)
             \/ CheckGlobalLimit \/ ListTask
    BY <1>0, <2>3 DEF CreateBatch, CheckUserLimit, CheckGlobalLimit, ListTask, RedisTyped
  <2> QED
    BY <1>3, <2>1, <2>2, <2>3 DEF Enqueue
<1>4. CASE Cancel
  <2>1. CASE CancelReady
    <3>1. Without(ready, client.task) \in Seq(Tasks)
      BY <1>0, WithoutCounts DEF RedisTyped
    <3> QED
      BY <1>0, <2>1, <3>1 DEF CancelReady, RedisTyped
  <2>2. CASE CancelUser \/ CancelGlobal \/ CancelKey \/ CancelHash
    BY <1>0, <2>2 DEF CancelUser, CancelGlobal, CancelKey, CancelHash, RedisTyped, Statuses, Keys
  <2>3. CASE \E t \in Tasks : ReadToCancel(t)
    BY <1>0, <1>2, <2>3 DEF ReadToCancel, RedisTyped
  <2> QED
    BY <1>4, <2>1, <2>2, <2>3 DEF Cancel
<1>5. CASE CleanUp
  <2>1. CASE Requeue
    <3>1. janitor.task \in Tasks
      BY <2>1 DEF Requeue, JanitorAt, PlacesFit, TypeOK
    <3>2. Append(ready, janitor.task) \in Seq(Tasks)
      BY <1>0, <3>1, AppendProperties DEF RedisTyped
    <3> QED
      BY <1>0, <2>1, <3>2 DEF Requeue, RedisTyped
  <2>2. CASE \E t \in Tasks : FindExpired(t) \/ ExpireUser(t)
    BY <1>0, <2>2 DEF FindExpired, ExpireUser, RedisTyped
  <2>3. CASE ExpireGlobal \/ ExpireKey \/ SetQueued
    BY <1>0, <2>3 DEF ExpireGlobal, ExpireKey, SetQueued, RedisTyped, Statuses, Keys
  <2> QED
    BY <1>5, <2>1, <2>2, <2>3 DEF CleanUp
<1>6. ASSUME NEW w \in Workers, Dequeue(w) \/ Ack(w)
      PROVE  RedisTyped'
  <2>1. CASE PopReady(w)
    <3>1. Tail(ready) \in Seq(Tasks)
      BY <1>0, <2>1, TailCounts DEF RedisTyped, PopReady
    <3> QED
      BY <1>0, <2>1, <3>1 DEF PopReady, RedisTyped
  <2>2. ASSUME worker[w].at # "idle" PROVE worker[w].task \in Tasks
    BY <2>2 DEF PlacesFit, TypeOK
  <2>3. CASE PushBack(w)
    <3>1. worker[w].task \in Tasks
      BY <2>2, <2>3 DEF PushBack, WorkerAt
    <3>2. Append(ready, worker[w].task) \in Seq(Tasks)
      BY <1>0, <3>1, AppendProperties DEF RedisTyped
    <3> QED
      BY <1>0, <2>3, <3>2 DEF PushBack, RedisTyped
  <2>4. CASE CheckAgain(w)
    BY <1>0, <2>4 DEF CheckAgain, RedisTyped
  <2>5. CASE MarkUser(w) \/ MarkGlobal(w)
    BY <1>0, <2>2, <2>5 DEF MarkUser, MarkGlobal, WorkerAt, RedisTyped
  <2>6. CASE SetKey(w) \/ ClearKey(w)
    BY <1>0, <2>6 DEF SetKey, ClearKey, RedisTyped, Keys
  <2>7. CASE SetTTL(w)
    <3>1. PICK k \in {"running", "slack"} :
            /\ key' = [key EXCEPT ![worker[w].task] = IF @ = "none" THEN @ ELSE k]
            /\ IF k = "slack" THEN Upset ELSE UNCHANGED upsets
      BY <2>7 DEF SetTTL
    <3>2. key' \in [Tasks -> Keys]
      BY <1>0, <3>1 DEF RedisTyped, Keys
    <3>3. upsets' \in 0..MaxUpsets
      BY <1>0, <1>2, <3>1 DEF RedisTyped
    <3> QED
      BY <1>0, <2>7, <3>2, <3>3 DEF SetTTL, RedisTyped
  <2>8. CASE SetProcessing(w) \/ SetOutcome(w)
    BY <1>0, <2>8 DEF SetProcessing, SetOutcome, RedisTyped, Statuses
  <2>9. CASE UnmarkUser(w) \/ UnmarkGlobal(w) \/ AddOutcome(w)
    BY <1>0, <2>2, <2>9 DEF UnmarkUser, UnmarkGlobal, AddOutcome, WorkerAt, RedisTyped
  <2> QED
    BY <1>6, <2>1, <2>3, <2>4, <2>5, <2>6, <2>7, <2>8, <2>9 DEF Dequeue, Ack
<1>7. ASSUME NEW w \in Workers, WorkerDies(w)
      PROVE  RedisTyped'
  <2>1. worker[w].task \in Tasks
    BY <1>7 DEF WorkerDies, Die, PlacesFit, TypeOK
  <2> QED
    BY <1>0, <1>2, <1>7, <2>1 DEF WorkerDies, Die, RedisTyped
<1>8. CASE ClientDies
  <2>1. {client.task} \ {NoTask} \subseteq Tasks
    BY DEF TypeOK
  <2> QED
    BY <1>0, <1>2, <1>8, <2>1 DEF ClientDies, Die, RedisTyped
<1>9. CASE JanitorDies
  <2>1. janitor.task \in Tasks
    BY <1>9 DEF JanitorDies, Die, PlacesFit, TypeOK
  <2> QED
    BY <1>0, <1>2, <1>9, <2>1 DEF JanitorDies, Die, RedisTyped
<1>10. CASE \E t \in Tasks : KeyAges(t)
  BY <1>0, <1>10 DEF KeyAges, RedisTyped, Keys
<1> QED
  BY <1>1, <1>3, <1>4, <1>5, <1>6, <1>7, <1>8, <1>9, <1>10 DEF Next

LEMMA TypesStep ==
  ASSUME WorkersShaped, ClientShaped', TypeOK, PlacesFit, [Next]_vars
  PROVE  TypeOK' /\ PlacesFit'
<1>1. WorkersTyped'
  BY WorkersTypedStep DEF WorkersTyped, TypeOK, PlacesFit
<1>2. JanitorTyped'
  BY JanitorTypedStep DEF JanitorTyped, TypeOK, PlacesFit
<1>3. ClientPlaced'
  BY ClientPlacedStep DEF ClientPlaced, ClientShaped, TypeOK, PlacesFit
<1>4. RedisTyped'
  BY RedisTypedStep
<1> QED
  BY <1>1, <1>2, <1>3, <1>4 DEF WorkersTyped, JanitorTyped, ClientPlaced, RedisTyped,
                                ClientShaped, TypeOK, PlacesFit

-----------------------------------------------------------------------------
(* The copies of a task                                                     *)

Hands(t) == {w \in Workers : worker[w].task = t}
Pushed(t) == IF client.at = "push" /\ client.task = t THEN 1 ELSE 0

LEMMA CopiesParts ==
  ASSUME ready \in Seq(Tasks), NEW t
  PROVE  /\ Copies(t) = Cardinality(Where(ready, t)) + Cardinality(Hands(t)) + Pushed(t)
         /\ Cardinality(Where(ready, t)) \in Nat /\ Pushed(t) \in {0, 1}
         /\ IsFiniteSet(Hands(t)) /\ Cardinality(Hands(t)) \in Nat
         /\ Copies(t) \in Nat
<1>1. Copies(t) = Cardinality(Where(ready, t)) + Cardinality(Hands(t)) + Pushed(t)
  BY DEF Copies, Where, Hands, Pushed
<1>2. Cardinality(Where(ready, t)) \in Nat
  BY WhereFinite
<1>3. IsFiniteSet(Hands(t))
  BY FS_Subset, WorkersAssumption DEF Hands
<1>4. Cardinality(Hands(t)) \in Nat
  BY <1>3, FS_CardinalityType
<1>5. Pushed(t) \in {0, 1}
  BY DEF Pushed
<1> QED
  BY <1>1, <1>2, <1>3, <1>4, <1>5

LEMMA CopiesPartsNext ==
  ASSUME ready' \in Seq(Tasks), NEW t
  PROVE  /\ Copies(t)' = Cardinality(Where(ready', t)) + Cardinality(Hands(t)') + Pushed(t)'
         /\ Cardinality(Where(ready', t)) \in Nat /\ Pushed(t)' \in {0, 1}
         /\ Cardinality(Hands(t)') \in Nat
         /\ Copies(t)' \in Nat
<1>1. Copies(t)' = Cardinality(Where(ready', t)) + Cardinality(Hands(t)') + Pushed(t)'
  BY DEF Copies, Where, Hands, Pushed
<1>2. Cardinality(Where(ready', t)) \in Nat
  BY WhereFinite
<1>3. IsFiniteSet(Hands(t)')
  BY FS_Subset, WorkersAssumption DEF Hands
<1>4. Cardinality(Hands(t)') \in Nat
  BY <1>3, FS_CardinalityType
<1>5. Pushed(t)' \in {0, 1}
  BY DEF Pushed
<1> QED
  BY <1>1, <1>2, <1>4, <1>5

(* A worker that changes its task moves one copy.                           *)
LEMMA HandsMove ==
  ASSUME WorkersShaped, NEW w \in Workers, NEW t
  PROVE  \A new : worker' = [worker EXCEPT ![w] = new] =>
           Cardinality(Hands(t)') + (IF worker[w].task = t THEN 1 ELSE 0)
             = Cardinality(Hands(t)) + (IF new.task = t THEN 1 ELSE 0)
<1> SUFFICES ASSUME NEW new, worker' = [worker EXCEPT ![w] = new]
             PROVE  Cardinality(Hands(t)') + (IF worker[w].task = t THEN 1 ELSE 0)
                      = Cardinality(Hands(t)) + (IF new.task = t THEN 1 ELSE 0)
  OBVIOUS
<1>1. Hands(t)' = (Hands(t) \ {w}) \cup (IF new.task = t THEN {w} ELSE {})
  BY DEF Hands, WorkersShaped
<1>2. w \in Hands(t) <=> worker[w].task = t
  BY DEF Hands
<1>3. IsFiniteSet(Hands(t))
  BY FS_Subset, WorkersAssumption DEF Hands
<1>4. Cardinality(Hands(t)) \in Nat
  BY <1>3, FS_CardinalityType
<1>5. /\ IsFiniteSet(Hands(t) \ {w})
      /\ Cardinality(Hands(t) \ {w}) = IF w \in Hands(t) THEN Cardinality(Hands(t)) - 1
                                                         ELSE Cardinality(Hands(t))
  BY <1>3, FS_RemoveElement
<1>6. CASE new.task = t
  <2>1. Cardinality((Hands(t) \ {w}) \cup {w}) = Cardinality(Hands(t) \ {w}) + 1
    BY <1>5, FS_AddElement
  <2>2. Hands(t)' = (Hands(t) \ {w}) \cup {w}
    BY <1>1, <1>6
  <2> QED
    BY <1>2, <1>4, <1>5, <1>6, <2>1, <2>2
<1>7. CASE new.task # t
  <2>1. Hands(t)' = Hands(t) \ {w}
    BY <1>1, <1>7
  <2> QED
    BY <1>2, <1>4, <1>5, <1>7, <2>1
<1> QED
  BY <1>6, <1>7

LEMMA RestCopies ==
  ASSUME TypeOK, WorkersShaped, NEW t \in Tasks, NEW w \in Workers,
         WorkerGo(w, "idle"), UNCHANGED <<ready, client>>
  PROVE  /\ Copies(t)' + (IF worker[w].task = t THEN 1 ELSE 0) = Copies(t)
         /\ Copies(t)' \in Nat /\ Copies(t) \in Nat
<1>1. ready \in Seq(Tasks) /\ ready' = ready /\ NoTask # t
  BY NoTaskAssumption DEF TypeOK
<1>2. /\ Copies(t) = Cardinality(Where(ready, t)) + Cardinality(Hands(t)) + Pushed(t)
      /\ Cardinality(Where(ready, t)) \in Nat /\ Pushed(t) \in {0, 1}
      /\ Cardinality(Hands(t)) \in Nat /\ Copies(t) \in Nat
  BY <1>1, CopiesParts
<1>3. /\ Copies(t)' = Cardinality(Where(ready', t)) + Cardinality(Hands(t)') + Pushed(t)'
      /\ Cardinality(Hands(t)') \in Nat /\ Copies(t)' \in Nat
  BY <1>1, CopiesPartsNext
<1>4. Pushed(t)' = Pushed(t)
  BY DEF Pushed
<1>5. worker' = [worker EXCEPT ![w] = Idle] /\ Idle.task = NoTask
  BY WorkerRests DEF Idle
<1>6. Cardinality(Hands(t)') + (IF worker[w].task = t THEN 1 ELSE 0)
        = Cardinality(Hands(t)) + (IF Idle.task = t THEN 1 ELSE 0)
  BY <1>5, HandsMove
<1> QED
  BY <1>1, <1>2, <1>3, <1>4, <1>5, <1>6

LEMMA CreateCopies ==
  ASSUME TypeOK, NEW t \in Tasks, CreateHash
  PROVE  Copies(t)' = Copies(t) + (IF client.task = t THEN 1 ELSE 0)
<1>1. ready \in Seq(Tasks) /\ ready' = ready /\ ClientShaped
  BY DEF TypeOK, ClientShaped, CreateHash
<1>2. client.at = "create" /\ client' = [client EXCEPT !.at = "push"] /\ worker' = worker
  BY DEF CreateHash, ClientAt, ClientGo
<1>3. Pushed(t) = 0 /\ Pushed(t)' = IF client.task = t THEN 1 ELSE 0
  BY <1>1, <1>2 DEF Pushed, ClientShaped
<1>4. Hands(t)' = Hands(t)
  BY <1>2 DEF Hands
<1>5. /\ Copies(t) = Cardinality(Where(ready, t)) + Cardinality(Hands(t)) + Pushed(t)
      /\ Cardinality(Where(ready, t)) \in Nat /\ Cardinality(Hands(t)) \in Nat
  BY <1>1, CopiesParts
<1>6. Copies(t)' = Cardinality(Where(ready', t)) + Cardinality(Hands(t)') + Pushed(t)'
  BY <1>1, CopiesPartsNext
<1> QED
  BY <1>1, <1>3, <1>4, <1>5, <1>6

(* Nothing else than this happens to the copies of a task that the clean-up does not    *)
(* have: one more when it is created, one less when it is acknowledged, none left when  *)
(* it is cancelled in the list; a call that dies may drop one.                          *)
CopiesChange(t) ==
  \/ Copies(t)' = Copies(t)
  \/ CreateHash /\ client.task = t /\ Copies(t)' = Copies(t) + 1
  \/ \E w \in Workers : AddOutcome(w) /\ worker[w].task = t /\ Copies(t)' = Copies(t) - 1
  \/ CancelReady /\ client.task = t /\ Copies(t)' <= Copies(t)
  \/ t \in disturbed' /\ Copies(t)' <= Copies(t)

LEMMA WorkerCopies ==
  ASSUME TypeOK, PlacesFit, WorkersShaped, NEW t \in Tasks, NEW w \in Workers,
         Dequeue(w) \/ Ack(w) \/ WorkerDies(w)
  PROVE  CopiesChange(t)
<1>0. ready \in Seq(Tasks) /\ NoTask # t
  BY NoTaskAssumption DEF TypeOK
<1>1. /\ Copies(t) = Cardinality(Where(ready, t)) + Cardinality(Hands(t)) + Pushed(t)
      /\ Cardinality(Where(ready, t)) \in Nat /\ Pushed(t) \in {0, 1}
      /\ Cardinality(Hands(t)) \in Nat
  BY <1>0, CopiesParts
<1>2. client' = client
  BY ClientsUndisturbed
<1>3. ASSUME ready' \in Seq(Tasks)
      PROVE  /\ Copies(t)' = Cardinality(Where(ready', t)) + Cardinality(Hands(t)') + Pushed(t)
             /\ Cardinality(Where(ready', t)) \in Nat /\ Cardinality(Hands(t)') \in Nat
  <2>1. /\ Copies(t)' = Cardinality(Where(ready', t)) + Cardinality(Hands(t)') + Pushed(t)'
        /\ Cardinality(Where(ready', t)) \in Nat /\ Cardinality(Hands(t)') \in Nat
    BY <1>3, CopiesPartsNext
  <2>2. Pushed(t)' = Pushed(t)
    BY <1>2 DEF Pushed
  <2> QED
    BY <2>1, <2>2
<1>4. ASSUME ready' = ready, NEW place, place # "idle", WorkerGo(w, place)
      PROVE  Copies(t)' = Copies(t)
  <2>1. worker' = [worker EXCEPT ![w] = [at |-> place, task |-> worker[w].task]]
    BY <1>4, WorkerMoves
  <2>2. Hands(t)' = Hands(t)
    BY <2>1 DEF Hands, WorkersShaped
  <2>3. Where(ready', t) = Where(ready, t)
    BY <1>4 DEF Where
  <2> QED
    BY <1>0, <1>1, <1>3, <1>4, <2>2, <2>3
<1>5. ASSUME WorkerGo(w, "idle")
      PROVE  Cardinality(Hands(t)') + (IF worker[w].task = t THEN 1 ELSE 0)
               = Cardinality(Hands(t))
  <2>1. worker' = [worker EXCEPT ![w] = Idle] /\ Idle.task = NoTask
    BY <1>5, WorkerRests DEF Idle
  <2>2. Cardinality(Hands(t)') + (IF worker[w].task = t THEN 1 ELSE 0)
          = Cardinality(Hands(t)) + (IF Idle.task = t THEN 1 ELSE 0)
    BY <2>1, HandsMove
  <2> QED
    BY <1>0, <1>1, <2>1, <2>2
<1>7. CASE Dequeue(w)
  <2>1. CASE PopReady(w)
    <3>1. ready # << >> /\ ready' = Tail(ready) /\ worker[w].at = "idle"
      BY <2>1 DEF PopReady, WorkerAt
    <3>2. worker' = [worker EXCEPT ![w] = [at |-> "check", task |-> Head(ready)]]
      BY <2>1, PopMoves
    <3>3. worker[w].task = NoTask
      BY <3>1 DEF PlacesFit
    <3>4. Cardinality(Hands(t)') + (IF worker[w].task = t THEN 1 ELSE 0)
            = Cardinality(Hands(t)) + (IF Head(ready) = t THEN 1 ELSE 0)
      <4> DEFINE new == [at |-> "check", task |-> Head(ready)]
      <4>1. new.task = Head(ready)
        OBVIOUS
      <4> HIDE DEF new
      <4>2. worker' = [worker EXCEPT ![w] = new]
        BY <3>2 DEF new
      <4>3. Cardinality(Hands(t)') + (IF worker[w].task = t THEN 1 ELSE 0)
              = Cardinality(Hands(t)) + (IF new.task = t THEN 1 ELSE 0)
        BY <4>2, HandsMove
      <4> QED
        BY <4>1, <4>3
    <3>5. /\ Tail(ready) \in Seq(Tasks)
          /\ Cardinality(Where(ready, t))
               = Cardinality(Where(Tail(ready), t)) + (IF Head(ready) = t THEN 1 ELSE 0)
      BY <1>0, <3>1, TailCounts
    <3>6. Where(ready', t) = Where(Tail(ready), t)
      BY <3>1 DEF Where
    <3>7. /\ Copies(t)' = Cardinality(Where(Tail(ready), t)) + Cardinality(Hands(t)') + Pushed(t)
          /\ Cardinality(Where(Tail(ready), t)) \in Nat /\ Cardinality(Hands(t)') \in Nat
      BY <1>3, <3>1, <3>5, <3>6
    <3>8. Copies(t)' = Copies(t)
      BY <1>0, <1>1, <3>3, <3>4, <3>5, <3>7
    <3> QED
      BY <3>8 DEF CopiesChange
  <2>2. CASE PushBack(w)
    <3>1. ready' = Append(ready, worker[w].task) /\ WorkerGo(w, "idle") /\ worker[w].at = "back"
      BY <2>2 DEF PushBack, WorkerAt
    <3>2. worker[w].task \in Tasks
      BY <3>1 DEF PlacesFit, TypeOK
    <3>3. /\ Append(ready, worker[w].task) \in Seq(Tasks)
          /\ Cardinality(Where(Append(ready, worker[w].task), t))
               = Cardinality(Where(ready, t)) + (IF worker[w].task = t THEN 1 ELSE 0)
      BY <1>0, <3>2, AppendCounts
    <3>4. Where(ready', t) = Where(Append(ready, worker[w].task), t)
      BY <3>1 DEF Where
    <3>5. Cardinality(Hands(t)') + (IF worker[w].task = t THEN 1 ELSE 0)
               = Cardinality(Hands(t))
      BY <1>5, <3>1
    <3>6. /\ Copies(t)' = Cardinality(Where(ready', t)) + Cardinality(Hands(t)') + Pushed(t)
          /\ Cardinality(Hands(t)') \in Nat
      BY <1>3, <3>1, <3>3
    <3>7. Copies(t)' = Copies(t)
      BY <1>1, <3>3, <3>4, <3>5, <3>6
    <3> QED
      BY <3>7 DEF CopiesChange
  <2>3. CASE CheckAgain(w)
    <3>1. PICK place \in {"markUser", "back"} : WorkerGo(w, place)
      BY <2>3 DEF CheckAgain
    <3> QED
      BY <1>4, <2>3, <3>1 DEF CheckAgain, CopiesChange
  <2>4. CASE MarkUser(w) \/ MarkGlobal(w)
    BY <1>4, <2>4 DEF MarkUser, MarkGlobal, CopiesChange
  <2>5. CASE SetKey(w) \/ SetTTL(w) \/ SetProcessing(w)
    BY <1>4, <2>5 DEF SetKey, SetTTL, SetProcessing, CopiesChange
  <2> QED
    BY <1>7, <2>1, <2>2, <2>3, <2>4, <2>5 DEF Dequeue
<1>8. CASE Ack(w)
  <2>1. CASE AddOutcome(w)
    <3>1. /\ Copies(t)' + (IF worker[w].task = t THEN 1 ELSE 0) = Copies(t)
          /\ Copies(t)' \in Nat /\ Copies(t) \in Nat
      BY <2>1, RestCopies DEF AddOutcome
    <3> QED
      BY <2>1, <3>1 DEF CopiesChange
  <2>2. CASE UnmarkUser(w) \/ UnmarkGlobal(w) \/ ClearKey(w) \/ SetOutcome(w)
    BY <1>4, <2>2 DEF UnmarkUser, UnmarkGlobal, ClearKey, SetOutcome, CopiesChange
  <2> QED
    BY <1>8, <2>1, <2>2 DEF Ack
<1>9. CASE WorkerDies(w)
  <2>1. /\ Copies(t)' + (IF worker[w].task = t THEN 1 ELSE 0) = Copies(t)
        /\ Copies(t)' \in Nat /\ Copies(t) \in Nat
    BY <1>9, RestCopies DEF WorkerDies
  <2>2. worker[w].task = t => t \in disturbed'
    BY <1>9 DEF WorkerDies, Die
  <2> QED
    BY <2>1, <2>2 DEF CopiesChange
<1> QED
  BY <1>7, <1>8, <1>9

(* What a client does to the list and to the task that it is about to push. *)
LEMMA ClientCopies ==
  ASSUME TypeOK, PlacesFit, NEW t \in Tasks, Enqueue \/ Cancel \/ ClientDies
  PROVE  CopiesChange(t)
<1>0. ready \in Seq(Tasks) /\ ClientShaped
  BY DEF TypeOK, ClientShaped
<1>1. /\ Copies(t) = Cardinality(Where(ready, t)) + Cardinality(Hands(t)) + Pushed(t)
      /\ Cardinality(Where(ready, t)) \in Nat /\ Pushed(t) \in {0, 1}
      /\ Cardinality(Hands(t)) \in Nat
  BY <1>0, CopiesParts
<1>2. Hands(t)' = Hands(t)
  BY OthersOnlyRelease DEF Hands
<1>3. ASSUME ready' \in Seq(Tasks)
      PROVE  /\ Copies(t)' = Cardinality(Where(ready', t)) + Cardinality(Hands(t)) + Pushed(t)'
             /\ Cardinality(Where(ready', t)) \in Nat
  BY <1>2, <1>3, CopiesPartsNext
<1>4. ASSUME ready' = ready, Pushed(t)' = Pushed(t)
      PROVE  CopiesChange(t)
  BY <1>0, <1>1, <1>3, <1>4 DEF CopiesChange
<1>5. ASSUME client.at # "push", client'.at # "push"
      PROVE  Pushed(t)' = Pushed(t)
  BY <1>5 DEF Pushed
<1>6. CASE Enqueue
  <2>1. CASE CreateHash
    <3>1. Copies(t)' = Copies(t) + (IF client.task = t THEN 1 ELSE 0)
      BY <2>1, CreateCopies
    <3>2. Copies(t) \in Nat
      BY <1>1
    <3> QED
      BY <2>1, <3>1, <3>2 DEF CopiesChange
  <2>2. CASE PushReady
    <3>1. client.at = "push" /\ ready' = Append(ready, client.task) /\ client'.at # "push"
      BY <1>0, <2>2 DEF PushReady, ClientAt, ClientGo, NoCall, ClientShaped
    <3>2. client.task \in Tasks
      BY <3>1 DEF PlacesFit, TypeOK
    <3>3. /\ Append(ready, client.task) \in Seq(Tasks)
          /\ Cardinality(Where(Append(ready, client.task), t))
               = Cardinality(Where(ready, t)) + (IF client.task = t THEN 1 ELSE 0)
      BY <1>0, <3>2, AppendCounts
    <3>4. Pushed(t) = (IF client.task = t THEN 1 ELSE 0) /\ Pushed(t)' = 0
      BY <3>1 DEF Pushed
    <3>5. Copies(t)' = Copies(t)
      BY <1>1, <1>3, <3>1, <3>3, <3>4
    <3> QED
      BY <3>5 DEF CopiesChange
  <2>3. ASSUME NEW submitted \in SUBSET Tasks, CreateBatch(submitted)
        PROVE  CopiesChange(t)
    BY <1>4, <1>5, <2>3 DEF CreateBatch, ClientAt
  <2>4. ASSUME NEW s \in Tasks, CheckUserLimit(s)
        PROVE  CopiesChange(t)
    <3> DEFINE checked == [client EXCEPT !.at = "checkGlobal", !.task = s]
    <3>1. client.at # "push" /\ ready' = ready
      BY <2>4 DEF CheckUserLimit, ClientAt
    <3>2. client' \in {NoCall, checked}
      BY <2>4 DEF CheckUserLimit
    <3>3. checked.at = "checkGlobal"
      BY <1>0 DEF ClientShaped
    <3> HIDE DEF checked
    <3>4. client'.at # "push"
      BY <3>2, <3>3 DEF NoCall
    <3> QED
      BY <1>4, <1>5, <3>1, <3>4
  <2>5. CASE CheckGlobalLimit
    <3>1. client.at # "push" /\ ready' = ready
      BY <2>5 DEF CheckGlobalLimit, ClientAt
    <3>2. client' \in {NoCall, [client EXCEPT !.at = "create"]}
      BY <2>5 DEF CheckGlobalLimit, ClientGo
    <3>3. client'.at # "push"
      BY <1>0, <3>2 DEF NoCall, ClientShaped
    <3> QED
      BY <1>4, <1>5, <3>1, <3>3
  <2>6. CASE ListTask
    <3>1. client.at # "push" /\ ready' = ready
      BY <2>6 DEF ListTask, ClientAt
    <3>2. client'.at # "push"
      BY <2>6 DEF ListTask, NextSymbol, NoCall
    <3> QED
      BY <1>4, <1>5, <3>1, <3>2
  <2> QED
    BY <1>6, <2>1, <2>2, <2>3, <2>4, <2>5, <2>6 DEF Enqueue
<1>7. CASE Cancel
  <2>1. ASSUME NEW s \in Tasks, ReadToCancel(s)
        PROVE  CopiesChange(t)
    <3>1. client.at # "push" /\ ready' = ready /\ client'.at # "push"
      BY <2>1 DEF ReadToCancel, ClientAt
    <3> QED
      BY <1>4, <1>5, <3>1
  <2>2. client.at # "push" /\ client'.at # "push"
    <3>1. ASSUME NEW place, place # "push", ClientGo(place) PROVE client'.at # "push"
      BY <1>0, <3>1 DEF ClientGo, NoCall, ClientShaped
    <3>2. ASSUME NEW s \in Tasks, ReadToCancel(s)
          PROVE  client.at # "push" /\ client'.at # "push"
      BY <3>2 DEF ReadToCancel, ClientAt
    <3> QED
      BY <1>7, <3>1, <3>2 DEF Cancel, CancelUser, CancelGlobal, CancelKey, CancelReady, CancelHash,
                              ClientAt
  <2>3. CASE CancelUser \/ CancelGlobal \/ CancelKey \/ CancelHash
    <3>1. ready' = ready
      BY <2>3 DEF CancelUser, CancelGlobal, CancelKey, CancelHash
    <3> QED
      BY <1>4, <1>5, <2>2, <3>1
  <2>4. CASE CancelReady
    <3>1. ready' = Without(ready, client.task)
      BY <2>4 DEF CancelReady
    <3>2. /\ ready' \in Seq(Tasks)
          /\ Where(ready', client.task) = {}
          /\ t # client.task => Cardinality(Where(ready', t)) = Cardinality(Where(ready, t))
      BY <1>0, <3>1, WithoutCounts
    <3>3. Cardinality({}) = 0
      BY FS_EmptySet
    <3>4. /\ Copies(t)' = Cardinality(Where(ready', t)) + Cardinality(Hands(t)) + Pushed(t)
          /\ Cardinality(Where(ready', t)) \in Nat
      BY <1>3, <1>5, <2>2, <3>2
    <3>5. CASE t = client.task
      <4>1. Cardinality(Where(ready', t)) = 0
        BY <3>2, <3>3, <3>5
      <4>2. Copies(t)' <= Copies(t)
        BY <1>1, <3>4, <4>1
      <4> QED
        BY <2>4, <3>5, <4>2 DEF CopiesChange
    <3>6. CASE t # client.task
      BY <1>1, <3>2, <3>4, <3>6 DEF CopiesChange
    <3> QED
      BY <3>5, <3>6
  <2> QED
    BY <1>7, <2>1, <2>3, <2>4 DEF Cancel
<1>8. CASE ClientDies
  <2>1. /\ ready' = ready /\ client' = NoCall
        /\ disturbed' = disturbed \cup ({client.task} \ {NoTask})
    BY <1>8 DEF ClientDies, Die
  <2>2. Pushed(t)' = 0
    BY <2>1 DEF Pushed, NoCall
  <2>3. Pushed(t) = 1 => t \in disturbed'
    BY <2>1, NoTaskAssumption DEF Pushed
  <2>4. Copies(t)' = Cardinality(Where(ready, t)) + Cardinality(Hands(t)) + Pushed(t)'
    BY <1>0, <1>3, <2>1
  <2>5. Copies(t)' + Pushed(t) = Copies(t) /\ Copies(t)' \in Nat
    BY <1>1, <2>2, <2>4
  <2> QED
    BY <1>1, <2>3, <2>5 DEF CopiesChange
<1> QED
  BY <1>6, <1>7, <1>8

LEMMA CopiesStep ==
  ASSUME TypeOK, PlacesFit, WorkersShaped, [Next]_vars, NEW t \in Tasks, t # janitor.task
  PROVE  CopiesChange(t)
<1>0. ready \in Seq(Tasks)
  BY DEF TypeOK
<1>1. ASSUME UNCHANGED <<ready, worker, client>>
      PROVE  CopiesChange(t)
  BY <1>1 DEF CopiesChange, Copies
<1>2. CASE UNCHANGED vars \/ (\E s \in Tasks : KeyAges(s)) \/ JanitorDies
  BY <1>1, <1>2 DEF vars, KeyAges, JanitorDies, Die
<1>3. CASE CleanUp
  <2>1. CASE Requeue
    <3>1. ready' = Append(ready, janitor.task) /\ janitor.at # "idle"
      BY <2>1 DEF Requeue, JanitorAt
    <3>2. janitor.task \in Tasks
      BY <3>1 DEF PlacesFit, TypeOK
    <3>3. /\ ready' \in Seq(Tasks)
          /\ Cardinality(Where(ready', t)) = Cardinality(Where(ready, t))
                                               + (IF janitor.task = t THEN 1 ELSE 0)
      BY <1>0, <3>1, <3>2, AppendCounts
    <3>4. Hands(t)' = Hands(t) /\ Pushed(t)' = Pushed(t)
      BY <2>1 DEF Requeue, Hands, Pushed
    <3>5. /\ Copies(t) = Cardinality(Where(ready, t)) + Cardinality(Hands(t)) + Pushed(t)
          /\ Cardinality(Where(ready, t)) \in Nat
      BY <1>0, CopiesParts
    <3>6. Copies(t)' = Cardinality(Where(ready', t)) + Cardinality(Hands(t)) + Pushed(t)
      BY <3>3, <3>4, CopiesPartsNext
    <3>7. Cardinality(Where(ready', t)) = Cardinality(Where(ready, t))
      BY <3>3, <3>5
    <3> QED
      BY <3>5, <3>6, <3>7 DEF CopiesChange
  <2>2. CASE \/ \E s \in Tasks : FindExpired(s) \/ ExpireUser(s)
             \/ ExpireGlobal \/ ExpireKey \/ SetQueued
    BY <1>1, <2>2 DEF FindExpired, ExpireUser, ExpireGlobal, ExpireKey, SetQueued
  <2> QED
    BY <1>3, <2>1, <2>2 DEF CleanUp
<1> QED
  BY <1>2, <1>3, WorkerCopies, ClientCopies DEF Next

-----------------------------------------------------------------------------
(* Deliveries                                                               *)

(* A task without a hash is nowhere, except with the client that checks the limits for  *)
(* it or is about to create it.                                                         *)
Nowhere(t) ==
  /\ Copies(t) = 0 /\ janitor.task # t
  /\ t \notin expired /\ key[t] = "none" /\ t \notin ended
  /\ client.task = t => client.at \in {"checkGlobal", "create"}
Unborn == \A t \in Tasks : status[t] = "absent" => Nowhere(t)
BornOnce == client.at \in {"checkGlobal", "create"} => status[client.task] = "absent"

(* The status is final before the task counts as ended.                     *)
Acknowledged ==
  \A w \in Workers : worker[w].at = "addOutcome" /\ worker[w].task \notin disturbed
                       => status[worker[w].task] # "queued"

DInv == Unborn /\ BornOnce /\ Acknowledged /\ DeliveredOnce /\ QueuedIsDeliverable

LEMMA NoCopies ==
  ASSUME ready \in Seq(Tasks), NEW t, Copies(t) = 0
  PROVE  /\ \A w \in Workers : worker[w].task # t
         /\ \A i \in DOMAIN ready : ready[i] # t
<1>1. /\ Copies(t) = Cardinality(Where(ready, t)) + Cardinality(Hands(t)) + Pushed(t)
      /\ Cardinality(Where(ready, t)) \in Nat /\ Pushed(t) \in {0, 1}
      /\ Cardinality(Hands(t)) \in Nat /\ IsFiniteSet(Hands(t))
  BY CopiesParts
<1>2. Cardinality(Hands(t)) = 0 /\ Cardinality(Where(ready, t)) = 0
  BY <1>1
<1>3. IsFiniteSet(Where(ready, t))
  BY WhereFinite
<1>4. Hands(t) = {} /\ Where(ready, t) = {}
  BY <1>1, <1>2, <1>3, FS_EmptySet
<1> QED
  BY <1>4 DEF Hands, Where

(* Who may write the status of a task.                                      *)
StatusChange(t) ==
  \/ status'[t] = status[t]
  \/ CreateHash /\ client.task = t /\ status'[t] = "queued"
  \/ SetQueued /\ janitor.task = t /\ status'[t] = "queued"
  \/ \E w \in Workers : worker[w].task = t /\ status'[t] \in {"processing", "ended"}
  \/ CancelHash /\ client.task = t /\ status'[t] = "cancelled"

LEMMA StatusStep ==
  ASSUME TypeOK, [Next]_vars, NEW t \in Tasks
  PROVE  StatusChange(t)
<1>1. ASSUME status' = status PROVE StatusChange(t)
  BY <1>1 DEF StatusChange
<1>2. status \in [Tasks -> Statuses]
  BY DEF TypeOK
<1>3. CASE Enqueue
  <2>1. CASE CreateHash
    BY <1>2, <2>1 DEF CreateHash, StatusChange
  <2>2. CASE ~CreateHash
    BY <1>1, <1>3, <2>2 DEF Enqueue, CreateBatch, CheckUserLimit, CheckGlobalLimit, PushReady,
                            ListTask
  <2> QED
    BY <2>1, <2>2
<1>4. CASE Cancel
  <2>1. CASE CancelHash
    BY <1>2, <2>1 DEF CancelHash, StatusChange
  <2>2. CASE ~CancelHash
    BY <1>1, <1>4, <2>2 DEF Cancel, ReadToCancel, CancelUser, CancelGlobal, CancelKey, CancelReady
  <2> QED
    BY <2>1, <2>2
<1>5. CASE CleanUp
  <2>1. CASE SetQueued
    BY <1>2, <2>1 DEF SetQueued, StatusChange
  <2>2. CASE ~SetQueued
    BY <1>1, <1>5, <2>2 DEF CleanUp, FindExpired, ExpireUser, ExpireGlobal, ExpireKey, Requeue
  <2> QED
    BY <2>1, <2>2
<1>6. ASSUME NEW w \in Workers, Dequeue(w) \/ Ack(w) \/ WorkerDies(w)
      PROVE  StatusChange(t)
  <2>1. CASE SetProcessing(w)
    BY <1>2, <2>1 DEF SetProcessing, StatusChange
  <2>2. CASE SetOutcome(w)
    BY <1>2, <2>2 DEF SetOutcome, StatusChange
  <2>3. CASE ~SetProcessing(w) /\ ~SetOutcome(w)
    BY <1>1, <1>6, <2>3 DEF Dequeue, PopReady, CheckAgain, PushBack, MarkUser, MarkGlobal, SetKey,
                            SetTTL, Ack, UnmarkUser, UnmarkGlobal, ClearKey, AddOutcome,
                            WorkerDies
  <2> QED
    BY <2>1, <2>2, <2>3
<1>7. CASE UNCHANGED vars \/ (\E s \in Tasks : KeyAges(s)) \/ ClientDies \/ JanitorDies
  BY <1>1, <1>7 DEF vars, KeyAges, ClientDies, JanitorDies
<1> QED
  BY <1>3, <1>4, <1>5, <1>6, <1>7 DEF Next

(* A task without a hash has no visibility key, is not found expired, is not in the     *)
(* hands of the clean-up and does not end.                                              *)
LEMMA UntouchedStep ==
  ASSUME TypeOK, [Next]_vars, NEW t \in Tasks, Nowhere(t)
  PROVE  janitor'.task # t /\ t \notin expired' /\ key'[t] = "none" /\ t \notin ended'
<1> DEFINE Goal ==
      janitor'.task # t /\ t \notin expired' /\ key'[t] = "none" /\ t \notin ended'
<1>0. /\ janitor.task # t /\ t \notin expired /\ key[t] = "none" /\ t \notin ended
      /\ key \in [Tasks -> Keys] /\ NoTask # t
      /\ janitor \in [at : JanitorPlaces, task : Tasks \cup {NoTask}]
      /\ client.task = t => client.at \in {"checkGlobal", "create"}
  BY NoTaskAssumption DEF Nowhere, TypeOK
<1>1. ASSUME NEW w \in Workers PROVE worker[w].task # t
  BY NoCopies DEF Nowhere, TypeOK
<1>2. ASSUME UNCHANGED <<janitor, expired, key, ended>>
      PROVE  Goal
  BY <1>0, <1>2 
<1>3. CASE Enqueue
  BY <1>2, <1>3 DEF Enqueue, CreateBatch, CheckUserLimit, CheckGlobalLimit, CreateHash, PushReady,
                    ListTask
<1>4. CASE Cancel
  <2>1. CASE CancelKey
    BY <1>0, <2>1 DEF CancelKey
  <2>2. CASE ~CancelKey
    BY <1>2, <1>4, <2>2 DEF Cancel, ReadToCancel, CancelUser, CancelGlobal, CancelReady, CancelHash
  <2> QED
    BY <2>1, <2>2
<1>5. CASE CleanUp
  <2>1. ASSUME NEW s \in Tasks, FindExpired(s) PROVE Goal
    BY <1>0, <2>1 DEF FindExpired
  <2>2. ASSUME NEW s \in Tasks, ExpireUser(s) PROVE Goal
    BY <1>0, <2>2 DEF ExpireUser
  <2>3. CASE ExpireGlobal \/ ExpireKey \/ Requeue \/ SetQueued
    <3>1. \E place : JanitorGo(place)
      BY <2>3 DEF ExpireGlobal, ExpireKey, Requeue, SetQueued
    <3>2. janitor'.task \in {janitor.task, NoTask}
      BY <1>0, <3>1 DEF JanitorGo, Idle
    <3> QED
      BY <1>0, <2>3, <3>2 DEF ExpireGlobal, ExpireKey, Requeue, SetQueued
  <2> QED
    BY <1>5, <2>1, <2>2, <2>3 DEF CleanUp
<1>6. ASSUME NEW w \in Workers, Dequeue(w) \/ Ack(w) \/ WorkerDies(w)
      PROVE  Goal
  <2>1. CASE SetKey(w) \/ SetTTL(w) \/ ClearKey(w)
    BY <1>0, <1>1, <2>1 DEF SetKey, SetTTL, ClearKey
  <2>2. CASE AddOutcome(w)
    BY <1>0, <1>1, <2>2 DEF AddOutcome
  <2>3. CASE ~(SetKey(w) \/ SetTTL(w) \/ ClearKey(w) \/ AddOutcome(w))
    BY <1>2, <1>6, <2>3 DEF Dequeue, PopReady, CheckAgain, PushBack, MarkUser, MarkGlobal,
                            SetProcessing, Ack, UnmarkUser, UnmarkGlobal, SetOutcome, WorkerDies
  <2> QED
    BY <2>1, <2>2, <2>3
<1>7. ASSUME NEW s \in Tasks, KeyAges(s) PROVE Goal
  BY <1>0, <1>7 DEF KeyAges
<1>8. CASE JanitorDies
  BY <1>0, <1>8 DEF JanitorDies, Idle
<1>9. CASE UNCHANGED vars \/ ClientDies
  BY <1>2, <1>9 DEF vars, ClientDies
<1> QED
  BY <1>3, <1>4, <1>5, <1>6, <1>7, <1>8, <1>9 DEF Next

LEMMA UnbornClientStep ==
  ASSUME TypeOK, [Next]_vars, NEW t \in Tasks, status[t] = "absent", status'[t] = "absent",
         client.task = t => client.at \in {"checkGlobal", "create"}
  PROVE  client'.task = t => client'.at \in {"checkGlobal", "create"}
<1> DEFINE Goal == client'.task = t => client'.at \in {"checkGlobal", "create"}
<1>0. ClientShaped /\ NoTask # t /\ status \in [Tasks -> Statuses]
  BY NoTaskAssumption DEF TypeOK, ClientShaped
<1>1. CASE client' = client
  BY <1>1
<1>2. CASE client'.task = NoTask
  BY <1>0, <1>2
<1>3. CASE Enqueue
  <2>1. ASSUME NEW submitted \in SUBSET Tasks, CreateBatch(submitted) PROVE Goal
    BY <1>2, <2>1 DEF CreateBatch
  <2>2. ASSUME NEW s \in Tasks, CheckUserLimit(s) PROVE Goal
    <3> DEFINE checked == [client EXCEPT !.at = "checkGlobal", !.task = s]
    <3>1. client' \in {NoCall, checked}
      BY <2>2 DEF CheckUserLimit
    <3>2. checked.at = "checkGlobal"
      BY <1>0 DEF ClientShaped
    <3> HIDE DEF checked
    <3> QED
      BY <1>0, <3>1, <3>2 DEF NoCall
  <2>3. CASE CheckGlobalLimit
    <3>1. client' \in {NoCall, [client EXCEPT !.at = "create"]}
      BY <2>3 DEF CheckGlobalLimit, ClientGo
    <3> QED
      BY <1>0, <3>1 DEF NoCall, ClientShaped
  <2>4. CASE CreateHash
    <3>1. client.task # t
      BY <1>0, <2>4 DEF CreateHash
    <3>2. client'.task = client.task
      BY <1>0, <2>4 DEF CreateHash, ClientGo, ClientShaped
    <3> QED
      BY <3>1, <3>2
  <2>5. CASE PushReady
    <3>1. client.at = "push"
      BY <2>5 DEF PushReady, ClientAt
    <3>2. client'.task \in {client.task, NoTask}
      BY <1>0, <2>5 DEF PushReady, ClientGo, NoCall, ClientShaped
    <3> QED
      BY <1>0, <3>1, <3>2
  <2>6. CASE ListTask
    BY <1>2, <2>6 DEF ListTask, NextSymbol, NoCall
  <2> QED
    BY <1>3, <2>1, <2>2, <2>3, <2>4, <2>5, <2>6 DEF Enqueue
<1>4. CASE Cancel
  <2>1. ASSUME NEW s \in Tasks, ReadToCancel(s) PROVE Goal
    <3>1. client'.task = s /\ s # t
      BY <2>1 DEF ReadToCancel
    <3> QED
      BY <3>1
  <2>2. CASE CancelUser \/ CancelGlobal \/ CancelKey \/ CancelReady \/ CancelHash
    <3>1. /\ client.at \in {"cancelUser", "cancelGlobal", "cancelKey", "cancelReady", "cancelHash"}
          /\ \E place : ClientGo(place)
      BY <2>2 DEF CancelUser, CancelGlobal, CancelKey, CancelReady, CancelHash, ClientAt
    <3>2. client'.task \in {client.task, NoTask}
      BY <1>0, <3>1 DEF ClientGo, NoCall, ClientShaped
    <3> QED
      BY <1>0, <3>1, <3>2
  <2> QED
    BY <1>4, <2>1, <2>2 DEF Cancel
<1>5. CASE ClientDies
  BY <1>2, <1>5 DEF ClientDies, NoCall
<1>6. CASE UNCHANGED vars
  BY <1>1, <1>6 DEF vars
<1> QED
  BY <1>1, <1>3, <1>4, <1>5, <1>6, ClientsUndisturbed DEF Next

LEMMA UnbornStep ==
  ASSUME TypeOK, PlacesFit, WorkersShaped, Unborn, [Next]_vars, TypeOK'
  PROVE  Unborn'
<1> SUFFICES ASSUME NEW t \in Tasks, status'[t] = "absent"
             PROVE  Nowhere(t)'
  BY DEF Unborn
<1>1. StatusChange(t)
  BY StatusStep
<1>2. status[t] = "absent"
  BY <1>1 DEF StatusChange
<1>3. Nowhere(t)
  BY <1>2 DEF Unborn
<1>4. janitor'.task # t /\ t \notin expired' /\ key'[t] = "none" /\ t \notin ended'
  BY <1>3, UntouchedStep
<1>5. client'.task = t => client'.at \in {"checkGlobal", "create"}
  BY <1>2, <1>3, UnbornClientStep DEF Nowhere
<1>6. Copies(t)' = 0
  <2>1. CopiesChange(t)
    BY <1>3, CopiesStep DEF Nowhere
  <2>2. Copies(t) = 0 /\ Copies(t)' \in Nat
    BY <1>3, CopiesPartsNext DEF Nowhere, TypeOK
  <2>3. ~(CreateHash /\ client.task = t)
    <3>1. status \in [Tasks -> Statuses]
      BY DEF TypeOK
    <3> QED
      BY <3>1 DEF CreateHash
  <2>4. \A w \in Workers : worker[w].task # t
    BY <1>3, NoCopies DEF Nowhere, TypeOK
  <2> QED
    BY <2>1, <2>2, <2>3, <2>4 DEF CopiesChange
<1> QED
  BY <1>4, <1>5, <1>6 DEF Nowhere

LEMMA BornOnceStep ==
  ASSUME TypeOK, PlacesFit, Unborn, BornOnce, [Next]_vars
  PROVE  BornOnce'
<1>0. ClientShaped /\ status \in [Tasks -> Statuses]
  BY DEF TypeOK, ClientShaped
<1>1. ASSUME client'.at \notin {"checkGlobal", "create"} PROVE BornOnce'
  BY <1>1 DEF BornOnce
<1>2. ASSUME client'.at \in {"checkGlobal", "create"}, client'.task = client.task,
             client.at \in {"checkGlobal", "create"}, ~CreateHash
      PROVE  BornOnce'
  <2>1. client.task \in Tasks /\ status[client.task] = "absent"
    BY <1>2 DEF BornOnce, PlacesFit, TypeOK
  <2>2. StatusChange(client.task)
    BY <2>1, StatusStep
  <2>3. \A w \in Workers : worker[w].task # client.task
    BY <2>1, NoCopies DEF Unborn, Nowhere, TypeOK
  <2>4. janitor.task # client.task
    BY <2>1 DEF Unborn, Nowhere
  <2>5. ~CancelHash
    BY <1>2 DEF CancelHash, ClientAt
  <2> QED
    BY <1>2, <2>1, <2>2, <2>3, <2>4, <2>5 DEF StatusChange, BornOnce
<1>3. CASE client' = client
  <2>1. ~CreateHash \/ client'.at \notin {"checkGlobal", "create"}
    BY <1>0, <1>3 DEF CreateHash, ClientAt, ClientGo, ClientShaped
  <2> QED
    BY <1>1, <1>2, <1>3, <2>1
<1>4. CASE Enqueue
  <2>1. ASSUME NEW submitted \in SUBSET Tasks, CreateBatch(submitted) PROVE BornOnce'
    BY <1>1, <2>1 DEF CreateBatch
  <2>2. ASSUME NEW s \in Tasks, CheckUserLimit(s) PROVE BornOnce'
    <3> DEFINE checked == [client EXCEPT !.at = "checkGlobal", !.task = s]
    <3>1. client' \in {NoCall, checked} /\ status' = status /\ status[s] = "absent"
      BY <2>2 DEF CheckUserLimit
    <3>2. checked.task = s
      BY <1>0 DEF ClientShaped
    <3> HIDE DEF checked
    <3> QED
      BY <3>1, <3>2 DEF NoCall, BornOnce
  <2>3. CASE CheckGlobalLimit
    <3>1. /\ client' \in {NoCall, [client EXCEPT !.at = "create"]}
          /\ status' = status /\ client.at = "checkGlobal"
      BY <2>3 DEF CheckGlobalLimit, ClientGo, ClientAt
    <3> QED
      BY <1>0, <3>1 DEF NoCall, ClientShaped, BornOnce
  <2>4. CASE CreateHash
    <3>1. client'.at = "push"
      BY <1>0, <2>4 DEF CreateHash, ClientGo, ClientShaped
    <3> QED
      BY <1>1, <3>1
  <2>5. CASE PushReady
    <3>1. client'.at \in {"list", "idle"}
      BY <1>0, <2>5 DEF PushReady, ClientGo, NoCall, ClientShaped
    <3> QED
      BY <1>1, <3>1
  <2>6. CASE ListTask
    BY <1>1, <2>6 DEF ListTask, NextSymbol, NoCall
  <2> QED
    BY <1>4, <2>1, <2>2, <2>3, <2>4, <2>5, <2>6 DEF Enqueue
<1>5. CASE Cancel
  <2>1. ASSUME NEW s \in Tasks, ReadToCancel(s) PROVE BornOnce'
    BY <1>1, <2>1 DEF ReadToCancel
  <2>2. CASE CancelUser \/ CancelGlobal \/ CancelKey \/ CancelReady \/ CancelHash
    <3>1. \E place \in {"idle", "cancelGlobal", "cancelKey", "cancelHash"} : ClientGo(place)
      BY <2>2 DEF CancelUser, CancelGlobal, CancelKey, CancelReady, CancelHash
    <3>2. client'.at \in {"idle", "cancelGlobal", "cancelKey", "cancelHash"}
      BY <1>0, <3>1 DEF ClientGo, NoCall, ClientShaped
    <3> QED
      BY <1>1, <3>2
  <2> QED
    BY <1>5, <2>1, <2>2 DEF Cancel
<1>6. CASE ClientDies
  BY <1>1, <1>6 DEF ClientDies, NoCall
<1> QED
  BY <1>3, <1>4, <1>5, <1>6, ClientsUndisturbed DEF Next, vars

LEMMA EndedStep ==
  ASSUME [Next]_vars
  PROVE  \/ ended' = ended
         \/ \E w \in Workers : AddOutcome(w) /\ ended' = ended \cup {worker[w].task}
<1>1. CASE Enqueue \/ Cancel \/ CleanUp
  BY <1>1 DEF Enqueue, CreateBatch, CheckUserLimit, CheckGlobalLimit, CreateHash, PushReady,
              ListTask, Cancel, ReadToCancel, CancelUser, CancelGlobal, CancelKey, CancelReady,
              CancelHash, CleanUp, FindExpired, ExpireUser, ExpireGlobal, ExpireKey, Requeue,
              SetQueued
<1>2. ASSUME NEW w \in Workers, Dequeue(w) \/ WorkerDies(w)
      PROVE  ended' = ended
  BY <1>2 DEF Dequeue, PopReady, CheckAgain, PushBack, MarkUser, MarkGlobal, SetKey, SetTTL,
              SetProcessing, WorkerDies
<1>3. ASSUME NEW w \in Workers, Ack(w)
      PROVE  ended' = ended \/ (AddOutcome(w) /\ ended' = ended \cup {worker[w].task})
  BY <1>3 DEF Ack, UnmarkUser, UnmarkGlobal, ClearKey, SetOutcome, AddOutcome
<1>4. CASE UNCHANGED vars \/ (\E t \in Tasks : KeyAges(t)) \/ ClientDies \/ JanitorDies
  BY <1>4 DEF vars, KeyAges, ClientDies, JanitorDies
<1> QED
  BY <1>1, <1>2, <1>3, <1>4 DEF Next

LEMMA DisturbedGrows ==
  ASSUME [Next]_vars
  PROVE  disturbed \subseteq disturbed'
BY OthersOnlyRelease, ClientsUndisturbed DEF Next, vars

LEMMA AcknowledgedStep ==
  ASSUME TypeOK, PlacesFit, WorkersShaped, Unborn, BornOnce, Acknowledged, [Next]_vars
  PROVE  Acknowledged'
<1> SUFFICES ASSUME NEW w \in Workers, worker'[w].at = "addOutcome",
                    worker'[w].task \notin disturbed'
             PROVE  status'[worker'[w].task] # "queued"
  BY DEF Acknowledged
<1> DEFINE t == worker[w].task
<1>0. status \in [Tasks -> Statuses]
  BY DEF TypeOK
<1>1. CASE worker'[w] = worker[w]
  <2>1. t \in Tasks /\ t \notin disturbed /\ status[t] # "queued"
    BY <1>1, DisturbedGrows DEF PlacesFit, TypeOK, Acknowledged
  <2>2. StatusChange(t)
    BY <2>1, StatusStep
  <2>3. ~(CreateHash /\ client.task = t)
    <3> SUFFICES ASSUME CreateHash, client.task = t PROVE FALSE
      OBVIOUS
    <3>1. status[t] = "absent"
      BY DEF BornOnce, CreateHash, ClientAt
    <3> QED
      BY <2>1, <3>1, NoCopies DEF Unborn, Nowhere, TypeOK
  <2>4. janitor.task # t
    BY <2>1, NoTaskAssumption DEF PlacesFit
  <2> HIDE DEF t
  <2> QED
    BY <1>1, <2>1, <2>2, <2>3, <2>4 DEF StatusChange, t
<1>2. CASE worker'[w] # worker[w]
  <2>1. Next
    BY <1>2 DEF vars
  <2>2. PICK v \in Workers : Dequeue(v) \/ Ack(v) \/ WorkerDies(v)
    BY <1>2, <2>1, OthersOnlyRelease DEF Next
  <2>3. CASE SetOutcome(v)
    <3>1. /\ worker' = [worker EXCEPT ![v] = [at |-> "addOutcome", task |-> worker[v].task]]
          /\ worker[v].at = "setOutcome"
      BY <2>3, WorkerMoves DEF SetOutcome, WorkerAt
    <3>2. v = w /\ worker'[w].task = worker[v].task
      BY <1>2, <3>1 DEF WorkersShaped
    <3>3. worker[v].task \in Tasks
      BY <3>1 DEF PlacesFit, TypeOK
    <3> QED
      BY <1>0, <2>3, <3>2, <3>3 DEF SetOutcome
  <2>4. CASE ~SetOutcome(v)
    <3>1. \/ PopReady(v)
          \/ \E place \in WorkerPlaces \ {"addOutcome"} : WorkerGo(v, place)
      <4>1. CASE Dequeue(v)
        BY <4>1 DEF Dequeue, CheckAgain, PushBack, MarkUser, MarkGlobal, SetKey, SetTTL,
                    SetProcessing, WorkerPlaces, HoldsUserSlot, HoldsSlot
      <4>2. CASE Ack(v)
        BY <2>4, <4>2 DEF Ack, UnmarkUser, UnmarkGlobal, ClearKey, AddOutcome,
                    WorkerPlaces, HoldsUserSlot, HoldsSlot
      <4>3. CASE WorkerDies(v)
        BY <4>3 DEF WorkerDies, WorkerPlaces
      <4> QED
        BY <2>2, <4>1, <4>2, <4>3
    <3>2. ASSUME NEW place \in WorkerPlaces \ {"addOutcome"}, WorkerGo(v, place)
          PROVE  worker'[v].at # "addOutcome" /\ (v # w => worker'[w] = worker[w])
      <4>1. CASE place = "idle"
        BY <3>2, <4>1, WorkerRests DEF WorkersShaped, Idle
      <4>2. CASE place # "idle"
        <5>1. worker' = [worker EXCEPT ![v] = [at |-> place, task |-> worker[v].task]]
          BY <3>2, <4>2, WorkerMoves
        <5> QED
          BY <5>1 DEF WorkersShaped
      <4> QED
        BY <4>1, <4>2
    <3>3. ASSUME PopReady(v)
          PROVE  worker'[v].at # "addOutcome" /\ (v # w => worker'[w] = worker[w])
      <4>1. worker' = [worker EXCEPT ![v] = [at |-> "check", task |-> Head(ready)]]
        BY <3>3, PopMoves
      <4> QED
        BY <4>1 DEF WorkersShaped
    <3>4. worker'[v].at # "addOutcome" /\ (v # w => worker'[w] = worker[w])
      BY <3>1, <3>2, <3>3
    <3> QED
      BY <1>2, <3>4
  <2> QED
    BY <2>3, <2>4
<1> QED
  BY <1>1, <1>2

LEMMA DeliveryStep ==
  ASSUME TypeOK, PlacesFit, WorkersShaped, DInv, [Next]_vars, TypeOK'
  PROVE  DeliveredOnce' /\ QueuedIsDeliverable'
<1> SUFFICES ASSUME NEW t \in Tasks \ disturbed'
             PROVE  /\ Copies(t)' <= 1
                    /\ t \in ended' => Copies(t)' = 0
                    /\ status'[t] = "queued" =>
                         Copies(t)' = 1 \/ (client'.at = "cancelHash" /\ client'.task = t)
  BY DEF DeliveredOnce, QueuedIsDeliverable
<1>1. t \in Tasks \ disturbed /\ janitor.task # t /\ NoTask # t
  BY DisturbedGrows, NoTaskAssumption DEF PlacesFit
<1>2. /\ Copies(t) <= 1 /\ (t \in ended => Copies(t) = 0)
      /\ status[t] = "queued" =>
           Copies(t) = 1 \/ (client.at = "cancelHash" /\ client.task = t)
  BY <1>1 DEF DInv, DeliveredOnce, QueuedIsDeliverable
<1>3. Copies(t) \in Nat /\ Copies(t)' \in Nat
  <2>1. ready \in Seq(Tasks) /\ ready' \in Seq(Tasks)
    BY DEF TypeOK
  <2>2. Copies(t) \in Nat
    BY <2>1, CopiesParts
  <2>3. Copies(t)' \in Nat
    BY <2>1, CopiesPartsNext
  <2> QED
    BY <2>2, <2>3
<1>4. CopiesChange(t)
  BY <1>1, CopiesStep
<1>5. ASSUME CreateHash, client.task = t
      PROVE  /\ Copies(t) = 0 /\ Copies(t)' = 1 /\ t \notin ended
             /\ status[t] = "absent" /\ ended' = ended
  <2>1. status[t] = "absent"
    BY <1>5 DEF CreateHash, ClientAt, DInv, BornOnce
  <2>2. Copies(t) = 0 /\ t \notin ended
    BY <1>1, <2>1 DEF DInv, Unborn, Nowhere
  <2>3. Copies(t)' = Copies(t) + 1
    BY <1>1, <1>5, CreateCopies
  <2> QED
    BY <1>5, <2>1, <2>2, <2>3 DEF CreateHash
<1>6. ASSUME NEW w \in Workers, AddOutcome(w), worker[w].task = t
      PROVE  Copies(t)' + 1 = Copies(t) /\ status[t] # "queued"
  <2>1. Copies(t)' + (IF worker[w].task = t THEN 1 ELSE 0) = Copies(t)
    BY <1>1, <1>6, RestCopies DEF AddOutcome
  <2>2. status[t] # "queued"
    BY <1>1, <1>6 DEF AddOutcome, WorkerAt, DInv, Acknowledged
  <2> QED
    BY <1>6, <2>1, <2>2
<1>7. Copies(t)' <= 1
  BY <1>2, <1>3, <1>4, <1>5, <1>6 DEF CopiesChange
<1>8. t \in ended' => Copies(t)' = 0
  <2>1. CASE t \in ended
    BY <1>2, <1>3, <1>4, <1>5, <1>6, <2>1 DEF CopiesChange
  <2>2. ASSUME t \in ended', t \notin ended PROVE Copies(t)' = 0
    <3>1. PICK w \in Workers : AddOutcome(w) /\ ended' = ended \cup {worker[w].task}
      BY <2>2, EndedStep
    <3>2. worker[w].task = t
      BY <2>2, <3>1
    <3>3. Copies(t)' + 1 = Copies(t)
      BY <1>6, <3>1, <3>2
    <3> QED
      BY <1>2, <1>3, <3>3
  <2> QED
    BY <2>1, <2>2
<1>9. ASSUME status'[t] = "queued"
      PROVE  Copies(t)' = 1 \/ (client'.at = "cancelHash" /\ client'.task = t)
  <2>1. StatusChange(t)
    BY <1>1, StatusStep
  <2>2. (CreateHash /\ client.task = t) \/ status[t] = "queued"
    BY <1>1, <1>9, <2>1 DEF StatusChange
  <2>3. CASE CreateHash /\ client.task = t
    BY <1>5, <2>3
  <2>4. CASE status[t] = "queued" /\ Copies(t) = 1
    <3>1. CASE Copies(t)' = Copies(t)
      BY <2>4, <3>1
    <3>2. CASE CancelReady /\ client.task = t
      <4>1. client'.at = "cancelHash" /\ client'.task = t
        BY <3>2 DEF CancelReady, ClientGo, TypeOK
      <4> QED
        BY <4>1
    <3> QED
      BY <1>4, <1>5, <1>6, <2>4, <3>1, <3>2 DEF CopiesChange
  <2>5. CASE status[t] = "queued" /\ client.at = "cancelHash" /\ client.task = t
    <3>1. client' = client \/ CancelHash \/ ClientDies
      <4>1. CASE Enqueue
        BY <2>5, <4>1 DEF Enqueue, CreateBatch, CheckUserLimit, CheckGlobalLimit, CreateHash,
                          PushReady, ListTask, ClientAt
      <4>2. CASE Cancel
        BY <2>5, <4>2 DEF Cancel, ReadToCancel, CancelUser, CancelGlobal, CancelKey, CancelReady,
                          ClientAt
      <4> QED
        BY <4>1, <4>2, ClientsUndisturbed DEF Next, vars
    <3>2. ~CancelHash
      <4>1. status \in [Tasks -> Statuses]
        BY DEF TypeOK
      <4> QED
        BY <1>1, <1>9, <2>5, <4>1 DEF CancelHash
    <3>3. ~ClientDies
      BY <1>1, <2>5 DEF ClientDies, Die
    <3> QED
      BY <2>5, <3>1, <3>2, <3>3
  <2> QED
    BY <1>2, <2>2, <2>3, <2>4, <2>5
<1> QED
  BY <1>7, <1>8, <1>9

LEMMA InitDeliveries == Init => DInv
<1> SUFFICES ASSUME Init PROVE DInv
  OBVIOUS
<1>1. ASSUME NEW t \in Tasks PROVE Copies(t) = 0
  <2>1. Where(ready, t) = {} /\ Hands(t) = {} /\ Pushed(t) = 0
    BY NoTaskAssumption DEF Init, Where, Hands, Pushed, Idle, NoCall
  <2>2. ready \in Seq(Tasks)
    BY EmptySeq DEF Init
  <2>3. Copies(t) = Cardinality(Where(ready, t)) + Cardinality(Hands(t)) + Pushed(t)
    BY <2>2, CopiesParts
  <2> QED
    BY <2>1, <2>3, FS_EmptySet
<1>2. Unborn
  BY <1>1, NoTaskAssumption DEF Init, Unborn, Nowhere, Idle, NoCall
<1>3. BornOnce /\ Acknowledged
  BY DEF Init, BornOnce, Acknowledged, Idle, NoCall
<1>4. DeliveredOnce /\ QueuedIsDeliverable
  BY <1>1 DEF Init, DeliveredOnce, QueuedIsDeliverable
<1> QED
  BY <1>2, <1>3, <1>4 DEF DInv

LEMMA DeliveriesStep ==
  ASSUME TypeOK, PlacesFit, WorkersShaped, DInv, [Next]_vars, TypeOK'
  PROVE  DInv'
<1>1. Unborn'
  BY UnbornStep DEF DInv
<1>2. BornOnce'
  BY BornOnceStep DEF DInv
<1>3. Acknowledged'
  BY AcknowledgedStep DEF DInv
<1>4. DeliveredOnce' /\ QueuedIsDeliverable'
  BY DeliveryStep
<1> QED
  BY <1>1, <1>2, <1>3, <1>4 DEF DInv

(* Types, and where the copies of every task are.                           *)
TInv == TypeOK /\ PlacesFit /\ DInv

(* The invariant from which the theorems on deliveries follow.              *)
THEOREM DeliveriesInvariant == Spec => []TInv
<1>1. Init => TInv
  BY InitTypes, InitDeliveries DEF TInv
<1>2. IInv /\ IInv' /\ TInv /\ [Next]_vars => TInv'
  <2> SUFFICES ASSUME IInv, IInv', TInv, [Next]_vars PROVE TInv'
    OBVIOUS
  <2>1. TypeOK' /\ PlacesFit'
    BY TypesStep DEF IInv, TInv
  <2>2. DInv'
    BY <2>1, DeliveriesStep DEF IInv, TInv
  <2> QED
    BY <2>1, <2>2 DEF TInv
<1> QED
  BY <1>1, <1>2, Invariant, PTL DEF Spec

-----------------------------------------------------------------------------

(* However many workers dequeue, die and acknowledge, a user has fewer slots than the   *)
(* limit and the number of workers together: check and mark of dequeue_task are two     *)
(* commands, and each worker can be late by one.                                        *)
THEOREM OverrunIsBounded == Spec => []OverrunBounded
<1>1. IInv => OverrunBounded
  <2> SUFFICES ASSUME IInv, NEW u \in Users
               PROVE  Cardinality(SlotsOf(u)) < UserLimit + Cardinality(Workers)
    BY DEF OverrunBounded
  <2>1. /\ Cardinality(SlotsOf(u)) \in Nat /\ Cardinality(Checked(u)) \in Nat
        /\ Cardinality(Workers) \in Nat
    BY SlotsOfFinite DEF IInv, RoomKept
  <2>2. Cardinality(SlotsOf(u)) + Cardinality(Checked(u)) < UserLimit + Cardinality(Workers)
    BY DEF IInv, RoomKept
  <2> QED
    BY <2>1, <2>2, LimitsAssumption
<1> QED
  BY <1>1, Invariant, PTL

(* A task in a processing set is held by a worker that will release the slot, unless a  *)
(* call on that task died or the clean-up requeued it.                                  *)
THEOREM SlotsHeld == Spec => []SlotsHaveHolders
<1>1. IInv => SlotsHaveHolders
  BY DEF IInv
<1> QED
  BY <1>1, Invariant, PTL

(* A batch lists its tasks, whether or not create_batch ended half-way, unless the call *)
(* died between the hash of a task and the set of the batch.                            *)
THEOREM BatchesListTheirs == Spec => []BatchesAgree
<1>1. IInv => BatchesAgree
  BY DEF IInv, ListingAhead, BatchesAgree
<1> QED
  BY <1>1, Invariant, PTL

(* The records of the workers, of the clients and of the clean-up, the ready list and   *)
(* everything else in Redis keep their types: a command on a task always has a task.    *)
THEOREM QueueTyped == Spec => []TypeOK
<1>1. TInv => TypeOK
  BY DEF TInv
<1> QED
  BY <1>1, DeliveriesInvariant, PTL

(* Whatever pushbacks, cancels, acknowledgements and deaths overlap, a task is in the   *)
(* list or with a worker at most once, and nowhere after it ended, unless a call on it  *)
(* died or the clean-up requeued it.                                                    *)
THEOREM DeliveredAtMostOnce == Spec => []DeliveredOnce
<1>1. TInv => DeliveredOnce
  BY DEF TInv, DInv
<1> QED
  BY <1>1, DeliveriesInvariant, PTL

(* A task that reads queued is in the list, on its way there or with a worker, or a     *)
(* cancel is about to overwrite its status, under the same exceptions: none is lost.    *)
THEOREM QueuedIsNotLost == Spec => []QueuedIsDeliverable
<1>1. TInv => QueuedIsDeliverable
  BY DEF TInv, DInv
<1> QED
  BY <1>1, DeliveriesInvariant, PTL
=============================================================================
