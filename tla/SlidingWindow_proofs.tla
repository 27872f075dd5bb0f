------------------------ MODULE SlidingWindow_proofs ------------------------
(***************************************************************************)
(* The two components that keep to a limit of calls, the limiter of the    *)
(* sync workers and the hourly quota of the quotes ingestion, implement    *)
(* the same sliding window, for any limit and window; the limiter for any  *)
(* number of callers, the ingestion for every setting and any number of    *)
(* restarts.  The limiter relies on its sleep: when it ends the oldest of  *)
(* the recorded calls has left the window.  The ingestion relies on the    *)
(* place of its job: while a call is under way there is room for it in the *)
(* quota, and a run that has stored its quotes finds them there, so that   *)
(* the status document tells the truth.                                    *)
(***************************************************************************)
EXTENDS RateLimiter, QuotesIngestion, SequenceTheorems, TLAPS

\* What is left of a sequence of ages when the first n have been dropped.
LEMMA RestFacts ==
  ASSUME NEW W \in Nat, NEW s \in Seq(0..W), NEW n \in 0..Len(s)
  PROVE  /\ SubSeq(s, n + 1, Len(s)) \in Seq(0..W)
         /\ Len(SubSeq(s, n + 1, Len(s))) = Len(s) - n
         /\ \A i \in 1..(Len(s) - n) : SubSeq(s, n + 1, Len(s))[i] = s[n + i]
<1>1. /\ n \in Nat /\ n + 1 \in Int /\ Len(s) \in Int
      /\ \A i \in (n + 1)..Len(s) : s[i] \in 0..W
  <2>1. n \in Nat /\ n + 1 \in Int /\ Len(s) \in Int
    OBVIOUS
  <2>2. \A i \in 1..Len(s) : s[i] \in 0..W
    BY ElementOfSeq
  <2>3. \A i \in (n + 1)..Len(s) : i \in 1..Len(s)
    BY <2>1
  <2> QED
    BY <2>1, <2>2, <2>3
<1>2. /\ SubSeq(s, n + 1, Len(s)) \in Seq(0..W)
      /\ Len(SubSeq(s, n + 1, Len(s)))
           = IF n + 1 <= Len(s) THEN Len(s) - (n + 1) + 1 ELSE 0
  BY <1>1, SubSeqProperties
<1>3. Len(SubSeq(s, n + 1, Len(s))) = Len(s) - n
  BY <1>1, <1>2
<1>4. \A i \in 1..(Len(s) - n) : SubSeq(s, n + 1, Len(s))[i] = s[n + i]
  BY <1>1, <1>3, SubSeqProperties
<1> QED
  BY <1>2, <1>3, <1>4

\* A new call has the age 0.
LEMMA AppendZero ==
  ASSUME NEW W \in Nat, NEW s \in Seq(0..W)
  PROVE  Append(s, 0) \in Seq(0..W) /\ Len(Append(s, 0)) = Len(s) + 1
<1>1. 0 \in 0..W
  OBVIOUS
<1> QED
  BY <1>1
-----------------------------------------------------------------------------
(* The limiter.                                                            *)
LimiterInv == /\ LimiterTypeOK
              /\ SleepSuffices
              /\ Len(calls) <= MaxCalls
              /\ sleeper = "nobody" => left = 0
-----------------------------------------------------------------------------

LEMMA KeptCallsFacts ==
  ASSUME LimiterTypeOK, NEW n \in 0..Len(calls)
  PROVE  /\ KeptCalls(n) \in Seq(0..TimeWindow) /\ Len(KeptCalls(n)) = Len(calls) - n
         /\ \A i \in 1..(Len(calls) - n) : KeptCalls(n)[i] = calls[n + i]
<1>1. calls \in Seq(0..TimeWindow) /\ TimeWindow \in Nat
  BY LimiterAssumption DEF LimiterTypeOK
<1> QED
  BY <1>1, RestFacts DEF KeptCalls

\* With the lock in hand a caller either finds room or sleeps long enough.
LEMMA EnterInv ==
  ASSUME LimiterInv, sleeper = "nobody", NEW c \in Callers, Enter(c),
         waiters' \in Seq(Callers)
  PROVE  LimiterInv'
<1>1. PICK n \in 0..Len(calls) :
        /\ Cleans(n)
        /\ IF Len(KeptCalls(n)) >= MaxCalls
           THEN calls' = KeptCalls(n) /\ sleeper' = c /\ left' = WaitTime(KeptCalls(n))
           ELSE calls' = Append(KeptCalls(n), 0) /\ UNCHANGED <<sleeper, left>>
  BY DEF Enter
<1>2. /\ LimiterTypeOK /\ Len(calls) <= MaxCalls /\ left = 0 /\ Len(calls) \in Nat
      /\ MaxCalls \in Nat \ {0} /\ TimeWindow \in Nat \ {0} /\ Buffer \in Nat
  BY LimiterAssumption DEF LimiterInv, LimiterTypeOK
<1>3. /\ KeptCalls(n) \in Seq(0..TimeWindow) /\ Len(KeptCalls(n)) = Len(calls) - n
      /\ \A i \in 1..(Len(calls) - n) : KeptCalls(n)[i] = calls[n + i]
  BY <1>2, KeptCallsFacts
<1>4. CASE Len(KeptCalls(n)) >= MaxCalls
  <2>1. n = 0 /\ Len(calls) = MaxCalls
    BY <1>2, <1>3, <1>4
  <2>2. KeptCalls(n)[1] = calls[1] /\ calls[1] < TimeWindow /\ calls[1] \in 0..TimeWindow
    BY <1>1, <1>2, <1>3, <2>1 DEF Cleans, LimiterTypeOK
  <2>3. /\ calls' = KeptCalls(n) /\ sleeper' = c
        /\ left' = (TimeWindow - calls[1]) + Buffer
    BY <1>1, <1>4, <2>2 DEF WaitTime
  <2>4. left' \in 0..(TimeWindow + Buffer) /\ calls'[1] + left' >= TimeWindow
    BY <1>2, <2>2, <2>3
  <2>5. Len(calls') = MaxCalls /\ sleeper' # "nobody"
    BY <1>3, <2>1, <2>3, LimiterAssumption
  <2> QED
    BY <1>2, <1>3, <2>3, <2>4, <2>5 DEF LimiterInv, LimiterTypeOK, SleepSuffices
<1>5. CASE Len(KeptCalls(n)) < MaxCalls
  <2>1. calls' = Append(KeptCalls(n), 0) /\ sleeper' = sleeper /\ left' = left
    BY <1>1, <1>2, <1>3, <1>5
  <2>2. calls' \in Seq(0..TimeWindow) /\ Len(calls') = Len(KeptCalls(n)) + 1
    BY <1>2, <1>3, <2>1, AppendZero
  <2> QED
    BY <1>2, <1>3, <1>5, <2>1, <2>2 DEF LimiterInv, LimiterTypeOK, SleepSuffices
<1> QED
  BY <1>2, <1>3, <1>4, <1>5

\* After the sleep a place is free.
LEMMA WakeFacts ==
  ASSUME LimiterInv, sleeper # "nobody", left = 0, NEW n \in 0..Len(calls), Cleans(n)
  PROVE  n >= 1 /\ Len(calls) - n < MaxCalls
<1>1. /\ Len(calls) = MaxCalls /\ calls[1] >= TimeWindow
      /\ MaxCalls \in Nat \ {0} /\ TimeWindow \in Nat \ {0} /\ calls \in Seq(0..TimeWindow)
  BY LimiterAssumption DEF LimiterInv, SleepSuffices, LimiterTypeOK
<1> QED
  BY <1>1 DEF Cleans

LEMMA WithoutType ==
  ASSUME NEW s \in Seq(Callers), NEW i \in 1..Len(s)
  PROVE  Without(s, i) \in Seq(Callers)
<1>1. SubSeq(s, 1, i - 1) \in Seq(Callers) /\ SubSeq(s, i + 1, Len(s)) \in Seq(Callers)
  OBVIOUS
<1> QED
  BY <1>1 DEF Without

LEMMA LimiterInitInv == LimiterInit => LimiterInv
<1> SUFFICES ASSUME LimiterInit PROVE LimiterInv
  OBVIOUS
<1>1. << >> \in Seq(0..TimeWindow) /\ << >> \in Seq(Callers) /\ Len(calls) = 0
  BY DEF LimiterInit
<1> QED
  BY <1>1, LimiterAssumption DEF LimiterInit, LimiterInv, LimiterTypeOK, SleepSuffices

LEMMA LimiterInductiveStep == LimiterInv /\ [LimiterNext]_limiterVars => LimiterInv'
<1> SUFFICES ASSUME LimiterInv, [LimiterNext]_limiterVars PROVE LimiterInv'
  OBVIOUS
<1>1. /\ LimiterTypeOK /\ Len(calls) <= MaxCalls /\ waiters \in Seq(Callers)
      /\ MaxCalls \in Nat \ {0} /\ TimeWindow \in Nat \ {0} /\ Buffer \in Nat
      /\ calls \in Seq(0..TimeWindow) /\ left \in 0..(TimeWindow + Buffer)
      /\ sleeper \in Callers \cup {"nobody"}
  BY LimiterAssumption DEF LimiterInv, LimiterTypeOK
<1>2. ASSUME NEW c \in Callers, Acquire(c) PROVE LimiterInv'
  <2>1. CASE sleeper = "nobody" /\ waiters = << >>
    BY <1>1, <1>2, <2>1, EnterInv DEF Acquire
  <2>2. CASE ~(sleeper = "nobody" /\ waiters = << >>)
    <3>1. waiters' = Append(waiters, c) /\ UNCHANGED <<calls, sleeper, left>>
      BY <1>2, <2>2 DEF Acquire
    <3>2. waiters' \in Seq(Callers)
      BY <1>1, <3>1
    <3> QED
      BY <3>1, <3>2 DEF LimiterInv, LimiterTypeOK, SleepSuffices
  <2> QED
    BY <2>1, <2>2
<1>3. CASE GetLock
  <2>1. Head(waiters) \in Callers /\ Tail(waiters) \in Seq(Callers)
    BY <1>1, <1>3, HeadTailProperties DEF GetLock
  <2> QED
    BY <1>3, <2>1, EnterInv DEF GetLock
<1>4. CASE WakeUp
  <2>1. PICK n \in 0..Len(calls) : Cleans(n) /\ calls' = Append(KeptCalls(n), 0)
    BY <1>4 DEF WakeUp
  <2>2. sleeper # "nobody" /\ left = 0 /\ sleeper' = "nobody" /\ UNCHANGED <<waiters, left>>
    BY <1>4 DEF WakeUp
  <2>3. Len(calls) - n < MaxCalls
    BY <2>1, <2>2, WakeFacts
  <2>4. KeptCalls(n) \in Seq(0..TimeWindow) /\ Len(KeptCalls(n)) = Len(calls) - n
    BY <1>1, KeptCallsFacts
  <2>5. calls' \in Seq(0..TimeWindow) /\ Len(calls') = Len(calls) - n + 1
    BY <1>1, <2>1, <2>4, AppendZero
  <2> QED
    BY <1>1, <2>2, <2>3, <2>5 DEF LimiterInv, LimiterTypeOK, SleepSuffices
<1>5. ASSUME NEW c \in Callers, Cancel(c) PROVE LimiterInv'
  <2>1. ASSUME NEW i \in DOMAIN waiters, waiters' = Without(waiters, i),
               UNCHANGED <<calls, sleeper, left>>
        PROVE  LimiterInv'
    <3>1. waiters' \in Seq(Callers)
      BY <1>1, <2>1, WithoutType
    <3> QED
      BY <2>1, <3>1 DEF LimiterInv, LimiterTypeOK, SleepSuffices
  <2>2. CASE sleeper' = "nobody" /\ left' = 0 /\ UNCHANGED <<calls, waiters>>
    BY <1>1, <2>2 DEF LimiterInv, LimiterTypeOK, SleepSuffices
  <2> QED
    BY <1>5, <2>1, <2>2 DEF Cancel
<1>6. CASE LimiterTick
  <2>1. /\ calls' \in Seq(0..TimeWindow) /\ Len(calls') = Len(calls)
        /\ \A i \in 1..Len(calls) : calls'[i] = IF calls[i] < TimeWindow THEN calls[i] + 1
                                                                        ELSE TimeWindow
    BY <1>1, <1>6 DEF LimiterTick
  <2>2. /\ left' = (IF left > 0 THEN left - 1 ELSE 0) /\ UNCHANGED <<waiters, sleeper>>
    BY <1>6 DEF LimiterTick
  <2>3. SleepSuffices'
    BY <1>1, <2>1, <2>2 DEF SleepSuffices, LimiterInv
  <2> QED
    BY <1>1, <2>1, <2>2, <2>3 DEF LimiterInv, LimiterTypeOK
<1>7. CASE UNCHANGED limiterVars
  BY <1>7 DEF limiterVars, LimiterInv, LimiterTypeOK, SleepSuffices
<1> QED
  BY <1>2, <1>3, <1>4, <1>5, <1>6, <1>7 DEF LimiterNext
-----------------------------------------------------------------------------

\* Every state of the limiter satisfies the inductive invariant.
THEOREM LimiterInductive == LimiterSpec => []LimiterInv
  BY LimiterInitInv, LimiterInductiveStep, PTL DEF LimiterSpec

\* Recorded calls, queue and sleep keep their types.
THEOREM LimiterTypeCorrect == LimiterSpec => []LimiterTypeOK
<1>1. LimiterInv => LimiterTypeOK
  BY DEF LimiterInv
<1> QED
  BY <1>1, LimiterInductive, PTL

\* No caller needs to look at the limit again after its sleep.
THEOREM SleepsSuffice == LimiterSpec => []SleepSuffices
<1>1. LimiterInv => SleepSuffices
  BY DEF LimiterInv
<1> QED
  BY <1>1, LimiterInductive, PTL

\* A caller with the lock either admits its call within the limit or leaves
\* the recorded calls to be forgotten.
LEMMA EnterIsAllowed ==
  ASSUME LimiterInv, sleeper = "nobody", NEW c, Enter(c)
  PROVE  Window!Next
<1>1. PICK n \in 0..Len(calls) :
        /\ Cleans(n)
        /\ IF Len(KeptCalls(n)) >= MaxCalls
           THEN calls' = KeptCalls(n) /\ sleeper' = c /\ left' = WaitTime(KeptCalls(n))
           ELSE calls' = Append(KeptCalls(n), 0) /\ UNCHANGED <<sleeper, left>>
  BY DEF Enter
<1>2. Len(KeptCalls(n)) = Len(calls) - n /\ Len(calls) \in Nat /\ MaxCalls \in Nat
  BY KeptCallsFacts, LimiterAssumption DEF LimiterInv, LimiterTypeOK
<1>3. Window!Expired(n) /\ KeptCalls(n) = Window!DropFirst(calls, n)
  BY <1>1 DEF Cleans, KeptCalls, Window!Expired, Window!DropFirst
<1>4. CASE Len(KeptCalls(n)) >= MaxCalls
  BY <1>1, <1>3, <1>4 DEF Window!Next, Window!Forget
<1>5. CASE ~(Len(KeptCalls(n)) >= MaxCalls)
  BY <1>1, <1>2, <1>3, <1>5 DEF Window!Next, Window!Admit
<1> QED
  BY <1>4, <1>5

\* The limiter implements the sliding window.
THEOREM KeepsWindow == LimiterSpec => IsSlidingWindow
<1>1. LimiterInit => Window!Init
  BY DEF LimiterInit, Window!Init
<1>2. LimiterInv /\ [LimiterNext]_limiterVars => [Window!Next]_calls
  <2> SUFFICES ASSUME LimiterInv, [LimiterNext]_limiterVars PROVE Window!Next \/ calls' = calls
    OBVIOUS
  <2>1. ASSUME NEW c \in Callers, Acquire(c) PROVE Window!Next \/ calls' = calls
    BY <2>1, EnterIsAllowed DEF Acquire
  <2>2. CASE GetLock
    BY <2>2, EnterIsAllowed DEF GetLock
  <2>3. CASE WakeUp
    <3>1. PICK n \in 0..Len(calls) : Cleans(n) /\ calls' = Append(KeptCalls(n), 0)
      BY <2>3 DEF WakeUp
    <3>2. Len(calls) - n < MaxCalls
      BY <2>3, <3>1, WakeFacts DEF WakeUp
    <3>3. Window!Expired(n) /\ KeptCalls(n) = Window!DropFirst(calls, n)
      BY <3>1 DEF Cleans, KeptCalls, Window!Expired, Window!DropFirst
    <3> QED
      BY <3>1, <3>2, <3>3 DEF Window!Next, Window!Admit
  <2>4. ASSUME NEW c \in Callers, Cancel(c) PROVE calls' = calls
    BY <2>4 DEF Cancel
  <2>5. CASE LimiterTick
    BY <2>5 DEF LimiterTick, Window!Next, Window!Tick, Window!Older
  <2>6. CASE UNCHANGED limiterVars
    BY <2>6 DEF limiterVars
  <2> QED
    BY <2>1, <2>2, <2>3, <2>4, <2>5, <2>6 DEF LimiterNext
<1> QED
  BY <1>1, <1>2, LimiterInductive, PTL DEF LimiterSpec, IsSlidingWindow, Window!Spec
-----------------------------------------------------------------------------
(* The ingestion of quotes.                                                *)
RoomForCall == pc = "calling" /\ source = "tushare" /\ ~premium => Len(callAges) < HourlyLimit

StoredIsThere == pc = "stored" => content = source /\ quotes # "empty"

SourceKnown == pc \in {"calling", "storing", "stored"} => source \in Sources

IInv == TypeOK /\ RoomForCall /\ StoredIsThere /\ SourceKnown
-----------------------------------------------------------------------------

LEMMA KeptFacts ==
  ASSUME callAges \in Seq(0..Remembered), NEW n \in 0..Len(callAges)
  PROVE  Kept(n) \in Seq(0..Remembered) /\ Len(Kept(n)) = Len(callAges) - n
<1>1. Remembered \in Nat
  BY QuotesAssumption DEF Remembered
<1> QED
  BY <1>1, RestFacts DEF Kept

LEMMA InitInv == Init => IInv
<1> SUFFICES ASSUME Init PROVE IInv
  OBVIOUS
<1>1. << >> \in Seq(0..Remembered)
  OBVIOUS
<1>2. TypeOK
  <2>1. checked \in BOOLEAN /\ premium \in BOOLEAN /\ trading \in BOOLEAN
    BY DEF Init
  <2>2. restarts \in 0..MaxRestarts /\ index \in 1..3
    BY QuotesAssumption DEF Init
  <2>3. /\ quotes \in {"empty", "behind", "current"} /\ content \in Contents
        /\ report = "none" /\ source = "none" /\ pc = "startup"
        /\ callAges \in Seq(0..Remembered)
    BY <1>1 DEF Init, Contents
  <2> QED
    BY <2>1, <2>2, <2>3 DEF TypeOK
<1> QED
  BY <1>2 DEF Init, IInv, RoomForCall, StoredIsThere, SourceKnown

\* A backfill never leaves the collection emptier than it was.
LEMMA BackfillType ==
  ASSUME TypeOK, Backfill \/ UNCHANGED stored
  PROVE  /\ quotes' \in {"empty", "behind", "current"} /\ content' \in Contents
  BY DEF TypeOK, Backfill, stored, Contents

LEMMA StartRunInv ==
  ASSUME IInv, StartRun
  PROVE  IInv'
<1>1. /\ TypeOK /\ callAges \in Seq(0..Remembered) /\ index \in 1..3
      /\ pc = "idle" /\ trading = TRUE
  BY DEF IInv, TypeOK, StartRun
<1>2. /\ trading' = trading /\ quotes' = quotes /\ content' = content /\ report' = report
      /\ restarts' = restarts
  BY DEF StartRun, stored
<1>3. checked' \in BOOLEAN /\ premium' \in BOOLEAN
  BY <1>1 DEF StartRun, CheckPermission, TypeOK
<1>4. source' \in Sources /\ index' \in 1..3
  <2>1. Len(Rotation) = 3 /\ \A i \in 1..3 : Rotation[i] \in Sources
    BY DEF Rotation, Sources
  <2>2. GetNextSource
    BY DEF StartRun
  <2>3. CASE RotationEnabled
    <3>1. source' = Rotation[index] /\ index' = (index % 3) + 1
      BY <2>1, <2>2, <2>3 DEF GetNextSource
    <3> QED
      BY <1>1, <2>1, <3>1
  <2>4. CASE ~RotationEnabled
    BY <1>1, <2>2, <2>4 DEF GetNextSource, Sources
  <2> QED
    BY <2>3, <2>4
<1>5. /\ callAges' \in Seq(0..Remembered) /\ pc' \in {"calling", "failed"}
      /\ pc' = "calling" /\ source' = "tushare" /\ ~premium' => Len(callAges') < HourlyLimit
  <2>1. CASE source' # "tushare"
    BY <1>1, <2>1 DEF StartRun
  <2>2. CASE source' = "tushare" /\ premium'
    BY <1>1, <2>2 DEF StartRun, CanCallTushare
  <2>3. CASE source' = "tushare" /\ ~premium'
    <3>1. PICK n \in 0..Len(callAges) :
            /\ callAges' = Kept(n)
            /\ pc' = IF Len(Kept(n)) >= HourlyLimit THEN "failed" ELSE "calling"
      BY <2>3 DEF StartRun, CanCallTushare
    <3>2. Kept(n) \in Seq(0..Remembered) /\ Len(Kept(n)) \in Nat
      BY <1>1, KeptFacts
    <3> QED
      BY <3>1, <3>2 DEF HourlyLimit
  <2> QED
    BY <2>1, <2>2, <2>3
<1> QED
  BY <1>1, <1>2, <1>3, <1>4, <1>5
  DEF IInv, TypeOK, RoomForCall, StoredIsThere, SourceKnown

LEMMA RunInv ==
  ASSUME IInv, RunOnce
  PROVE  IInv'
<1>1. TypeOK /\ RoomForCall /\ StoredIsThere /\ SourceKnown
  BY DEF IInv
<1>2. CASE OffHours
  <2>1. quotes' \in {"empty", "behind", "current"} /\ content' \in Contents
    BY <1>1, <1>2, BackfillType DEF OffHours
  <2>2. /\ pc = "idle" /\ pc' = pc /\ trading' = trading /\ report' = report
        /\ source' = source /\ restarts' = restarts
    BY <1>2 DEF OffHours
  <2>3. /\ checked' = checked /\ premium' = premium /\ callAges' = callAges
        /\ index' = index
    BY <1>2 DEF OffHours, service
  <2> QED
    BY <1>1, <2>1, <2>2, <2>3 DEF IInv, TypeOK, RoomForCall, StoredIsThere, SourceKnown
<1>3. CASE StartRun
  BY <1>3, StartRunInv
<1>4. CASE Answers
  <2>1. callAges' \in Seq(0..Remembered)
    <3>1. Remembered \in Nat /\ callAges \in Seq(0..Remembered)
      BY <1>1, QuotesAssumption DEF Remembered, TypeOK
    <3>2. Append(callAges, 0) \in Seq(0..Remembered)
      BY <3>1, AppendZero
    <3> QED
      BY <1>4, <3>1, <3>2 DEF Answers, RecordTushareCall
  <2>2. /\ pc = "calling" /\ pc' = "storing" /\ trading' = trading /\ report' = report
        /\ quotes' = quotes /\ content' = content /\ checked' = checked
        /\ premium' = premium /\ index' = index /\ source' = source /\ restarts' = restarts
    BY <1>4 DEF Answers, stored
  <2> QED
    BY <1>1, <2>1, <2>2 DEF IInv, TypeOK, RoomForCall, StoredIsThere, SourceKnown
<1>5. CASE NoAnswer
  BY <1>1, <1>5 DEF NoAnswer, stored, service, IInv, TypeOK, RoomForCall, StoredIsThere,
                    SourceKnown
<1>6. CASE Store
  BY <1>1, <1>6 DEF Store, service, Contents, IInv, TypeOK, RoomForCall, StoredIsThere,
                    SourceKnown
<1>7. CASE StoreFails
  BY <1>1, <1>7 DEF StoreFails, stored, service, Contents, IInv, TypeOK, RoomForCall,
                    StoredIsThere, SourceKnown
<1>8. CASE RecordSyncStatus
  BY <1>1, <1>8 DEF RecordSyncStatus, stored, service, IInv, TypeOK, RoomForCall,
                    StoredIsThere, SourceKnown
<1> QED
  BY <1>2, <1>3, <1>4, <1>5, <1>6, <1>7, <1>8 DEF RunOnce

LEMMA InductiveStep == IInv /\ [Next]_vars => IInv'
<1> SUFFICES ASSUME IInv, [Next]_vars PROVE IInv'
  OBVIOUS
<1>1. TypeOK /\ RoomForCall /\ StoredIsThere /\ SourceKnown
  BY DEF IInv
<1>2. CASE Startup
  <2>1. quotes' \in {"empty", "behind", "current"} /\ content' \in Contents
    <3>1. Backfill \/ UNCHANGED stored
      BY <1>2 DEF Startup
    <3> QED
      BY <1>1, <3>1, BackfillType
  <2>2. /\ pc' = "idle" /\ trading' = trading /\ report' = report
        /\ source' = source /\ restarts' = restarts
    BY <1>2 DEF Startup
  <2>3. /\ checked' = checked /\ premium' = premium /\ callAges' = callAges
        /\ index' = index
    BY <1>2 DEF Startup, service
  <2> QED
    BY <1>1, <2>1, <2>2, <2>3 DEF IInv, TypeOK, RoomForCall, StoredIsThere, SourceKnown
<1>3. CASE RunOnce
  BY <1>3, RunInv
<1>4. CASE Tick
  <2>1. callAges \in Seq(0..Remembered) /\ Remembered \in Nat
    BY <1>1, QuotesAssumption DEF TypeOK, Remembered
  <2>2. callAges' \in Seq(0..Remembered) /\ Len(callAges') = Len(callAges)
    BY <1>4, <2>1 DEF Tick
  <2>3. /\ pc' = pc /\ trading' = trading /\ report' = report /\ quotes' = quotes
        /\ content' = content /\ checked' = checked /\ premium' = premium
        /\ index' = index /\ source' = source /\ restarts' = restarts
    BY <1>4 DEF Tick, stored
  <2> QED
    BY <1>1, <2>2, <2>3 DEF IInv, TypeOK, RoomForCall, StoredIsThere, SourceKnown
<1>5. CASE OpenOrClose
  BY <1>1, <1>5 DEF OpenOrClose, service, IInv, TypeOK, RoomForCall, StoredIsThere,
                    SourceKnown
<1>6. CASE Restart
  <2>1. /\ restarts' \in 0..MaxRestarts /\ callAges' = << >> /\ pc' = "startup"
        /\ index' = 1
    BY <1>1, <1>6, QuotesAssumption DEF Restart, TypeOK
  <2>4. checked' \in BOOLEAN /\ premium' \in BOOLEAN
    BY <1>6 DEF Restart
  <2>2. /\ trading' = trading /\ report' = report /\ quotes' = quotes
        /\ content' = content /\ source' = source
    BY <1>6 DEF Restart, stored
  <2>3. << >> \in Seq(0..Remembered)
    OBVIOUS
  <2>5. TypeOK'
    BY <1>1, <2>1, <2>2, <2>3, <2>4 DEF TypeOK
  <2> QED
    BY <2>1, <2>5 DEF IInv, RoomForCall, StoredIsThere, SourceKnown
<1>7. CASE UNCHANGED vars
  BY <1>1, <1>7 DEF vars, stored, service, IInv, TypeOK, RoomForCall, StoredIsThere,
                    SourceKnown
<1> QED
  BY <1>2, <1>3, <1>4, <1>5, <1>6, <1>7 DEF Next
-----------------------------------------------------------------------------

\* Every state of the ingestion satisfies the inductive invariant.
THEOREM Inductive == Spec => []IInv
  BY InitInv, InductiveStep, PTL DEF Spec

\* Collection, status document and the state of the service keep their types.
THEOREM TypeCorrect == Spec => []TypeOK
<1>1. IInv => TypeOK
  BY DEF IInv
<1> QED
  BY <1>1, Inductive, PTL

\* The status document comes to name a source only when the quotes of that
\* source have just been stored completely.
THEOREM StatusIsTrue == Spec => ReportIsTrue
<1> DEFINE Truth == report' # report /\ report' \in Sources
                      => content = report' /\ quotes # "empty"
<1>1. IInv /\ [Next]_vars => [Truth]_vars
  <2> SUFFICES ASSUME IInv, Next, report' # report, report' \in Sources
               PROVE  content = report' /\ quotes # "empty"
    BY DEF vars
  <2>1. RecordSyncStatus
    BY DEF Next, RunOnce, Startup, OffHours, StartRun, Answers, NoAnswer, Store, StoreFails,
           Tick, OpenOrClose, Restart
  <2>2. report' = source /\ pc = "stored"
    BY <2>1 DEF RecordSyncStatus, Sources
  <2> QED
    BY <2>2 DEF IInv, StoredIsThere
<1> QED
  BY <1>1, Inductive, PTL DEF Spec, ReportIsTrue

\* The answers taken from Tushare without a paid account keep to the quota.
THEOREM QuotaKept == Spec => KeepsHourlyLimit
<1>1. Init => Quota!Init
  BY DEF Init, Quota!Init
<1>2. IInv /\ [Next]_vars => [Quota!Next]_callAges
  <2> SUFFICES ASSUME IInv, [Next]_vars PROVE Quota!Next \/ callAges' = callAges
    OBVIOUS
  <2>1. callAges \in Seq(0..Remembered) /\ Len(callAges) \in Nat
    BY DEF IInv, TypeOK
  <2>2. CASE StartRun
    <3>1. callAges' = callAges
          \/ \E n \in 0..Len(callAges) : Drops(n) /\ callAges' = Kept(n)
      BY <2>2 DEF StartRun, CanCallTushare
    <3>2. ASSUME NEW n \in 0..Len(callAges), Drops(n), callAges' = Kept(n)
          PROVE  Quota!Next
      BY <3>2 DEF Drops, Kept, Quota!Next, Quota!Forget, Quota!Expired, Quota!DropFirst
    <3> QED
      BY <3>1, <3>2
  <2>3. CASE Answers
    <3>1. CASE source = "tushare" /\ ~premium
      <4>1. callAges' = Append(callAges, 0) /\ Len(callAges) < HourlyLimit
        BY <2>3, <3>1 DEF Answers, RecordTushareCall, IInv, RoomForCall
      <4>2. Quota!DropFirst(callAges, 0) = callAges /\ 0 \in 0..Len(callAges)
        BY <2>1 DEF Quota!DropFirst
      <4>3. Quota!Expired(0)
        BY DEF Quota!Expired
      <4>4. Len(callAges) - 0 < HourlyLimit
        BY <2>1, <4>1 DEF HourlyLimit
      <4> QED
        BY <4>1, <4>2, <4>3, <4>4 DEF Quota!Next, Quota!Admit
    <3>2. CASE ~(source = "tushare" /\ ~premium)
      BY <2>3, <3>2 DEF Answers, RecordTushareCall
    <3> QED
      BY <3>1, <3>2
  <2>4. CASE Tick
    BY <2>4 DEF Tick, Quota!Next, Quota!Tick, Quota!Older
  <2>5. CASE Restart
    BY <2>5 DEF Restart, Quota!Next, Quota!Reset
  <2>6. CASE Startup \/ OffHours \/ NoAnswer \/ Store \/ StoreFails \/ RecordSyncStatus
             \/ OpenOrClose
    BY <2>6 DEF Startup, OffHours, NoAnswer, Store, StoreFails, RecordSyncStatus,
                OpenOrClose, service
  <2>7. CASE UNCHANGED vars
    BY <2>7 DEF vars, service
  <2> QED
    BY <2>2, <2>3, <2>4, <2>5, <2>6, <2>7 DEF Next, RunOnce
<1> QED
  BY <1>1, <1>2, Inductive, PTL DEF Spec, KeepsHourlyLimit, Quota!Spec
=============================================================================
