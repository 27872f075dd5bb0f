--------------------------- MODULE QuotesIngestion ---------------------------
(***************************************************************************)
(* The job that keeps market_quotes up to date                             *)
(* (app/services/quotes_ingestion_service.py).  APScheduler starts it at   *)
(* an interval, one instance at a time.  A step is what happens between    *)
(* two awaits, with the answer of a data source as a step of its own since *)
(* it takes time.  Time is counted in ticks; a Tushare call is known by    *)
(* its age.  Of the collection the model keeps whether its newest trade    *)
(* date is the latest one, and who wrote it last.                          *)
(***************************************************************************)
EXTENDS Naturals, Sequences

CONSTANTS Hour,               \* ticks in an hour
          RotationEnabled,    \* QUOTES_ROTATION_ENABLED
          AutoDetect,         \* QUOTES_AUTO_DETECT_TUSHARE_PERMISSION
          BackfillOnStartup,  \* QUOTES_BACKFILL_ON_STARTUP
          BackfillOnOffHours, \* QUOTES_BACKFILL_ON_OFFHOURS
          MaxRestarts         \* bound of the model

VARIABLES
  trading,    \* trading time or the half hour after it
  quotes,     \* "empty", "behind" or "current": the newest trade date stored
  content,    \* who wrote the collection last
  report,     \* the status document: nothing, "failed" or the source that succeeded
  checked,    \* _tushare_permission_checked
  premium,    \* _tushare_has_premium
  callAges,   \* _tushare_call_times
  index,      \* _rotation_index, from 1
  pc,         \* the place of the job
  source,     \* the source of the current or last run
  restarts

service == <<checked, premium, callAges, index>>
stored == <<quotes, content>>
vars == <<trading, stored, report, service, pc, source, restarts>>

ASSUME QuotesAssumption ==
  /\ Hour \in Nat /\ MaxRestarts \in Nat
  /\ {RotationEnabled, AutoDetect, BackfillOnStartup, BackfillOnOffHours} \subseteq BOOLEAN

HourlyLimit == 2
Rotation == <<"tushare", "eastmoney", "sina">>
Sources == {"tushare", "eastmoney", "sina"}
Contents == Sources \cup {"none", "mixed", "history", "snapshot"}

(* Calls are dropped from the left once they are more than an hour old.    *)
Remembered == Hour + 1
Drops(n) == /\ n \in 0..Len(callAges)
            /\ \A i \in 1..n : callAges[i] >= Remembered
            /\ n < Len(callAges) => callAges[n + 1] < Remembered
Kept(n) == SubSeq(callAges, n + 1, Len(callAges))

Init == /\ trading \in BOOLEAN
        /\ quotes \in {"empty", "behind"} /\ content = "none" /\ report = "none"
        /\ checked = FALSE /\ premium = FALSE /\ callAges = << >> /\ index = 1
        /\ pc = "startup" /\ source = "none"
        /\ restarts = 0
-----------------------------------------------------------------------------
(* Backfill: a collection that is empty, or whose count fails, is filled    *)
(* from the historical data if there are any for the latest trade date, one *)
(* that is behind, or whose date cannot be read, from the first source that *)
(* answers, outside the hourly quota.  Every exception is swallowed, also   *)
(* that of a bulk write that has written a part.                            *)
Backfill ==
  \/ quotes' = "current" /\ content' \in {"history", "mixed"}
  \/ quotes # "empty" /\ quotes' = "current" /\ content' = "snapshot"
  \/ UNCHANGED stored

Startup == /\ pc = "startup"
           /\ IF BackfillOnStartup THEN Backfill ELSE UNCHANGED stored
           /\ pc' = "idle"
           /\ UNCHANGED <<trading, report, service, source, restarts>>

OffHours == /\ pc = "idle" /\ ~trading /\ BackfillOnOffHours
            /\ Backfill
            /\ UNCHANGED <<trading, report, service, pc, source, restarts>>

(* The first run asks Tushare for its permission; the probe is not counted. *)
CheckPermission ==
  IF AutoDetect /\ ~checked THEN premium' \in BOOLEAN /\ checked' = TRUE
                            ELSE UNCHANGED <<premium, checked>>

(* Wrong variant: the last source is never reached.                         *)
GetNextSourceStuck ==
  IF RotationEnabled
  THEN source' = Rotation[index] /\ index' = IF index = 2 THEN 1 ELSE index + 1
  ELSE source' = "tushare" /\ UNCHANGED index

GetNextSource ==
  IF RotationEnabled
  THEN source' = Rotation[index] /\ index' = (index % Len(Rotation)) + 1
  ELSE source' = "tushare" /\ UNCHANGED index

(* Wrong variant: an off-by-one in the limit.                               *)
CanCallTushareOnceMore ==
  IF premium' THEN pc' = "calling" /\ UNCHANGED callAges
  ELSE \E n \in 0..Len(callAges) :
         /\ Drops(n) /\ callAges' = Kept(n)
         /\ pc' = IF Len(Kept(n)) > HourlyLimit THEN "failed" ELSE "calling"

CanCallTushare ==
  IF premium' THEN pc' = "calling" /\ UNCHANGED callAges
  ELSE \E n \in 0..Len(callAges) :
         /\ Drops(n) /\ callAges' = Kept(n)
         /\ pc' = IF Len(Kept(n)) >= HourlyLimit THEN "failed" ELSE "calling"

StartRun == /\ pc = "idle" /\ trading
            /\ CheckPermission
            /\ GetNextSource
            /\ IF source' = "tushare" THEN CanCallTushare
                                      ELSE pc' = "calling" /\ UNCHANGED callAges
            /\ UNCHANGED <<trading, stored, report, restarts>>

(* A Tushare call is recorded after it has answered.  The list of a premium *)
(* user is never read again and not followed here.                         *)
RecordTushareCall ==
  callAges' = IF source = "tushare" /\ ~premium THEN Append(callAges, 0) ELSE callAges

Answers == /\ pc = "calling"
           /\ RecordTushareCall
           /\ pc' = "storing"
           /\ UNCHANGED <<trading, stored, report, checked, premium, index, source, restarts>>

(* Unavailable, empty or an exception: the run ends, the next one rotates. *)
NoAnswer == /\ pc = "calling"
            /\ pc' = "failed"
            /\ UNCHANGED <<trading, stored, report, service, source, restarts>>

(* The early return for an answer without a single usable code is left out: *)
(* the adapters key what they return by non-empty codes.                   *)
Store == /\ pc = "storing"
         /\ quotes' = "current" /\ content' = source
         /\ pc' = "stored"
         /\ UNCHANGED <<trading, report, service, source, restarts>>

(* Wrong variant: a write that failed is reported like one that succeeded. *)
StoreFailsSilently == /\ pc = "storing"
                      /\ \/ UNCHANGED stored
                         \/ quotes' = "current" /\ content' = "mixed"
                      /\ pc' = "stored"
                      /\ UNCHANGED <<trading, report, service, source, restarts>>

(* The unordered bulk write raises; some of its documents may be written.  *)
StoreFails == /\ pc = "storing"
              /\ \/ UNCHANGED stored
                 \/ quotes' = "current" /\ content' = "mixed"
              /\ pc' = "failed"
              /\ UNCHANGED <<trading, report, service, source, restarts>>

RecordSyncStatus == /\ pc \in {"stored", "failed"}
                    /\ \/ report' = (IF pc = "stored" THEN source ELSE "failed")
                       \/ UNCHANGED report      \* the write fails, which is ignored
                    /\ pc' = "idle"
                    /\ UNCHANGED <<trading, stored, service, source, restarts>>

RunOnce == OffHours \/ StartRun \/ Answers \/ NoAnswer \/ Store \/ StoreFails
           \/ RecordSyncStatus
-----------------------------------------------------------------------------
Tick == /\ callAges' = [i \in DOMAIN callAges |->
                          IF callAges[i] < Remembered THEN callAges[i] + 1 ELSE Remembered]
        /\ UNCHANGED <<trading, stored, report, checked, premium, index, pc, source, restarts>>

(* The market opens on a new trade date.                                   *)
OpenOrClose == /\ trading' = ~trading
               /\ quotes' = IF trading' /\ quotes = "current" THEN "behind" ELSE quotes
               /\ UNCHANGED <<content, report, service, pc, source, restarts>>

(* The service keeps everything in memory.                                 *)
Restart == /\ restarts < MaxRestarts
           /\ restarts' = restarts + 1
           /\ checked' = FALSE /\ premium' = FALSE /\ callAges' = << >> /\ index' = 1
           /\ pc' = "startup"
           /\ UNCHANGED <<trading, stored, report, source>>

Next == Startup \/ RunOnce \/ Tick \/ OpenOrClose \/ Restart

(* The scheduler starts the job again and again and the loop goes on with  *)
(* it; every call of a source or of MongoDB returns.                       *)
Fairness == WF_vars(Startup) /\ WF_vars(StartRun) /\ WF_vars(Answers \/ NoAnswer)
            /\ WF_vars(Store \/ StoreFails) /\ WF_vars(RecordSyncStatus)

Spec == Init /\ [][Next]_vars /\ Fairness
-----------------------------------------------------------------------------
TypeOK ==
  /\ trading \in BOOLEAN /\ checked \in BOOLEAN /\ premium \in BOOLEAN
  /\ quotes \in {"empty", "behind", "current"} /\ content \in Contents
  /\ report \in Sources \cup {"none", "failed"} /\ source \in Sources \cup {"none"}
  /\ callAges \in Seq(0..Remembered) /\ index \in 1..3
  /\ pc \in {"startup", "idle", "calling", "storing", "stored", "failed"}
  /\ restarts \in 0..MaxRestarts

(* The status document never says more than the collection holds: when it  *)
(* comes to name a source, the quotes of that source have just been stored *)
(* completely, whatever failed in between.                                 *)
ReportIsTrue ==
  [][report' # report /\ report' \in Sources => content = report' /\ quotes # "empty"]_vars

(* Without a paid account the answers taken from Tushare keep to the       *)
(* hourly limit, as far as one process remembers.                          *)
Quota == INSTANCE SlidingWindow
  WITH ages <- callAges, Limit <- HourlyLimit, Window <- Remembered
KeepsHourlyLimit == Quota!Spec

(* No source starves: if from some time on the market stays open and runs   *)
(* go on, the rotation gives each of the three sources its turn again and  *)
(* again, also when another one is down.  A turn that the source's own     *)
(* quota refuses counts as a turn.                                         *)
EverySourceAsked ==
  RotationEnabled /\ []<>(trading /\ pc = "idle") /\ <>[]trading
    => \A s \in Sources : []<>(source = s)
=============================================================================
