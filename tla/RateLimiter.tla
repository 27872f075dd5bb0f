----------------------------- MODULE RateLimiter -----------------------------
(***************************************************************************)
(* The sliding-window limiter of the sync workers (app/core/rate_limiter). *)
(* One limiter is shared by all jobs of a source.  acquire holds an asyncio *)
(* lock, also while it sleeps, so callers behind a sleeper wait for the    *)
(* lock in the order of their arrival.  Time is counted in ticks; a call   *)
(* is remembered by its age.  The clock is assumed not to be set back.     *)
(***************************************************************************)
EXTENDS Naturals, Sequences

CONSTANTS Callers,     \* the jobs that call acquire
          MaxCalls,    \* max_calls, after the safety margin
          TimeWindow,  \* time_window
          Buffer       \* what is added to the computed wait

VARIABLES
  calls,     \* ages of the recorded calls, oldest first; ages stop at TimeWindow
  waiters,   \* callers waiting for the lock, first come first
  sleeper,   \* the caller asleep with the lock in its hands, or "nobody"
  left       \* how long it still has to sleep

limiterVars == <<calls, waiters, sleeper, left>>

ASSUME LimiterAssumption == /\ MaxCalls \in Nat \ {0} /\ TimeWindow \in Nat \ {0}
                            /\ Buffer \in Nat /\ "nobody" \notin Callers

Waiting == {waiters[i] : i \in DOMAIN waiters}

LimiterInit == calls = << >> /\ waiters = << >> /\ sleeper = "nobody" /\ left = 0

(* Wrong variant: the loop also drops calls that are about to expire.      *)
CleansEarly(n) == /\ n \in 0..Len(calls)
                  /\ \A i \in 1..n : calls[i] + 1 >= TimeWindow
                  /\ n < Len(calls) => calls[n + 1] + 1 < TimeWindow

(* The first n calls are those dropped by the loop that pops expired ones  *)
(* from the left.                                                          *)
Cleans(n) == /\ n \in 0..Len(calls)
             /\ \A i \in 1..n : calls[i] >= TimeWindow
             /\ n < Len(calls) => calls[n + 1] < TimeWindow

KeptCalls(n) == SubSeq(calls, n + 1, Len(calls))

(* The wait is computed from the oldest call that is left.                 *)
WaitTime(kept) == (TimeWindow - kept[1]) + Buffer

(* With the lock: clean up, then go to sleep or record the call and leave. *)
Enter(c) ==
  \E n \in 0..Len(calls) :
    /\ Cleans(n)
    /\ IF Len(KeptCalls(n)) >= MaxCalls
       THEN calls' = KeptCalls(n) /\ sleeper' = c /\ left' = WaitTime(KeptCalls(n))
       ELSE calls' = Append(KeptCalls(n), 0) /\ UNCHANGED <<sleeper, left>>

Acquire(c) ==
  /\ c \notin Waiting /\ c # sleeper
  /\ IF sleeper = "nobody" /\ waiters = << >>
     THEN Enter(c) /\ UNCHANGED waiters
     ELSE waiters' = Append(waiters, c) /\ UNCHANGED <<calls, sleeper, left>>

(* Wrong variant: a waiter goes on only if it sees room before cleaning up. *)
GetLockWhenRoom ==
  /\ waiters # << >> /\ sleeper = "nobody" /\ Len(calls) < MaxCalls
  /\ Enter(Head(waiters))
  /\ waiters' = Tail(waiters)

GetLock ==
  /\ waiters # << >> /\ sleeper = "nobody"
  /\ Enter(Head(waiters))
  /\ waiters' = Tail(waiters)

(* After the sleep: clean up again and record the call without a second    *)
(* look at how many there are.                                             *)
WakeUp ==
  /\ sleeper # "nobody" /\ left = 0
  /\ \E n \in 0..Len(calls) : Cleans(n) /\ calls' = Append(KeptCalls(n), 0)
  /\ sleeper' = "nobody"
  /\ UNCHANGED <<waiters, left>>

Without(s, i) == SubSeq(s, 1, i - 1) \o SubSeq(s, i + 1, Len(s))

(* The job of a caller is cancelled; async with releases the lock.         *)
Cancel(c) ==
  \/ /\ \E i \in DOMAIN waiters :
          waiters[i] = c /\ waiters' = Without(waiters, i)
     /\ UNCHANGED <<calls, sleeper, left>>
  \/ /\ c = sleeper
     /\ sleeper' = "nobody" /\ left' = 0
     /\ UNCHANGED <<calls, waiters>>

LimiterTick ==
  /\ calls' = [i \in DOMAIN calls |-> IF calls[i] < TimeWindow THEN calls[i] + 1
                                                            ELSE TimeWindow]
  /\ left' = IF left > 0 THEN left - 1 ELSE 0
  /\ UNCHANGED <<waiters, sleeper>>

LimiterNext == \/ \E c \in Callers : Acquire(c) \/ Cancel(c)
               \/ GetLock \/ WakeUp \/ LimiterTick

(* Time passes, and the event loop resumes whoever may go on.              *)
LimiterFairness ==
  WF_limiterVars(LimiterTick) /\ WF_limiterVars(GetLock) /\ WF_limiterVars(WakeUp)

LimiterSpec == LimiterInit /\ [][LimiterNext]_limiterVars /\ LimiterFairness
-----------------------------------------------------------------------------
LimiterTypeOK == /\ calls \in Seq(0..TimeWindow)
                 /\ waiters \in Seq(Callers)
                 /\ sleeper \in Callers \cup {"nobody"}
                 /\ left \in 0..(TimeWindow + Buffer)

(* A sleep is long enough: when it ends, the oldest call has left the      *)
(* window, so the call recorded then needs no second check of the limit,   *)
(* which the code does not make.                                           *)
SleepSuffices ==
  sleeper # "nobody" =>
    /\ Len(calls) = MaxCalls
    /\ calls[1] + left >= TimeWindow

(* The callers never make more than MaxCalls calls in a window, whoever    *)
(* sleeps, is cancelled or comes late.                                     *)
Window == INSTANCE SlidingWindow
  WITH ages <- calls, Limit <- MaxCalls, Window <- TimeWindow
IsSlidingWindow == Window!Spec

(* Every caller gets its turn, or is cancelled.                            *)
EveryCallerProceeds ==
  \A c \in Callers : (c \in Waiting \/ c = sleeper) ~> (c \notin Waiting /\ c # sleeper)
=============================================================================
