---------------------------- MODULE SlidingWindow ----------------------------
(***************************************************************************)
(* What a limiter of calls promises: however long one watches, no Limit+1  *)
(* calls fall into one window.  A call is known by its age; an age that    *)
(* has reached Window does not grow further.  The rate limiter of the sync *)
(* workers and the hourly quota of the quotes ingestion implement it.      *)
(***************************************************************************)
EXTENDS Naturals, Sequences

CONSTANTS Limit, Window
VARIABLE ages        \* ages of the calls, oldest first

Older(s) == [i \in DOMAIN s |-> IF s[i] < Window THEN s[i] + 1 ELSE Window]
DropFirst(s, n) == SubSeq(s, n + 1, Len(s))

Init == ages = << >>

Tick == ages' = Older(ages)

(* Calls that have left the window need not be remembered.                 *)
Expired(n) == \A i \in 1..n : ages[i] >= Window

Forget == \E n \in 0..Len(ages) : Expired(n) /\ ages' = DropFirst(ages, n)

Admit == \E n \in 0..Len(ages) :
           /\ Expired(n)
           /\ Len(ages) - n < Limit
           /\ ages' = Append(DropFirst(ages, n), 0)

(* A limiter lives in memory: a restart forgets all calls.                 *)
Reset == ages' = << >>

Next == Tick \/ Forget \/ Admit \/ Reset

Spec == Init /\ [][Next]_ages
=============================================================================
