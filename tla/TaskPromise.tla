------------------------------- MODULE TaskPromise -------------------------------
(***************************************************************************)
(* What the service promises about the stored document of an analysis task, *)
(* to a client that only polls it: pending, processing, report published,   *)
(* completed; or failed, but never after the report is out. The promise is  *)
(* void ("touched") for a task an operator, a restart or a failed write     *)
(* interfered with.                                                         *)
(***************************************************************************)
CONSTANT Tasks

VARIABLE doc

Init == doc = [t \in Tasks |-> "absent"]

Move(t, from, to) == doc[t] \in from /\ doc' = [doc EXCEPT ![t] = to]

Accept(t) == Move(t, {"absent"}, "pending")
Take(t) == Move(t, {"pending"}, "processing")
Publish(t) == Move(t, {"processing"}, "published")
Complete(t) == Move(t, {"published"}, "completed")
Fail(t) == Move(t, {"pending", "processing"}, "failed")

\* Several tasks at once: a restart touches every task there is.
Touch(S) == doc' = [t \in Tasks |-> IF t \in S THEN "touched" ELSE doc[t]]

Next ==
  \/ \E t \in Tasks : Accept(t) \/ Take(t) \/ Publish(t) \/ Complete(t) \/ Fail(t)
  \/ \E S \in SUBSET Tasks : Touch(S)

Spec == Init /\ [][Next]_doc

=============================================================================
