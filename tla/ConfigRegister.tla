--------------------------- MODULE ConfigRegister ---------------------------
(***************************************************************************)
(* What the configuration service promises: one configuration that every   *)
(* accepted change is applied to in one step.  As long as nothing is stored *)
(* a request may put the default configuration there.                      *)
(***************************************************************************)
EXTENDS ConfigEdits

CONSTANT Unset      \* no configuration is stored
VARIABLE value

Init == value = Unset

StoreDefault == value = Unset /\ value' = DefaultConfig

Change == LET current == IF value = Unset THEN DefaultConfig ELSE value
          IN \E e \in Edits : Accepts(e, current) /\ value' = Apply(e, current)

Next == StoreDefault \/ Change
=============================================================================
