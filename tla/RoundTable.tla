----------------------------- MODULE RoundTable -----------------------------
(***************************************************************************)
(* What a moderated debate promises, whoever sits at the table: the        *)
(* speakers take turns in the order of their seats, each speaks once in    *)
(* every round, and the verdict is given after the last round and never    *)
(* again.  Both debates of the agent graph implement it.                   *)
(***************************************************************************)
EXTENDS Naturals, Sequences

CONSTANT Seats       \* the sequence of speakers
VARIABLES
  rounds,            \* how often each of them speaks
  said,              \* who spoke, in order
  verdict            \* whether the moderator has decided

tableVars == <<rounds, said, verdict>>

Turns == rounds * Len(Seats)
NextSpeaker == Seats[(Len(said) % Len(Seats)) + 1]

Init == /\ rounds \in Nat \ {0}
        /\ said = << >>
        /\ verdict = FALSE

Speak == /\ ~verdict
         /\ Len(said) < Turns
         /\ said' = Append(said, NextSpeaker)
         /\ UNCHANGED <<rounds, verdict>>

Decide == /\ ~verdict
          /\ Len(said) = Turns
          /\ verdict' = TRUE
          /\ UNCHANGED <<rounds, said>>

Next == Speak \/ Decide

Spec == Init /\ [][Next]_tableVars
=============================================================================
