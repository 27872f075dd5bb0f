------------------------------- MODULE Ledger -------------------------------
(***************************************************************************)
(* What a paper account promises its owner: every order is carried out as  *)
(* one step.  A purchase is paid in full out of the cash there is, a sale  *)
(* takes shares the owner had before today (where the market asks for it), *)
(* and a reset starts afresh.                                              *)
(***************************************************************************)
EXTENDS Integers

CONSTANTS StartCash, Quantities, Prices, Fee,
          TPlus        \* whether what is bought today cannot be sold today
VARIABLES cash, shares, today   \* today: the shares bought today

Available == IF ~TPlus THEN shares
             ELSE IF shares > today THEN shares - today ELSE 0

Init == cash = StartCash /\ shares = 0 /\ today = 0

Buy(q, price) ==
  /\ cash >= price * q + Fee
  /\ cash' = cash - (price * q + Fee)
  /\ shares' = shares + q
  /\ today' \in {today + q, today}   \* the day may have changed under the order

Sell(q, price) ==
  /\ q <= Available
  /\ cash' = cash + (price * q - Fee)
  /\ shares' = shares - q
  /\ UNCHANGED today

NewDay == today' = 0 /\ UNCHANGED <<cash, shares>>

Reset == cash' = StartCash /\ shares' = 0 /\ today' = 0

Next == \/ \E q \in Quantities, price \in Prices : Buy(q, price) \/ Sell(q, price)
        \/ NewDay \/ Reset
=============================================================================
