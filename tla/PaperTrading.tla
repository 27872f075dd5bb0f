---------------------------- MODULE PaperTrading ----------------------------
(***************************************************************************)
(* The paper account of one user (app/routers/paper.py), one stock.  A step *)
(* is one MongoDB operation with the code up to the next one; the requests *)
(* of the user's clients interleave there.  A collection is the sequence   *)
(* of the user's documents in it, since nothing makes them unique: find_one *)
(* and update_one take the first.  A request may fail at every operation.  *)
(* Average costs, realized profit and the list of orders are left out.     *)
(***************************************************************************)
EXTENDS Integers, SequencesExt

CONSTANTS Clients, StartCash, Quantities, Prices,
          Fee,         \* the commission of an order
          TPlus,       \* the market's rules have t_plus > 0
          MaxRequests  \* bound of the model

VARIABLES
  accounts,    \* the cash of each document of paper_accounts
  positions,   \* [id, quantity] of each document of paper_positions
  boughtToday, \* the purchases of today in paper_trades
  nextId,      \* the next document id
  request,     \* what each client's request has read and does next
  started,     \* requests so far
  raced        \* requests overlapped or one stopped half-way, and no reset
               \* without company has come after

collections == <<accounts, positions, boughtToday, nextId>>
vars == <<collections, request, started, raced>>

ASSUME PaperAssumption ==
  /\ StartCash \in Nat /\ Fee \in Nat /\ TPlus \in BOOLEAN /\ MaxRequests \in Nat
  /\ Quantities \subseteq Nat \ {0} /\ Prices \subseteq Nat \ {0}

(* A request: its place, the order, what account and position it read; the *)
(* amount it pays or earns; whether no midnight has passed since it started *)
(* its reads, and whether no other request was there at the same time.     *)
Idle == [at |-> "idle", side |-> "none", quantity |-> 0, cash |-> 0, position |-> << >>,
         amount |-> 0, available |-> 0, fresh |-> TRUE, alone |-> TRUE]

At(c, place) == request[c].at = place
Busy(c) == ~At(c, "idle")

(* c goes on with its request as r.                                        *)
GoOn(c, r) == request' = [request EXCEPT ![c] = r] /\ UNCHANGED <<started, raced>>
GoTo(c, place) == GoOn(c, [request[c] EXCEPT !.at = place])

Init == /\ accounts = << >> /\ positions = << >> /\ boughtToday = 0 /\ nextId = 1
        /\ request = [c \in Clients |-> Idle]
        /\ started = 0 /\ raced = FALSE
-----------------------------------------------------------------------------
Start(c, r) ==
  /\ ~Busy(c) /\ started < MaxRequests
  /\ LET alone == \A other \in Clients : ~Busy(other) IN
       /\ request' = [other \in Clients |->
            IF other = c THEN [r EXCEPT !.alone = alone]
                         ELSE [request[other] EXCEPT !.alone = FALSE]]
       /\ raced' = (raced \/ ~alone)
  /\ started' = started + 1
  /\ UNCHANGED collections

PlaceOrder(c) ==
  \E side \in {"buy", "sell"}, q \in Quantities :
    Start(c, [Idle EXCEPT !.at = "account", !.side = side, !.quantity = q])

ResetAccount(c) == Start(c, [Idle EXCEPT !.at = "deleteAccounts", !.side = "reset"])

(* Find the account, or create it in a second operation.  Accounts of the  *)
(* older form, whose cash is one number, are not followed: they are turned *)
(* into the form modelled here, with the same cash, when they are found.   *)
GetAccount(c) ==
  /\ At(c, "account")
  /\ IF accounts # << >>
     THEN GoOn(c, [request[c] EXCEPT !.cash = accounts[1], !.at = "order"])
     ELSE GoTo(c, "create")
  /\ UNCHANGED collections

CreateAccount(c) ==
  /\ At(c, "create")
  /\ accounts' = Append(accounts, StartCash)
  /\ GoOn(c, [request[c] EXCEPT !.cash = StartCash, !.at = "order"])
  /\ UNCHANGED <<positions, boughtToday, nextId>>

FirstPosition == IF positions = << >> THEN << >> ELSE <<positions[1]>>

(* The price is known; the position is read.  A purchase that the cash read *)
(* before does not cover is rejected.                                      *)
GetPosition(c) ==
  /\ At(c, "order") /\ request[c].side # "reset"
  /\ \E price \in Prices :
       LET notional == price * request[c].quantity
           read == [request[c] EXCEPT !.position = FirstPosition]
       IN CASE request[c].side = "sell" ->
                 GoOn(c, [read EXCEPT !.amount = notional - Fee, !.at = "available"])
            [] request[c].side = "buy" /\ request[c].cash >= notional + Fee ->
                 GoOn(c, [read EXCEPT !.amount = notional + Fee, !.at = "pay"])
            [] OTHER -> GoOn(c, Idle)
  /\ UNCHANGED collections

(* A sale reads the position once more, then today's purchases.            *)
GetAvailable(c) ==
  /\ At(c, "available")
  /\ GoOn(c, IF positions = << >> THEN Idle
             ELSE [request[c] EXCEPT !.available = positions[1].quantity, !.at = "check"])
  /\ UNCHANGED collections

Sellable(c) == IF ~TPlus THEN request[c].available
               ELSE IF request[c].available > boughtToday
                    THEN request[c].available - boughtToday ELSE 0

(* Wrong variant: the purchases of today are not asked for.                *)
CheckTotal(c) ==
  /\ At(c, "check")
  /\ IF request[c].available < request[c].quantity \/ request[c].position = << >>
     THEN GoOn(c, Idle) ELSE GoTo(c, "credit")
  /\ UNCHANGED collections

(* Without a position in the first read the handler raises.                *)
CheckAvailable(c) ==
  /\ At(c, "check")
  /\ IF Sellable(c) < request[c].quantity \/ request[c].position = << >>
     THEN GoOn(c, Idle) ELSE GoTo(c, "credit")
  /\ UNCHANGED collections

(* A purchase sets the cash to a value computed before; an update finds    *)
(* nothing when a reset has removed the account.                           *)
Pay(c) ==
  /\ At(c, "pay")
  /\ accounts' = IF accounts = << >> THEN << >>
                 ELSE [accounts EXCEPT ![1] = request[c].cash - request[c].amount]
  /\ GoTo(c, "position")
  /\ UNCHANGED <<positions, boughtToday, nextId>>

(* A sale increments it.                                                   *)
Credit(c) ==
  /\ At(c, "credit")
  /\ accounts' = IF accounts = << >> THEN << >>
                 ELSE [accounts EXCEPT ![1] = @ + request[c].amount]
  /\ GoTo(c, "position")
  /\ UNCHANGED <<positions, boughtToday, nextId>>

NewQuantity(c) ==
  LET old == request[c].position[1].quantity
  IN IF request[c].side = "buy" THEN old + request[c].quantity
                                ELSE old - request[c].quantity

SetQuantity(id, q) ==
  positions' = [i \in DOMAIN positions |->
    IF positions[i].id = id THEN [positions[i] EXCEPT !.quantity = q] ELSE positions[i]]

Delete(id) ==
  IF \E i \in DOMAIN positions : positions[i].id = id
  THEN \E i \in DOMAIN positions :
         positions[i].id = id /\ positions' = RemoveAt(positions, i)
  ELSE UNCHANGED positions

PutPosition(c) ==
  /\ At(c, "position")
  /\ IF request[c].position = << >>
     THEN /\ positions' = Append(positions, [id |-> nextId, quantity |-> request[c].quantity])
          /\ nextId' = nextId + 1
     ELSE /\ IF request[c].side = "sell" /\ NewQuantity(c) = 0
             THEN Delete(request[c].position[1].id)
             ELSE SetQuantity(request[c].position[1].id, NewQuantity(c))
          /\ UNCHANGED nextId
  /\ GoTo(c, "trade")
  /\ UNCHANGED <<accounts, boughtToday>>

(* Wrong variant: a sale counts against the purchases of today.            *)
RecordTradeNet(c) ==
  /\ At(c, "trade")
  /\ boughtToday' = IF request[c].side = "buy" /\ request[c].fresh
                    THEN boughtToday + request[c].quantity
                    ELSE boughtToday - request[c].quantity
  /\ GoOn(c, Idle)
  /\ UNCHANGED <<accounts, positions, nextId>>

(* The order and the trade are stored, with the time of the reads.         *)
RecordTrade(c) ==
  /\ At(c, "trade")
  /\ boughtToday' = IF request[c].side = "buy" /\ request[c].fresh
                    THEN boughtToday + request[c].quantity ELSE boughtToday
  /\ GoOn(c, Idle)
  /\ UNCHANGED <<accounts, positions, nextId>>

(* The reset empties one collection after the other.                       *)
DeleteAccounts(c) == /\ At(c, "deleteAccounts")
                     /\ accounts' = << >>
                     /\ GoTo(c, "deletePositions")
                     /\ UNCHANGED <<positions, boughtToday, nextId>>

DeletePositions(c) == /\ At(c, "deletePositions")
                      /\ positions' = << >>
                      /\ GoTo(c, "deleteTrades")
                      /\ UNCHANGED <<accounts, boughtToday, nextId>>

DeleteTrades(c) == /\ At(c, "deleteTrades")
                   /\ boughtToday' = 0
                   /\ GoTo(c, "account")
                   /\ UNCHANGED <<accounts, positions, nextId>>

ResetDone(c) == /\ At(c, "order") /\ request[c].side = "reset"
                /\ request' = [request EXCEPT ![c] = Idle]
                /\ raced' = (raced /\ ~request[c].alone)
                /\ UNCHANGED <<collections, started>>

(* The process or the connection to MongoDB fails, or there is no price.   *)
HalfWay(c) == request[c].at \in {"position", "trade"} \/ request[c].side = "reset"

Fail(c) == /\ Busy(c)
           /\ request' = [request EXCEPT ![c] = Idle]
           /\ raced' = (raced \/ HalfWay(c))
           /\ UNCHANGED <<collections, started>>

Serve(c) == \/ PlaceOrder(c) \/ ResetAccount(c)
            \/ GetAccount(c) \/ CreateAccount(c) \/ GetPosition(c)
            \/ GetAvailable(c) \/ CheckAvailable(c) \/ Pay(c) \/ Credit(c)
            \/ PutPosition(c) \/ RecordTrade(c)
            \/ DeleteAccounts(c) \/ DeletePositions(c) \/ DeleteTrades(c) \/ ResetDone(c)
            \/ Fail(c)

Midnight == /\ boughtToday' = 0
            /\ request' = [c \in Clients |->
                 IF request[c].at \in {"idle", "account", "create", "order"}
                 THEN request[c] ELSE [request[c] EXCEPT !.fresh = FALSE]]
            /\ UNCHANGED <<accounts, positions, nextId, started, raced>>

Next == (\E c \in Clients : Serve(c)) \/ Midnight

Spec == Init /\ [][Next]_vars
-----------------------------------------------------------------------------
Places == {"idle", "account", "create", "order", "available", "check", "pay", "credit",
           "position", "trade", "deleteAccounts", "deletePositions", "deleteTrades"}
Position == [id : Nat, quantity : Int]

TypeOK ==
  /\ accounts \in Seq(Int) /\ positions \in Seq(Position)
  /\ boughtToday \in Nat /\ nextId \in Nat /\ started \in 0..MaxRequests /\ raced \in BOOLEAN
  /\ request \in [Clients ->
       [at : Places, side : {"none", "buy", "sell", "reset"}, quantity : Nat, cash : Int,
        position : Seq(Position), amount : Int, available : Int,
        fresh : BOOLEAN, alone : BOOLEAN]]

(* What the user has, with an order counted when it is recorded and a reset *)
(* when it starts.                                                         *)
Writing == {c \in Clients : request[c].at \in {"position", "trade"}}
Resetting == \E c \in Clients : request[c].side = "reset"
Writer == CHOOSE c \in Writing : TRUE

Quantity(s) == IF s = << >> THEN 0 ELSE s[1].quantity

ledgerCash == IF Resetting \/ accounts = << >> THEN StartCash
              ELSE IF Writing # {} THEN request[Writer].cash ELSE accounts[1]
ledgerShares == IF Resetting THEN 0
                ELSE IF Writing # {} THEN Quantity(request[Writer].position)
                ELSE Quantity(positions)
ledgerToday == IF Resetting THEN 0 ELSE boughtToday
ledger == <<ledgerCash, ledgerShares, ledgerToday>>

Book == INSTANCE Ledger WITH cash <- ledgerCash, shares <- ledgerShares, today <- ledgerToday

(* As long as the user's requests do not overlap and none stops half-way,  *)
(* every order is carried out as one step of a ledger: cash and shares are *)
(* conserved through purchases, sales, rejections, midnights and resets.   *)
(* After that nothing is promised, until a reset that meets no other       *)
(* request puts the books in order, whatever they looked like.             *)
IsLedger ==
  /\ Book!Init
  /\ [][raced' \/ (raced /\ Book!Init') \/ (~raced /\ Book!Next)]_<<raced, ledger>>
=============================================================================
