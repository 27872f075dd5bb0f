------------------------ MODULE PaperTrading_proofs ------------------------
(***************************************************************************)
(* The paper account keeps its types, and it is a ledger as long as the    *)
(* requests of its user do not overlap: for any clients, prices,           *)
(* quantities, commission and starting cash.  The invariant says what a    *)
(* request that has met no other knows: what it read is still what the     *)
(* collections hold when it writes, and what it wrote is still there when  *)
(* it records the trade.                                                   *)
(***************************************************************************)
EXTENDS PaperTrading, SequenceTheorems, TLAPS

Requests == [at : Places, side : {"none", "buy", "sell", "reset"}, quantity : Nat, cash : Int,
             position : Seq(Position), amount : Int, available : Int,
             fresh : BOOLEAN, alone : BOOLEAN]

CollectionsTyped == /\ accounts \in Seq(Int) /\ positions \in Seq(Position)
                    /\ boughtToday \in Nat /\ nextId \in Nat

OrderSides == {"buy", "sell"}
-----------------------------------------------------------------------------
(* What the places of a request say of its order.                          *)
SideFits(c) ==
  /\ At(c, "idle") => request[c].side = "none"
  /\ Busy(c) => request[c].side # "none"
  /\ request[c].at \in {"deleteAccounts", "deletePositions", "deleteTrades"}
       => request[c].side = "reset"
  /\ At(c, "pay") => request[c].side = "buy"
  /\ request[c].at \in {"available", "check", "credit"} => request[c].side = "sell"
  /\ request[c].at \in {"position", "trade"} => request[c].side \in OrderSides
  /\ request[c].side \in OrderSides => request[c].quantity \in Quantities
SidesFit == \A c \in Clients : SideFits(c)

(* A request that believes to be alone is; while the books are in order    *)
(* every request is.                                                       *)
NoCompany == \A c, d \in Clients : Busy(c) /\ request[c].alone /\ Busy(d) => c = d
OneAtATime == ~raced => \A c \in Clients : Busy(c) => request[c].alone

HasCash(x) == accounts # << >> /\ accounts[1] = x

(* A reset without company leaves behind it what it has emptied, in        *)
(* whatever state it found the collections.                                *)
Emptied(c) ==
  /\ ~(request[c].at \in {"deleteAccounts", "order"}) => accounts = << >>
  /\ At(c, "order") => HasCash(StartCash) /\ Len(accounts) <= 1
  /\ ~(request[c].at \in {"deleteAccounts", "deletePositions"}) => positions = << >>
  /\ request[c].at \in {"account", "create", "order"} => boughtToday = 0
ResetEmpties ==
  \A c \in Clients : request[c].side = "reset" /\ request[c].alone => Emptied(c)

OneDocument == ~raced => Len(accounts) <= 1 /\ Len(positions) <= 1

(* What an order without company knows of the collections.                 *)
Spare(shares) == IF ~TPlus THEN shares
                 ELSE IF shares > boughtToday THEN shares - boughtToday ELSE 0
Paid(c) == IF request[c].side = "buy" THEN request[c].cash - request[c].amount
                                       ELSE request[c].cash + request[c].amount
Had(c) == Quantity(request[c].position)
Left(c) == IF request[c].side = "buy" THEN Had(c) + request[c].quantity
                                       ELSE Had(c) - request[c].quantity
Priced(c) ==
  \E price \in Prices :
    IF request[c].side = "buy"
    THEN request[c].amount = price * request[c].quantity + Fee
    ELSE request[c].amount = price * request[c].quantity - Fee

Informed(c) ==
  /\ At(c, "create") => accounts = << >>
  /\ request[c].at \in {"order", "available", "check", "pay", "credit"}
       => HasCash(request[c].cash)
  /\ request[c].at \in {"position", "trade"} => HasCash(Paid(c))
  /\ request[c].at \in {"available", "check", "pay", "credit", "position", "trade"}
       => Priced(c)
  /\ request[c].at \in {"available", "check", "pay", "credit", "position"}
       => request[c].position = FirstPosition
  /\ At(c, "check") => request[c].available = Quantity(positions)
  /\ request[c].at \in {"pay", "position", "trade"} /\ request[c].side = "buy"
       => request[c].cash >= request[c].amount
  /\ request[c].at \in {"credit", "position", "trade"} /\ request[c].side = "sell"
       => request[c].quantity <= Spare(Had(c)) /\ request[c].position # << >>
  /\ At(c, "trade") => Quantity(positions) = Left(c)
AllInformed == ~raced => \A c \in Clients : request[c].side \in OrderSides => Informed(c)

IInv == /\ TypeOK /\ SidesFit /\ NoCompany /\ OneAtATime
        /\ ResetEmpties /\ OneDocument /\ AllInformed
-----------------------------------------------------------------------------
\* The parts of the type invariant, under the names used below.
LEMMA TypeParts ==
  TypeOK <=> /\ CollectionsTyped /\ request \in [Clients -> Requests]
             /\ started \in 0..MaxRequests /\ raced \in BOOLEAN
  BY DEF TypeOK, CollectionsTyped, Requests

LEMMA TypePartsNext ==
  TypeOK' <=> /\ CollectionsTyped' /\ request' \in [Clients -> Requests]
              /\ started' \in 0..MaxRequests /\ raced' \in BOOLEAN
  BY DEF TypeOK, CollectionsTyped, Requests

LEMMA IdleTyped == Idle \in Requests
<1>1. << >> \in Seq(Position) /\ 0 \in Nat /\ 0 \in Int /\ "idle" \in Places
  BY DEF Places
<1> QED
  BY <1>1 DEF Idle, Requests

\* The fields of a request, one by one.
LEMMA Fields ==
  ASSUME NEW r \in Requests
  PROVE  /\ r.at \in Places /\ r.side \in {"none", "buy", "sell", "reset"}
         /\ r.quantity \in Nat /\ r.cash \in Int /\ r.position \in Seq(Position)
         /\ r.amount \in Int /\ r.available \in Int
         /\ r.fresh \in BOOLEAN /\ r.alone \in BOOLEAN
  BY DEF Requests

\* A request that goes on leaves the others where they are.
LEMMA GoOnFacts ==
  ASSUME TypeOK, NEW c \in Clients, NEW r \in Requests, GoOn(c, r)
  PROVE  /\ request' \in [Clients -> Requests] /\ request'[c] = r
         /\ \A d \in Clients : d # c => request'[d] = request[d]
         /\ started' = started /\ raced' = raced
  BY TypeParts DEF GoOn

LEMMA MovedTyped ==
  ASSUME NEW r \in Requests, NEW place \in Places
  PROVE  /\ [r EXCEPT !.at = place] \in Requests
         /\ \A x \in Int : [r EXCEPT !.cash = x, !.at = place] \in Requests
         /\ \A x \in Int : [r EXCEPT !.available = x, !.at = place] \in Requests
         /\ \A x \in Int : [r EXCEPT !.amount = x, !.at = place] \in Requests
  BY DEF Requests

LEMMA CompanyTyped ==
  ASSUME NEW r \in Requests, NEW b \in BOOLEAN
  PROVE  [r EXCEPT !.alone = b] \in Requests
  BY DEF Requests

LEMMA StaleTyped ==
  ASSUME NEW r \in Requests
  PROVE  [r EXCEPT !.fresh = FALSE] \in Requests
  BY DEF Requests

LEMMA OrderTyped ==
  ASSUME NEW r \in Requests, NEW place \in Places, NEW side \in OrderSides, NEW q \in Nat
  PROVE  [r EXCEPT !.at = place, !.side = side, !.quantity = q] \in Requests
  BY DEF Requests, OrderSides

LEMMA ResetTyped ==
  ASSUME NEW r \in Requests, NEW place \in Places
  PROVE  [r EXCEPT !.at = place, !.side = "reset"] \in Requests
  BY DEF Requests

LEMMA PositionReadTyped ==
  ASSUME NEW r \in Requests, NEW p \in Seq(Position)
  PROVE  [r EXCEPT !.position = p] \in Requests
  BY DEF Requests

LEMMA FirstPositionTyped ==
  ASSUME CollectionsTyped
  PROVE  FirstPosition \in Seq(Position)
<1>1. positions \in Seq(Position)
  BY DEF CollectionsTyped
<1>2. CASE positions = << >>
  BY <1>2 DEF FirstPosition
<1>3. CASE positions # << >>
  <2>1. positions[1] \in Position
    BY <1>1, <1>3
  <2> QED
    BY <1>3, <2>1 DEF FirstPosition
<1> QED
  BY <1>2, <1>3

LEMMA RemoveAtTyped ==
  ASSUME NEW s \in Seq(Position), NEW i \in DOMAIN s
  PROVE  RemoveAt(s, i) \in Seq(Position) /\ (Len(s) <= 1 => RemoveAt(s, i) = << >>)
<1>1. s \in Seq(Position) /\ Len(s) \in Nat /\ i \in 1..Len(s)
  OBVIOUS
<1>2. SubSeq(s, 1, i - 1) \in Seq(Position) /\ SubSeq(s, i + 1, Len(s)) \in Seq(Position)
  BY <1>1
<1>3. RemoveAt(s, i) \in Seq(Position)
  BY <1>2 DEF RemoveAt
<1>4. ASSUME Len(s) <= 1 PROVE RemoveAt(s, i) = << >>
  <2>1. i = 1 /\ SubSeq(s, 1, 0) = << >> /\ SubSeq(s, 2, 1) = << >> /\ (Len(s) <= 1 => SubSeq(s, 2, Len(s)) = << >>)
    BY <1>1, <1>4
  <2> QED
    BY <1>4, <2>1 DEF RemoveAt
<1> QED
  BY <1>3, <1>4
-----------------------------------------------------------------------------
\* The parts of the invariant, one by one.
LEMMA Parts ==
  ASSUME IInv
  PROVE  /\ CollectionsTyped /\ request \in [Clients -> Requests]
         /\ started \in 0..MaxRequests /\ raced \in BOOLEAN
         /\ \A c \in Clients :
              /\ request[c] \in Requests
              /\ SideFits(c)
              /\ request[c].side = "reset" /\ request[c].alone => Emptied(c)
              /\ ~raced /\ Busy(c) => request[c].alone
              /\ ~raced /\ request[c].side \in OrderSides => Informed(c)
         /\ ~raced => Len(accounts) <= 1 /\ Len(positions) <= 1
  BY TypeParts DEF IInv, SidesFit, ResetEmpties, OneAtATime, AllInformed, OneDocument

\* No other request is there beside one that is alone.
LEMMA OthersIdle ==
  ASSUME IInv, NEW c \in Clients, Busy(c), request[c].alone
  PROVE  \A d \in Clients : d # c => At(d, "idle") /\ request[d].side = "none"
  BY DEF IInv, NoCompany, SidesFit, SideFits, Busy

\* A step of one request keeps the invariant when it does so for the request
\* and the collections: whoever is busy beside it does not count on being alone.
LEMMA Served ==
  ASSUME IInv, NEW c \in Clients, Busy(c),
         request' \in [Clients -> Requests],
         \A d \in Clients : d # c => request'[d] = request[d],
         request'[c].at = "idle" \/ request'[c].alone = request[c].alone,
         CollectionsTyped', started' = started, raced' \in BOOLEAN,
         ~raced' => ~raced \/ request[c].alone,
         SideFits(c)',
         request'[c].side = "reset" /\ request'[c].alone => Emptied(c)',
         ~raced' => Len(accounts') <= 1 /\ Len(positions') <= 1,
         ~raced' /\ request'[c].side \in OrderSides => Informed(c)'
  PROVE  IInv'
<1>1. ASSUME NEW d \in Clients, d # c
      PROVE  /\ SideFits(d)'
             /\ Busy(d)' <=> Busy(d)
             /\ request'[d].alone = request[d].alone /\ request'[d].side = request[d].side
  BY <1>1, Parts DEF SideFits, Busy, At
<1>2. TypeOK'
  BY Parts, TypePartsNext
<1>3. SidesFit'
  BY <1>1 DEF SidesFit
<1>4. Busy(c)' => request'[c].alone = request[c].alone
  BY DEF Busy, At
<1>5. NoCompany'
  <2> SUFFICES ASSUME NEW a \in Clients, NEW b \in Clients,
                      Busy(a)', request'[a].alone, Busy(b)'
               PROVE  a = b
    BY DEF NoCompany
  <2> QED
    BY <1>1, <1>4 DEF IInv, NoCompany
<1>6. ASSUME ~raced' PROVE \A d \in Clients : d # c => At(d, "idle") /\ request[d].side = "none"
  <2>1. request[c].alone
    BY <1>6, Parts
  <2> QED
    BY <2>1, OthersIdle
<1>7. OneAtATime'
  <2> SUFFICES ASSUME ~raced', NEW d \in Clients, Busy(d)' PROVE request'[d].alone
    BY DEF OneAtATime
  <2>1. d = c
    BY <1>1, <1>6 DEF Busy
  <2> QED
    BY <1>4, <2>1, Parts
<1>8. ResetEmpties'
  <2> SUFFICES ASSUME NEW d \in Clients, request'[d].side = "reset", request'[d].alone
               PROVE  Emptied(d)'
    BY DEF ResetEmpties
  <2>1. CASE d # c
    <3>1. Busy(d) /\ request[d].alone
      BY <1>1, <2>1, Parts DEF SideFits, Busy
    <3> QED
      BY <2>1, <3>1 DEF IInv, NoCompany
  <2> QED
    BY <2>1
<1>9. OneDocument'
  BY DEF OneDocument
<1>10. AllInformed'
  <2> SUFFICES ASSUME ~raced', NEW d \in Clients, request'[d].side \in OrderSides
               PROVE  Informed(d)'
    BY DEF AllInformed
  <2>1. d = c
    BY <1>1, <1>6 DEF OrderSides
  <2> QED
    BY <2>1
<1> QED
  BY <1>2, <1>3, <1>5, <1>7, <1>8, <1>9, <1>10 DEF IInv

\* A request that ends promises nothing more.
LEMMA Ended ==
  ASSUME IInv, NEW c \in Clients, Busy(c), UNCHANGED <<collections, started>>,
         request' = [request EXCEPT ![c] = Idle], raced' \in BOOLEAN,
         ~raced' => ~raced \/ request[c].alone,
         ~raced' => Len(accounts) <= 1 /\ Len(positions) <= 1
  PROVE  IInv'
<1>1. /\ request' \in [Clients -> Requests] /\ request'[c] = Idle
      /\ \A d \in Clients : d # c => request'[d] = request[d]
  BY Parts, IdleTyped
<1>2. Idle.at = "idle" /\ Idle.side = "none"
  BY DEF Idle
<1>3. CollectionsTyped' /\ started' = started /\ accounts' = accounts /\ positions' = positions
  BY Parts DEF CollectionsTyped, collections
<1>4. SideFits(c)'
  BY <1>1, <1>2 DEF SideFits, Busy, At, OrderSides
<1> QED
  BY <1>1, <1>2, <1>3, <1>4, Served DEF OrderSides

\* What is common to the steps of a request that goes on: it stays the order
\* it was.
LEMMA WentOn ==
  ASSUME IInv, NEW c \in Clients, Busy(c), NEW r \in Requests, GoOn(c, r),
         r.at = "idle" \/ r.alone = request[c].alone, CollectionsTyped',
         SideFits(c)',
         r.side = "reset" /\ r.alone => Emptied(c)',
         ~raced => Len(accounts') <= 1 /\ Len(positions') <= 1,
         ~raced /\ r.side \in OrderSides => Informed(c)'
  PROVE  IInv'
<1>1. /\ request' \in [Clients -> Requests] /\ request'[c] = r
      /\ \A d \in Clients : d # c => request'[d] = request[d]
      /\ started' = started /\ raced' = raced
  BY GoOnFacts DEF IInv
<1> QED
  BY <1>1, Parts, Served
-----------------------------------------------------------------------------
\* What GoTo leaves of a request.
LEMMA GoToFacts ==
  ASSUME TypeOK, NEW c \in Clients, NEW place \in Places, GoTo(c, place)
  PROVE  \E r \in Requests :
           /\ GoOn(c, r) /\ r.at = place /\ request'[c] = r
           /\ r.side = request[c].side /\ r.quantity = request[c].quantity
           /\ r.cash = request[c].cash /\ r.position = request[c].position
           /\ r.amount = request[c].amount /\ r.available = request[c].available
           /\ r.fresh = request[c].fresh /\ r.alone = request[c].alone
<1>1. request \in [Clients -> Requests] /\ request[c] \in Requests
  BY TypeParts
<1> DEFINE r == [request[c] EXCEPT !.at = place]
<1>2. r \in Requests
  BY <1>1, MovedTyped
<1>4. /\ r.at = place
      /\ r.side = request[c].side /\ r.quantity = request[c].quantity
      /\ r.cash = request[c].cash /\ r.position = request[c].position
      /\ r.amount = request[c].amount /\ r.available = request[c].available
      /\ r.fresh = request[c].fresh /\ r.alone = request[c].alone
  BY <1>1 DEF Requests
<1>3. GoOn(c, r) /\ request'[c] = r
  BY <1>1 DEF GoTo, GoOn
<1> QED
  BY <1>2, <1>3, <1>4

\* A rejected order ends.
LEMMA Rejected ==
  ASSUME IInv, NEW c \in Clients, Busy(c), GoOn(c, Idle), UNCHANGED collections
  PROVE  IInv'
BY Parts, Ended DEF GoOn, collections

LEMMA GetAccountStep ==
  ASSUME IInv, NEW c \in Clients, GetAccount(c)
  PROVE  IInv'
<1>1. /\ TypeOK /\ request[c] \in Requests /\ At(c, "account") /\ Busy(c)
      /\ accounts \in Seq(Int) /\ Len(accounts) \in Nat
  BY Parts DEF IInv, GetAccount, Busy, At, CollectionsTyped
<1>2. CollectionsTyped' /\ accounts' = accounts /\ positions' = positions
      /\ boughtToday' = boughtToday
  BY Parts DEF GetAccount, collections, CollectionsTyped
<1>3. CASE accounts # << >>
  <2> DEFINE r == [request[c] EXCEPT !.cash = accounts[1], !.at = "order"]
  <2>1. accounts[1] \in Int /\ "order" \in Places /\ Len(accounts) >= 1
    BY <1>1, <1>3 DEF Places
  <2>8. r \in Requests
    BY <1>1, <2>1, MovedTyped
  <2>2. /\ r.at = "order" /\ r.cash = accounts[1]
        /\ r.side = request[c].side /\ r.quantity = request[c].quantity
        /\ r.alone = request[c].alone
    BY <1>1 DEF Requests
  <2>3. GoOn(c, r)
    BY <1>3 DEF GetAccount
  <2> HIDE DEF r
  <2>4. request'[c] = r
    BY <1>1, <2>3, <2>8, GoOnFacts
  <2>5. SideFits(c)'
    BY <1>1, <2>2, <2>4, Parts DEF SideFits, Busy, At, OrderSides
  <2>6. ~(r.side = "reset" /\ r.alone)
    BY <1>1, <1>3, <2>2, Parts DEF Emptied, At
  <2>7. ~raced => Informed(c)'
    BY <1>2, <1>3, <2>2, <2>4 DEF Informed, At, HasCash
  <2>10. ~raced => Len(accounts') <= 1 /\ Len(positions') <= 1
    BY <1>2, Parts
  <2> QED
    BY <1>1, <1>2, <2>2, <2>3, <2>5, <2>6, <2>7, <2>8, <2>10, WentOn
<1>4. CASE accounts = << >>
  <2>1. GoTo(c, "create") /\ "create" \in Places
    BY <1>4 DEF GetAccount, Places
  <2>2. PICK r \in Requests :
           /\ GoOn(c, r) /\ r.at = "create" /\ request'[c] = r
           /\ r.side = request[c].side /\ r.quantity = request[c].quantity
           /\ r.alone = request[c].alone
    BY <1>1, <2>1, GoToFacts
  <2>3. SideFits(c)'
    BY <1>1, <2>2, Parts DEF SideFits, Busy, At, OrderSides
  <2>4. r.side = "reset" /\ r.alone => Emptied(c)'
    BY <1>1, <1>2, <2>2, Parts DEF Emptied, At
  <2>5. Informed(c)'
    BY <1>2, <1>4, <2>2 DEF Informed, At
  <2> QED
    BY <1>1, <1>2, <2>2, <2>3, <2>4, <2>5, Parts, WentOn
<1> QED
  BY <1>3, <1>4

LEMMA CreateAccountStep ==
  ASSUME IInv, NEW c \in Clients, CreateAccount(c)
  PROVE  IInv'
<1>1. /\ TypeOK /\ request[c] \in Requests /\ At(c, "create") /\ Busy(c)
      /\ accounts \in Seq(Int) /\ StartCash \in Int /\ Len(accounts) \in Nat
  BY Parts, PaperAssumption DEF IInv, CreateAccount, Busy, At, CollectionsTyped
<1>2. /\ accounts' = Append(accounts, StartCash) /\ positions' = positions
      /\ boughtToday' = boughtToday /\ nextId' = nextId
  BY DEF CreateAccount
<1>3. CollectionsTyped'
  BY <1>1, <1>2, Parts DEF CollectionsTyped
<1>4. accounts = << >> => HasCash(StartCash)' /\ Len(accounts') <= 1
  BY <1>1, <1>2 DEF HasCash
<1> DEFINE r == [request[c] EXCEPT !.cash = StartCash, !.at = "order"]
<1>5. /\ r.at = "order" /\ r.cash = StartCash
      /\ r.side = request[c].side /\ r.quantity = request[c].quantity
      /\ r.alone = request[c].alone
  BY <1>1 DEF Requests
<1>13. r \in Requests
  <2>1. "order" \in Places
    BY DEF Places
  <2> QED
    BY <1>1, <2>1, MovedTyped
<1>6. GoOn(c, r)
  BY DEF CreateAccount
<1> HIDE DEF r
<1>7. request'[c] = r
  BY <1>1, <1>6, <1>13, GoOnFacts
<1>8. SideFits(c)'
  BY <1>1, <1>5, <1>7, Parts DEF SideFits, Busy, At, OrderSides
<1>9. request[c].side \in OrderSides \cup {"reset"}
  BY <1>1, Parts DEF SideFits, Requests, OrderSides
<1>10. ~raced \/ (request[c].side = "reset" /\ request[c].alone) => accounts = << >> 
  BY <1>1, <1>9, Parts DEF Emptied, Informed, At
<1>11. r.side = "reset" /\ r.alone => Emptied(c)'
  BY <1>1, <1>2, <1>4, <1>5, <1>7, <1>10, Parts DEF Emptied, At
<1>12. ~raced => Informed(c)'
  BY <1>4, <1>5, <1>7, <1>10 DEF Informed, At
<1>14. ~raced => Len(accounts') <= 1 /\ Len(positions') <= 1
  BY <1>2, <1>4, <1>10, Parts
<1> QED
  BY <1>1, <1>3, <1>5, <1>6, <1>8, <1>11, <1>12, <1>13, <1>14, WentOn

\* The first position has the quantity of the user's positions.
LEMMA FirstQuantity == Quantity(FirstPosition) = Quantity(positions)
  BY DEF Quantity, FirstPosition

LEMMA GetPositionStep ==
  ASSUME IInv, NEW c \in Clients, GetPosition(c)
  PROVE  IInv'
<1>1. /\ TypeOK /\ request[c] \in Requests /\ At(c, "order") /\ Busy(c)
      /\ request[c].side \in OrderSides /\ request[c].quantity \in Quantities
  <2>1. request[c] \in Requests /\ SideFits(c) /\ At(c, "order") /\ request[c].side # "reset"
    BY Parts DEF GetPosition
  <2>2. Busy(c) /\ request[c].side # "none"
    BY <2>1 DEF SideFits, Busy, At
  <2>3. request[c].side \in OrderSides
    BY <2>1, <2>2, Fields DEF OrderSides
  <2> QED
    BY <2>1, <2>2, <2>3 DEF SideFits, IInv
<1>2. /\ CollectionsTyped' /\ accounts' = accounts /\ positions' = positions
      /\ boughtToday' = boughtToday /\ FirstPosition' = FirstPosition
      /\ FirstPosition \in Seq(Position)
  BY Parts, FirstPositionTyped DEF GetPosition, collections, CollectionsTyped, FirstPosition
<1> DEFINE read == [request[c] EXCEPT !.position = FirstPosition]
           sold(price) == [read EXCEPT !.amount = price * request[c].quantity - Fee,
                                       !.at = "available"]
           bought(price) == [read EXCEPT !.amount = price * request[c].quantity + Fee,
                                         !.at = "pay"]
<1>3. PICK price \in Prices :
        CASE request[c].side = "sell" -> GoOn(c, sold(price))
          [] request[c].side = "buy" /\ request[c].cash >= price * request[c].quantity + Fee ->
               GoOn(c, bought(price))
          [] OTHER -> GoOn(c, Idle)
  BY Zenon DEF GetPosition
<1>4. /\ price * request[c].quantity - Fee \in Int /\ price * request[c].quantity + Fee \in Int
      /\ "available" \in Places /\ "pay" \in Places
  <2>1. price \in Nat /\ request[c].quantity \in Nat /\ Fee \in Nat
    BY <1>1, PaperAssumption
  <2> QED
    BY <2>1 DEF Places
<1>5. read \in Requests
  BY <1>1, <1>2, PositionReadTyped
<1>6. /\ read.side = request[c].side /\ read.quantity = request[c].quantity
      /\ read.cash = request[c].cash /\ read.position = FirstPosition
      /\ read.alone = request[c].alone
  BY <1>1 DEF Requests
<1> HIDE DEF read
<1>7. ~raced => HasCash(request[c].cash)
  BY <1>1, Parts DEF Informed, At
<1>8. ~raced => Len(accounts') <= 1 /\ Len(positions') <= 1
  BY <1>2, Parts
<1>9. CASE request[c].side = "sell"
  <2> DEFINE r == sold(price)
  <2>1. GoOn(c, r)
    BY <1>3, <1>9
  <2>2. r \in Requests
    BY <1>4, <1>5, MovedTyped
  <2>3. /\ r.at = "available" /\ r.side = "sell" /\ r.quantity = request[c].quantity
        /\ r.cash = request[c].cash /\ r.position = FirstPosition
        /\ r.alone = request[c].alone /\ r.amount = price * request[c].quantity - Fee
    BY <1>5, <1>6, <1>9 DEF Requests
  <2> HIDE DEF r
  <2>4. request'[c] = r
    BY <1>1, <2>1, <2>2, GoOnFacts
  <2>5. SideFits(c)'
    BY <1>1, <2>3, <2>4 DEF SideFits, Busy, At, OrderSides
  <2>6. Priced(c)'
    BY <2>3, <2>4 DEF Priced
  <2>7. ~raced => Informed(c)'
    BY <1>2, <1>7, <2>3, <2>4, <2>6 DEF Informed, At, HasCash
  <2> QED
    BY <1>1, <1>2, <1>8, <2>1, <2>2, <2>3, <2>5, <2>7, WentOn
<1>10. CASE request[c].side = "buy" /\ request[c].cash >= price * request[c].quantity + Fee
  <2> DEFINE r == bought(price)
  <2>1. GoOn(c, r)
    BY <1>3, <1>10
  <2>2. r \in Requests
    BY <1>4, <1>5, MovedTyped
  <2>3. /\ r.at = "pay" /\ r.side = "buy" /\ r.quantity = request[c].quantity
        /\ r.cash = request[c].cash /\ r.position = FirstPosition
        /\ r.alone = request[c].alone /\ r.amount = price * request[c].quantity + Fee
    BY <1>5, <1>6, <1>10 DEF Requests
  <2> HIDE DEF r
  <2>4. request'[c] = r /\ r.cash >= r.amount
    BY <1>1, <1>10, <2>1, <2>2, <2>3, GoOnFacts
  <2>5. SideFits(c)'
    BY <1>1, <2>3, <2>4 DEF SideFits, Busy, At, OrderSides
  <2>6. Priced(c)'
    BY <2>3, <2>4 DEF Priced
  <2>7. ~raced => Informed(c)'
    BY <1>2, <1>7, <2>3, <2>4, <2>6 DEF Informed, At, HasCash
  <2> QED
    BY <1>1, <1>2, <1>8, <2>1, <2>2, <2>3, <2>5, <2>7, WentOn
<1>11. CASE ~(request[c].side = "sell")
            /\ ~(request[c].side = "buy" /\ request[c].cash >= price * request[c].quantity + Fee)
  <2>1. GoOn(c, Idle) /\ UNCHANGED collections
    BY <1>3, <1>11 DEF GetPosition
  <2> QED
    BY <1>1, <2>1, Rejected
<1> QED
  BY <1>9, <1>10, <1>11

LEMMA GetAvailableStep ==
  ASSUME IInv, NEW c \in Clients, GetAvailable(c)
  PROVE  IInv'
<1>1. /\ TypeOK /\ request[c] \in Requests /\ At(c, "available") /\ Busy(c)
      /\ request[c].side = "sell" /\ request[c].quantity \in Quantities
      /\ positions \in Seq(Position)
  BY Parts DEF GetAvailable, Busy, At, SideFits, OrderSides, IInv, CollectionsTyped
<1>2. /\ CollectionsTyped' /\ accounts' = accounts /\ positions' = positions
      /\ boughtToday' = boughtToday /\ UNCHANGED collections
  BY Parts DEF GetAvailable, collections, CollectionsTyped
<1>3. CASE positions = << >>
  BY <1>1, <1>2, <1>3, Rejected DEF GetAvailable
<1>4. CASE positions # << >>
  <2> DEFINE r == [request[c] EXCEPT !.available = positions[1].quantity, !.at = "check"]
  <2>1. positions[1] \in Position /\ positions[1].quantity \in Int /\ "check" \in Places
    <3>1. positions[1] \in Position
      BY <1>1, <1>4
    <3> QED
      BY <3>1 DEF Position, Places
  <2>2. r \in Requests
    BY <1>1, <2>1, MovedTyped
  <2>3. /\ r.at = "check" /\ r.side = "sell" /\ r.quantity = request[c].quantity
        /\ r.cash = request[c].cash /\ r.position = request[c].position
        /\ r.alone = request[c].alone /\ r.amount = request[c].amount
        /\ r.available = positions[1].quantity
    BY <1>1 DEF Requests
  <2>4. GoOn(c, r)
    BY <1>4 DEF GetAvailable
  <2> HIDE DEF r
  <2>5. request'[c] = r
    BY <1>1, <2>2, <2>4, GoOnFacts
  <2>6. SideFits(c)'
    BY <1>1, <2>3, <2>5 DEF SideFits, Busy, At, OrderSides
  <2>7. ASSUME ~raced PROVE Informed(c)'
    <3>1. Informed(c)
      BY <1>1, <2>7, Parts DEF OrderSides
    <3>2. HasCash(request[c].cash) /\ Priced(c) /\ request[c].position = FirstPosition
      BY <1>1, <3>1 DEF Informed, At
    <3>3. Priced(c)'
      BY <1>1, <2>3, <2>5, <3>2 DEF Priced
    <3>4. request'[c].available = Quantity(positions)'
      BY <1>2, <1>4, <2>3, <2>5 DEF Quantity
    <3>5. HasCash(request[c].cash)'
      BY <1>2, <2>3, <2>5, <3>2 DEF HasCash
    <3>6. request'[c].position = FirstPosition'
      BY <1>2, <2>3, <2>5, <3>2 DEF FirstPosition
    <3> QED
      BY <2>3, <2>5, <3>3, <3>4, <3>5, <3>6 DEF Informed, At
  <2> QED
    BY <1>1, <1>2, <2>2, <2>3, <2>4, <2>6, <2>7, Parts, WentOn
<1> QED
  BY <1>3, <1>4

LEMMA CheckAvailableStep ==
  ASSUME IInv, NEW c \in Clients, CheckAvailable(c)
  PROVE  IInv'
<1>1. /\ TypeOK /\ request[c] \in Requests /\ At(c, "check") /\ Busy(c)
      /\ request[c].side = "sell" /\ request[c].quantity \in Quantities
  BY Parts DEF CheckAvailable, Busy, At, SideFits, OrderSides, IInv
<1>2. /\ CollectionsTyped' /\ accounts' = accounts /\ positions' = positions
      /\ boughtToday' = boughtToday /\ UNCHANGED collections
  BY Parts DEF CheckAvailable, collections, CollectionsTyped
<1>3. CASE Sellable(c) < request[c].quantity \/ request[c].position = << >>
  BY <1>1, <1>2, <1>3, Rejected DEF CheckAvailable
<1>4. CASE ~(Sellable(c) < request[c].quantity \/ request[c].position = << >>)
  <2>1. GoTo(c, "credit") /\ "credit" \in Places
    BY <1>4 DEF CheckAvailable, Places
  <2>2. PICK r \in Requests :
           /\ GoOn(c, r) /\ r.at = "credit" /\ request'[c] = r
           /\ r.side = request[c].side /\ r.quantity = request[c].quantity
           /\ r.cash = request[c].cash /\ r.position = request[c].position
           /\ r.amount = request[c].amount /\ r.alone = request[c].alone
    BY <1>1, <2>1, GoToFacts
  <2>3. SideFits(c)'
    BY <1>1, <2>2 DEF SideFits, Busy, At, OrderSides
  <2>4. ASSUME ~raced PROVE Informed(c)'
    <3>1. Informed(c)
      BY <1>1, <2>4, Parts DEF OrderSides
    <3>2. /\ HasCash(request[c].cash) /\ Priced(c) /\ request[c].position = FirstPosition
          /\ request[c].available = Quantity(positions)
      BY <1>1, <3>1 DEF Informed, At
    <3>3. Priced(c)'
      BY <1>1, <2>2, <3>2 DEF Priced
    <3>4. request[c].available = Had(c) /\ Had(c)' = Had(c)
      BY <2>2, <3>2, FirstQuantity DEF Had
    <3>5. Spare(Had(c))' = Spare(Had(c))
      BY <1>2, <3>4 DEF Spare
    <3>6. Spare(Had(c)) = Sellable(c)
      BY <3>4 DEF Spare, Sellable
    <3>7. request[c].quantity <= Sellable(c)
      <4>1. /\ request[c].quantity \in Int /\ request[c].available \in Int
            /\ boughtToday \in Int
        BY <1>1, Parts DEF Requests, CollectionsTyped
      <4>2. Sellable(c) \in Int
        BY <4>1 DEF Sellable
      <4> QED
        BY <1>4, <4>1, <4>2
    <3>8. request'[c].quantity <= Spare(Had(c))' /\ request'[c].position # << >>
      BY <1>4, <2>2, <3>5, <3>6, <3>7
    <3>9. HasCash(r.cash)' /\ r.position = FirstPosition'
      BY <1>2, <2>2, <3>2 DEF HasCash, FirstPosition
    <3> QED
      BY <2>2, <3>3, <3>8, <3>9 DEF Informed, At
  <2> QED
    BY <1>1, <1>2, <2>2, <2>3, <2>4, Parts, WentOn
<1> QED
  BY <1>3, <1>4

\* Setting the cash of the first account, if there is one.
LEMMA FirstCash ==
  ASSUME CollectionsTyped, NEW x \in Int,
         accounts' = IF accounts = << >> THEN << >> ELSE [accounts EXCEPT ![1] = x],
         UNCHANGED <<positions, boughtToday, nextId>>
  PROVE  /\ CollectionsTyped' /\ Len(accounts') = Len(accounts)
         /\ accounts # << >> => accounts' # << >> /\ accounts'[1] = x
<1>1. /\ accounts \in Seq(Int) /\ positions' \in Seq(Position) /\ boughtToday' \in Nat
      /\ nextId' \in Nat
  BY DEF CollectionsTyped
<1>2. CASE accounts = << >>
  BY <1>1, <1>2 DEF CollectionsTyped
<1>3. CASE accounts # << >>
  <2>1. 1 \in 1..Len(accounts)
    BY <1>1, <1>3
  <2>2. accounts' \in Seq(Int) /\ Len(accounts') = Len(accounts) /\ accounts'[1] = x
    BY <1>1, <1>3, <2>1, ExceptSeq
  <2>3. accounts' # << >>
    BY <1>1, <1>3, <2>2
  <2> QED
    BY <1>1, <2>2, <2>3 DEF CollectionsTyped
<1> QED
  BY <1>2, <1>3

\* The account has been paid, by a request that goes on to the position.
LEMMA PaidStep ==
  ASSUME IInv, NEW c \in Clients, Busy(c), request[c].at \in {"pay", "credit"},
         GoTo(c, "position"), UNCHANGED <<positions, boughtToday, nextId>>,
         CollectionsTyped', Len(accounts') = Len(accounts),
         ~raced => HasCash(Paid(c))'
  PROVE  IInv'
<1>1. /\ TypeOK /\ "position" \in Places /\ request[c].side \in OrderSides
      /\ request[c].quantity \in Quantities
  BY Parts DEF IInv, Places, SideFits, At, OrderSides
<1>2. PICK r \in Requests :
         /\ GoOn(c, r) /\ r.at = "position" /\ request'[c] = r
         /\ r.side = request[c].side /\ r.quantity = request[c].quantity
         /\ r.cash = request[c].cash /\ r.position = request[c].position
         /\ r.amount = request[c].amount /\ r.alone = request[c].alone
  BY <1>1, GoToFacts
<1>3. SideFits(c)'
  BY <1>1, <1>2 DEF SideFits, Busy, At, OrderSides
<1>4. ASSUME ~raced PROVE Informed(c)'
  <2>1. Informed(c) /\ SideFits(c)
    BY <1>1, <1>4, Parts
  <2>2. Priced(c) /\ request[c].position = FirstPosition
    BY <2>1 DEF Informed
  <2>3. Priced(c)'
    BY <1>2, <2>2 DEF Priced
  <2>4. request'[c].position = FirstPosition'
    BY <1>2, <2>2 DEF FirstPosition
  <2>5. request'[c].side = "buy" => request'[c].cash >= request'[c].amount
    BY <1>2, <2>1 DEF Informed, SideFits, At
  <2>6. request'[c].side = "sell"
          => request'[c].quantity <= Spare(Had(c))' /\ request'[c].position # << >>
    <3>1. Spare(Had(c))' = Spare(Had(c))
      BY <1>2 DEF Spare, Had
    <3> QED
      BY <1>2, <2>1, <3>1 DEF Informed, SideFits, At
  <2> QED
    BY <1>2, <1>4, <2>3, <2>4, <2>5, <2>6 DEF Informed, At
<1>5. ~(r.side = "reset")
  BY <1>1, <1>2 DEF OrderSides
<1>6. ~raced => Len(accounts') <= 1 /\ Len(positions') <= 1
  BY Parts
<1> QED
  BY <1>2, <1>3, <1>4, <1>5, <1>6, WentOn

LEMMA PayStep ==
  ASSUME IInv, NEW c \in Clients, Pay(c)
  PROVE  IInv'
<1>1. /\ TypeOK /\ CollectionsTyped /\ request[c] \in Requests /\ At(c, "pay") /\ Busy(c)
      /\ request[c].side = "buy" /\ GoTo(c, "position")
      /\ UNCHANGED <<positions, boughtToday, nextId>>
  BY Parts DEF IInv, Pay, Busy, At, SideFits
<1> DEFINE x == request[c].cash - request[c].amount
<1>2. x \in Int
  BY <1>1, Fields
<1>3. accounts' = IF accounts = << >> THEN << >> ELSE [accounts EXCEPT ![1] = x]
  BY DEF Pay
<1>4. Paid(c)' = x
  <2>1. "position" \in Places
    BY DEF Places
  <2>2. PICK r \in Requests :
         /\ request'[c] = r /\ r.side = request[c].side
         /\ r.cash = request[c].cash /\ r.amount = request[c].amount
    BY <1>1, <2>1, GoToFacts
  <2> QED
    BY <1>1, <2>2 DEF Paid
<1> HIDE DEF x
<1>5. /\ CollectionsTyped' /\ Len(accounts') = Len(accounts)
      /\ accounts # << >> => accounts' # << >> /\ accounts'[1] = x
  BY <1>1, <1>2, <1>3, FirstCash
<1>6. ~raced => accounts # << >>
  BY <1>1, Parts DEF Informed, At, HasCash, OrderSides
<1>7. ~raced => HasCash(Paid(c))'
  BY <1>4, <1>5, <1>6 DEF HasCash
<1> QED
  BY <1>1, <1>5, <1>7, PaidStep DEF At

LEMMA CreditStep ==
  ASSUME IInv, NEW c \in Clients, Credit(c)
  PROVE  IInv'
<1>1. /\ TypeOK /\ CollectionsTyped /\ request[c] \in Requests /\ At(c, "credit") /\ Busy(c)
      /\ request[c].side = "sell" /\ GoTo(c, "position")
      /\ UNCHANGED <<positions, boughtToday, nextId>>
      /\ accounts \in Seq(Int)
  BY Parts DEF IInv, Credit, Busy, At, SideFits, CollectionsTyped
<1> DEFINE x == IF accounts = << >> THEN 0 ELSE accounts[1] + request[c].amount
<1>2. x \in Int
  BY <1>1, Fields
<1>3. accounts' = IF accounts = << >> THEN << >> ELSE [accounts EXCEPT ![1] = x]
  BY DEF Credit
<1>4. Paid(c)' = request[c].cash + request[c].amount
  <2>1. "position" \in Places
    BY DEF Places
  <2>2. PICK r \in Requests :
         /\ request'[c] = r /\ r.side = request[c].side
         /\ r.cash = request[c].cash /\ r.amount = request[c].amount
    BY <1>1, <2>1, GoToFacts
  <2> QED
    BY <1>1, <2>2 DEF Paid
<1>6. ~raced => accounts # << >> /\ accounts[1] = request[c].cash
  BY <1>1, Parts DEF Informed, At, HasCash, OrderSides
<1>7. ~raced => x = Paid(c)'
  BY <1>4, <1>6
<1> HIDE DEF x
<1>5. /\ CollectionsTyped' /\ Len(accounts') = Len(accounts)
      /\ accounts # << >> => accounts' # << >> /\ accounts'[1] = x
  BY <1>1, <1>2, <1>3, FirstCash
<1>8. ~raced => HasCash(Paid(c))'
  BY <1>5, <1>6, <1>7 DEF HasCash
<1> QED
  BY <1>1, <1>5, <1>8, PaidStep DEF At

\* Setting the quantity of a document, and deleting it.
LEMMA SetQuantityFacts ==
  ASSUME positions \in Seq(Position), NEW id, NEW q \in Int, SetQuantity(id, q)
  PROVE  /\ positions' \in Seq(Position) /\ Len(positions') = Len(positions)
         /\ positions # << >> /\ positions[1].id = id
              => positions' # << >> /\ positions'[1].quantity = q
<1> DEFINE new(i) == IF positions[i].id = id THEN [positions[i] EXCEPT !.quantity = q]
                                             ELSE positions[i]
<1>1. positions' = [i \in 1..Len(positions) |-> new(i)] /\ Len(positions) \in Nat
  BY DEF SetQuantity
<1>2. ASSUME NEW i \in 1..Len(positions)
      PROVE  new(i) \in Position /\ (positions[i].id = id => new(i).quantity = q)
  <2>1. positions[i] \in Position
    BY <1>2
  <2> QED
    BY <2>1 DEF Position
<1> HIDE DEF new
<1>3. positions' \in Seq(Position) /\ Len(positions') = Len(positions)
  BY <1>1, <1>2
<1>4. ASSUME positions # << >>, positions[1].id = id
      PROVE  positions' # << >> /\ positions'[1].quantity = q
  <2>1. 1 \in 1..Len(positions)
    BY <1>4
  <2>2. positions'[1] = new(1)
    BY <1>1, <2>1
  <2>3. positions' # << >>
    BY <1>3, <2>1
  <2> QED
    BY <1>2, <1>4, <2>1, <2>2, <2>3
<1> QED
  BY <1>3, <1>4

LEMMA DeleteFacts ==
  ASSUME positions \in Seq(Position), NEW id, Delete(id)
  PROVE  /\ positions' \in Seq(Position)
         /\ Len(positions) <= 1 /\ positions # << >> /\ positions[1].id = id
              => positions' = << >>
<1>1. CASE \E i \in DOMAIN positions : positions[i].id = id
  <2>1. PICK i \in DOMAIN positions : positions' = RemoveAt(positions, i)
    BY <1>1 DEF Delete
  <2> QED
    BY <2>1, RemoveAtTyped
<1>2. CASE ~ \E i \in DOMAIN positions : positions[i].id = id
  <2>1. positions' = positions
    BY <1>2 DEF Delete
  <2>2. positions # << >> => 1 \in DOMAIN positions
    OBVIOUS
  <2> QED
    BY <1>2, <2>1, <2>2
<1> QED
  BY <1>1, <1>2

\* What an order makes of the positions: an order that has met no other finds
\* the one it read and leaves one at most, with the quantity it computed.
LEMMA PutFacts ==
  ASSUME IInv, NEW c \in Clients, PutPosition(c)
  PROVE  /\ positions' \in Seq(Position) /\ nextId' \in Nat
         /\ ~raced => Len(positions') <= 1 /\ Quantity(positions') = Left(c)
<1>1. /\ positions \in Seq(Position) /\ nextId \in Nat /\ request[c] \in Requests
      /\ At(c, "position") /\ request[c].side \in OrderSides
      /\ request[c].quantity \in Nat /\ request[c].position \in Seq(Position)
  BY Parts, Fields DEF PutPosition, SideFits, At, CollectionsTyped
<1>2. ~raced => /\ Len(positions) <= 1 /\ request[c].position = FirstPosition
                /\ request[c].side = "sell" => request[c].position # << >>
  BY <1>1, Parts DEF Informed, At
<1>3. CASE request[c].position = << >>
  <2> DEFINE p == [id |-> nextId, quantity |-> request[c].quantity]
  <2>1. positions' = Append(positions, p) /\ nextId' = nextId + 1
    BY <1>3 DEF PutPosition
  <2>2. p \in Position /\ p.quantity = request[c].quantity
    BY <1>1 DEF Position
  <2> HIDE DEF p
  <2>3. positions' \in Seq(Position) /\ nextId' \in Nat
    BY <1>1, <2>1, <2>2
  <2>4. positions = << >> => Len(positions') <= 1 /\ positions' # << >> /\ positions'[1] = p
    BY <1>1, <2>1, <2>2
  <2>5. ~raced => positions = << >> /\ request[c].side = "buy"
    BY <1>1, <1>2, <1>3 DEF FirstPosition, OrderSides
  <2>6. request[c].side = "buy" => Left(c) = request[c].quantity
    BY <1>1, <1>3 DEF Left, Had, Quantity
  <2> QED
    BY <2>2, <2>3, <2>4, <2>5, <2>6 DEF Quantity
<1>4. CASE request[c].position # << >>
  <2> DEFINE first == request[c].position[1]
             q == NewQuantity(c)
  <2>1. first \in Position /\ first.quantity \in Int
    <3>1. first \in Position
      BY <1>1, <1>4
    <3> QED
      BY <3>1 DEF Position
  <2>2. q = Left(c) /\ q \in Int
    BY <1>1, <1>4, <2>1 DEF NewQuantity, Left, Had, Quantity
  <2>3. ~raced => positions # << >> /\ positions[1].id = first.id /\ Len(positions) <= 1
    BY <1>2, <1>4 DEF FirstPosition
  <2>4. nextId' = nextId
    BY <1>4 DEF PutPosition
  <2>5. CASE request[c].side = "sell" /\ q = 0
    <3>1. Delete(first.id)
      BY <1>4, <2>5 DEF PutPosition
    <3> HIDE DEF first
    <3>2. /\ positions' \in Seq(Position)
          /\ Len(positions) <= 1 /\ positions # << >> /\ positions[1].id = first.id
               => positions' = << >>
      BY <1>1, <3>1, DeleteFacts
    <3>3. positions' = << >> => Len(positions') <= 1 /\ Quantity(positions') = 0
      BY DEF Quantity
    <3> QED
      BY <1>1, <2>2, <2>3, <2>4, <2>5, <3>2, <3>3
  <2>6. CASE ~(request[c].side = "sell" /\ q = 0)
    <3>1. SetQuantity(first.id, q)
      BY <1>4, <2>6 DEF PutPosition
    <3> HIDE DEF first, q
    <3>2. /\ positions' \in Seq(Position) /\ Len(positions') = Len(positions)
          /\ positions # << >> /\ positions[1].id = first.id
               => positions' # << >> /\ positions'[1].quantity = q
      BY <1>1, <2>2, <3>1, SetQuantityFacts
    <3> QED
      BY <1>1, <2>2, <2>3, <2>4, <3>2 DEF Quantity
  <2> QED
    BY <2>5, <2>6
<1> QED
  BY <1>3, <1>4

LEMMA PutPositionStep ==
  ASSUME IInv, NEW c \in Clients, PutPosition(c)
  PROVE  IInv'
<1>1. /\ TypeOK /\ CollectionsTyped /\ At(c, "position") /\ Busy(c) /\ "trade" \in Places
      /\ request[c].side \in OrderSides /\ request[c].quantity \in Quantities
      /\ GoTo(c, "trade") /\ UNCHANGED <<accounts, boughtToday>>
  BY Parts DEF IInv, PutPosition, Busy, At, SideFits, Places
<1>2. CollectionsTyped'
  BY <1>1, PutFacts DEF CollectionsTyped
<1>3. PICK r \in Requests :
         /\ GoOn(c, r) /\ r.at = "trade" /\ request'[c] = r
         /\ r.side = request[c].side /\ r.quantity = request[c].quantity
         /\ r.cash = request[c].cash /\ r.position = request[c].position
         /\ r.amount = request[c].amount /\ r.alone = request[c].alone
  BY <1>1, GoToFacts
<1>4. SideFits(c)'
  BY <1>1, <1>3 DEF SideFits, Busy, At, OrderSides
<1>5. ~(r.side = "reset")
  BY <1>1, <1>3 DEF OrderSides
<1>6. ~raced => Len(accounts') <= 1 /\ Len(positions') <= 1
  BY <1>1, Parts, PutFacts
<1>7. ASSUME ~raced PROVE Informed(c)'
  <2>1. Informed(c) /\ Quantity(positions)' = Left(c)
    BY <1>1, <1>7, Parts, PutFacts
  <2>2. Priced(c) /\ HasCash(Paid(c))
    BY <1>1, <2>1 DEF Informed, At
  <2>3. Priced(c)'
    BY <1>3, <2>2 DEF Priced
  <2>4. HasCash(Paid(c))'
    BY <1>1, <1>3, <2>2 DEF HasCash, Paid
  <2>5. request'[c].side = "buy" => request'[c].cash >= request'[c].amount
    BY <1>1, <1>3, <2>1 DEF Informed, At
  <2>6. request'[c].side = "sell"
          => request'[c].quantity <= Spare(Had(c))' /\ request'[c].position # << >>
    <3>1. Spare(Had(c))' = Spare(Had(c))
      BY <1>1, <1>3 DEF Spare, Had
    <3> QED
      BY <1>1, <1>3, <2>1, <3>1 DEF Informed, At
  <2>7. Quantity(positions)' = Left(c)'
    BY <1>3, <2>1 DEF Left, Had
  <2> QED
    BY <1>3, <2>3, <2>4, <2>5, <2>6, <2>7 DEF Informed, At
<1> QED
  BY <1>1, <1>2, <1>3, <1>4, <1>5, <1>6, <1>7, WentOn

LEMMA RecordTradeStep ==
  ASSUME IInv, NEW c \in Clients, RecordTrade(c)
  PROVE  IInv'
<1>1. /\ CollectionsTyped /\ request[c] \in Requests /\ Busy(c) /\ GoOn(c, Idle)
      /\ UNCHANGED <<accounts, positions, nextId>>
  BY Parts DEF RecordTrade, Busy, At
<1>2. boughtToday' \in Nat
  BY <1>1, Fields DEF RecordTrade, CollectionsTyped
<1>3. CollectionsTyped'
  BY <1>1, <1>2 DEF CollectionsTyped
<1>4. Idle \in Requests /\ Idle.at = "idle" /\ Idle.side = "none"
  BY IdleTyped DEF Idle
<1>5. request'[c] = Idle
  BY <1>1, <1>4, GoOnFacts DEF IInv
<1>6. SideFits(c)'
  BY <1>4, <1>5 DEF SideFits, Busy, At, OrderSides
<1>7. ~raced => Len(accounts') <= 1 /\ Len(positions') <= 1
  BY <1>1, Parts
<1> QED
  BY <1>1, <1>3, <1>4, <1>6, <1>7, WentOn DEF OrderSides

\* A reset on its way from one collection to the next.
LEMMA ResetStep ==
  ASSUME IInv, NEW c \in Clients, Busy(c), NEW place \in Places, GoTo(c, place),
         request[c].side = "reset",
         place \in {"deletePositions", "deleteTrades", "account"},
         CollectionsTyped',
         request[c].alone
           => /\ accounts' = << >>
              /\ place # "deletePositions" => positions' = << >>
              /\ place = "account" => boughtToday' = 0,
         ~raced => Len(accounts') <= 1 /\ Len(positions') <= 1
  PROVE  IInv'
<1>1. PICK r \in Requests :
         /\ GoOn(c, r) /\ r.at = place /\ request'[c] = r
         /\ r.side = request[c].side /\ r.alone = request[c].alone
  BY GoToFacts DEF IInv
<1>2. SideFits(c)' /\ r.side = "reset" /\ ~(r.side \in OrderSides)
  BY <1>1 DEF SideFits, Busy, At, OrderSides
<1>3. r.side = "reset" /\ r.alone => Emptied(c)'
  BY <1>1 DEF Emptied, At
<1> QED
  BY <1>1, <1>2, <1>3, WentOn

LEMMA DeletesStep ==
  ASSUME IInv, NEW c \in Clients, DeleteAccounts(c) \/ DeletePositions(c) \/ DeleteTrades(c)
  PROVE  IInv'
<1>1. /\ CollectionsTyped /\ Busy(c) /\ request[c].side = "reset"
      /\ ~raced => Len(accounts) <= 1 /\ Len(positions) <= 1
      /\ request[c].alone => Emptied(c)
  BY Parts DEF DeleteAccounts, DeletePositions, DeleteTrades, Busy, At, SideFits
<1>2. << >> \in Seq(Int) /\ << >> \in Seq(Position) /\ Len(<< >>) <= 1
      /\ "deletePositions" \in Places /\ "deleteTrades" \in Places /\ "account" \in Places
  BY DEF Places
<1>3. CASE DeleteAccounts(c)
  <2>1. /\ GoTo(c, "deletePositions") /\ accounts' = << >>
        /\ UNCHANGED <<positions, boughtToday, nextId>>
    BY <1>3 DEF DeleteAccounts
  <2>2. CollectionsTyped'
    BY <1>1, <1>2, <2>1 DEF CollectionsTyped
  <2> QED
    BY <1>1, <1>2, <2>1, <2>2, ResetStep
<1>4. CASE DeletePositions(c)
  <2>1. /\ GoTo(c, "deleteTrades") /\ positions' = << >> /\ At(c, "deletePositions")
        /\ UNCHANGED <<accounts, boughtToday, nextId>>
    BY <1>4 DEF DeletePositions
  <2>2. CollectionsTyped'
    BY <1>1, <1>2, <2>1 DEF CollectionsTyped
  <2>3. request[c].alone => accounts' = << >>
    BY <1>1, <2>1 DEF Emptied, At
  <2> QED
    BY <1>1, <1>2, <2>1, <2>2, <2>3, ResetStep
<1>5. CASE DeleteTrades(c)
  <2>1. /\ GoTo(c, "account") /\ boughtToday' = 0 /\ At(c, "deleteTrades")
        /\ UNCHANGED <<accounts, positions, nextId>>
    BY <1>5 DEF DeleteTrades
  <2>2. CollectionsTyped'
    BY <1>1, <2>1 DEF CollectionsTyped
  <2>3. request[c].alone => accounts' = << >> /\ positions' = << >>
    BY <1>1, <2>1 DEF Emptied, At
  <2> QED
    BY <1>1, <1>2, <2>1, <2>2, <2>3, ResetStep
<1> QED
  BY <1>3, <1>4, <1>5

\* A reset that met no other puts the books in order.
LEMMA ResetDoneStep ==
  ASSUME IInv, NEW c \in Clients, ResetDone(c)
  PROVE  IInv'
<1>1. /\ Busy(c) /\ request' = [request EXCEPT ![c] = Idle] /\ UNCHANGED <<collections, started>>
      /\ At(c, "order") /\ request[c].side = "reset"
  BY DEF ResetDone, Busy, At
<1>2. raced' = (raced /\ ~request[c].alone) /\ raced' \in BOOLEAN
  BY DEF ResetDone
<1>3. ~raced' => ~raced \/ request[c].alone
  BY <1>2
<1>4. request[c].alone => Len(accounts) <= 1 /\ Len(positions) <= 1
  <2>1. request[c].alone => Len(accounts) <= 1 /\ positions = << >>
    BY <1>1, Parts DEF Emptied, At
  <2>2. Len(<< >>) <= 1
    OBVIOUS
  <2> QED
    BY <2>1, <2>2
<1>5. ~raced' => Len(accounts) <= 1 /\ Len(positions) <= 1
  BY <1>3, <1>4, Parts
<1> QED
  BY <1>1, <1>2, <1>3, <1>5, Ended

LEMMA FailStep ==
  ASSUME IInv, NEW c \in Clients, Fail(c)
  PROVE  IInv'
<1>1. /\ Busy(c) /\ request' = [request EXCEPT ![c] = Idle] /\ UNCHANGED <<collections, started>>
  BY DEF Fail
<1>2. raced' = (raced \/ HalfWay(c)) /\ raced' \in BOOLEAN /\ (~raced' => ~raced)
  BY DEF Fail
<1> QED
  BY <1>1, <1>2, Parts, Ended

LEMMA ServeStep ==
  ASSUME IInv, NEW c \in Clients, Serve(c), ~PlaceOrder(c), ~ResetAccount(c)
  PROVE  IInv'
BY GetAccountStep, CreateAccountStep, GetPositionStep, GetAvailableStep, CheckAvailableStep,
   PayStep, CreditStep, PutPositionStep, RecordTradeStep, DeletesStep, ResetDoneStep, FailStep
   DEF Serve
-----------------------------------------------------------------------------
\* A new request that finds another one takes from all of them the belief to
\* be alone; then the books are no longer known to be in order.
LEMMA StartStep ==
  ASSUME IInv, NEW c \in Clients, NEW r \in Requests, Start(c, r),
         r.at \in {"account", "deleteAccounts"},
         \/ r.at = "account" /\ r.side \in OrderSides /\ r.quantity \in Quantities
         \/ r.at = "deleteAccounts" /\ r.side = "reset"
  PROVE  IInv'
<1> DEFINE alone == \A other \in Clients : ~Busy(other)
           own == [r EXCEPT !.alone = alone]
           beside(d) == [request[d] EXCEPT !.alone = FALSE]
<1>1. /\ request \in [Clients -> Requests] /\ started \in 0..MaxRequests /\ started < MaxRequests
      /\ MaxRequests \in Nat /\ started' = started + 1 /\ UNCHANGED collections
      /\ raced' = (raced \/ ~alone)
      /\ request' = [d \in Clients |-> IF d = c THEN own ELSE beside(d)]
  BY Parts, PaperAssumption DEF Start
<1>2. own \in Requests /\ \A d \in Clients : beside(d) \in Requests
  <2>1. alone \in BOOLEAN /\ FALSE \in BOOLEAN /\ \A d \in Clients : request[d] \in Requests
    BY <1>1
  <2>2. own \in Requests
    BY <2>1, CompanyTyped
  <2>3. ASSUME NEW d \in Clients PROVE beside(d) \in Requests
    BY <2>1, CompanyTyped
  <2> QED
    BY <2>2, <2>3
<1>3. /\ own.at = r.at /\ own.side = r.side /\ own.quantity = r.quantity /\ own.alone = alone
      /\ \A d \in Clients :
           /\ beside(d).at = request[d].at /\ beside(d).side = request[d].side
           /\ beside(d).quantity = request[d].quantity /\ beside(d).alone = FALSE
  <2>1. r \in Requests /\ \A d \in Clients : request[d] \in Requests
    BY <1>1
  <2> QED
    BY <2>1 DEF Requests
<1> HIDE DEF own, beside
<1>4. /\ request'[c] = own
      /\ \A d \in Clients : d # c => request'[d] = beside(d)
  BY <1>1
<1>5. TypeOK'
  <2>1. request' \in [Clients -> Requests]
    BY <1>1, <1>2
  <2>2. started' \in 0..MaxRequests
    BY <1>1
  <2>3. CollectionsTyped'
    BY <1>1, Parts DEF collections, CollectionsTyped
  <2>4. raced' \in BOOLEAN
    BY <1>1
  <2> QED
    BY <2>1, <2>2, <2>3, <2>4, TypePartsNext
<1>6. SidesFit'
  <2> SUFFICES ASSUME NEW d \in Clients PROVE SideFits(d)'
    BY DEF SidesFit
  <2>1. CASE d = c
    BY <1>3, <1>4, <2>1 DEF SideFits, Busy, At, OrderSides
  <2>2. CASE d # c
    <3>1. SideFits(d)
      BY Parts
    <3> QED
      BY <1>3, <1>4, <2>2, <3>1 DEF SideFits, Busy, At
  <2> QED
    BY <2>1, <2>2
<1>7. \A d \in Clients : d # c => ~request'[d].alone /\ (Busy(d)' <=> Busy(d))
  BY <1>3, <1>4 DEF Busy, At
<1>8. request'[c].alone <=> alone
  BY <1>3, <1>4
<1>9. NoCompany'
  BY <1>7, <1>8 DEF NoCompany
<1>10. ~raced' => ~raced /\ alone
  BY <1>1
<1>11. OneAtATime'
  BY <1>7, <1>8, <1>10 DEF OneAtATime
<1>12. ResetEmpties'
  <2> SUFFICES ASSUME NEW d \in Clients, request'[d].side = "reset", request'[d].alone
               PROVE  Emptied(d)'
    BY DEF ResetEmpties
  <2>1. d = c
    BY <1>7
  <2>2. request'[c].at = "deleteAccounts"
    BY <1>3, <1>4, <2>1 DEF OrderSides
  <2> QED
    BY <2>1, <2>2 DEF Emptied, At
<1>13. OneDocument'
  <2>1. accounts' = accounts /\ positions' = positions
    BY <1>1 DEF collections
  <2> QED
    BY <1>10, <2>1, Parts DEF OneDocument
<1>14. AllInformed'
  <2> SUFFICES ASSUME ~raced', NEW d \in Clients, request'[d].side \in OrderSides
               PROVE  Informed(d)'
    BY DEF AllInformed
  <2>1. d = c
    <3>1. ASSUME d # c PROVE FALSE
      <4>1. At(d, "idle") /\ SideFits(d)
        BY <1>10, Parts DEF Busy
      <4> QED
        BY <1>3, <1>4, <3>1, <4>1 DEF SideFits, OrderSides
    <3> QED
      BY <3>1
  <2>2. request'[c].at = "account"
    BY <1>3, <1>4, <2>1 DEF OrderSides
  <2> QED
    BY <2>1, <2>2 DEF Informed, At
<1> QED
  BY <1>5, <1>6, <1>9, <1>11, <1>12, <1>13, <1>14 DEF IInv

LEMMA NewRequestStep ==
  ASSUME IInv, NEW c \in Clients, PlaceOrder(c) \/ ResetAccount(c)
  PROVE  IInv'
<1>1. /\ << >> \in Seq(Position) /\ "account" \in Places /\ "deleteAccounts" \in Places
      /\ Quantities \subseteq Nat
  BY PaperAssumption DEF Places
<1>2. CASE PlaceOrder(c)
  <2>1. PICK side \in {"buy", "sell"}, q \in Quantities :
          Start(c, [Idle EXCEPT !.at = "account", !.side = side, !.quantity = q])
    BY <1>2 DEF PlaceOrder
  <2> DEFINE r == [Idle EXCEPT !.at = "account", !.side = side, !.quantity = q]
  <2>2. r \in Requests /\ r.at = "account" /\ r.side = side /\ r.quantity = q
    <3>1. r \in Requests
      BY <1>1, IdleTyped, OrderTyped DEF OrderSides
    <3>2. r.at = "account" /\ r.side = side /\ r.quantity = q
      BY IdleTyped DEF Requests
    <3> QED
      BY <3>1, <3>2
  <2> HIDE DEF r
  <2>3. Start(c, r)
    BY <2>1 DEF r
  <2> QED
    BY <2>2, <2>3, StartStep DEF OrderSides
<1>3. CASE ResetAccount(c)
  <2> DEFINE r == [Idle EXCEPT !.at = "deleteAccounts", !.side = "reset"]
  <2>1. Start(c, r)
    BY <1>3 DEF ResetAccount
  <2>2. r \in Requests /\ r.at = "deleteAccounts" /\ r.side = "reset"
    <3>1. r \in Requests
      BY <1>1, IdleTyped, ResetTyped
    <3>2. r.at = "deleteAccounts" /\ r.side = "reset"
      BY IdleTyped DEF Requests
    <3> QED
      BY <3>1, <3>2
  <2> HIDE DEF r
  <2> QED
    BY <2>1, <2>2, StartStep
<1> QED
  BY <1>2, <1>3

\* Midnight leaves of a request all but the freshness of what it has read.
LEMMA MidnightFacts ==
  ASSUME IInv, Midnight
  PROVE  /\ boughtToday' = 0 /\ UNCHANGED <<accounts, positions, nextId, started, raced>>
         /\ request' \in [Clients -> Requests]
         /\ \A d \in Clients :
              /\ request'[d].at = request[d].at /\ request'[d].side = request[d].side
              /\ request'[d].quantity = request[d].quantity
              /\ request'[d].cash = request[d].cash
              /\ request'[d].position = request[d].position
              /\ request'[d].amount = request[d].amount
              /\ request'[d].available = request[d].available
              /\ request'[d].alone = request[d].alone
<1> DEFINE old(d) == [request[d] EXCEPT !.fresh = FALSE]
<1>1. /\ boughtToday' = 0 /\ UNCHANGED <<accounts, positions, nextId, started, raced>>
      /\ request' = [d \in Clients |-> IF request[d].at \in {"idle", "account", "create", "order"}
                                       THEN request[d] ELSE old(d)]
  BY DEF Midnight
<1>2. \A d \in Clients : request[d] \in Requests
  BY Parts
<1>3. ASSUME NEW d \in Clients PROVE old(d) \in Requests
  BY <1>2, StaleTyped
<1>4. ASSUME NEW d \in Clients
      PROVE  /\ old(d).at = request[d].at /\ old(d).side = request[d].side
             /\ old(d).quantity = request[d].quantity /\ old(d).cash = request[d].cash
             /\ old(d).position = request[d].position /\ old(d).amount = request[d].amount
             /\ old(d).available = request[d].available /\ old(d).alone = request[d].alone
  BY <1>2 DEF Requests
<1> HIDE DEF old
<1>5. request' \in [Clients -> Requests]
  BY <1>1, <1>2, <1>3
<1>6. ASSUME NEW d \in Clients PROVE request'[d] = request[d] \/ request'[d] = old(d)
  BY <1>1
<1> QED
  BY <1>1, <1>4, <1>5, <1>6

LEMMA MidnightStep ==
  ASSUME IInv, Midnight
  PROVE  IInv'
<1>1. /\ boughtToday' = 0 /\ UNCHANGED <<accounts, positions, nextId, started, raced>>
      /\ request' \in [Clients -> Requests]
      /\ \A d \in Clients :
           /\ request'[d].at = request[d].at /\ request'[d].side = request[d].side
           /\ request'[d].quantity = request[d].quantity
           /\ request'[d].cash = request[d].cash
           /\ request'[d].position = request[d].position
           /\ request'[d].amount = request[d].amount
           /\ request'[d].available = request[d].available
           /\ request'[d].alone = request[d].alone
  BY MidnightFacts
<1>2. TypeOK'
  BY <1>1, Parts, TypePartsNext DEF CollectionsTyped
<1>3. \A d \in Clients : Busy(d)' <=> Busy(d)
  BY <1>1 DEF Busy, At
<1>4. SidesFit'
  <2> SUFFICES ASSUME NEW d \in Clients PROVE SideFits(d)'
    BY DEF SidesFit
  <2>1. SideFits(d)
    BY Parts
  <2> QED
    BY <1>1, <2>1 DEF SideFits, Busy, At
<1>5. NoCompany' /\ OneAtATime' /\ OneDocument'
  BY <1>1, <1>3 DEF IInv, NoCompany, OneAtATime, OneDocument
<1>6. ResetEmpties'
  <2> SUFFICES ASSUME NEW d \in Clients, request'[d].side = "reset", request'[d].alone
               PROVE  Emptied(d)'
    BY DEF ResetEmpties
  <2>1. Emptied(d)
    BY <1>1, Parts
  <2> QED
    BY <1>1, <2>1 DEF Emptied, At, HasCash
<1>7. AllInformed'
  <2> SUFFICES ASSUME ~raced', NEW d \in Clients, request'[d].side \in OrderSides
               PROVE  Informed(d)'
    BY DEF AllInformed
  <2>1. Informed(d)
    BY <1>1, Parts
  <2>2. Priced(d)' <=> Priced(d)
    BY <1>1 DEF Priced
  <2>3. Had(d)' = Had(d) /\ Left(d)' = Left(d) /\ Paid(d)' = Paid(d)
    BY <1>1 DEF Had, Left, Paid
  <2>4. request[d].quantity <= Spare(Had(d)) => request[d].quantity <= Spare(Had(d))'
    <3>1. request[d].quantity \in Nat /\ boughtToday \in Nat /\ Had(d) \in Int
      <4>1. request[d].quantity \in Nat /\ request[d].position \in Seq(Position)
        BY Parts, Fields
      <4>2. boughtToday \in Nat
        BY Parts DEF CollectionsTyped
      <4>3. request[d].position # << >> => request[d].position[1] \in Position
        BY <4>1
      <4>4. Had(d) \in Int
        BY <4>3 DEF Had, Quantity, Position
      <4> QED
        BY <4>1, <4>2, <4>4
    <3>2. CASE TPlus
      <4>1. /\ Spare(Had(d)) = IF Had(d) > boughtToday THEN Had(d) - boughtToday ELSE 0
            /\ Spare(Had(d))' = IF Had(d) > 0 THEN Had(d) - 0 ELSE 0
        BY <1>1, <2>3, <3>2 DEF Spare
      <4> QED
        BY <3>1, <4>1
    <3>3. CASE ~TPlus
      BY <2>3, <3>3 DEF Spare
    <3> QED
      BY <3>2, <3>3
  <2>5. FirstPosition' = FirstPosition /\ Quantity(positions)' = Quantity(positions)
    BY <1>1 DEF FirstPosition
  <2> QED
    BY <1>1, <2>1, <2>2, <2>3, <2>4, <2>5 DEF Informed, At, HasCash
<1> QED
  BY <1>2, <1>4, <1>5, <1>6, <1>7 DEF IInv

LEMMA InitInv == Init => IInv
<1> SUFFICES ASSUME Init PROVE IInv
  OBVIOUS
<1>1. /\ accounts = << >> /\ positions = << >> /\ boughtToday = 0 /\ nextId = 1
      /\ started = 0 /\ raced = FALSE /\ MaxRequests \in Nat
      /\ request = [c \in Clients |-> Idle]
  BY PaperAssumption DEF Init
<1>2. TypeOK
  <2>1. request \in [Clients -> Requests]
    BY <1>1, IdleTyped
  <2>2. << >> \in Seq(Int) /\ << >> \in Seq(Position)
    OBVIOUS
  <2>3. CollectionsTyped
    BY <1>1, <2>2 DEF CollectionsTyped
  <2>4. started \in 0..MaxRequests
    BY PaperAssumption DEF Init
  <2>5. raced \in BOOLEAN
    BY DEF Init
  <2> QED
    BY <2>1, <2>3, <2>4, <2>5, TypeParts
<1>3. \A c \in Clients : request[c].at = "idle" /\ request[c].side = "none"
  BY <1>1 DEF Idle
<1>4. SidesFit /\ NoCompany /\ OneAtATime /\ ResetEmpties /\ AllInformed
  BY <1>3 DEF SidesFit, SideFits, NoCompany, OneAtATime, ResetEmpties, AllInformed,
              Busy, At, OrderSides
<1>5. OneDocument
  <2>1. Len(<< >>) <= 1
    OBVIOUS
  <2> QED
    BY <1>1, <2>1 DEF OneDocument
<1> QED
  BY <1>2, <1>4, <1>5 DEF IInv

LEMMA InductiveStep == IInv /\ [Next]_vars => IInv'
<1> SUFFICES ASSUME IInv, [Next]_vars PROVE IInv'
  OBVIOUS
<1>1. ASSUME NEW c \in Clients, Serve(c) PROVE IInv'
  BY <1>1, NewRequestStep, ServeStep
<1>2. CASE Midnight
  BY <1>2, MidnightStep
<1>3. CASE UNCHANGED vars
  BY <1>3 DEF vars, collections, IInv, TypeOK, SidesFit, SideFits, NoCompany, OneAtATime,
              ResetEmpties, Emptied, OneDocument, AllInformed, Informed, HasCash, Paid,
              Priced, FirstPosition, Spare, Had, Left, Busy, At
<1> QED
  BY <1>1, <1>2, <1>3 DEF Next
-----------------------------------------------------------------------------
\* Every state of the paper account satisfies the inductive invariant.
THEOREM Inductive == Spec => []IInv
  BY InitInv, InductiveStep, PTL DEF Spec

\* The collections and the requests keep their types, whatever requests
\* overlap or stop half-way.
THEOREM TypeCorrect == Spec => []TypeOK
<1>1. IInv => TypeOK
  BY DEF IInv
<1> QED
  BY <1>1, Inductive, PTL
-----------------------------------------------------------------------------
(* What the ledger shows while c is the only client that may be busy.      *)
Balance == IF accounts = << >> THEN StartCash ELSE accounts[1]
Shows(cash, shares, today) ==
  ledgerCash = cash /\ ledgerShares = shares /\ ledgerToday = today
OnlyOne(c) == \A d \in Clients : d # c => At(d, "idle")
View(c) ==
  /\ request[c].side = "reset" => Shows(StartCash, 0, 0)
  /\ request[c].side # "reset" /\ request[c].at \in {"position", "trade"}
       => Shows(request[c].cash, Had(c), boughtToday)
  /\ request[c].side # "reset" /\ ~(request[c].at \in {"position", "trade"})
       => Shows(Balance, Quantity(positions), boughtToday)
Viewed == IInv /\ ~raced => \A c \in Clients : OnlyOne(c) => View(c)

LEMMA LedgerViewed == Viewed
<1> SUFFICES ASSUME IInv, ~raced, NEW c \in Clients, OnlyOne(c) PROVE View(c)
  BY DEF Viewed
<1>1. Resetting <=> request[c].side = "reset"
  <2>1. \A d \in Clients : d # c => request[d].side = "none"
    BY Parts DEF OnlyOne, SideFits
  <2> QED
    BY <2>1 DEF Resetting
<1>2. CASE request[c].side = "reset"
  BY <1>1, <1>2 DEF View, Shows, ledgerCash, ledgerShares, ledgerToday
<1>3. CASE request[c].side # "reset" /\ request[c].at \in {"position", "trade"}
  <2>1. Writing = {c}
    BY <1>3 DEF Writing, OnlyOne, At
  <2>2. Writer = c
    BY <2>1 DEF Writer
  <2>3. accounts # << >>
    BY <1>3, Parts DEF SideFits, Informed, HasCash
  <2>4. Writing # {}
    BY <2>1
  <2>5. Shows(request[c].cash, Had(c), boughtToday)
    BY <1>1, <1>3, <2>2, <2>3, <2>4 DEF Shows, ledgerCash, ledgerShares, ledgerToday, Had
  <2> QED
    BY <1>3, <2>5 DEF View
<1>4. CASE request[c].side # "reset" /\ ~(request[c].at \in {"position", "trade"})
  <2>1. Writing = {}
    BY <1>4 DEF Writing, OnlyOne, At
  <2>2. Shows(Balance, Quantity(positions), boughtToday)
    BY <1>1, <1>4, <2>1 DEF Shows, ledgerCash, ledgerShares, ledgerToday, Balance
  <2> QED
    BY <1>4, <2>2 DEF View
<1> QED
  BY <1>2, <1>3, <1>4

LEMMA LedgerViewedNext == Viewed'
  BY LedgerViewed, PTL

\* Both sides of a step of one request.
LEMMA BothViews ==
  ASSUME IInv, IInv', ~raced, ~raced', NEW c \in Clients,
         OnlyOne(c), OnlyOne(c)'
  PROVE  View(c) /\ View(c)'
  BY LedgerViewed, LedgerViewedNext DEF Viewed

\* Nothing is seen of a step that reads, or that creates the account, ...
LEMMA QuietOrder ==
  ASSUME IInv, IInv', ~raced, ~raced', NEW c \in Clients,
         OnlyOne(c), OnlyOne(c)',
         request[c].side # "reset", ~(request[c].at \in {"position", "trade"}),
         request'[c].side # "reset", ~(request'[c].at \in {"position", "trade"}),
         Balance' = Balance, Quantity(positions)' = Quantity(positions),
         boughtToday' = boughtToday
  PROVE  ledger' = ledger
<1>1. /\ Shows(Balance, Quantity(positions), boughtToday)
      /\ Shows(Balance, Quantity(positions), boughtToday)'
  BY BothViews DEF View
<1> QED
  BY <1>1 DEF Shows, ledger

\* ... nor of a reset on its way.
LEMMA QuietReset ==
  ASSUME IInv, IInv', ~raced, ~raced', NEW c \in Clients,
         OnlyOne(c), OnlyOne(c)',
         request[c].side = "reset", request'[c].side = "reset"
  PROVE  ledger' = ledger
<1>1. Shows(StartCash, 0, 0) /\ Shows(StartCash, 0, 0)'
  BY BothViews DEF View
<1> QED
  BY <1>1 DEF Shows, ledger

\* A served client is the only one, before and after, while the books are in
\* order.
LEMMA ServedAlone ==
  ASSUME IInv, ~raced, ~raced', NEW c \in Clients, Serve(c)
  PROVE  OnlyOne(c) /\ OnlyOne(c)'
<1>1. request \in [Clients -> Requests]
  BY Parts
<1>2. CASE PlaceOrder(c) \/ ResetAccount(c)
  <2>1. PICK r : Start(c, r)
    BY <1>2 DEF PlaceOrder, ResetAccount
  <2>2. \A d \in Clients : ~Busy(d)
    BY <2>1 DEF Start
  <2>3. ASSUME NEW d \in Clients, d # c PROVE request'[d].at = request[d].at
    <3>1. request'[d] = [request[d] EXCEPT !.alone = FALSE]
      BY <2>1, <2>3 DEF Start
    <3> QED
      BY <1>1, <3>1 DEF Requests
  <2> QED
    BY <2>2, <2>3 DEF OnlyOne, Busy, At
<1>3. CASE ~(PlaceOrder(c) \/ ResetAccount(c))
  <2>1. /\ Busy(c)
        /\ \A d \in Clients : d # c => request'[d] = request[d]
    <3>1. CASE ResetDone(c) \/ Fail(c)
      BY <1>1, <3>1 DEF ResetDone, Fail, Busy, At
    <3>2. CASE ~(ResetDone(c) \/ Fail(c))
      <4>1. \E r : GoOn(c, r)
        BY <1>3, <3>2, Zenon DEF Serve, GetAccount, CreateAccount, GetPosition, GetAvailable,
             CheckAvailable, Pay, Credit, PutPosition, RecordTrade, DeleteAccounts,
             DeletePositions, DeleteTrades, GoTo
      <4>2. Busy(c)
        BY <1>3, <3>2, Zenon DEF Serve, GetAccount, CreateAccount, GetPosition, GetAvailable,
             CheckAvailable, Pay, Credit, PutPosition, RecordTrade, DeleteAccounts,
             DeletePositions, DeleteTrades, Busy, At
      <4> QED
        BY <1>1, <4>1, <4>2 DEF GoOn
    <3> QED
      BY <3>1, <3>2
  <2>2. OnlyOne(c)
    BY <2>1, Parts, OthersIdle DEF OnlyOne
  <2> QED
    BY <2>1, <2>2 DEF OnlyOne, At
<1> QED
  BY <1>2, <1>3

\* A new order changes nothing; a new reset starts the books afresh.
LEMMA NewRequestBook ==
  ASSUME IInv, IInv', ~raced, ~raced', NEW c \in Clients,
         OnlyOne(c), OnlyOne(c)', PlaceOrder(c) \/ ResetAccount(c)
  PROVE  Book!Next \/ ledger' = ledger
<1>5. request \in [Clients -> Requests] /\ SideFits(c)
  BY Parts
<1>6. UNCHANGED collections /\ ~Busy(c)
  BY DEF PlaceOrder, ResetAccount, Start
<1>1. /\ request \in [Clients -> Requests] /\ UNCHANGED collections
      /\ At(c, "idle") /\ request[c].side = "none"
  BY <1>5, <1>6 DEF SideFits, Busy
<1>2. /\ Balance' = Balance /\ Quantity(positions)' = Quantity(positions)
      /\ boughtToday' = boughtToday
  BY <1>1 DEF collections, Balance
<1>3. CASE PlaceOrder(c)
  <2>1. PICK side \in {"buy", "sell"}, q \in Quantities :
          Start(c, [Idle EXCEPT !.at = "account", !.side = side, !.quantity = q])
    BY <1>3 DEF PlaceOrder
  <2>2. \E b \in BOOLEAN :
          request'[c] = [[Idle EXCEPT !.at = "account", !.side = side, !.quantity = q]
                           EXCEPT !.alone = b]
    BY <2>1 DEF Start
  <2>3. request'[c].at = "account" /\ request'[c].side # "reset"
    BY <2>2 DEF Idle
  <2> QED
    BY <1>1, <1>2, <2>3, QuietOrder DEF At
<1>4. CASE ResetAccount(c)
  <2>1. \E b \in BOOLEAN :
          request'[c] = [[Idle EXCEPT !.at = "deleteAccounts", !.side = "reset"]
                           EXCEPT !.alone = b]
    BY <1>4 DEF ResetAccount, Start
  <2>2. request'[c].side = "reset"
    BY <2>1 DEF Idle
  <2>3. Shows(StartCash, 0, 0)'
    BY <2>2, BothViews DEF View
  <2> QED
    BY <2>3 DEF Shows, Book!Next, Book!Reset
<1> QED
  BY <1>3, <1>4

\* The reads of an order and of a reset, and the creation of the account.
LEMMA ReadsBook ==
  ASSUME IInv, IInv', ~raced, ~raced', NEW c \in Clients,
         OnlyOne(c), OnlyOne(c)',
         GetAccount(c) \/ CreateAccount(c) \/ GetPosition(c) \/ GetAvailable(c)
           \/ CheckAvailable(c)
  PROVE  ledger' = ledger
<1>1. /\ TypeOK /\ request \in [Clients -> Requests] /\ request[c] \in Requests
      /\ Idle.at = "idle" /\ Idle.side = "none"
  BY Parts DEF IInv, Idle
<1>2. /\ ~(request[c].at \in {"position", "trade"})
      /\ positions' = positions /\ boughtToday' = boughtToday
  BY Zenon DEF GetAccount, CreateAccount, GetPosition, GetAvailable, CheckAvailable, At, collections
<1>3. Balance' = Balance
  <2>1. CASE CreateAccount(c)
    <3>1. ~raced /\ Busy(c) /\ At(c, "create") /\ accounts' = Append(accounts, StartCash)
      BY <2>1 DEF CreateAccount, Busy, At
    <3>2. accounts = << >>
      <4>1. request[c].side \in OrderSides \cup {"reset"}
        BY <1>1, <3>1, Parts, Fields DEF SideFits, OrderSides
      <4> QED
        BY <3>1, <4>1, Parts DEF Informed, Emptied, At
    <3> QED
      BY <3>1, <3>2 DEF Balance
  <2>2. CASE ~CreateAccount(c)
    <3>1. accounts' = accounts
      BY <2>2, Zenon DEF GetAccount, GetPosition, GetAvailable, CheckAvailable, collections
    <3> QED
      BY <3>1 DEF Balance
  <2> QED
    BY <2>1, <2>2
<1>4. /\ \/ request'[c] = Idle /\ request[c].side # "reset"
         \/ request'[c].side = request[c].side
      /\ ~(request'[c].at \in {"position", "trade"})
  <2>1. CASE GetAccount(c) \/ CreateAccount(c)
    <3>1. \/ request'[c] = [request[c] EXCEPT !.at = "create"]
          \/ \E x : request'[c] = [request[c] EXCEPT !.cash = x, !.at = "order"]
      <4>1. \/ GoOn(c, [request[c] EXCEPT !.at = "create"])
            \/ \E x : GoOn(c, [request[c] EXCEPT !.cash = x, !.at = "order"])
        BY <2>1, Zenon DEF GetAccount, CreateAccount, GoTo
      <4> QED
        BY <1>1, <4>1, Zenon DEF GoOn
    <3>2. CASE request'[c] = [request[c] EXCEPT !.at = "create"]
      BY <1>1, <3>2 DEF Requests
    <3>3. ASSUME NEW x, request'[c] = [request[c] EXCEPT !.cash = x, !.at = "order"]
          PROVE  request'[c].side = request[c].side /\ request'[c].at = "order"
      BY <1>1, <3>3 DEF Requests
    <3> QED
      BY <3>1, <3>2, <3>3
  <2>2. CASE GetPosition(c)
    <3>1. PICK price \in Prices :
        LET read == [request[c] EXCEPT !.position = FirstPosition]
        IN CASE request[c].side = "sell" ->
                 GoOn(c, [read EXCEPT !.amount = price * request[c].quantity - Fee,
                                      !.at = "available"])
            [] request[c].side = "buy"
               /\ request[c].cash >= price * request[c].quantity + Fee ->
                 GoOn(c, [read EXCEPT !.amount = price * request[c].quantity + Fee,
                                      !.at = "pay"])
            [] OTHER -> GoOn(c, Idle)
      BY <2>2, Zenon DEF GetPosition
    <3>2. request[c].side # "reset"
      BY <2>2, Zenon DEF GetPosition
    <3> DEFINE read == [request[c] EXCEPT !.position = FirstPosition]
    <3>3. \/ request'[c] = Idle
          \/ \E x : request'[c] = [read EXCEPT !.amount = x, !.at = "available"]
          \/ \E x : request'[c] = [read EXCEPT !.amount = x, !.at = "pay"]
      BY <1>1, <3>1 DEF GoOn
    <3>4. read.side = request[c].side /\ read \in Requests
      BY <1>1, Parts, FirstPositionTyped, PositionReadTyped DEF Requests
    <3> HIDE DEF read
    <3>5. \A x : /\ [read EXCEPT !.amount = x, !.at = "available"].side = request[c].side
                 /\ [read EXCEPT !.amount = x, !.at = "available"].at = "available"
                 /\ [read EXCEPT !.amount = x, !.at = "pay"].side = request[c].side
                 /\ [read EXCEPT !.amount = x, !.at = "pay"].at = "pay"
      BY <3>4 DEF Requests
    <3>6. CASE request'[c] = Idle
      BY <1>1, <3>2, <3>6
    <3>7. ASSUME NEW x, request'[c] = [read EXCEPT !.amount = x, !.at = "available"]
          PROVE  request'[c].side = request[c].side /\ request'[c].at = "available"
      BY <3>5, <3>7
    <3>8. ASSUME NEW x, request'[c] = [read EXCEPT !.amount = x, !.at = "pay"]
          PROVE  request'[c].side = request[c].side /\ request'[c].at = "pay"
      BY <3>5, <3>8
    <3> QED
      BY <3>3, <3>6, <3>7, <3>8
  <2>3. CASE GetAvailable(c)
    <3>1. request[c].side # "reset"
      BY <2>3, Parts DEF GetAvailable, SideFits, At
    <3>2. \/ request'[c] = Idle
          \/ request'[c] = [request[c] EXCEPT !.available = positions[1].quantity,
                                              !.at = "check"]
      BY <1>1, <2>3 DEF GetAvailable, GoOn
    <3> QED
      BY <1>1, <3>1, <3>2 DEF Requests
  <2>4. CASE CheckAvailable(c)
    <3>1. request[c].side # "reset"
      BY <2>4, Parts DEF CheckAvailable, SideFits, At
    <3>2. request'[c] = Idle \/ request'[c] = [request[c] EXCEPT !.at = "credit"]
      BY <1>1, <2>4 DEF CheckAvailable, GoTo, GoOn
    <3> QED
      BY <1>1, <3>1, <3>2 DEF Requests
  <2> QED
    BY <2>1, <2>2, <2>3, <2>4
<1>5. CASE request[c].side = "reset"
  BY <1>4, <1>5, QuietReset
<1>6. CASE request[c].side # "reset"
  <2>1. request'[c].side # "reset"
    BY <1>1, <1>4, <1>6
  <2> QED
    BY <1>2, <1>3, <1>4, <1>6, <2>1, QuietOrder
<1> QED
  BY <1>5, <1>6

\* Paying for an order and changing the position are not seen before the
\* trade is recorded.
LEMMA WritesBook ==
  ASSUME IInv, IInv', ~raced, ~raced', NEW c \in Clients,
         OnlyOne(c), OnlyOne(c)', Pay(c) \/ Credit(c) \/ PutPosition(c)
  PROVE  ledger' = ledger
<1>1. /\ TypeOK /\ Busy(c) /\ boughtToday' = boughtToday /\ SideFits(c) /\ View(c) /\ View(c)'
      /\ request[c].side \in OrderSides
  BY Parts, BothViews DEF IInv, Pay, Credit, PutPosition, Busy, At, SideFits, OrderSides
<1>2. Informed(c) /\ "position" \in Places /\ "trade" \in Places
  BY <1>1, Parts DEF Places
<1>3. PICK place \in {"position", "trade"} : GoTo(c, place)
  BY DEF Pay, Credit, PutPosition
<1>4. PICK r \in Requests :
         /\ request'[c] = r /\ r.at = place /\ r.side = request[c].side
         /\ r.cash = request[c].cash /\ r.position = request[c].position
  BY <1>1, <1>2, <1>3, GoToFacts
<1>5. Shows(request[c].cash, Had(c), boughtToday)'
  BY <1>1, <1>3, <1>4 DEF View, OrderSides
<1>6. request'[c].cash = request[c].cash /\ Had(c)' = Had(c)
  BY <1>4 DEF Had
<1>7. Shows(request[c].cash, Had(c), boughtToday)
  <2>1. CASE PutPosition(c)
    BY <1>1, <2>1 DEF PutPosition, At, View, OrderSides
  <2>2. CASE Pay(c) \/ Credit(c)
    <3>1. request[c].at \in {"pay", "credit"}
      BY <2>2 DEF Pay, Credit, At
    <3>2. Shows(Balance, Quantity(positions), boughtToday)
      BY <1>1, <3>1 DEF View, OrderSides
    <3>3. Balance = request[c].cash /\ request[c].position = FirstPosition
      BY <1>2, <3>1 DEF Informed, HasCash, Balance
    <3>4. Had(c) = Quantity(positions)
      BY <3>3, FirstQuantity DEF Had
    <3> QED
      BY <3>2, <3>3, <3>4
  <2> QED
    BY <2>1, <2>2
<1> QED
  BY <1>1, <1>5, <1>6, <1>7 DEF Shows, ledger

\* When the trade is recorded the whole order shows in the ledger.
LEMMA TradeBook ==
  ASSUME IInv, IInv', ~raced, ~raced', NEW c \in Clients,
         OnlyOne(c), OnlyOne(c)', RecordTrade(c)
  PROVE  Book!Next
<1>1. /\ request \in [Clients -> Requests] /\ request[c] \in Requests /\ At(c, "trade")
      /\ Busy(c) /\ SideFits(c) /\ request[c].side \in OrderSides
      /\ request[c].quantity \in Quantities
  BY Parts DEF RecordTrade, At, Busy, SideFits
<1>2. Informed(c) /\ View(c) /\ View(c)'
  BY <1>1, Parts, BothViews
<1>3. request'[c] = Idle /\ UNCHANGED <<accounts, positions>>
  BY <1>1 DEF RecordTrade, GoOn
<1>4. Shows(request[c].cash, Had(c), boughtToday)
  BY <1>1, <1>2 DEF View, At, OrderSides
<1>5. Shows(Balance, Quantity(positions), boughtToday)'
  BY <1>2, <1>3 DEF View, Idle
<1>6. Balance' = Paid(c) /\ Quantity(positions)' = Left(c)
  BY <1>1, <1>2, <1>3 DEF Informed, At, HasCash, Balance
<1>7. PICK price \in Prices :
        IF request[c].side = "buy"
        THEN request[c].amount = price * request[c].quantity + Fee
        ELSE request[c].amount = price * request[c].quantity - Fee
  BY <1>1, <1>2 DEF Informed, At, Priced
<1>8. CASE request[c].side = "buy"
  <2>1. request[c].amount = price * request[c].quantity + Fee
    BY <1>7, <1>8
  <2>2. ledgerCash >= price * request[c].quantity + Fee
    BY <1>1, <1>2, <1>4, <1>8, <2>1 DEF Informed, At, Shows
  <2>3. ledgerCash' = ledgerCash - (price * request[c].quantity + Fee)
    BY <1>4, <1>5, <1>6, <1>8, <2>1 DEF Shows, Paid
  <2>4. ledgerShares' = ledgerShares + request[c].quantity
    BY <1>4, <1>5, <1>6, <1>8 DEF Shows, Left
  <2>5. ledgerToday' \in {ledgerToday + request[c].quantity, ledgerToday}
    <3>1. boughtToday' \in {boughtToday + request[c].quantity, boughtToday}
      BY DEF RecordTrade
    <3> QED
      BY <1>4, <1>5, <3>1 DEF Shows
  <2>6. Book!Buy(request[c].quantity, price)
    BY <2>2, <2>3, <2>4, <2>5 DEF Book!Buy
  <2> QED
    BY <1>1, <2>6 DEF Book!Next
<1>9. CASE request[c].side = "sell"
  <2>1. request[c].amount = price * request[c].quantity - Fee
    BY <1>7, <1>9
  <2>2. request[c].quantity <= Book!Available
    <3>1. request[c].quantity <= Spare(Had(c))
      BY <1>1, <1>2, <1>9 DEF Informed, At
    <3>2. Spare(Had(c)) = Book!Available
      BY <1>4 DEF Spare, Book!Available, Shows
    <3> QED
      BY <3>1, <3>2
  <2>3. ledgerCash' = ledgerCash + (price * request[c].quantity - Fee)
    BY <1>4, <1>5, <1>6, <1>9, <2>1 DEF Shows, Paid
  <2>4. ledgerShares' = ledgerShares - request[c].quantity
    BY <1>4, <1>5, <1>6, <1>9 DEF Shows, Left
  <2>5. ledgerToday' = ledgerToday
    <3>1. boughtToday' = boughtToday
      BY <1>9 DEF RecordTrade
    <3> QED
      BY <1>4, <1>5, <3>1 DEF Shows
  <2>6. Book!Sell(request[c].quantity, price)
    BY <2>2, <2>3, <2>4, <2>5 DEF Book!Sell
  <2> QED
    BY <1>1, <2>6 DEF Book!Next
<1> QED
  BY <1>1, <1>8, <1>9 DEF OrderSides

\* A reset ends with the books it has shown since it started.
LEMMA ResetBook ==
  ASSUME IInv, IInv', ~raced, ~raced', NEW c \in Clients,
         OnlyOne(c), OnlyOne(c)',
         DeleteAccounts(c) \/ DeletePositions(c) \/ DeleteTrades(c) \/ ResetDone(c)
  PROVE  ledger' = ledger
<1>1. /\ TypeOK /\ request \in [Clients -> Requests] /\ request[c] \in Requests /\ SideFits(c)
      /\ Busy(c)
  BY Parts DEF IInv, DeleteAccounts, DeletePositions, DeleteTrades, ResetDone, Busy, At
<1>2. request[c].side = "reset"
  BY <1>1 DEF SideFits, DeleteAccounts, DeletePositions, DeleteTrades, ResetDone, At
<1>3. CASE DeleteAccounts(c) \/ DeletePositions(c) \/ DeleteTrades(c)
  <2>1. PICK place : GoTo(c, place)
    BY <1>3 DEF DeleteAccounts, DeletePositions, DeleteTrades
  <2>2. request'[c].side = request[c].side
    BY <1>1, <2>1 DEF GoTo, GoOn, Requests
  <2> QED
    BY <1>2, <2>2, QuietReset
<1>4. CASE ResetDone(c)
  <2>1. /\ request'[c] = Idle /\ UNCHANGED collections /\ At(c, "order")
    BY <1>1, <1>4 DEF ResetDone
  <2>2. accounts # << >> /\ accounts[1] = StartCash /\ positions = << >> /\ boughtToday = 0
    BY <1>1, <1>2, <2>1, Parts DEF Emptied, HasCash, At
  <2>3. Balance' = StartCash /\ Quantity(positions)' = 0 /\ boughtToday' = 0
    BY <2>1, <2>2 DEF collections, Balance, Quantity
  <2>4. Shows(StartCash, 0, 0) /\ Shows(Balance, Quantity(positions), boughtToday)'
    BY <1>2, <2>1, BothViews DEF View, Idle
  <2> QED
    BY <2>3, <2>4 DEF Shows, ledger
<1> QED
  BY <1>3, <1>4

\* A request that fails before it has written anything is not seen.
LEMMA FailBook ==
  ASSUME IInv, IInv', ~raced, ~raced', NEW c \in Clients,
         OnlyOne(c), OnlyOne(c)', Fail(c)
  PROVE  ledger' = ledger
<1>1. request'[c] = Idle /\ UNCHANGED collections /\ ~HalfWay(c)
  BY Parts DEF Fail
<1>2. /\ Balance' = Balance /\ Quantity(positions)' = Quantity(positions)
      /\ boughtToday' = boughtToday
  BY <1>1 DEF collections, Balance
<1>3. Idle.side # "reset" /\ ~(Idle.at \in {"position", "trade"})
  BY DEF Idle
<1> QED
  BY <1>1, <1>2, <1>3, QuietOrder DEF HalfWay

LEMMA MidnightBook ==
  ASSUME IInv, Midnight
  PROVE  Book!Next \/ ledger' = ledger
<1>1. /\ boughtToday' = 0 /\ UNCHANGED <<accounts, positions>>
      /\ \A d \in Clients :
           /\ request'[d].at = request[d].at /\ request'[d].side = request[d].side
           /\ request'[d].cash = request[d].cash
           /\ request'[d].position = request[d].position
  BY MidnightFacts
<1>2. Writing' = Writing
  BY <1>1 DEF Writing
<1>3. (Resetting' <=> Resetting) /\ Writer' = Writer
  BY <1>1, <1>2 DEF Resetting, Writer
<1>4. Writing # {} => Writer \in Clients
  BY DEF Writing, Writer
<1>5. ledgerCash' = ledgerCash
  BY <1>1, <1>2, <1>3, <1>4 DEF ledgerCash
<1>6. ledgerShares' = ledgerShares
  <2>1. Writing # {} => request'[Writer].position = request[Writer].position
    BY <1>1, <1>4
  <2>2. Quantity(positions)' = Quantity(positions)
    BY <1>1
  <2> QED
    BY <1>2, <1>3, <2>1, <2>2 DEF ledgerShares
<1>7. ledgerToday' = 0
  BY <1>1 DEF ledgerToday
<1> QED
  BY <1>5, <1>6, <1>7 DEF Book!Next, Book!NewDay
-----------------------------------------------------------------------------
\* A step that leaves the books in order is a step of the ledger.
LEMMA ServeBook ==
  ASSUME IInv, IInv', ~raced, ~raced', NEW c \in Clients, Serve(c)
  PROVE  Book!Next \/ ledger' = ledger
<1>1. OnlyOne(c) /\ OnlyOne(c)'
  BY ServedAlone
<1>2. CASE PlaceOrder(c) \/ ResetAccount(c)
  BY <1>1, <1>2, NewRequestBook
<1>3. CASE GetAccount(c) \/ CreateAccount(c) \/ GetPosition(c) \/ GetAvailable(c)
             \/ CheckAvailable(c)
  BY <1>1, <1>3, ReadsBook
<1>4. CASE Pay(c) \/ Credit(c) \/ PutPosition(c)
  BY <1>1, <1>4, WritesBook
<1>5. CASE RecordTrade(c)
  BY <1>1, <1>5, TradeBook
<1>6. CASE DeleteAccounts(c) \/ DeletePositions(c) \/ DeleteTrades(c) \/ ResetDone(c)
  BY <1>1, <1>6, ResetBook
<1>7. CASE Fail(c)
  BY <1>1, <1>7, FailBook
<1> QED
  BY <1>2, <1>3, <1>4, <1>5, <1>6, <1>7 DEF Serve

\* Out of order, only a reset that met no other request brings the books back
\* into order, and then they are those of a new account.
LEMMA OrderRestored ==
  ASSUME IInv, IInv', [Next]_vars, raced, ~raced'
  PROVE  Book!Init'
<1>1. PICK c \in Clients : ResetDone(c)
  BY Zenon DEF Next, Serve, PlaceOrder, ResetAccount, Start, GetAccount, CreateAccount, GetPosition,
         GetAvailable, CheckAvailable, Pay, Credit, PutPosition, RecordTrade, DeleteAccounts,
         DeletePositions, DeleteTrades, Fail, GoTo, GoOn, Midnight, vars
<1>2. /\ At(c, "order") /\ request[c].side = "reset" /\ request[c].alone /\ Busy(c)
      /\ request' = [request EXCEPT ![c] = Idle] /\ UNCHANGED collections
  BY <1>1 DEF ResetDone, At, Busy
<1>3. /\ request \in [Clients -> Requests] /\ Emptied(c) /\ OnlyOne(c)
  BY <1>2, Parts, OthersIdle DEF OnlyOne
<1>4. request'[c] = Idle /\ Idle.at = "idle" /\ Idle.side = "none"
      /\ \A d \in Clients : d # c => request'[d] = request[d]
  BY <1>2, <1>3 DEF Idle
<1>5. OnlyOne(c)'
  BY <1>3, <1>4 DEF OnlyOne, At
<1>6. View(c)'
  BY <1>5, LedgerViewedNext DEF Viewed
<1>7. Shows(Balance, Quantity(positions), boughtToday)'
  BY <1>4, <1>6 DEF View
<1>8. accounts # << >> /\ accounts[1] = StartCash /\ positions = << >> /\ boughtToday = 0
  BY <1>2, <1>3 DEF Emptied, HasCash, At
<1>9. Balance' = StartCash /\ Quantity(positions)' = 0 /\ boughtToday' = 0
  BY <1>2, <1>8 DEF collections, Balance, Quantity
<1> QED
  BY <1>7, <1>9 DEF Shows, Book!Init

\* The paper account is a ledger as long as the requests of its user do not
\* overlap and none stops half-way, and again after a reset without company.
THEOREM AccountIsLedger == Spec => IsLedger
<1> DEFINE Kept == raced' \/ (raced /\ Book!Init') \/ (~raced /\ Book!Next)
<1>1. Init => Book!Init
  <2> SUFFICES ASSUME Init PROVE Book!Init
    OBVIOUS
  <2>1. \A c \in Clients : request[c].at = "idle" /\ request[c].side = "none"
    BY DEF Init, Idle
  <2>2. ~Resetting /\ Writing = {}
    BY <2>1 DEF Resetting, Writing
  <2> QED
    BY <2>2 DEF Init, Book!Init, ledgerCash, ledgerShares, ledgerToday, Quantity
<1>2. IInv /\ IInv' /\ [Next]_vars => [Kept]_<<raced, ledger>>
  <2> SUFFICES ASSUME IInv, IInv', [Next]_vars, ~raced'
               PROVE  Kept \/ (raced' = raced /\ ledger' = ledger)
    OBVIOUS
  <2>1. CASE raced
    BY <2>1, OrderRestored
  <2>2. CASE ~raced
    <3>1. raced' = raced
      BY <2>2 DEF IInv, TypeOK
    <3>2. ASSUME NEW c \in Clients, Serve(c) PROVE Book!Next \/ ledger' = ledger
      BY <2>2, <3>2, ServeBook
    <3>3. ASSUME Midnight PROVE Book!Next \/ ledger' = ledger
      BY <3>3, MidnightBook
    <3>4. CASE UNCHANGED vars
      BY <3>4 DEF vars, collections, ledger, ledgerCash, ledgerShares, ledgerToday,
                  Resetting, Writing, Writer, Quantity
    <3> QED
      BY <2>2, <3>1, <3>2, <3>3, <3>4 DEF Next
  <2> QED
    BY <2>1, <2>2
<1> QED
  BY <1>1, <1>2, Inductive, PTL DEF Spec, IsLedger
=============================================================================
