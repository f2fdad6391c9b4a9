---------------------------- MODULE MarketProofs ----------------------------
(***************************************************************************)
(* For every number of players, orders, items and coins, and under both    *)
(* repositories: an open order is backed to the piece, fills respect price *)
(* and time, nothing is left in the book that should not be, and the       *)
(* market is an exchange of goods for coins.                               *)
(***************************************************************************)
EXTENDS Market, FiniteSumsProofs

(* The types of what the transactions change, and of the rest.             *)
MarketOK ==
  /\ orders \in [OrderId -> OrderRecord \cup {NoOrder}]
  /\ inventory \in [Player -> [Item -> Nat]]
  /\ coins \in [Player -> Nat] /\ reserved \in [Player -> Nat]
  /\ fees \in Nat /\ clock \in Nat
  /\ matching \in Item \cup {NoItem}

CallsOK ==
  /\ repository \in Repositories
  /\ calls \in [Player -> CallRecord \cup {NoCall}]
  /\ instant \subseteq OrderId

LEMMA TypeParts == TypeOK <=> MarketOK /\ CallsOK
BY DEF TypeOK, MarketOK, CallsOK

(* The inductive invariant of the transactions.                            *)
Books == MarketOK /\ Backed

-----------------------------------------------------------------------------
(* Arithmetic: what is subtracted is covered, and fees come out of gross.  *)
LEMMA Product ==
  ASSUME NEW m \in Nat, NEW n \in Nat
  PROVE  /\ m * n \in Nat
         /\ m > 0 /\ n > 0 => m * n > 0
OBVIOUS

LEMMA ProductOfRest ==
  ASSUME NEW price \in Nat, NEW n \in Nat, NEW q \in Nat, q <= n
  PROVE  /\ price * (n - q) = price * n - price * q
         /\ price * q <= price * n
OBVIOUS

LEMMA ProductMonotone ==
  ASSUME NEW low \in Nat, NEW high \in Nat, NEW q \in Nat, low <= high
  PROVE  low * q <= high * q
OBVIOUS

LEMMA FeeBounds ==
  ASSUME NEW gross \in Nat \ {0}
  PROVE  /\ TransactionFee(gross) \in Nat \ {0} /\ TransactionFee(gross) <= gross
         /\ BuyOrderFee(gross) \in Nat \ {0}
BY DEF TransactionFee, BuyOrderFee

-----------------------------------------------------------------------------
(* The orders that exist are records.                                      *)
LEMMA UsedOrder ==
  ASSUME MarketOK, NEW o \in Used
  PROVE  /\ o \in OrderId /\ orders[o] \in OrderRecord /\ orders[o] # NoOrder
         /\ orders[o].owner \in Player /\ orders[o].side \in Side /\ orders[o].item \in Item
         /\ orders[o].price \in Nat \ {0} /\ orders[o].original \in Nat \ {0}
         /\ orders[o].remaining \in Nat /\ orders[o].reserved \in Nat
         /\ orders[o].escrow \in Nat /\ orders[o].at \in Nat /\ orders[o].status \in OrderStatus
BY DEF MarketOK, Used, OrderRecord

(* What a fill or a cancellation makes of an order is an order.            *)
LEMMA RecordEdit ==
  ASSUME NEW r \in OrderRecord, NEW status \in OrderStatus, NEW m \in Nat, NEW n \in Nat
  PROVE  /\ [r EXCEPT !.status = status, !.reserved = m, !.escrow = n] \in OrderRecord
         /\ [r EXCEPT !.remaining = m, !.reserved = n, !.status = status] \in OrderRecord
         /\ [r EXCEPT !.remaining = m, !.escrow = n, !.status = status] \in OrderRecord
<1>1. \A x \in OrderRecord : [x EXCEPT !.status = status] \in OrderRecord
  BY DEF OrderRecord
<1>2. \A x \in OrderRecord, k \in Nat : [x EXCEPT !.reserved = k] \in OrderRecord
  BY DEF OrderRecord
<1>3. \A x \in OrderRecord, k \in Nat : [x EXCEPT !.escrow = k] \in OrderRecord
  BY DEF OrderRecord
<1>4. \A x \in OrderRecord, k \in Nat : [x EXCEPT !.remaining = k] \in OrderRecord
  BY DEF OrderRecord
<1> QED
  BY <1>1, <1>2, <1>3, <1>4

LEMMA ReservesAreNat ==
  ASSUME MarketOK, NEW p \in Player
  PROVE  \A o \in OrderId : ReserveOf(p)[o] \in Nat
BY DEF MarketOK, ReserveOf, Used, OrderRecord

LEMMA NextReservesAreNat ==
  ASSUME MarketOK', NEW p \in Player
  PROVE  \A o \in OrderId : ReserveOf(p)'[o] \in Nat
BY DEF MarketOK, ReserveOf, Used, OrderRecord

(* When one order's reserve changes, its owner's sum follows it.           *)
LEMMA ReserveMoves ==
  ASSUME MarketOK, MarketOK', NEW p \in Player, NEW o \in OrderId,
         \A x \in OrderId : x # o => ReserveOf(p)'[x] = ReserveOf(p)[x]
  PROVE  /\ SumOver(ReserveOf(p)', OrderId)
              = SumOver(ReserveOf(p), OrderId) - ReserveOf(p)[o] + ReserveOf(p)'[o]
         /\ SumOver(ReserveOf(p), OrderId) \in Nat
         /\ ReserveOf(p)[o] <= SumOver(ReserveOf(p), OrderId)
<1>1. \A x \in OrderId : ReserveOf(p)[x] \in Nat /\ ReserveOf(p)'[x] \in Nat
  BY ReservesAreNat, NextReservesAreNat
<1>2. IsFiniteSet(OrderId)
  BY MarketAssumption
<1> HIDE DEF ReserveOf
<1>3. SumOver(ReserveOf(p)', OrderId)
        = SumOver(ReserveOf(p), OrderId) - ReserveOf(p)[o] + ReserveOf(p)'[o]
  BY <1>1, <1>2, SumUpdate
<1>4. /\ SumOver(ReserveOf(p), OrderId) \in Nat
      /\ ReserveOf(p)[o] <= SumOver(ReserveOf(p), OrderId)
  BY <1>1, <1>2, SumOfNaturals
<1> QED
  BY <1>3, <1>4

-----------------------------------------------------------------------------
(* Placing an order.                                                       *)
LEMMA PlacedOrder ==
  ASSUME NEW p \in Player, NEW side \in Side, NEW item \in Item,
         NEW quantity \in Nat \ {0}, NEW price \in Nat \ {0}, NEW at \in Nat
  PROVE  /\ Placed(p, side, item, quantity, price, at) \in OrderRecord
         /\ Placed(p, side, item, quantity, price, at) # NoOrder
<1>1. price * quantity \in Nat
  BY Product
<1>2. Placed(p, side, item, quantity, price, at) \in OrderRecord
  BY <1>1 DEF Placed, OrderRecord, OrderStatus
<1> QED
  BY <1>2, NullAssumption

LEMMA EnterEffect ==
  ASSUME MarketOK, NEW o \in OrderId \ Used, NEW p \in Player, NEW side \in Side,
         NEW item \in Item, NEW quantity \in Nat \ {0}, NEW price \in Nat \ {0},
         Enter(o, p, side, item, quantity, price)
  PROVE  /\ orders' \in [OrderId -> OrderRecord \cup {NoOrder}]
         /\ clock' \in Nat /\ matching' = item
         /\ Used' = Used \cup {o}
         /\ \A x \in OrderId : x # o => orders'[x] = orders[x]
         /\ orders'[o].owner = p /\ orders'[o].side = side /\ orders'[o].item = item
         /\ orders'[o].status = "OPEN" /\ orders'[o].remaining = quantity
         /\ orders'[o].price = price
         /\ orders'[o].reserved = IF side = "BUY" THEN price * quantity ELSE 0
         /\ orders'[o].escrow = IF side = "SELL" THEN quantity ELSE 0
<1>1. PICK at \in {clock, clock + 1} :
         /\ orders' = [orders EXCEPT ![o] = Placed(p, side, item, quantity, price, at)]
         /\ clock' = at /\ matching' = item
  BY DEF Enter
<1>2. at \in Nat
  BY <1>1 DEF MarketOK
<1>3. /\ Placed(p, side, item, quantity, price, at) \in OrderRecord
      /\ Placed(p, side, item, quantity, price, at) # NoOrder
  BY <1>2, PlacedOrder
<1>4. orders'[o] = Placed(p, side, item, quantity, price, at)
  BY <1>1 DEF MarketOK
<1>5. Used' = Used \cup {o}
  BY <1>1, <1>3 DEF MarketOK, Used
<1>6. orders' \in [OrderId -> OrderRecord \cup {NoOrder}]
  BY <1>1, <1>3 DEF MarketOK
<1> QED
  BY <1>1, <1>2, <1>4, <1>5, <1>6 DEF MarketOK, Placed

(* An order that nobody touches keeps its backing.                         *)
Backing(o) == IF IsOpen(o) THEN orders[o].remaining ELSE 0
Covered(o) ==
  /\ orders[o].escrow = IF orders[o].side = "SELL" THEN Backing(o) ELSE 0
  /\ orders[o].reserved = IF orders[o].side = "BUY" THEN orders[o].price * Backing(o) ELSE 0
  /\ IsOpen(o) => orders[o].remaining > 0
ReservesAddUp == \A p \in Player : reserved[p] = SumOver(ReserveOf(p), OrderId)

LEMMA BackedParts == Backed <=> (\A o \in Used : Covered(o)) /\ ReservesAddUp
BY DEF Backed, Covered, Backing, ReservesAddUp

LEMMA NextBackedParts == (\A o \in Used' : Covered(o)') /\ ReservesAddUp' => Backed'
BY DEF Backed, Covered, Backing, ReservesAddUp

LEMMA CoveredStays ==
  ASSUME NEW o \in Used, orders'[o] = orders[o], Covered(o)
  PROVE  Covered(o)'
BY DEF Covered, Backing, IsOpen, Used

(* One order's reserve changed, and its owner's total by as much.          *)
LEMMA ReservesFollow ==
  ASSUME MarketOK, MarketOK', ReservesAddUp, NEW o \in Used', NEW p \in Player,
         orders'[o].owner = p, o \in Used => orders[o].owner = p,
         \A x \in OrderId : x # o => orders'[x] = orders[x] \/ ( /\ x \in Used /\ x \in Used'
              /\ orders'[x].owner = orders[x].owner /\ orders'[x].reserved = orders[x].reserved),
         reserved' = [reserved EXCEPT ![p] =
           @ - (IF o \in Used THEN orders[o].reserved ELSE 0) + orders'[o].reserved]
  PROVE  ReservesAddUp'
<1> SUFFICES ASSUME NEW r \in Player
             PROVE  reserved'[r] = SumOver(ReserveOf(r)', OrderId)
  BY DEF ReservesAddUp
<1>1. o \in OrderId /\ Used \subseteq OrderId
  BY DEF Used
<1>2. \A x \in OrderId : x # o => ReserveOf(r)'[x] = ReserveOf(r)[x]
  BY DEF ReserveOf, Used
<1>3. /\ SumOver(ReserveOf(r)', OrderId)
           = SumOver(ReserveOf(r), OrderId) - ReserveOf(r)[o] + ReserveOf(r)'[o]
      /\ SumOver(ReserveOf(r), OrderId) \in Nat
  BY <1>1, <1>2, ReserveMoves
<1>4. ReserveOf(r)'[o] = IF r = p THEN orders'[o].reserved ELSE 0
  BY <1>1 DEF ReserveOf
<1>5. ReserveOf(r)[o] = IF r = p /\ o \in Used THEN orders[o].reserved ELSE 0
  BY <1>1 DEF ReserveOf
<1>6. reserved[r] = SumOver(ReserveOf(r), OrderId)
  BY DEF ReservesAddUp
<1>7. reserved'[r] = IF r = p
        THEN reserved[r] - (IF o \in Used THEN orders[o].reserved ELSE 0) + orders'[o].reserved
        ELSE reserved[r]
  BY DEF MarketOK
<1>8. orders'[o].reserved \in Nat /\ (o \in Used => orders[o].reserved \in Nat)
  BY <1>1, UsedOrder DEF MarketOK, Used, OrderRecord
<1> HIDE DEF ReserveOf
<1> QED
  BY <1>3, <1>4, <1>5, <1>6, <1>7, <1>8

LEMMA CreateSellKeepsBooks ==
  ASSUME Books, NEW o \in OrderId, NEW p \in Player, NEW item \in Item,
         NEW quantity \in Nat \ {0}, NEW price \in Nat \ {0},
         CreateSellOrder(o, p, item, quantity, price)
  PROVE  Books'
<1> USE DEF Books
<1>0. /\ o \in OrderId \ Used /\ "SELL" \in Side
      /\ Enter(o, p, "SELL", item, quantity, price)
  BY DEF CreateSellOrder, Side
<1>1. /\ orders' \in [OrderId -> OrderRecord \cup {NoOrder}]
      /\ clock' \in Nat /\ matching' = item
      /\ Used' = Used \cup {o}
      /\ \A x \in OrderId : x # o => orders'[x] = orders[x]
      /\ orders'[o].owner = p /\ orders'[o].side = "SELL"
      /\ orders'[o].status = "OPEN" /\ orders'[o].remaining = quantity
      /\ orders'[o].reserved = 0
      /\ orders'[o].escrow = quantity
  BY <1>0, EnterEffect
<1>2. inventory' \in [Player -> [Item -> Nat]]
  BY DEF CreateSellOrder, MarketOK
<1>3. MarketOK'
  BY <1>1, <1>2 DEF CreateSellOrder, MarketOK
<1>4. Covered(o)'
  BY <1>1 DEF Covered, Backing, IsOpen
<1>5. ReservesAddUp'
  <2>1. reserved' = [reserved EXCEPT ![p] =
          @ - (IF o \in Used THEN orders[o].reserved ELSE 0) + orders'[o].reserved]
    BY <1>0, <1>1 DEF CreateSellOrder, MarketOK
  <2>2. o \in Used' /\ (o \in Used => orders[o].owner = p)
    BY <1>0, <1>1
  <2> QED
    BY <1>1, <1>3, <2>1, <2>2, BackedParts, ReservesFollow
<1>6. \A x \in Used : Covered(x)'
  BY <1>0, <1>1, BackedParts, CoveredStays DEF Used
<1> QED
  BY <1>1, <1>3, <1>4, <1>5, <1>6, NextBackedParts

LEMMA CreateBuyKeepsBooks ==
  ASSUME Books, NEW o \in OrderId, NEW p \in Player, NEW item \in Item,
         NEW quantity \in Nat \ {0}, NEW price \in Nat \ {0},
         CreateBuyOrder(o, p, item, quantity, price)
  PROVE  Books'
<1> USE DEF Books
<1>0. /\ o \in OrderId \ Used /\ "BUY" \in Side
      /\ Enter(o, p, "BUY", item, quantity, price)
  BY DEF CreateBuyOrder, Side
<1>1. /\ orders' \in [OrderId -> OrderRecord \cup {NoOrder}]
      /\ clock' \in Nat /\ matching' = item
      /\ Used' = Used \cup {o}
      /\ \A x \in OrderId : x # o => orders'[x] = orders[x]
      /\ orders'[o].owner = p /\ orders'[o].side = "BUY" /\ orders'[o].price = price
      /\ orders'[o].status = "OPEN" /\ orders'[o].remaining = quantity
      /\ orders'[o].reserved = price * quantity
      /\ orders'[o].escrow = 0
  BY <1>0, EnterEffect
<1> DEFINE reserve == price * quantity
           fee == BuyOrderFee(reserve)
<1>2. reserve \in Nat
  BY Product
<1>3. fee \in Nat
  BY <1>2, Product, FeeBounds
<1>4. /\ coins' \in [Player -> Nat] /\ reserved' \in [Player -> Nat] /\ fees' \in Nat
      /\ reserved' = [reserved EXCEPT ![p] = @ + reserve]
      /\ orders'[o].reserved = reserve
  <2>1. /\ coins' = [coins EXCEPT ![p] = @ - (reserve + fee)] /\ reserve + fee <= coins[p]
        /\ reserved' = [reserved EXCEPT ![p] = @ + reserve]
        /\ fees' = fees + fee
    BY DEF CreateBuyOrder
  <2>2. orders'[o].reserved = reserve
    BY <1>1
  <2> HIDE DEF reserve, fee
  <2> QED
    BY <1>2, <1>3, <2>1, <2>2 DEF MarketOK
<1>5. MarketOK'
  BY <1>1, <1>4 DEF CreateBuyOrder, MarketOK
<1>6. Covered(o)'
  BY <1>1 DEF Covered, Backing, IsOpen
<1>7. ReservesAddUp'
  <2>1. reserved' = [reserved EXCEPT ![p] =
          @ - (IF o \in Used THEN orders[o].reserved ELSE 0) + orders'[o].reserved]
    <3> HIDE DEF reserve, fee
    <3>1. reserved[p] + reserve
            = reserved[p] - (IF o \in Used THEN orders[o].reserved ELSE 0) + orders'[o].reserved
      BY <1>0, <1>2, <1>4 DEF MarketOK
    <3> QED
      BY <1>4, <3>1
  <2>2. o \in Used' /\ (o \in Used => orders[o].owner = p)
    BY <1>0, <1>1
  <2> QED
    BY <1>1, <1>5, <2>1, <2>2, BackedParts, ReservesFollow
<1>8. \A x \in Used : Covered(x)'
  BY <1>0, <1>1, BackedParts, CoveredStays DEF Used
<1> QED
  BY <1>1, <1>5, <1>6, <1>7, <1>8, NextBackedParts

-----------------------------------------------------------------------------
(* Cancelling an order.                                                    *)
LEMMA CancelKeepsBooks ==
  ASSUME Books, NEW o \in OrderId, CancelOrder(o)
  PROVE  Books'
<1> USE DEF Books
<1> DEFINE p == orders[o].owner
<1>0. o \in Used
  BY DEF CancelOrder, IsOpen
<1>1. /\ orders[o] \in OrderRecord /\ p \in Player /\ orders[o].item \in Item
      /\ orders[o].reserved \in Nat /\ orders[o].escrow \in Nat
  BY <1>0, UsedOrder
<1>2. /\ orders' = [orders EXCEPT ![o].status = "CANCELLED", ![o].reserved = 0, ![o].escrow = 0]
      /\ orders'[o] \in OrderRecord
      /\ orders' \in [OrderId -> OrderRecord \cup {NoOrder}]
  <2>1. orders' = [orders EXCEPT ![o].status = "CANCELLED", ![o].reserved = 0, ![o].escrow = 0]
    BY DEF CancelOrder
  <2>2. orders'[o] = [orders[o] EXCEPT !.status = "CANCELLED", !.reserved = 0, !.escrow = 0]
    BY <2>1 DEF MarketOK
  <2>3. orders'[o] \in OrderRecord
    <3>1. "CANCELLED" \in OrderStatus /\ 0 \in Nat
      BY DEF OrderStatus
    <3>2. [orders[o] EXCEPT !.status = "CANCELLED", !.reserved = 0, !.escrow = 0] \in OrderRecord
      BY <1>1, <3>1, RecordEdit
    <3> QED
      BY <2>2, <3>2
  <2> QED
    BY <2>1, <2>2, <2>3 DEF MarketOK
<1>3. /\ Used' = Used /\ orders'[o].owner = p /\ orders'[o].reserved = 0
      /\ orders'[o].side = orders[o].side
      /\ orders'[o].escrow = 0 /\ orders'[o].status = "CANCELLED"
      /\ \A x \in OrderId : x # o => orders'[x] = orders[x]
  <2>1. \A x \in OrderId : x # o => orders'[x] = orders[x]
    BY <1>2 DEF MarketOK
  <2>2. orders'[o] = [orders[o] EXCEPT !.status = "CANCELLED", !.reserved = 0, !.escrow = 0]
    BY <1>2 DEF MarketOK
  <2>3. /\ orders'[o].owner = p /\ orders'[o].reserved = 0 /\ orders'[o].side = orders[o].side
        /\ orders'[o].escrow = 0 /\ orders'[o].status = "CANCELLED"
    BY <1>1, <2>2 DEF OrderRecord
  <2>4. orders'[o] # NoOrder
    BY <1>2, NullAssumption
  <2>5. Used' = Used
    BY <1>0, <2>1, <2>4 DEF Used
  <2> QED
    BY <2>1, <2>3, <2>5
<1>4. orders[o].reserved <= reserved[p]
  <2>1. ReserveOf(p)[o] = orders[o].reserved
    BY <1>0 DEF ReserveOf, Used
  <2>2. ReserveOf(p)[o] <= SumOver(ReserveOf(p), OrderId)
    <3>1. \A x \in OrderId : ReserveOf(p)[x] \in Nat
      BY <1>1, ReservesAreNat
    <3> HIDE DEF ReserveOf
    <3> QED
      BY <3>1, SumOfNaturals, MarketAssumption
  <2> QED
    BY <1>1, <2>1, <2>2, BackedParts DEF ReservesAddUp
<1>5. MarketOK'
  <2>1. reserved' \in [Player -> Nat] /\ coins' \in [Player -> Nat]
    BY <1>1, <1>4 DEF CancelOrder, MarketOK
  <2>2. inventory' \in [Player -> [Item -> Nat]]
    BY <1>1 DEF CancelOrder, MarketOK
  <2> QED
    BY <1>2, <2>1, <2>2 DEF CancelOrder, MarketOK
<1>6. Covered(o)'
  <2>1. Backing(o)' = 0 /\ ~ IsOpen(o)'
    BY <1>3 DEF Backing, IsOpen
  <2>2. orders'[o].price * 0 = 0
    <3>1. orders'[o].price \in Nat
      BY <1>2 DEF OrderRecord
    <3> QED
      BY <3>1
  <2> QED
    BY <1>3, <2>1, <2>2 DEF Covered
<1>7. ReservesAddUp'
  <2>1. reserved' = [reserved EXCEPT ![p] =
          @ - (IF o \in Used THEN orders[o].reserved ELSE 0) + orders'[o].reserved]
    <3>1. reserved' = [reserved EXCEPT ![p] = @ - orders[o].reserved]
      BY DEF CancelOrder
    <3>2. reserved[p] - orders[o].reserved
            = reserved[p] - (IF o \in Used THEN orders[o].reserved ELSE 0) + orders'[o].reserved
      BY <1>0, <1>1, <1>3 DEF MarketOK
    <3> QED
      BY <3>1, <3>2
  <2> QED
    BY <1>0, <1>1, <1>3, <1>5, <2>1, BackedParts, ReservesFollow
<1>8. \A x \in Used : x # o => Covered(x)'
  BY <1>3, BackedParts, CoveredStays DEF Used
<1> QED
  BY <1>3, <1>5, <1>6, <1>7, <1>8, NextBackedParts

-----------------------------------------------------------------------------
(* A fill, in terms of its quantity and of what is paid, released, and     *)
(* taken as a fee.                                                         *)
Filled(buy, sell) == Smaller(orders[buy].remaining, orders[sell].remaining)
Gross(buy, sell) == UnitPrice(buy, sell) * Filled(buy, sell)
Released(buy, sell) == orders[buy].price * Filled(buy, sell)
FillFee(buy, sell) == TransactionFee(Gross(buy, sell))

LEMMA FillGuard ==
  ASSUME Books, NEW buy \in OrderId, NEW sell \in OrderId, SettleFill(buy, sell)
  PROVE  /\ buy \in Used /\ sell \in Used /\ IsOpen(buy) /\ IsOpen(sell) /\ buy # sell
         /\ orders[buy].side = "BUY" /\ orders[sell].side = "SELL"
         /\ orders[buy].item = matching /\ orders[sell].item = matching /\ matching \in Item
         /\ Crosses(buy, sell) /\ <<buy, sell>> \in NextPair(matching)
         /\ matching' = matching
<1> USE DEF Books
<1>1. /\ <<buy, sell>> \in NextPair(matching)
      /\ matching' = matching
  BY DEF SettleFill
<1>2. /\ buy \in OpenOrders("BUY", matching) /\ sell \in OpenOrders("SELL", matching)
      /\ Crosses(buy, sell)
  BY <1>1 DEF NextPair
<1>3. /\ IsOpen(buy) /\ IsOpen(sell) /\ buy \in Used /\ sell \in Used
      /\ orders[buy].side = "BUY" /\ orders[sell].side = "SELL"
      /\ orders[buy].item = matching /\ orders[sell].item = matching
  BY <1>2 DEF OpenOrders, IsOpen
<1>4. matching \in Item
  BY <1>3, UsedOrder
<1> QED
  BY <1>1, <1>2, <1>3, <1>4

(* The buyer's coins suffice at every price up to its limit, and the fee   *)
(* comes out of what is paid.                                              *)
LEMMA FillAmounts ==
  ASSUME Books, NEW buy \in OrderId, NEW sell \in OrderId, SettleFill(buy, sell)
  PROVE  /\ Filled(buy, sell) \in Nat \ {0}
         /\ Filled(buy, sell) <= orders[buy].remaining
         /\ Filled(buy, sell) <= orders[sell].remaining
         /\ Gross(buy, sell) \in Nat \ {0} /\ Released(buy, sell) \in Nat
         /\ orders[sell].price * Filled(buy, sell) \in Nat
         /\ orders[sell].price * Filled(buy, sell) <= Gross(buy, sell)
         /\ Gross(buy, sell) <= Released(buy, sell)
         /\ FillFee(buy, sell) \in Nat \ {0} /\ FillFee(buy, sell) <= Gross(buy, sell)
<1> USE DEF Books
<1> DEFINE q == Filled(buy, sell)
           u == UnitPrice(buy, sell)
<1>1. /\ buy \in Used /\ sell \in Used /\ IsOpen(buy) /\ IsOpen(sell) /\ Crosses(buy, sell)
  BY FillGuard
<1>2. /\ orders[buy].remaining \in Nat /\ orders[sell].remaining \in Nat
      /\ orders[buy].price \in Nat \ {0} /\ orders[sell].price \in Nat \ {0}
  BY <1>1, UsedOrder
<1>3. orders[buy].remaining > 0 /\ orders[sell].remaining > 0
  BY <1>1, BackedParts DEF Covered
<1>4. q \in Nat \ {0} /\ q <= orders[buy].remaining /\ q <= orders[sell].remaining
  BY <1>2, <1>3 DEF Filled, Smaller
<1>5. u \in Nat \ {0} /\ orders[sell].price <= u /\ u <= orders[buy].price
  BY <1>1, <1>2 DEF UnitPrice, Crosses
<1>6. /\ u * q \in Nat \ {0} /\ orders[buy].price * q \in Nat /\ orders[sell].price * q \in Nat
      /\ orders[sell].price * q <= u * q /\ u * q <= orders[buy].price * q
  <2> HIDE DEF q, u
  <2>1. u * q \in Nat \ {0} /\ orders[buy].price * q \in Nat /\ orders[sell].price * q \in Nat
    BY <1>2, <1>4, <1>5, Product
  <2>2. orders[sell].price * q <= u * q /\ u * q <= orders[buy].price * q
    BY <1>2, <1>4, <1>5, ProductMonotone
  <2> QED
    BY <2>1, <2>2
<1>7. /\ Gross(buy, sell) = u * q /\ Released(buy, sell) = orders[buy].price * q
  BY DEF Gross, Released
<1> HIDE DEF q, u
<1>8. /\ FillFee(buy, sell) \in Nat \ {0} /\ FillFee(buy, sell) <= Gross(buy, sell)
  BY <1>6, <1>7, FeeBounds DEF FillFee
<1>9. /\ q = Filled(buy, sell)
  BY DEF q
<1> QED
  BY <1>4, <1>6, <1>7, <1>8, <1>9

LEMMA FillEffect ==
  ASSUME Books, NEW buy \in OrderId, NEW sell \in OrderId, SettleFill(buy, sell)
  PROVE  /\ orders'[buy] = [orders[buy] EXCEPT
                !.remaining = @ - Filled(buy, sell), !.reserved = @ - Released(buy, sell),
                !.status = StatusAfter(buy, orders[buy].remaining - Filled(buy, sell))]
         /\ orders'[sell] = [orders[sell] EXCEPT
                !.remaining = @ - Filled(buy, sell), !.escrow = @ - Filled(buy, sell),
                !.status = StatusAfter(sell, orders[sell].remaining - Filled(buy, sell))]
         /\ \A x \in OrderId : x # buy /\ x # sell => orders'[x] = orders[x]
         /\ DOMAIN orders' = OrderId /\ orders' = [x \in OrderId |-> orders'[x]]
         /\ Filled(buy, sell) <= orders[sell].escrow
         /\ Released(buy, sell) <= orders[buy].reserved
         /\ Released(buy, sell) <= reserved[orders[buy].owner]
         /\ reserved' = [reserved EXCEPT ![orders[buy].owner] = @ - Released(buy, sell)]
         /\ coins' = [coins EXCEPT
              ![orders[buy].owner] = @ + (Released(buy, sell) - Gross(buy, sell)),
              ![orders[sell].owner] = @ + (Gross(buy, sell) - FillFee(buy, sell))]
         /\ fees' = fees + FillFee(buy, sell)
         /\ inventory' = [inventory EXCEPT
              ![orders[buy].owner][orders[buy].item] = @ + Filled(buy, sell)]
         /\ clock' = clock
<1> USE DEF Books
<1>1. buy # sell
  BY FillGuard
<1>2. orders' = [orders EXCEPT
          ![buy].remaining = @ - Filled(buy, sell), ![buy].reserved = @ - Released(buy, sell),
          ![buy].status = StatusAfter(buy, orders[buy].remaining - Filled(buy, sell)),
          ![sell].remaining = @ - Filled(buy, sell), ![sell].escrow = @ - Filled(buy, sell),
          ![sell].status = StatusAfter(sell, orders[sell].remaining - Filled(buy, sell))]
  BY DEF SettleFill, Filled, Released, Release
<1>3. orders \in [OrderId -> OrderRecord \cup {NoOrder}]
  BY DEF MarketOK
<1>4. /\ orders'[buy] = [orders[buy] EXCEPT
           !.remaining = @ - Filled(buy, sell), !.reserved = @ - Released(buy, sell),
           !.status = StatusAfter(buy, orders[buy].remaining - Filled(buy, sell))]
      /\ orders'[sell] = [orders[sell] EXCEPT
           !.remaining = @ - Filled(buy, sell), !.escrow = @ - Filled(buy, sell),
           !.status = StatusAfter(sell, orders[sell].remaining - Filled(buy, sell))]
      /\ \A x \in OrderId : x # buy /\ x # sell => orders'[x] = orders[x]
      /\ DOMAIN orders' = OrderId /\ orders' = [x \in OrderId |-> orders'[x]]
  BY <1>1, <1>2, <1>3
<1>5. /\ Filled(buy, sell) <= orders[sell].escrow
      /\ Released(buy, sell) <= orders[buy].reserved
      /\ Released(buy, sell) <= reserved[orders[buy].owner]
  <2>1. /\ orders[sell].escrow >= Filled(buy, sell)
        /\ orders[buy].reserved >= Released(buy, sell)
        /\ reserved[orders[buy].owner] >= Released(buy, sell)
    BY DEF SettleFill, Settles, Filled, Released
  <2> QED
    BY <2>1
<1>6. /\ reserved' = [reserved EXCEPT ![orders[buy].owner] = @ - Released(buy, sell)]
      /\ coins' = [coins EXCEPT
           ![orders[buy].owner] = @ + (Released(buy, sell) - Gross(buy, sell)),
           ![orders[sell].owner] = @ + (Gross(buy, sell) - FillFee(buy, sell))]
      /\ fees' = fees + FillFee(buy, sell)
      /\ inventory' = [inventory EXCEPT
           ![orders[buy].owner][orders[buy].item] = @ + Filled(buy, sell)]
      /\ clock' = clock
  BY DEF SettleFill, Filled, Released, Release, Gross, FillFee
<1> QED
  BY <1>4, <1>5, <1>6

LEMMA FillOthers ==
  ASSUME Books, NEW buy \in OrderId, NEW sell \in OrderId, SettleFill(buy, sell)
  PROVE  \A x \in OrderId : x # buy /\ x # sell => orders'[x] = orders[x]
BY FillEffect

(* What a fill leaves of the two orders.                                   *)
LEMMA FilledOrders ==
  ASSUME Books, NEW buy \in OrderId, NEW sell \in OrderId, SettleFill(buy, sell)
  PROVE  /\ orders' \in [OrderId -> OrderRecord \cup {NoOrder}] /\ Used' = Used
         /\ \A o \in {buy, sell} :
              /\ orders'[o].owner = orders[o].owner /\ orders'[o].side = orders[o].side
              /\ orders'[o].item = orders[o].item /\ orders'[o].price = orders[o].price
              /\ orders'[o].remaining = orders[o].remaining - Filled(buy, sell)
              /\ orders'[o].status = StatusAfter(o, orders[o].remaining - Filled(buy, sell))
         /\ orders'[buy].reserved = orders[buy].reserved - Released(buy, sell)
         /\ orders'[buy].escrow = orders[buy].escrow
         /\ orders'[sell].escrow = orders[sell].escrow - Filled(buy, sell)
         /\ orders'[sell].reserved = orders[sell].reserved
<1> USE DEF Books
<1> DEFINE q == Filled(buy, sell)
           release == Released(buy, sell)
<1>0. /\ orders[buy] \in OrderRecord /\ orders[sell] \in OrderRecord /\ buy # sell
      /\ buy \in Used /\ sell \in Used
  BY FillGuard, UsedOrder
<1>1. /\ orders[buy].remaining - q \in Nat /\ orders[sell].remaining - q \in Nat
      /\ orders[buy].reserved - release \in Nat /\ orders[sell].escrow - q \in Nat
  <2>1. /\ q \in Nat /\ release \in Nat /\ q <= orders[buy].remaining
        /\ q <= orders[sell].remaining
    BY FillAmounts
  <2>2. q <= orders[sell].escrow /\ release <= orders[buy].reserved
    BY FillEffect
  <2>3. /\ orders[buy].remaining \in Nat /\ orders[sell].remaining \in Nat
        /\ orders[buy].reserved \in Nat /\ orders[sell].escrow \in Nat
    BY <1>0, UsedOrder
  <2> HIDE DEF q, release
  <2> QED
    BY <2>1, <2>2, <2>3
<1>2. \A o, n : StatusAfter(o, n) \in OrderStatus
  BY DEF StatusAfter, OrderStatus
<1>3. orders'[buy] \in OrderRecord
  <2>1. [orders[buy] EXCEPT !.remaining = orders[buy].remaining - q,
           !.reserved = orders[buy].reserved - release,
           !.status = StatusAfter(buy, orders[buy].remaining - q)] \in OrderRecord
    <3> HIDE DEF q, release
    <3> QED
      BY <1>0, <1>1, <1>2, RecordEdit
  <2>2. orders'[buy] = [orders[buy] EXCEPT !.remaining = @ - q, !.reserved = @ - release,
           !.status = StatusAfter(buy, orders[buy].remaining - q)]
    BY FillEffect
  <2> QED
    BY <2>1, <2>2
<1>4. orders'[sell] \in OrderRecord
  <2>1. [orders[sell] EXCEPT !.remaining = orders[sell].remaining - q,
           !.escrow = orders[sell].escrow - q,
           !.status = StatusAfter(sell, orders[sell].remaining - q)] \in OrderRecord
    <3> HIDE DEF q, release
    <3> QED
      BY <1>0, <1>1, <1>2, RecordEdit
  <2>2. orders'[sell] = [orders[sell] EXCEPT !.remaining = @ - q, !.escrow = @ - q,
           !.status = StatusAfter(sell, orders[sell].remaining - q)]
    BY FillEffect
  <2> QED
    BY <2>1, <2>2
<1>5. /\ \A x \in OrderId : x # buy /\ x # sell => orders'[x] = orders[x]
      /\ orders' = [x \in OrderId |-> orders'[x]]
  BY FillEffect
<1>6. orders' \in [OrderId -> OrderRecord \cup {NoOrder}]
  BY <1>3, <1>4, <1>5 DEF MarketOK
<1>7. Used' = Used
  BY <1>0, <1>3, <1>4, <1>5, NullAssumption DEF Used
<1>8. /\ orders'[buy].owner = orders[buy].owner /\ orders'[buy].side = orders[buy].side
      /\ orders'[buy].item = orders[buy].item /\ orders'[buy].price = orders[buy].price
      /\ orders'[buy].remaining = orders[buy].remaining - q
      /\ orders'[buy].status = StatusAfter(buy, orders[buy].remaining - q)
      /\ orders'[buy].reserved = orders[buy].reserved - release
      /\ orders'[buy].escrow = orders[buy].escrow
  <2>1. orders'[buy] = [orders[buy] EXCEPT !.remaining = @ - q, !.reserved = @ - release,
           !.status = StatusAfter(buy, orders[buy].remaining - q)]
    BY FillEffect
  <2> HIDE DEF q, release
  <2> QED
    BY <1>0, <2>1 DEF OrderRecord
<1>9. /\ orders'[sell].owner = orders[sell].owner /\ orders'[sell].side = orders[sell].side
      /\ orders'[sell].item = orders[sell].item /\ orders'[sell].price = orders[sell].price
      /\ orders'[sell].remaining = orders[sell].remaining - q
      /\ orders'[sell].status = StatusAfter(sell, orders[sell].remaining - q)
      /\ orders'[sell].escrow = orders[sell].escrow - q
      /\ orders'[sell].reserved = orders[sell].reserved
  <2>1. orders'[sell] = [orders[sell] EXCEPT !.remaining = @ - q, !.escrow = @ - q,
           !.status = StatusAfter(sell, orders[sell].remaining - q)]
    BY FillEffect
  <2> HIDE DEF q
  <2> QED
    BY <1>0, <2>1 DEF OrderRecord
<1> QED
  BY <1>6, <1>7, <1>8, <1>9

LEMMA FillKeepsTypes ==
  ASSUME Books, NEW buy \in OrderId, NEW sell \in OrderId, SettleFill(buy, sell)
  PROVE  MarketOK'
<1> USE DEF Books
<1> DEFINE q == Filled(buy, sell)
           release == Released(buy, sell)
           gross == Gross(buy, sell)
           fee == FillFee(buy, sell)
           buyer == orders[buy].owner
           seller == orders[sell].owner
<1>1. /\ q \in Nat /\ release \in Nat /\ gross \in Nat /\ fee \in Nat
      /\ gross <= release /\ fee <= gross
  BY FillAmounts
<1>2. /\ buyer \in Player /\ seller \in Player /\ orders[buy].item \in Item /\ buyer # seller
  BY FillGuard, UsedOrder DEF Crosses
<1>3. /\ reserved' = [reserved EXCEPT ![buyer] = @ - release] /\ release <= reserved[buyer]
      /\ coins' = [coins EXCEPT ![buyer] = @ + (release - gross), ![seller] = @ + (gross - fee)]
      /\ fees' = fees + fee
      /\ inventory' = [inventory EXCEPT ![buyer][orders[buy].item] = @ + q]
      /\ clock' = clock
  BY FillEffect
<1>4. matching' \in Item
  BY FillGuard
<1>5. orders' \in [OrderId -> OrderRecord \cup {NoOrder}]
  BY FilledOrders
<1> HIDE DEF q, release, gross, fee, buyer, seller
<1>6. reserved' \in [Player -> Nat]
  BY <1>1, <1>2, <1>3 DEF MarketOK
<1>7. coins' \in [Player -> Nat]
  BY <1>1, <1>2, <1>3 DEF MarketOK
<1>8. inventory' \in [Player -> [Item -> Nat]]
  BY <1>1, <1>2, <1>3 DEF MarketOK
<1>9. fees' \in Nat /\ clock' \in Nat
  BY <1>1, <1>3 DEF MarketOK
<1> QED
  BY <1>4, <1>5, <1>6, <1>7, <1>8, <1>9 DEF MarketOK

LEMMA FillKeepsBooks ==
  ASSUME Books, NEW buy \in OrderId, NEW sell \in OrderId, SettleFill(buy, sell)
  PROVE  Books'
<1> USE DEF Books
<1> DEFINE q == Filled(buy, sell)
           release == Released(buy, sell)
           buyer == orders[buy].owner
<1>0. MarketOK'
  BY FillKeepsTypes
<1>1. /\ buy \in Used /\ sell \in Used /\ IsOpen(buy) /\ IsOpen(sell) /\ buy # sell
      /\ orders[buy].side = "BUY" /\ orders[sell].side = "SELL"
  BY FillGuard
<1>2. /\ orders' \in [OrderId -> OrderRecord \cup {NoOrder}] /\ Used' = Used
      /\ \A o \in {buy, sell} :
           /\ orders'[o].owner = orders[o].owner /\ orders'[o].side = orders[o].side
           /\ orders'[o].price = orders[o].price
           /\ orders'[o].remaining = orders[o].remaining - q
           /\ orders'[o].status = StatusAfter(o, orders[o].remaining - q)
      /\ orders'[buy].reserved = orders[buy].reserved - release
      /\ orders'[buy].escrow = orders[buy].escrow
      /\ orders'[sell].escrow = orders[sell].escrow - q
      /\ orders'[sell].reserved = orders[sell].reserved
  BY FilledOrders
<1>3. \A x \in OrderId : x # buy /\ x # sell => orders'[x] = orders[x]
  BY FillEffect
<1>4. /\ q \in Nat \ {0} /\ q <= orders[buy].remaining /\ q <= orders[sell].remaining
  BY FillAmounts
<1>5. /\ orders[buy].remaining \in Nat /\ orders[sell].remaining \in Nat
      /\ orders[buy].price \in Nat /\ orders[buy].reserved \in Nat
      /\ buyer \in Player
  BY <1>1, UsedOrder
<1>6. Covered(buy) /\ Covered(sell) /\ ReservesAddUp
  BY <1>1, BackedParts
<1>7. release = orders[buy].price * q
  BY DEF Released
<1> HIDE DEF q, release
<1>8. \A o \in {buy, sell} : /\ IsOpen(o)' <=> orders[o].remaining - q # 0
                             /\ Backing(o)' = Backing(o) - q
  <2> SUFFICES ASSUME NEW o \in {buy, sell}
               PROVE  /\ IsOpen(o)' <=> orders[o].remaining - q # 0
                      /\ Backing(o)' = Backing(o) - q
    OBVIOUS
  <2>1. IsOpen(o)' <=> orders[o].remaining - q # 0
    BY <1>1, <1>2 DEF IsOpen, StatusAfter
  <2> QED
    BY <1>1, <1>2, <1>4, <1>5, <2>1 DEF Backing
<1>9. Covered(buy)'
  <2>1. /\ orders[buy].escrow = 0 /\ orders[buy].reserved = orders[buy].price * orders[buy].remaining
    BY <1>1, <1>6 DEF Covered, Backing
  <2>2. Backing(buy) = orders[buy].remaining
    BY <1>1 DEF Backing
  <2>3. orders'[buy].reserved = orders[buy].price * Backing(buy)'
    <3>1. orders[buy].price * (orders[buy].remaining - q)
            = orders[buy].price * orders[buy].remaining - orders[buy].price * q
      BY <1>4, <1>5, ProductOfRest
    <3> QED
      BY <1>2, <1>7, <1>8, <2>1, <2>2, <3>1
  <2>4. orders'[buy].escrow = 0 /\ orders'[buy].side = "BUY" /\ orders'[buy].price = orders[buy].price
    BY <1>1, <1>2, <2>1
  <2>5. IsOpen(buy)' => orders'[buy].remaining > 0
    BY <1>2, <1>4, <1>5, <1>8
  <2> HIDE DEF Backing, IsOpen
  <2> QED
    BY <2>3, <2>4, <2>5 DEF Covered
<1>10. Covered(sell)'
  <2>1. orders[sell].escrow = orders[sell].remaining /\ orders[sell].reserved = 0
    BY <1>1, <1>6 DEF Covered, Backing
  <2>2. orders'[sell].escrow = Backing(sell)'
    BY <1>1, <1>2, <1>8, <2>1 DEF Backing
  <2>3. orders'[sell].reserved = 0 /\ orders'[sell].side = "SELL"
    BY <1>1, <1>2, <2>1
  <2>4. IsOpen(sell)' => orders'[sell].remaining > 0
    BY <1>2, <1>4, <1>5, <1>8
  <2> QED
    BY <2>2, <2>3, <2>4 DEF Covered
<1>11. \A x \in Used : x # buy /\ x # sell => Covered(x)'
  BY <1>3, BackedParts, CoveredStays DEF Used
<1>12. ReservesAddUp'
  <2>1. reserved' = [reserved EXCEPT ![buyer] = @ - release]
    BY FillEffect DEF release
  <2>2. release \in Nat
    BY FillAmounts DEF release
  <2>3. reserved[buyer] - release
          = reserved[buyer] - (IF buy \in Used THEN orders[buy].reserved ELSE 0)
            + orders'[buy].reserved
    BY <1>1, <1>2, <1>5, <2>2 DEF MarketOK
  <2>4. reserved' = [reserved EXCEPT ![buyer] =
          @ - (IF buy \in Used THEN orders[buy].reserved ELSE 0) + orders'[buy].reserved]
    BY <2>1, <2>3
  <2>5. \A x \in OrderId : x # buy => orders'[x] = orders[x] \/ (/\ x \in Used /\ x \in Used'
          /\ orders'[x].owner = orders[x].owner /\ orders'[x].reserved = orders[x].reserved)
    BY <1>1, <1>2, <1>3
  <2> QED
    BY <1>0, <1>1, <1>2, <1>5, <1>6, <2>4, <2>5, ReservesFollow
<1> QED
  BY <1>0, <1>2, <1>9, <1>10, <1>11, <1>12, NextBackedParts

-----------------------------------------------------------------------------
(* The match loop ends only when no two orders cross: among the orders     *)
(* that have a partner there is always a first one.                        *)
LEMMA BeforeIsAnOrder ==
  ASSUME MarketOK, NEW side, NEW S, S \subseteq Used, \A x \in S : orders[x].side = side
  PROVE  /\ \A x \in S : ~ Before(x, x)
         /\ \A x, y, z \in S : Before(x, y) /\ Before(y, z) => Before(x, z)
<1>1. \A x \in S : orders[x].price \in Nat /\ orders[x].at \in Nat /\ x \in Int
  BY UsedOrder, MarketAssumption
<1>2. ASSUME NEW x \in S PROVE ~ Before(x, x)
  BY <1>1 DEF Before, Older
<1>3. ASSUME NEW x \in S, NEW y \in S, NEW z \in S, Before(x, y), Before(y, z)
      PROVE  Before(x, z)
  <2>1. CASE side = "BUY"
    BY <1>1, <1>3, <2>1 DEF Before, Older
  <2>2. CASE side # "BUY"
    BY <1>1, <1>3, <2>2 DEF Before, Older
  <2> QED
    BY <2>1, <2>2
<1> QED
  BY <1>2, <1>3

LEMMA FirstOrder ==
  ASSUME MarketOK, NEW side, NEW S, S \subseteq Used, S # {}, \A x \in S : orders[x].side = side
  PROVE  \E m \in S : \A x \in S : ~ Before(x, m)
<1> DEFINE Below(x) == {y \in S : Before(y, x)}
           Bad == {Below(x) : x \in S}
<1>1. /\ \A x \in S : ~ Before(x, x)
      /\ \A x, y, z \in S : Before(x, y) /\ Before(y, z) => Before(x, z)
  BY BeforeIsAnOrder
<1>2. IsFiniteSet(S)
  BY MarketAssumption, FS_Subset DEF Used
<1>3. Bad \subseteq FiniteSubsetsOf(S) /\ Bad # {}
  <2>1. \A x \in S : Below(x) \subseteq S /\ IsFiniteSet(Below(x))
    BY <1>2, FS_Subset
  <2> QED
    BY <2>1 DEF FiniteSubsetsOf
<1>4. PICK T \in Bad : \A U \in Bad : U \subseteq T => U = T
  <2> HIDE DEF Bad
  <2> QED
    BY <1>3, MinimalFiniteSet
<1>5. PICK m \in S : T = Below(m)
  BY <1>4
<1>6. ASSUME NEW x \in S, Before(x, m) PROVE FALSE
  <2>1. Below(x) \subseteq T
    BY <1>1, <1>5, <1>6
  <2>2. Below(x) = T
    BY <1>4, <2>1
  <2>3. x \in T /\ x \notin Below(x)
    BY <1>1, <1>5, <1>6
  <2> QED
    BY <2>2, <2>3
<1> QED
  BY <1>6

Uncrossed(i) ==
  \A b \in OpenOrders("BUY", i), s \in OpenOrders("SELL", i) : ~ Crosses(b, s)

LEMMA LoopEndsUncrossed ==
  ASSUME MarketOK, NEW item, NextPair(item) = {}
  PROVE  Uncrossed(item)
<1> DEFINE B == {b \in OpenOrders("BUY", item) :
                   \E s \in OpenOrders("SELL", item) : Crosses(b, s)}
<1>1. SUFFICES ASSUME B # {} PROVE FALSE
  BY DEF Uncrossed
<1>2. B \subseteq Used /\ \A x \in B : orders[x].side = "BUY"
  BY DEF OpenOrders, IsOpen
<1>3. PICK b \in B : \A x \in B : ~ Before(x, b)
  <2> HIDE DEF B
  <2> QED
    BY <1>1, <1>2, FirstOrder
<1> DEFINE P == {s \in OpenOrders("SELL", item) : Crosses(b, s)}
<1>4. P # {} /\ P \subseteq Used /\ \A x \in P : orders[x].side = "SELL"
  BY DEF OpenOrders, IsOpen
<1>5. PICK s \in P : \A x \in P : ~ Before(x, s)
  <2> HIDE DEF P
  <2> QED
    BY <1>4, FirstOrder
<1>6. <<b, s>> \in NextPair(item)
  BY <1>3, <1>5 DEF NextPair
<1> QED
  BY <1>6

-----------------------------------------------------------------------------
(* The inductive invariant of the calls and of the book.                   *)
Limits ==
  \A p \in Player : calls[p] # NoCall /\ calls[p].at = "place" => calls[p].limit \in Nat \ {0}
OthersUncrossed == \A i \in Item \ {matching} : Uncrossed(i)

CallsSettle ==
  /\ CallsOK /\ Limits
  /\ instant \subseteq Used /\ InstantOrdersEnd
  /\ OthersUncrossed

Orderly == Books /\ CallsSettle

LEMMA OrderlySettles == Orderly => TypeOK /\ Backed /\ BookSettles
<1> SUFFICES ASSUME Orderly PROVE TypeOK /\ Backed /\ BookSettles
  OBVIOUS
<1>1. BookIsUncrossed
  BY MarketAssumption DEF Orderly, CallsSettle, OthersUncrossed, Uncrossed, BookIsUncrossed
<1> QED
  BY <1>1, TypeParts DEF Orderly, Books, CallsSettle, BookSettles

LEMMA CallParts ==
  ASSUME CallsOK, NEW p \in Player, calls[p] # NoCall
  PROVE  /\ calls[p] \in CallRecord
         /\ calls[p].at \in {"place", "cancel"}
         /\ calls[p].at = "place" =>
              /\ calls[p].side \in Side /\ calls[p].item \in Item
              /\ calls[p].quantity \in Quantity
         /\ calls[p].at = "cancel" => calls[p].order \in OrderId
BY DEF CallsOK, CallRecord

(* Transactions that reopen nothing keep what the calls and the book have. *)
Closing ==
  /\ Used' = Used
  /\ \A o \in Used : /\ orders'[o].owner = orders[o].owner /\ orders'[o].side = orders[o].side
                     /\ orders'[o].item = orders[o].item /\ orders'[o].price = orders[o].price
                     /\ IsOpen(o)' => IsOpen(o)

LEMMA ClosingKeepsUncrossed ==
  ASSUME Closing, NEW i, Uncrossed(i)
  PROVE  Uncrossed(i)'
BY DEF Closing, Uncrossed, OpenOrders, Crosses, IsOpen, Used

LEMMA ClosingKeepsCalls ==
  ASSUME CallsSettle, Closing, MarketOK', UNCHANGED <<matching, repository, calls, instant>>
  PROVE  CallsSettle'
<1> USE DEF CallsSettle
<1>1. CallsOK' /\ Limits'
  BY DEF CallsOK, Limits
<1>2. (instant \subseteq Used)'
  BY DEF Closing
<1>3. InstantOrdersEnd'
  BY DEF InstantOrdersEnd, Closing
<1>4. OthersUncrossed'
  BY ClosingKeepsUncrossed DEF OthersUncrossed
<1> QED
  BY <1>1, <1>2, <1>3, <1>4

(* A new order disturbs the book of its item only.                         *)
LEMMA NewOrderUncrossed ==
  ASSUME OthersUncrossed, matching = NoItem, NEW o \in OrderId \ Used, NEW item \in Item,
         Used' = Used \cup {o}, \A x \in OrderId : x # o => orders'[x] = orders[x],
         orders'[o].item = item, matching' = item
  PROVE  OthersUncrossed'
<1> SUFFICES ASSUME NEW i \in Item, i # item,
                    NEW b \in OpenOrders("BUY", i)', NEW s \in OpenOrders("SELL", i)'
             PROVE  ~ Crosses(b, s)'
  BY DEF OthersUncrossed, Uncrossed
<1>1. b # o /\ s # o
  BY DEF OpenOrders
<1>2. b \in OpenOrders("BUY", i) /\ s \in OpenOrders("SELL", i)
  BY <1>1 DEF OpenOrders, IsOpen
<1>3. ~ Crosses(b, s)
  BY <1>2, MarketAssumption DEF OthersUncrossed, Uncrossed
<1> QED
  BY <1>1, <1>2, <1>3 DEF Crosses, OpenOrders

(* Creating an order: what its transaction does to the book.               *)
LEMMA CreateEffect ==
  ASSUME Books, NEW o \in OrderId, NEW p \in Player, NEW side \in Side, NEW item \in Item,
         NEW quantity \in Nat \ {0}, NEW price \in Nat \ {0},
         CreateOrder(o, p, side, item, quantity, price)
  PROVE  /\ Books' /\ matching = NoItem /\ o \notin Used
         /\ Used' = Used \cup {o} /\ matching' = item
         /\ \A x \in OrderId : x # o => orders'[x] = orders[x]
         /\ orders'[o].item = item
<1>1. Books'
  BY CreateBuyKeepsBooks, CreateSellKeepsBooks DEF CreateOrder
<1>2. o \in OrderId \ Used /\ matching = NoItem /\ Enter(o, p, side, item, quantity, price)
  BY DEF CreateOrder, CreateBuyOrder, CreateSellOrder
<1>3. MarketOK
  BY DEF Books
<1>4. /\ Used' = Used \cup {o} /\ matching' = item
      /\ \A x \in OrderId : x # o => orders'[x] = orders[x]
      /\ orders'[o].item = item
  BY <1>2, <1>3, EnterEffect
<1> QED
  BY <1>1, <1>2, <1>4

LEMMA CreateStep ==
  ASSUME Orderly, NEW o \in OrderId, NEW p \in Player, NEW side \in Side, NEW item \in Item,
         NEW quantity \in Quantity, NEW price \in Price,
         CreateOrder(o, p, side, item, quantity, price), UNCHANGED <<repository, calls, instant>>
  PROVE  Orderly'
<1> USE DEF Orderly, CallsSettle
<1>0. quantity \in Nat \ {0} /\ price \in Nat \ {0}
  BY MarketAssumption
<1>1. /\ Books' /\ matching = NoItem /\ o \in OrderId \ Used
      /\ Used' = Used \cup {o} /\ matching' = item
      /\ \A x \in OrderId : x # o => orders'[x] = orders[x]
      /\ orders'[o].item = item
  BY <1>0, CreateEffect
<1>2. OthersUncrossed'
  BY <1>1, NewOrderUncrossed
<1>3. CallsOK' /\ Limits' /\ (instant \subseteq Used)'
  BY <1>1 DEF CallsOK, Limits
<1>4. InstantOrdersEnd'
  BY <1>1 DEF InstantOrdersEnd, IsOpen, Used
<1> QED
  BY <1>1, <1>2, <1>3, <1>4

LEMMA FillStep ==
  ASSUME Orderly, NEW buy \in OrderId, NEW sell \in OrderId, SettleFill(buy, sell)
  PROVE  Orderly'
<1> USE DEF Orderly
<1>1. Books' /\ MarketOK'
  BY FillKeepsBooks DEF Books
<1>2. UNCHANGED <<matching, repository, calls, instant>>
  BY DEF SettleFill
<1>3. Closing
  <2>1. Used' = Used /\ buy \in Used /\ sell \in Used /\ IsOpen(buy) /\ IsOpen(sell)
    BY FillGuard, FilledOrders
  <2>2. \A o \in {buy, sell} :
          /\ orders'[o].owner = orders[o].owner /\ orders'[o].side = orders[o].side
          /\ orders'[o].item = orders[o].item /\ orders'[o].price = orders[o].price
    BY FilledOrders
  <2>3. \A x \in OrderId : x # buy /\ x # sell => orders'[x] = orders[x]
    BY FillEffect
  <2> QED
    BY <2>1, <2>2, <2>3 DEF Closing, IsOpen, Used
<1> QED
  BY <1>1, <1>2, <1>3, ClosingKeepsCalls

LEMMA CancelCloses ==
  ASSUME Books, NEW o \in OrderId, CancelOrder(o)
  PROVE  /\ Books' /\ MarketOK' /\ Closing /\ ~ IsOpen(o)' /\ UNCHANGED matching
<1>1. Books' /\ MarketOK'
  BY CancelKeepsBooks DEF Books
<1>2. /\ orders' = [orders EXCEPT ![o].status = "CANCELLED", ![o].reserved = 0, ![o].escrow = 0]
      /\ UNCHANGED matching /\ o \in Used
  BY DEF CancelOrder, IsOpen
<1>3. /\ \A x \in OrderId : x # o => orders'[x] = orders[x]
      /\ orders'[o] = [orders[o] EXCEPT !.status = "CANCELLED", !.reserved = 0, !.escrow = 0]
  BY <1>2 DEF Books, MarketOK
<1>4. orders[o] \in OrderRecord /\ orders[o] # NoOrder
  BY <1>2, UsedOrder DEF Books
<1>5. /\ orders'[o].owner = orders[o].owner /\ orders'[o].side = orders[o].side
      /\ orders'[o].item = orders[o].item /\ orders'[o].price = orders[o].price
      /\ orders'[o].status = "CANCELLED" /\ orders'[o] \in OrderRecord
  <2>1. orders'[o] \in OrderRecord
    <3>1. "CANCELLED" \in OrderStatus /\ 0 \in Nat
      BY DEF OrderStatus
    <3>2. [orders[o] EXCEPT !.status = "CANCELLED", !.reserved = 0, !.escrow = 0] \in OrderRecord
      BY <1>4, <3>1, RecordEdit
    <3> QED
      BY <1>3, <3>2
  <2> QED
    BY <1>3, <1>4, <2>1 DEF OrderRecord
<1>6. Used' = Used
  BY <1>2, <1>3, <1>4, <1>5, NullAssumption DEF Used
<1> QED
  BY <1>1, <1>2, <1>3, <1>5, <1>6 DEF Closing, IsOpen, Used

LEMMA CancelStep ==
  ASSUME Orderly, NEW o \in OrderId, CancelOrder(o), UNCHANGED <<repository, calls, instant>>
  PROVE  Orderly'
BY CancelCloses, ClosingKeepsCalls DEF Orderly

LEMMA EndMatchStep ==
  ASSUME Orderly, EndMatch
  PROVE  Orderly'
<1> USE DEF Orderly, CallsSettle
<1>1. Uncrossed(matching)
  BY LoopEndsUncrossed DEF EndMatch, Books
<1>2. /\ matching' = NoItem
      /\ UNCHANGED <<repository, orders, inventory, coins, reserved, fees, clock, calls, instant>>
  BY DEF EndMatch
<1>3. Books'
  BY <1>2 DEF Books, MarketOK, Backed, Used, IsOpen, ReserveOf
<1>4. \A i \in Item : Uncrossed(i)'
  BY <1>1, <1>2 DEF OthersUncrossed, Uncrossed, OpenOrders, IsOpen, Used, Crosses
<1>5. CallsOK' /\ Limits' /\ (instant \subseteq Used)' /\ InstantOrdersEnd'
  BY <1>2 DEF CallsOK, Limits, Used, InstantOrdersEnd, IsOpen
<1> QED
  BY <1>3, <1>4, <1>5 DEF OthersUncrossed

-----------------------------------------------------------------------------
(* BUY_NOW and SELL_NOW.                                                   *)
LEMMA SameBook ==
  ASSUME Orderly, UNCHANGED market
  PROVE  /\ Books' /\ OthersUncrossed' /\ Used' = Used
         /\ \A o \in Used : IsOpen(o)' <=> IsOpen(o)
<1>1. UNCHANGED <<orders, inventory, coins, reserved, fees, clock, matching>>
  BY DEF market
<1>2. Books'
  BY <1>1 DEF Orderly, Books, MarketOK, Backed, Used, IsOpen, ReserveOf
<1>3. OthersUncrossed'
  BY <1>1 DEF Orderly, CallsSettle, OthersUncrossed, Uncrossed, OpenOrders, IsOpen, Used, Crosses
<1> QED
  BY <1>1, <1>2, <1>3 DEF Used, IsOpen

(* Changing the call of one player leaves those of the others.             *)
LEMMA OneCall ==
  ASSUME CallsOK, Limits, NEW p \in Player, NEW c, calls' = [calls EXCEPT ![p] = c],
         c = NoCall \/ c \in CallRecord,
         c # NoCall /\ c.at = "place" => c.limit \in Nat \ {0},
         repository' = repository, instant' \subseteq OrderId
  PROVE  /\ CallsOK' /\ Limits' /\ calls'[p] = c
         /\ \A r \in Player : r # p => calls'[r] = calls[r]
<1>1. calls'[p] = c /\ \A r \in Player : r # p => calls'[r] = calls[r]
  BY DEF CallsOK
<1>2. CallsOK'
  BY DEF CallsOK
<1>3. Limits'
  BY <1>1 DEF Limits
<1> QED
  BY <1>1, <1>2, <1>3

LEMMA ReadBookStep ==
  ASSUME Orderly, NEW p \in Player, NEW side \in Side, NEW item \in Item,
         NEW quantity \in Quantity, ReadBook(p, side, item, quantity)
  PROVE  Orderly'
<1> USE DEF Orderly, CallsSettle
<1>1. /\ calls[p] = NoCall /\ UNCHANGED <<repository, market, instant>>
      /\ \E other \in Side : \E limit \in {orders[o].price : o \in OpenOrders(other, item)} :
           calls' = [calls EXCEPT ![p] = [at |-> "place", side |-> side, item |-> item,
                                          quantity |-> quantity, limit |-> limit]]
  BY DEF ReadBook, Side
<1>other. PICK other \in Side : \E limit \in {orders[o].price : o \in OpenOrders(other, item)} :
         calls' = [calls EXCEPT ![p] = [at |-> "place", side |-> side, item |-> item,
                                        quantity |-> quantity, limit |-> limit]]
  BY <1>1
<1>2. PICK limit \in {orders[o].price : o \in OpenOrders(other, item)} :
         calls' = [calls EXCEPT ![p] = [at |-> "place", side |-> side, item |-> item,
                                        quantity |-> quantity, limit |-> limit]]
  BY <1>other
<1>3. limit \in Nat \ {0}
  BY <1>2, UsedOrder DEF Books, OpenOrders, IsOpen
<1> DEFINE c == [at |-> "place", side |-> side, item |-> item,
                 quantity |-> quantity, limit |-> limit]
<1>4. c \in CallRecord /\ c.at = "place" /\ c.limit \in Nat \ {0}
  BY <1>3 DEF CallRecord
<1>5. repository' = repository /\ instant' \subseteq OrderId /\ instant' = instant
  BY <1>1 DEF CallsOK
<1>6. calls' = [calls EXCEPT ![p] = c]
  BY <1>2
<1> HIDE DEF c
<1>7. /\ CallsOK' /\ Limits'
      /\ \A r \in Player : r # p => calls'[r] = calls[r]
  BY <1>4, <1>5, <1>6, OneCall
<1>8. /\ Books' /\ OthersUncrossed' /\ Used' = Used
      /\ \A o \in Used : IsOpen(o)' <=> IsOpen(o)
  BY <1>1, SameBook
<1>9. InstantOrdersEnd'
  BY <1>1, <1>5, <1>7, <1>8 DEF InstantOrdersEnd
<1> QED
  BY <1>5, <1>7, <1>8, <1>9

LEMMA PlaceNowStep ==
  ASSUME Orderly, NEW p \in Player, PlaceNow(p)
  PROVE  Orderly'
<1> USE DEF Orderly, CallsSettle
<1>1. calls[p] # NoCall /\ calls[p].at = "place" /\ repository' = repository
  BY DEF PlaceNow
<1>2. PICK o \in OrderId :
         /\ CreateOrder(o, p, calls[p].side, calls[p].item, calls[p].quantity, calls[p].limit)
         /\ calls' = [calls EXCEPT ![p] = [at |-> "cancel", order |-> o]]
         /\ instant' = instant \cup {o}
  BY DEF PlaceNow
<1>3. /\ calls[p].side \in Side /\ calls[p].item \in Item
      /\ calls[p].quantity \in Nat \ {0} /\ calls[p].limit \in Nat \ {0}
  BY <1>1, CallParts, MarketAssumption DEF Limits
<1>4. /\ Books' /\ matching = NoItem /\ o \in OrderId \ Used
      /\ Used' = Used \cup {o} /\ matching' = calls[p].item
      /\ \A x \in OrderId : x # o => orders'[x] = orders[x]
      /\ orders'[o].item = calls[p].item
  BY <1>2, <1>3, CreateEffect
<1>5. OthersUncrossed'
  BY <1>3, <1>4, NewOrderUncrossed
<1> DEFINE c == [at |-> "cancel", order |-> o]
<1>6. c \in CallRecord /\ c.at = "cancel" /\ c.order = o /\ c # NoCall
  <2>1. c \in CallRecord
    BY DEF CallRecord
  <2> QED
    BY <2>1, NullAssumption
<1>7. calls' = [calls EXCEPT ![p] = c]
  BY <1>2
<1>8. instant' \subseteq OrderId
  BY <1>2 DEF CallsOK
<1> HIDE DEF c
<1>9. /\ CallsOK' /\ Limits' /\ calls'[p] = c
      /\ \A r \in Player : r # p => calls'[r] = calls[r]
  BY <1>1, <1>6, <1>7, <1>8, OneCall
<1>10. (instant \subseteq Used)'
  BY <1>2, <1>4
<1>11. InstantOrdersEnd'
  <2> SUFFICES ASSUME NEW x \in instant', IsOpen(x)'
               PROVE  \E r \in Player : /\ calls'[r] # NoCall /\ calls'[r].at = "cancel"
                                        /\ calls'[r].order = x
    BY DEF InstantOrdersEnd
  <2>1. CASE x = o
    BY <1>6, <1>9, <2>1
  <2>2. CASE x # o
    <3>1. x \in instant /\ IsOpen(x)
      BY <1>2, <1>4, <2>2 DEF IsOpen, Used
    <3>2. PICK r \in Player : calls[r] # NoCall /\ calls[r].at = "cancel" /\ calls[r].order = x
      BY <3>1 DEF InstantOrdersEnd
    <3> QED
      BY <1>1, <1>9, <3>2
  <2> QED
    BY <2>1, <2>2
<1> QED
  BY <1>4, <1>5, <1>9, <1>10, <1>11

LEMMA RefuseNowStep ==
  ASSUME Orderly, NEW p \in Player, RefuseNow(p)
  PROVE  Orderly'
<1> USE DEF Orderly, CallsSettle
<1>1. /\ calls[p] # NoCall /\ calls[p].at = "place" /\ calls' = [calls EXCEPT ![p] = NoCall]
      /\ repository' = repository /\ instant' = instant /\ UNCHANGED market
  BY DEF RefuseNow
<1>2. instant' \subseteq OrderId
  BY <1>1 DEF CallsOK
<1>3. /\ CallsOK' /\ Limits'
      /\ \A r \in Player : r # p => calls'[r] = calls[r]
  BY <1>1, <1>2, OneCall
<1>4. /\ Books' /\ OthersUncrossed' /\ Used' = Used
      /\ \A o \in Used : IsOpen(o)' <=> IsOpen(o)
  BY <1>1, SameBook
<1>5. InstantOrdersEnd'
  BY <1>1, <1>3, <1>4 DEF InstantOrdersEnd
<1> QED
  BY <1>1, <1>3, <1>4, <1>5

LEMMA FinishNowStep ==
  ASSUME Orderly, NEW p \in Player, FinishNow(p)
  PROVE  Orderly'
<1> USE DEF Orderly, CallsSettle
<1>1. /\ calls[p] # NoCall /\ calls[p].at = "cancel" /\ calls' = [calls EXCEPT ![p] = NoCall]
      /\ repository' = repository
  BY DEF FinishNow
<1>2. PICK o \in OrderId : o = calls[p].order
  BY <1>1, CallParts
<1>3. \/ CancelOrder(o) /\ instant' = instant
      \/ instant' = {x \in instant : x = o => ~ IsOpen(o)} /\ UNCHANGED market
  BY <1>2 DEF FinishNow, CreatedOrder, Remainder
<1>4. instant' \subseteq instant /\ instant' \subseteq OrderId
  BY <1>3 DEF CallsOK
<1>5. /\ CallsOK' /\ Limits'
      /\ \A r \in Player : r # p => calls'[r] = calls[r]
  BY <1>1, <1>4, OneCall
<1>6. /\ Books' /\ OthersUncrossed' /\ Used' = Used
      /\ \A x \in Used : IsOpen(x)' => IsOpen(x)
      /\ o \in instant' => ~ IsOpen(o)'
  <2>1. CASE CancelOrder(o) /\ instant' = instant
    <3>1. Books' /\ Closing /\ ~ IsOpen(o)' /\ UNCHANGED matching
      BY <1>2, <2>1, CancelCloses
    <3>2. OthersUncrossed'
      BY <3>1, ClosingKeepsUncrossed DEF OthersUncrossed
    <3> QED
      BY <2>1, <3>1, <3>2 DEF Closing
  <2>2. CASE instant' = {x \in instant : x = o => ~ IsOpen(o)} /\ UNCHANGED market
    BY <2>2, SameBook
  <2> QED
    BY <1>3, <2>1, <2>2
<1>7. InstantOrdersEnd'
  <2> SUFFICES ASSUME NEW x \in instant', IsOpen(x)'
               PROVE  \E r \in Player : /\ calls'[r] # NoCall /\ calls'[r].at = "cancel"
                                        /\ calls'[r].order = x
    BY DEF InstantOrdersEnd
  <2>1. x # o /\ x \in instant /\ IsOpen(x)
    BY <1>4, <1>6
  <2>2. PICK r \in Player : calls[r] # NoCall /\ calls[r].at = "cancel" /\ calls[r].order = x
    BY <2>1 DEF InstantOrdersEnd
  <2> QED
    BY <1>2, <1>5, <2>1, <2>2
<1> QED
  BY <1>4, <1>5, <1>6, <1>7

LEMMA CrashStep ==
  ASSUME Orderly, Crash
  PROVE  Orderly'
<1> USE DEF Orderly, CallsSettle
<1>1. /\ calls' = [p \in Player |-> NoCall] /\ instant' = {o \in instant : ~ IsOpen(o)}
      /\ repository' = repository /\ UNCHANGED market
  BY DEF Crash
<1>2. /\ Books' /\ OthersUncrossed' /\ Used' = Used
      /\ \A o \in Used : IsOpen(o)' <=> IsOpen(o)
  BY <1>1, SameBook
<1>3. CallsOK' /\ Limits'
  BY <1>1 DEF CallsOK, Limits
<1>4. InstantOrdersEnd'
  BY <1>1, <1>2 DEF InstantOrdersEnd
<1> QED
  BY <1>1, <1>2, <1>3, <1>4

-----------------------------------------------------------------------------
LEMMA OrderlyInit == Init => Orderly
<1> SUFFICES ASSUME Init PROVE Orderly
  OBVIOUS
<1>1. Used = {}
  BY DEF Init, Used
<1>2. MarketOK
  BY MarketAssumption DEF Init, MarketOK
<1>3. CallsOK /\ Limits /\ InstantOrdersEnd /\ instant \subseteq Used
  BY DEF Init, CallsOK, Limits, InstantOrdersEnd
<1>4. OthersUncrossed
  BY <1>1 DEF OthersUncrossed, Uncrossed, OpenOrders, IsOpen
<1>5. ASSUME NEW p \in Player PROVE reserved[p] = SumOver(ReserveOf(p), OrderId)
  <2>1. \A o \in OrderId : ReserveOf(p)[o] = 0
    BY <1>1 DEF ReserveOf
  <2>2. SumOver(ReserveOf(p), OrderId) = 0
    <3> HIDE DEF ReserveOf
    <3> QED
      BY <2>1, SumZero, MarketAssumption
  <2> QED
    BY <2>2 DEF Init
<1>6. Backed
  BY <1>1, <1>5, BackedParts DEF ReservesAddUp
<1> QED
  BY <1>2, <1>3, <1>4, <1>6 DEF Orderly, Books, CallsSettle

LEMMA OrderlyNext == Orderly /\ [Next]_vars => Orderly'
<1> SUFFICES ASSUME Orderly, [Next]_vars PROVE Orderly'
  OBVIOUS
<1>1. ASSUME NEW o \in OrderId, NEW p \in Player, NEW side \in Side, NEW item \in Item,
             NEW quantity \in Quantity, NEW price \in Price,
             CreateOrder(o, p, side, item, quantity, price),
             UNCHANGED <<repository, calls, instant>>
      PROVE  Orderly'
  BY <1>1, CreateStep
<1>2. ASSUME NEW buy \in OrderId, NEW sell \in OrderId, SettleFill(buy, sell)
      PROVE  Orderly'
  BY <1>2, FillStep
<1>3. ASSUME EndMatch PROVE Orderly'
  BY <1>3, EndMatchStep
<1>4. ASSUME NEW o \in OrderId, CancelOrder(o), UNCHANGED <<repository, calls, instant>>
      PROVE  Orderly'
  BY <1>4, CancelStep
<1>5. ASSUME NEW p \in Player, NEW side \in Side, NEW item \in Item,
             NEW quantity \in Quantity, ReadBook(p, side, item, quantity)
      PROVE  Orderly'
  BY <1>5, ReadBookStep
<1>6. ASSUME NEW p \in Player, PlaceNow(p) \/ RefuseNow(p) \/ FinishNow(p)
      PROVE  Orderly'
  BY <1>6, PlaceNowStep, RefuseNowStep, FinishNowStep
<1>7. ASSUME Crash PROVE Orderly'
  BY <1>7, CrashStep
<1>8. ASSUME UNCHANGED vars PROVE Orderly'
  <2>1. UNCHANGED market /\ UNCHANGED <<repository, calls, instant>>
    BY <1>8 DEF vars
  <2>2. /\ Books' /\ OthersUncrossed' /\ Used' = Used
        /\ \A o \in Used : IsOpen(o)' <=> IsOpen(o)
    BY <2>1, SameBook
  <2> QED
    BY <2>1, <2>2 DEF Orderly, CallsSettle, CallsOK, Limits, InstantOrdersEnd
<1> QED
  BY <1>1, <1>2, <1>3, <1>4, <1>5, <1>6, <1>7, <1>8 DEF Next

(* Every reachable state of the market is orderly.                         *)
THEOREM MarketOrderly == Spec => []Orderly
BY OrderlyInit, OrderlyNext, PTL DEF Spec

(* Type correctness: no wallet, reserve, stock or escrow is negative.      *)
THEOREM MarketTypeCorrect == Spec => []TypeOK
BY MarketOrderly, OrderlySettles, PTL

(* Every open order is backed to the piece, so that the checks of          *)
(* settleFill and cancelMarketOrder never abort somebody else's order.     *)
THEOREM OrdersAreBacked == Spec => []Backed
BY MarketOrderly, OrderlySettles, PTL

(* Between transactions no two orders could trade, and every open order of *)
(* BUY_NOW or SELL_NOW has a call about to cancel it.                      *)
THEOREM BookAlwaysSettles == Spec => []BookSettles
BY MarketOrderly, OrderlySettles, PTL

-----------------------------------------------------------------------------
(* Fairness of fills.  Only a fill takes from what remains of an order.    *)
LEMMA OnlyFillsFill ==
  ASSUME Orderly, Next, NEW b \in OrderId, FilledBy(b)
  PROVE  \E buy, sell \in OrderId : SettleFill(buy, sell) /\ b \in {buy, sell}
<1> USE DEF Orderly
<1>1. b \in Used /\ orders'[b].remaining < orders[b].remaining /\ orders[b].remaining \in Nat
  BY UsedOrder DEF FilledBy, Books
<1>2. orders'[b].remaining # orders[b].remaining
  BY <1>1
<1>3. ASSUME NEW o \in OrderId, NEW p \in Player, NEW side \in Side, NEW item \in Item,
             NEW quantity \in Nat \ {0}, NEW price \in Nat \ {0},
             CreateOrder(o, p, side, item, quantity, price)
      PROVE  FALSE
  BY <1>1, <1>2, <1>3, CreateEffect DEF Used
<1>4. ASSUME NEW o \in OrderId, CancelOrder(o) PROVE FALSE
  <2>1. /\ orders' = [orders EXCEPT ![o].status = "CANCELLED", ![o].reserved = 0, ![o].escrow = 0]
        /\ o \in Used
    BY <1>4 DEF CancelOrder, IsOpen
  <2>2. /\ \A x \in OrderId : x # o => orders'[x] = orders[x]
        /\ orders'[o] = [orders[o] EXCEPT !.status = "CANCELLED", !.reserved = 0, !.escrow = 0]
    BY <2>1 DEF Books, MarketOK
  <2>3. orders'[o].remaining = orders[o].remaining
    <3>1. orders[o] \in OrderRecord
      BY <2>1, UsedOrder DEF Books
    <3> QED
      BY <2>2, <3>1 DEF OrderRecord
  <2> QED
    BY <1>2, <2>2, <2>3
<1>5. ~ UNCHANGED market
  BY <1>2 DEF market
<1>6. ~ EndMatch /\ ~ Crash
  BY <1>2, <1>5 DEF EndMatch, Crash
<1>7. ASSUME NEW p \in Player, NEW side \in Side, NEW item \in Item, NEW quantity \in Quantity,
             ReadBook(p, side, item, quantity)
      PROVE  FALSE
  BY <1>5, <1>7 DEF ReadBook
<1>8. ASSUME NEW p \in Player, PlaceNow(p) PROVE FALSE
  <2>1. /\ calls[p] # NoCall /\ calls[p].at = "place"
        /\ \E o \in OrderId :
             CreateOrder(o, p, calls[p].side, calls[p].item, calls[p].quantity, calls[p].limit)
    BY <1>8 DEF PlaceNow
  <2>2. /\ calls[p].side \in Side /\ calls[p].item \in Item
        /\ calls[p].quantity \in Nat \ {0} /\ calls[p].limit \in Nat \ {0}
    BY <2>1, CallParts, MarketAssumption DEF Limits, CallsSettle
  <2> QED
    BY <1>3, <2>1, <2>2
<1>9. ASSUME NEW p \in Player, FinishNow(p) PROVE FALSE
  <2>1. calls[p] # NoCall /\ calls[p].at = "cancel"
    BY <1>9 DEF FinishNow
  <2>2. calls[p].order \in OrderId
    BY <2>1, CallParts DEF CallsSettle
  <2>3. CancelOrder(calls[p].order) \/ UNCHANGED market
    BY <1>9 DEF FinishNow, CreatedOrder
  <2> QED
    BY <1>4, <1>5, <2>2, <2>3
<1>10. ~ \E p \in Player : RefuseNow(p)
  BY <1>5 DEF RefuseNow
<1>11. \A quantity \in Quantity, price \in Price : quantity \in Nat \ {0} /\ price \in Nat \ {0}
  BY MarketAssumption
<1>12. PICK buy \in OrderId, sell \in OrderId : SettleFill(buy, sell)
  BY <1>3, <1>4, <1>6, <1>7, <1>8, <1>9, <1>10, <1>11 DEF Next
<1>13. \A x \in OrderId : x # buy /\ x # sell => orders'[x] = orders[x]
  BY <1>12, FillEffect
<1> QED
  BY <1>2, <1>12, <1>13

LEMMA FillIsFair ==
  ASSUME Books, NEW buy \in OrderId, NEW sell \in OrderId, SettleFill(buy, sell)
  PROVE  FairFill(buy, sell)
<1> USE DEF Books
<1>1. /\ buy \in Used /\ sell \in Used /\ orders[buy].item = matching /\ orders[sell].item = matching
      /\ buy \in OpenOrders("BUY", matching) /\ sell \in OpenOrders("SELL", matching)
      /\ Crosses(buy, sell)
      /\ orders[buy].side = "BUY" /\ orders[sell].side = "SELL"
  BY FillGuard DEF OpenOrders
<1>2. \A b \in OpenOrders("BUY", matching), s \in OpenOrders("SELL", matching) :
        Crosses(b, s) => ~ Before(b, buy) /\ (b = buy => ~ Before(s, sell))
  BY FillGuard DEF NextPair
<1>3. \A x \in OrderId : IsOpen(x) => orders[x].price \in Nat /\ orders[x].at \in Nat
  BY UsedOrder DEF IsOpen
<1>4. orders[buy].price \in Nat /\ orders[sell].price \in Nat
  BY <1>1, UsedOrder
<1>5. ASSUME NEW x \in OpenOrders("BUY", matching), Before(x, buy)
      PROVE  orders[x].owner = orders[sell].owner
  <2>1. orders[x].price \in Nat /\ orders[x].side = "BUY"
    BY <1>3 DEF OpenOrders
  <2>2. orders[x].price >= orders[buy].price
    BY <1>4, <1>5, <2>1 DEF Before
  <2>3. orders[x].price >= orders[sell].price
    BY <1>1, <1>4, <2>1, <2>2 DEF Crosses
  <2> QED
    BY <1>1, <1>2, <1>5, <2>3 DEF Crosses
<1>6. ASSUME NEW x \in OpenOrders("SELL", matching), Before(x, sell)
      PROVE  orders[x].owner = orders[buy].owner
  <2>1. orders[x].price \in Nat /\ orders[x].side = "SELL"
    BY <1>3 DEF OpenOrders
  <2>2. orders[x].price <= orders[sell].price
    BY <1>4, <1>6, <2>1 DEF Before
  <2>3. orders[buy].price >= orders[x].price
    BY <1>1, <1>4, <2>1, <2>2 DEF Crosses
  <2> QED
    BY <1>1, <1>2, <1>6, <2>3 DEF Crosses
<1> DEFINE q == Filled(buy, sell)
           release == Released(buy, sell)
           gross == Gross(buy, sell)
           fee == FillFee(buy, sell)
           buyer == orders[buy].owner
           seller == orders[sell].owner
<1>7. /\ coins' = [coins EXCEPT ![buyer] = @ + (release - gross), ![seller] = @ + (gross - fee)]
      /\ fees' = fees + fee
  BY FillEffect
<1>8. /\ q \in Nat /\ release \in Nat /\ gross \in Nat /\ fee \in Nat /\ gross <= release
      /\ orders[sell].price * q <= gross /\ orders[sell].price * q \in Nat
  BY FillAmounts
<1>9. /\ buyer \in Player /\ seller \in Player /\ buyer # seller
      /\ orders[sell].remaining \in Nat /\ orders[sell].remaining - orders'[sell].remaining = q
  <2>1. orders'[sell].remaining = orders[sell].remaining - q
    BY FilledOrders
  <2>2. /\ buyer \in Player /\ seller \in Player /\ buyer # seller
        /\ orders[sell].remaining \in Nat
    BY <1>1, UsedOrder DEF Crosses
  <2> HIDE DEF q
  <2> QED
    BY <1>8, <2>1, <2>2
<1>10. /\ coins'[buyer] >= coins[buyer]
       /\ coins'[seller] - coins[seller] + (fees' - fees) >= orders[sell].price * q
  <2> HIDE DEF q, release, gross, fee, buyer, seller
  <2>1. coins \in [Player -> Nat] /\ fees \in Nat
    BY DEF MarketOK
  <2>2. /\ coins'[buyer] = coins[buyer] + (release - gross)
        /\ coins'[seller] = coins[seller] + (gross - fee)
    BY <1>7, <1>9, <2>1
  <2>3. coins[buyer] \in Nat /\ coins[seller] \in Nat
    BY <1>9, <2>1
  <2> DEFINE least == orders[sell].price * q
  <2>4. least \in Nat /\ least <= gross
    BY <1>8
  <2> HIDE DEF least
  <2>5. /\ coins'[buyer] >= coins[buyer]
        /\ coins'[seller] - coins[seller] + (fees' - fees) >= least
    BY <1>7, <1>8, <2>1, <2>2, <2>3, <2>4
  <2> QED
    BY <2>5 DEF least
<1>11. /\ \A x \in OpenOrders("BUY", orders[buy].item) :
            Before(x, buy) => orders[x].owner = orders[sell].owner
       /\ \A x \in OpenOrders("SELL", orders[sell].item) :
            Before(x, sell) => orders[x].owner = orders[buy].owner
  BY <1>1, <1>5, <1>6
<1> HIDE DEF q
<1> QED
  BY <1>9, <1>10, <1>11 DEF FairFill

(* Whatever the book holds and however often a player's own orders stand   *)
(* in front, a fill respects price and time, and both limits.              *)
THEOREM FillsAlwaysFair == Spec => FillsAreFair
<1>1. ASSUME Orderly, [Next]_vars
      PROVE  [\A b, s \in OrderId :
                FilledBy(b) /\ FilledBy(s) /\ orders[b].side = "BUY" /\ orders[s].side = "SELL" =>
                  FairFill(b, s)]_vars
  <2> SUFFICES ASSUME Next, NEW b \in OrderId, NEW s \in OrderId, FilledBy(b), FilledBy(s),
                      orders[b].side = "BUY", orders[s].side = "SELL"
               PROVE  FairFill(b, s)
    BY <1>1
  <2>1. PICK buy \in OrderId, sell \in OrderId : SettleFill(buy, sell) /\ b \in {buy, sell}
    BY <1>1, OnlyFillsFill
  <2>2. /\ orders[buy].side = "BUY" /\ orders[sell].side = "SELL"
        /\ \A x \in OrderId : x # buy /\ x # sell => orders'[x] = orders[x]
    <3>1. Books /\ SettleFill(buy, sell)
      BY <1>1, <2>1 DEF Orderly
    <3>2. /\ orders[buy].side = "BUY" /\ orders[sell].side = "SELL"
      BY <3>1, FillGuard
    <3>3. \A x \in OrderId : x # buy /\ x # sell => orders'[x] = orders[x]
      BY <3>1, FillOthers
    <3> QED
      BY <3>2, <3>3
  <2>3. orders'[s].remaining < orders[s].remaining /\ orders[s].remaining \in Nat
    BY <1>1, UsedOrder DEF FilledBy, Orderly, Books
  <2>4. b = buy /\ s = sell
    BY <2>1, <2>2, <2>3
  <2> QED
    BY <1>1, <2>1, <2>4, FillIsFair DEF Orderly
<1> QED
  BY <1>1, MarketOrderly, PTL DEF Spec, FillsAreFair

-----------------------------------------------------------------------------
(* The refinement of the exchange.  What a player has in escrow of an item *)
(* is the sum over its orders.                                             *)
Held(p, i) == SumOver(EscrowOf(p, i), OrderId)

LEMMA EscrowsAreNat ==
  ASSUME MarketOK, NEW p \in Player, NEW i \in Item
  PROVE  \A o \in OrderId : EscrowOf(p, i)[o] \in Nat
BY DEF MarketOK, EscrowOf, Used, OrderRecord

LEMMA NextEscrowsAreNat ==
  ASSUME MarketOK', NEW p \in Player, NEW i \in Item
  PROVE  \A o \in OrderId : EscrowOf(p, i)'[o] \in Nat
BY DEF MarketOK, EscrowOf, Used, OrderRecord

Share(o, p, i) ==
  IF o \in Used /\ orders[o].owner = p /\ orders[o].item = i THEN orders[o].escrow ELSE 0

LEMMA HeldMoves ==
  ASSUME MarketOK, MarketOK', NEW o \in OrderId,
         \A x \in OrderId : x # o => orders'[x] = orders[x] \/ ( /\ x \in Used /\ x \in Used'
              /\ orders'[x].owner = orders[x].owner /\ orders'[x].item = orders[x].item
              /\ orders'[x].escrow = orders[x].escrow),
         NEW p \in Player, NEW i \in Item
  PROVE  /\ Held(p, i) \in Nat /\ Share(o, p, i) \in Nat /\ Share(o, p, i)' \in Nat
         /\ Share(o, p, i) <= Held(p, i)
         /\ Held(p, i)' = Held(p, i) - Share(o, p, i) + Share(o, p, i)'
<1>1. \A x \in OrderId : EscrowOf(p, i)[x] \in Nat /\ EscrowOf(p, i)'[x] \in Nat
  BY EscrowsAreNat, NextEscrowsAreNat
<1>2. EscrowOf(p, i)[o] = Share(o, p, i) /\ EscrowOf(p, i)'[o] = Share(o, p, i)'
  BY DEF EscrowOf, Share
<1>3. \A x \in OrderId : x # o => EscrowOf(p, i)'[x] = EscrowOf(p, i)[x]
  BY DEF EscrowOf, Used
<1>4. IsFiniteSet(OrderId)
  BY MarketAssumption
<1> HIDE DEF EscrowOf, Share
<1>5. Held(p, i)' = Held(p, i) - EscrowOf(p, i)[o] + EscrowOf(p, i)'[o]
  BY <1>1, <1>3, <1>4, SumUpdate DEF Held
<1>6. Held(p, i) \in Nat /\ EscrowOf(p, i)[o] <= Held(p, i)
  BY <1>1, <1>4, SumOfNaturals DEF Held
<1> QED
  BY <1>1, <1>2, <1>5, <1>6

(* A function is an update of another if it is that point by point.        *)
LEMMA OneUpdate ==
  ASSUME NEW S, NEW f, NEW g, NEW x \in S, NEW v, DOMAIN f = S,
         f = [s \in S |-> f[s]], g = [s \in S |-> g[s]],
         \A s \in S : g[s] = IF s = x THEN v ELSE f[s]
  PROVE  g = [f EXCEPT ![x] = v]
OBVIOUS

LEMMA TwoUpdates ==
  ASSUME NEW S, NEW f, NEW g, NEW x \in S, NEW y \in S, x # y, NEW v, NEW w, DOMAIN f = S,
         f = [s \in S |-> f[s]], g = [s \in S |-> g[s]],
         \A s \in S : g[s] = IF s = y THEN w ELSE IF s = x THEN v ELSE f[s]
  PROVE  g = [f EXCEPT ![x] = v, ![y] = w]
OBVIOUS

LEMMA GoodsAre ==
  /\ Wealth = [p \in Player |-> coins[p] + reserved[p]]
  /\ Goods = [p \in Player |-> [i \in Item |-> inventory[p][i] + Held(p, i)]]
BY DEF Wealth, Goods, Held

LEMMA NextGoodsAre ==
  /\ Wealth' = [p \in Player |-> coins'[p] + reserved'[p]]
  /\ Goods' = [p \in Player |-> [i \in Item |-> inventory'[p][i] + Held(p, i)']]
BY DEF Wealth, Goods, Held

LEMMA SellOrderIsInvisible ==
  ASSUME Books, NEW o \in OrderId, NEW p \in Player, NEW item \in Item,
         NEW quantity \in Nat \ {0}, NEW price \in Nat \ {0},
         CreateSellOrder(o, p, item, quantity, price)
  PROVE  UNCHANGED <<Wealth, Goods, fees>>
<1> USE DEF Books
<1>0. MarketOK' /\ "SELL" \in Side
  BY CreateSellKeepsBooks DEF Books, Side
<1>1. /\ o \in OrderId \ Used /\ Enter(o, p, "SELL", item, quantity, price)
      /\ inventory' = [inventory EXCEPT ![p][item] = @ - quantity]
      /\ UNCHANGED <<coins, reserved, fees>>
  BY DEF CreateSellOrder
<1>2. /\ Used' = Used \cup {o} /\ \A x \in OrderId : x # o => orders'[x] = orders[x]
      /\ orders'[o].owner = p /\ orders'[o].item = item /\ orders'[o].escrow = quantity
  BY <1>0, <1>1, EnterEffect
<1>3. ASSUME NEW r \in Player, NEW i \in Item
      PROVE  inventory'[r][i] + Held(r, i)' = inventory[r][i] + Held(r, i)
  <2>1. /\ Held(r, i) \in Nat
        /\ Held(r, i)' = Held(r, i) - Share(o, r, i) + Share(o, r, i)'
    BY <1>0, <1>2, HeldMoves
  <2>2. /\ Share(o, r, i) = 0
        /\ Share(o, r, i)' = IF r = p /\ i = item THEN quantity ELSE 0
    BY <1>1, <1>2 DEF Share
  <2>3. /\ inventory[r][i] \in Nat
        /\ inventory'[r][i] = IF r = p /\ i = item THEN inventory[r][i] - quantity
                                                   ELSE inventory[r][i]
    BY <1>1 DEF MarketOK
  <2> QED
    BY <2>1, <2>2, <2>3
<1>4. Goods' = Goods
  BY <1>3, GoodsAre, NextGoodsAre
<1> QED
  BY <1>1, <1>4, GoodsAre, NextGoodsAre

LEMMA BuyOrderIsACharge ==
  ASSUME Books, NEW o \in OrderId, NEW p \in Player, NEW item \in Item,
         NEW quantity \in Nat \ {0}, NEW price \in Nat \ {0},
         CreateBuyOrder(o, p, item, quantity, price)
  PROVE  House!Charge(p)
<1> USE DEF Books
<1> DEFINE reserve == price * quantity
           fee == BuyOrderFee(reserve)
<1>0. MarketOK' /\ "BUY" \in Side
  BY CreateBuyKeepsBooks DEF Books, Side
<1>1. /\ o \in OrderId \ Used /\ Enter(o, p, "BUY", item, quantity, price)
      /\ reserve + fee <= coins[p]
      /\ coins' = [coins EXCEPT ![p] = @ - (reserve + fee)]
      /\ reserved' = [reserved EXCEPT ![p] = @ + reserve]
      /\ fees' = fees + fee
      /\ UNCHANGED inventory
  BY DEF CreateBuyOrder
<1>2. /\ Used' = Used \cup {o} /\ \A x \in OrderId : x # o => orders'[x] = orders[x]
      /\ orders'[o].escrow = 0
  BY <1>0, <1>1, EnterEffect
<1>3. reserve \in Nat \ {0} /\ fee \in Nat \ {0}
  BY Product, FeeBounds
<1> HIDE DEF reserve, fee
<1>4. ASSUME NEW r \in Player, NEW i \in Item
      PROVE  inventory'[r][i] + Held(r, i)' = inventory[r][i] + Held(r, i)
  <2>1. /\ Held(r, i) \in Nat
        /\ Held(r, i)' = Held(r, i) - Share(o, r, i) + Share(o, r, i)'
    BY <1>0, <1>2, HeldMoves
  <2>2. Share(o, r, i) = 0 /\ Share(o, r, i)' = 0
    BY <1>1, <1>2 DEF Share
  <2> QED
    BY <1>1, <2>1, <2>2
<1>5. Goods' = Goods
  BY <1>4, GoodsAre, NextGoodsAre
<1>6. coins \in [Player -> Nat] /\ reserved \in [Player -> Nat] /\ fees \in Nat
  BY DEF MarketOK
<1>7. Wealth' = [Wealth EXCEPT ![p] = @ - (fees' - fees)]
  <2>1. ASSUME NEW r \in Player
        PROVE  coins'[r] + reserved'[r]
                 = IF r = p THEN coins[p] + reserved[p] - (fees' - fees) ELSE coins[r] + reserved[r]
    BY <1>1, <1>3, <1>6
  <2>2. Wealth = [r \in Player |-> coins[r] + reserved[r]]
    BY GoodsAre
  <2>3. Wealth' = [r \in Player |-> coins'[r] + reserved'[r]]
    BY NextGoodsAre
  <2> HIDE DEF Wealth
  <2>4. Wealth[p] = coins[p] + reserved[p]
    BY <2>2
  <2>point. ASSUME NEW r \in Player
        PROVE  Wealth'[r] = IF r = p THEN Wealth[p] - (fees' - fees) ELSE Wealth[r]
    <3>1. Wealth'[r] = coins'[r] + reserved'[r] /\ Wealth[r] = coins[r] + reserved[r]
      BY <2>2, <2>3
    <3> QED
      BY <1>1, <1>3, <1>6, <2>1, <2>4, <3>1
  <2>5. /\ DOMAIN Wealth = Player /\ Wealth = [r \in Player |-> Wealth[r]]
        /\ Wealth' = [r \in Player |-> Wealth'[r]]
        /\ \A r \in Player : Wealth'[r] = IF r = p THEN Wealth[p] - (fees' - fees) ELSE Wealth[r]
    BY <2>2, <2>3, <2>point
  <2> QED
    BY <2>5, OneUpdate
<1>8. fees' \in (fees + 1)..(fees + Wealth[p])
  <2>1. Wealth[p] = coins[p] + reserved[p]
    BY GoodsAre
  <2>2. coins[p] \in Nat /\ reserved[p] \in Nat
    BY <1>6
  <2> QED
    BY <1>1, <1>3, <1>6, <2>1, <2>2
<1> QED
  BY <1>5, <1>7, <1>8 DEF House!Charge

LEMMA CancelIsInvisible ==
  ASSUME Books, NEW o \in OrderId, CancelOrder(o)
  PROVE  UNCHANGED <<Wealth, Goods, fees>>
<1> USE DEF Books
<1>0. MarketOK' /\ Closing
  BY CancelCloses
<1>1. PICK p \in Player : p = orders[o].owner
  BY UsedOrder DEF CancelOrder, IsOpen
<1>2. PICK item \in Item : item = orders[o].item
  BY UsedOrder DEF CancelOrder, IsOpen
<1>3. /\ o \in Used
      /\ orders' = [orders EXCEPT ![o].status = "CANCELLED", ![o].reserved = 0, ![o].escrow = 0]
      /\ inventory' = [inventory EXCEPT ![p][item] = @ + orders[o].escrow]
      /\ reserved' = [reserved EXCEPT ![p] = @ - orders[o].reserved]
      /\ coins' = [coins EXCEPT ![p] = @ + orders[o].reserved]
      /\ fees' = fees
  BY <1>1, <1>2 DEF CancelOrder, IsOpen
<1>4. /\ orders[o] \in OrderRecord /\ orders[o].escrow \in Nat /\ orders[o].reserved \in Nat
  BY <1>3, UsedOrder
<1>5. /\ \A x \in OrderId : x # o => orders'[x] = orders[x]
      /\ orders'[o].escrow = 0
  <2>1. orders'[o] = [orders[o] EXCEPT !.status = "CANCELLED", !.reserved = 0, !.escrow = 0]
    BY <1>3 DEF MarketOK
  <2>2. orders'[o].escrow = 0
    BY <1>4, <2>1 DEF OrderRecord
  <2> QED
    BY <1>3, <2>2 DEF MarketOK
<1>6. orders'[o].owner = p /\ orders'[o].item = item /\ Used' = Used
  BY <1>0, <1>1, <1>2, <1>3 DEF Closing
<1>7. ASSUME NEW r \in Player, NEW i \in Item
      PROVE  inventory'[r][i] + Held(r, i)' = inventory[r][i] + Held(r, i)
  <2>1. /\ Held(r, i) \in Nat
        /\ Held(r, i)' = Held(r, i) - Share(o, r, i) + Share(o, r, i)'
    BY <1>0, <1>5, HeldMoves
  <2>2. /\ Share(o, r, i) = IF r = p /\ i = item THEN orders[o].escrow ELSE 0
        /\ Share(o, r, i)' = 0
    BY <1>1, <1>2, <1>3, <1>5 DEF Share
  <2>3. /\ inventory[r][i] \in Nat
        /\ inventory'[r][i] = IF r = p /\ i = item THEN inventory[r][i] + orders[o].escrow
                                                   ELSE inventory[r][i]
    BY <1>3 DEF MarketOK
  <2> QED
    BY <1>4, <2>1, <2>2, <2>3
<1>8. Goods' = Goods
  BY <1>7, GoodsAre, NextGoodsAre
<1>9. \A r \in Player : coins'[r] + reserved'[r] = coins[r] + reserved[r]
  BY <1>3, <1>4 DEF MarketOK
<1> QED
  BY <1>3, <1>8, <1>9, GoodsAre, NextGoodsAre

LEMMA FillIsASale ==
  ASSUME Books, NEW buy \in OrderId, NEW sell \in OrderId, SettleFill(buy, sell),
         NEW buyer \in Player, NEW seller \in Player, NEW item \in Item,
         buyer = orders[buy].owner, seller = orders[sell].owner, item = orders[buy].item
  PROVE  House!Sale(buyer, seller, item)
<1> USE DEF Books
<1> DEFINE q == Filled(buy, sell)
           release == Released(buy, sell)
           gross == Gross(buy, sell)
           fee == FillFee(buy, sell)
<1>0. MarketOK'
  BY FillKeepsTypes
<1>1. /\ buy \in Used /\ sell \in Used /\ buyer # seller /\ item = orders[sell].item
      /\ buy # sell
  BY FillGuard DEF Crosses
<1>2. /\ q \in Nat \ {0} /\ release \in Nat /\ gross \in Nat \ {0} /\ fee \in Nat
      /\ gross <= release /\ fee <= gross
  BY FillAmounts
<1>3. /\ coins' = [coins EXCEPT ![buyer] = @ + (release - gross), ![seller] = @ + (gross - fee)]
      /\ fees' = fees + fee
      /\ reserved' = [reserved EXCEPT ![buyer] = @ - release]
      /\ release <= reserved[buyer] /\ q <= orders[sell].escrow
      /\ inventory' = [inventory EXCEPT ![buyer][item] = @ + q]
  BY FillEffect
<1>4. /\ orders'[sell].owner = seller /\ orders'[sell].item = item /\ Used' = Used
      /\ orders'[sell].escrow = orders[sell].escrow - q
      /\ orders'[buy].owner = buyer /\ orders'[buy].item = item
      /\ orders'[buy].escrow = orders[buy].escrow
  <2>1. \A o \in {buy, sell} : orders'[o].owner = orders[o].owner /\ orders'[o].item = orders[o].item
    BY FilledOrders
  <2>2. /\ Used' = Used /\ orders'[sell].escrow = orders[sell].escrow - q
        /\ orders'[buy].escrow = orders[buy].escrow
    BY FilledOrders
  <2> QED
    BY <1>1, <2>1, <2>2
<1>5. \A x \in OrderId : x # sell => orders'[x] = orders[x] \/ ( /\ x \in Used /\ x \in Used'
        /\ orders'[x].owner = orders[x].owner /\ orders'[x].item = orders[x].item
        /\ orders'[x].escrow = orders[x].escrow)
  <2>1. \A x \in OrderId : x # buy /\ x # sell => orders'[x] = orders[x]
    BY FillEffect
  <2> QED
    BY <1>1, <1>4, <2>1
<1>6. orders[sell].escrow \in Nat
  BY <1>1, UsedOrder
<1>7. /\ coins \in [Player -> Nat] /\ reserved \in [Player -> Nat] /\ fees \in Nat
      /\ inventory \in [Player -> [Item -> Nat]]
  BY DEF MarketOK
<1> HIDE DEF q, release, gross, fee
<1>8. ASSUME NEW r \in Player, NEW i \in Item
      PROVE  /\ Held(r, i) \in Nat
             /\ r = seller /\ i = item => q <= Held(r, i)
             /\ Held(r, i)' = IF r = seller /\ i = item THEN Held(r, i) - q ELSE Held(r, i)
  <2>1. /\ Held(r, i) \in Nat /\ Share(sell, r, i) \in Nat
        /\ Share(sell, r, i) <= Held(r, i)
        /\ Held(r, i)' = Held(r, i) - Share(sell, r, i) + Share(sell, r, i)'
    BY <1>0, <1>5, HeldMoves
  <2>2. /\ Share(sell, r, i) = IF r = seller /\ i = item THEN orders[sell].escrow ELSE 0
        /\ Share(sell, r, i)' = IF r = seller /\ i = item THEN orders[sell].escrow - q ELSE 0
    BY <1>1, <1>4 DEF Share
  <2> QED
    BY <1>2, <1>3, <1>6, <2>1, <2>2
<1>9. ASSUME NEW r \in Player, NEW i \in Item
      PROVE  inventory'[r][i] = IF r = buyer /\ i = item THEN inventory[r][i] + q ELSE inventory[r][i]
  BY <1>3, <1>7
<1>10. /\ Wealth = [r \in Player |-> coins[r] + reserved[r]]
       /\ Wealth' = [r \in Player |-> coins'[r] + reserved'[r]]
       /\ Goods = [r \in Player |-> [i \in Item |-> inventory[r][i] + Held(r, i)]]
       /\ Goods' = [r \in Player |-> [i \in Item |-> inventory'[r][i] + Held(r, i)']]
  BY GoodsAre, NextGoodsAre
<1>11. q \in 1..Goods[seller][item]
  <2>1. Goods[seller][item] = inventory[seller][item] + Held(seller, item)
    BY <1>10
  <2>2. inventory[seller][item] \in Nat
    BY <1>7
  <2> QED
    BY <1>2, <1>8, <2>1, <2>2
<1>12. Goods' = [Goods EXCEPT ![seller][item] = @ - q, ![buyer][item] = @ + q]
  <2> DEFINE after(r, i) == IF r = seller /\ i = item THEN Goods[r][i] - q
                            ELSE IF r = buyer /\ i = item THEN Goods[r][i] + q ELSE Goods[r][i]
  <2>1. ASSUME NEW r \in Player, NEW i \in Item
        PROVE  inventory'[r][i] + Held(r, i)' = after(r, i)
    <3>1. Goods[r][i] = inventory[r][i] + Held(r, i) /\ inventory[r][i] \in Nat
      BY <1>7, <1>10
    <3> QED
      BY <1>1, <1>2, <1>8, <1>9, <3>1
  <2>2. Goods' = [r \in Player |-> [i \in Item |-> after(r, i)]]
    BY <1>10, <2>1
  <2>3. Goods \in [Player -> [Item -> Nat]]
    <3>1. \A r \in Player, i \in Item : inventory[r][i] + Held(r, i) \in Nat
      BY <1>7, <1>8
    <3> QED
      BY <1>10, <3>1
  <2> HIDE DEF Goods
  <2>4. [Goods EXCEPT ![seller][item] = @ - q, ![buyer][item] = @ + q]
          = [r \in Player |-> [i \in Item |-> after(r, i)]]
    BY <1>1, <2>3
  <2> QED
    BY <2>2, <2>4
<1>13. gross \in 1..Wealth[buyer]
  <2>1. Wealth[buyer] = coins[buyer] + reserved[buyer]
    BY <1>10
  <2>2. coins[buyer] \in Nat /\ reserved[buyer] \in Nat
    BY <1>7
  <2> QED
    BY <1>2, <1>3, <2>1, <2>2
<1>14. fees' \in fees..(fees + gross)
  BY <1>2, <1>3, <1>7
<1>15. Wealth' = [Wealth EXCEPT ![buyer] = @ - gross, ![seller] = @ + gross - (fees' - fees)]
  <2>1. ASSUME NEW r \in Player
        PROVE  coins'[r] + reserved'[r]
                 = IF r = seller THEN coins[r] + reserved[r] + gross - (fees' - fees)
                   ELSE IF r = buyer THEN coins[r] + reserved[r] - gross
                   ELSE coins[r] + reserved[r]
    BY <1>1, <1>2, <1>3, <1>7
  <2> HIDE DEF Wealth
  <2>2. /\ Wealth[buyer] = coins[buyer] + reserved[buyer]
        /\ Wealth[seller] = coins[seller] + reserved[seller]
    BY <1>10
  <2>point. ASSUME NEW r \in Player
        PROVE  Wealth'[r] = IF r = seller THEN Wealth[seller] + gross - (fees' - fees)
                            ELSE IF r = buyer THEN Wealth[buyer] - gross ELSE Wealth[r]
    <3>1. Wealth'[r] = coins'[r] + reserved'[r] /\ Wealth[r] = coins[r] + reserved[r]
      BY <1>10
    <3> QED
      BY <1>1, <1>2, <1>3, <1>7, <2>1, <2>2, <3>1
  <2>3. /\ DOMAIN Wealth = Player /\ Wealth = [r \in Player |-> Wealth[r]]
        /\ Wealth' = [r \in Player |-> Wealth'[r]]
        /\ \A r \in Player : Wealth'[r] =
             IF r = seller THEN Wealth[seller] + gross - (fees' - fees)
             ELSE IF r = buyer THEN Wealth[buyer] - gross ELSE Wealth[r]
    BY <1>10, <2>point
  <2> QED
    BY <1>1, <2>3, TwoUpdates
<1> QED
  BY <1>1, <1>11, <1>12, <1>13, <1>14, <1>15 DEF House!Sale

LEMMA ExchangeInit == Init => House!Init
<1> SUFFICES ASSUME Init PROVE House!Init
  OBVIOUS
<1>1. Used = {}
  BY DEF Init, Used
<1>2. ASSUME NEW p \in Player, NEW i \in Item PROVE Held(p, i) = 0
  <2>1. \A o \in OrderId : EscrowOf(p, i)[o] = 0
    BY <1>1 DEF EscrowOf
  <2> HIDE DEF EscrowOf
  <2> QED
    BY <2>1, SumZero, MarketAssumption DEF Held
<1>3. /\ coins = InitialCoins /\ reserved = [p \in Player |-> 0]
      /\ inventory = InitialItems /\ fees = 0
  BY DEF Init
<1>4. Wealth = InitialCoins
  <2>1. \A p \in Player : coins[p] + reserved[p] = InitialCoins[p]
    BY <1>3, MarketAssumption
  <2> QED
    BY <2>1, GoodsAre, MarketAssumption
<1>5. Goods = InitialItems
  <2>1. \A p \in Player : \A i \in Item : inventory[p][i] + Held(p, i) = InitialItems[p][i]
    BY <1>2, <1>3, MarketAssumption
  <2>2. InitialItems = [p \in Player |-> [i \in Item |-> InitialItems[p][i]]]
    BY MarketAssumption
  <2> QED
    BY <2>1, <2>2, GoodsAre
<1> QED
  BY <1>3, <1>4, <1>5 DEF House!Init

LEMMA CreateRefines ==
  ASSUME Books, NEW o \in OrderId, NEW p \in Player, NEW side \in Side, NEW item \in Item,
         NEW quantity \in Nat \ {0}, NEW price \in Nat \ {0},
         CreateOrder(o, p, side, item, quantity, price)
  PROVE  House!Next \/ UNCHANGED <<Wealth, Goods, fees>>
<1>1. CASE CreateBuyOrder(o, p, item, quantity, price)
  BY <1>1, BuyOrderIsACharge DEF House!Next
<1>2. CASE CreateSellOrder(o, p, item, quantity, price)
  BY <1>2, SellOrderIsInvisible
<1> QED
  BY <1>1, <1>2 DEF CreateOrder

LEMMA FillRefines ==
  ASSUME Books, NEW buy \in OrderId, NEW sell \in OrderId, SettleFill(buy, sell)
  PROVE  House!Next
<1>1. /\ orders[buy].owner \in Player /\ orders[sell].owner \in Player
      /\ orders[buy].item \in Item
  BY FillGuard, UsedOrder DEF Books
<1>2. House!Sale(orders[buy].owner, orders[sell].owner, orders[buy].item)
  BY <1>1, FillIsASale
<1> QED
  BY <1>1, <1>2 DEF House!Next

LEMMA SameGoods ==
  ASSUME UNCHANGED <<orders, inventory, coins, reserved, fees>>
  PROVE  UNCHANGED <<Wealth, Goods, fees>>
BY DEF Wealth, Goods, EscrowOf, Used

LEMMA ExchangeNext ==
  ASSUME Orderly, [Next]_vars
  PROVE  House!Next \/ UNCHANGED <<Wealth, Goods, fees>>
<1> DEFINE Maps == House!Next \/ UNCHANGED <<Wealth, Goods, fees>>
<1> USE DEF Orderly
<1>1. UNCHANGED market => Maps
  BY SameGoods DEF market
<1>2. \A quantity \in Quantity, price \in Price : quantity \in Nat \ {0} /\ price \in Nat \ {0}
  BY MarketAssumption
<1>3. ASSUME NEW o \in OrderId, NEW p \in Player, NEW side \in Side, NEW item \in Item,
             NEW quantity \in Quantity, NEW price \in Price,
             CreateOrder(o, p, side, item, quantity, price)
      PROVE  Maps
  BY <1>2, <1>3, CreateRefines
<1>4. ASSUME NEW buy \in OrderId, NEW sell \in OrderId, SettleFill(buy, sell)
      PROVE  Maps
  BY <1>4, FillRefines
<1>5. ASSUME EndMatch PROVE Maps
  BY <1>5, SameGoods DEF EndMatch
<1>6. ASSUME NEW o \in OrderId, CancelOrder(o) PROVE Maps
  BY <1>6, CancelIsInvisible
<1>7. ASSUME NEW p \in Player, NEW side \in Side, NEW item \in Item,
             NEW quantity \in Quantity, ReadBook(p, side, item, quantity)
      PROVE  Maps
  BY <1>1, <1>7 DEF ReadBook
<1>8. ASSUME NEW p \in Player, PlaceNow(p) PROVE Maps
  <2>1. /\ calls[p] # NoCall /\ calls[p].at = "place"
        /\ \E o \in OrderId :
             CreateOrder(o, p, calls[p].side, calls[p].item, calls[p].quantity, calls[p].limit)
    BY <1>8 DEF PlaceNow
  <2>2. /\ calls[p].side \in Side /\ calls[p].item \in Item
        /\ calls[p].quantity \in Nat \ {0} /\ calls[p].limit \in Nat \ {0}
    BY <2>1, CallParts, MarketAssumption DEF Limits, CallsSettle
  <2> QED
    BY <2>1, <2>2, CreateRefines
<1>9. ASSUME NEW p \in Player, RefuseNow(p) PROVE Maps
  BY <1>1, <1>9 DEF RefuseNow
<1>10. ASSUME NEW p \in Player, FinishNow(p) PROVE Maps
  <2>1. calls[p] # NoCall /\ calls[p].at = "cancel"
    BY <1>10 DEF FinishNow
  <2>2. calls[p].order \in OrderId
    BY <2>1, CallParts DEF CallsSettle
  <2>3. CancelOrder(calls[p].order) \/ UNCHANGED market
    BY <1>10 DEF FinishNow, CreatedOrder
  <2> QED
    BY <1>1, <1>6, <2>2, <2>3
<1>11. ASSUME Crash PROVE Maps
  BY <1>1, <1>11 DEF Crash
<1>12. ASSUME UNCHANGED vars PROVE Maps
  BY <1>1, <1>12 DEF vars
<1> HIDE DEF Maps
<1>13. Maps
  BY <1>3, <1>4, <1>5, <1>6, <1>7, <1>8, <1>9, <1>10, <1>11, <1>12 DEF Next
<1> QED
  BY <1>13 DEF Maps

(* The market implements the exchange: orders, reserves, partial fills,    *)
(* refunds and cancellations, of any number of players, are nothing but    *)
(* sales and fees to somebody who looks at what the players own.           *)
THEOREM MarketIsAnExchange == Spec => RefinesExchange
<1>1. Init => House!Init
  BY ExchangeInit
<1>2. Orderly /\ [Next]_vars => [House!Next]_House!vars
  BY ExchangeNext DEF House!vars
<1> QED
  BY <1>1, <1>2, MarketOrderly, PTL DEF Spec, RefinesExchange, House!Spec
=============================================================================
