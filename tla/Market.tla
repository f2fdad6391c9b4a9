------------------------------- MODULE Market -------------------------------
(***************************************************************************)
(* The market of EconomyService: sell orders with their items in escrow,   *)
(* buy orders with their coins reserved, and the matching of both by price *)
(* and time.  BUY_NOW and SELL_NOW are calls of several transactions: read *)
(* the book for a limit, place an order at it, cancel what is left of it.  *)
(*                                                                         *)
(* An action is one repository transaction, except that a transaction that *)
(* places an order goes on in the steps of its matching, during which      *)
(* nothing else is enabled (`matching').  A refused transaction, and one   *)
(* whose operation key is known, changes nothing and is no step; the       *)
(* checks of settleFill are Settles, which never fail where Backed holds,  *)
(* so no check abandons a transaction halfway.                             *)
(*                                                                         *)
(* A player's entries of an item are counted together.  The `repository'   *)
(* matters for an escrow entry that becomes an inventory row of its id:    *)
(* PostgreSQL inserts the inventory row before it deletes the escrow row,  *)
(* which fails unless the pieces join a stack (see DirectTrade).  For a    *)
(* cancellation that is Returnable.  For a fill of an unstackable item it  *)
(* depends on which of the two players' rows are written first: where it   *)
(* fails, the transaction that placed the order is refused as a whole (no  *)
(* step, and for a BUY_NOW or SELL_NOW RefuseNow); the fills of SettleFill *)
(* are those that are committed.                                           *)
(***************************************************************************)
EXTENDS FiniteSums

CONSTANTS
  Player,        \* player ids
  OrderId,       \* order ids, compared as the code's strings are; bounds the orders
  Item,          \* the kinds of items
  Stackable,     \* those whose entries merge into one stack
  Price,         \* prices a player may name
  Quantity,      \* quantities a player may name
  InitialCoins, InitialItems,
  Repositories,  \* the repositories considered
  NoOrder,       \* an id not yet used
  NoItem,        \* no matching under way
  NoCall         \* a player without a BUY_NOW or SELL_NOW

ASSUME MarketAssumption ==
  /\ IsFiniteSet(Player) /\ IsFiniteSet(OrderId) /\ OrderId \subseteq Int
  /\ Price \subseteq Nat \ {0} /\ Quantity \subseteq Nat \ {0}
  /\ InitialCoins \in [Player -> Nat] /\ InitialItems \in [Player -> [Item -> Nat]]
  /\ NoItem \notin Item

Side == {"BUY", "SELL"}
OrderStatus == {"OPEN", "PARTIALLY_FILLED", "FILLED", "CANCELLED"}
OrderRecord ==
  [owner : Player, side : Side, item : Item, price : Nat \ {0}, original : Nat \ {0},
   remaining : Nat, reserved : Nat, escrow : Nat, status : OrderStatus, at : Nat]
CallRecord ==
  [at : {"place"}, side : Side, item : Item, quantity : Quantity, limit : Nat]
    \cup [at : {"cancel"}, order : OrderId]

ASSUME NullAssumption == NoOrder \notin OrderRecord /\ NoCall \notin CallRecord

VARIABLES
  repository,  \* the repository that serves, for good
  orders,      \* marketOrders; an order's escrow entry is kept with it
  inventory,   \* each player's pieces of each item
  coins,       \* available coins
  reserved,    \* coins reserved by buy orders
  fees,        \* what the fee entries of the ledger add up to
  clock,       \* the time of the latest order
  matching,    \* the item whose match loop runs
  calls,       \* the BUY_NOW or SELL_NOW of each player
  instant      \* the orders of such calls, unless a crash or a failure ended them

market == <<orders, inventory, coins, reserved, fees, clock, matching>>
vars == <<repository, market, calls, instant>>

(* Bug: a minimum fee, more than a small sale brings.                      *)
MinimumFee(gross) == 5

BuyOrderFee(reserve) == (reserve + 99) \div 100
TransactionFee(gross) == (2 * gross + 99) \div 100

Used == {o \in OrderId : orders[o] # NoOrder}
IsOpen(o) == o \in Used /\ orders[o].status \in {"OPEN", "PARTIALLY_FILLED"}
OpenOrders(side, item) ==
  {o \in OrderId : IsOpen(o) /\ orders[o].side = side /\ orders[o].item = item}

Older(o, p) ==
  \/ orders[o].at < orders[p].at
  \/ orders[o].at = orders[p].at /\ o < p

(* Bug: buy orders are sorted like sell orders.                            *)
CheapestBefore(o, p) ==
  \/ orders[o].price < orders[p].price
  \/ orders[o].price = orders[p].price /\ Older(o, p)

(* The order in which match sorts the two sides of the book.               *)
Before(o, p) ==
  \/ IF orders[o].side = "BUY" THEN orders[o].price > orders[p].price
                               ELSE orders[o].price < orders[p].price
  \/ orders[o].price = orders[p].price /\ Older(o, p)

Crosses(buy, sell) ==
  orders[buy].owner # orders[sell].owner /\ orders[buy].price >= orders[sell].price

Smaller(m, n) == IF m < n THEN m ELSE n

-----------------------------------------------------------------------------
(* Bugs such code could have, here and above, each the form of a           *)
(* definition that a property below refutes.                               *)

(* Bug: the first buy order alone is tried, so that a player's own sell    *)
(* orders in front of it end the matching.                                 *)
BestOnly(item) ==
  {pair \in OpenOrders("BUY", item) \X OpenOrders("SELL", item) :
     /\ Crosses(pair[1], pair[2])
     /\ \A b \in OpenOrders("BUY", item) \ {pair[1]} : Before(pair[1], b)
     /\ \A s \in OpenOrders("SELL", item) \ {pair[2]} :
          Crosses(pair[1], s) => Before(pair[2], s)}

(* Bug: the reserve is released at the price paid, not at the limit.       *)
ReleaseAtUnitPrice(buy, quantity, price) == price * quantity

-----------------------------------------------------------------------------
Init ==
  /\ repository \in Repositories
  /\ orders = [o \in OrderId |-> NoOrder]
  /\ inventory = InitialItems
  /\ coins = InitialCoins
  /\ reserved = [p \in Player |-> 0]
  /\ fees = 0
  /\ clock = 0
  /\ matching = NoItem
  /\ calls = [p \in Player |-> NoCall]
  /\ instant = {}

Placed(p, side, item, quantity, price, at) ==
  [owner |-> p, side |-> side, item |-> item, price |-> price,
   original |-> quantity, remaining |-> quantity,
   reserved |-> IF side = "BUY" THEN price * quantity ELSE 0,
   escrow |-> IF side = "SELL" THEN quantity ELSE 0,
   status |-> "OPEN", at |-> at]

(* Random ids: any that is unused.  Two orders may bear the same time.     *)
Enter(o, p, side, item, quantity, price) ==
  \E at \in {clock, clock + 1} :
    /\ orders' = [orders EXCEPT ![o] = Placed(p, side, item, quantity, price, at)]
    /\ clock' = at
    /\ matching' = item

Countable(item, quantity) == item \in Stackable \/ quantity = 1

CreateSellOrder(o, p, item, quantity, price) ==
  /\ matching = NoItem /\ o \notin Used
  /\ Countable(item, quantity) /\ quantity <= inventory[p][item]
  /\ inventory' = [inventory EXCEPT ![p][item] = @ - quantity]
  /\ Enter(o, p, "SELL", item, quantity, price)
  /\ UNCHANGED <<coins, reserved, fees>>

CreateBuyOrder(o, p, item, quantity, price) ==
  LET reserve == price * quantity
      fee == BuyOrderFee(reserve)
  IN /\ matching = NoItem /\ o \notin Used
     /\ Countable(item, quantity) /\ reserve + fee <= coins[p]
     /\ coins' = [coins EXCEPT ![p] = @ - (reserve + fee)]
     /\ reserved' = [reserved EXCEPT ![p] = @ + reserve]
     /\ fees' = fees + fee
     /\ Enter(o, p, "BUY", item, quantity, price)
     /\ UNCHANGED inventory

CreateOrder(o, p, side, item, quantity, price) ==
  \/ side = "BUY" /\ CreateBuyOrder(o, p, item, quantity, price)
  \/ side = "SELL" /\ CreateSellOrder(o, p, item, quantity, price)

(* The pair the match loop takes next: the first buy order that has a      *)
(* partner, with the first of its partners.                                *)
NextPair(item) ==
  {pair \in OpenOrders("BUY", item) \X OpenOrders("SELL", item) :
     /\ Crosses(pair[1], pair[2])
     /\ \A b \in OpenOrders("BUY", item), s \in OpenOrders("SELL", item) :
          Crosses(b, s) => /\ ~ Before(b, pair[1])
                           /\ b = pair[1] => ~ Before(s, pair[2])}

UnitPrice(buy, sell) == IF Older(buy, sell) THEN orders[buy].price ELSE orders[sell].price
Release(buy, quantity, price) == orders[buy].price * quantity

Settles(buy, sell, quantity) ==
  /\ orders[sell].escrow >= quantity
  /\ orders[buy].reserved >= orders[buy].price * quantity
  /\ reserved[orders[buy].owner] >= orders[buy].price * quantity

StatusAfter(o, left) ==
  IF left = 0 THEN "FILLED" ELSE IF left = orders[o].original THEN "OPEN" ELSE "PARTIALLY_FILLED"

SettleFill(buy, sell) ==
  LET buyer == orders[buy].owner
      seller == orders[sell].owner
      item == orders[buy].item
      quantity == Smaller(orders[buy].remaining, orders[sell].remaining)
      price == UnitPrice(buy, sell)
      release == Release(buy, quantity, price)
      gross == price * quantity
      fee == TransactionFee(gross)
  IN /\ <<buy, sell>> \in NextPair(matching)
     /\ Settles(buy, sell, quantity)
     /\ orders' = [orders EXCEPT
          ![buy].remaining = @ - quantity, ![buy].reserved = @ - release,
          ![buy].status = StatusAfter(buy, orders[buy].remaining - quantity),
          ![sell].remaining = @ - quantity, ![sell].escrow = @ - quantity,
          ![sell].status = StatusAfter(sell, orders[sell].remaining - quantity)]
     /\ reserved' = [reserved EXCEPT ![buyer] = @ - release]
     /\ coins' = [coins EXCEPT ![buyer] = @ + (release - gross), ![seller] = @ + (gross - fee)]
     /\ fees' = fees + fee
     /\ inventory' = [inventory EXCEPT ![buyer][item] = @ + quantity]
     /\ UNCHANGED <<repository, clock, matching, calls, instant>>

EndMatch ==
  /\ matching # NoItem /\ NextPair(matching) = {}
  /\ matching' = NoItem
  /\ UNCHANGED <<repository, orders, inventory, coins, reserved, fees, clock, calls, instant>>

(* The escrow of a sell order goes back to an inventory row of its id.     *)
Returnable(o) ==
  \/ orders[o].side = "BUY" \/ repository = "memory"
  \/ orders[o].item \in Stackable /\ inventory[orders[o].owner][orders[o].item] > 0

CancelOrder(o) ==
  LET p == orders[o].owner IN
  /\ matching = NoItem /\ IsOpen(o) /\ Returnable(o)
  /\ orders' = [orders EXCEPT ![o].status = "CANCELLED", ![o].reserved = 0, ![o].escrow = 0]
  /\ inventory' = [inventory EXCEPT ![p][orders[o].item] = @ + orders[o].escrow]
  /\ reserved' = [reserved EXCEPT ![p] = @ - orders[o].reserved]
  /\ coins' = [coins EXCEPT ![p] = @ + orders[o].reserved]
  /\ UNCHANGED <<fees, clock, matching>>

-----------------------------------------------------------------------------
(* BUY_NOW and SELL_NOW: the worst price that has to be taken from the     *)
(* other side of the book, the player's own orders left out.               *)
Depth(p, side, item, limit) ==
  SumOver([o \in OrderId |->
             IF /\ o \in OpenOrders(side, item) /\ orders[o].owner # p
                /\ IF side = "SELL" THEN orders[o].price <= limit ELSE orders[o].price >= limit
             THEN orders[o].remaining ELSE 0], OrderId)

ReadBook(p, side, item, quantity) ==
  LET other == IF side = "BUY" THEN "SELL" ELSE "BUY" IN
  /\ matching = NoItem /\ calls[p] = NoCall
  /\ side = "SELL" => inventory[p][item] > 0
  /\ \E limit \in {orders[o].price : o \in OpenOrders(other, item)} :
       /\ Depth(p, other, item, limit) >= quantity
       /\ Depth(p, other, item, IF side = "BUY" THEN limit - 1 ELSE limit + 1) < quantity
       /\ calls' = [calls EXCEPT ![p] = [at |-> "place", side |-> side, item |-> item,
                                         quantity |-> quantity, limit |-> limit]]
  /\ UNCHANGED <<repository, market, instant>>

PlaceNow(p) ==
  /\ calls[p] # NoCall /\ calls[p].at = "place"
  /\ LET c == calls[p] IN
     \E o \in OrderId :
       /\ CreateOrder(o, p, c.side, c.item, c.quantity, c.limit)
       /\ calls' = [calls EXCEPT ![p] = [at |-> "cancel", order |-> o]]
       /\ instant' = instant \cup {o}
  /\ UNCHANGED repository

(* The call fails when the coins or the items are gone by now, or when     *)
(* PostgreSQL cannot write an entry that a fill hands over.                *)
MayClash(item) == repository = "postgres" /\ item \notin Stackable

RefuseNow(p) ==
  /\ matching = NoItem /\ calls[p] # NoCall /\ calls[p].at = "place"
  /\ LET c == calls[p] IN
     \/ MayClash(c.item)
     \/ ~ IF c.side = "BUY"
          THEN c.limit * c.quantity + BuyOrderFee(c.limit * c.quantity) <= coins[p]
          ELSE c.quantity <= inventory[p][c.item]
  /\ calls' = [calls EXCEPT ![p] = NoCall]
  /\ UNCHANGED <<repository, market, instant>>

Remainder(o) == IsOpen(o)
CreatedOrder(p) == calls[p].order

(* The order the call created is cancelled if the snapshot taken after it  *)
(* and the transaction find it open; nothing reopens it in between.        *)
FinishNow(p) ==
  /\ matching = NoItem /\ calls[p] # NoCall /\ calls[p].at = "cancel"
  /\ LET o == CreatedOrder(p) IN
     IF Remainder(o) /\ Returnable(o)
     THEN CancelOrder(o) /\ UNCHANGED instant
     ELSE /\ instant' = {x \in instant : x = o => ~ Remainder(o)}
          /\ UNCHANGED market
  /\ calls' = [calls EXCEPT ![p] = NoCall]
  /\ UNCHANGED repository

(* The server's process ends: the calls are gone, their orders stay.       *)
Crash ==
  /\ matching = NoItem
  /\ calls' = [p \in Player |-> NoCall]
  /\ instant' = {o \in instant : ~ IsOpen(o)}
  /\ UNCHANGED <<repository, market>>

Next ==
  \/ \E o \in OrderId, p \in Player, side \in Side, item \in Item,
        quantity \in Quantity, price \in Price :
       /\ CreateOrder(o, p, side, item, quantity, price)
       /\ UNCHANGED <<repository, calls, instant>>
  \/ \E buy, sell \in OrderId : matching # NoItem /\ SettleFill(buy, sell)
  \/ EndMatch
  \/ \E o \in OrderId : CancelOrder(o) /\ UNCHANGED <<repository, calls, instant>>
  \/ \E p \in Player, side \in Side, item \in Item, quantity \in Quantity :
       ReadBook(p, side, item, quantity)
  \/ \E p \in Player : PlaceNow(p) \/ RefuseNow(p) \/ FinishNow(p)
  \/ Crash

Spec == Init /\ [][Next]_vars

-----------------------------------------------------------------------------
(* Type correctness; no wallet, reserve or stock is ever negative.         *)
TypeOK ==
  /\ repository \in Repositories
  /\ orders \in [OrderId -> OrderRecord \cup {NoOrder}]
  /\ inventory \in [Player -> [Item -> Nat]]
  /\ coins \in [Player -> Nat] /\ reserved \in [Player -> Nat]
  /\ fees \in Nat /\ clock \in Nat
  /\ matching \in Item \cup {NoItem}
  /\ calls \in [Player -> CallRecord \cup {NoCall}]
  /\ instant \subseteq OrderId

(* Every open order is backed to the piece: a sell order by an escrow of   *)
(* what remains, a buy order by its limit times what remains, and the      *)
(* reserve of a player is the sum of those of its buy orders.  Partial     *)
(* fills below the limit, refunds and cancellations between fills leave    *)
(* nothing behind and take nothing twice, so that the checks of settleFill *)
(* (ESCROW_MISMATCH, RESERVATION_MISMATCH) and of cancelMarketOrder, which *)
(* would abort somebody else's order, never fail.                          *)
ReserveOf(p) ==
  [o \in OrderId |-> IF o \in Used /\ orders[o].owner = p THEN orders[o].reserved ELSE 0]

Backed ==
  /\ \A o \in Used :
       LET backing == IF IsOpen(o) THEN orders[o].remaining ELSE 0 IN
       /\ orders[o].escrow = IF orders[o].side = "SELL" THEN backing ELSE 0
       /\ orders[o].reserved = IF orders[o].side = "BUY" THEN orders[o].price * backing ELSE 0
       /\ IsOpen(o) => orders[o].remaining > 0
  /\ \A p \in Player : reserved[p] = SumOver(ReserveOf(p), OrderId)

BookIsUncrossed ==
  matching = NoItem =>
    \A i \in Item : \A b \in OpenOrders("BUY", i), s \in OpenOrders("SELL", i) : ~ Crosses(b, s)

InstantOrdersEnd ==
  \A o \in instant : IsOpen(o) =>
    \E p \in Player : calls[p] # NoCall /\ calls[p].at = "cancel" /\ calls[p].order = o

(* Nothing stays in the book that should not: between transactions no buy  *)
(* order could trade with another player's sell order, although a player's *)
(* own orders may cross and stand in front; and an order of BUY_NOW or     *)
(* SELL_NOW that is open has a call that is about to cancel it, unless a   *)
(* crash or a failed cancellation ended the call.                          *)
BookSettles == BookIsUncrossed /\ InstantOrdersEnd

FilledBy(o) == o \in Used /\ orders'[o].remaining < orders[o].remaining

FairFill(b, s) ==
  /\ \A x \in OpenOrders("BUY", orders[b].item) :
       Before(x, b) => orders[x].owner = orders[s].owner
  /\ \A x \in OpenOrders("SELL", orders[s].item) :
       Before(x, s) => orders[x].owner = orders[b].owner
  /\ coins'[orders[b].owner] >= coins[orders[b].owner]
  /\ coins'[orders[s].owner] - coins[orders[s].owner] + (fees' - fees)
       >= orders[s].price * (orders[s].remaining - orders'[s].remaining)

(* A fill respects price and time: an order that comes before one that is  *)
(* filled is passed over only because the counterparty is its own owner;   *)
(* and both owners get their limit or better.                              *)
FillsAreFair ==
  [][\A b, s \in OrderId :
       FilledBy(b) /\ FilledBy(s) /\ orders[b].side = "BUY" /\ orders[s].side = "SELL" =>
         FairFill(b, s)]_vars

(* The market implements the exchange: escrow and reserves, partial fills, *)
(* refunds and cancellations are nothing but sales and fees to somebody    *)
(* who looks at what the players own.                                      *)
EscrowOf(p, i) ==
  [o \in OrderId |-> IF o \in Used /\ orders[o].owner = p /\ orders[o].item = i
                     THEN orders[o].escrow ELSE 0]
Wealth == [p \in Player |-> coins[p] + reserved[p]]
Goods == [p \in Player |-> [i \in Item |-> inventory[p][i] + SumOver(EscrowOf(p, i), OrderId)]]

House == INSTANCE Exchange
  WITH wealth <- Wealth, goods <- Goods,
       InitialWealth <- InitialCoins, InitialGoods <- InitialItems

RefinesExchange == House!Spec

=============================================================================
