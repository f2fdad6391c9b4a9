---------------------------- MODULE DirectTrade ----------------------------
(***************************************************************************)
(* The direct trade of EconomyService: a player asks another for a trade,  *)
(* both put items and coins into escrow, each change of an offer raises    *)
(* the revision and voids the confirmations, and the confirmation that     *)
(* completes the pair swaps the two offers.                                *)
(*                                                                         *)
(* An action that touches the stored state is one repository transaction;  *)
(* one that throws, or whose operation key is already recorded, changes    *)
(* nothing and is a stuttering step, so the keys are left out.  Two        *)
(* repositories implement EconomyRepository and `repository' says which    *)
(* one serves.  "memory" (the tests) runs a transaction in one piece and   *)
(* stores whatever it leaves.  "postgres" (the server) runs the checks of  *)
(* online players while the transaction is open and commits later, and     *)
(* writes the item rows in an order that can break their primary key.      *)
(*                                                                         *)
(* Inventories hold entries with an id; `entries' maps the ids to what     *)
(* they are, and in whose inventory or trade escrow.  `reserved' is the    *)
(* part of reservedCoins that trades hold.                                 *)
(***************************************************************************)
EXTENDS FiniteSums

CONSTANTS
  Player,          \* player ids
  TradeId,         \* trade ids; bounds the trades ever requested
  EntryId,         \* inventory entry ids; bounds the splits of stacks
  Item,            \* the kinds of items
  Stackable,       \* those whose entries merge into one stack
  Quantity,        \* the quantities a player may offer of an entry
  CoinOffer,       \* the amounts of coins a player may offer
  InitialCoins,    \* the coins of each player at first
  InitialEntries,  \* the inventories at first
  Repositories,    \* the repositories considered
  MaxUpdates,      \* bounds the changes of offers, over all trades
  NoEntry,         \* an id that names no entry
  NoTrade,         \* a trade id not yet used
  NoMessage,       \* a player without a confirmation under way
  NoOffer          \* a player that has confirmed nothing

Presence == {"away", "here", "fighting"}

Place == {"INVENTORY", "TRADE_ESCROW"}
EntryRecord == [owner : Player, item : Item, quantity : Nat \ {0}, place : Place]

(* addInventory never makes a second stack beside one of the same item.    *)
OneStack(es) ==
  \A e, d \in EntryId :
    /\ es[e] # NoEntry /\ es[d] # NoEntry
    /\ es[e].owner = es[d].owner /\ es[e].place = es[d].place
    /\ es[e].item = es[d].item /\ es[e].item \in Stackable
    => e = d

TradeStatus == {"REQUESTED", "ACTIVE", "COMPLETED", "CANCELLED", "DECLINED"}
Unconfirmed == -1
OfferItem == [player : Player, entry : EntryId, quantity : Nat \ {0}]
TradeRecord ==
  [requester : Player, receiver : Player, status : TradeStatus, revision : Nat,
   confirmed : [Player -> Nat \cup {Unconfirmed}],
   items : SUBSET OfferItem, coins : [Player -> Nat]]

ASSUME FiniteAssumption ==
  IsFiniteSet(Player) /\ IsFiniteSet(EntryId) /\ IsFiniteSet(TradeId)
ASSUME StackableAssumption == Stackable \subseteq Item
ASSUME OfferAssumption == CoinOffer \subseteq Nat /\ Quantity \subseteq Nat \ {0}
ASSUME HoldingsAssumption ==
  /\ InitialCoins \in [Player -> Nat]
  /\ InitialEntries \in [EntryId -> EntryRecord \cup {NoEntry}]
  /\ \A e \in EntryId : InitialEntries[e] # NoEntry => InitialEntries[e].place = "INVENTORY"
  /\ OneStack(InitialEntries)
ASSUME RepositoriesAssumption == Repositories \subseteq {"memory", "postgres"}
ASSUME NullAssumption ==
  /\ NoEntry \notin EntryRecord /\ NoTrade \notin TradeRecord \cup TradeId
  /\ NoOffer # NoMessage /\ "read" \notin TradeId

VARIABLES
  repository,  \* the repository that serves, once chosen for good
  server,      \* "up", or "starting" after a crash
  entries,     \* item entries: inventories and escrow
  coins,       \* available coins of each player
  reserved,    \* coins each player has in trade offers
  trades,      \* the trades
  presence,    \* each player's entry in the sets online and combatLocked
  open,        \* postgres: requests and acceptances that passed the checks
               \* of availability and have not committed
  leaving,     \* the cancellations that disconnects still have to make
  sent,        \* the confirmation each player has under way
  agreed       \* what each player's recorded confirmation was about

stored == <<entries, coins, reserved, trades, agreed>>
memory == <<presence, open, leaving, sent>>
vars == <<repository, server, stored, memory>>

-----------------------------------------------------------------------------
Used == {t \in TradeId : trades[t] # NoTrade}
IsOpen(t) == t \in Used /\ trades[t].status \in {"REQUESTED", "ACTIVE"}
Parties(t) == {trades[t].requester, trades[t].receiver}
OpenTradesOf(p) == {t \in TradeId : IsOpen(t) /\ p \in Parties(t)}

Owned(es, e, p, place) == es[e] # NoEntry /\ es[e].owner = p /\ es[e].place = place

(* What a participant is shown of a trade, and what it confirms.           *)
Offer(t) == [items |-> trades[t].items, coins |-> trades[t].coins]

(* assertTradeAvailable looks at the sets the service keeps in memory      *)
(* (Reachable) and at the stored trades (Unengaged).                       *)
Reachable(p) == presence[p] = "here"

-----------------------------------------------------------------------------
(* Bugs such code could have, each the form of a definition that a         *)
(* property below refutes.                                                 *)

(* Bug: a returned entry takes the place of the owner's stack.             *)
DeliverOver(es, to) ==
  [e \in EntryId |->
     IF e \in DOMAIN to
     THEN [es[e] EXCEPT !.owner = to[e], !.place = "INVENTORY"]
     ELSE IF \E d \in DOMAIN to : /\ Owned(es, e, to[d], "INVENTORY")
                                  /\ es[e].item = es[d].item /\ es[e].item \in Stackable
          THEN NoEntry ELSE es[e]]

(* Bug: the offered coins are not compared with the wallet.                *)
FundsUnchecked(p, T, amount) == amount \in CoinOffer

(* Bug: the items of the offer that is taken back stay listed.             *)
RevisedBesideOld(trade, p, items, amount) ==
  [trade EXCEPT !.items = @ \cup items, !.coins[p] = amount, !.revision = @ + 1,
                !.confirmed = [q \in Player |-> Unconfirmed]]

(* Bug: a confirmation may be of an earlier revision.                      *)
CurrentOrEarlier(t, revision) == revision <= trades[t].revision

(* Bug: a disconnect cancels the active trade only.                        *)
ReadActiveForDisconnect(p) ==
  /\ server = "up" /\ <<p, "read">> \in leaving
  /\ leaving' = (leaving \ {<<p, "read">>}) \cup
       {<<p, t>> : t \in {u \in OpenTradesOf(p) : trades[u].status = "ACTIVE"}}
  /\ UNCHANGED <<repository, server, stored, presence, open, sent>>

-----------------------------------------------------------------------------
Unengaged(p, except) == OpenTradesOf(p) \subseteq {except}

(* addInventory for the entries in DOMAIN to, each for the player to[e]: a *)
(* stackable item joins the receiver's stack of it, and any other item     *)
(* becomes an entry.  A stackable item without a stack gets a random new   *)
(* id when it changes hands; the id it had in escrow, free from now on,    *)
(* stands for that one.                                                    *)
StackFor(es, e, p) ==
  {s \in EntryId : /\ es[e].item \in Stackable
                   /\ Owned(es, s, p, "INVENTORY")
                   /\ es[s].item = es[e].item}

Deliver(es, to) ==
  [e \in EntryId |->
     IF e \in DOMAIN to
     THEN IF StackFor(es, e, to[e]) # {} THEN NoEntry
          ELSE [es[e] EXCEPT !.owner = to[e], !.place = "INVENTORY"]
     ELSE LET joining == {d \in DOMAIN to : e \in StackFor(es, d, to[d])}
          IN  IF joining = {} THEN es[e]
              ELSE [es[e] EXCEPT !.quantity =
                      @ + SumOver([d \in joining |-> es[d].quantity], joining)]]

(* releaseTradeOffer for the offers of the players in S in the trades of T:*)
(* what is still in escrow goes back to its owner.                         *)
Escrowed(T, S) ==
  {e \in EntryId : \E t \in T : \E i \in trades[t].items :
     i.player \in S /\ i.entry = e /\ Owned(entries, e, i.player, "TRADE_ESCROW")}

Returned(T, S) == Deliver(entries, [e \in Escrowed(T, S) |-> entries[e].owner])

CoinsIn(T, p) == SumOver([t \in T |-> IF t \in Used THEN trades[t].coins[p] ELSE 0], T)

(* persistEconomy of the PostgreSQL repository writes player after player: *)
(* deletes the rows of the inventory, creates those of the new inventory,  *)
(* and only then deletes the rows that left the escrow.  An entry that     *)
(* moves from escrow to an inventory under its own id meets its old row    *)
(* unless the row was another player's and that player came first.         *)
MovesUnderItsId(es, e) ==
  /\ entries[e] # NoEntry /\ entries[e].place = "TRADE_ESCROW"
  /\ es[e] # NoEntry /\ es[e].place = "INVENTORY"
  /\ es[e].item \in Stackable => es[e].owner = entries[e].owner

Persisted(es, first) ==
  repository = "postgres" =>
    \A e \in EntryId : MovesUnderItsId(es, e) =>
      es[e].owner # entries[e].owner /\ entries[e].owner = first

-----------------------------------------------------------------------------
Init ==
  /\ repository \in Repositories
  /\ server = "up"
  /\ entries = InitialEntries
  /\ coins = InitialCoins
  /\ reserved = [p \in Player |-> 0]
  /\ trades = [t \in TradeId |-> NoTrade]
  /\ presence = [p \in Player |-> "away"]
  /\ open = {} /\ leaving = {}
  /\ sent = [p \in Player |-> NoMessage]
  /\ agreed = [p \in Player |-> NoOffer]

-----------------------------------------------------------------------------
(* requestTrade and acceptTrade, once the players are known to be          *)
(* available: what the transaction does to the stored state.               *)
NewTrade(p, q) ==
  /\ Unengaged(p, NoTrade) /\ Unengaged(q, NoTrade)
  /\ \E t \in TradeId \ Used :
       trades' = [trades EXCEPT ![t] =
         [requester |-> p, receiver |-> q, status |-> "REQUESTED", revision |-> 0,
          confirmed |-> [r \in Player |-> Unconfirmed],
          items |-> {}, coins |-> [r \in Player |-> 0]]]
  /\ agreed' = [agreed EXCEPT ![p] = NoOffer, ![q] = NoOffer]
  /\ UNCHANGED <<entries, coins, reserved>>

Activate(p, t) ==
  /\ t \in Used /\ trades[t].receiver = p /\ trades[t].status = "REQUESTED"
  /\ \A q \in Parties(t) : Unengaged(q, t)
  /\ trades' = [trades EXCEPT ![t].status = "ACTIVE"]
  /\ UNCHANGED <<entries, coins, reserved, agreed>>

(* In memory the checks and the commit are one step.                       *)
RequestTrade(p, q) ==
  /\ server = "up" /\ repository = "memory"
  /\ p # q /\ Reachable(p) /\ Reachable(q)
  /\ NewTrade(p, q)
  /\ UNCHANGED <<repository, server, memory>>

AcceptTrade(p, t) ==
  /\ server = "up" /\ repository = "memory"
  /\ t \in Used /\ \A q \in Parties(t) : Reachable(q)
  /\ Activate(p, t)
  /\ UNCHANGED <<repository, server, memory>>

(* In PostgreSQL the transaction stays open between them.  Serializable    *)
(* isolation makes its reads of the stored state valid at the commit; the  *)
(* sets in memory are not part of it.  A connection's messages are handled *)
(* one after the other, so a player has one transaction open at a time.    *)
Busy(p) == \E c \in open : c[2] = p

BeginRequest(p, q) ==
  /\ server = "up" /\ repository = "postgres" /\ ~ Busy(p)
  /\ p # q /\ Reachable(p) /\ Reachable(q)
  /\ Unengaged(p, NoTrade) /\ Unengaged(q, NoTrade)
  /\ open' = open \cup {<<"request", p, q>>}
  /\ UNCHANGED <<repository, server, stored, presence, leaving, sent>>

BeginAccept(p, t) ==
  /\ server = "up" /\ repository = "postgres" /\ ~ Busy(p)
  /\ t \in Used /\ trades[t].receiver = p /\ trades[t].status = "REQUESTED"
  /\ \A q \in Parties(t) : Reachable(q)
  /\ open' = open \cup {<<"accept", p, t>>}
  /\ UNCHANGED <<repository, server, stored, presence, leaving, sent>>

(* The commit, or a serialization conflict whose retry finds the trade     *)
(* refused.                                                                *)
Commit(c) ==
  /\ c \in open
  /\ open' = open \ {c}
  /\ \/ c[1] = "request" /\ NewTrade(c[2], c[3])
     \/ c[1] = "accept" /\ Activate(c[2], c[3])
     \/ UNCHANGED stored
  /\ UNCHANGED <<repository, server, presence, leaving, sent>>

-----------------------------------------------------------------------------
(* updateTradeOffer: the player's offer is taken back and the new one put  *)
(* in escrow.  `into' gives the chosen entries the ids they have there: a  *)
(* whole entry keeps its own, a part of a stack gets a new one.            *)
Covers(es, quantity) == \A e \in DOMAIN quantity : quantity[e] <= es[e].quantity

Funds(p, T, amount) == coins[p] + CoinsIn(T, p) >= amount

EscrowIds(es, quantity) ==
  {into \in [DOMAIN quantity -> EntryId] :
     /\ \A e \in DOMAIN quantity :
          IF quantity[e] = es[e].quantity THEN into[e] = e ELSE es[into[e]] = NoEntry
     /\ \A e, d \in DOMAIN quantity : into[e] = into[d] => e = d}

Escrow(es, quantity, into) ==
  [e \in EntryId |->
     IF \E d \in DOMAIN quantity : into[d] = e
     THEN LET d == CHOOSE d \in DOMAIN quantity : into[d] = e
          IN  [es[d] EXCEPT !.quantity = quantity[d], !.place = "TRADE_ESCROW"]
     ELSE IF e \in DOMAIN quantity
          THEN [es[e] EXCEPT !.quantity = @ - quantity[e]]
          ELSE es[e]]

Revised(trade, p, items, amount) ==
  [trade EXCEPT !.items = {i \in @ : i.player # p} \cup items,
                !.coins[p] = amount,
                !.revision = @ + 1,
                !.confirmed = [q \in Player |-> Unconfirmed]]

UpdateTradeOffer(p, t, amount) ==
  /\ server = "up"
  /\ t \in Used /\ p \in Parties(t) /\ trades[t].status = "ACTIVE"
  /\ SumOver([u \in Used |-> trades[u].revision], Used) < MaxUpdates
  /\ Funds(p, {t}, amount)
  /\ LET es == Returned({t}, {p}) IN
     \E S \in SUBSET {e \in EntryId : Owned(es, e, p, "INVENTORY")} :
     \E quantity \in [S -> Quantity] :
     \E into \in EscrowIds(es, quantity) :
       LET after == Escrow(es, quantity, into)
           items == {[player |-> p, entry |-> into[e], quantity |-> quantity[e]] : e \in S}
       IN  /\ Covers(es, quantity)
           /\ Persisted(after, p)
           /\ entries' = after
           /\ trades' = [trades EXCEPT ![t] = Revised(@, p, items, amount)]
  /\ coins' = [coins EXCEPT ![p] = @ + CoinsIn({t}, p) - amount]
  /\ reserved' = [reserved EXCEPT ![p] = @ - CoinsIn({t}, p) + amount]
  /\ agreed' = [q \in Player |-> IF q \in Parties(t) THEN NoOffer ELSE agreed[q]]
  /\ UNCHANGED <<repository, server, memory>>

-----------------------------------------------------------------------------
(* A participant confirms the trade it is shown.                           *)
SendConfirmation(p, t) ==
  /\ server = "up" /\ presence[p] # "away" /\ sent[p] = NoMessage
  /\ t \in Used /\ p \in Parties(t) /\ trades[t].status = "ACTIVE"
  /\ sent' = [sent EXCEPT ![p] =
       [trade |-> t, revision |-> trades[t].revision, offer |-> Offer(t)]]
  /\ UNCHANGED <<repository, server, stored, presence, open, leaving>>

(* executeTrade: what it checks, and what the two players have after it.   *)
Intact(t) ==
  /\ \A i \in trades[t].items :
       /\ Owned(entries, i.entry, i.player, "TRADE_ESCROW")
       /\ entries[i.entry].quantity = i.quantity
  /\ \A p \in Parties(t) : reserved[p] >= trades[t].coins[p]

Other(t, p) == IF p = trades[t].requester THEN trades[t].receiver ELSE trades[t].requester

Swapped(t) ==
  Deliver(entries, [e \in {i.entry : i \in trades[t].items} |-> Other(t, entries[e].owner)])

Refused(t) == ~ Intact(t) \/ \E first \in Parties(t) : ~ Persisted(Swapped(t), first)

ExecuteTrade(t, confirmed) ==
  /\ Intact(t)
  /\ \E first \in Parties(t) : Persisted(Swapped(t), first)
  /\ entries' = Swapped(t)
  /\ reserved' = [p \in Player |->
       IF p \in Parties(t) THEN reserved[p] - trades[t].coins[p] ELSE reserved[p]]
  /\ coins' = [p \in Player |->
       IF p \in Parties(t) THEN coins[p] + trades[t].coins[Other(t, p)] ELSE coins[p]]
  /\ trades' = [trades EXCEPT ![t] =
       [@ EXCEPT !.status = "COMPLETED", !.confirmed = confirmed,
                 !.items = {}, !.coins = [p \in Player |-> 0]]]

Current(t, revision) == revision = trades[t].revision

(* confirmTrade: a confirmation of an earlier revision is refused; the     *)
(* second one of the current revision executes the trade, unless that      *)
(* throws, which takes the confirmation back.                              *)
ConfirmTrade(p) ==
  /\ server = "up" /\ sent[p] # NoMessage
  /\ LET t == sent[p].trade
         revision == sent[p].revision
         confirmed == [trades[t].confirmed EXCEPT ![p] = revision]
         accepted == trades[t].status = "ACTIVE" /\ Current(t, revision)
         complete == \A q \in Parties(t) : confirmed[q] = revision
     IN  \/ ~ accepted /\ UNCHANGED stored
         \/ accepted /\ complete /\ Refused(t) /\ UNCHANGED stored
         \/ /\ accepted
            /\ agreed' = [agreed EXCEPT ![p] = sent[p].offer]
            /\ \/ complete /\ ExecuteTrade(t, confirmed)
               \/ /\ ~ complete
                  /\ trades' = [trades EXCEPT ![t].confirmed = confirmed]
                  /\ UNCHANGED <<entries, coins, reserved>>
  /\ sent' = [sent EXCEPT ![p] = NoMessage]
  /\ UNCHANGED <<repository, server, presence, open, leaving>>

-----------------------------------------------------------------------------
(* closeTrade: both offers are taken back.  Only a completed trade is left *)
(* alone; one already closed gets the other status.                        *)
Closable(t) == trades[t].status # "COMPLETED"

Close(T, status) ==
  /\ entries' = Returned(T, Player)
  /\ coins' = [p \in Player |-> coins[p] + CoinsIn(T, p)]
  /\ reserved' = [p \in Player |-> reserved[p] - CoinsIn(T, p)]
  /\ trades' = [t \in TradeId |->
       IF t \in T
       THEN [trades[t] EXCEPT !.status = status, !.items = {},
               !.coins = [p \in Player |-> 0],
               !.confirmed = [p \in Player |-> Unconfirmed]]
       ELSE trades[t]]
  /\ agreed' = [p \in Player |->
       IF \E t \in T : IsOpen(t) /\ p \in Parties(t) THEN NoOffer ELSE agreed[p]]

CanClose(T) ==
  /\ \A p \in Player : reserved[p] >= CoinsIn(T, p)
  /\ LET es == Returned(T, Player) IN \A p \in Player : Persisted(es, p)

(* declineTrade and cancelTrade, by either participant: which of them asks *)
(* makes no difference to what is done.                                    *)
CloseTrade(t, status) ==
  /\ server = "up" /\ t \in Used
  /\ Closable(t) /\ CanClose({t}) /\ Close({t}, status)
  /\ UNCHANGED <<repository, server, memory>>

-----------------------------------------------------------------------------
(* RoomManager's use of setAvailability: a connection, with or without a   *)
(* fight to come back to, and the start and end of a fight.  Whether an    *)
(* absent player is locked is not kept: its next connection decides that.  *)
Connect(p) ==
  /\ server = "up" /\ presence[p] = "away"
  /\ \E now \in {"here", "fighting"} : presence' = [presence EXCEPT ![p] = now]
  /\ UNCHANGED <<repository, server, stored, open, leaving, sent>>

StartFight(p) ==
  /\ server = "up" /\ presence[p] = "here"
  /\ presence' = [presence EXCEPT ![p] = "fighting"]
  /\ UNCHANGED <<repository, server, stored, open, leaving, sent>>

EndFight(p) ==
  /\ server = "up" /\ presence[p] = "fighting"
  /\ presence' = [presence EXCEPT ![p] = "here"]
  /\ UNCHANGED <<repository, server, stored, open, leaving, sent>>

Disconnect(p) ==
  /\ server = "up" /\ presence[p] # "away"
  /\ presence' = [presence EXCEPT ![p] = "away"]
  /\ leaving' = leaving \cup {<<p, "read">>}
  /\ UNCHANGED <<repository, server, stored, open, sent>>

(* cancelTradesForDisconnect: the player's open trades are read, and then  *)
(* cancelled one by one; a cancellation that throws ends the loop.         *)
ReadForDisconnect(p) ==
  /\ server = "up" /\ <<p, "read">> \in leaving
  /\ leaving' = (leaving \ {<<p, "read">>}) \cup {<<p, t>> : t \in OpenTradesOf(p)}
  /\ UNCHANGED <<repository, server, stored, presence, open, sent>>

CancelForDisconnect(p, t) ==
  /\ server = "up" /\ <<p, t>> \in leaving
  /\ IF ~ Closable(t)
     THEN leaving' = leaving \ {<<p, t>>} /\ UNCHANGED stored
     ELSE IF CanClose({t})
     THEN leaving' = leaving \ {<<p, t>>} /\ Close({t}, "CANCELLED")
     ELSE leaving' = {c \in leaving : c[1] # p \/ c[2] = "read"} /\ UNCHANGED stored
  /\ UNCHANGED <<repository, server, presence, open, sent>>

-----------------------------------------------------------------------------
Crash ==
  /\ server = "up"
  /\ server' = "starting"
  /\ presence' = [p \in Player |-> "away"]
  /\ open' = {} /\ leaving' = {}
  /\ sent' = [p \in Player |-> NoMessage]
  /\ UNCHANGED <<repository, stored>>

(* cleanupOrphanedTrades, awaited before the server listens: one           *)
(* transaction for all open trades.  When it throws the process ends and   *)
(* is started again.                                                       *)
Startup ==
  /\ server = "starting"
  /\ LET orphans == {t \in TradeId : IsOpen(t)} IN
     IF CanClose(orphans)
     THEN server' = "up" /\ Close(orphans, "CANCELLED")
     ELSE UNCHANGED <<server, stored>>
  /\ UNCHANGED <<repository, memory>>

Next ==
  \/ \E p, q \in Player : RequestTrade(p, q) \/ BeginRequest(p, q)
  \/ \E p \in Player, t \in TradeId : AcceptTrade(p, t) \/ BeginAccept(p, t)
  \/ \E c \in open : Commit(c)
  \/ \E p \in Player, t \in TradeId, amount \in CoinOffer : UpdateTradeOffer(p, t, amount)
  \/ \E p \in Player, t \in TradeId : SendConfirmation(p, t)
  \/ \E p \in Player : ConfirmTrade(p)
  \/ \E t \in TradeId, status \in {"CANCELLED", "DECLINED"} : CloseTrade(t, status)
  \/ \E p \in Player :
       Connect(p) \/ StartFight(p) \/ EndFight(p) \/ Disconnect(p) \/ ReadForDisconnect(p)
  \/ \E p \in Player, t \in TradeId : CancelForDisconnect(p, t)
  \/ Crash \/ Startup

Spec == Init /\ [][Next]_vars

(* The steps the server takes by itself once they are due.                 *)
Fairness ==
  /\ WF_vars(Startup)
  /\ WF_vars(\E c \in open : Commit(c))
  /\ \A p \in Player :
       /\ WF_vars(ReadForDisconnect(p))
       /\ WF_vars(\E t \in TradeId : CancelForDisconnect(p, t))

FairSpec == Spec /\ Fairness

-----------------------------------------------------------------------------
(* Type correctness; no wallet and no reserve is ever negative.            *)
TypeOK ==
  /\ repository \in Repositories
  /\ server \in {"up", "starting"}
  /\ entries \in [EntryId -> EntryRecord \cup {NoEntry}]
  /\ coins \in [Player -> Nat]
  /\ reserved \in [Player -> Nat]
  /\ trades \in [TradeId -> TradeRecord \cup {NoTrade}]
  /\ presence \in [Player -> Presence]

OneOpenTrade == \A p \in Player : Cardinality(OpenTradesOf(p)) <= 1

(* The escrow is exactly what the open trades offer: every offered item is *)
(* in its owner's escrow in that quantity, for that one trade, nothing     *)
(* else is in escrow, and the reserve is the sum of the offered coins of   *)
(* the one open trade a player can be in.  No order of requests, updates,  *)
(* closings, disconnects, swaps and restarts strands or doubles an offer.  *)
EscrowMatchesOffers ==
  /\ OneOpenTrade
  /\ \A p \in Player : reserved[p] = CoinsIn(TradeId, p)
  /\ \A t \in Used : \A i \in trades[t].items :
       /\ IsOpen(t) /\ i.player \in Parties(t)
       /\ Owned(entries, i.entry, i.player, "TRADE_ESCROW")
       /\ entries[i.entry].quantity = i.quantity
  /\ \A e \in EntryId :
       entries[e] # NoEntry /\ entries[e].place = "TRADE_ESCROW" =>
         \E t \in Used : \E i \in trades[t].items :
           /\ i.entry = e
           /\ \A u \in Used : \A j \in trades[u].items : j.entry = e => u = t /\ j = i

(* Trading moves coins and items and never makes or destroys any: the      *)
(* merging of stacks, the splitting of offers and both directions of a     *)
(* swap keep the sum of every item and of the coins.                       *)
AmountOf(es, item) ==
  SumOver([e \in EntryId |->
             IF es[e] # NoEntry /\ es[e].item = item THEN es[e].quantity ELSE 0], EntryId)

NothingIsMadeOrLost ==
  /\ SumOver(coins, Player) + SumOver(reserved, Player) = SumOver(InitialCoins, Player)
  /\ \A item \in Item : AmountOf(entries, item) = AmountOf(InitialEntries, item)

(* A trade completes only on the two offers that both players were shown   *)
(* when they confirmed, however late their confirmations arrive: no offer  *)
(* can be changed under a confirmation.                                    *)
SwapIsAgreed ==
  [][\A t \in Used :
       trades[t].status = "ACTIVE" /\ trades'[t].status = "COMPLETED" =>
         \A p \in Parties(t) : agreed'[p] = Offer(t)]_vars

(* A player who stays away does not keep the other one in a trade: with    *)
(* the memory repository, whose transactions do not overlap the disconnect *)
(* (EconomyService.test.ts, "disconnect cancels trade"), the open trade of *)
(* an absent player is always about to be read or cancelled.               *)
AbsenceIsHandled ==
  repository = "memory" /\ server = "up" =>
    \A p \in Player : \A t \in OpenTradesOf(p) :
      presence[p] = "away" => <<p, "read">> \in leaving \/ <<p, t>> \in leaving

(* docs/STAGING.md, of a restart: "Open Trade escrow is returned."         *)
RestartReturnsEscrow ==
  server = "starting" ~>
    /\ server = "up"
    /\ \A e \in EntryId : entries[e] # NoEntry => entries[e].place = "INVENTORY"

=============================================================================
