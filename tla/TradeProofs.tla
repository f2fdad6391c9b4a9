---------------------------- MODULE TradeProofs ----------------------------
(***************************************************************************)
(* For any number of players, trades and items, under both repositories: a *)
(* trade completes only on the offers both players were shown (Agreement), *)
(* and the escrow is exactly what the open trades offer (Escrows), so that *)
(* no item and no coin is made or lost and, where transactions do not      *)
(* overlap, nobody who stays away keeps another player in a trade.         *)
(*                                                                         *)
(* The players' goods do not matter for the agreement; the agreement does  *)
(* matter for the goods: an offer can be taken back as a whole because its *)
(* player is in no other open trade.                                       *)
(***************************************************************************)
EXTENDS DirectTrade, FiniteSumsProofs

TradesOK ==
  /\ trades \in [TradeId -> TradeRecord \cup {NoTrade}]
  /\ agreed = [p \in Player |-> agreed[p]]

(* A player is in one open trade at most, which is why one record of what  *)
(* each player agreed to is enough.                                        *)
Single == \A p \in Player : \A t, u \in OpenTradesOf(p) : t = u

(* A recorded confirmation of the current revision is of the offers that   *)
(* stand: every change of an offer raises the revision.                    *)
Confirmed ==
  \A t \in Used : IsOpen(t) =>
    \A p \in Parties(t) : trades[t].confirmed[p] = trades[t].revision => agreed[p] = Offer(t)

Stored == TradesOK /\ Single /\ Confirmed

(* A confirmation under way is of a trade its sender takes part in, and if *)
(* it names the current revision it is of the offers that stand.           *)
Shows(m, t) ==
  IsOpen(t) /\ m.revision = trades[t].revision => m.offer = Offer(t)

Shown ==
  /\ sent = [p \in Player |-> sent[p]]
  /\ \A p \in Player : sent[p] # NoMessage =>
       /\ sent[p].trade \in Used /\ p \in Parties(sent[p].trade)
       /\ sent[p].revision \in Nat /\ sent[p].revision <= trades[sent[p].trade].revision
       /\ Shows(sent[p], sent[p].trade)

(* What waits for its commit, and for its turn after a disconnect.         *)
Waiting ==
  /\ \A c \in open : \/ \E p, q \in Player : c = <<"request", p, q>>
                     \/ \E p \in Player, t \in TradeId : c = <<"accept", p, t>>
  /\ \A p \in Player, t \in TradeId : <<p, t>> \in leaving => t \in Used

Agreement == Stored /\ Shown /\ Waiting

(* What every step but the last confirmation keeps.                        *)
NoneCompletes ==
  \A t \in Used : trades[t].status = "ACTIVE" => trades'[t].status # "COMPLETED"

-----------------------------------------------------------------------------
LEMMA UsedIsRecord ==
  ASSUME TradesOK
  PROVE  /\ Used = {t \in TradeId : trades[t] \in TradeRecord}
         /\ \A t \in Used : trades[t] \in TradeRecord /\ t \in TradeId /\ Parties(t) \subseteq Player
BY NullAssumption DEF Used, TradesOK, TradeRecord, Parties

(* One trade changes and stays the trade of its parties: the others, and   *)
(* the confirmations under way for them, are as they were.                 *)
LEMMA OneTradeChanges ==
  ASSUME Stored, Shown, NEW t \in Used, NEW r \in TradeRecord,
         trades' = [trades EXCEPT ![t] = r], sent' = [p \in Player |-> sent'[p]],
         \A p \in Player : sent'[p] \in {sent[p], NoMessage},
         r.requester = trades[t].requester, r.receiver = trades[t].receiver,
         r.status \in {"REQUESTED", "ACTIVE"} => IsOpen(t),
         r.revision >= trades[t].revision,
         r.status \in {"REQUESTED", "ACTIVE"} /\ r.revision = trades[t].revision =>
           r.items = trades[t].items /\ r.coins = trades[t].coins,
         agreed' = [p \in Player |-> agreed'[p]],
         \A p \in Player \ Parties(t) : agreed'[p] = agreed[p],
         ~ IsOpen(t) => UNCHANGED agreed,
         r.status \in {"REQUESTED", "ACTIVE"} =>
           \A p \in Parties(t) : r.confirmed[p] = r.revision => agreed'[p] = Offer(t)'
  PROVE  Stored' /\ Shown' /\ Used' = Used
<1>0. /\ t \in TradeId /\ trades \in [TradeId -> TradeRecord \cup {NoTrade}]
      /\ trades[t] \in TradeRecord /\ \A u \in Used : trades[u] \in TradeRecord
  BY UsedIsRecord DEF Stored, TradesOK
<1>1. trades'[t] = r /\ \A u \in TradeId \ {t} : trades'[u] = trades[u]
  BY <1>0
<1>2. TradesOK'
  BY <1>0 DEF TradesOK
<1>3. Used' = Used
  BY <1>0, <1>1, NullAssumption DEF Used
<1>4. \A u \in Used \ {t} : (IsOpen(u)' <=> IsOpen(u)) /\ Parties(u)' = Parties(u) /\ Offer(u)' = Offer(u)
  BY <1>0, <1>1, <1>3 DEF IsOpen, Parties, Offer, Used
<1>5. Parties(t)' = Parties(t) /\ (IsOpen(t)' <=> r.status \in {"REQUESTED", "ACTIVE"})
  BY <1>1, <1>3 DEF Parties, IsOpen
<1>6. \A p \in Player : OpenTradesOf(p)' \subseteq OpenTradesOf(p)
  BY <1>3, <1>4, <1>5 DEF OpenTradesOf, IsOpen
<1>7. Single'
  BY <1>6 DEF Single, Stored
<1>8. Confirmed'
  <2> SUFFICES ASSUME NEW u \in Used', IsOpen(u)', NEW p \in Parties(u)',
                      trades'[u].confirmed[p] = trades'[u].revision
               PROVE  agreed'[p] = Offer(u)'
    BY DEF Confirmed
  <2>1. CASE u = t
    BY <2>1, <1>1, <1>5
  <2>2. CASE u # t
    <3>1. u \in Used /\ IsOpen(u) /\ p \in Parties(u) /\ Offer(u)' = Offer(u) /\ trades'[u] = trades[u]
      BY <2>2, <1>1, <1>3, <1>4 DEF Used
    <3>2. p \in Player
      BY <3>1, UsedIsRecord DEF Stored
    <3>3. agreed[p] = Offer(u)
      BY <3>1 DEF Stored, Confirmed
    <3>4. ~ (IsOpen(t) /\ p \in Parties(t))
      BY <2>2, <3>1, <3>2, <1>0 DEF Stored, Single, OpenTradesOf, Used
    <3> QED  BY <3>1, <3>2, <3>3, <3>4
  <2> QED  BY <2>1, <2>2
<1>9. Shown'
  <2> SUFFICES ASSUME NEW p \in Player, NEW m, m = sent'[p], m = sent[p], m # NoMessage
               PROVE  /\ m.trade \in Used' /\ p \in Parties(m.trade)'
                      /\ m.revision \in Nat /\ m.revision <= trades'[m.trade].revision
                      /\ Shows(m, m.trade)'
    BY DEF Shown
  <2>1. /\ m.trade \in Used /\ p \in Parties(m.trade)
        /\ m.revision \in Nat /\ m.revision <= trades[m.trade].revision
        /\ Shows(m, m.trade)
    BY DEF Shown
  <2>2. CASE m.trade = t
    <3>1. trades[t].revision \in Nat /\ r.revision \in Nat
      BY <1>0 DEF TradeRecord
    <3>2. Offer(t)' = [items |-> r.items, coins |-> r.coins]
      BY <1>1 DEF Offer
    <3> QED  BY <2>1, <2>2, <3>1, <3>2, <1>1, <1>3, <1>5 DEF Shows, Offer
  <2>3. CASE m.trade # t
    BY <2>1, <2>3, <1>1, <1>3, <1>4, <1>0 DEF Shows, Used
  <2> QED  BY <2>2, <2>3
<1> QED
  BY <1>2, <1>3, <1>7, <1>8, <1>9 DEF Stored

LEMMA UsedOfParty ==
  ASSUME NEW p \in Player, NEW t \in TradeId, Stored, IsOpen(t), p \in Parties(t)
  PROVE  OpenTradesOf(p) = {t}
BY DEF Stored, Single, OpenTradesOf

(* requestTrade: the players are in no open trade, so the new one is their *)
(* only one.                                                               *)
LEMMA NewTradeStep ==
  ASSUME Stored, Shown, NEW p \in Player, NEW q \in Player, NewTrade(p, q), UNCHANGED sent
  PROVE  Stored' /\ Shown' /\ Used \subseteq Used' /\ NoneCompletes
<1> DEFINE r == [requester |-> p, receiver |-> q, status |-> "REQUESTED", revision |-> 0,
                 confirmed |-> [x \in Player |-> Unconfirmed],
                 items |-> {}, coins |-> [x \in Player |-> 0]]
<1>1. PICK t \in TradeId \ Used : trades' = [trades EXCEPT ![t] = r]
  BY DEF NewTrade
<1>2. r \in TradeRecord
  BY DEF TradeRecord, TradeStatus, Unconfirmed
<1>3. r.requester = p /\ r.receiver = q /\ r.revision = 0 /\ \A x \in Player : r.confirmed[x] = -1
  BY DEF Unconfirmed
<1> HIDE DEF r
<1>4. /\ trades \in [TradeId -> TradeRecord \cup {NoTrade}] /\ trades'[t] = r
      /\ \A u \in TradeId \ {t} : trades'[u] = trades[u]
      /\ agreed' = [agreed EXCEPT ![p] = NoOffer, ![q] = NoOffer]
  BY <1>1 DEF Stored, TradesOK, NewTrade
<1>5. TradesOK'
  BY <1>1, <1>2, <1>4 DEF Stored, TradesOK
<1>6. Used' = Used \cup {t} /\ t \notin Used
  BY <1>2, <1>4, NullAssumption DEF Used
<1>7. \A u \in Used : /\ trades'[u] = trades[u] /\ (IsOpen(u)' <=> IsOpen(u))
                      /\ Parties(u)' = Parties(u) /\ Offer(u)' = Offer(u)
  BY <1>4, <1>6 DEF IsOpen, Parties, Offer, Used
<1>8. Parties(t)' = {p, q}
  BY <1>3, <1>4 DEF Parties
<1>9. OpenTradesOf(p) = {} /\ OpenTradesOf(q) = {}
  BY NullAssumption DEF NewTrade, Unengaged, OpenTradesOf
<1>10. Single'
  <2> SUFFICES ASSUME NEW x \in Player, NEW u \in TradeId, NEW v \in TradeId,
                      u \in Used', IsOpen(u)', x \in Parties(u)',
                      v \in Used', IsOpen(v)', x \in Parties(v)'
               PROVE  u = v
    BY DEF Single, OpenTradesOf, IsOpen
  <2>1. CASE u \in Used /\ v \in Used
    BY <2>1, <1>7 DEF Stored, Single, OpenTradesOf
  <2>2. ASSUME NEW w \in Used, IsOpen(w)', x \in Parties(w)'
        PROVE  x # p /\ x # q
    BY <2>2, <1>7, <1>9 DEF OpenTradesOf, Used
  <2>3. CASE u = t
    BY <2>2, <2>3, <1>6, <1>8
  <2>4. CASE v = t
    BY <2>2, <2>4, <1>6, <1>8
  <2> QED  BY <2>1, <2>3, <2>4, <1>6
<1>11. Confirmed'
  <2> SUFFICES ASSUME NEW u \in Used', IsOpen(u)', NEW x \in Parties(u)',
                      trades'[u].confirmed[x] = trades'[u].revision
               PROVE  agreed'[x] = Offer(u)'
    BY DEF Confirmed
  <2>1. u # t
    <3>1. CASE u = t
      <4>1. x \in Player
        BY <3>1, <1>8
      <4> QED  BY <3>1, <4>1, <1>3, <1>4
    <3> QED  BY <3>1
  <2>2. u \in Used /\ IsOpen(u) /\ x \in Parties(u) /\ Offer(u)' = Offer(u) /\ trades'[u] = trades[u]
    BY <2>1, <1>6, <1>7
  <2>3. x \in Player /\ x # p /\ x # q
    BY <2>2, <1>9, UsedIsRecord DEF Stored, OpenTradesOf
  <2>4. agreed'[x] = agreed[x]
    BY <2>3, <1>4 DEF Stored, TradesOK
  <2> QED  BY <2>2, <2>4 DEF Stored, Confirmed
<1>12. Shown'
  <2> SUFFICES ASSUME NEW x \in Player, NEW m, m = sent[x], m # NoMessage
               PROVE  /\ m.trade \in Used' /\ x \in Parties(m.trade)'
                      /\ m.revision \in Nat /\ m.revision <= trades'[m.trade].revision
                      /\ Shows(m, m.trade)'
    BY DEF Shown
  <2>1. /\ m.trade \in Used /\ x \in Parties(m.trade)
        /\ m.revision \in Nat /\ m.revision <= trades[m.trade].revision
        /\ Shows(m, m.trade)
    BY DEF Shown
  <2> QED  BY <2>1, <1>6, <1>7 DEF Shows
<1>13. NoneCompletes
  BY <1>7 DEF NoneCompletes
<1> QED
  BY <1>5, <1>6, <1>10, <1>11, <1>12, <1>13 DEF Stored

(* acceptTrade: a requested trade, which nobody has confirmed, is open now *)
(* as before.                                                              *)
LEMMA ActivateStep ==
  ASSUME Stored, Shown, NEW p \in Player, NEW t \in TradeId, Activate(p, t), UNCHANGED sent
  PROVE  Stored' /\ Shown' /\ Used \subseteq Used' /\ NoneCompletes
<1> DEFINE r == [trades[t] EXCEPT !.status = "ACTIVE"]
<1>1. /\ t \in Used /\ IsOpen(t) /\ trades[t] \in TradeRecord /\ trades[t].status = "REQUESTED"
      /\ trades' = [trades EXCEPT ![t] = r] /\ UNCHANGED agreed
      /\ trades \in [TradeId -> TradeRecord \cup {NoTrade}] /\ Parties(t) \subseteq Player
  BY UsedIsRecord DEF Activate, IsOpen, Stored, TradesOK
<1>2. /\ r \in TradeRecord /\ r.status = "ACTIVE"
      /\ r.requester = trades[t].requester /\ r.receiver = trades[t].receiver
      /\ r.revision = trades[t].revision /\ r.items = trades[t].items /\ r.coins = trades[t].coins
      /\ r.confirmed = trades[t].confirmed
  BY <1>1 DEF TradeRecord, TradeStatus
<1> HIDE DEF r
<1>3. trades'[t] = r /\ \A u \in TradeId \ {t} : trades'[u] = trades[u]
  BY <1>1
<1>4. Offer(t)' = Offer(t)
  BY <1>2, <1>3 DEF Offer
<1>5. \A x \in Parties(t) : r.confirmed[x] = r.revision => agreed'[x] = Offer(t)'
  BY <1>1, <1>2, <1>4 DEF Stored, Confirmed
<1>6. agreed' = [x \in Player |-> agreed'[x]] /\ \A x \in Player : agreed'[x] = agreed[x]
  BY <1>1 DEF Stored, TradesOK
<1>7. r.revision >= trades[t].revision
  BY <1>1, <1>2 DEF TradeRecord
<1>8. sent' = [x \in Player |-> sent'[x]] /\ \A x \in Player : sent'[x] \in {sent[x], NoMessage}
  BY DEF Shown
<1>9. Stored' /\ Shown' /\ Used' = Used
  BY <1>1, <1>2, <1>5, <1>6, <1>7, <1>8, OneTradeChanges
<1>10. NoneCompletes
  BY <1>2, <1>3 DEF NoneCompletes, Used
<1> QED
  BY <1>9, <1>10

-----------------------------------------------------------------------------
(* updateTradeOffer: a new revision, which nobody has confirmed.           *)
LEMMA UpdateTradeOfferStep ==
  ASSUME Stored, Shown, NEW p \in Player, NEW t \in TradeId, NEW amount \in CoinOffer,
         UpdateTradeOffer(p, t, amount)
  PROVE  Stored' /\ Shown' /\ Used' = Used /\ NoneCompletes
<1>1. /\ t \in Used /\ trades[t] \in TradeRecord /\ trades[t].status = "ACTIVE" /\ IsOpen(t)
      /\ trades \in [TradeId -> TradeRecord \cup {NoTrade}] /\ amount \in Nat
  BY UsedIsRecord, OfferAssumption DEF UpdateTradeOffer, Stored, TradesOK, IsOpen
<1>2. \E S \in SUBSET {e \in EntryId : Owned(Returned({t}, {p}), e, p, "INVENTORY")} :
      \E quantity \in [S -> Quantity] :
      \E into \in EscrowIds(Returned({t}, {p}), quantity) :
        LET es == Returned({t}, {p})
            after == Escrow(es, quantity, into)
            items == {[player |-> p, entry |-> into[e], quantity |-> quantity[e]] : e \in S}
        IN  /\ Covers(es, quantity)
            /\ Persisted(after, p)
            /\ entries' = after
            /\ trades' = [trades EXCEPT ![t] = Revised(@, p, items, amount)]
  BY Zenon DEF UpdateTradeOffer
<1>3. PICK S \in SUBSET {e \in EntryId : Owned(Returned({t}, {p}), e, p, "INVENTORY")} :
      \E quantity \in [S -> Quantity] :
      \E into \in EscrowIds(Returned({t}, {p}), quantity) :
        trades' = [trades EXCEPT ![t] = Revised(trades[t], p,
          {[player |-> p, entry |-> into[e], quantity |-> quantity[e]] : e \in S}, amount)]
  BY <1>2, Zenon
<1>4. PICK quantity \in [S -> Quantity] :
      \E into \in EscrowIds(Returned({t}, {p}), quantity) :
          trades' = [trades EXCEPT ![t] = Revised(trades[t], p,
            {[player |-> p, entry |-> into[e], quantity |-> quantity[e]] : e \in S}, amount)]
  BY <1>3
<1>5. PICK into \in EscrowIds(Returned({t}, {p}), quantity) :
          trades' = [trades EXCEPT ![t] = Revised(trades[t], p,
            {[player |-> p, entry |-> into[e], quantity |-> quantity[e]] : e \in S}, amount)]
  BY <1>4
<1> DEFINE items == {[player |-> p, entry |-> into[e], quantity |-> quantity[e]] : e \in S}
           r == Revised(trades[t], p, items, amount)
<1>6. items \subseteq OfferItem
  <2> SUFFICES ASSUME NEW e \in S
               PROVE  [player |-> p, entry |-> into[e], quantity |-> quantity[e]] \in OfferItem
    BY Zenon
  <2>1. into[e] \in EntryId
    <3>1. into \in [DOMAIN quantity -> EntryId] /\ DOMAIN quantity = S
      BY DEF EscrowIds
    <3> QED  BY <3>1
  <2>2. quantity[e] \in Nat \ {0}
    BY OfferAssumption
  <2> QED  BY <2>1, <2>2 DEF OfferItem
<1>7. trades' = [trades EXCEPT ![t] = Revised(trades[t], p, items, amount)]
  BY <1>5
<1> HIDE DEF items
<1>8. /\ r \in TradeRecord /\ r.requester = trades[t].requester /\ r.receiver = trades[t].receiver
      /\ r.status = "ACTIVE" /\ r.revision = trades[t].revision + 1 /\ trades[t].revision \in Nat
      /\ \A x \in Player : r.confirmed[x] = -1
  <2> DEFINE old == trades[t]
             kept == {i \in old.items : i.player # p} \cup items
  <2>1. kept \subseteq OfferItem /\ [old.coins EXCEPT ![p] = amount] \in [Player -> Nat]
        /\ old.revision \in Nat /\ old.revision + 1 \in Nat
    BY <1>1, <1>6 DEF TradeRecord
  <2>2. [q \in Player |-> Unconfirmed] \in [Player -> Nat \cup {Unconfirmed}]
    OBVIOUS
  <2>3. r = [old EXCEPT !.items = kept, !.coins = [old.coins EXCEPT ![p] = amount],
                        !.revision = old.revision + 1, !.confirmed = [q \in Player |-> Unconfirmed]]
    BY <1>1 DEF Revised, TradeRecord
  <2> HIDE DEF r, kept
  <2> QED  BY <1>1, <2>1, <2>2, <2>3 DEF TradeRecord, Unconfirmed
<1>9. trades' = [trades EXCEPT ![t] = r]
  BY <1>7
<1> HIDE DEF r
<1>10. /\ agreed' = [x \in Player |-> agreed'[x]] /\ \A x \in Player \ Parties(t) : agreed'[x] = agreed[x]
  BY DEF UpdateTradeOffer
<1>11. \A x \in Parties(t) : r.confirmed[x] # r.revision
  BY <1>1, <1>8, UsedIsRecord DEF Stored
<1>12. sent' = [x \in Player |-> sent'[x]] /\ \A x \in Player : sent'[x] \in {sent[x], NoMessage}
  BY DEF Shown, UpdateTradeOffer, memory
<1>13. r.revision >= trades[t].revision /\ r.revision # trades[t].revision
  BY <1>8
<1>14. Stored' /\ Shown' /\ Used' = Used
  BY <1>13, <1>1, <1>8, <1>9, <1>10, <1>11, <1>12, OneTradeChanges
<1>15. NoneCompletes
  BY <1>1, <1>8, <1>9 DEF NoneCompletes, Used
<1> QED
  BY <1>14, <1>15

-----------------------------------------------------------------------------
(* confirmTrade: a confirmation of the current revision is of the offers   *)
(* that stand, and the one that completes the pair finds the other's to be *)
(* of the same offers.                                                     *)
SwapIsOfAgreed ==
  \A t \in Used :
    trades[t].status = "ACTIVE" /\ trades'[t].status = "COMPLETED" =>
      \A p \in Parties(t) : agreed'[p] = Offer(t)

LEMMA ConfirmTradeStep ==
  ASSUME Stored, Shown, NEW p \in Player, ConfirmTrade(p)
  PROVE  Stored' /\ Shown' /\ Used' = Used /\ SwapIsOfAgreed
<1> SUFFICES ASSUME NEW m, m = sent[p], NEW t, t = m.trade
             PROVE  Stored' /\ Shown' /\ Used' = Used /\ SwapIsOfAgreed
  OBVIOUS
<1> DEFINE confirmed == [trades[t].confirmed EXCEPT ![p] = m.revision]
           accepted == trades[t].status = "ACTIVE" /\ Current(t, m.revision)
           complete == \A q \in Parties(t) : confirmed[q] = m.revision
<1>1. /\ t \in Used /\ p \in Parties(t) /\ m.revision \in Nat /\ Shows(m, t)
      /\ t \in TradeId /\ trades[t] \in TradeRecord /\ Parties(t) \subseteq Player
      /\ trades \in [TradeId -> TradeRecord \cup {NoTrade}]
  BY UsedIsRecord DEF ConfirmTrade, Shown, Stored, TradesOK
<1>2. sent' = [x \in Player |-> sent'[x]] /\ \A x \in Player : sent'[x] \in {sent[x], NoMessage}
  BY DEF Shown, ConfirmTrade
<1>3. CASE UNCHANGED stored
  <2>1. UNCHANGED <<trades, agreed>>
    BY <1>3 DEF stored
  <2>2. Stored' /\ Used' = Used
    BY <2>1 DEF Stored, TradesOK, Single, Confirmed, OpenTradesOf, IsOpen, Parties, Offer, Used
  <2>3. Shown'
    BY <1>2, <2>1 DEF Shown, Shows, IsOpen, Parties, Offer, Used
  <2>4. SwapIsOfAgreed
    BY <2>1 DEF SwapIsOfAgreed
  <2> QED  BY <2>2, <2>3, <2>4
<1>4. ASSUME accepted, agreed' = [agreed EXCEPT ![p] = m.offer],
             \/ /\ complete
                /\ trades' = [trades EXCEPT ![t] = [trades[t] EXCEPT !.status = "COMPLETED",
                     !.confirmed = confirmed, !.items = {}, !.coins = [x \in Player |-> 0]]]
             \/ ~ complete /\ trades' = [trades EXCEPT ![t].confirmed = confirmed]
      PROVE  Stored' /\ Shown' /\ Used' = Used /\ SwapIsOfAgreed
  <2>1. IsOpen(t) /\ m.revision = trades[t].revision /\ m.offer = Offer(t)
    BY <1>1, <1>4 DEF IsOpen, Current, Shows
  <2>2. /\ agreed' = [x \in Player |-> agreed'[x]] /\ agreed'[p] = Offer(t)
        /\ \A x \in Player \ {p} : agreed'[x] = agreed[x]
    BY <1>4, <2>1 DEF Stored, TradesOK
  <2>3. \A x \in Parties(t) : confirmed[x] = trades[t].revision => agreed'[x] = Offer(t)
    <3> SUFFICES ASSUME NEW x \in Parties(t), confirmed[x] = trades[t].revision, x # p
                 PROVE  agreed'[x] = Offer(t)
      BY <2>2
    <3>1. x \in Player /\ trades[t].confirmed[x] = trades[t].revision
      BY <1>1 DEF TradeRecord
    <3> QED  BY <1>1, <2>1, <2>2, <3>1 DEF Stored, Confirmed
  <2>4. confirmed \in [Player -> Nat \cup {Unconfirmed}]
    BY <1>1 DEF TradeRecord
  <2>5. CASE complete /\ trades' = [trades EXCEPT ![t] = [trades[t] EXCEPT !.status = "COMPLETED",
                           !.confirmed = confirmed, !.items = {}, !.coins = [x \in Player |-> 0]]]
    <3> DEFINE r == [trades[t] EXCEPT !.status = "COMPLETED", !.confirmed = confirmed, !.items = {},
                                      !.coins = [x \in Player |-> 0]]
    <3>1. \A x \in Parties(t) : agreed'[x] = Offer(t)
      BY <2>1, <2>3, <2>5
    <3> HIDE DEF confirmed
    <3>2. /\ r \in TradeRecord /\ r.status = "COMPLETED"
          /\ r.requester = trades[t].requester /\ r.receiver = trades[t].receiver
          /\ r.revision = trades[t].revision /\ r.revision \in Nat
      BY <1>1, <2>4 DEF TradeRecord, TradeStatus
    <3>3. trades' = [trades EXCEPT ![t] = r]
      BY <2>5
    <3> HIDE DEF r
    <3>4. /\ r.revision >= trades[t].revision /\ r.status \notin {"REQUESTED", "ACTIVE"}
          /\ \A x \in Player \ Parties(t) : agreed'[x] = agreed[x]
      BY <1>1, <2>2, <3>2
    <3>5. Stored' /\ Shown' /\ Used' = Used
      BY <1>1, <1>2, <2>1, <2>2, <3>2, <3>3, <3>4, OneTradeChanges
    <3>6. SwapIsOfAgreed
      BY <1>1, <3>1, <3>3 DEF SwapIsOfAgreed, Used
    <3> QED  BY <3>5, <3>6
  <2>6. CASE trades' = [trades EXCEPT ![t].confirmed = confirmed]
    <3> DEFINE r == [trades[t] EXCEPT !.confirmed = confirmed]
    <3> HIDE DEF confirmed
    <3>1. /\ r \in TradeRecord /\ r.status = trades[t].status /\ r.confirmed = confirmed
          /\ r.requester = trades[t].requester /\ r.receiver = trades[t].receiver
          /\ r.revision = trades[t].revision /\ r.revision \in Nat
          /\ r.items = trades[t].items /\ r.coins = trades[t].coins
      BY <1>1, <2>4 DEF TradeRecord
    <3>2. trades' = [trades EXCEPT ![t] = r]
      BY <2>6, <1>1
    <3> HIDE DEF r
    <3>3. trades'[t] = r /\ Offer(t)' = Offer(t)
      BY <1>1, <3>1, <3>2 DEF Offer
    <3>4. \A x \in Parties(t) : r.confirmed[x] = r.revision => agreed'[x] = Offer(t)'
      BY <2>3, <3>1, <3>3
    <3>5. /\ r.revision >= trades[t].revision
          /\ \A x \in Player \ Parties(t) : agreed'[x] = agreed[x]
      BY <1>1, <2>2, <3>1
    <3>6. Stored' /\ Shown' /\ Used' = Used
      BY <1>1, <1>2, <2>1, <2>2, <3>1, <3>2, <3>4, <3>5, OneTradeChanges
    <3>7. SwapIsOfAgreed
      BY <1>1, <1>4, <3>1, <3>2 DEF SwapIsOfAgreed, Used
    <3> QED  BY <3>6, <3>7
  <2> QED  BY <1>4, <2>5, <2>6
<1> QED
  BY <1>3, <1>4 DEF ConfirmTrade, ExecuteTrade

-----------------------------------------------------------------------------
(* closeTrade, of one trade or of all orphans at once: a closed trade is   *)
(* not open, so nothing is left to agree on.                               *)
LEMMA CloseStep ==
  ASSUME Stored, Shown, NEW T \in SUBSET Used, NEW status \in {"CANCELLED", "DECLINED"},
         Close(T, status), UNCHANGED sent
  PROVE  Stored' /\ Shown' /\ Used' = Used /\ NoneCompletes
<1> DEFINE closed(t) == [trades[t] EXCEPT !.status = status, !.items = {},
                           !.coins = [p \in Player |-> 0],
                           !.confirmed = [p \in Player |-> Unconfirmed]]
<1>1. /\ trades \in [TradeId -> TradeRecord \cup {NoTrade}]
      /\ \A t \in Used : trades[t] \in TradeRecord /\ t \in TradeId /\ Parties(t) \subseteq Player
  BY UsedIsRecord DEF Stored, TradesOK
<1>2. trades' = [t \in TradeId |-> IF t \in T THEN closed(t) ELSE trades[t]]
  BY DEF Close
<1>3. ASSUME NEW t \in T
      PROVE  /\ closed(t) \in TradeRecord /\ closed(t).status = status
             /\ closed(t).requester = trades[t].requester /\ closed(t).receiver = trades[t].receiver
             /\ closed(t).revision = trades[t].revision
  <2>1. trades[t] \in TradeRecord
    BY <1>1
  <2>2. [p \in Player |-> 0] \in [Player -> Nat]
        /\ [p \in Player |-> Unconfirmed] \in [Player -> Nat \cup {Unconfirmed}]
    OBVIOUS
  <2> QED  BY <2>1, <2>2 DEF TradeRecord, TradeStatus
<1> HIDE DEF closed
<1>4. /\ \A t \in T : trades'[t] = closed(t)
      /\ \A t \in TradeId \ T : trades'[t] = trades[t]
  BY <1>1, <1>2
<1>5. TradesOK'
  BY <1>1, <1>2, <1>3 DEF TradesOK, Close
<1>6. Used' = Used
  BY <1>1, <1>3, <1>4, NullAssumption DEF Used
<1>7. \A t \in T : ~ IsOpen(t)' /\ Parties(t)' = Parties(t) /\ trades'[t].revision = trades[t].revision
  BY <1>3, <1>4 DEF IsOpen, Parties
<1>8. \A t \in Used \ T : /\ trades'[t] = trades[t] /\ (IsOpen(t)' <=> IsOpen(t))
                          /\ Parties(t)' = Parties(t) /\ Offer(t)' = Offer(t)
  BY <1>1, <1>4, <1>6 DEF IsOpen, Parties, Offer
<1>9. \A p \in Player : OpenTradesOf(p)' \subseteq OpenTradesOf(p)
  BY <1>6, <1>7, <1>8 DEF OpenTradesOf, IsOpen
<1>10. Single'
  BY <1>9 DEF Single, Stored
<1>11. Confirmed'
  <2> SUFFICES ASSUME NEW u \in Used', IsOpen(u)', NEW p \in Parties(u)',
                      trades'[u].confirmed[p] = trades'[u].revision
               PROVE  agreed'[p] = Offer(u)'
    BY DEF Confirmed
  <2>1. /\ u \in Used \ T /\ IsOpen(u) /\ p \in Parties(u) /\ Offer(u)' = Offer(u)
        /\ trades'[u] = trades[u] /\ p \in Player
    BY <1>1, <1>6, <1>7, <1>8
  <2>2. ~ \E t \in T : IsOpen(t) /\ p \in Parties(t)
    BY <2>1, <1>1 DEF Stored, Single, OpenTradesOf
  <2>3. agreed'[p] = agreed[p]
    BY <2>1, <2>2 DEF Close
  <2> QED  BY <2>1, <2>3 DEF Stored, Confirmed
<1>12. Shown'
  <2> SUFFICES ASSUME NEW p \in Player, NEW m, m = sent[p], m # NoMessage
               PROVE  /\ m.trade \in Used' /\ p \in Parties(m.trade)'
                      /\ m.revision \in Nat /\ m.revision <= trades'[m.trade].revision
                      /\ Shows(m, m.trade)'
    BY DEF Shown
  <2>1. /\ m.trade \in Used /\ p \in Parties(m.trade)
        /\ m.revision \in Nat /\ m.revision <= trades[m.trade].revision
        /\ Shows(m, m.trade)
    BY DEF Shown
  <2>2. CASE m.trade \in T
    BY <2>1, <2>2, <1>6, <1>7 DEF Shows
  <2>3. CASE m.trade \notin T
    BY <2>1, <2>3, <1>6, <1>8 DEF Shows
  <2> QED  BY <2>2, <2>3
<1>13. NoneCompletes
  BY <1>3, <1>4, <1>8 DEF NoneCompletes
<1> QED
  BY <1>5, <1>6, <1>10, <1>11, <1>12, <1>13 DEF Stored

(* What is stored stays as it is, and so do the confirmations or they are  *)
(* lost.                                                                   *)
LEMMA StoredStays ==
  ASSUME Stored, Shown, UNCHANGED stored, sent' = [p \in Player |-> sent'[p]],
         \A p \in Player : sent'[p] \in {sent[p], NoMessage}
  PROVE  Stored' /\ Shown' /\ Used' = Used /\ NoneCompletes
<1>1. UNCHANGED <<trades, agreed>>
  BY DEF stored
<1>2. Stored' /\ Used' = Used
  BY <1>1 DEF Stored, TradesOK, Single, Confirmed, OpenTradesOf, IsOpen, Parties, Offer, Used
<1>3. Shown'
  BY <1>1 DEF Shown, Shows, IsOpen, Parties, Offer, Used
<1>4. NoneCompletes
  BY <1>1 DEF NoneCompletes
<1> QED
  BY <1>2, <1>3, <1>4

LEMMA SendConfirmationStep ==
  ASSUME Stored, Shown, NEW p \in Player, NEW t \in TradeId, SendConfirmation(p, t)
  PROVE  Stored' /\ Shown' /\ Used' = Used /\ NoneCompletes
<1> DEFINE m == [trade |-> t, revision |-> trades[t].revision, offer |-> Offer(t)]
<1>1. /\ t \in Used /\ p \in Parties(t) /\ trades[t] \in TradeRecord
      /\ UNCHANGED stored /\ sent' = [sent EXCEPT ![p] = m]
  BY UsedIsRecord DEF SendConfirmation, Stored
<1>2. UNCHANGED <<trades, agreed>>
  BY <1>1 DEF stored
<1>3. Stored' /\ Used' = Used
  BY <1>2 DEF Stored, TradesOK, Single, Confirmed, OpenTradesOf, IsOpen, Parties, Offer, Used
<1>4. /\ m.trade = t /\ m.revision = trades[t].revision /\ m.revision \in Nat
      /\ m.offer = Offer(t) /\ m.revision <= m.revision
  BY <1>1 DEF TradeRecord
<1> HIDE DEF m
<1>5. sent' = [x \in Player |-> sent'[x]] /\ sent'[p] = m /\ \A x \in Player \ {p} : sent'[x] = sent[x]
  BY <1>1 DEF Shown
<1>6. Shown'
  BY <1>1, <1>2, <1>3, <1>4, <1>5 DEF Shown, Shows, IsOpen, Parties, Offer, Used
<1>7. NoneCompletes
  BY <1>2 DEF NoneCompletes
<1> QED
  BY <1>3, <1>6, <1>7

-----------------------------------------------------------------------------
(* What waits: transactions that have not committed, and cancellations.    *)
LEMMA WaitingStays ==
  ASSUME Waiting, Used \subseteq Used', open' \subseteq open,
         \A p \in Player, t \in TradeId : <<p, t>> \in leaving' => <<p, t>> \in leaving \/ t \in Used
  PROVE  Waiting'
<1> USE DEF Waiting
<1>1. \A c \in open' : \/ \E p, q \in Player : c = <<"request", p, q>>
                       \/ \E p \in Player, t \in TradeId : c = <<"accept", p, t>>
  OBVIOUS
<1>2. \A p \in Player, t \in TradeId : <<p, t>> \in leaving' => t \in Used'
  OBVIOUS
<1> QED
  BY <1>1, <1>2

Quiet == Stored' /\ Shown' /\ Used \subseteq Used' /\ Waiting' /\ NoneCompletes

LEMMA CommitStep ==
  ASSUME Agreement, NEW c \in open, Commit(c)
  PROVE  Quiet
<1>0. Stored /\ Shown /\ Waiting /\ open' = open \ {c} /\ UNCHANGED <<leaving, sent>>
  BY DEF Agreement, Commit
<1>1. CASE c[1] = "request" /\ NewTrade(c[2], c[3])
  <2>1. c[2] \in Player /\ c[3] \in Player
    BY <1>0, <1>1 DEF Waiting
  <2>2. Stored' /\ Shown' /\ Used \subseteq Used' /\ NoneCompletes
    BY <1>0, <1>1, <2>1, NewTradeStep
  <2> QED  BY <1>0, <2>2, WaitingStays DEF Quiet
<1>2. CASE c[1] = "accept" /\ Activate(c[2], c[3])
  <2>1. c[2] \in Player /\ c[3] \in TradeId
    BY <1>0, <1>2 DEF Waiting
  <2>2. Stored' /\ Shown' /\ Used \subseteq Used' /\ NoneCompletes
    BY <1>0, <1>2, <2>1, ActivateStep
  <2> QED  BY <1>0, <2>2, WaitingStays DEF Quiet
<1>3. CASE UNCHANGED stored
  <2>1. sent' = [p \in Player |-> sent'[p]] /\ \A p \in Player : sent'[p] \in {sent[p], NoMessage}
    BY <1>0 DEF Shown
  <2>2. Stored' /\ Shown' /\ Used' = Used /\ NoneCompletes
    BY <1>0, <1>3, <2>1, StoredStays
  <2> QED  BY <1>0, <2>2, WaitingStays DEF Quiet
<1> QED
  BY <1>1, <1>2, <1>3 DEF Commit

LEMMA SentStays ==
  ASSUME Shown, UNCHANGED sent
  PROVE  sent' = [p \in Player |-> sent'[p]] /\ \A p \in Player : sent'[p] \in {sent[p], NoMessage}
BY DEF Shown

LEMMA MemoryTransactions ==
  ASSUME Agreement, NEW p \in Player,
         \/ \E q \in Player : RequestTrade(p, q)
         \/ \E t \in TradeId : AcceptTrade(p, t)
  PROVE  Quiet
<1>0. Stored /\ Shown /\ Waiting /\ UNCHANGED <<open, leaving, sent>>
  BY DEF Agreement, RequestTrade, AcceptTrade, memory
<1>1. ASSUME NEW q \in Player, RequestTrade(p, q)
      PROVE  Quiet
  BY <1>0, <1>1, NewTradeStep, WaitingStays DEF RequestTrade, Quiet
<1>2. ASSUME NEW t \in TradeId, AcceptTrade(p, t)
      PROVE  Quiet
  BY <1>0, <1>2, ActivateStep, WaitingStays DEF AcceptTrade, Quiet
<1> QED
  BY <1>1, <1>2

LEMMA TransactionsBegin ==
  ASSUME Agreement, NEW p \in Player,
         \/ \E q \in Player : BeginRequest(p, q)
         \/ \E t \in TradeId : BeginAccept(p, t)
  PROVE  Quiet
<1>0. Stored /\ Shown /\ Waiting /\ UNCHANGED <<stored, leaving, sent>>
  BY DEF Agreement, BeginRequest, BeginAccept
<1>1. Stored' /\ Shown' /\ Used' = Used /\ NoneCompletes
  BY <1>0, SentStays, StoredStays
<1>2. Waiting'
  BY <1>0, <1>1 DEF Waiting, BeginRequest, BeginAccept
<1> QED
  BY <1>1, <1>2 DEF Quiet

LEMMA ClosingSteps ==
  ASSUME Agreement,
         \/ \E t \in TradeId, status \in {"CANCELLED", "DECLINED"} : CloseTrade(t, status)
         \/ \E p \in Player, t \in TradeId : CancelForDisconnect(p, t)
         \/ Startup
  PROVE  Quiet
<1>0. Stored /\ Shown /\ Waiting
  BY DEF Agreement
<1>1. ASSUME NEW t \in TradeId, NEW status \in {"CANCELLED", "DECLINED"}, CloseTrade(t, status)
      PROVE  Quiet
  <2>1. {t} \in SUBSET Used /\ Close({t}, status) /\ UNCHANGED <<open, leaving, sent>>
    BY <1>1 DEF CloseTrade, memory
  <2> QED  BY <1>0, <2>1, CloseStep, WaitingStays DEF Quiet
<1>2. ASSUME NEW p \in Player, NEW t \in TradeId, CancelForDisconnect(p, t)
      PROVE  Quiet
  <2>1. t \in Used /\ leaving' \subseteq leaving /\ UNCHANGED <<open, sent>>
    BY <1>0, <1>2 DEF CancelForDisconnect, Waiting
  <2>2. CASE Close({t}, "CANCELLED")
    <3>1. {t} \in SUBSET Used
      BY <2>1
    <3> QED  BY <1>0, <2>1, <2>2, <3>1, CloseStep, WaitingStays DEF Quiet
  <2>3. CASE UNCHANGED stored
    BY <1>0, <2>1, <2>3, SentStays, StoredStays, WaitingStays DEF Quiet
  <2> QED  BY <1>2, <2>2, <2>3 DEF CancelForDisconnect
<1>3. CASE Startup
  <2>1. UNCHANGED <<open, leaving, sent>>
    BY <1>3 DEF Startup, memory
  <2>2. CASE Close({t \in TradeId : IsOpen(t)}, "CANCELLED")
    <3>1. {t \in TradeId : IsOpen(t)} \in SUBSET Used
      BY DEF IsOpen
    <3> QED  BY <1>0, <2>1, <2>2, <3>1, CloseStep, WaitingStays DEF Quiet
  <2>3. CASE UNCHANGED stored
    BY <1>0, <2>1, <2>3, SentStays, StoredStays, WaitingStays DEF Quiet
  <2> QED  BY <1>3, <2>2, <2>3 DEF Startup
<1> QED
  BY <1>1, <1>2, <1>3

LEMMA PresenceSteps ==
  ASSUME Agreement,
         \/ \E p \in Player :
              Connect(p) \/ StartFight(p) \/ EndFight(p) \/ Disconnect(p) \/ ReadForDisconnect(p)
         \/ Crash \/ UNCHANGED vars
  PROVE  Quiet
<1>0. Stored /\ Shown /\ Waiting
  BY DEF Agreement
<1>1. /\ UNCHANGED stored /\ open' \subseteq open
      /\ sent' = sent \/ sent' = [p \in Player |-> NoMessage]
  BY DEF Connect, StartFight, EndFight, Disconnect, ReadForDisconnect, Crash, vars, memory
<1>2. sent' = [p \in Player |-> sent'[p]] /\ \A p \in Player : sent'[p] \in {sent[p], NoMessage}
  BY <1>0, <1>1, SentStays
<1>3. Stored' /\ Shown' /\ Used' = Used /\ NoneCompletes
  BY <1>0, <1>1, <1>2, StoredStays
<1>4. ASSUME NEW p \in Player, NEW t \in TradeId, <<p, t>> \in leaving'
      PROVE  <<p, t>> \in leaving \/ t \in Used
  <2>1. ASSUME NEW q \in Player, Disconnect(q)
        PROVE  <<p, t>> \in leaving
    <3>1. t # "read"
      BY NullAssumption
    <3> QED  BY <1>4, <2>1, <3>1 DEF Disconnect
  <2>2. ASSUME NEW q \in Player, ReadForDisconnect(q)
        PROVE  <<p, t>> \in leaving \/ t \in Used
    BY <1>4, <2>2 DEF ReadForDisconnect, OpenTradesOf, IsOpen
  <2>3. CASE Crash
    BY <1>4, <2>3 DEF Crash
  <2>4. CASE leaving' = leaving
    BY <1>4, <2>4
  <2> QED
    BY <2>1, <2>2, <2>3, <2>4 DEF Connect, StartFight, EndFight, vars, memory
<1> QED
  BY <1>0, <1>1, <1>3, <1>4, WaitingStays DEF Quiet

-----------------------------------------------------------------------------
LEMMA AgreementStep ==
  ASSUME Agreement, [Next]_vars
  PROVE  Agreement' /\ SwapIsOfAgreed
<1>0. Stored /\ Shown /\ Waiting
  BY DEF Agreement
<1>1. CASE Quiet
  BY <1>1 DEF Quiet, Agreement, NoneCompletes, SwapIsOfAgreed
<1>2. ASSUME NEW p \in Player, ConfirmTrade(p)
      PROVE  Agreement' /\ SwapIsOfAgreed
  <2>1. Stored' /\ Shown' /\ Used' = Used /\ SwapIsOfAgreed
    BY <1>0, <1>2, ConfirmTradeStep
  <2>2. UNCHANGED <<open, leaving>>
    BY <1>2 DEF ConfirmTrade
  <2> QED  BY <1>0, <2>1, <2>2, WaitingStays DEF Agreement
<1>3. ASSUME NEW p \in Player, NEW t \in TradeId, NEW amount \in CoinOffer, UpdateTradeOffer(p, t, amount)
      PROVE  Quiet
  <2>1. Stored' /\ Shown' /\ Used' = Used /\ NoneCompletes
    BY <1>0, <1>3, UpdateTradeOfferStep
  <2>2. UNCHANGED <<open, leaving>>
    BY <1>3 DEF UpdateTradeOffer, memory
  <2> QED  BY <1>0, <2>1, <2>2, WaitingStays DEF Quiet
<1>4. ASSUME NEW p \in Player, NEW t \in TradeId, SendConfirmation(p, t)
      PROVE  Quiet
  <2>1. Stored' /\ Shown' /\ Used' = Used /\ NoneCompletes
    BY <1>0, <1>4, SendConfirmationStep
  <2>2. UNCHANGED <<open, leaving>>
    BY <1>4 DEF SendConfirmation
  <2> QED  BY <1>0, <2>1, <2>2, WaitingStays DEF Quiet
<1>5. ASSUME NEW p \in Player, NEW q \in Player, RequestTrade(p, q) \/ BeginRequest(p, q)
      PROVE  Quiet
  BY <1>5, MemoryTransactions, TransactionsBegin
<1>6. ASSUME NEW p \in Player, NEW t \in TradeId, AcceptTrade(p, t) \/ BeginAccept(p, t)
      PROVE  Quiet
  BY <1>6, MemoryTransactions, TransactionsBegin
<1>7. ASSUME NEW c \in open, Commit(c)
      PROVE  Quiet
  BY <1>7, CommitStep
<1>8. CASE \/ \E t \in TradeId, status \in {"CANCELLED", "DECLINED"} : CloseTrade(t, status)
           \/ \E p \in Player, t \in TradeId : CancelForDisconnect(p, t)
           \/ Startup
  BY <1>1, <1>8, ClosingSteps
<1>9. CASE \/ \E p \in Player :
                Connect(p) \/ StartFight(p) \/ EndFight(p) \/ Disconnect(p) \/ ReadForDisconnect(p)
           \/ Crash \/ UNCHANGED vars
  BY <1>1, <1>9, PresenceSteps
<1> QED
  BY <1>1, <1>2, <1>3, <1>4, <1>5, <1>6, <1>7, <1>8, <1>9 DEF Next

LEMMA NothingAgreedYet ==
  ASSUME Init
  PROVE  Agreement
<1>1. Used = {}
  BY DEF Init, Used
<1> QED
  BY <1>1 DEF Init, Agreement, Stored, TradesOK, Single, Confirmed, OpenTradesOf, IsOpen, Shown, Waiting

(* What has been agreed to and what waits, in every reachable state.       *)
THEOREM AgreementInvariant == Spec => []Agreement
<1>1. Init => Agreement
  BY NothingAgreedYet
<1>2. Agreement /\ [Next]_vars => Agreement'
  BY AgreementStep
<1> QED
  BY <1>1, <1>2, PTL DEF Spec

(* A trade completes only on the two offers both players were shown when   *)
(* they confirmed, however late the confirmations arrive and whatever      *)
(* changes, closes or restarts in between.                                 *)
THEOREM SwapsAreAgreed == Spec => SwapIsAgreed
<1>1. Agreement /\ [Next]_vars => SwapIsOfAgreed
  BY AgreementStep
<1>2. SwapIsOfAgreed =>
        [\A t \in Used :
           trades[t].status = "ACTIVE" /\ trades'[t].status = "COMPLETED" =>
             \A p \in Parties(t) : agreed'[p] = Offer(t)]_vars
  BY DEF SwapIsOfAgreed
<1> QED
  BY <1>1, <1>2, AgreementInvariant, PTL DEF Spec, SwapIsAgreed

-----------------------------------------------------------------------------
(* What the open trades offer is in escrow, and what is in escrow an open  *)
(* trade offers, each entry once.                                          *)
EntriesOK ==
  /\ entries \in [EntryId -> EntryRecord \cup {NoEntry}]
  /\ OneStack(entries)

InEscrow(e) == entries[e] # NoEntry /\ entries[e].place = "TRADE_ESCROW"

Backs(t, i) ==
  /\ IsOpen(t) /\ i.player \in Parties(t)
  /\ Owned(entries, i.entry, i.player, "TRADE_ESCROW")
  /\ entries[i.entry].quantity = i.quantity

OffersBacked == \A t \in Used : \A i \in trades[t].items : Backs(t, i)

Lists(t, i, e) ==
  /\ i.entry = e
  /\ \A u \in Used : \A j \in trades[u].items : j.entry = e => u = t /\ j = i

EscrowListed ==
  \A e \in EntryId : InEscrow(e) => \E t \in Used : \E i \in trades[t].items : Lists(t, i, e)

(* Coins are offered in open trades, by their parties, and reserved.       *)
CoinsReserved ==
  /\ coins \in [Player -> Nat] /\ reserved \in [Player -> Nat]
  /\ \A p \in Player : reserved[p] = CoinsIn(TradeId, p)
  /\ \A t \in Used : \A p \in Player : trades[t].coins[p] # 0 => IsOpen(t) /\ p \in Parties(t)

Escrows == EntriesOK /\ OffersBacked /\ EscrowListed /\ CoinsReserved

-----------------------------------------------------------------------------
(* addInventory for several entries at once.  No two of them join one      *)
(* stack, so the order in which the code adds them does not matter.        *)
Inventories == [EntryId -> EntryRecord \cup {NoEntry}]
Amounts(es, item) ==
  [e \in EntryId |-> IF es[e] # NoEntry /\ es[e].item = item THEN es[e].quantity ELSE 0]

LEMMA AmountIs ==
  ASSUME NEW es, NEW item
  PROVE  AmountOf(es, item) = SumOver(Amounts(es, item), EntryId)
BY DEF AmountOf, Amounts

LEMMA EntryIsRecord ==
  ASSUME NEW es \in Inventories, NEW e \in EntryId
  PROVE  /\ es[e] # NoEntry <=> es[e] \in EntryRecord
         /\ es[e] # NoEntry =>
              /\ es[e].owner \in Player /\ es[e].item \in Item
              /\ es[e].quantity \in Nat \ {0} /\ es[e].place \in Place
BY NullAssumption DEF Inventories, EntryRecord

(* Entries in escrow that may be delivered together.                       *)
Deliverable(es, to) ==
  /\ DOMAIN to \subseteq EntryId
  /\ \A d \in DOMAIN to :
       es[d] # NoEntry /\ es[d].place = "TRADE_ESCROW" /\ to[d] \in Player
  /\ \A d, e \in DOMAIN to :
       to[d] = to[e] /\ es[d].item = es[e].item /\ es[d].item \in Stackable => d = e

LEMMA OneStackJoined ==
  ASSUME NEW es \in Inventories, OneStack(es), NEW to, Deliverable(es, to),
         NEW d \in DOMAIN to, NEW s \in StackFor(es, d, to[d])
  PROVE  /\ StackFor(es, d, to[d]) = {s}
         /\ s \notin DOMAIN to /\ s \in EntryId /\ es[s] # NoEntry
         /\ es[s].place = "INVENTORY" /\ es[s].item = es[d].item /\ es[s].owner = to[d]
         /\ \A e \in DOMAIN to : s \in StackFor(es, e, to[e]) => e = d
BY DEF StackFor, Owned, OneStack, Deliverable

LEMMA AmountsAreNat ==
  ASSUME NEW es \in Inventories, NEW item, NEW e \in EntryId
  PROVE  Amounts(es, item)[e] \in Nat /\ Amounts(es, item)[e] \in Int
<1>1. es[e] # NoEntry => es[e].quantity \in Nat
  BY EntryIsRecord
<1> QED
  BY <1>1 DEF Amounts

(* What becomes of an entry: it joins a stack, it moves, or it is a stack   *)
(* that one other joins, and only then is it touched.                      *)
LEMMA EntryResized ==
  ASSUME NEW r \in EntryRecord, NEW n \in Nat \ {0},
         NEW s, s = [r EXCEPT !.quantity = n]
  PROVE  /\ s \in EntryRecord /\ s.owner = r.owner /\ s.place = r.place
         /\ s.item = r.item /\ s.quantity = n
BY DEF EntryRecord, Place

LEMMA DeliverMoves ==
  ASSUME NEW es \in Inventories, NEW to, Deliverable(es, to), NEW e \in DOMAIN to
  PROVE  /\ StackFor(es, e, to[e]) # {} => Deliver(es, to)[e] = NoEntry
         /\ StackFor(es, e, to[e]) = {} =>
              /\ Deliver(es, to)[e] \in EntryRecord
              /\ Deliver(es, to)[e].owner = to[e] /\ Deliver(es, to)[e].place = "INVENTORY"
              /\ Deliver(es, to)[e].item = es[e].item
              /\ Deliver(es, to)[e].quantity = es[e].quantity
<1>1. e \in EntryId /\ to[e] \in Player /\ es[e] \in EntryRecord
  BY EntryIsRecord DEF Deliverable
<1>2. StackFor(es, e, to[e]) # {} => Deliver(es, to)[e] = NoEntry
  BY <1>1 DEF Deliver
<1>3. ASSUME StackFor(es, e, to[e]) = {}
      PROVE  Deliver(es, to)[e] = [es[e] EXCEPT !.owner = to[e], !.place = "INVENTORY"]
  BY <1>1, <1>3 DEF Deliver
<1>4. ASSUME NEW s, s = [es[e] EXCEPT !.owner = to[e], !.place = "INVENTORY"]
      PROVE  /\ s \in EntryRecord /\ s.owner = to[e] /\ s.place = "INVENTORY"
             /\ s.item = es[e].item /\ s.quantity = es[e].quantity
  BY <1>1, <1>4 DEF EntryRecord, Place
<1> QED
  BY <1>2, <1>3, <1>4

LEMMA DeliverLeaves ==
  ASSUME NEW es, NEW to, NEW e \in EntryId, e \notin DOMAIN to,
         \A d \in DOMAIN to : e \notin StackFor(es, d, to[d])
  PROVE  Deliver(es, to)[e] = es[e]
<1>1. {d \in DOMAIN to : e \in StackFor(es, d, to[d])} = {}
  OBVIOUS
<1> QED
  BY <1>1 DEF Deliver

LEMMA DeliverJoins ==
  ASSUME NEW es \in Inventories, OneStack(es), NEW to, Deliverable(es, to),
         NEW d \in DOMAIN to, NEW e \in StackFor(es, d, to[d])
  PROVE  /\ e \in EntryId \ DOMAIN to /\ es[e] # NoEntry
         /\ Deliver(es, to)[e] \in EntryRecord
         /\ Deliver(es, to)[e].owner = es[e].owner /\ Deliver(es, to)[e].place = es[e].place
         /\ Deliver(es, to)[e].item = es[e].item /\ es[e].place = "INVENTORY"
         /\ Deliver(es, to)[e].quantity = es[e].quantity + es[d].quantity
<1> DEFINE joining == {x \in DOMAIN to : e \in StackFor(es, x, to[x])}
           share == [x \in joining |-> es[x].quantity]
<1>1. joining = {d} /\ e \in EntryId \ DOMAIN to /\ es[e] # NoEntry /\ es[e].place = "INVENTORY"
  BY OneStackJoined
<1>2. d \in EntryId /\ es[d].quantity \in Nat \ {0}
  BY EntryIsRecord DEF Deliverable
<1>3. es[e] \in EntryRecord /\ es[e].quantity \in Nat \ {0}
  BY <1>1, EntryIsRecord
<1>4. SumOver(share, joining) = es[d].quantity
  <2>1. share[d] = es[d].quantity /\ \A x \in {d} : share[x] \in Int
    BY <1>1, <1>2
  <2>2. IsFiniteSet({d}) /\ {d} \ {d} = {}
    BY FS_Singleton
  <2> HIDE DEF share, joining
  <2>3. SumOver(share, {d}) = share[d] + SumOver(share, {d} \ {d})
    BY <2>1, <2>2, SumLaw
  <2>4. SumOver(share, {}) = 0
    BY FS_EmptySet, SumZero
  <2> QED
    BY <1>1, <1>2, <2>1, <2>2, <2>3, <2>4
<1>5. Deliver(es, to)[e] = [es[e] EXCEPT !.quantity = @ + SumOver(share, joining)]
  BY <1>1 DEF Deliver
<1> HIDE DEF share, joining
<1> DEFINE n == es[e].quantity + es[d].quantity
<1>6. n \in Nat \ {0} /\ Deliver(es, to)[e] = [es[e] EXCEPT !.quantity = n]
  BY <1>2, <1>3, <1>4, <1>5
<1> HIDE DEF n
<1>7. /\ Deliver(es, to)[e] \in EntryRecord
      /\ Deliver(es, to)[e].owner = es[e].owner /\ Deliver(es, to)[e].place = es[e].place
      /\ Deliver(es, to)[e].item = es[e].item /\ Deliver(es, to)[e].quantity = n
  BY <1>3, <1>6, EntryResized
<1> QED
  BY <1>1, <1>7 DEF n

LEMMA DeliverTypes ==
  ASSUME NEW es \in Inventories, OneStack(es), NEW to, Deliverable(es, to)
  PROVE  Deliver(es, to) \in Inventories
<1>1. \A e \in EntryId : Deliver(es, to)[e] \in EntryRecord \cup {NoEntry}
  <2> SUFFICES ASSUME NEW e \in EntryId
               PROVE  Deliver(es, to)[e] \in EntryRecord \cup {NoEntry}
    OBVIOUS
  <2>1. CASE e \in DOMAIN to
    BY <2>1, DeliverMoves
  <2>2. CASE e \notin DOMAIN to /\ \A d \in DOMAIN to : e \notin StackFor(es, d, to[d])
    BY <2>2, DeliverLeaves DEF Inventories
  <2>3. ASSUME NEW d \in DOMAIN to, e \in StackFor(es, d, to[d])
        PROVE  Deliver(es, to)[e] \in EntryRecord \cup {NoEntry}
    BY <2>3, DeliverJoins
  <2> QED
    BY <2>1, <2>2, <2>3
<1>2. Deliver(es, to) = [e \in EntryId |-> Deliver(es, to)[e]]
  BY DEF Deliver
<1> QED
  BY <1>1, <1>2 DEF Inventories

(* An entry that is not delivered stays what and where it is.              *)
LEMMA DeliverKeeps ==
  ASSUME NEW es \in Inventories, OneStack(es), NEW to, Deliverable(es, to),
         NEW e \in EntryId, e \notin DOMAIN to
  PROVE  /\ es[e] = NoEntry => Deliver(es, to)[e] = NoEntry
         /\ es[e] # NoEntry =>
              /\ Deliver(es, to)[e] # NoEntry /\ Deliver(es, to)[e].owner = es[e].owner
              /\ Deliver(es, to)[e].item = es[e].item /\ Deliver(es, to)[e].place = es[e].place
              /\ es[e].place = "TRADE_ESCROW" => Deliver(es, to)[e] = es[e]
<1>1. CASE \A d \in DOMAIN to : e \notin StackFor(es, d, to[d])
  BY <1>1, DeliverLeaves
<1>2. ASSUME NEW d \in DOMAIN to, e \in StackFor(es, d, to[d])
      PROVE  /\ es[e] # NoEntry /\ es[e].place = "INVENTORY"
             /\ Deliver(es, to)[e] # NoEntry /\ Deliver(es, to)[e].owner = es[e].owner
             /\ Deliver(es, to)[e].item = es[e].item /\ Deliver(es, to)[e].place = es[e].place
  BY <1>2, DeliverJoins, NullAssumption
<1> QED
  BY <1>1, <1>2

LEMMA DeliverOneStack ==
  ASSUME NEW es \in Inventories, OneStack(es), NEW to, Deliverable(es, to)
  PROVE  OneStack(Deliver(es, to))
<1> DEFINE after == Deliver(es, to)
<1> SUFFICES ASSUME NEW e \in EntryId, NEW d \in EntryId, after[e] # NoEntry, after[d] # NoEntry,
                    after[e].owner = after[d].owner, after[e].place = after[d].place,
                    after[e].item = after[d].item, after[e].item \in Stackable
             PROVE  e = d
  BY DEF OneStack
<1>1. \A x \in {e, d} : x \notin DOMAIN to =>
        /\ es[x] # NoEntry /\ after[x].owner = es[x].owner
        /\ after[x].item = es[x].item /\ after[x].place = es[x].place
  BY DeliverKeeps
<1>2. \A x \in {e, d} : x \in DOMAIN to =>
        /\ StackFor(es, x, to[x]) = {} /\ after[x].owner = to[x]
        /\ after[x].item = es[x].item /\ after[x].place = "INVENTORY"
  BY DeliverMoves
<1> HIDE DEF after
<1>3. ASSUME NEW x \in {e, d}, NEW y \in {e, d}, x \in DOMAIN to, y \notin DOMAIN to
      PROVE  FALSE
  <2>1. y \in StackFor(es, x, to[x])
    BY <1>1, <1>2, <1>3 DEF StackFor, Owned
  <2> QED
    BY <1>2, <1>3, <2>1
<1>4. CASE e \in DOMAIN to /\ d \in DOMAIN to
  BY <1>2, <1>4 DEF Deliverable
<1>5. CASE e \notin DOMAIN to /\ d \notin DOMAIN to
  BY <1>1, <1>5 DEF OneStack
<1> QED
  BY <1>3, <1>4, <1>5

(* No piece is made or lost.                                               *)
LEMMA DeliverAmounts ==
  ASSUME NEW es \in Inventories, OneStack(es), NEW to, Deliverable(es, to), NEW item
  PROVE  AmountOf(Deliver(es, to), item) = AmountOf(es, item)
<1> DEFINE after == Deliver(es, to)
           f == Amounts(es, item)
           g == Amounts(after, item)
           J == {d \in DOMAIN to : StackFor(es, d, to[d]) # {}}
           m == [d \in J |-> CHOOSE s \in StackFor(es, d, to[d]) : TRUE]
<1>0. after \in Inventories
  BY DeliverTypes
<1>1. \A x \in EntryId : f[x] \in Int /\ g[x] \in Int
  BY <1>0, AmountsAreNat
<1>2. J \subseteq EntryId /\ J \subseteq DOMAIN to
  BY DEF Deliverable
<1>3. \A d \in J : m[d] \in StackFor(es, d, to[d])
  OBVIOUS
<1>4. \A x \in EntryId : x \in DOMAIN to /\ StackFor(es, x, to[x]) # {} => x \in J
  OBVIOUS
<1>5. \A d \in J : after[d] = NoEntry
  BY DeliverMoves
<1> HIDE DEF J, m, after, f, g
<1>6. \A d \in J : m[d] \in EntryId \ J
  BY <1>2, <1>3, OneStackJoined
<1>7. \A d, e \in J : m[d] = m[e] => d = e
  BY <1>2, <1>3, OneStackJoined
<1>8. \A x \in EntryId : f[x] = IF es[x] # NoEntry /\ es[x].item = item THEN es[x].quantity ELSE 0
  BY DEF f, Amounts
<1>9. \A x \in EntryId :
        g[x] = IF after[x] # NoEntry /\ after[x].item = item THEN after[x].quantity ELSE 0
  BY DEF g, Amounts
<1>10. ASSUME NEW d \in J
       PROVE  g[d] = f[d] - f[d] /\ g[m[d]] = f[m[d]] + f[d]
  <2>1. g[d] = f[d] - f[d]
    BY <1>1, <1>2, <1>5, <1>9
  <2>2. PICK s \in StackFor(es, d, to[d]) : s = m[d]
    BY <1>3
  <2>3. /\ s \in EntryId /\ es[s] # NoEntry /\ es[s].item = es[d].item
        /\ es[s].quantity \in Nat /\ es[d] # NoEntry /\ es[d].quantity \in Nat
    BY <1>2, OneStackJoined, EntryIsRecord DEF Deliverable
  <2>4. after[s] # NoEntry /\ after[s].item = es[s].item
        /\ after[s].quantity = es[s].quantity + es[d].quantity
    BY <1>2, DeliverJoins, NullAssumption DEF after
  <2>5. g[s] = f[s] + f[d]
    BY <1>2, <1>8, <1>9, <2>3, <2>4
  <2> QED
    BY <2>1, <2>2, <2>5
<1>11. ASSUME NEW x \in EntryId \ J, \A d \in J : m[d] # x
       PROVE  g[x] = f[x]
  <2>1. CASE x \in DOMAIN to
    <3>1. es[x] # NoEntry /\ StackFor(es, x, to[x]) = {}
      BY <1>4, <2>1 DEF Deliverable
    <3>2. after[x] # NoEntry /\ after[x].item = es[x].item /\ after[x].quantity = es[x].quantity
      BY <2>1, <3>1, DeliverMoves, NullAssumption DEF after
    <3> QED
      BY <1>8, <1>9, <3>1, <3>2
  <2>2. CASE x \notin DOMAIN to
    <3>1. ASSUME NEW d \in DOMAIN to, x \in StackFor(es, d, to[d]) PROVE FALSE
      <4>1. d \in J /\ m[d] \in StackFor(es, d, to[d])
        BY <1>3, <1>4, <3>1 DEF Deliverable
      <4>2. m[d] = x
        BY <3>1, <4>1, OneStackJoined
      <4> QED
        BY <1>11, <4>1, <4>2
    <3>2. after[x] = es[x]
      BY <2>2, <3>1, DeliverLeaves DEF after
    <3> QED
      BY <1>8, <1>9, <3>2
  <2> QED
    BY <2>1, <2>2
<1>12. SumOver(g, EntryId) = SumOver(f, EntryId)
  <2>1. \A d \in J : f[d] \in Int /\ m[d] \in EntryId \ J
    BY <1>1, <1>2, <1>6
  <2>2. \A d \in J : g[d] = f[d] - f[d] /\ g[m[d]] = f[m[d]] + f[d]
    BY <1>10
  <2>3. \A x \in EntryId \ J : (\A d \in J : m[d] # x) => g[x] = f[x]
    BY <1>11
  <2>4. IsFiniteSet(EntryId) /\ J \subseteq EntryId
    BY <1>2, FiniteAssumption
  <2>5. \A x \in EntryId : f[x] \in Int /\ g[x] \in Int
    BY <1>1
  <2>6. \A d, e \in J : m[d] = m[e] => d = e
    BY <1>7
  <2>7. Transfers(EntryId, f, g, J, m, f)
    BY <2>1, <2>2, <2>3, <2>4, <2>5, <2>6, Zenon DEF Transfers
  <2> QED
    BY <2>4, <2>7, SumTransfer
<1> QED
  BY <1>12, AmountIs DEF f, g, after

-----------------------------------------------------------------------------
(* A player whose escrow is empty puts entries, or parts of stacks, there. *)
MayEscrow(es, p, quantity, into) ==
  /\ es \in Inventories /\ OneStack(es) /\ p \in Player
  /\ \A e \in EntryId : ~ Owned(es, e, p, "TRADE_ESCROW")
  /\ \A e \in DOMAIN quantity :
       /\ e \in EntryId /\ Owned(es, e, p, "INVENTORY")
       /\ quantity[e] \in Nat \ {0} /\ quantity[e] <= es[e].quantity
  /\ into \in EscrowIds(es, quantity)

LEMMA EscrowPuts ==
  ASSUME NEW es, NEW p, NEW quantity, NEW into, MayEscrow(es, p, quantity, into),
         NEW d \in DOMAIN quantity
  PROVE  /\ into[d] \in EntryId
         /\ Escrow(es, quantity, into)[into[d]] \in EntryRecord
         /\ Escrow(es, quantity, into)[into[d]].owner = p
         /\ Escrow(es, quantity, into)[into[d]].place = "TRADE_ESCROW"
         /\ Escrow(es, quantity, into)[into[d]].item = es[d].item
         /\ Escrow(es, quantity, into)[into[d]].quantity = quantity[d]
<1> DEFINE s == into[d]
<1>1. /\ s \in EntryId /\ \A x \in DOMAIN quantity : into[x] = s => x = d
      /\ d \in EntryId /\ quantity[d] \in Nat \ {0}
  BY DEF MayEscrow, EscrowIds
<1>2. es[d] \in EntryRecord /\ es[d].owner = p
  BY <1>1, EntryIsRecord DEF MayEscrow, Owned
<1>3. (CHOOSE x \in DOMAIN quantity : into[x] = s) = d
  BY <1>1
<1>4. Escrow(es, quantity, into)[s] =
        [es[d] EXCEPT !.quantity = quantity[d], !.place = "TRADE_ESCROW"]
  BY <1>1, <1>3 DEF Escrow
<1> HIDE DEF s
<1>5. PICK r : r = Escrow(es, quantity, into)[s]
  OBVIOUS
<1>6. /\ r \in EntryRecord /\ r.owner = p /\ r.place = "TRADE_ESCROW"
      /\ r.item = es[d].item /\ r.quantity = quantity[d]
  BY <1>1, <1>2, <1>4, <1>5 DEF EntryRecord, Place
<1> QED
  BY <1>1, <1>5, <1>6 DEF s

LEMMA EscrowTakes ==
  ASSUME NEW es, NEW p, NEW quantity, NEW into, MayEscrow(es, p, quantity, into),
         NEW d \in DOMAIN quantity, into[d] # d
  PROVE  /\ d \in EntryId /\ into[d] \in EntryId \ DOMAIN quantity /\ es[into[d]] = NoEntry
         /\ \A x \in DOMAIN quantity : into[x] # d
         /\ Escrow(es, quantity, into)[d] \in EntryRecord
         /\ Escrow(es, quantity, into)[d].owner = p
         /\ Escrow(es, quantity, into)[d].place = "INVENTORY"
         /\ Escrow(es, quantity, into)[d].item = es[d].item
         /\ Escrow(es, quantity, into)[d].quantity = es[d].quantity - quantity[d]
<1>1. /\ d \in EntryId /\ quantity[d] \in Nat \ {0} /\ quantity[d] <= es[d].quantity
      /\ es[d] # NoEntry /\ es[d].place = "INVENTORY" /\ es[d].owner = p
      /\ into[d] \in EntryId /\ es[into[d]] = NoEntry /\ quantity[d] # es[d].quantity
  BY DEF MayEscrow, EscrowIds, Owned
<1>2. es[d] \in EntryRecord /\ es[d].quantity \in Nat \ {0}
  BY <1>1, EntryIsRecord DEF MayEscrow
<1>3. into[d] \notin DOMAIN quantity
  BY <1>1 DEF MayEscrow, Owned
<1>4. \A x \in DOMAIN quantity : into[x] # d
  BY <1>1 DEF MayEscrow, EscrowIds
<1>5. Escrow(es, quantity, into)[d] = [es[d] EXCEPT !.quantity = @ - quantity[d]]
  BY <1>1, <1>4 DEF Escrow
<1> DEFINE n == es[d].quantity - quantity[d]
<1>6. n \in Nat \ {0}
  BY <1>1, <1>2
<1>7. Escrow(es, quantity, into)[d] = [es[d] EXCEPT !.quantity = n]
  BY <1>5
<1> HIDE DEF n
<1>8. PICK r : r = Escrow(es, quantity, into)[d]
  OBVIOUS
<1>9. /\ r \in EntryRecord /\ r.owner = p /\ r.place = "INVENTORY"
      /\ r.item = es[d].item /\ r.quantity = n
  BY <1>1, <1>2, <1>6, <1>7, <1>8 DEF EntryRecord
<1> QED
  BY <1>1, <1>3, <1>4, <1>8, <1>9 DEF n

LEMMA EscrowLeaves ==
  ASSUME NEW es, NEW quantity, NEW into, NEW e \in EntryId \ DOMAIN quantity,
         \A d \in DOMAIN quantity : into[d] # e
  PROVE  Escrow(es, quantity, into)[e] = es[e]
BY DEF Escrow

(* Every entry is one of the three.                                        *)
LEMMA EscrowCases ==
  ASSUME NEW es, NEW p, NEW quantity, NEW into, MayEscrow(es, p, quantity, into),
         NEW e \in EntryId
  PROVE  \/ \E d \in DOMAIN quantity : into[d] = e
         \/ e \in DOMAIN quantity /\ into[e] # e
         \/ e \notin DOMAIN quantity /\ \A d \in DOMAIN quantity : into[d] # e
OBVIOUS

LEMMA EscrowTypes ==
  ASSUME NEW es, NEW p, NEW quantity, NEW into, MayEscrow(es, p, quantity, into)
  PROVE  Escrow(es, quantity, into) \in Inventories
<1>1. ASSUME NEW e \in EntryId
      PROVE  Escrow(es, quantity, into)[e] \in EntryRecord \cup {NoEntry}
  <2>1. ASSUME NEW d \in DOMAIN quantity, into[d] = e
        PROVE  Escrow(es, quantity, into)[e] \in EntryRecord
    BY <2>1, EscrowPuts
  <2>2. CASE e \in DOMAIN quantity /\ into[e] # e
    BY <2>2, EscrowTakes
  <2>3. CASE e \notin DOMAIN quantity /\ \A d \in DOMAIN quantity : into[d] # e
    BY <2>3, EscrowLeaves DEF MayEscrow, Inventories
  <2> QED
    BY <2>1, <2>2, <2>3
<1>2. Escrow(es, quantity, into) = [e \in EntryId |-> Escrow(es, quantity, into)[e]]
  BY DEF Escrow
<1> QED
  BY <1>1, <1>2 DEF Inventories

LEMMA EscrowOneStack ==
  ASSUME NEW es, NEW p, NEW quantity, NEW into, MayEscrow(es, p, quantity, into)
  PROVE  OneStack(Escrow(es, quantity, into))
<1> DEFINE after == Escrow(es, quantity, into)
           Before(e, x) == /\ x \in EntryId /\ es[x] # NoEntry /\ es[x].item = after[e].item
                           /\ es[x].owner = after[e].owner
<1>1. ASSUME NEW e \in EntryId, after[e] # NoEntry
      PROVE  \/ \E d \in DOMAIN quantity : /\ into[d] = e /\ Before(e, d) /\ after[e].owner = p
                                           /\ after[e].place = "TRADE_ESCROW" /\ es[d].place = "INVENTORY"
             \/ /\ Before(e, e) /\ after[e].place = es[e].place
                /\ ~ (after[e].owner = p /\ after[e].place = "TRADE_ESCROW")
  <2>1. ASSUME NEW d \in DOMAIN quantity, into[d] = e
        PROVE  /\ Before(e, d) /\ after[e].owner = p
               /\ after[e].place = "TRADE_ESCROW" /\ es[d].place = "INVENTORY"
    <3>1. d \in EntryId /\ es[d] # NoEntry /\ es[d].owner = p /\ es[d].place = "INVENTORY"
      BY DEF MayEscrow, Owned
    <3>2. after[e].owner = p /\ after[e].place = "TRADE_ESCROW" /\ after[e].item = es[d].item
      BY <2>1, EscrowPuts
    <3> QED
      BY <3>1, <3>2
  <2>2. CASE e \in DOMAIN quantity /\ into[e] # e
    <3>1. es[e] # NoEntry /\ es[e].owner = p /\ es[e].place = "INVENTORY"
      BY <2>2 DEF MayEscrow, Owned
    <3>2. after[e].owner = p /\ after[e].place = "INVENTORY" /\ after[e].item = es[e].item
      BY <2>2, EscrowTakes
    <3> QED
      BY <3>1, <3>2
  <2>3. CASE e \notin DOMAIN quantity /\ \A d \in DOMAIN quantity : into[d] # e
    <3>1. after[e] = es[e]
      BY <2>3, EscrowLeaves
    <3> HIDE DEF after
    <3> QED
      BY <1>1, <3>1 DEF MayEscrow, Owned
  <2> QED
    BY <2>1, <2>2, <2>3
<1> HIDE DEF after
<1> SUFFICES ASSUME NEW e \in EntryId, NEW d \in EntryId, after[e] # NoEntry, after[d] # NoEntry,
                    after[e].owner = after[d].owner, after[e].place = after[d].place,
                    after[e].item = after[d].item, after[e].item \in Stackable
             PROVE  e = d
  BY DEF OneStack, after
<1>2. CASE after[e].owner = p /\ after[e].place = "TRADE_ESCROW"
  <2>1. PICK x \in DOMAIN quantity : into[x] = e /\ Before(e, x) /\ es[x].place = "INVENTORY"
    BY <1>1, <1>2
  <2>2. PICK y \in DOMAIN quantity : into[y] = d /\ Before(d, y) /\ es[y].place = "INVENTORY"
    BY <1>1, <1>2
  <2>3. x = y
    BY <2>1, <2>2 DEF MayEscrow, OneStack
  <2> QED
    BY <2>1, <2>2, <2>3
<1>3. CASE ~ (after[e].owner = p /\ after[e].place = "TRADE_ESCROW")
  <2>1. Before(e, e) /\ after[e].place = es[e].place /\ Before(d, d) /\ after[d].place = es[d].place
    BY <1>1, <1>3
  <2> QED
    BY <2>1 DEF MayEscrow, OneStack
<1> QED
  BY <1>2, <1>3

LEMMA EscrowAmounts ==
  ASSUME NEW es, NEW p, NEW quantity, NEW into, MayEscrow(es, p, quantity, into), NEW item
  PROVE  AmountOf(Escrow(es, quantity, into), item) = AmountOf(es, item)
<1> DEFINE after == Escrow(es, quantity, into)
           f == Amounts(es, item)
           g == Amounts(after, item)
           J == {d \in DOMAIN quantity : into[d] # d}
           v == [d \in J |-> IF es[d].item = item THEN quantity[d] ELSE 0]
<1>0. after \in Inventories /\ es \in Inventories
  BY EscrowTypes DEF MayEscrow
<1>1. \A x \in EntryId : f[x] \in Int /\ g[x] \in Int
  BY <1>0, AmountsAreNat
<1>2. \A d \in DOMAIN quantity :
        /\ d \in EntryId /\ quantity[d] \in Nat /\ es[d].quantity \in Nat /\ es[d] # NoEntry
  <2>1. \A d \in DOMAIN quantity : d \in EntryId /\ quantity[d] \in Nat /\ es[d] # NoEntry
    BY DEF MayEscrow, Owned
  <2> QED
    BY <1>0, <2>1, EntryIsRecord
<1>3. \A d \in J : /\ d \in EntryId /\ into[d] \in EntryId \ J /\ es[into[d]] = NoEntry
                   /\ after[d] # NoEntry /\ after[d].item = es[d].item
                   /\ after[d].quantity = es[d].quantity - quantity[d]
  BY EscrowTakes, NullAssumption
<1>4. \A d \in DOMAIN quantity : /\ after[into[d]] # NoEntry /\ after[into[d]].item = es[d].item
                                 /\ after[into[d]].quantity = quantity[d]
  BY EscrowPuts, NullAssumption
<1>5. \A d, e \in DOMAIN quantity : into[d] = into[e] => d = e
  BY DEF MayEscrow, EscrowIds
<1>6. \A x \in EntryId : f[x] = IF es[x] # NoEntry /\ es[x].item = item THEN es[x].quantity ELSE 0
  BY DEF Amounts
<1>7. \A x \in EntryId :
        g[x] = IF after[x] # NoEntry /\ after[x].item = item THEN after[x].quantity ELSE 0
  BY DEF Amounts
<1>8. \A d \in J : d \in DOMAIN quantity /\ v[d] = IF es[d].item = item THEN quantity[d] ELSE 0
  OBVIOUS
<1>9. \A x \in EntryId \ J : x \in DOMAIN quantity => into[x] = x
  OBVIOUS
<1>10. \A x \in EntryId : x \notin DOMAIN quantity /\ (\A d \in DOMAIN quantity : into[d] # x) =>
         after[x] = es[x]
  BY EscrowLeaves
<1>11. J \subseteq EntryId
  BY <1>3
<1>12. \A d \in DOMAIN quantity : d \notin J => quantity[d] = es[d].quantity
  <2> SUFFICES ASSUME NEW d \in DOMAIN quantity, into[d] = d PROVE quantity[d] = es[d].quantity
    OBVIOUS
  <2> QED
    BY <1>2 DEF MayEscrow, EscrowIds
<1> HIDE DEF J, v, after, f, g
<1>13. ASSUME NEW d \in J
       PROVE  /\ g[d] = f[d] - v[d] /\ g[into[d]] = f[into[d]] + v[d]
              /\ v[d] \in Int /\ into[d] \in EntryId \ J
  BY <1>2, <1>3, <1>4, <1>6, <1>7, <1>8
<1>14. ASSUME NEW x \in EntryId \ J, \A d \in J : into[d] # x
       PROVE  g[x] = f[x]
  <2>1. CASE x \in DOMAIN quantity
    BY <1>2, <1>4, <1>6, <1>7, <1>9, <1>12, <2>1
  <2>2. CASE x \notin DOMAIN quantity
    <3>1. \A d \in DOMAIN quantity : into[d] # x
      BY <1>2, <1>9, <1>14, <2>2
    <3> QED
      BY <1>6, <1>7, <1>10, <2>2, <3>1
  <2> QED
    BY <2>1, <2>2
<1>15. Transfers(EntryId, f, g, J, into, v)
  <2>1. \A d, e \in J : into[d] = into[e] => d = e
    BY <1>5, <1>8
  <2>2. \A d \in J : g[d] = f[d] - v[d] /\ g[into[d]] = f[into[d]] + v[d]
    BY <1>13
  <2>3. \A d \in J : v[d] \in Int /\ into[d] \in EntryId \ J
    BY <1>13
  <2>4. \A x \in EntryId \ J : (\A d \in J : into[d] # x) => g[x] = f[x]
    BY <1>14
  <2> QED
    BY <1>1, <1>11, <2>1, <2>2, <2>3, <2>4, Zenon DEF Transfers
<1>16. SumOver(g, EntryId) = SumOver(f, EntryId)
  BY <1>15, FiniteAssumption, SumTransfer
<1> QED
  BY <1>16, AmountIs DEF f, g, after

-----------------------------------------------------------------------------
(* The coins a player has in the trades of a set.                          *)
Offered(p) == [t \in TradeId |-> IF t \in Used THEN trades[t].coins[p] ELSE 0]

LEMMA OfferedIsNat ==
  ASSUME TradesOK, NEW p \in Player, NEW t \in TradeId
  PROVE  Offered(p)[t] \in Nat
<1>1. t \in Used => trades[t] \in TradeRecord
  BY UsedIsRecord
<1>2. t \in Used => trades[t].coins[p] \in Nat
  BY <1>1 DEF TradeRecord
<1> QED
  BY <1>2 DEF Offered

LEMMA CoinsInAll == \A p : CoinsIn(TradeId, p) = SumOver(Offered(p), TradeId)
BY DEF CoinsIn, Offered

(* The coins in the trades of T are those in all trades but for those in   *)
(* the others.                                                             *)
LEMMA CoinsInPart ==
  ASSUME TradesOK, NEW T \in SUBSET TradeId, NEW p \in Player
  PROVE  /\ CoinsIn(T, p) \in Nat
         /\ CoinsIn(TradeId, p) =
              CoinsIn(T, p) + SumOver([t \in TradeId |-> IF t \in T THEN 0 ELSE Offered(p)[t]], TradeId)
<1> DEFINE part == [t \in T |-> IF t \in Used THEN trades[t].coins[p] ELSE 0]
           inside == [t \in TradeId |-> IF t \in T THEN Offered(p)[t] ELSE 0]
           outside == [t \in TradeId |-> IF t \in T THEN 0 ELSE Offered(p)[t]]
           all == Offered(p)
<1>0. IsFiniteSet(TradeId) /\ IsFiniteSet(T)
  BY FiniteAssumption, FS_Subset
<1>1. \A t \in TradeId : all[t] \in Nat /\ inside[t] \in Nat /\ outside[t] \in Nat
                         /\ all[t] = inside[t] + outside[t]
  BY OfferedIsNat
<1>2. \A t \in T : part[t] \in Nat /\ inside[t] = part[t]
  <2>1. \A t \in T : part[t] = Offered(p)[t] /\ inside[t] = Offered(p)[t]
    BY DEF Offered
  <2> HIDE DEF part, inside
  <2> QED
    BY <2>1, OfferedIsNat
<1>3. \A t \in TradeId \ T : inside[t] = 0
  OBVIOUS
<1>4. CoinsIn(T, p) = SumOver(part, T)
  BY DEF CoinsIn
<1> HIDE DEF part, inside, outside, all
<1>5. SumOver(all, TradeId) = SumOver(inside, TradeId) + SumOver(outside, TradeId)
  <2>1. \A t \in TradeId : inside[t] \in Int /\ outside[t] \in Int /\ all[t] = inside[t] + outside[t]
    BY <1>1
  <2> QED
    BY <1>0, <2>1, SumPointwise
<1>6. SumOver(inside, TradeId) = SumOver(part, T)
  <2>1. \A t \in T : part[t] \in Int /\ inside[t] = part[t]
    BY <1>2
  <2> QED
    BY <1>0, <1>3, <2>1, SumSupport
<1>7. SumOver(part, T) \in Nat
  BY <1>0, <1>2, SumOfNaturals
<1> QED
  BY <1>4, <1>5, <1>6, <1>7, CoinsInAll DEF all, outside

LEMMA CoinsInOne ==
  ASSUME TradesOK, NEW t \in Used, NEW p \in Player
  PROVE  CoinsIn({t}, p) = trades[t].coins[p]
<1> DEFINE part == [u \in {t} |-> IF u \in Used THEN trades[u].coins[p] ELSE 0]
<1>1. part[t] = trades[t].coins[p] /\ t \in TradeId
  BY DEF Used
<1>2. trades[t].coins[p] \in Nat
  BY <1>1, OfferedIsNat DEF Offered
<1>3. CoinsIn({t}, p) = SumOver(part, {t})
  BY DEF CoinsIn
<1> HIDE DEF part
<1>4. \A x \in {t} : part[x] \in Int
  BY <1>1, <1>2
<1>5. IsFiniteSet({t}) /\ {t} \ {t} = {}
  BY FS_Singleton
<1>6. SumOver(part, {t}) = part[t] + SumOver(part, {t} \ {t})
  BY <1>4, <1>5, SumLaw
<1>7. SumOver(part, {}) = 0
  BY FS_EmptySet, SumZero
<1>8. SumOver(part, {t}) = part[t] + 0
  BY <1>5, <1>6, <1>7
<1> QED
  BY <1>1, <1>2, <1>3, <1>8

(* What a step does to the goods: it keeps every offer backed, every item  *)
(* and every coin.                                                         *)
ItemsKept == \A item \in Item : AmountOf(entries', item) = AmountOf(entries, item)
CoinsKept ==
  SumOver(coins', Player) + SumOver(reserved', Player) =
    SumOver(coins, Player) + SumOver(reserved, Player)
GoodsKept == Escrows' /\ ItemsKept /\ CoinsKept

LEMMA WalletsKept ==
  ASSUME \A p \in Player : /\ coins[p] \in Int /\ reserved[p] \in Int
                           /\ coins'[p] \in Int /\ reserved'[p] \in Int
                           /\ coins'[p] + reserved'[p] = coins[p] + reserved[p]
  PROVE  CoinsKept
<1> DEFINE both == [p \in Player |-> coins[p] + reserved[p]]
<1>1. \A p \in Player : coins[p] \in Int /\ reserved[p] \in Int /\ both[p] = coins[p] + reserved[p]
  OBVIOUS
<1>2. \A p \in Player : coins'[p] \in Int /\ reserved'[p] \in Int /\ both[p] = coins'[p] + reserved'[p]
  OBVIOUS
<1> HIDE DEF both
<1>3. SumOver(both, Player) = SumOver(coins, Player) + SumOver(reserved, Player)
  BY <1>1, FiniteAssumption, SumPointwise
<1>4. SumOver(both, Player) = SumOver(coins', Player) + SumOver(reserved', Player)
  BY <1>2, FiniteAssumption, SumPointwise
<1> QED
  BY <1>3, <1>4 DEF CoinsKept

(* The reserves follow the offers.                                         *)
LEMMA ReservesFollow ==
  ASSUME TradesOK, TradesOK', Escrows, NEW t \in Used, Used' = Used, NEW p \in Player,
         \A u \in Used \ {t} : trades'[u].coins[p] = trades[u].coins[p],
         reserved'[p] = reserved[p] - trades[t].coins[p] + trades'[t].coins[p]
  PROVE  reserved'[p] = CoinsIn(TradeId, p)'
<1> DEFINE f == Offered(p)
           g == Offered(p)'
<1>1. \A u \in TradeId : f[u] \in Int
  BY OfferedIsNat
<1>2. \A u \in TradeId : g[u] \in Int
  <2>1. \A u \in TradeId : u \in Used' => trades'[u] \in TradeRecord
    BY NullAssumption DEF TradesOK, Used
  <2>2. \A u \in TradeId : u \in Used' => trades'[u].coins[p] \in Nat
    BY <2>1 DEF TradeRecord
  <2> QED
    BY <2>2 DEF Offered
<1>3. t \in TradeId /\ f[t] = trades[t].coins[p] /\ g[t] = trades'[t].coins[p]
  BY DEF Offered, Used
<1>4. \A u \in TradeId : u # t => g[u] = f[u]
  BY DEF Offered
<1>5. reserved[p] = SumOver(f, TradeId) /\ CoinsIn(TradeId, p)' = SumOver(g, TradeId)
  BY CoinsInAll DEF Escrows, CoinsReserved, CoinsIn, Offered
<1>6. IsFiniteSet(TradeId)
  BY FiniteAssumption
<1> HIDE DEF f, g
<1>7. SumOver(g, TradeId) = SumOver(f, TradeId) - f[t] + g[t]
  <2>1. PICK k : k = f
    OBVIOUS
  <2>2. PICK h : h = g
    OBVIOUS
  <2>3. \A u \in TradeId : k[u] \in Int /\ h[u] \in Int
    BY <1>1, <1>2, <2>1, <2>2
  <2>4. \A u \in TradeId : u # t => h[u] = k[u]
    BY <1>4, <2>1, <2>2
  <2>5. SumOver(h, TradeId) = SumOver(k, TradeId) - k[t] + h[t]
    BY <1>3, <1>6, <2>3, <2>4, SumUpdate
  <2> QED
    BY <2>1, <2>2, <2>5
<1> QED
  BY <1>3, <1>5, <1>7

(* No offer changes.                                                       *)
LEMMA OffersStay ==
  ASSUME TradesOK, TradesOK', Escrows, UNCHANGED <<entries, coins, reserved>>,
         Used \subseteq Used',
         \A t \in Used : /\ trades'[t].items = trades[t].items /\ trades'[t].coins = trades[t].coins
                         /\ Parties(t)' = Parties(t) /\ (IsOpen(t) => IsOpen(t)'),
         \A t \in Used' \ Used : /\ trades'[t].items = {}
                                 /\ \A p \in Player : trades'[t].coins[p] = 0
  PROVE  GoodsKept
<1>1. EntriesOK'
  BY DEF Escrows, EntriesOK, OneStack
<1>2. OffersBacked'
  BY DEF Escrows, OffersBacked, Backs, Owned
<1>3. EscrowListed'
  <2> SUFFICES ASSUME NEW e \in EntryId, InEscrow(e)
               PROVE  \E t \in Used' : \E i \in trades'[t].items : Lists(t, i, e)'
    BY DEF EscrowListed, InEscrow
  <2>1. PICK t \in Used : \E i \in trades[t].items : Lists(t, i, e)
    BY DEF Escrows, EscrowListed
  <2>2. PICK i \in trades[t].items : Lists(t, i, e)
    BY <2>1
  <2>3. Lists(t, i, e)'
    BY <2>2 DEF Lists
  <2> QED
    BY <2>3
<1>4. CoinsReserved'
  <2>1. \A p \in Player : Offered(p)' = Offered(p)
    BY DEF Offered
  <2>2. \A p \in Player : CoinsIn(TradeId, p)' = CoinsIn(TradeId, p)
    BY <2>1 DEF CoinsIn, Offered
  <2>3. \A t \in Used' : \A p \in Player : trades'[t].coins[p] # 0 => IsOpen(t)' /\ p \in Parties(t)'
    BY DEF Escrows, CoinsReserved
  <2> QED
    BY <2>2, <2>3 DEF Escrows, CoinsReserved
<1>5. ItemsKept /\ CoinsKept
  BY DEF ItemsKept, CoinsKept
<1> QED
  BY <1>1, <1>2, <1>3, <1>4, <1>5 DEF Escrows, GoodsKept

-----------------------------------------------------------------------------
(* The entries that the trades of T list: with every offer backed, they    *)
(* are what releaseTradeOffer of all players finds in escrow.              *)
EntriesOf(T) == {e \in EntryId : \E t \in T : \E i \in trades[t].items : i.entry = e}

LEMMA ItemIsOffer ==
  ASSUME TradesOK, NEW t \in Used, NEW i \in trades[t].items
  PROVE  i.player \in Player /\ i.entry \in EntryId /\ i.quantity \in Nat \ {0}
BY UsedIsRecord DEF TradeRecord, OfferItem

LEMMA EscrowedIsListed ==
  ASSUME TradesOK, Escrows, NEW T \in SUBSET Used
  PROVE  Escrowed(T, Player) = EntriesOf(T)
<1>1. ASSUME NEW t \in T, NEW i \in trades[t].items
      PROVE  i.player \in Player /\ Owned(entries, i.entry, i.player, "TRADE_ESCROW")
  BY ItemIsOffer DEF Escrows, OffersBacked, Backs
<1> QED
  BY <1>1 DEF Escrowed, EntriesOf

(* The trades of T are emptied and what they listed leaves the escrow.     *)
LEMMA TradesEmptied ==
  ASSUME Stored, TradesOK', Escrows, NEW T \in SUBSET Used, Used' = Used,
         NEW to, Deliverable(entries, to), DOMAIN to = EntriesOf(T),
         entries' = Deliver(entries, to),
         \A t \in T : trades'[t].items = {},
         \A t \in Used \ T : trades'[t] = trades[t]
  PROVE  EntriesOK' /\ OffersBacked' /\ EscrowListed' /\ ItemsKept
<1>0. entries \in Inventories /\ OneStack(entries) /\ TradesOK
  BY DEF Escrows, EntriesOK, Inventories, Stored
<1>1. EntriesOK'
  <2>1. Deliver(entries, to) \in Inventories /\ OneStack(Deliver(entries, to))
    BY <1>0, DeliverTypes, DeliverOneStack
  <2> QED
    BY <2>1 DEF EntriesOK, Inventories, OneStack
<1>2. ItemsKept
  BY <1>0, DeliverAmounts DEF ItemsKept
<1>3. \A t \in Used \ T : (IsOpen(t) => IsOpen(t)') /\ Parties(t)' = Parties(t)
  BY DEF IsOpen, Parties
<1>4. ASSUME NEW e \in EntryId, InEscrow(e), e \notin EntriesOf(T)
      PROVE  entries'[e] = entries[e]
  BY <1>0, <1>4, DeliverKeeps DEF InEscrow
<1>5. ASSUME NEW e \in EntryId, InEscrow(e)'
      PROVE  InEscrow(e) /\ e \notin EntriesOf(T)
  <2>1. CASE e \in DOMAIN to
    BY <1>0, <1>5, <2>1, DeliverMoves DEF InEscrow
  <2>2. CASE e \notin DOMAIN to
    BY <1>0, <1>5, <2>2, DeliverKeeps DEF InEscrow
  <2> QED
    BY <2>1, <2>2
<1>6. OffersBacked'
  <2> SUFFICES ASSUME NEW t \in Used, NEW i \in trades'[t].items
               PROVE  Backs(t, i)'
    BY DEF OffersBacked
  <2>1. t \in Used \ T /\ i \in trades[t].items
    OBVIOUS
  <2>2. Backs(t, i) /\ i.entry \in EntryId
    BY <1>0, <2>1, ItemIsOffer DEF Escrows, OffersBacked
  <2>3. InEscrow(i.entry)
    BY <2>2 DEF Backs, Owned, InEscrow
  <2>4. i.entry \notin EntriesOf(T)
    <3>1. PICK u \in Used : \E j \in trades[u].items : Lists(u, j, i.entry)
      BY <2>2, <2>3 DEF Escrows, EscrowListed
    <3> QED
      BY <2>1, <3>1 DEF Lists, EntriesOf
  <2>5. entries'[i.entry] = entries[i.entry]
    BY <1>4, <2>2, <2>3, <2>4
  <2> QED
    BY <1>3, <2>1, <2>2, <2>5 DEF Backs, Owned
<1>7. EscrowListed'
  <2> SUFFICES ASSUME NEW e \in EntryId, InEscrow(e)'
               PROVE  \E t \in Used : \E i \in trades'[t].items : Lists(t, i, e)'
    BY DEF EscrowListed
  <2>1. InEscrow(e) /\ e \notin EntriesOf(T)
    BY <1>5
  <2>2. PICK t \in Used : \E i \in trades[t].items : Lists(t, i, e)
    BY <2>1 DEF Escrows, EscrowListed
  <2>3. PICK i \in trades[t].items : Lists(t, i, e)
    BY <2>2
  <2>4. t \notin T
    BY <2>1, <2>3 DEF EntriesOf, Lists
  <2>5. \A u \in Used : \A j \in trades'[u].items : u \notin T /\ j \in trades[u].items
    OBVIOUS
  <2>6. Lists(t, i, e)'
    BY <2>3, <2>5 DEF Lists
  <2> QED
    BY <2>4, <2>6
<1> QED
  BY <1>1, <1>2, <1>6, <1>7

(* A player's entries in escrow may be returned together: it has one stack *)
(* of an item there at most.                                               *)
LEMMA Returnable ==
  ASSUME Escrows, NEW E \in SUBSET EntryId, \A e \in E : InEscrow(e)
  PROVE  Deliverable(entries, [e \in E |-> entries[e].owner])
<1>1. entries \in Inventories
  BY DEF Escrows, EntriesOK, Inventories
<1>2. \A e \in E : entries[e].owner \in Player
  BY <1>1, EntryIsRecord DEF InEscrow
<1> QED
  BY <1>2 DEF Escrows, EntriesOK, OneStack, InEscrow, Deliverable

LEMMA CloseKeepsGoods ==
  ASSUME Stored, TradesOK', Escrows, NEW T \in SUBSET Used, Used' = Used, NEW status,
         CanClose(T), Close(T, status)
  PROVE  GoodsKept
<1>0. TradesOK /\ T \in SUBSET TradeId
  BY DEF Stored, Used
<1>1. /\ \A t \in T : trades'[t].items = {} /\ \A p \in Player : trades'[t].coins[p] = 0
      /\ \A t \in Used \ T : trades'[t] = trades[t]
  <2>1. ASSUME NEW t \in T
        PROVE  trades'[t].items = {} /\ \A p \in Player : trades'[t].coins[p] = 0
    <3>1. trades[t] \in TradeRecord /\ t \in TradeId
      BY <1>0, UsedIsRecord
    <3>2. PICK r : r = trades[t]
      OBVIOUS
    <3>3. trades'[t] = [r EXCEPT !.status = status, !.items = {},
                          !.coins = [p \in Player |-> 0],
                          !.confirmed = [p \in Player |-> Unconfirmed]]
      BY <3>1, <3>2 DEF Close
    <3>4. trades'[t].items = {} /\ trades'[t].coins = [p \in Player |-> 0]
      BY <3>1, <3>2, <3>3 DEF TradeRecord
    <3> QED
      BY <3>4
  <2> QED
    BY <2>1 DEF Close, Used
<1>2. EntriesOK' /\ OffersBacked' /\ EscrowListed' /\ ItemsKept
  <2> DEFINE to == [e \in EntriesOf(T) |-> entries[e].owner]
  <2>1. entries' = Deliver(entries, to)
    BY <1>0, EscrowedIsListed DEF Close, Returned
  <2>2. \A e \in EntriesOf(T) : InEscrow(e)
    BY DEF Escrows, OffersBacked, Backs, Owned, InEscrow, EntriesOf
  <2>3. Deliverable(entries, to) /\ DOMAIN to = EntriesOf(T)
    BY <2>2, Returnable DEF EntriesOf
  <2> HIDE DEF to
  <2> QED
    BY <1>1, <2>1, <2>3, TradesEmptied
<1>3. ASSUME NEW p \in Player
      PROVE  /\ coins[p] \in Nat /\ reserved[p] \in Nat /\ CoinsIn(T, p) \in Nat
             /\ CoinsIn(T, p) <= reserved[p]
             /\ coins'[p] = coins[p] + CoinsIn(T, p) /\ reserved'[p] = reserved[p] - CoinsIn(T, p)
  BY <1>0, CoinsInPart DEF Escrows, CoinsReserved, CanClose, Close
<1>4. CoinsKept
  <2>1. \A p \in Player : /\ coins[p] \in Int /\ reserved[p] \in Int
                          /\ coins'[p] \in Int /\ reserved'[p] \in Int
                          /\ coins'[p] + reserved'[p] = coins[p] + reserved[p]
    BY <1>3
  <2> QED
    BY <2>1, WalletsKept
<1>5. CoinsReserved'
  <2>1. coins' \in [Player -> Nat] /\ reserved' \in [Player -> Nat]
    <3>1. \A p \in Player : coins'[p] \in Nat /\ reserved'[p] \in Nat
      BY <1>3
    <3>2. coins' = [p \in Player |-> coins'[p]] /\ reserved' = [p \in Player |-> reserved'[p]]
      BY DEF Close
    <3> QED
      BY <3>1, <3>2
  <2>2. ASSUME NEW p \in Player PROVE reserved'[p] = CoinsIn(TradeId, p)'
    <3> DEFINE outside == [t \in TradeId |-> IF t \in T THEN 0 ELSE Offered(p)[t]]
    <3>1. Offered(p)' = outside
      BY <1>1 DEF Offered
    <3>2. CoinsIn(TradeId, p)' = SumOver(Offered(p)', TradeId)
      BY DEF CoinsIn, Offered
    <3>3. CoinsIn(TradeId, p) = CoinsIn(T, p) + SumOver(outside, TradeId)
      BY <1>0, CoinsInPart
    <3>4. SumOver(outside, TradeId) \in Int
      <4>1. \A t \in TradeId : outside[t] \in Int
        BY <1>0, OfferedIsNat
      <4>2. PICK k : k = outside
        OBVIOUS
      <4>3. \A t \in TradeId : k[t] \in Int
        BY <4>1, <4>2
      <4>4. SumOver(k, TradeId) \in Int
        BY <4>3, FiniteAssumption, SumLaw
      <4> QED
        BY <4>2, <4>4
    <3> HIDE DEF outside
    <3>5. CoinsIn(TradeId, p)' = SumOver(outside, TradeId)
      BY <3>1, <3>2
    <3>6. reserved[p] = CoinsIn(TradeId, p)
      BY DEF Escrows, CoinsReserved
    <3> QED
      BY <1>3, <3>3, <3>4, <3>5, <3>6
  <2>3. \A t \in Used' : \A p \in Player : trades'[t].coins[p] # 0 => IsOpen(t)' /\ p \in Parties(t)'
    <3> SUFFICES ASSUME NEW t \in Used, NEW p \in Player, trades'[t].coins[p] # 0
                 PROVE  IsOpen(t)' /\ p \in Parties(t)'
      OBVIOUS
    <3>1. t \in Used \ T /\ trades'[t] = trades[t]
      BY <1>1
    <3>2. IsOpen(t) /\ p \in Parties(t)
      BY <3>1 DEF Escrows, CoinsReserved
    <3> QED
      BY <3>1, <3>2 DEF IsOpen, Parties
  <2> QED
    BY <2>1, <2>2, <2>3 DEF CoinsReserved
<1> QED
  BY <1>2, <1>4, <1>5 DEF GoodsKept, Escrows

(* executeTrade: each party gets what the other one offered.               *)
LEMMA OtherParty ==
  ASSUME NEW t
  PROVE  /\ \A p \in Parties(t) : Other(t, p) \in Parties(t)
         /\ \A p, q \in Parties(t) : Other(t, p) = Other(t, q) => p = q
BY DEF Parties, Other

LEMMA CoinsSwapped ==
  ASSUME Stored, Escrows, NEW t \in Used, NEW confirmed, ExecuteTrade(t, confirmed)
  PROVE  CoinsKept
<1> DEFINE c == trades[t].coins
           a == trades[t].requester
           b == trades[t].receiver
           given == [p \in Player |-> IF p \in Parties(t) THEN c[p] ELSE 0]
           got == [p \in Player |-> IF p \in Parties(t) THEN c[Other(t, p)] ELSE 0]
<1>1. /\ coins \in [Player -> Nat] /\ reserved \in [Player -> Nat]
      /\ a \in Player /\ b \in Player /\ \A p \in Player : c[p] \in Nat
  <2>1. trades[t] \in TradeRecord
    BY UsedIsRecord DEF Stored
  <2> QED
    BY <2>1 DEF Escrows, CoinsReserved, TradeRecord
<1>2. /\ \A p \in Player : p # a /\ p # b => given[p] = 0 /\ got[p] = 0
      /\ given[a] = c[a] /\ given[b] = c[b] /\ got[a] = c[b] /\ got[b] = c[a]
  BY <1>1 DEF Parties, Other
<1>3. /\ \A p \in Player : coins'[p] = coins[p] + got[p] /\ coins' = [q \in Player |-> coins'[q]]
      /\ \A p \in Player : reserved[p] = reserved'[p] + given[p]
  <2>1. \A p \in Player : p \in Parties(t) => c[p] \in Nat /\ c[Other(t, p)] \in Nat
    BY <1>1 DEF Other
  <2>2. \A p \in Player :
          /\ coins'[p] = IF p \in Parties(t) THEN coins[p] + c[Other(t, p)] ELSE coins[p]
          /\ reserved'[p] = IF p \in Parties(t) THEN reserved[p] - c[p] ELSE reserved[p]
    BY DEF ExecuteTrade
  <2>3. coins' = [p \in Player |->
          IF p \in Parties(t) THEN coins[p] + trades[t].coins[Other(t, p)] ELSE coins[p]]
    BY DEF ExecuteTrade
  <2> QED
    BY <1>1, <2>1, <2>2, <2>3
<1> HIDE DEF given, got, c, a, b
<1>4. \A p \in Player : given[p] \in Int /\ got[p] \in Int
  BY <1>1, <1>2
<1>5. IsFiniteSet(Player)
  BY FiniteAssumption
<1>6. SumOver(got, Player) = SumOver(given, Player)
  <2>1. PICK g : g = got
    OBVIOUS
  <2>2. PICK f : f = given
    OBVIOUS
  <2>3. PICK x \in Player, y \in Player : x = a /\ y = b
    BY <1>1
  <2> DEFINE J == {x} \ {y}
             m == [p \in J |-> y]
             v == [p \in J |-> f[p] - g[p]]
  <2>4. \A p \in Player : f[p] \in Int /\ g[p] \in Int
    BY <1>4, <2>1, <2>2
  <2>5. f[x] = g[y] /\ f[y] = g[x] /\ \A p \in Player : p # x /\ p # y => g[p] = f[p]
    BY <1>2, <2>1, <2>2, <2>3
  <2>6. Transfers(Player, f, g, J, m, v)
    <3>1. \A d \in J : d = x /\ m[d] = y /\ y \in Player \ J /\ v[d] = f[d] - g[d]
      OBVIOUS
    <3>2. \A p \in Player \ J : p = y \/ p # x
      OBVIOUS
    <3>3. \A p \in Player \ J : (\A d \in J : m[d] # p) => g[p] = f[p]
      <4>1. CASE x = y
        BY <2>5, <4>1
      <4>2. CASE x # y
        <5>1. x \in J /\ m[x] = y
          BY <4>2
        <5> HIDE DEF m, J
        <5> QED
          BY <2>5, <3>2, <5>1
      <4> QED
        BY <4>1, <4>2
    <3> HIDE DEF m, v
    <3>4. \A d \in J : v[d] \in Int /\ m[d] \in Player \ J
      BY <2>4, <3>1
    <3>5. \A d \in J : g[d] = f[d] - v[d] /\ g[m[d]] = f[m[d]] + v[d]
      BY <2>4, <2>5, <3>1
    <3>6. J \subseteq Player /\ \A d, e \in J : m[d] = m[e] => d = e
      OBVIOUS
    <3> HIDE DEF J
    <3> QED
      BY <2>4, <3>3, <3>4, <3>5, <3>6, Zenon DEF Transfers
  <2>7. SumOver(g, Player) = SumOver(f, Player)
    <3> HIDE DEF J, m, v
    <3> QED
      BY <1>5, <2>6, SumTransfer
  <2> QED
    BY <2>1, <2>2, <2>7
<1>7. SumOver(coins', Player) = SumOver(coins, Player) + SumOver(got, Player)
  <2>1. PICK f, g, h : f = coins /\ g = got /\ h = coins'
    OBVIOUS
  <2>2. \A p \in Player : f[p] \in Int /\ g[p] \in Int /\ h[p] = f[p] + g[p]
    BY <1>1, <1>3, <1>4, <2>1
  <2>3. SumOver(h, Player) = SumOver(f, Player) + SumOver(g, Player)
    BY <1>5, <2>2, SumPointwise
  <2> QED
    BY <2>1, <2>3
<1>8. SumOver(reserved, Player) = SumOver(reserved', Player) + SumOver(given, Player)
  <2>1. PICK f, g, h : f = reserved' /\ g = given /\ h = reserved
    OBVIOUS
  <2>2. \A p \in Player : f[p] \in Int /\ g[p] \in Int /\ h[p] = f[p] + g[p]
    <3>1. \A p \in Player : reserved'[p] \in Int
      <4>1. \A p \in Player : /\ reserved'[p] = IF p \in Parties(t) THEN reserved[p] - c[p]
                                                ELSE reserved[p]
                              /\ c[p] \in Nat
        BY <1>1 DEF ExecuteTrade, c
      <4> QED
        BY <1>1, <4>1
    <3> QED
      BY <1>1, <1>3, <1>4, <2>1, <3>1
  <2>3. SumOver(h, Player) = SumOver(f, Player) + SumOver(g, Player)
    BY <1>5, <2>2, SumPointwise
  <2> QED
    BY <2>1, <2>3
<1>9. /\ SumOver(coins, Player) \in Int /\ SumOver(got, Player) \in Int
      /\ SumOver(reserved', Player) \in Int
  <2>1. PICK f, g, h : f = coins /\ g = got /\ h = reserved'
    OBVIOUS
  <2>2. \A p \in Player : f[p] \in Int /\ g[p] \in Int
    BY <1>1, <1>4, <2>1
  <2>3. \A p \in Player : h[p] \in Int
    BY <1>1, <1>3, <2>1 DEF ExecuteTrade, c
  <2>4. SumOver(f, Player) \in Int /\ SumOver(g, Player) \in Int /\ SumOver(h, Player) \in Int
    BY <1>5, <2>2, <2>3, SumLaw
  <2> QED
    BY <2>1, <2>4
<1> QED
  BY <1>6, <1>7, <1>8, <1>9 DEF CoinsKept

LEMMA ExecuteKeepsGoods ==
  ASSUME Stored, TradesOK', Escrows, NEW t \in Used, Used' = Used, NEW confirmed,
         ExecuteTrade(t, confirmed)
  PROVE  GoodsKept
<1>0. /\ TradesOK /\ t \in TradeId /\ trades[t] \in TradeRecord
      /\ trades \in [TradeId -> TradeRecord \cup {NoTrade}]
  BY UsedIsRecord DEF Stored, TradesOK
<1>1. /\ trades'[t].items = {} /\ \A p \in Player : trades'[t].coins[p] = 0
      /\ \A u \in Used \ {t} : trades'[u] = trades[u]
  <2>1. PICK r : r = trades[t]
    OBVIOUS
  <2>2. trades'[t] = [r EXCEPT !.status = "COMPLETED", !.confirmed = confirmed,
                               !.items = {}, !.coins = [p \in Player |-> 0]]
    BY <1>0, <2>1 DEF ExecuteTrade
  <2>3. trades'[t].items = {} /\ trades'[t].coins = [p \in Player |-> 0]
    BY <1>0, <2>1, <2>2 DEF TradeRecord
  <2>4. \A u \in Used \ {t} : trades'[u] = trades[u]
    BY <1>0 DEF ExecuteTrade, Used
  <2> QED
    BY <2>3, <2>4
<1>2. EntriesOK' /\ OffersBacked' /\ EscrowListed' /\ ItemsKept
  <2> DEFINE to == [e \in EntriesOf({t}) |-> Other(t, entries[e].owner)]
  <2>1. EntriesOf({t}) = {i.entry : i \in trades[t].items}
    BY <1>0, ItemIsOffer DEF EntriesOf
  <2>2. entries' = Deliver(entries, to)
    BY <2>1 DEF ExecuteTrade, Swapped
  <2>3. \A e \in EntriesOf({t}) : InEscrow(e) /\ entries[e].owner \in Parties(t)
    BY DEF Escrows, OffersBacked, Backs, Owned, InEscrow, EntriesOf
  <2>4. DOMAIN to = EntriesOf({t}) /\ DOMAIN to \subseteq EntryId
    BY DEF EntriesOf
  <2>5. \A d \in DOMAIN to : to[d] \in Player
    BY <1>0, <2>3, <2>4, OtherParty, UsedIsRecord
  <2>6. \A d, e \in DOMAIN to :
          to[d] = to[e] /\ entries[d].item = entries[e].item /\ entries[d].item \in Stackable => d = e
    <3> SUFFICES ASSUME NEW d \in DOMAIN to, NEW e \in DOMAIN to, to[d] = to[e],
                        entries[d].item = entries[e].item, entries[d].item \in Stackable
                 PROVE  d = e
      OBVIOUS
    <3>1. entries[d].owner = entries[e].owner
      BY <2>3, OtherParty
    <3> QED
      BY <2>3, <2>4, <3>1 DEF Escrows, EntriesOK, OneStack, InEscrow
  <2>7. Deliverable(entries, to)
    BY <2>3, <2>4, <2>5, <2>6 DEF Deliverable, InEscrow
  <2> HIDE DEF to
  <2>8. {t} \in SUBSET Used
    OBVIOUS
  <2>9. \A u \in {t} : trades'[u].items = {}
    BY <1>1
  <2> QED
    BY <1>1, <2>2, <2>4, <2>7, <2>8, <2>9, TradesEmptied
<1>3. CoinsKept
  BY CoinsSwapped
<1>4. CoinsReserved'
  <2>1. \A p \in Player : /\ coins[p] \in Nat /\ reserved[p] \in Nat /\ trades[t].coins[p] \in Nat
                          /\ p \in Parties(t) => trades[t].coins[p] <= reserved[p]
                          /\ p \notin Parties(t) => trades[t].coins[p] = 0
    BY <1>0 DEF Escrows, CoinsReserved, ExecuteTrade, Intact, TradeRecord
  <2>2. \A p \in Player :
          /\ coins'[p] = IF p \in Parties(t) THEN coins[p] + trades[t].coins[Other(t, p)] ELSE coins[p]
          /\ reserved'[p] = IF p \in Parties(t) THEN reserved[p] - trades[t].coins[p] ELSE reserved[p]
    BY DEF ExecuteTrade
  <2>3. \A p \in Player : coins'[p] \in Nat /\ reserved'[p] \in Nat
                          /\ reserved'[p] = reserved[p] - trades[t].coins[p] + 0
    <3>1. \A p \in Player : p \in Parties(t) => trades[t].coins[Other(t, p)] \in Nat
      BY <1>0, <2>1, OtherParty, UsedIsRecord
    <3> QED
      BY <2>1, <2>2, <3>1
  <2>4. coins' \in [Player -> Nat] /\ reserved' \in [Player -> Nat]
    <3>1. coins' = [p \in Player |-> coins'[p]] /\ reserved' = [p \in Player |-> reserved'[p]]
      BY DEF ExecuteTrade
    <3> QED
      BY <2>3, <3>1
  <2>5. ASSUME NEW p \in Player PROVE reserved'[p] = CoinsIn(TradeId, p)'
    <3>1. reserved'[p] = reserved[p] - trades[t].coins[p] + trades'[t].coins[p]
      BY <1>1, <2>3
    <3>2. \A u \in Used \ {t} : trades'[u].coins[p] = trades[u].coins[p]
      BY <1>1
    <3> QED
      BY <1>0, <3>1, <3>2, ReservesFollow
  <2>6. \A u \in Used' : \A p \in Player : trades'[u].coins[p] # 0 => IsOpen(u)' /\ p \in Parties(u)'
    <3> SUFFICES ASSUME NEW u \in Used, NEW p \in Player, trades'[u].coins[p] # 0
                 PROVE  IsOpen(u)' /\ p \in Parties(u)'
      OBVIOUS
    <3>1. u \in Used \ {t} /\ trades'[u] = trades[u]
      BY <1>1
    <3>2. IsOpen(u) /\ p \in Parties(u)
      BY <3>1 DEF Escrows, CoinsReserved
    <3> QED
      BY <3>1, <3>2 DEF IsOpen, Parties
  <2> QED
    BY <2>4, <2>5, <2>6 DEF CoinsReserved
<1> QED
  BY <1>2, <1>3, <1>4 DEF GoodsKept, Escrows

-----------------------------------------------------------------------------
(* updateTradeOffer: once the old offer has been returned, nothing of the  *)
(* player's is in escrow, because it is in no other open trade.            *)
LEMMA OfferTakenBack ==
  ASSUME Stored, Escrows, NEW t \in Used, NEW p \in Parties(t), IsOpen(t),
         NEW es, es = Returned({t}, {p})
  PROVE  /\ es \in Inventories /\ OneStack(es)
         /\ \A item : AmountOf(es, item) = AmountOf(entries, item)
         /\ \A e \in EntryId : /\ ~ Owned(es, e, p, "TRADE_ESCROW")
                               /\ es[e] # NoEntry /\ es[e].place = "TRADE_ESCROW" =>
                                    InEscrow(e) /\ es[e] = entries[e]
                               /\ InEscrow(e) /\ entries[e].owner # p => es[e] = entries[e]
<1> DEFINE E == Escrowed({t}, {p})
           to == [e \in E |-> entries[e].owner]
<1>0. entries \in Inventories /\ OneStack(entries) /\ TradesOK /\ p \in Player
  BY UsedIsRecord DEF Escrows, EntriesOK, Inventories, Stored
<1>1. \A e \in E : e \in EntryId /\ InEscrow(e) /\ entries[e].owner = p
  BY DEF Escrowed, Owned, InEscrow
<1>2. es = Deliver(entries, to)
  BY DEF Returned
<1>3. Deliverable(entries, to) /\ DOMAIN to = E
  BY <1>1, Returnable
<1> HIDE DEF to
<1>4. ASSUME NEW e \in EntryId, InEscrow(e), entries[e].owner = p
      PROVE  e \in E
  <2>1. PICK u \in Used : \E i \in trades[u].items : Lists(u, i, e)
    BY <1>4 DEF Escrows, EscrowListed
  <2>2. PICK i \in trades[u].items : Lists(u, i, e)
    BY <2>1
  <2>3. Backs(u, i) /\ i.entry = e
    BY <2>2 DEF Escrows, OffersBacked, Lists
  <2>4. i.player = p /\ IsOpen(u) /\ p \in Parties(u)
    BY <1>4, <2>3 DEF Backs, Owned
  <2>5. u = t
    BY <1>0, <2>4 DEF Stored, Single, OpenTradesOf, Used
  <2> QED
    BY <2>2, <2>3, <2>4, <2>5 DEF Escrowed, Backs
<1>5. \A e \in E : es[e] # NoEntry => es[e].place = "INVENTORY"
  BY <1>0, <1>2, <1>3, DeliverMoves
<1>6. \A e \in EntryId \ E :
        /\ es[e] # NoEntry /\ es[e].place = "TRADE_ESCROW" => InEscrow(e) /\ es[e] = entries[e]
        /\ InEscrow(e) => es[e] = entries[e]
  BY <1>0, <1>2, <1>3, DeliverKeeps DEF InEscrow
<1>7. /\ es \in Inventories /\ OneStack(es)
      /\ \A item : AmountOf(es, item) = AmountOf(entries, item)
  BY <1>0, <1>2, <1>3, DeliverTypes, DeliverOneStack, DeliverAmounts
<1>8. ASSUME NEW e \in EntryId
      PROVE  /\ ~ Owned(es, e, p, "TRADE_ESCROW")
             /\ es[e] # NoEntry /\ es[e].place = "TRADE_ESCROW" => InEscrow(e) /\ es[e] = entries[e]
             /\ InEscrow(e) /\ entries[e].owner # p => es[e] = entries[e]
  <2> HIDE DEF E
  <2>1. CASE e \in E
    BY <1>1, <1>5, <2>1 DEF Owned
  <2>2. CASE e \notin E
    BY <1>4, <1>6, <2>2 DEF Owned
  <2> QED
    BY <2>1, <2>2
<1> QED
  BY <1>7, <1>8

LEMMA UpdateKeepsGoods ==
  ASSUME Stored, TradesOK', Escrows, NEW p \in Player, NEW t \in TradeId, NEW amount \in CoinOffer,
         UpdateTradeOffer(p, t, amount), Used' = Used
  PROVE  GoodsKept
<1>1. /\ t \in Used /\ IsOpen(t) /\ p \in Parties(t) /\ TradesOK /\ trades[t] \in TradeRecord
      /\ trades \in [TradeId -> TradeRecord \cup {NoTrade}] /\ amount \in Nat
      /\ Funds(p, {t}, amount)
      /\ coins' = [coins EXCEPT ![p] = @ + CoinsIn({t}, p) - amount]
      /\ reserved' = [reserved EXCEPT ![p] = @ - CoinsIn({t}, p) + amount]
  BY UsedIsRecord, OfferAssumption DEF UpdateTradeOffer, Stored, TradesOK, IsOpen
<1>2. \E S \in SUBSET {e \in EntryId : Owned(Returned({t}, {p}), e, p, "INVENTORY")} :
      \E quantity \in [S -> Quantity] :
      \E into \in EscrowIds(Returned({t}, {p}), quantity) :
        LET after == Escrow(Returned({t}, {p}), quantity, into)
            items == {[player |-> p, entry |-> into[e], quantity |-> quantity[e]] : e \in S}
        IN  /\ Covers(Returned({t}, {p}), quantity)
            /\ Persisted(after, p)
            /\ entries' = after
            /\ trades' = [trades EXCEPT ![t] = Revised(@, p, items, amount)]
  BY Zenon DEF UpdateTradeOffer
<1> DEFINE Chosen(S, quantity, into) ==
             /\ Covers(Returned({t}, {p}), quantity)
             /\ entries' = Escrow(Returned({t}, {p}), quantity, into)
             /\ trades' = [trades EXCEPT ![t] = Revised(trades[t], p,
                  {[player |-> p, entry |-> into[e], quantity |-> quantity[e]] : e \in S}, amount)]
<1>3. PICK S \in SUBSET {e \in EntryId : Owned(Returned({t}, {p}), e, p, "INVENTORY")} :
      \E quantity \in [S -> Quantity] :
      \E into \in EscrowIds(Returned({t}, {p}), quantity) : Chosen(S, quantity, into)
  BY <1>2, Zenon
<1>4. PICK quantity \in [S -> Quantity] :
      \E into \in EscrowIds(Returned({t}, {p}), quantity) : Chosen(S, quantity, into)
  BY <1>3
<1>5. PICK into \in EscrowIds(Returned({t}, {p}), quantity) : Chosen(S, quantity, into)
  BY <1>4
<1>0. PICK es : es = Returned({t}, {p})
  OBVIOUS
<1>6. /\ S \in SUBSET {e \in EntryId : Owned(es, e, p, "INVENTORY")}
      /\ into \in EscrowIds(es, quantity) /\ Covers(es, quantity)
      /\ entries' = Escrow(es, quantity, into)
      /\ trades' = [trades EXCEPT ![t] = Revised(trades[t], p,
           {[player |-> p, entry |-> into[e], quantity |-> quantity[e]] : e \in S}, amount)]
  BY <1>5, <1>0
<1> HIDE DEF Chosen
<1> DEFINE listed == {[player |-> p, entry |-> into[e], quantity |-> quantity[e]] : e \in S}
           kept == {i \in trades[t].items : i.player # p}
<1>7. /\ es \in Inventories /\ OneStack(es)
      /\ \A item : AmountOf(es, item) = AmountOf(entries, item)
      /\ \A e \in EntryId : /\ ~ Owned(es, e, p, "TRADE_ESCROW")
                            /\ es[e] # NoEntry /\ es[e].place = "TRADE_ESCROW" =>
                                 InEscrow(e) /\ es[e] = entries[e]
                            /\ InEscrow(e) /\ entries[e].owner # p => es[e] = entries[e]
  BY <1>1, <1>0, OfferTakenBack
<1>8. MayEscrow(es, p, quantity, into) /\ DOMAIN quantity = S
  <2>1. DOMAIN quantity = S /\ \A e \in S : quantity[e] \in Nat \ {0}
    BY OfferAssumption
  <2>2. \A e \in S : /\ e \in EntryId /\ Owned(es, e, p, "INVENTORY")
                     /\ quantity[e] \in Nat \ {0} /\ quantity[e] <= es[e].quantity
    BY <1>6, <2>1 DEF Covers
  <2> QED
    BY <1>6, <1>7, <2>1, <2>2 DEF MayEscrow
<1>9. EntriesOK' /\ ItemsKept
  <2>1. entries' \in Inventories /\ OneStack(entries')
    BY <1>6, <1>8, EscrowTypes, EscrowOneStack
  <2>2. \A item \in Item : AmountOf(entries', item) = AmountOf(es, item)
    BY <1>6, <1>8, EscrowAmounts
  <2> QED
    BY <1>7, <2>1, <2>2 DEF EntriesOK, Inventories, OneStack, ItemsKept
<1>10. /\ trades'[t].items = kept \cup listed
       /\ trades'[t].coins = [trades[t].coins EXCEPT ![p] = amount]
       /\ Parties(t)' = Parties(t) /\ IsOpen(t)'
       /\ \A u \in Used \ {t} : trades'[u] = trades[u]
  <2>1. PICK r : r = trades[t]
    OBVIOUS
  <2>2. trades'[t] = Revised(r, p, listed, amount) /\ \A u \in Used \ {t} : trades'[u] = trades[u]
    BY <1>1, <1>6, <2>1 DEF Used
  <2> HIDE DEF listed
  <2>3. /\ trades'[t].items = {i \in r.items : i.player # p} \cup listed
        /\ trades'[t].coins = [r.coins EXCEPT ![p] = amount]
        /\ trades'[t].requester = r.requester /\ trades'[t].receiver = r.receiver
        /\ trades'[t].status = r.status
    BY <1>1, <2>1, <2>2 DEF Revised, TradeRecord
  <2> QED
    BY <1>1, <2>1, <2>2, <2>3 DEF Parties, IsOpen
<1>11. \A i \in listed : \E d \in S : /\ i.entry = into[d] /\ i.player = p /\ i.quantity = quantity[d]
                                      /\ i = [player |-> p, entry |-> into[d], quantity |-> quantity[d]]
  OBVIOUS
<1>12. \A d \in S : [player |-> p, entry |-> into[d], quantity |-> quantity[d]] \in listed
  OBVIOUS
<1>13. \A d \in S : /\ into[d] \in EntryId
                    /\ entries'[into[d]] # NoEntry
                    /\ entries'[into[d]].owner = p /\ entries'[into[d]].place = "TRADE_ESCROW"
                    /\ entries'[into[d]].quantity = quantity[d]
  BY <1>6, <1>8, EscrowPuts, NullAssumption
<1>14. \A d, e \in S : into[d] = into[e] => d = e
  BY <1>8 DEF MayEscrow, EscrowIds
<1> HIDE DEF listed, kept
<1>15. ASSUME NEW u \in Used, NEW i \in trades'[u].items, ~ (u = t /\ i \in listed)
       PROVE  i \in trades[u].items /\ i.player # p
  <2>1. CASE u = t
    BY <1>10, <1>15, <2>1 DEF kept
  <2>2. CASE u # t
    <3>1. i \in trades[u].items
      BY <1>10, <2>2
    <3>2. Backs(u, i)
      BY <3>1 DEF Escrows, OffersBacked
    <3>3. i.player # p
      BY <1>1, <2>2, <3>2 DEF Backs, Stored, Single, OpenTradesOf, Used
    <3> QED
      BY <3>1, <3>3
  <2> QED
    BY <2>1, <2>2
(* The other players' entries in escrow are not touched.                   *)
<1>16. ASSUME NEW e \in EntryId, InEscrow(e), entries[e].owner # p
       PROVE  entries'[e] = entries[e] /\ \A d \in S : into[d] # e
  <2>1. es[e] = entries[e] /\ es[e] # NoEntry /\ es[e].place = "TRADE_ESCROW"
    BY <1>7, <1>16 DEF InEscrow
  <2>2. e \notin S
    BY <1>6, <2>1 DEF Owned
  <2>3. \A d \in S : into[d] # e
    <3>1. \A d \in S : into[d] = d \/ es[into[d]] = NoEntry
      BY <1>8 DEF MayEscrow, EscrowIds
    <3> QED
      BY <2>1, <2>2, <3>1
  <2>4. entries'[e] = es[e]
    BY <1>6, <1>8, <2>2, <2>3, EscrowLeaves
  <2> QED
    BY <2>1, <2>3, <2>4
<1>17. ASSUME NEW e \in EntryId, InEscrow(e)', \A d \in S : into[d] # e
       PROVE  InEscrow(e) /\ entries[e].owner # p
  <2>1. CASE e \in S
    <3>1. entries'[e].place = "INVENTORY"
      BY <1>6, <1>8, <1>17, <2>1, EscrowTakes
    <3> QED
      BY <1>17, <3>1 DEF InEscrow
  <2>2. CASE e \notin S
    <3>1. entries'[e] = es[e]
      BY <1>6, <1>8, <1>17, <2>2, EscrowLeaves
    <3>2. es[e] # NoEntry /\ es[e].place = "TRADE_ESCROW"
      BY <1>17, <3>1 DEF InEscrow
    <3> QED
      BY <1>7, <3>2 DEF Owned
  <2> QED
    BY <2>1, <2>2
<1>18. OffersBacked'
  <2> SUFFICES ASSUME NEW u \in Used, NEW i \in trades'[u].items
               PROVE  Backs(u, i)'
    BY DEF OffersBacked
  <2>1. CASE u = t /\ i \in listed
    <3>1. PICK d \in S : i.entry = into[d] /\ i.player = p /\ i.quantity = quantity[d]
      BY <1>11, <2>1
    <3> QED
      BY <1>1, <1>10, <1>13, <2>1, <3>1 DEF Backs, Owned
  <2>2. CASE ~ (u = t /\ i \in listed)
    <3>1. i \in trades[u].items /\ i.player # p
      BY <1>15, <2>2
    <3>2. Backs(u, i) /\ i.entry \in EntryId
      BY <1>1, <3>1, ItemIsOffer DEF Escrows, OffersBacked
    <3>3. InEscrow(i.entry) /\ entries[i.entry].owner # p
      BY <3>1, <3>2 DEF Backs, Owned, InEscrow
    <3>4. entries'[i.entry] = entries[i.entry]
      BY <1>16, <3>2, <3>3
    <3>5. IsOpen(u)' /\ Parties(u)' = Parties(u)
      BY <1>10, <3>2 DEF Backs, IsOpen, Parties
    <3> QED
      BY <3>2, <3>4, <3>5 DEF Backs, Owned
  <2> QED
    BY <2>1, <2>2
<1>19. EscrowListed'
  <2> SUFFICES ASSUME NEW e \in EntryId, InEscrow(e)'
               PROVE  \E u \in Used : \E i \in trades'[u].items : Lists(u, i, e)'
    BY DEF EscrowListed
  <2>1. ASSUME NEW d \in S, into[d] = e
        PROVE  \E u \in Used : \E i \in trades'[u].items : Lists(u, i, e)'
    <3>1. PICK i : i = [player |-> p, entry |-> into[d], quantity |-> quantity[d]]
      OBVIOUS
    <3>2. i \in trades'[t].items /\ i.entry = e
      BY <1>10, <1>12, <2>1, <3>1
    <3>3. ASSUME NEW u \in Used, NEW j \in trades'[u].items, j.entry = e
          PROVE  u = t /\ j = i
      <4>1. u = t /\ j \in listed
        <5>1. SUFFICES ASSUME ~ (u = t /\ j \in listed) PROVE FALSE
          OBVIOUS
        <5>2. j \in trades[u].items /\ j.player # p
          BY <1>15, <5>1
        <5>3. Owned(entries, e, j.player, "TRADE_ESCROW")
          BY <3>3, <5>2 DEF Escrows, OffersBacked, Backs
        <5> QED
          BY <1>16, <2>1, <5>2, <5>3 DEF Owned, InEscrow
      <4>2. PICK x \in S : into[x] = e /\ j = [player |-> p, entry |-> into[x], quantity |-> quantity[x]]
        BY <1>11, <3>3, <4>1
      <4> QED
        BY <1>14, <2>1, <3>1, <4>1, <4>2
    <3>4. Lists(t, i, e)'
      BY <3>2, <3>3 DEF Lists
    <3> QED
      BY <1>1, <3>2, <3>4
  <2>2. CASE \A d \in S : into[d] # e
    <3>1. InEscrow(e) /\ entries[e].owner # p
      BY <1>17, <2>2
    <3>2. PICK u \in Used : \E i \in trades[u].items : Lists(u, i, e)
      BY <3>1 DEF Escrows, EscrowListed
    <3>3. PICK i \in trades[u].items : Lists(u, i, e)
      BY <3>2
    <3>4. i.player # p
      BY <3>1, <3>3 DEF Escrows, OffersBacked, Backs, Owned, Lists
    <3>5. i \in trades'[u].items
      BY <1>10, <3>3, <3>4 DEF kept
    <3>6. ASSUME NEW v \in Used, NEW j \in trades'[v].items, j.entry = e
          PROVE  v = u /\ j = i
      <4>1. ~ (v = t /\ j \in listed)
        BY <1>11, <2>2, <3>6
      <4>2. j \in trades[v].items
        BY <1>15, <4>1
      <4> QED
        BY <3>3, <3>6, <4>2 DEF Lists
    <3>7. Lists(u, i, e)'
      BY <3>3, <3>6 DEF Lists
    <3> QED
      BY <3>5, <3>7
  <2> QED
    BY <2>1, <2>2
<1>20. /\ coins \in [Player -> Nat] /\ reserved \in [Player -> Nat]
       /\ CoinsIn({t}, p) = trades[t].coins[p] /\ trades[t].coins[p] \in Nat
       /\ trades[t].coins[p] <= reserved[p] /\ coins[p] + trades[t].coins[p] >= amount
  <2>1. CoinsIn({t}, p) = trades[t].coins[p]
    BY <1>1, CoinsInOne
  <2>2. /\ CoinsIn({t}, p) \in Nat
        /\ CoinsIn(TradeId, p) = CoinsIn({t}, p) +
             SumOver([u \in TradeId |-> IF u \in {t} THEN 0 ELSE Offered(p)[u]], TradeId)
    BY <1>1, CoinsInPart
  <2>3. SumOver([u \in TradeId |-> IF u \in {t} THEN 0 ELSE Offered(p)[u]], TradeId) \in Nat
    <3>1. PICK k : k = [u \in TradeId |-> IF u \in {t} THEN 0 ELSE Offered(p)[u]]
      OBVIOUS
    <3>2. \A u \in TradeId : k[u] \in Nat
      BY <1>1, <3>1, OfferedIsNat
    <3>3. SumOver(k, TradeId) \in Nat
      BY <3>2, FiniteAssumption, SumOfNaturals
    <3> QED
      BY <3>1, <3>3
  <2>4. coins \in [Player -> Nat] /\ reserved \in [Player -> Nat] /\ reserved[p] = CoinsIn(TradeId, p)
    BY DEF Escrows, CoinsReserved
  <2>5. coins[p] + CoinsIn({t}, p) >= amount
    BY <1>1 DEF Funds
  <2> QED
    BY <2>1, <2>2, <2>3, <2>4, <2>5
<1>21. /\ coins'[p] = coins[p] + trades[t].coins[p] - amount
       /\ reserved'[p] = reserved[p] - trades[t].coins[p] + amount
       /\ \A q \in Player \ {p} : coins'[q] = coins[q] /\ reserved'[q] = reserved[q]
  BY <1>1, <1>20
<1>22. \A q \in Player : coins'[q] \in Nat /\ reserved'[q] \in Nat
  BY <1>1, <1>20, <1>21
<1>23. CoinsKept
  <2>1. \A q \in Player : /\ coins[q] \in Int /\ reserved[q] \in Int
                          /\ coins'[q] \in Int /\ reserved'[q] \in Int
                          /\ coins'[q] + reserved'[q] = coins[q] + reserved[q]
    BY <1>1, <1>20, <1>21, <1>22
  <2> QED
    BY <2>1, WalletsKept
<1>24. CoinsReserved'
  <2>1. coins' \in [Player -> Nat] /\ reserved' \in [Player -> Nat]
    <3>1. coins' = [q \in Player |-> coins'[q]] /\ reserved' = [q \in Player |-> reserved'[q]]
      BY <1>1, <1>20
    <3> QED
      BY <1>22, <3>1
  <2>2. trades[t].coins \in [Player -> Nat]
    BY <1>1 DEF TradeRecord
  <2>3. \A q \in Player : trades'[t].coins[q] = IF q = p THEN amount ELSE trades[t].coins[q]
    BY <1>10, <2>2
  <2>4. ASSUME NEW q \in Player PROVE reserved'[q] = CoinsIn(TradeId, q)'
    <3>1. reserved'[q] = reserved[q] - trades[t].coins[q] + trades'[t].coins[q]
      BY <1>20, <1>21, <2>2, <2>3
    <3>2. \A u \in Used \ {t} : trades'[u].coins[q] = trades[u].coins[q]
      BY <1>10
    <3> QED
      BY <1>1, <3>1, <3>2, ReservesFollow
  <2>5. ASSUME NEW u \in Used, NEW q \in Player, trades'[u].coins[q] # 0
        PROVE  IsOpen(u)' /\ q \in Parties(u)'
    <3>1. CASE u = t
      <4>1. q \in Parties(t)
        BY <1>1, <2>3, <2>5, <3>1 DEF Escrows, CoinsReserved
      <4> QED
        BY <1>10, <3>1, <4>1
    <3>2. CASE u # t
      BY <1>10, <2>5, <3>2 DEF Escrows, CoinsReserved, IsOpen, Parties
    <3> QED
      BY <3>1, <3>2
  <2> QED
    BY <2>1, <2>4, <2>5 DEF CoinsReserved
<1> QED
  BY <1>9, <1>18, <1>19, <1>23, <1>24 DEF GoodsKept, Escrows

-----------------------------------------------------------------------------
(* The steps that leave every offer as it is.                              *)
LEMMA NewTradeKeepsGoods ==
  ASSUME Stored, TradesOK', Escrows, NEW p \in Player, NEW q \in Player, NewTrade(p, q)
  PROVE  GoodsKept
<1> DEFINE r == [requester |-> p, receiver |-> q, status |-> "REQUESTED", revision |-> 0,
                 confirmed |-> [x \in Player |-> Unconfirmed],
                 items |-> {}, coins |-> [x \in Player |-> 0]]
<1>1. PICK t \in TradeId \ Used : trades' = [trades EXCEPT ![t] = r]
  BY DEF NewTrade
<1>2. TradesOK /\ trades \in [TradeId -> TradeRecord \cup {NoTrade}]
  BY DEF Stored, TradesOK
<1>3. r.items = {} /\ \A x \in Player : r.coins[x] = 0
  OBVIOUS
<1>4. r \in TradeRecord
  BY DEF TradeRecord, TradeStatus, Unconfirmed
<1> HIDE DEF r
<1>5. trades'[t] = r /\ \A u \in TradeId \ {t} : trades'[u] = trades[u]
  BY <1>1, <1>2
<1>6. Used' = Used \cup {t} /\ t \notin Used
  BY <1>4, <1>5, NullAssumption DEF Used
<1>7. \A u \in Used : trades'[u] = trades[u]
  BY <1>5 DEF Used
<1>8. \A u \in Used : /\ trades'[u].items = trades[u].items /\ trades'[u].coins = trades[u].coins
                      /\ Parties(u)' = Parties(u) /\ (IsOpen(u) => IsOpen(u)')
  BY <1>6, <1>7 DEF Parties, IsOpen
<1>9. \A u \in Used' \ Used : trades'[u].items = {} /\ \A x \in Player : trades'[u].coins[x] = 0
  BY <1>3, <1>5, <1>6
<1> QED
  BY <1>2, <1>6, <1>8, <1>9, OffersStay DEF NewTrade

(* One trade's record changes, but neither its parties nor its offers.     *)
LEMMA OfferlessChange ==
  ASSUME Stored, TradesOK', Escrows, NEW t \in Used, NEW r \in TradeRecord,
         trades' = [trades EXCEPT ![t] = r], UNCHANGED <<entries, coins, reserved>>,
         r.items = trades[t].items, r.coins = trades[t].coins,
         r.requester = trades[t].requester, r.receiver = trades[t].receiver,
         r.status \in {"REQUESTED", "ACTIVE"}
  PROVE  GoodsKept
<1>1. TradesOK /\ trades \in [TradeId -> TradeRecord \cup {NoTrade}] /\ t \in TradeId
  BY DEF Stored, TradesOK, Used
<1>2. trades'[t] = r /\ \A u \in TradeId \ {t} : trades'[u] = trades[u]
  BY <1>1
<1>3. Used' = Used
  BY <1>1, <1>2, NullAssumption DEF Used
<1>4. \A u \in Used : /\ trades'[u].items = trades[u].items /\ trades'[u].coins = trades[u].coins
                      /\ Parties(u)' = Parties(u) /\ (IsOpen(u) => IsOpen(u)')
  BY <1>2, <1>3 DEF Parties, IsOpen, Used
<1> QED
  BY <1>1, <1>3, <1>4, OffersStay

LEMMA ActivateKeepsGoods ==
  ASSUME Stored, TradesOK', Escrows, NEW p \in Player, NEW t \in TradeId, Activate(p, t)
  PROVE  GoodsKept
<1>1. PICK r : r = [trades[t] EXCEPT !.status = "ACTIVE"]
  OBVIOUS
<1>2. t \in Used /\ trades[t] \in TradeRecord
  BY UsedIsRecord DEF Activate, Stored
<1>3. /\ r \in TradeRecord /\ r.status = "ACTIVE" /\ r.items = trades[t].items
      /\ r.coins = trades[t].coins
      /\ r.requester = trades[t].requester /\ r.receiver = trades[t].receiver
  BY <1>1, <1>2 DEF TradeRecord, TradeStatus
<1>4. trades' = [trades EXCEPT ![t] = r] /\ UNCHANGED <<entries, coins, reserved>>
  BY <1>1 DEF Activate, Stored, TradesOK
<1> QED
  BY <1>2, <1>3, <1>4, OfferlessChange

LEMMA StoredStaysGoods ==
  ASSUME Stored, TradesOK', Escrows, UNCHANGED stored
  PROVE  GoodsKept
<1>1. TradesOK /\ Used' = Used /\ UNCHANGED <<entries, coins, reserved, trades>>
  BY DEF stored, Used, Stored
<1>2. \A u \in Used : /\ trades'[u].items = trades[u].items /\ trades'[u].coins = trades[u].coins
                      /\ Parties(u)' = Parties(u) /\ (IsOpen(u) => IsOpen(u)')
  BY <1>1 DEF Parties, IsOpen
<1> QED
  BY <1>1, <1>2, OffersStay

LEMMA ConfirmKeepsGoods ==
  ASSUME Stored, Shown, TradesOK', Escrows, Used' = Used, NEW p \in Player, ConfirmTrade(p)
  PROVE  GoodsKept
<1> DEFINE t == sent[p].trade
           confirmed == [trades[t].confirmed EXCEPT ![p] = sent[p].revision]
<1>1. /\ t \in Used /\ trades[t] \in TradeRecord /\ sent[p].revision \in Nat
      /\ TradesOK
  BY UsedIsRecord DEF ConfirmTrade, Shown, Stored
<1>2. CASE UNCHANGED stored
  BY <1>2, StoredStaysGoods
<1>3. CASE ExecuteTrade(t, confirmed)
  <2>1. PICK u \in Used : u = t
    BY <1>1
  <2>2. PICK c : c = confirmed
    OBVIOUS
  <2>3. ExecuteTrade(u, c)
    BY <1>3, <2>1, <2>2
  <2> QED
    BY <2>3, ExecuteKeepsGoods
<1>4. CASE /\ trades[t].status = "ACTIVE" /\ trades' = [trades EXCEPT ![t].confirmed = confirmed]
           /\ UNCHANGED <<entries, coins, reserved>>
  <2>1. PICK u \in Used : u = t
    BY <1>1
  <2>2. confirmed \in [Player -> Nat \cup {Unconfirmed}]
    BY <1>1 DEF TradeRecord
  <2> HIDE DEF confirmed, t
  <2>3. PICK r : r = [trades[u] EXCEPT !.confirmed = confirmed]
    OBVIOUS
  <2>4. /\ r \in TradeRecord /\ r.status = "ACTIVE" /\ r.items = trades[u].items
        /\ r.coins = trades[u].coins
        /\ r.requester = trades[u].requester /\ r.receiver = trades[u].receiver
    BY <1>1, <1>4, <2>1, <2>2, <2>3 DEF TradeRecord
  <2>5. trades' = [trades EXCEPT ![u] = r]
    BY <1>1, <1>4, <2>1, <2>3 DEF TradesOK
  <2> QED
    BY <1>4, <2>4, <2>5, OfferlessChange
<1> QED
  BY <1>2, <1>3, <1>4 DEF ConfirmTrade

LEMMA ClosingKeepsGoods ==
  ASSUME Agreement, TradesOK', Escrows, UNCHANGED sent,
         NEW T \in SUBSET Used, NEW status \in {"CANCELLED", "DECLINED"},
         CanClose(T), Close(T, status)
  PROVE  GoodsKept
<1>1. Used' = Used
  BY CloseStep DEF Agreement
<1> QED
  BY <1>1, CloseKeepsGoods DEF Agreement

LEMMA GoodsStep ==
  ASSUME Agreement, Escrows, [Next]_vars
  PROVE  GoodsKept
<1>0. Stored /\ Shown /\ Waiting /\ TradesOK'
  BY AgreementStep DEF Agreement, Stored
<1>1. ASSUME NEW p \in Player, NEW q \in Player, RequestTrade(p, q) \/ BeginRequest(p, q)
      PROVE  GoodsKept
  BY <1>0, <1>1, NewTradeKeepsGoods, StoredStaysGoods DEF RequestTrade, BeginRequest
<1>2. ASSUME NEW p \in Player, NEW t \in TradeId, AcceptTrade(p, t) \/ BeginAccept(p, t)
      PROVE  GoodsKept
  BY <1>0, <1>2, ActivateKeepsGoods, StoredStaysGoods DEF AcceptTrade, BeginAccept
<1>3. ASSUME NEW c \in open, Commit(c)
      PROVE  GoodsKept
  <2>1. CASE c[1] = "request" /\ NewTrade(c[2], c[3])
    <3>1. PICK p \in Player, q \in Player : NewTrade(p, q)
      BY <1>0, <2>1 DEF Waiting
    <3> QED
      BY <1>0, <3>1, NewTradeKeepsGoods
  <2>2. CASE c[1] = "accept" /\ Activate(c[2], c[3])
    <3>1. PICK p \in Player, t \in TradeId : Activate(p, t)
      BY <1>0, <2>2 DEF Waiting
    <3> QED
      BY <1>0, <3>1, ActivateKeepsGoods
  <2>3. CASE UNCHANGED stored
    BY <1>0, <2>3, StoredStaysGoods
  <2> QED
    BY <1>3, <2>1, <2>2, <2>3 DEF Commit
<1>4. ASSUME NEW p \in Player, NEW t \in TradeId, NEW amount \in CoinOffer, UpdateTradeOffer(p, t, amount)
      PROVE  GoodsKept
  <2>1. Used' = Used
    BY <1>0, <1>4, UpdateTradeOfferStep
  <2> QED
    BY <1>0, <1>4, <2>1, UpdateKeepsGoods
<1>5. ASSUME NEW p \in Player, NEW t \in TradeId, SendConfirmation(p, t)
      PROVE  GoodsKept
  BY <1>0, <1>5, StoredStaysGoods DEF SendConfirmation
<1>6. ASSUME NEW p \in Player, ConfirmTrade(p)
      PROVE  GoodsKept
  <2>1. Used' = Used
    BY <1>0, <1>6, ConfirmTradeStep
  <2> QED
    BY <1>0, <1>6, <2>1, ConfirmKeepsGoods
<1>7. ASSUME NEW t \in TradeId, NEW status \in {"CANCELLED", "DECLINED"}, CloseTrade(t, status)
      PROVE  GoodsKept
  <2>1. {t} \in SUBSET Used /\ CanClose({t}) /\ Close({t}, status) /\ UNCHANGED sent
    BY <1>7 DEF CloseTrade, memory
  <2> QED
    BY <1>0, <2>1, ClosingKeepsGoods
<1>8. ASSUME NEW p \in Player, NEW t \in TradeId, CancelForDisconnect(p, t)
      PROVE  GoodsKept
  <2>1. CASE CanClose({t}) /\ Close({t}, "CANCELLED")
    <3>1. {t} \in SUBSET Used /\ UNCHANGED sent
      BY <1>0, <1>8 DEF CancelForDisconnect, Waiting
    <3> QED
      BY <1>0, <2>1, <3>1, ClosingKeepsGoods
  <2>2. CASE UNCHANGED stored
    BY <1>0, <2>2, StoredStaysGoods
  <2> QED
    BY <1>8, <2>1, <2>2 DEF CancelForDisconnect
<1>9. CASE Startup
  <2> DEFINE orphans == {t \in TradeId : IsOpen(t)}
  <2>1. orphans \in SUBSET Used /\ UNCHANGED sent
    BY <1>9 DEF IsOpen, Startup, memory
  <2>2. CASE CanClose(orphans) /\ Close(orphans, "CANCELLED")
    <3>1. PICK T \in SUBSET Used : T = orphans
      BY <2>1
    <3> HIDE DEF orphans
    <3>2. CanClose(T) /\ Close(T, "CANCELLED")
      BY <2>2, <3>1
    <3> QED
      BY <1>0, <2>1, <3>2, ClosingKeepsGoods
  <2>3. CASE UNCHANGED stored
    BY <1>0, <2>3, StoredStaysGoods
  <2> QED
    BY <1>9, <2>2, <2>3 DEF Startup
<1>10. CASE \/ \E p \in Player :
                 Connect(p) \/ StartFight(p) \/ EndFight(p) \/ Disconnect(p) \/ ReadForDisconnect(p)
            \/ Crash \/ UNCHANGED vars
  <2>1. UNCHANGED stored
    BY <1>10 DEF Connect, StartFight, EndFight, Disconnect, ReadForDisconnect, Crash, vars
  <2> QED
    BY <1>0, <2>1, StoredStaysGoods
<1> QED
  BY <1>1, <1>2, <1>3, <1>4, <1>5, <1>6, <1>7, <1>8, <1>9, <1>10 DEF Next

-----------------------------------------------------------------------------
LEMMA NothingOfferedYet ==
  ASSUME Init
  PROVE  Escrows /\ NothingIsMadeOrLost
<1>1. Used = {} /\ entries = InitialEntries /\ coins = InitialCoins /\ reserved = [p \in Player |-> 0]
  BY DEF Init, Used
<1>2. EntriesOK /\ OffersBacked
  BY <1>1, HoldingsAssumption DEF EntriesOK, OffersBacked
<1>3. EscrowListed
  BY <1>1, HoldingsAssumption DEF EscrowListed, InEscrow
<1>4. CoinsReserved
  <2>1. ASSUME NEW p \in Player PROVE CoinsIn(TradeId, p) = 0
    <3>1. PICK k : k = Offered(p)
      OBVIOUS
    <3>2. \A t \in TradeId : k[t] = 0
      BY <1>1, <3>1 DEF Offered
    <3>3. SumOver(k, TradeId) = 0
      BY <3>2, FiniteAssumption, SumZero
    <3> QED
      BY <3>1, <3>3, CoinsInAll
  <2> QED
    BY <1>1, <2>1, HoldingsAssumption DEF CoinsReserved
<1>5. NothingIsMadeOrLost
  <2>1. PICK k : k = reserved
    OBVIOUS
  <2>2. SumOver(k, Player) = 0
    BY <1>1, <2>1, FiniteAssumption, SumZero
  <2>3. SumOver(InitialCoins, Player) \in Int
    BY HoldingsAssumption, FiniteAssumption, SumLaw
  <2> QED
    BY <1>1, <2>1, <2>2, <2>3 DEF NothingIsMadeOrLost
<1> QED
  BY <1>2, <1>3, <1>4, <1>5 DEF Escrows

(* Every offer backed and every good accounted for: inductive beside       *)
(* Agreement.                                                              *)
Accounted == Agreement /\ Escrows /\ NothingIsMadeOrLost

LEMMA AccountedStep ==
  ASSUME Accounted, [Next]_vars
  PROVE  Accounted'
<1>1. Agreement' /\ GoodsKept
  BY AgreementStep, GoodsStep DEF Accounted
<1>2. NothingIsMadeOrLost'
  BY <1>1 DEF Accounted, GoodsKept, ItemsKept, CoinsKept, NothingIsMadeOrLost
<1> QED
  BY <1>1, <1>2 DEF Accounted, GoodsKept

THEOREM AccountedInvariant == Spec => []Accounted
<1>1. Init => Accounted
  BY NothingAgreedYet, NothingOfferedYet DEF Accounted
<1>2. Accounted /\ [Next]_vars => Accounted'
  BY AccountedStep
<1> QED
  BY <1>1, <1>2, PTL DEF Spec

(* Coins and items move between the players and are never made or lost, by *)
(* whatever offers, swaps, cancellations and restarts.                     *)
THEOREM TradesConserve == Spec => []NothingIsMadeOrLost
<1>1. Accounted => NothingIsMadeOrLost
  BY DEF Accounted
<1> QED
  BY <1>1, AccountedInvariant, PTL

(* The escrow is exactly what the open trades offer, and a player is in    *)
(* one of them at most.                                                    *)
THEOREM EscrowAlwaysMatches == Spec => []EscrowMatchesOffers
<1>1. Accounted => EscrowMatchesOffers
  <2> SUFFICES ASSUME Accounted PROVE EscrowMatchesOffers
    OBVIOUS
  <2>1. Stored /\ Escrows
    BY DEF Accounted, Agreement
  <2>2. OneOpenTrade
    <3> SUFFICES ASSUME NEW p \in Player PROVE Cardinality(OpenTradesOf(p)) <= 1
      BY DEF OneOpenTrade
    <3>1. CASE OpenTradesOf(p) = {}
      BY <3>1, FS_EmptySet
    <3>2. CASE OpenTradesOf(p) # {}
      <4>1. PICK t : t \in OpenTradesOf(p)
        BY <3>2
      <4>2. OpenTradesOf(p) = {t}
        BY <2>1, <4>1 DEF Stored, Single
      <4>3. Cardinality({t}) = 1
        BY FS_Singleton
      <4> QED
        BY <4>2, <4>3
    <3> QED
      BY <3>1, <3>2
  <2>3. \A p \in Player : reserved[p] = CoinsIn(TradeId, p)
    BY <2>1 DEF Escrows, CoinsReserved
  <2>4. \A t \in Used : \A i \in trades[t].items :
          /\ IsOpen(t) /\ i.player \in Parties(t)
          /\ Owned(entries, i.entry, i.player, "TRADE_ESCROW")
          /\ entries[i.entry].quantity = i.quantity
    BY <2>1 DEF Escrows, OffersBacked, Backs
  <2>5. \A e \in EntryId :
          entries[e] # NoEntry /\ entries[e].place = "TRADE_ESCROW" =>
            \E t \in Used : \E i \in trades[t].items :
              /\ i.entry = e
              /\ \A u \in Used : \A j \in trades[u].items : j.entry = e => u = t /\ j = i
    BY <2>1 DEF Escrows, EscrowListed, InEscrow, Lists
  <2> QED
    BY <2>2, <2>3, <2>4, <2>5 DEF EscrowMatchesOffers
<1> QED
  BY <1>1, AccountedInvariant, PTL

-----------------------------------------------------------------------------
(* The server's own state.                                                 *)
ServerOK ==
  /\ repository \in Repositories /\ server \in {"up", "starting"}
  /\ presence \in [Player -> Presence]

LEMMA ServerStep ==
  ASSUME ServerOK, [Next]_vars
  PROVE  ServerOK' /\ repository' = repository
<1> USE DEF ServerOK, Presence
<1>1. ASSUME NEW p \in Player, NEW q \in Player, RequestTrade(p, q) \/ BeginRequest(p, q)
      PROVE  ServerOK' /\ repository' = repository
  BY <1>1 DEF RequestTrade, BeginRequest, memory
<1>2. ASSUME NEW p \in Player, NEW t \in TradeId, AcceptTrade(p, t) \/ BeginAccept(p, t)
      PROVE  ServerOK' /\ repository' = repository
  BY <1>2 DEF AcceptTrade, BeginAccept, memory
<1>3. ASSUME NEW c \in open, Commit(c)
      PROVE  ServerOK' /\ repository' = repository
  BY <1>3 DEF Commit
<1>4. ASSUME NEW p \in Player, NEW t \in TradeId, NEW amount \in CoinOffer, UpdateTradeOffer(p, t, amount)
      PROVE  ServerOK' /\ repository' = repository
  BY <1>4 DEF UpdateTradeOffer, memory
<1>5. ASSUME NEW p \in Player, NEW t \in TradeId, SendConfirmation(p, t)
      PROVE  ServerOK' /\ repository' = repository
  BY <1>5 DEF SendConfirmation
<1>6. ASSUME NEW p \in Player, ConfirmTrade(p)
      PROVE  ServerOK' /\ repository' = repository
  BY <1>6 DEF ConfirmTrade
<1>7. ASSUME NEW t \in TradeId, NEW status \in {"CANCELLED", "DECLINED"}, CloseTrade(t, status)
      PROVE  ServerOK' /\ repository' = repository
  BY <1>7 DEF CloseTrade, memory
<1>8. ASSUME NEW p \in Player, NEW t \in TradeId, CancelForDisconnect(p, t)
      PROVE  ServerOK' /\ repository' = repository
  BY <1>8 DEF CancelForDisconnect
<1>9. ASSUME NEW p \in Player,
             Connect(p) \/ StartFight(p) \/ EndFight(p) \/ Disconnect(p) \/ ReadForDisconnect(p)
      PROVE  ServerOK' /\ repository' = repository
  BY <1>9 DEF Connect, StartFight, EndFight, Disconnect, ReadForDisconnect
<1>10. CASE Startup \/ Crash \/ UNCHANGED vars
  BY <1>10 DEF Startup, Crash, vars, memory
<1> QED
  BY <1>1, <1>2, <1>3, <1>4, <1>5, <1>6, <1>7, <1>8, <1>9, <1>10 DEF Next

(* Every variable is what it should be: no wallet, reserve, revision or    *)
(* quantity is ever negative, and no entry is empty.                       *)
THEOREM TradeTypeCorrect == Spec => []TypeOK
<1>1. Init => ServerOK
  BY DEF Init, ServerOK, Presence
<1>2. ServerOK /\ [Next]_vars => ServerOK'
  BY ServerStep
<1>3. ServerOK /\ Accounted => TypeOK
  BY DEF ServerOK, Accounted, Agreement, Stored, TradesOK, Escrows, EntriesOK, CoinsReserved, TypeOK
<1> QED
  BY <1>1, <1>2, <1>3, AccountedInvariant, PTL DEF Spec

-----------------------------------------------------------------------------
(* The memory repository's transactions do not overlap, and none of its    *)
(* cancellations throws: the reserve covers what is offered.               *)
Attended(p) ==
  \A t \in OpenTradesOf(p) : presence[p] = "away" => <<p, "read">> \in leaving \/ <<p, t>> \in leaving

(* Of the trades that were not open none is.                               *)
NoneOpens == \A p \in Player : OpenTradesOf(p)' \subseteq OpenTradesOf(p)

LEMMA CancellationsSucceed ==
  ASSUME Stored, Escrows, repository = "memory", NEW T \in SUBSET Used
  PROVE  CanClose(T)
<1>1. ASSUME NEW p \in Player PROVE reserved[p] >= CoinsIn(T, p)
  <2>1. PICK k : k = [t \in TradeId |-> IF t \in T THEN 0 ELSE Offered(p)[t]]
    OBVIOUS
  <2>2. /\ CoinsIn(T, p) \in Nat /\ CoinsIn(TradeId, p) = CoinsIn(T, p) + SumOver(k, TradeId)
        /\ \A t \in TradeId : k[t] \in Nat
    <3>1. TradesOK /\ T \in SUBSET TradeId
      BY DEF Stored, Used
    <3> QED
      BY <2>1, <3>1, CoinsInPart, OfferedIsNat
  <2>3. SumOver(k, TradeId) \in Nat
    BY <2>2, FiniteAssumption, SumOfNaturals
  <2>4. reserved[p] = CoinsIn(TradeId, p)
    BY DEF Escrows, CoinsReserved
  <2> QED
    BY <2>2, <2>3, <2>4
<1>2. Persisted(Returned(T, Player), "memory") /\ \A es, p : Persisted(es, p)
  BY DEF Persisted
<1> QED
  BY <1>1, <1>2 DEF CanClose

LEMMA OneTradeOpensNone ==
  ASSUME Stored, NEW t \in Used, NEW r, trades' = [trades EXCEPT ![t] = r],
         r.requester = trades[t].requester, r.receiver = trades[t].receiver,
         r.status \in {"REQUESTED", "ACTIVE"} => IsOpen(t)
  PROVE  NoneOpens
<1>1. t \in TradeId /\ trades \in [TradeId -> TradeRecord \cup {NoTrade}]
  BY DEF Used, Stored, TradesOK
<1>2. trades'[t] = r /\ \A u \in TradeId \ {t} : trades'[u] = trades[u]
  BY <1>1
<1>3. \A u \in TradeId : IsOpen(u)' => IsOpen(u) /\ Parties(u)' = Parties(u)
  BY <1>2 DEF IsOpen, Used, Parties
<1> QED
  BY <1>3 DEF NoneOpens, OpenTradesOf

LEMMA ActivateOpensNone ==
  ASSUME Stored, NEW p \in Player, NEW t \in TradeId, Activate(p, t)
  PROVE  NoneOpens
<1>1. PICK r : r = [trades[t] EXCEPT !.status = "ACTIVE"]
  OBVIOUS
<1>2. t \in Used /\ trades[t] \in TradeRecord /\ IsOpen(t)
  BY UsedIsRecord DEF Activate, Stored, IsOpen
<1>3. r.requester = trades[t].requester /\ r.receiver = trades[t].receiver
  BY <1>1, <1>2 DEF TradeRecord
<1>4. trades' = [trades EXCEPT ![t] = r]
  BY <1>1 DEF Activate, Stored, TradesOK
<1> QED
  BY <1>2, <1>3, <1>4, OneTradeOpensNone

LEMMA UpdateOpensNone ==
  ASSUME Stored, NEW p \in Player, NEW t \in TradeId, NEW amount \in CoinOffer,
         UpdateTradeOffer(p, t, amount)
  PROVE  NoneOpens
<1>1. /\ t \in Used /\ IsOpen(t) /\ trades[t] \in TradeRecord
      /\ trades \in [TradeId -> TradeRecord \cup {NoTrade}]
  BY UsedIsRecord DEF UpdateTradeOffer, Stored, TradesOK, IsOpen
<1>2. PICK items : trades' = [trades EXCEPT ![t] = Revised(trades[t], p, items, amount)]
  <2>1. \E S \in SUBSET {e \in EntryId : Owned(Returned({t}, {p}), e, p, "INVENTORY")} :
        \E quantity \in [S -> Quantity] :
        \E into \in EscrowIds(Returned({t}, {p}), quantity) :
          LET after == Escrow(Returned({t}, {p}), quantity, into)
              listed == {[player |-> p, entry |-> into[e], quantity |-> quantity[e]] : e \in S}
          IN  /\ Covers(Returned({t}, {p}), quantity)
              /\ Persisted(after, p)
              /\ entries' = after
              /\ trades' = [trades EXCEPT ![t] = Revised(@, p, listed, amount)]
    BY Zenon DEF UpdateTradeOffer
  <2>2. PICK S \in SUBSET {e \in EntryId : Owned(Returned({t}, {p}), e, p, "INVENTORY")} :
        \E quantity \in [S -> Quantity] :
        \E into \in EscrowIds(Returned({t}, {p}), quantity) :
          trades' = [trades EXCEPT ![t] = Revised(trades[t], p,
            {[player |-> p, entry |-> into[e], quantity |-> quantity[e]] : e \in S}, amount)]
    BY <2>1, Zenon
  <2>3. PICK quantity \in [S -> Quantity] :
        \E into \in EscrowIds(Returned({t}, {p}), quantity) :
          trades' = [trades EXCEPT ![t] = Revised(trades[t], p,
            {[player |-> p, entry |-> into[e], quantity |-> quantity[e]] : e \in S}, amount)]
    BY <2>2
  <2> QED
    BY <2>3
<1>3. PICK r : r = Revised(trades[t], p, items, amount)
  OBVIOUS
<1>4. trades' = [trades EXCEPT ![t] = r]
  BY <1>2, <1>3
<1>5. r.requester = trades[t].requester /\ r.receiver = trades[t].receiver
  BY <1>1, <1>3 DEF Revised, TradeRecord
<1> QED
  BY <1>1, <1>4, <1>5, OneTradeOpensNone

LEMMA ConfirmOpensNone ==
  ASSUME Stored, Shown, NEW p \in Player, ConfirmTrade(p)
  PROVE  NoneOpens
<1> DEFINE t == sent[p].trade
           confirmed == [trades[t].confirmed EXCEPT ![p] = sent[p].revision]
<1>1. /\ t \in Used /\ trades[t] \in TradeRecord /\ t \in TradeId
      /\ trades \in [TradeId -> TradeRecord \cup {NoTrade}]
  BY UsedIsRecord DEF ConfirmTrade, Shown, Stored, TradesOK
<1>2. CASE UNCHANGED stored
  BY <1>2 DEF stored, NoneOpens, OpenTradesOf, IsOpen, Used, Parties
<1>3. CASE /\ trades[t].status = "ACTIVE"
           /\ \/ ExecuteTrade(t, confirmed)
              \/ trades' = [trades EXCEPT ![t].confirmed = confirmed]
  <2>0. PICK c : c = confirmed
    OBVIOUS
  <2>1. PICK u \in Used : u = t /\ c = confirmed
    BY <1>1, <2>0
  <2> HIDE DEF t, confirmed
  <2>2. IsOpen(u) /\ trades[u] \in TradeRecord
    BY <1>1, <1>3, <2>1 DEF IsOpen
  <2>3. PICK r : /\ r = trades'[u] /\ trades' = [trades EXCEPT ![u] = r]
                 /\ \/ r = [trades[u] EXCEPT !.confirmed = c]
                    \/ r = [trades[u] EXCEPT !.status = "COMPLETED", !.confirmed = c,
                              !.items = {}, !.coins = [q \in Player |-> 0]]
    BY <1>1, <1>3, <2>1 DEF ExecuteTrade
  <2>4. r.requester = trades[u].requester /\ r.receiver = trades[u].receiver
    BY <2>2, <2>3 DEF TradeRecord
  <2> QED
    BY <2>2, <2>3, <2>4, OneTradeOpensNone
<1> QED
  BY <1>2, <1>3 DEF ConfirmTrade

LEMMA CloseOpensNone ==
  ASSUME Stored, NEW T \in SUBSET Used, NEW status \in {"CANCELLED", "DECLINED"}, Close(T, status)
  PROVE  NoneOpens /\ \A p \in Player : \A t \in T : t \notin OpenTradesOf(p)'
<1>1. trades \in [TradeId -> TradeRecord \cup {NoTrade}] /\ \A t \in Used : trades[t] \in TradeRecord
  BY UsedIsRecord DEF Stored, TradesOK
<1>2. \A t \in TradeId : t \notin T => trades'[t] = trades[t]
  BY DEF Close
<1>3. ASSUME NEW t \in T PROVE trades'[t].status = status
  <2>1. PICK r : r = trades[t]
    OBVIOUS
  <2>2. trades'[t] = [r EXCEPT !.status = status, !.items = {},
                        !.coins = [p \in Player |-> 0],
                        !.confirmed = [p \in Player |-> Unconfirmed]]
    BY <2>1 DEF Close, Used
  <2>3. r \in TradeRecord
    BY <1>1, <2>1
  <2> QED
    BY <2>2, <2>3 DEF TradeRecord
<1>4. \A t \in T : ~ IsOpen(t)'
  BY <1>3 DEF IsOpen
<1>5. \A t \in TradeId : IsOpen(t)' => t \notin T /\ IsOpen(t) /\ Parties(t)' = Parties(t)
  BY <1>2, <1>4 DEF IsOpen, Used, Parties
<1> QED
  BY <1>4, <1>5 DEF NoneOpens, OpenTradesOf

(* requestTrade opens a trade of two players who are there.                *)
LEMMA NewTradeIsAttended ==
  ASSUME Stored, NEW p \in Player, NEW q \in Player, Reachable(p), Reachable(q), NewTrade(p, q)
  PROVE  \A x \in Player : presence[x] = "away" => OpenTradesOf(x)' \subseteq OpenTradesOf(x)
<1> DEFINE r == [requester |-> p, receiver |-> q, status |-> "REQUESTED", revision |-> 0,
                 confirmed |-> [x \in Player |-> Unconfirmed],
                 items |-> {}, coins |-> [x \in Player |-> 0]]
<1>1. PICK t \in TradeId \ Used : trades' = [trades EXCEPT ![t] = r]
  BY DEF NewTrade
<1>2. r.requester = p /\ r.receiver = q
  OBVIOUS
<1> HIDE DEF r
<1>3. trades'[t] = r /\ \A u \in TradeId \ {t} : trades'[u] = trades[u]
  BY <1>1 DEF Stored, TradesOK
<1>4. Parties(t)' = {p, q}
  BY <1>2, <1>3 DEF Parties
<1>5. \A u \in TradeId \ {t} : IsOpen(u)' => IsOpen(u) /\ Parties(u)' = Parties(u)
  BY <1>3 DEF IsOpen, Used, Parties
<1> QED
  BY <1>4, <1>5 DEF OpenTradesOf, Reachable

Attending == repository = "memory" => open = {} /\ (server = "up" => \A p \in Player : Attended(p))

LEMMA AttendedStays ==
  ASSUME \A p \in Player : Attended(p), UNCHANGED <<presence, leaving>>,
         \A p \in Player : presence[p] = "away" => OpenTradesOf(p)' \subseteq OpenTradesOf(p)
  PROVE  \A p \in Player : Attended(p)'
BY DEF Attended

LEMMA AttendingStep ==
  ASSUME Accounted, ServerOK, Attending, [Next]_vars
  PROVE  Attending'
<1>0. SUFFICES ASSUME repository = "memory", repository' = "memory"
               PROVE  open' = {} /\ (server' = "up" => \A p \in Player : Attended(p)')
  BY ServerStep DEF Attending
<1>1. Stored /\ Shown /\ Waiting /\ Escrows /\ open = {}
  BY <1>0 DEF Accounted, Agreement, Attending
<1>2. server = "up" => \A p \in Player : Attended(p)
  BY <1>0 DEF Attending
<1> DEFINE Goal == open' = {} /\ (server' = "up" => \A p \in Player : Attended(p)')
<1>3. ASSUME UNCHANGED <<server, open, presence, leaving>>,
             \A p \in Player : presence[p] = "away" => OpenTradesOf(p)' \subseteq OpenTradesOf(p)
      PROVE  Goal
  BY <1>1, <1>2, <1>3, AttendedStays
<1>4. UNCHANGED stored => NoneOpens
  BY DEF stored, NoneOpens, OpenTradesOf, IsOpen, Used, Parties
<1>5. ASSUME NEW p \in Player, NEW q \in Player, RequestTrade(p, q) \/ BeginRequest(p, q)
      PROVE  Goal
  <2>1. RequestTrade(p, q)
    BY <1>0, <1>5 DEF BeginRequest
  <2> HIDE DEF Goal
  <2> QED
    BY <1>1, <1>3, <2>1, NewTradeIsAttended DEF RequestTrade, memory
<1>6. ASSUME NEW p \in Player, NEW t \in TradeId, AcceptTrade(p, t) \/ BeginAccept(p, t)
      PROVE  Goal
  <2>1. AcceptTrade(p, t)
    BY <1>0, <1>6 DEF BeginAccept
  <2> HIDE DEF Goal
  <2> QED
    BY <1>1, <1>3, <2>1, ActivateOpensNone DEF AcceptTrade, memory, NoneOpens
<1>7. ASSUME NEW c \in open, Commit(c)
      PROVE  Goal
  BY <1>1, <1>7
<1>8. ASSUME NEW p \in Player, NEW t \in TradeId, NEW amount \in CoinOffer, UpdateTradeOffer(p, t, amount)
      PROVE  Goal
  <2>1. UNCHANGED <<server, open, presence, leaving>>
    BY <1>8 DEF UpdateTradeOffer, memory
  <2> HIDE DEF Goal
  <2> QED
    BY <1>1, <1>3, <1>8, <2>1, UpdateOpensNone DEF NoneOpens
<1>9. ASSUME NEW p \in Player, NEW t \in TradeId, SendConfirmation(p, t)
      PROVE  Goal
  <2> HIDE DEF Goal
  <2> QED
    BY <1>3, <1>4, <1>9 DEF SendConfirmation, NoneOpens
<1>10. ASSUME NEW p \in Player, ConfirmTrade(p)
       PROVE  Goal
  <2>1. UNCHANGED <<server, open, presence, leaving>>
    BY <1>10 DEF ConfirmTrade
  <2> HIDE DEF Goal
  <2> QED
    BY <1>1, <1>3, <1>10, <2>1, ConfirmOpensNone DEF NoneOpens
<1>11. ASSUME NEW t \in TradeId, NEW status \in {"CANCELLED", "DECLINED"}, CloseTrade(t, status)
       PROVE  Goal
  <2>1. {t} \in SUBSET Used /\ Close({t}, status) /\ UNCHANGED <<server, open, presence, leaving>>
    BY <1>11 DEF CloseTrade, memory
  <2> HIDE DEF Goal
  <2> QED
    BY <1>1, <1>3, <2>1, CloseOpensNone DEF NoneOpens
(* A player that goes leaves its trades to be read.                        *)
<1>12. ASSUME NEW p \in Player, Connect(p) \/ StartFight(p) \/ EndFight(p) \/ Disconnect(p)
       PROVE  Goal
  <2>1. UNCHANGED <<server, stored, open>> /\ server = "up" /\ leaving \subseteq leaving'
    BY <1>12 DEF Connect, StartFight, EndFight, Disconnect
  <2>2. \A x \in Player : presence'[x] = "away" => presence[x] = "away" \/ <<x, "read">> \in leaving'
    BY <1>12 DEF ServerOK, Connect, StartFight, EndFight, Disconnect
  <2>3. \A x \in Player : OpenTradesOf(x)' = OpenTradesOf(x)
    BY <2>1 DEF stored, OpenTradesOf, IsOpen, Used, Parties
  <2>4. \A x \in Player : Attended(x)'
    BY <1>2, <2>1, <2>2, <2>3 DEF Attended
  <2> QED
    BY <1>1, <2>1, <2>4
<1>13. ASSUME NEW p \in Player, ReadForDisconnect(p)
       PROVE  Goal
  <2>1. /\ UNCHANGED <<server, stored, open, presence>> /\ server = "up"
        /\ leaving' = (leaving \ {<<p, "read">>}) \cup {<<p, t>> : t \in OpenTradesOf(p)}
    BY <1>13 DEF ReadForDisconnect
  <2>2. \A x \in Player : OpenTradesOf(x)' = OpenTradesOf(x)
    BY <2>1 DEF stored, OpenTradesOf, IsOpen, Used, Parties
  <2>3. ASSUME NEW x \in Player, NEW t \in OpenTradesOf(x), presence[x] = "away"
        PROVE  <<x, "read">> \in leaving' \/ <<x, t>> \in leaving'
    <3>1. CASE x = p
      BY <2>1, <2>3, <3>1
    <3>2. CASE x # p
      <4>1. <<x, "read">> \in leaving \/ <<x, t>> \in leaving
        BY <1>2, <2>1, <2>3 DEF Attended
      <4>2. <<x, "read">> # <<p, "read">> /\ <<x, t>> # <<p, "read">>
        BY <3>2
      <4> QED
        BY <2>1, <4>1, <4>2
    <3> QED
      BY <3>1, <3>2
  <2>4. \A x \in Player : Attended(x)'
    BY <2>1, <2>2, <2>3 DEF Attended
  <2> QED
    BY <1>1, <2>1, <2>4
(* The trade whose cancellation is done with is not open any more.         *)
<1>14. ASSUME NEW p \in Player, NEW t \in TradeId, CancelForDisconnect(p, t)
       PROVE  Goal
  <2>1. /\ t \in Used /\ {t} \in SUBSET Used /\ server = "up"
        /\ UNCHANGED <<server, open, presence>>
    BY <1>1, <1>14 DEF CancelForDisconnect, Waiting
  <2>2. CanClose({t})
    BY <1>0, <1>1, <2>1, CancellationsSucceed
  <2>3. /\ leaving' = leaving \ {<<p, t>>}
        /\ \/ ~ Closable(t) /\ UNCHANGED stored
           \/ Close({t}, "CANCELLED")
    BY <1>14, <2>2 DEF CancelForDisconnect
  <2>4. NoneOpens /\ \A x \in Player : t \notin OpenTradesOf(x)'
    <3>1. CASE ~ Closable(t) /\ UNCHANGED stored
      <4>1. NoneOpens /\ ~ IsOpen(t)
        BY <1>4, <3>1 DEF Closable, IsOpen
      <4> QED
        BY <4>1 DEF NoneOpens, OpenTradesOf
    <3>2. CASE Close({t}, "CANCELLED")
      BY <1>1, <2>1, <3>2, CloseOpensNone
    <3> QED
      BY <2>3, <3>1, <3>2
  <2>5. ASSUME NEW x \in Player, NEW u \in OpenTradesOf(x)', presence[x] = "away"
        PROVE  <<x, "read">> \in leaving' \/ <<x, u>> \in leaving'
    <3>1. u \in OpenTradesOf(x) /\ u # t /\ t # "read"
      BY <2>4, <2>5, NullAssumption DEF NoneOpens
    <3>2. <<x, "read">> \in leaving \/ <<x, u>> \in leaving
      BY <1>2, <2>1, <2>5, <3>1 DEF Attended
    <3>3. <<x, "read">> # <<p, t>> /\ <<x, u>> # <<p, t>>
      BY <3>1
    <3> QED
      BY <2>3, <3>2, <3>3
  <2>6. \A x \in Player : Attended(x)'
    BY <2>1, <2>5 DEF Attended
  <2> QED
    BY <1>1, <2>1, <2>6
<1>15. CASE Crash
  BY <1>15 DEF Crash
<1>16. CASE Startup
  <2>1. open' = open
    BY <1>16 DEF Startup, memory
  <2>2. CASE server' = "up"
    <3>1. PICK T \in SUBSET Used : T = {t \in TradeId : IsOpen(t)}
      BY DEF IsOpen
    <3>2. Close(T, "CANCELLED")
      BY <1>16, <2>2, <3>1 DEF Startup
    <3>3. NoneOpens /\ \A x \in Player : \A t \in T : t \notin OpenTradesOf(x)'
      BY <1>1, <3>2, CloseOpensNone
    <3>4. \A x \in Player : OpenTradesOf(x)' = {}
      BY <3>1, <3>3 DEF NoneOpens, OpenTradesOf
    <3> QED
      BY <1>1, <2>1, <3>4 DEF Attended
  <2> QED
    BY <1>1, <2>1, <2>2
<1>17. CASE UNCHANGED vars
  <2>1. UNCHANGED <<server, open, presence, leaving>> /\ UNCHANGED stored
    BY <1>17 DEF vars, memory
  <2>2. Goal
    <3> HIDE DEF Goal
    <3> QED
      BY <1>3, <1>4, <2>1 DEF NoneOpens
  <2> QED
    BY <2>2
<1> QED
  BY <1>5, <1>6, <1>7, <1>8, <1>9, <1>10, <1>11, <1>12, <1>13, <1>14, <1>15, <1>16, <1>17 DEF Next

(* With transactions that do not overlap, nobody who stays away keeps      *)
(* another player in a trade: however the disconnects, reconnects, swaps   *)
(* and cancellations fall, its open trade is about to be read or cancelled.*)
THEOREM AbsenceAlwaysHandled == Spec => []AbsenceIsHandled
<1>1. Init => ServerOK /\ Attending
  <2>1. Init => \A p \in Player : OpenTradesOf(p) = {}
    BY DEF Init, OpenTradesOf, IsOpen, Used
  <2> QED
    BY <2>1 DEF Init, ServerOK, Presence, Attending, Attended
<1>2. Accounted /\ ServerOK /\ Attending /\ [Next]_vars => ServerOK' /\ Attending'
  BY ServerStep, AttendingStep
<1>3. Attending => AbsenceIsHandled
  BY DEF Attending, Attended, AbsenceIsHandled
<1> QED
  BY <1>1, <1>2, <1>3, AccountedInvariant, PTL DEF Spec
=============================================================================
