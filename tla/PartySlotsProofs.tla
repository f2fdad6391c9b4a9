-------------------------- MODULE PartySlotsProofs --------------------------
(***************************************************************************)
(* For every number of players, rooms, reservations and transactions the   *)
(* books of the party slots balance, the ledger explains every wallet, a   *)
(* seat has one reservation, and a settlement is atomic and final.         *)
(*                                                                         *)
(* The invariants are proved together (Books): that no balance goes        *)
(* negative rests on the reserved coins being exactly the live             *)
(* reservations, since the settlement subtracts a sum it compares only     *)
(* term by term.                                                           *)
(***************************************************************************)
EXTENDS PartySlots, FiniteSumsProofs

(* The inductive invariant.                                                *)
Books == TypeOK /\ ReservedMatchesSlots /\ WalletsAccountForPayments

-----------------------------------------------------------------------------
(* The sums' terms as functions of the reservations sl, so that a lemma    *)
(* about them applies before and after a step.                             *)
SlotFunctions == [SlotId -> SlotRecord \cup {NoSlot}]

HeldOf(sl, p) == [s \in SlotId |->
  IF sl[s] # NoSlot /\ sl[s].status \in {"PRE_START", "ACCEPTED"} /\ sl[s].applicant = p
  THEN sl[s].amount ELSE 0]

PaidOf(sl, p) == [s \in SlotId |->
  IF sl[s] # NoSlot /\ sl[s].status = "SETTLED" /\ sl[s].applicant = p
  THEN sl[s].amount ELSE 0]

ReceivedOf(sl, p) == [s \in SlotId |->
  IF sl[s] # NoSlot /\ sl[s].status = "SETTLED" /\ sl[s].leader = p
  THEN sl[s].amount ELSE 0]

(* The terms of a state are those of its reservations.                     *)
LEMMA TermsOfState ==
  ASSUME NEW p
  PROVE  /\ Held(p) = HeldOf(slots, p) /\ Held(p)' = HeldOf(slots', p)
         /\ Paid(p) = PaidOf(slots, p) /\ Paid(p)' = PaidOf(slots', p)
         /\ Received(p) = ReceivedOf(slots, p) /\ Received(p)' = ReceivedOf(slots', p)
<1>1. \A s \in SlotId : Live(s) <=> slots[s] # NoSlot /\ slots[s].status \in {"PRE_START", "ACCEPTED"}
  BY DEF Live, Used
<1>2. \A s \in SlotId : Live(s)' <=> slots'[s] # NoSlot /\ slots'[s].status \in {"PRE_START", "ACCEPTED"}
  BY DEF Live, Used
<1>3. \A s \in SlotId : (s \in Used <=> slots[s] # NoSlot) /\ (s \in Used' <=> slots'[s] # NoSlot)
  BY DEF Used
<1>4. Held(p) = HeldOf(slots, p) /\ Held(p)' = HeldOf(slots', p)
  BY <1>1, <1>2 DEF Held, HeldOf
<1>5. Paid(p) = PaidOf(slots, p) /\ Paid(p)' = PaidOf(slots', p)
  BY <1>3 DEF Paid, PaidOf
<1>6. Received(p) = ReceivedOf(slots, p) /\ Received(p)' = ReceivedOf(slots', p)
  BY <1>3 DEF Received, ReceivedOf
<1> QED
  BY <1>4, <1>5, <1>6

(* Every term of the sums is a natural number, so the sums are.            *)
LEMMA TermsAreNaturals ==
  ASSUME NEW sl \in SlotFunctions, NEW p
  PROVE  /\ \A s \in SlotId : /\ HeldOf(sl, p)[s] \in Nat
                              /\ PaidOf(sl, p)[s] \in Nat
                              /\ ReceivedOf(sl, p)[s] \in Nat
         /\ SumOver(HeldOf(sl, p), SlotId) \in Nat
         /\ SumOver(PaidOf(sl, p), SlotId) \in Nat
         /\ SumOver(ReceivedOf(sl, p), SlotId) \in Nat
<1>1. \A s \in SlotId : sl[s] # NoSlot => sl[s].amount \in Nat
  BY OfferAssumption DEF SlotFunctions, SlotRecord
<1>2. \A s \in SlotId : /\ HeldOf(sl, p)[s] \in Nat
                        /\ PaidOf(sl, p)[s] \in Nat
                        /\ ReceivedOf(sl, p)[s] \in Nat
  BY <1>1 DEF HeldOf, PaidOf, ReceivedOf
<1> QED
  BY <1>2, SumOfNaturals, PlayersAssumption

(* When one reservation changes, each sum changes by its term.             *)
LEMMA OneSlotChanges ==
  ASSUME NEW sl \in SlotFunctions, NEW tl \in SlotFunctions, NEW s \in SlotId,
         \A t \in SlotId : t # s => tl[t] = sl[t],
         NEW p
  PROVE  /\ SumOver(HeldOf(tl, p), SlotId) =
              SumOver(HeldOf(sl, p), SlotId) - HeldOf(sl, p)[s] + HeldOf(tl, p)[s]
         /\ SumOver(PaidOf(tl, p), SlotId) =
              SumOver(PaidOf(sl, p), SlotId) - PaidOf(sl, p)[s] + PaidOf(tl, p)[s]
         /\ SumOver(ReceivedOf(tl, p), SlotId) =
              SumOver(ReceivedOf(sl, p), SlotId)
                - ReceivedOf(sl, p)[s] + ReceivedOf(tl, p)[s]
<1>1. \A t \in SlotId : /\ HeldOf(sl, p)[t] \in Int /\ HeldOf(tl, p)[t] \in Int
                        /\ PaidOf(sl, p)[t] \in Int /\ PaidOf(tl, p)[t] \in Int
                        /\ ReceivedOf(sl, p)[t] \in Int /\ ReceivedOf(tl, p)[t] \in Int
  BY TermsAreNaturals
<1>2. \A t \in SlotId : t # s => /\ HeldOf(tl, p)[t] = HeldOf(sl, p)[t]
                                 /\ PaidOf(tl, p)[t] = PaidOf(sl, p)[t]
                                 /\ ReceivedOf(tl, p)[t] = ReceivedOf(sl, p)[t]
  BY DEF HeldOf, PaidOf, ReceivedOf
<1>3. IsFiniteSet(SlotId)
  BY PlayersAssumption
<1>4. SumOver(HeldOf(tl, p), SlotId) =
        SumOver(HeldOf(sl, p), SlotId) - HeldOf(sl, p)[s] + HeldOf(tl, p)[s]
  <2> DEFINE f == HeldOf(sl, p)
             g == HeldOf(tl, p)
  <2>1. \A t \in SlotId : f[t] \in Int /\ g[t] \in Int
    BY <1>1
  <2>2. \A t \in SlotId : t # s => g[t] = f[t]
    BY <1>2
  <2> HIDE DEF f, g
  <2>3. SumOver(g, SlotId) = SumOver(f, SlotId) - f[s] + g[s]
    BY <1>3, <2>1, <2>2, SumUpdate
  <2> QED BY <2>3 DEF f, g
<1>5. SumOver(PaidOf(tl, p), SlotId) =
        SumOver(PaidOf(sl, p), SlotId) - PaidOf(sl, p)[s] + PaidOf(tl, p)[s]
  <2> DEFINE f == PaidOf(sl, p)
             g == PaidOf(tl, p)
  <2>1. \A t \in SlotId : f[t] \in Int /\ g[t] \in Int
    BY <1>1
  <2>2. \A t \in SlotId : t # s => g[t] = f[t]
    BY <1>2
  <2> HIDE DEF f, g
  <2>3. SumOver(g, SlotId) = SumOver(f, SlotId) - f[s] + g[s]
    BY <1>3, <2>1, <2>2, SumUpdate
  <2> QED BY <2>3 DEF f, g
<1>6. SumOver(ReceivedOf(tl, p), SlotId) =
        SumOver(ReceivedOf(sl, p), SlotId) - ReceivedOf(sl, p)[s] + ReceivedOf(tl, p)[s]
  <2> DEFINE f == ReceivedOf(sl, p)
             g == ReceivedOf(tl, p)
  <2>1. \A t \in SlotId : f[t] \in Int /\ g[t] \in Int
    BY <1>1
  <2>2. \A t \in SlotId : t # s => g[t] = f[t]
    BY <1>2
  <2> HIDE DEF f, g
  <2>3. SumOver(g, SlotId) = SumOver(f, SlotId) - f[s] + g[s]
    BY <1>3, <2>1, <2>2, SumUpdate
  <2> QED BY <2>3 DEF f, g
<1> QED
  BY <1>4, <1>5, <1>6

-----------------------------------------------------------------------------
(* The books in terms of the reservations: TypeOK and the two balances.    *)
BalancedFor(p) ==
  /\ reserved[p] = SumOver(HeldOf(slots, p), SlotId)
  /\ coins[p] + reserved[p] = InitialCoins[p]
       + SumOver(ReceivedOf(slots, p), SlotId) - SumOver(PaidOf(slots, p), SlotId)

(* Books is TypeOK and every player balanced, in a state and after a step. *)
LEMMA BooksAreBalances ==
  /\ Books <=> TypeOK /\ \A p \in Player : BalancedFor(p)
  /\ Books' <=> TypeOK' /\ \A p \in Player : BalancedFor(p)'
BY TermsOfState DEF Books, ReservedMatchesSlots, WalletsAccountForPayments, BalancedFor

(* A step that changes one reservation keeps the books when the reserved   *)
(* coins follow the held term and the wallet the paid and received ones.   *)
LEMMA OneSlotStep ==
  ASSUME Books, NEW s \in SlotId,
         slots' \in SlotFunctions,
         \A t \in SlotId : t # s => slots'[t] = slots[t],
         coins' \in [Player -> Nat],
         reserved' \in [Player -> Int],
         ledger' \in [Player -> Int],
         marker' \in [Room -> MarkerRecord \cup {NoMarker}],
         \A p \in Player :
           reserved'[p] = reserved[p] - HeldOf(slots, p)[s] + HeldOf(slots', p)[s],
         \A p \in Player :
           coins'[p] + reserved'[p] = coins[p] + reserved[p]
             + (ReceivedOf(slots', p)[s] - ReceivedOf(slots, p)[s])
             - (PaidOf(slots', p)[s] - PaidOf(slots, p)[s])
  PROVE  Books'
<1>1. slots \in SlotFunctions /\ TypeOK /\ \A p \in Player : BalancedFor(p)
  BY BooksAreBalances DEF Books, TypeOK, SlotFunctions
<1>2. ASSUME NEW p \in Player
      PROVE  BalancedFor(p)' /\ reserved'[p] \in Nat
  <2> DEFINE h == SumOver(HeldOf(slots, p), SlotId)
             h2 == SumOver(HeldOf(slots', p), SlotId)
             v == SumOver(ReceivedOf(slots, p), SlotId)
             v2 == SumOver(ReceivedOf(slots', p), SlotId)
             d == SumOver(PaidOf(slots, p), SlotId)
             d2 == SumOver(PaidOf(slots', p), SlotId)
  <2>1. /\ h2 = h - HeldOf(slots, p)[s] + HeldOf(slots', p)[s]
        /\ d2 = d - PaidOf(slots, p)[s] + PaidOf(slots', p)[s]
        /\ v2 = v - ReceivedOf(slots, p)[s] + ReceivedOf(slots', p)[s]
    BY <1>1, OneSlotChanges
  <2>2. /\ h \in Nat /\ h2 \in Nat /\ v \in Nat /\ v2 \in Nat /\ d \in Nat /\ d2 \in Nat
        /\ HeldOf(slots, p)[s] \in Nat /\ HeldOf(slots', p)[s] \in Nat
        /\ PaidOf(slots, p)[s] \in Nat /\ PaidOf(slots', p)[s] \in Nat
        /\ ReceivedOf(slots, p)[s] \in Nat /\ ReceivedOf(slots', p)[s] \in Nat
    BY <1>1, TermsAreNaturals
  <2>3. /\ reserved[p] = h
        /\ coins[p] + reserved[p] = InitialCoins[p] + v - d
    BY <1>1 DEF BalancedFor
  <2>4. InitialCoins[p] \in Nat /\ coins[p] \in Nat /\ coins'[p] \in Nat
    BY <1>1, InitialCoinsAssumption DEF TypeOK
  <2> HIDE DEF h, h2, v, v2, d, d2
  <2>5. reserved'[p] = h2
    BY <2>1, <2>2, <2>3
  <2>6. coins'[p] + reserved'[p] = InitialCoins[p] + v2 - d2
    BY <2>1, <2>2, <2>3, <2>4, <2>5
  <2> QED
    BY <2>2, <2>5, <2>6 DEF BalancedFor, h2, v2, d2
<1>3. reserved' \in [Player -> Nat]
  BY <1>2
<1>4. TypeOK'
  BY <1>3 DEF TypeOK, SlotFunctions
<1> QED
  BY <1>2, <1>4, BooksAreBalances

(* A step that leaves balances and reservations alone keeps the books.     *)
LEMMA NoSlotStep ==
  ASSUME Books, UNCHANGED <<slots, coins, reserved, ledger>>,
         marker' \in [Room -> MarkerRecord \cup {NoMarker}]
  PROVE  Books'
BY BooksAreBalances DEF Books, TypeOK, BalancedFor

(* The initial state: nothing is held, paid or received.                   *)
LEMMA InitBooks == Init => Books
<1> SUFFICES ASSUME Init PROVE Books
  OBVIOUS
<1>1. TypeOK
  BY InitialCoinsAssumption DEF Init, TypeOK
<1>2. ASSUME NEW p \in Player PROVE BalancedFor(p)
  <2>1. \A s \in SlotId : /\ HeldOf(slots, p)[s] = 0
                          /\ PaidOf(slots, p)[s] = 0
                          /\ ReceivedOf(slots, p)[s] = 0
    BY DEF Init, HeldOf, PaidOf, ReceivedOf
  <2>2. /\ SumOver(HeldOf(slots, p), SlotId) = 0
        /\ SumOver(PaidOf(slots, p), SlotId) = 0
        /\ SumOver(ReceivedOf(slots, p), SlotId) = 0
    BY <2>1, SumZero, PlayersAssumption
  <2> QED
    BY <2>2, InitialCoinsAssumption DEF Init, BalancedFor
<1> QED
  BY <1>1, <1>2, BooksAreBalances

(* A reservation moves its amount from the wallet to what is held.         *)
LEMMA ReserveKeepsBooks ==
  ASSUME Books, NEW r \in Room, NEW p \in Player, NEW l \in Player,
         NEW amount \in Offer, NEW op, ReservePartySlot(r, p, l, amount, op)
  PROVE  Books'
<1>1. TypeOK /\ amount \in Nat /\ coins[p] >= amount
  BY OfferAssumption DEF Books, ReservePartySlot
<1> DEFINE rec == [status |-> "PRE_START", room |-> r, applicant |-> p,
                   leader |-> l, amount |-> amount]
<1>2. PICK s \in SlotId \ Used : slots' = [slots EXCEPT ![s] = rec]
  BY DEF ReservePartySlot
<1>3. rec \in SlotRecord
  BY DEF SlotRecord, SlotStatus
<1>4. slots' \in SlotFunctions /\ slots[s] = NoSlot /\ slots'[s] = rec /\ rec # NoSlot
  BY <1>1, <1>2, <1>3, NoSlotAssumption DEF TypeOK, SlotFunctions, Used
<1>5. \A t \in SlotId : t # s => slots'[t] = slots[t]
  BY <1>1, <1>2 DEF TypeOK
<1>6. ASSUME NEW q \in Player
      PROVE  /\ HeldOf(slots, q)[s] = 0 /\ PaidOf(slots, q)[s] = 0 /\ ReceivedOf(slots, q)[s] = 0
             /\ HeldOf(slots', q)[s] = IF q = p THEN amount ELSE 0
             /\ PaidOf(slots', q)[s] = 0 /\ ReceivedOf(slots', q)[s] = 0
  BY <1>4 DEF HeldOf, PaidOf, ReceivedOf
<1>7. ASSUME NEW q \in Player
      PROVE  /\ reserved'[q] = IF q = p THEN reserved[q] + amount ELSE reserved[q]
             /\ coins'[q] = IF q = p THEN coins[q] - amount ELSE coins[q]
  BY <1>1 DEF ReservePartySlot, TypeOK
<1>8. /\ coins' \in [Player -> Nat] /\ reserved' \in [Player -> Int]
      /\ ledger' \in [Player -> Int] /\ marker' \in [Room -> MarkerRecord \cup {NoMarker}]
  BY <1>1 DEF ReservePartySlot, TypeOK
<1>9. ASSUME NEW q \in Player
      PROVE  /\ reserved'[q] = reserved[q] - HeldOf(slots, q)[s] + HeldOf(slots', q)[s]
             /\ coins'[q] + reserved'[q] = coins[q] + reserved[q]
                  + (ReceivedOf(slots', q)[s] - ReceivedOf(slots, q)[s])
                  - (PaidOf(slots', q)[s] - PaidOf(slots, q)[s])
  <2>1. coins[q] \in Nat /\ reserved[q] \in Nat
    BY <1>1 DEF TypeOK
  <2> QED
    BY <1>1, <1>6, <1>7, <2>1
<1> QED
  <2> HIDE DEF rec
  <2> QED BY <1>4, <1>5, <1>8, <1>9, OneSlotStep

(* An acceptance changes a status between two live ones.                   *)
LEMMA AcceptKeepsBooks ==
  ASSUME Books, NEW r \in Room, NEW p \in Player, NEW l \in Player, NEW op,
         AcceptPartySlot(r, p, l, op)
  PROVE  Books'
<1>1. TypeOK /\ UNCHANGED <<coins, reserved, ledger, marker>>
  BY DEF Books, AcceptPartySlot
<1>2. CASE UNCHANGED slots
  BY <1>1, <1>2, NoSlotStep DEF TypeOK
<1>3. ASSUME NEW s \in Used, slots[s].status = "PRE_START",
             slots' = [slots EXCEPT ![s].status = "ACCEPTED"]
      PROVE  Books'
  <2>1. s \in SlotId /\ slots[s] \in SlotRecord
    BY <1>1 DEF TypeOK, Used
  <2>2. slots'[s] = [slots[s] EXCEPT !.status = "ACCEPTED"]
    BY <1>1, <1>3, <2>1 DEF TypeOK
  <2>3. slots'[s] \in SlotRecord /\ slots'[s] # NoSlot
    BY <2>1, <2>2, NoSlotAssumption DEF SlotRecord, SlotStatus
  <2>4. \A t \in SlotId : t # s => slots'[t] = slots[t]
    BY <1>1, <1>3 DEF TypeOK
  <2>5. slots' \in SlotFunctions
    BY <1>1, <1>3, <2>3 DEF TypeOK, SlotFunctions
  <2>6. /\ slots'[s].status = "ACCEPTED"
        /\ slots'[s].applicant = slots[s].applicant
        /\ slots'[s].amount = slots[s].amount
    BY <2>1, <2>2 DEF SlotRecord
  <2>7. ASSUME NEW q \in Player
        PROVE  /\ HeldOf(slots', q)[s] = HeldOf(slots, q)[s]
               /\ PaidOf(slots', q)[s] = 0 /\ PaidOf(slots, q)[s] = 0
               /\ ReceivedOf(slots', q)[s] = 0 /\ ReceivedOf(slots, q)[s] = 0
               /\ HeldOf(slots, q)[s] \in Nat
    <3>1. slots[s] # NoSlot
      BY <1>3 DEF Used
    <3>2. HeldOf(slots, q)[s] \in Nat
      BY <1>1, <2>1, TermsAreNaturals DEF TypeOK, SlotFunctions
    <3> QED
      BY <1>3, <2>1, <2>3, <2>6, <3>1, <3>2 DEF HeldOf, PaidOf, ReceivedOf
  <2>8. ASSUME NEW q \in Player
        PROVE  /\ reserved'[q] = reserved[q] - HeldOf(slots, q)[s] + HeldOf(slots', q)[s]
               /\ coins'[q] + reserved'[q] = coins[q] + reserved[q]
                    + (ReceivedOf(slots', q)[s] - ReceivedOf(slots, q)[s])
                    - (PaidOf(slots', q)[s] - PaidOf(slots, q)[s])
    <3>1. coins[q] \in Nat /\ reserved[q] \in Nat
      BY <1>1 DEF TypeOK
    <3> QED
      BY <1>1, <2>7, <3>1
  <2>9. /\ coins' \in [Player -> Nat] /\ reserved' \in [Player -> Int]
        /\ ledger' \in [Player -> Int] /\ marker' \in [Room -> MarkerRecord \cup {NoMarker}]
    BY <1>1 DEF TypeOK
  <2> QED
    BY <2>1, <2>4, <2>5, <2>8, <2>9, OneSlotStep
<1> QED
  BY <1>2, <1>3 DEF AcceptPartySlot

(* A refund moves what is held back to the wallet.                         *)
LEMMA RefundKeepsBooks ==
  ASSUME Books, NEW r \in Room, NEW p \in Player, NEW op,
         RefundPartySlot(r, p, op)
  PROVE  Books'
<1>1. TypeOK /\ UNCHANGED marker
  BY DEF Books, RefundPartySlot
<1>2. CASE UNCHANGED <<slots, coins, reserved, ledger>>
  BY <1>1, <1>2, NoSlotStep DEF TypeOK
<1>3. ASSUME NEW s \in SlotId, Live(s), For(s, r, p),
             reserved[p] >= slots[s].amount,
             slots' = [slots EXCEPT ![s].status = "REFUNDED"],
             coins' = [coins EXCEPT ![p] = @ + slots[s].amount],
             reserved' = [reserved EXCEPT ![p] = @ - slots[s].amount],
             ledger' = [ledger EXCEPT ![p] = @ + slots[s].amount]
      PROVE  Books'
  <2> DEFINE a == slots[s].amount
  <2>1. slots[s] \in SlotRecord /\ slots[s] # NoSlot /\ a \in Nat
    BY <1>1, <1>3, OfferAssumption DEF TypeOK, Used, Live, SlotRecord
  <2>2. slots'[s] = [slots[s] EXCEPT !.status = "REFUNDED"]
    BY <1>1, <1>3 DEF TypeOK
  <2>3. slots'[s] \in SlotRecord /\ slots'[s] # NoSlot /\ slots'[s].status = "REFUNDED"
    BY <2>1, <2>2, NoSlotAssumption DEF SlotRecord, SlotStatus
  <2>4. \A t \in SlotId : t # s => slots'[t] = slots[t]
    BY <1>1, <1>3 DEF TypeOK
  <2>5. slots' \in SlotFunctions
    BY <1>1, <1>3, <2>3 DEF TypeOK, SlotFunctions
  <2>6. slots[s].status \in {"PRE_START", "ACCEPTED"} /\ slots[s].applicant = p
    BY <1>3 DEF Live, For
  <2>7. ASSUME NEW q \in Player
        PROVE  /\ HeldOf(slots', q)[s] = 0
               /\ HeldOf(slots, q)[s] = IF q = p THEN a ELSE 0
               /\ PaidOf(slots', q)[s] = 0 /\ PaidOf(slots, q)[s] = 0
               /\ ReceivedOf(slots', q)[s] = 0 /\ ReceivedOf(slots, q)[s] = 0
    BY <2>1, <2>3, <2>6 DEF HeldOf, PaidOf, ReceivedOf
  <2>8. ASSUME NEW q \in Player
        PROVE  /\ reserved'[q] = IF q = p THEN reserved[q] - a ELSE reserved[q]
               /\ coins'[q] = IF q = p THEN coins[q] + a ELSE coins[q]
    BY <1>1, <1>3 DEF TypeOK
  <2>9. ASSUME NEW q \in Player
        PROVE  /\ reserved'[q] = reserved[q] - HeldOf(slots, q)[s] + HeldOf(slots', q)[s]
               /\ coins'[q] + reserved'[q] = coins[q] + reserved[q]
                    + (ReceivedOf(slots', q)[s] - ReceivedOf(slots, q)[s])
                    - (PaidOf(slots', q)[s] - PaidOf(slots, q)[s])
    <3>1. coins[q] \in Nat /\ reserved[q] \in Nat
      BY <1>1 DEF TypeOK
    <3> HIDE DEF a
    <3> QED
      BY <2>1, <2>7, <2>8, <3>1
  <2>10. /\ coins' \in [Player -> Nat] /\ reserved' \in [Player -> Int]
         /\ ledger' \in [Player -> Int] /\ marker' \in [Room -> MarkerRecord \cup {NoMarker}]
    <3> HIDE DEF a
    <3> QED BY <1>1, <1>3, <2>1 DEF TypeOK, a
  <2> QED
    BY <2>4, <2>5, <2>9, <2>10, OneSlotStep
<1> QED
  BY <1>2, <1>3 DEF RefundPartySlot

(* What a settlement does to the terms: what a player held and owes        *)
(* becomes paid, and received by the leader every accepted reservation     *)
(* names.                                                                  *)
LEMMA SettledTerms ==
  ASSUME TypeOK, NEW r \in Room, NEW l \in Player, NEW members,
         SettleInState(r, l, members), NEW q \in Player, NEW s \in SlotId
  PROVE  /\ DueFrom(q, r)[s] \in Nat /\ DueIn(r)[s] \in Nat
         /\ HeldOf(slots, q)[s] = HeldOf(slots', q)[s] + DueFrom(q, r)[s]
         /\ PaidOf(slots', q)[s] = PaidOf(slots, q)[s] + DueFrom(q, r)[s]
         /\ q = l => ReceivedOf(slots', q)[s] = ReceivedOf(slots, q)[s] + DueIn(r)[s]
         /\ q # l => ReceivedOf(slots', q)[s] = ReceivedOf(slots, q)[s]
<1>1. slots[s] # NoSlot => slots[s] \in SlotRecord /\ slots[s].amount \in Nat
  BY OfferAssumption DEF TypeOK, SlotRecord
<1>2. slots'[s] = IF AcceptedIn(s, r) THEN [slots[s] EXCEPT !.status = "SETTLED"] ELSE slots[s]
  BY DEF SettleInState
<1>3. CASE AcceptedIn(s, r)
  <2>1. /\ slots[s] # NoSlot /\ slots[s].status = "ACCEPTED" /\ slots[s].leader = l
        /\ slots[s] \in SlotRecord /\ slots[s].amount \in Nat
    BY <1>1, <1>3 DEF AcceptedIn, Used, SettleInState
  <2>2. /\ slots'[s].status = "SETTLED"
        /\ slots'[s].applicant = slots[s].applicant
        /\ slots'[s].leader = l
        /\ slots'[s].amount = slots[s].amount
        /\ slots'[s] \in SlotRecord
    BY <1>2, <1>3, <2>1 DEF SlotRecord, SlotStatus
  <2>3. slots'[s] # NoSlot
    BY <2>2, NoSlotAssumption
  <2>4. /\ HeldOf(slots', q)[s] = 0
        /\ PaidOf(slots, q)[s] = 0
        /\ ReceivedOf(slots, q)[s] = 0
    BY <2>1, <2>2 DEF HeldOf, PaidOf, ReceivedOf
  <2>5. /\ DueFrom(q, r)[s] = IF slots[s].applicant = q THEN slots[s].amount ELSE 0
        /\ DueIn(r)[s] = slots[s].amount
        /\ HeldOf(slots, q)[s] = IF slots[s].applicant = q THEN slots[s].amount ELSE 0
        /\ PaidOf(slots', q)[s] = IF slots[s].applicant = q THEN slots[s].amount ELSE 0
        /\ ReceivedOf(slots', q)[s] = IF l = q THEN slots[s].amount ELSE 0
    BY <1>3, <2>1, <2>2, <2>3 DEF DueFrom, DueIn, HeldOf, PaidOf, ReceivedOf
  <2> QED
    BY <2>1, <2>4, <2>5
<1>4. CASE ~ AcceptedIn(s, r)
  <2>1. slots'[s] = slots[s] /\ DueFrom(q, r)[s] = 0 /\ DueIn(r)[s] = 0
    BY <1>2, <1>4 DEF DueFrom, DueIn
  <2>2. /\ HeldOf(slots', q)[s] = HeldOf(slots, q)[s] /\ HeldOf(slots, q)[s] \in Nat
        /\ PaidOf(slots', q)[s] = PaidOf(slots, q)[s] /\ PaidOf(slots, q)[s] \in Nat
        /\ ReceivedOf(slots', q)[s] = ReceivedOf(slots, q)[s] /\ ReceivedOf(slots, q)[s] \in Nat
    BY <1>1, <2>1 DEF HeldOf, PaidOf, ReceivedOf
  <2> QED
    BY <2>1, <2>2
<1> QED
  BY <1>3, <1>4

(* A settlement keeps the books.                                           *)
LEMMA SettleKeepsBooks ==
  ASSUME Books, NEW r \in Room, NEW l \in Player, NEW members,
         SettleInState(r, l, members),
         marker' \in [Room -> MarkerRecord \cup {NoMarker}]
  PROVE  Books'
<1>1. TypeOK /\ slots \in SlotFunctions /\ \A p \in Player : BalancedFor(p)
  BY BooksAreBalances DEF Books, TypeOK, SlotFunctions
<1>2. slots' \in SlotFunctions
  <2>1. \A s \in SlotId : AcceptedIn(s, r) => slots[s] \in SlotRecord
    BY <1>1 DEF TypeOK, AcceptedIn, Used
  <2>2. \A s \in SlotId : AcceptedIn(s, r) => [slots[s] EXCEPT !.status = "SETTLED"] \in SlotRecord
    BY <2>1 DEF SlotRecord, SlotStatus
  <2> QED
    BY <1>1, <2>2 DEF SettleInState, SlotFunctions
<1> DEFINE e == SumOver(DueIn(r), SlotId)
<1>3. ASSUME NEW q \in Player
      PROVE  /\ BalancedFor(q)' /\ reserved'[q] \in Nat /\ coins'[q] \in Nat /\ e \in Nat
  <2> DEFINE h == SumOver(HeldOf(slots, q), SlotId)
             h2 == SumOver(HeldOf(slots', q), SlotId)
             v == SumOver(ReceivedOf(slots, q), SlotId)
             v2 == SumOver(ReceivedOf(slots', q), SlotId)
             d == SumOver(PaidOf(slots, q), SlotId)
             d2 == SumOver(PaidOf(slots', q), SlotId)
             o == SumOver(DueFrom(q, r), SlotId)
  <2>1. h \in Nat /\ h2 \in Nat /\ v \in Nat /\ v2 \in Nat /\ d \in Nat /\ d2 \in Nat
    BY <1>1, <1>2, TermsAreNaturals
  <2>2. \A s \in SlotId : /\ HeldOf(slots, q)[s] \in Nat /\ HeldOf(slots', q)[s] \in Nat
                          /\ PaidOf(slots, q)[s] \in Nat /\ ReceivedOf(slots, q)[s] \in Nat
                          /\ PaidOf(slots', q)[s] \in Nat /\ ReceivedOf(slots', q)[s] \in Nat
    BY <1>1, <1>2, TermsAreNaturals
  <2>3. \A s \in SlotId :
           /\ DueFrom(q, r)[s] \in Nat /\ DueIn(r)[s] \in Nat
           /\ HeldOf(slots, q)[s] = HeldOf(slots', q)[s] + DueFrom(q, r)[s]
           /\ PaidOf(slots', q)[s] = PaidOf(slots, q)[s] + DueFrom(q, r)[s]
           /\ q = l => ReceivedOf(slots', q)[s] = ReceivedOf(slots, q)[s] + DueIn(r)[s]
           /\ q # l => ReceivedOf(slots', q)[s] = ReceivedOf(slots, q)[s]
    BY <1>1, SettledTerms
  <2>4. o \in Nat /\ e \in Nat
    BY <2>3, SumOfNaturals, PlayersAssumption
  <2>5. h = h2 + o
    BY <2>2, <2>3, SumPointwise, PlayersAssumption
  <2>6. d2 = d + o
    BY <2>2, <2>3, SumPointwise, PlayersAssumption
  <2>7. q = l => v2 = v + e
    BY <2>2, <2>3, SumPointwise, PlayersAssumption
  <2>8. q # l => v2 = v
    BY <2>2, <2>3, SumCongruence, PlayersAssumption
  <2>9. /\ reserved[q] = h
        /\ coins[q] + reserved[q] = InitialCoins[q] + v - d
        /\ reserved'[q] = reserved[q] - o
    BY <1>1 DEF BalancedFor, SettleInState
  <2>10. coins'[q] = IF q = l THEN coins[q] + e ELSE coins[q]
    <3>1. coins' = [coins EXCEPT ![l] = @ + SumOver(DueIn(r), SlotId)]
      BY DEF SettleInState
    <3> QED
      BY <1>1, <3>1 DEF TypeOK
  <2>11. InitialCoins[q] \in Nat /\ coins[q] \in Nat
    BY <1>1, InitialCoinsAssumption DEF TypeOK
  <2> HIDE DEF h, h2, v, v2, d, d2, o, e
  <2>12. reserved'[q] = h2 /\ coins'[q] \in Nat
    BY <2>1, <2>4, <2>5, <2>9, <2>10, <2>11
  <2>13. coins'[q] + reserved'[q] = InitialCoins[q] + v2 - d2
    BY <2>1, <2>4, <2>5, <2>6, <2>7, <2>8, <2>9, <2>10, <2>11, <2>12
  <2> QED
    BY <2>1, <2>4, <2>12, <2>13 DEF BalancedFor, h2, v2, d2
<1>4. TypeOK'
  <2>1. reserved' \in [Player -> Nat] /\ coins' \in [Player -> Nat]
    <3>1. DOMAIN reserved' = Player /\ reserved' = [p \in Player |-> reserved'[p]]
      BY DEF SettleInState
    <3>2. coins' = [p \in Player |-> coins'[p]]
      BY <1>1 DEF SettleInState, TypeOK
    <3> HIDE DEF e
    <3> QED BY <1>3, <3>1, <3>2
  <2>2. ledger' \in [Player -> Int]
    <3>1. e \in Nat
      BY <1>3
    <3>2. ledger' = [ledger EXCEPT ![l] = @ + e]
      BY DEF SettleInState
    <3> HIDE DEF e
    <3> QED BY <1>1, <3>1, <3>2 DEF TypeOK
  <2> QED
    BY <1>2, <2>1, <2>2 DEF TypeOK, SlotFunctions
<1> QED
  BY <1>3, <1>4, BooksAreBalances

(* The restart's cleanup pays every live reservation back.                 *)
LEMMA CleanupKeepsBooks ==
  ASSUME Books, CleanupOrphanedPartySlots
  PROVE  Books'
<1>1. TypeOK /\ slots \in SlotFunctions /\ \A p \in Player : BalancedFor(p)
  BY BooksAreBalances DEF Books, TypeOK, SlotFunctions
<1>2. ASSUME NEW s \in SlotId
      PROVE  /\ slots'[s] = IF Live(s) THEN [slots[s] EXCEPT !.status = "REFUNDED"] ELSE slots[s]
             /\ Live(s) => /\ slots[s] \in SlotRecord
                           /\ slots'[s] \in SlotRecord
                           /\ slots'[s].status = "REFUNDED"
  <2>1. slots'[s] = IF Live(s) THEN [slots[s] EXCEPT !.status = "REFUNDED"] ELSE slots[s]
    BY DEF CleanupOrphanedPartySlots
  <2>2. Live(s) => slots[s] \in SlotRecord
    BY <1>1 DEF TypeOK, Live, Used
  <2> QED
    BY <2>1, <2>2 DEF SlotRecord, SlotStatus
<1>3. slots' \in SlotFunctions
  <2>1. slots' = [s \in SlotId |-> slots'[s]]
    BY DEF CleanupOrphanedPartySlots
  <2>2. \A s \in SlotId : slots'[s] \in SlotRecord \cup {NoSlot}
    BY <1>1, <1>2 DEF SlotFunctions
  <2> QED
    BY <2>1, <2>2 DEF SlotFunctions
<1>4. ASSUME NEW q \in Player
      PROVE  /\ BalancedFor(q)' /\ reserved'[q] \in Nat /\ coins'[q] \in Nat
             /\ SumOver(Held(q), SlotId) \in Nat
  <2>1. /\ SumOver(HeldOf(slots, q), SlotId) \in Nat
        /\ SumOver(PaidOf(slots, q), SlotId) \in Nat
        /\ SumOver(ReceivedOf(slots, q), SlotId) \in Nat
    BY <1>1, TermsAreNaturals
  <2>2. ASSUME NEW s \in SlotId
        PROVE  /\ HeldOf(slots', q)[s] = 0
               /\ PaidOf(slots', q)[s] = PaidOf(slots, q)[s]
               /\ ReceivedOf(slots', q)[s] = ReceivedOf(slots, q)[s]
    <3>1. CASE Live(s)
      <4>1. slots'[s].status = "REFUNDED" /\ slots[s].status \in {"PRE_START", "ACCEPTED"}
        BY <1>2, <3>1 DEF Live
      <4> QED BY <4>1 DEF HeldOf, PaidOf, ReceivedOf
    <3>2. CASE ~ Live(s)
      <4>1. slots'[s] = slots[s]
        BY <1>2, <3>2
      <4> QED BY <4>1, <3>2 DEF HeldOf, PaidOf, ReceivedOf, Live, Used
    <3> QED BY <3>1, <3>2
  <2>3. SumOver(HeldOf(slots', q), SlotId) = 0
    BY <2>2, SumZero, PlayersAssumption
  <2>4. \A s \in SlotId : PaidOf(slots, q)[s] \in Int /\ ReceivedOf(slots, q)[s] \in Int
    BY <1>1, TermsAreNaturals
  <2>5. SumOver(PaidOf(slots, q), SlotId) = SumOver(PaidOf(slots', q), SlotId)
    BY <2>2, <2>4, SumCongruence, PlayersAssumption
  <2>6. SumOver(ReceivedOf(slots, q), SlotId) = SumOver(ReceivedOf(slots', q), SlotId)
    BY <2>2, <2>4, SumCongruence, PlayersAssumption
  <2>7. Held(q) = HeldOf(slots, q)
    BY TermsOfState
  <2>8. /\ reserved'[q] = reserved[q] - SumOver(Held(q), SlotId)
        /\ coins'[q] = coins[q] + SumOver(Held(q), SlotId)
    BY DEF CleanupOrphanedPartySlots
  <2>9. /\ reserved[q] = SumOver(HeldOf(slots, q), SlotId)
        /\ coins[q] + reserved[q] = InitialCoins[q]
             + SumOver(ReceivedOf(slots, q), SlotId) - SumOver(PaidOf(slots, q), SlotId)
        /\ coins[q] \in Nat /\ InitialCoins[q] \in Nat
    BY <1>1, InitialCoinsAssumption DEF BalancedFor, TypeOK
  <2> QED
    BY <2>1, <2>3, <2>5, <2>6, <2>7, <2>8, <2>9 DEF BalancedFor
<1>5. TypeOK'
  <2>1. /\ coins' = [p \in Player |-> coins'[p]]
        /\ reserved' = [p \in Player |-> reserved'[p]]
        /\ ledger' = [p \in Player |-> ledger[p] + SumOver(Held(p), SlotId)]
        /\ marker' = marker
    BY DEF CleanupOrphanedPartySlots
  <2>2. coins' \in [Player -> Nat] /\ reserved' \in [Player -> Nat]
    BY <1>4, <2>1
  <2>3. ledger' \in [Player -> Int]
    BY <1>1, <1>4, <2>1 DEF TypeOK
  <2> QED
    BY <1>1, <1>3, <2>1, <2>2, <2>3 DEF TypeOK, SlotFunctions
<1> QED
  BY <1>4, <1>5, BooksAreBalances

-----------------------------------------------------------------------------
(* The books are an invariant: every transaction of the party slots keeps  *)
(* them, whatever the players, rooms, offers and operation ids are.        *)
THEOREM BooksInvariant == Spec => []Books
<1>1. Init => Books
  BY InitBooks
<1>2. Books /\ [Next]_vars => Books'
  <2> SUFFICES ASSUME Books, [Next]_vars PROVE Books'
    OBVIOUS
  <2>1. ASSUME NEW r \in Room, NEW p \in Player, NEW op \in OpId, NEW l \in Player,
               NEW amount \in Offer, ReservePartySlot(r, p, l, amount, op)
        PROVE  Books'
    BY <2>1, ReserveKeepsBooks
  <2>2. ASSUME NEW r \in Room, NEW p \in Player, NEW op \in OpId, NEW l \in Player,
               AcceptPartySlot(r, p, l, op)
        PROVE  Books'
    BY <2>2, AcceptKeepsBooks
  <2>3. ASSUME NEW r \in Room, NEW p \in Player, NEW op \in OpId, RefundPartySlot(r, p, op)
        PROVE  Books'
    BY <2>3, RefundKeepsBooks
  <2>4. ASSUME NEW r \in Room, NEW l \in Player, NEW op \in OpId,
               NEW members \in SUBSET Player, SettlePartySlots(r, l, members, op)
        PROVE  Books'
    <3>1. SettleInState(r, l, members) /\ marker' \in [Room -> MarkerRecord \cup {NoMarker}]
      BY <2>4 DEF SettlePartySlots, Books, TypeOK
    <3> QED BY <3>1, SettleKeepsBooks
  <2>5. ASSUME NEW r \in Room, NEW l \in Player, NEW members \in SUBSET Player,
               StartExpedition(r, l, members)
        PROVE  Books'
    <3>1. SettleInState(r, l, members) /\ marker' \in [Room -> MarkerRecord \cup {NoMarker}]
      BY <2>5 DEF StartExpedition, Books, TypeOK, MarkerRecord
    <3> QED BY <3>1, SettleKeepsBooks
  <2>6. CASE CleanupOrphanedPartySlots
    BY <2>6, CleanupKeepsBooks
  <2>7. CASE UNCHANGED vars
    BY <2>7, NoSlotStep DEF vars, Books, TypeOK
  <2> QED
    BY <2>1, <2>2, <2>3, <2>4, <2>5, <2>6, <2>7 DEF Next
<1> QED
  BY <1>1, <1>2, PTL DEF Spec

(* Types hold in every reachable state; no wallet and no reservation       *)
(* balance is ever negative.                                               *)
THEOREM TypeCorrect == Spec => []TypeOK
<1>1. Books => TypeOK
  BY DEF Books
<1> QED
  BY <1>1, BooksInvariant, PTL

(* The reserved coins of a player are always exactly its live              *)
(* reservations.                                                           *)
THEOREM ReservedMatches == Spec => []ReservedMatchesSlots
<1>1. Books => ReservedMatchesSlots
  BY DEF Books
<1> QED
  BY <1>1, BooksInvariant, PTL

(* Wallets change by settled payments only, each received by the leader    *)
(* its reservation names.                                                  *)
THEOREM WalletsBalance == Spec => []WalletsAccountForPayments
<1>1. Books => WalletsAccountForPayments
  BY DEF Books
<1> QED
  BY <1>1, BooksInvariant, PTL

-----------------------------------------------------------------------------
(* The facts the balances do not need: what the ledger adds up to, one     *)
(* reservation per seat, and the key of the start behind every marker.     *)
Settled ==
  /\ LedgerExplainsWallets
  /\ OneReservationPerSeat
  /\ \A r \in Room : marker[r] # NoMarker => StartKey(r) \in operations

-----------------------------------------------------------------------------
(* The sums that move coins are integers.                                  *)
LEMMA DueIsNatural ==
  ASSUME TypeOK, NEW r, NEW p
  PROVE  /\ SumOver(DueIn(r), SlotId) \in Nat
         /\ SumOver(Held(p), SlotId) \in Nat
<1> IsFiniteSet(SlotId)
  BY PlayersAssumption
<1>1. \A s \in SlotId : DueIn(r)[s] \in Nat /\ Held(p)[s] \in Nat
  BY OfferAssumption DEF TypeOK, SlotRecord, DueIn, Held, AcceptedIn, Live, Used
<1>2. SumOver(DueIn(r), SlotId) \in Nat
  BY <1>1, SumOfNaturals
<1>3. SumOver(Held(p), SlotId) \in Nat
  BY <1>1, SumOfNaturals
<1> QED
  BY <1>2, <1>3

(* Reservations that only move on in their statuses, and none back from    *)
(* REFUNDED, leave each seat with at most one of them.                     *)
LEMMA SeatsKept ==
  ASSUME OneReservationPerSeat,
         \A s \in SlotId : s \in Used' =>
           /\ s \in Used
           /\ slots'[s].room = slots[s].room /\ slots'[s].applicant = slots[s].applicant
           /\ slots'[s].status # "REFUNDED" => slots[s].status # "REFUNDED"
  PROVE  OneReservationPerSeat'
<1> Used' \subseteq SlotId
  BY DEF Used
<1> QED
  BY DEF OneReservationPerSeat

(* Coins that move with their entry of the ledger stay explained by it.    *)
LEMMA LedgerFollows ==
  ASSUME TypeOK, LedgerExplainsWallets,
         \A q \in Player : \E n \in Int :
           coins'[q] = coins[q] + n /\ ledger'[q] = ledger[q] + n
  PROVE  LedgerExplainsWallets'
<1> SUFFICES ASSUME NEW q \in Player PROVE coins'[q] = InitialCoins[q] + ledger'[q]
  BY DEF LedgerExplainsWallets
<1>1. PICK n \in Int : coins'[q] = coins[q] + n /\ ledger'[q] = ledger[q] + n
  OBVIOUS
<1>2. coins[q] = InitialCoins[q] + ledger[q]
  BY DEF LedgerExplainsWallets
<1>3. coins[q] \in Int /\ ledger[q] \in Int /\ InitialCoins[q] \in Int
  BY InitialCoinsAssumption DEF TypeOK
<1> QED
  BY <1>1, <1>2, <1>3

(* The same when one wallet changes.                                       *)
LEMMA OneWalletMoves ==
  ASSUME TypeOK, LedgerExplainsWallets, NEW p \in Player, NEW n \in Nat,
         \/ /\ coins' = [coins EXCEPT ![p] = @ + n] /\ ledger' = [ledger EXCEPT ![p] = @ + n]
         \/ /\ coins' = [coins EXCEPT ![p] = @ - n] /\ ledger' = [ledger EXCEPT ![p] = @ - n]
  PROVE  LedgerExplainsWallets'
<1>1. \A q \in Player : coins[q] \in Int /\ ledger[q] \in Int
  BY DEF TypeOK
<1>2. DOMAIN coins = Player /\ DOMAIN ledger = Player
  BY DEF TypeOK
<1>3. ASSUME NEW q \in Player
      PROVE  \E k \in Int : coins'[q] = coins[q] + k /\ ledger'[q] = ledger[q] + k
  <2>1. CASE q # p
    <3>1. coins'[q] = coins[q] + 0 /\ ledger'[q] = ledger[q] + 0
      BY <1>1, <1>2, <2>1
    <3> QED
      BY <3>1
  <2>2. CASE q = p
    <3>1. \/ coins'[q] = coins[q] + n /\ ledger'[q] = ledger[q] + n
          \/ coins'[q] = coins[q] + (0 - n) /\ ledger'[q] = ledger[q] + (0 - n)
      BY <1>1, <1>2, <2>2
    <3> QED
      BY <3>1
  <2> QED
    BY <2>1, <2>2
<1> QED
  BY <1>3, LedgerFollows

(* An update of one used reservation's status keeps all others.            *)
LEMMA OneStatusChanges ==
  ASSUME TypeOK, NEW s \in Used, NEW status \in SlotStatus,
         slots' = [slots EXCEPT ![s].status = status]
  PROVE  /\ Used' = Used
         /\ slots'[s] = [slots[s] EXCEPT !.status = status]
         /\ slots'[s].status = status
         /\ slots'[s].room = slots[s].room /\ slots'[s].applicant = slots[s].applicant
         /\ \A t \in SlotId \ {s} : slots'[t] = slots[t]
<1>1. s \in SlotId /\ slots[s] \in SlotRecord
  BY DEF Used, TypeOK
<1>2. slots'[s] = [slots[s] EXCEPT !.status = status] /\ slots'[s] \in SlotRecord
  BY <1>1 DEF TypeOK, SlotRecord
<1>3. \A t \in SlotId \ {s} : slots'[t] = slots[t]
  BY DEF TypeOK
<1>4. slots'[s] # NoSlot
  BY <1>2, NoSlotAssumption
<1>5. Used' = Used
  BY <1>1, <1>3, <1>4 DEF Used
<1>6. /\ slots'[s].status = status
      /\ slots'[s].room = slots[s].room /\ slots'[s].applicant = slots[s].applicant
  BY <1>1, <1>2 DEF SlotRecord
<1> QED
  BY <1>2, <1>3, <1>5, <1>6

(* So does an update of the statuses of a set of reservations.             *)
LEMMA StatusesChange ==
  ASSUME TypeOK, NEW T \in SUBSET Used, NEW status \in SlotStatus,
         slots' = [s \in SlotId |-> IF s \in T THEN [slots[s] EXCEPT !.status = status] ELSE slots[s]]
  PROVE  /\ Used' = Used
         /\ \A s \in T : /\ slots'[s] = [slots[s] EXCEPT !.status = status]
                         /\ slots'[s].status = status
                         /\ slots'[s].room = slots[s].room
                         /\ slots'[s].applicant = slots[s].applicant
         /\ \A s \in SlotId \ T : slots'[s] = slots[s]
<1>1. \A s \in Used : s \in SlotId /\ slots[s] \in SlotRecord
  BY DEF Used, TypeOK
<1>2. \A s \in T : slots'[s] = [slots[s] EXCEPT !.status = status] /\ slots'[s] \in SlotRecord
  BY <1>1 DEF SlotRecord
<1>3. \A s \in SlotId \ T : slots'[s] = slots[s]
  OBVIOUS
<1>4. \A s \in T : slots'[s] # NoSlot
  BY <1>2, NoSlotAssumption
<1>5. Used' = Used
  BY <1>1, <1>3, <1>4 DEF Used
<1>6. \A s \in T : /\ slots'[s].status = status
                   /\ slots'[s].room = slots[s].room
                   /\ slots'[s].applicant = slots[s].applicant
  BY <1>1, <1>2 DEF SlotRecord
<1> QED
  BY <1>2, <1>3, <1>5, <1>6

-----------------------------------------------------------------------------
LEMMA InitSettled == Init => Settled
BY InitialCoinsAssumption DEF Init, Settled, LedgerExplainsWallets, OneReservationPerSeat, Used

(* A new reservation: the seat was free, and coins and ledger agree.       *)
LEMMA ReserveKeepsSettled ==
  ASSUME TypeOK, Settled,
         NEW r \in Room, NEW p \in Player, NEW l \in Player, NEW amount \in Offer, NEW op \in OpId,
         ReservePartySlot(r, p, l, amount, op)
  PROVE  Settled'
<1> USE DEF ReservePartySlot
<1>1. LedgerExplainsWallets'
  BY OneWalletMoves, OfferAssumption DEF Settled
<1>2. PICK s \in SlotId \ Used :
        slots' = [slots EXCEPT ![s] = [status |-> "PRE_START", room |-> r,
                    applicant |-> p, leader |-> l, amount |-> amount]]
  OBVIOUS
<1>3. \A t \in SlotId \ {s} : slots'[t] = slots[t]
  BY <1>2 DEF TypeOK
<1>4. slots'[s].room = r /\ slots'[s].applicant = p
  BY <1>2 DEF TypeOK
<1>5. \A t \in Used : t # s /\ (For(t, r, p) => slots[t].status = "REFUNDED")
  BY <1>2 DEF SeatIsFree
<1>6. \A t \in Used' : t = s \/ t \in Used
  BY <1>3 DEF Used
<1>7. OneReservationPerSeat'
  BY <1>3, <1>4, <1>5, <1>6 DEF Settled, OneReservationPerSeat, For, Used
<1>8. \A q \in Room : marker'[q] # NoMarker => StartKey(q) \in operations'
  BY DEF Settled
<1> QED
  BY <1>1, <1>7, <1>8 DEF Settled

LEMMA AcceptKeepsSettled ==
  ASSUME TypeOK, Settled, NEW r \in Room, NEW p \in Player, NEW l \in Player, NEW op \in OpId,
         AcceptPartySlot(r, p, l, op)
  PROVE  Settled'
<1>1. LedgerExplainsWallets' /\ \A q \in Room : marker'[q] # NoMarker => StartKey(q) \in operations'
  BY DEF AcceptPartySlot, Settled, LedgerExplainsWallets
<1>2. CASE UNCHANGED slots
  BY <1>1, <1>2 DEF Settled, OneReservationPerSeat, Used
<1>3. ASSUME NEW s \in Used, slots[s].status = "PRE_START",
             slots' = [slots EXCEPT ![s].status = "ACCEPTED"]
      PROVE  OneReservationPerSeat'
  <2>1. "ACCEPTED" \in SlotStatus
    BY DEF SlotStatus
  <2>2. \A t \in SlotId : t \in Used' =>
          /\ t \in Used
          /\ slots'[t].room = slots[t].room /\ slots'[t].applicant = slots[t].applicant
          /\ slots'[t].status # "REFUNDED" => slots[t].status # "REFUNDED"
    BY <1>3, <2>1, OneStatusChanges
  <2> QED
    BY <2>2, SeatsKept DEF Settled
<1> QED
  BY <1>1, <1>2, <1>3 DEF AcceptPartySlot, Settled

LEMMA RefundKeepsSettled ==
  ASSUME TypeOK, Settled, NEW r \in Room, NEW p \in Player, NEW op \in OpId,
         RefundPartySlot(r, p, op)
  PROVE  Settled'
<1>1. \A q \in Room : marker'[q] # NoMarker => StartKey(q) \in operations'
  BY DEF RefundPartySlot, Settled
<1>2. CASE UNCHANGED <<slots, coins, ledger>>
  BY <1>1, <1>2 DEF Settled, OneReservationPerSeat, LedgerExplainsWallets, Used
<1>3. ASSUME NEW s \in Used,
             slots[s].status # "REFUNDED",
             slots' = [slots EXCEPT ![s].status = "REFUNDED"],
             coins' = [coins EXCEPT ![p] = @ + slots[s].amount],
             ledger' = [ledger EXCEPT ![p] = @ + slots[s].amount]
      PROVE  Settled'
  <2>1. "REFUNDED" \in SlotStatus
    BY DEF SlotStatus
  <2>2. \A t \in SlotId : t \in Used' =>
          /\ t \in Used
          /\ slots'[t].room = slots[t].room /\ slots'[t].applicant = slots[t].applicant
          /\ slots'[t].status # "REFUNDED" => slots[t].status # "REFUNDED"
    BY <1>3, <2>1, OneStatusChanges
  <2>3. OneReservationPerSeat'
    BY <2>2, SeatsKept DEF Settled
  <2>4. slots[s].amount \in Nat
    BY OfferAssumption DEF TypeOK, SlotRecord, Used
  <2>5. LedgerExplainsWallets'
    BY <1>3, <2>4, OneWalletMoves DEF Settled
  <2> QED
    BY <1>1, <2>3, <2>5 DEF Settled
<1> QED
  BY <1>1, <1>2, <1>3 DEF RefundPartySlot, Live

(* A settlement, with or without the marker its key goes with.             *)
LEMMA SettleKeepsSettled ==
  ASSUME TypeOK, Settled, NEW r \in Room, NEW l \in Player, NEW members \in SUBSET Player,
         SettleInState(r, l, members),
         \A q \in Room : marker'[q] # NoMarker => StartKey(q) \in operations'
  PROVE  Settled'
<1> DEFINE T == {s \in SlotId : AcceptedIn(s, r)}
<1>1. T \in SUBSET Used
  BY DEF AcceptedIn
<1>2. slots' = [s \in SlotId |-> IF s \in T THEN [slots[s] EXCEPT !.status = "SETTLED"] ELSE slots[s]]
  BY DEF SettleInState
<1>3. "SETTLED" \in SlotStatus
  BY DEF SlotStatus
<1>4. \A t \in T : slots[t].status = "ACCEPTED"
  BY DEF AcceptedIn
<1>5. \A t \in SlotId : t \in Used' =>
        /\ t \in Used
        /\ slots'[t].room = slots[t].room /\ slots'[t].applicant = slots[t].applicant
        /\ slots'[t].status # "REFUNDED" => slots[t].status # "REFUNDED"
  <2> HIDE DEF T
  <2>1. /\ Used' = Used
        /\ \A s \in T : slots'[s].room = slots[s].room /\ slots'[s].applicant = slots[s].applicant
        /\ \A s \in SlotId \ T : slots'[s] = slots[s]
    BY <1>1, <1>2, <1>3, StatusesChange
  <2> QED
    BY <2>1, <1>4
<1>6. OneReservationPerSeat'
  BY <1>5, SeatsKept DEF Settled
<1>7. LedgerExplainsWallets'
  <2>1. SumOver(DueIn(r), SlotId) \in Nat
    BY DueIsNatural
  <2> QED
    BY <2>1, OneWalletMoves DEF SettleInState, Settled
<1> QED
  BY <1>6, <1>7 DEF Settled

LEMMA CleanupKeepsSettled ==
  ASSUME TypeOK, Settled, CleanupOrphanedPartySlots
  PROVE  Settled'
<1> DEFINE T == {s \in SlotId : Live(s)}
<1>1. T \in SUBSET Used
  BY DEF Live
<1>2. slots' = [s \in SlotId |-> IF s \in T THEN [slots[s] EXCEPT !.status = "REFUNDED"] ELSE slots[s]]
  BY DEF CleanupOrphanedPartySlots
<1>3. "REFUNDED" \in SlotStatus
  BY DEF SlotStatus
<1>4. \A t \in SlotId : t \in Used' =>
        /\ t \in Used
        /\ slots'[t].room = slots[t].room /\ slots'[t].applicant = slots[t].applicant
        /\ slots'[t].status # "REFUNDED" => slots[t].status # "REFUNDED"
  <2> HIDE DEF T
  <2>1. /\ Used' = Used
        /\ \A s \in T : /\ slots'[s].room = slots[s].room /\ slots'[s].applicant = slots[s].applicant
                         /\ slots'[s].status = "REFUNDED"
        /\ \A s \in SlotId \ T : slots'[s] = slots[s]
    BY <1>1, <1>2, <1>3, StatusesChange
  <2> QED
    BY <2>1
<1>5. OneReservationPerSeat'
  BY <1>4, SeatsKept DEF Settled
<1>6. LedgerExplainsWallets'
  <2>1. \A p : SumOver(Held(p), SlotId) \in Nat
    BY DueIsNatural
  <2> QED
    BY <2>1, InitialCoinsAssumption DEF CleanupOrphanedPartySlots, Settled, LedgerExplainsWallets, TypeOK
<1>7. \A q \in Room : marker'[q] # NoMarker => StartKey(q) \in operations'
  BY DEF CleanupOrphanedPartySlots, Settled
<1> QED
  BY <1>5, <1>6, <1>7 DEF Settled

(* The settlement's extra facts hold together with the balances.           *)
THEOREM SettledInvariant == Spec => []Settled
<1>1. Init => Settled
  BY InitSettled
<1>2. TypeOK /\ Settled /\ [Next]_vars => Settled'
  <2> SUFFICES ASSUME TypeOK, Settled, [Next]_vars
               PROVE  Settled'
    OBVIOUS
  <2>1. ASSUME NEW r \in Room, NEW p \in Player, NEW op \in OpId, NEW l \in Player,
               NEW amount \in Offer, ReservePartySlot(r, p, l, amount, op)
        PROVE  Settled'
    BY <2>1, ReserveKeepsSettled
  <2>2. ASSUME NEW r \in Room, NEW p \in Player, NEW op \in OpId, NEW l \in Player,
               AcceptPartySlot(r, p, l, op)
        PROVE  Settled'
    BY <2>2, AcceptKeepsSettled
  <2>3. ASSUME NEW r \in Room, NEW p \in Player, NEW op \in OpId, RefundPartySlot(r, p, op)
        PROVE  Settled'
    BY <2>3, RefundKeepsSettled
  <2>4. ASSUME NEW r \in Room, NEW p \in Player, NEW op \in OpId, NEW members \in SUBSET Player,
               SettlePartySlots(r, p, members, op)
        PROVE  Settled'
    <3>1. \A q \in Room : marker'[q] # NoMarker => StartKey(q) \in operations'
      BY <2>4 DEF SettlePartySlots, Settled
    <3> QED
      BY <2>4, <3>1, SettleKeepsSettled DEF SettlePartySlots
  <2>5. ASSUME NEW r \in Room, NEW l \in Player, NEW members \in SUBSET Player,
               StartExpedition(r, l, members)
        PROVE  Settled'
    <3>1. \A q \in Room : marker'[q] # NoMarker => StartKey(q) \in operations'
      BY <2>5 DEF StartExpedition, Settled, TypeOK
    <3> QED
      BY <2>5, <3>1, SettleKeepsSettled DEF StartExpedition
  <2>6. CASE CleanupOrphanedPartySlots
    BY <2>6, CleanupKeepsSettled
  <2>7. CASE UNCHANGED vars
    BY <2>7 DEF vars, Settled, LedgerExplainsWallets, OneReservationPerSeat, Used
  <2> QED
    BY <2>1, <2>2, <2>3, <2>4, <2>5, <2>6, <2>7 DEF Next
<1> QED
  BY <1>1, <1>2, TypeCorrect, PTL DEF Spec

(* Every entry of the ledger is a coin that moved, and every coin that     *)
(* stayed moved was paid to the leader its reservation names.              *)
THEOREM LedgerReconciled == Spec => []LedgerReconciles
<1>1. Settled /\ WalletsAccountForPayments => LedgerReconciles
  BY DEF Settled, LedgerReconciles
<1> QED
  BY <1>1, SettledInvariant, WalletsBalance, PTL

(* A seat has at most one reservation that is not refunded.                *)
THEOREM SeatsAreSingle == Spec => []OneReservationPerSeat
<1>1. Settled => OneReservationPerSeat
  BY DEF Settled
<1> QED
  BY <1>1, SettledInvariant, PTL

-----------------------------------------------------------------------------
(* What SettlementIsFinal says of the reservations, for a step that gives  *)
(* the reservations of T, none of them finished, one status.               *)
LEMMA StatusesKeepFinished ==
  ASSUME TypeOK, NEW T \in SUBSET Used, NEW status \in SlotStatus,
         \A s \in T : slots[s].status \notin {"SETTLED", "REFUNDED"},
         slots' = [s \in SlotId |-> IF s \in T THEN [slots[s] EXCEPT !.status = status] ELSE slots[s]]
  PROVE  /\ KeepsFinished
         /\ status # "SETTLED" => SettlesTogether
<1>1. /\ Used' = Used
      /\ \A s \in T : /\ slots'[s] = [slots[s] EXCEPT !.status = status]
                      /\ slots'[s].status = status
      /\ \A s \in SlotId \ T : slots'[s] = slots[s]
  BY StatusesChange
<1>2. \A s \in Used : slots[s] = [slots[s] EXCEPT !.status = slots[s].status]
  BY DEF Used, TypeOK, SlotRecord
<1>3. Used \subseteq SlotId
  BY DEF Used
<1>4. KeepsFinished
  BY <1>1, <1>2, <1>3 DEF KeepsFinished
<1>5. status # "SETTLED" => SettlesTogether
  BY <1>1, <1>3 DEF SettlesTogether
<1> QED
  BY <1>4, <1>5

(* The same for a step that changes one reservation or none.               *)
LEMMA StatusKeepsFinished ==
  ASSUME TypeOK, NEW s \in Used, NEW status \in SlotStatus,
         slots[s].status \notin {"SETTLED", "REFUNDED"},
         slots' = [slots EXCEPT ![s].status = status]
  PROVE  /\ KeepsFinished
         /\ status # "SETTLED" => SettlesTogether
<1>1. slots' = [t \in SlotId |-> IF t \in {s} THEN [slots[t] EXCEPT !.status = status] ELSE slots[t]]
  BY DEF TypeOK
<1> QED
  BY <1>1, StatusesKeepFinished, Zenon

LEMMA SlotsUnchangedKeeps ==
  ASSUME TypeOK, UNCHANGED slots
  PROVE  KeepsFinished /\ SettlesTogether
<1>1. \A s \in Used : slots[s] = [slots[s] EXCEPT !.status = slots[s].status]
  BY DEF Used, TypeOK, SlotRecord
<1> QED
  BY <1>1 DEF KeepsFinished, SettlesTogether, Used

(* A settlement takes all the accepted reservations of its room.           *)
LEMMA SettleIsTogether ==
  ASSUME TypeOK, NEW r \in Room, NEW l \in Player, NEW members \in SUBSET Player,
         SettleInState(r, l, members)
  PROVE  KeepsFinished /\ SettlesTogether
<1> DEFINE T == {s \in SlotId : AcceptedIn(s, r)}
<1>1. T \in SUBSET Used /\ \A s \in T : slots[s].status = "ACCEPTED" /\ slots[s].room = r
  BY DEF AcceptedIn
<1>2. slots' = [s \in SlotId |-> IF s \in T THEN [slots[s] EXCEPT !.status = "SETTLED"] ELSE slots[s]]
  BY DEF SettleInState
<1>3. "SETTLED" \in SlotStatus
  BY DEF SlotStatus
<1>4. \A s \in T : slots[s].leader = l
  BY DEF SettleInState
<1>5. \A t \in SlotId : AcceptedIn(t, r) => t \in T
  OBVIOUS
<1> HIDE DEF T
<1>6. KeepsFinished
  BY <1>1, <1>2, <1>3, StatusesKeepFinished
<1>7. /\ \A s \in T : slots'[s].status = "SETTLED"
      /\ \A s \in SlotId \ T : slots'[s] = slots[s]
  BY <1>1, <1>2, <1>3, StatusesChange
<1>8. SettlesTogether
  <2> SUFFICES ASSUME NEW s \in Used, slots[s].status # "SETTLED", slots'[s].status = "SETTLED"
               PROVE  /\ slots[s].status = "ACCEPTED"
                      /\ \A t \in SlotId : AcceptedIn(t, slots[s].room) =>
                           /\ slots'[t].status = "SETTLED"
                           /\ slots[t].leader = slots[s].leader
    BY DEF SettlesTogether
  <2>1. s \in T
    BY <1>7 DEF Used
  <2> QED
    BY <2>1, <1>1, <1>4, <1>5, <1>7
<1> QED
  BY <1>6, <1>8

(* The settlement of a room is atomic and final.                           *)
LEMMA StepIsFinal ==
  ASSUME TypeOK, Settled, [Next]_vars
  PROVE  SettlesTogether /\ KeepsFinished /\ KeepsMarkers
<1>1. ASSUME NEW r \in Room, NEW p \in Player, NEW op \in OpId, NEW l \in Player,
             NEW amount \in Offer, ReservePartySlot(r, p, l, amount, op)
      PROVE  SettlesTogether /\ KeepsFinished /\ KeepsMarkers
  <2>1. PICK s \in SlotId \ Used :
          slots' = [slots EXCEPT ![s] = [status |-> "PRE_START", room |-> r,
                      applicant |-> p, leader |-> l, amount |-> amount]]
    BY <1>1 DEF ReservePartySlot
  <2>2. \A t \in Used : slots'[t] = slots[t] /\ t \in Used'
    BY <2>1 DEF TypeOK, Used
  <2>3. \A t \in Used : slots[t] = [slots[t] EXCEPT !.status = slots[t].status]
    BY DEF Used, TypeOK, SlotRecord
  <2>4. KeepsFinished
    BY <2>2, <2>3 DEF KeepsFinished
  <2>5. SettlesTogether /\ KeepsMarkers
    BY <1>1, <2>2 DEF SettlesTogether, KeepsMarkers, ReservePartySlot
  <2> QED
    BY <2>4, <2>5
<1>2. ASSUME NEW r \in Room, NEW p \in Player, NEW op \in OpId, NEW l \in Player,
             AcceptPartySlot(r, p, l, op)
      PROVE  SettlesTogether /\ KeepsFinished /\ KeepsMarkers
  <2>1. KeepsMarkers
    BY <1>2 DEF AcceptPartySlot, KeepsMarkers
  <2>2. CASE UNCHANGED slots
    BY <2>1, <2>2, SlotsUnchangedKeeps
  <2>3. ASSUME NEW s \in Used, slots[s].status = "PRE_START",
               slots' = [slots EXCEPT ![s].status = "ACCEPTED"]
        PROVE  KeepsFinished /\ SettlesTogether
    BY <2>3, StatusKeepsFinished DEF SlotStatus
  <2> QED
    BY <1>2, <2>1, <2>2, <2>3 DEF AcceptPartySlot
<1>3. ASSUME NEW r \in Room, NEW p \in Player, NEW op \in OpId, RefundPartySlot(r, p, op)
      PROVE  SettlesTogether /\ KeepsFinished /\ KeepsMarkers
  <2>1. KeepsMarkers
    BY <1>3 DEF RefundPartySlot, KeepsMarkers
  <2>2. CASE UNCHANGED slots
    BY <2>1, <2>2, SlotsUnchangedKeeps
  <2>3. ASSUME NEW s \in Used, slots[s].status \in {"PRE_START", "ACCEPTED"},
               slots' = [slots EXCEPT ![s].status = "REFUNDED"]
        PROVE  KeepsFinished /\ SettlesTogether
    BY <2>3, StatusKeepsFinished DEF SlotStatus
  <2> QED
    BY <1>3, <2>1, <2>2, <2>3 DEF RefundPartySlot, Live
<1>4. ASSUME NEW r \in Room, NEW p \in Player, NEW op \in OpId, NEW members \in SUBSET Player,
             SettlePartySlots(r, p, members, op)
      PROVE  SettlesTogether /\ KeepsFinished /\ KeepsMarkers
  BY <1>4, SettleIsTogether DEF SettlePartySlots, KeepsMarkers
<1>5. ASSUME NEW r \in Room, NEW l \in Player, NEW members \in SUBSET Player,
             StartExpedition(r, l, members)
      PROVE  SettlesTogether /\ KeepsFinished /\ KeepsMarkers
  <2>1. marker[r] = NoMarker
    BY <1>5 DEF StartExpedition, Settled
  <2>2. KeepsMarkers
    BY <1>5, <2>1 DEF StartExpedition, KeepsMarkers, TypeOK
  <2> QED
    BY <1>5, <2>2, SettleIsTogether DEF StartExpedition
<1>6. CASE CleanupOrphanedPartySlots
  <2> DEFINE T == {s \in SlotId : Live(s)}
  <2>1. T \in SUBSET Used /\ \A s \in T : slots[s].status \notin {"SETTLED", "REFUNDED"}
    BY DEF Live
  <2>2. slots' = [s \in SlotId |-> IF s \in T THEN [slots[s] EXCEPT !.status = "REFUNDED"] ELSE slots[s]]
    BY <1>6 DEF CleanupOrphanedPartySlots
  <2>3. "REFUNDED" \in SlotStatus
    BY DEF SlotStatus
  <2>4. KeepsFinished /\ SettlesTogether
    <3> HIDE DEF T
    <3> QED
      BY <2>1, <2>2, <2>3, StatusesKeepFinished
  <2> QED
    BY <1>6, <2>4 DEF CleanupOrphanedPartySlots, KeepsMarkers
<1>7. CASE UNCHANGED vars
  BY <1>7, SlotsUnchangedKeeps DEF vars, KeepsMarkers
<1> QED
  BY <1>1, <1>2, <1>3, <1>4, <1>5, <1>6, <1>7 DEF Next

(* No late refund, acceptance or settlement, no second paid START and no   *)
(* restart moves the coins of a settled or refunded reservation again.     *)
THEOREM SettledForGood == Spec => SettlementIsFinal
<1>1. TypeOK /\ Settled /\ [Next]_vars => [SettlesTogether /\ KeepsFinished /\ KeepsMarkers]_vars
  BY StepIsFinal
<1> QED
  BY <1>1, TypeCorrect, SettledInvariant, PTL DEF Spec, SettlementIsFinal

=============================================================================
