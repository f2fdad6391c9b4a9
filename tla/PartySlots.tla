----------------------------- MODULE PartySlots -----------------------------
(***************************************************************************)
(* The paid party slots of EconomyService: an applicant reserves coins for *)
(* a seat in a room, the leader accepts the reservation, and the start of  *)
(* the expedition settles every accepted reservation of the room in the    *)
(* transaction that also writes the durable expedition marker.             *)
(*                                                                         *)
(* Every action is one repository transaction (economyTransact or          *)
(* startExpeditionTransact): it is skipped when its operation key is       *)
(* already recorded, rolled back when its body throws, and otherwise       *)
(* commits the new state together with its key.  A skipped or rolled back  *)
(* transaction changes nothing, so it is a stuttering step here.           *)
(*                                                                         *)
(* `reserved' is the part of reservedCoins that party slots hold; market   *)
(* orders and direct trades reserve coins of their own.  `ledger' is the   *)
(* sum of the coin ledger's entries of a player.                           *)
(***************************************************************************)
EXTENDS FiniteSums

CONSTANTS
  Player,        \* player ids
  Room,          \* room ids
  SlotId,        \* reservation ids; bounds the reservations ever made
  OpId,          \* the operation ids the callers pass
  Offer,         \* the positive slot offers
  InitialCoins,  \* the players' coins at first
  OneRowPerSeat, \* whether the repository admits one reservation per room
                 \* and applicant for good (the PostgreSQL schema's unique
                 \* index does, the in-memory repository does not)
  NoSlot,        \* a reservation id not yet used
  NoMarker       \* a room whose expedition has no durable marker

SlotStatus == {"PRE_START", "ACCEPTED", "SETTLED", "REFUNDED"}

SlotRecord == [status : SlotStatus, room : Room, applicant : Player,
               leader : Player, amount : Offer]

MarkerRecord == [leader : Player, members : SUBSET Player]

ASSUME PlayersAssumption == IsFiniteSet(Player) /\ IsFiniteSet(SlotId)
ASSUME OfferAssumption == Offer \subseteq Nat \ {0}
ASSUME InitialCoinsAssumption == InitialCoins \in [Player -> Nat]
ASSUME OneRowPerSeatAssumption == OneRowPerSeat \in BOOLEAN
ASSUME NoSlotAssumption == NoSlot \notin SlotRecord
ASSUME NoMarkerAssumption == NoMarker \notin MarkerRecord

VARIABLES
  coins,       \* available coins of each player
  reserved,    \* coins each player holds in party slots
  slots,       \* the reservations
  operations,  \* the operation keys of the committed transactions
  ledger,      \* the sum of each player's ledger entries
  marker       \* the durable expedition start of each room

vars == <<coins, reserved, slots, operations, ledger, marker>>

-----------------------------------------------------------------------------
(* Operation keys: the prefix, the player or room the key names, and the   *)
(* operation id of the caller.                                             *)
ReserveKey(p, op) == <<"slot:reserve", p, op>>
AcceptKey(l, op)  == <<"slot:accept", l, op>>
RefundKey(p, op)  == <<"slot:refund", p, op>>
SettleKey(r, op)  == <<"slot:settle", r, op>>
StartKey(r)       == <<"rift:start", r>>

Used == {s \in SlotId : slots[s] # NoSlot}

Live(s) == s \in Used /\ slots[s].status \in {"PRE_START", "ACCEPTED"}

For(s, r, p) == slots[s].room = r /\ slots[s].applicant = p

AcceptedIn(s, r) == s \in Used /\ slots[s].status = "ACCEPTED" /\ slots[s].room = r

(* The amount of each reservation that p holds, has paid, was paid as      *)
(* leader; the amounts settling room r takes from p and, in all, gives.    *)
Held(p) == [s \in SlotId |->
  IF Live(s) /\ slots[s].applicant = p THEN slots[s].amount ELSE 0]

Paid(p) == [s \in SlotId |->
  IF s \in Used /\ slots[s].status = "SETTLED" /\ slots[s].applicant = p
  THEN slots[s].amount ELSE 0]

Received(p) == [s \in SlotId |->
  IF s \in Used /\ slots[s].status = "SETTLED" /\ slots[s].leader = p
  THEN slots[s].amount ELSE 0]

DueFrom(p, r) == [s \in SlotId |->
  IF AcceptedIn(s, r) /\ slots[s].applicant = p THEN slots[s].amount ELSE 0]

DueIn(r) == [s \in SlotId |-> IF AcceptedIn(s, r) THEN slots[s].amount ELSE 0]

-----------------------------------------------------------------------------
(* Bugs such code could have, each the form of an action or helper that a  *)
(* property below refutes.                                                 *)

(* Bug: the check of the available coins is missing.                       *)
ReserveUnchecked(r, p, l, amount, op) ==
  /\ ReserveKey(p, op) \notin operations
  /\ \A s \in Used : For(s, r, p) => slots[s].status = "REFUNDED"
  /\ \E s \in SlotId \ Used :
       slots' = [slots EXCEPT ![s] = [status |-> "PRE_START", room |-> r,
                   applicant |-> p, leader |-> l, amount |-> amount]]
  /\ coins' = [coins EXCEPT ![p] = @ - amount]
  /\ reserved' = [reserved EXCEPT ![p] = @ + amount]
  /\ ledger' = [ledger EXCEPT ![p] = @ - amount]
  /\ operations' = operations \cup {ReserveKey(p, op)}
  /\ UNCHANGED marker

(* Bug: only a pending reservation refuses another, not an accepted one.   *)
ReserveBesideAccepted(r, p, l, amount, op) ==
  /\ ReserveKey(p, op) \notin operations
  /\ coins[p] >= amount
  /\ \A s \in Used : For(s, r, p) => slots[s].status # "PRE_START"
  /\ \E s \in SlotId \ Used :
       slots' = [slots EXCEPT ![s] = [status |-> "PRE_START", room |-> r,
                   applicant |-> p, leader |-> l, amount |-> amount]]
  /\ coins' = [coins EXCEPT ![p] = @ - amount]
  /\ reserved' = [reserved EXCEPT ![p] = @ + amount]
  /\ ledger' = [ledger EXCEPT ![p] = @ - amount]
  /\ operations' = operations \cup {ReserveKey(p, op)}
  /\ UNCHANGED marker

(* Bug: the refund does not mark the reservation, so that the next reason  *)
(* refunds it again.                                                       *)
RefundUnmarked(r, p, op) ==
  /\ RefundKey(p, op) \notin operations
  /\ \E s \in SlotId :
       /\ Live(s) /\ For(s, r, p)
       /\ reserved[p] >= slots[s].amount
       /\ coins' = [coins EXCEPT ![p] = @ + slots[s].amount]
       /\ reserved' = [reserved EXCEPT ![p] = @ - slots[s].amount]
       /\ ledger' = [ledger EXCEPT ![p] = @ + slots[s].amount]
  /\ operations' = operations \cup {RefundKey(p, op)}
  /\ UNCHANGED <<slots, marker>>

(* Bug: the settlement does not compare the leader the reservation names.  *)
SettleForAnyLeader(r, l, members) ==
  /\ \A s \in SlotId : AcceptedIn(s, r) => slots[s].applicant \in members
  /\ slots' = [s \in SlotId |->
       IF AcceptedIn(s, r) THEN [slots[s] EXCEPT !.status = "SETTLED"] ELSE slots[s]]
  /\ reserved' = [p \in Player |-> reserved[p] - SumOver(DueFrom(p, r), SlotId)]
  /\ coins' = [coins EXCEPT ![l] = @ + SumOver(DueIn(r), SlotId)]
  /\ ledger' = [ledger EXCEPT ![l] = @ + SumOver(DueIn(r), SlotId)]

(* Bug: reservations of players outside the party are skipped, not refused.*)
SettleMembersOnly(r, l, members) ==
  LET due(s) == AcceptedIn(s, r) /\ slots[s].applicant \in members
      from(p) == [s \in SlotId |->
                    IF due(s) /\ slots[s].applicant = p THEN slots[s].amount ELSE 0]
      all == [s \in SlotId |-> IF due(s) THEN slots[s].amount ELSE 0]
  IN  /\ \A s \in SlotId : due(s) => slots[s].leader = l
      /\ slots' = [s \in SlotId |->
           IF due(s) THEN [slots[s] EXCEPT !.status = "SETTLED"] ELSE slots[s]]
      /\ reserved' = [p \in Player |-> reserved[p] - SumOver(from(p), SlotId)]
      /\ coins' = [coins EXCEPT ![l] = @ + SumOver(all, SlotId)]
      /\ ledger' = [ledger EXCEPT ![l] = @ + SumOver(all, SlotId)]

-----------------------------------------------------------------------------
Init ==
  /\ coins = InitialCoins
  /\ reserved = [p \in Player |-> 0]
  /\ slots = [s \in SlotId |-> NoSlot]
  /\ operations = {}
  /\ ledger = [p \in Player |-> 0]
  /\ marker = [r \in Room |-> NoMarker]

(* A reservation of (r, p) that is not refunded, a settled one included,   *)
(* refuses a second one; where the repository has one row per seat, so     *)
(* does a refunded one (the insert then fails and rolls back).             *)
SeatIsFree(r, p) ==
  \A s \in Used : For(s, r, p) => ~ OneRowPerSeat /\ slots[s].status = "REFUNDED"

(* reservePartySlot with a positive amount.                                *)
ReservePartySlot(r, p, l, amount, op) ==
  /\ ReserveKey(p, op) \notin operations
  /\ coins[p] >= amount
  /\ SeatIsFree(r, p)
  /\ \E s \in SlotId \ Used :
       slots' = [slots EXCEPT ![s] = [status |-> "PRE_START", room |-> r,
                   applicant |-> p, leader |-> l, amount |-> amount]]
  /\ coins' = [coins EXCEPT ![p] = @ - amount]
  /\ reserved' = [reserved EXCEPT ![p] = @ + amount]
  /\ ledger' = [ledger EXCEPT ![p] = @ - amount]
  /\ operations' = operations \cup {ReserveKey(p, op)}
  /\ UNCHANGED marker

(* acceptPartySlot: the reservation still before the start, if there is    *)
(* one, must name the accepting leader.  Without one the key is recorded   *)
(* all the same.                                                           *)
AcceptPartySlot(r, p, l, op) ==
  /\ AcceptKey(l, op) \notin operations
  /\ LET pending == {s \in Used : For(s, r, p) /\ slots[s].status = "PRE_START"}
     IN  \/ pending = {} /\ UNCHANGED slots
         \/ \E s \in pending :
              /\ slots[s].leader = l
              /\ slots' = [slots EXCEPT ![s].status = "ACCEPTED"]
  /\ operations' = operations \cup {AcceptKey(l, op)}
  /\ UNCHANGED <<coins, reserved, ledger, marker>>

(* refundPartySlot: the live reservation of (r, p) is paid back.  Without  *)
(* one the key is recorded all the same.                                   *)
RefundPartySlot(r, p, op) ==
  /\ RefundKey(p, op) \notin operations
  /\ LET live == {s \in SlotId : Live(s) /\ For(s, r, p)}
     IN  \/ live = {} /\ UNCHANGED <<slots, coins, reserved, ledger>>
         \/ \E s \in live :
              /\ reserved[p] >= slots[s].amount
              /\ slots' = [slots EXCEPT ![s].status = "REFUNDED"]
              /\ coins' = [coins EXCEPT ![p] = @ + slots[s].amount]
              /\ reserved' = [reserved EXCEPT ![p] = @ - slots[s].amount]
              /\ ledger' = [ledger EXCEPT ![p] = @ + slots[s].amount]
  /\ operations' = operations \cup {RefundKey(p, op)}
  /\ UNCHANGED marker

(* settlePartySlotsInState: all the accepted reservations of the room are  *)
(* checked before any is paid, so one bad reservation stops them all.      *)
SettleInState(r, l, members) ==
  /\ \A s \in SlotId : AcceptedIn(s, r) =>
       /\ slots[s].applicant \in members
       /\ slots[s].leader = l
       /\ reserved[slots[s].applicant] >= slots[s].amount
  /\ slots' = [s \in SlotId |->
       IF AcceptedIn(s, r) THEN [slots[s] EXCEPT !.status = "SETTLED"] ELSE slots[s]]
  /\ reserved' = [p \in Player |-> reserved[p] - SumOver(DueFrom(p, r), SlotId)]
  /\ coins' = [coins EXCEPT ![l] = @ + SumOver(DueIn(r), SlotId)]
  /\ ledger' = [ledger EXCEPT ![l] = @ + SumOver(DueIn(r), SlotId)]

SettlePartySlots(r, l, members, op) ==
  /\ SettleKey(r, op) \notin operations
  /\ SettleInState(r, l, members)
  /\ operations' = operations \cup {SettleKey(r, op)}
  /\ UNCHANGED marker

(* startExpedition: the settlement and the durable marker of the room in   *)
(* one transaction, once per room.                                         *)
StartExpedition(r, l, members) ==
  /\ StartKey(r) \notin operations
  /\ SettleInState(r, l, members)
  /\ marker' = [marker EXCEPT ![r] = [leader |-> l, members |-> members]]
  /\ operations' = operations \cup {StartKey(r)}

(* cleanupOrphanedPartySlots, run when the server starts: every live       *)
(* reservation of every room is paid back.  Its key is random, hence never *)
(* recorded before, and is left out.                                       *)
CleanupOrphanedPartySlots ==
  /\ \A s \in SlotId : Live(s) => reserved[slots[s].applicant] >= slots[s].amount
  /\ slots' = [s \in SlotId |->
       IF Live(s) THEN [slots[s] EXCEPT !.status = "REFUNDED"] ELSE slots[s]]
  /\ coins' = [p \in Player |-> coins[p] + SumOver(Held(p), SlotId)]
  /\ reserved' = [p \in Player |-> reserved[p] - SumOver(Held(p), SlotId)]
  /\ ledger' = [p \in Player |-> ledger[p] + SumOver(Held(p), SlotId)]
  /\ UNCHANGED <<operations, marker>>

Next ==
  \/ \E r \in Room, p \in Player, op \in OpId :
       \/ \E l \in Player, amount \in Offer : ReservePartySlot(r, p, l, amount, op)
       \/ \E l \in Player : AcceptPartySlot(r, p, l, op)
       \/ RefundPartySlot(r, p, op)
       \/ \E members \in SUBSET Player : SettlePartySlots(r, p, members, op)
  \/ \E r \in Room, l \in Player, members \in SUBSET Player :
       StartExpedition(r, l, members)
  \/ CleanupOrphanedPartySlots

Spec == Init /\ [][Next]_vars

-----------------------------------------------------------------------------
(* Type correctness: amounts, statuses and records stay in their domains,  *)
(* in particular no wallet and no reservation balance goes negative.       *)
TypeOK ==
  /\ coins \in [Player -> Nat]
  /\ reserved \in [Player -> Nat]
  /\ slots \in [SlotId -> SlotRecord \cup {NoSlot}]
  /\ ledger \in [Player -> Int]
  /\ marker \in [Room -> MarkerRecord \cup {NoMarker}]

(* The coins a player holds in slots are exactly those of the live         *)
(* reservations: no path of reserve, refund, settlement and cleanup drops  *)
(* or doubles one.                                                         *)
ReservedMatchesSlots ==
  \A p \in Player : reserved[p] = SumOver(Held(p), SlotId)

(* Apart from what it paid and was paid as a leader, a player keeps what   *)
(* it had: every settled coin reached the leader its reservation names,    *)
(* once, and every refunded one went back to its applicant, once.          *)
WalletsAccountForPayments ==
  \A p \in Player :
    coins[p] + reserved[p] =
      InitialCoins[p] + SumOver(Received(p), SlotId) - SumOver(Paid(p), SlotId)

(* The ledger explains the wallet: the entries written by reserve, refund  *)
(* and settlement add up to what the available coins changed by.           *)
LedgerExplainsWallets ==
  \A p \in Player : coins[p] = InitialCoins[p] + ledger[p]

LedgerReconciles == WalletsAccountForPayments /\ LedgerExplainsWallets

(* A player has at most one reservation in a room that is not refunded, so *)
(* the find() of accept, refund and the offer query cannot pick a wrong    *)
(* one.                                                                    *)
OneReservationPerSeat ==
  \A s, t \in Used :
    /\ slots[s].room = slots[t].room
    /\ slots[s].applicant = slots[t].applicant
    /\ slots[s].status # "REFUNDED"
    /\ slots[t].status # "REFUNDED"
    => s = t

(* A step settles all the accepted reservations of a room or none, and     *)
(* pays one leader.                                                        *)
SettlesTogether ==
  \A s \in Used : slots[s].status # "SETTLED" /\ slots'[s].status = "SETTLED" =>
    /\ slots[s].status = "ACCEPTED"
    /\ \A t \in SlotId : AcceptedIn(t, slots[s].room) =>
         /\ slots'[t].status = "SETTLED"
         /\ slots[t].leader = slots[s].leader

(* A settled or refunded reservation stays as it is, and no reservation    *)
(* changes its parties or its amount.                                      *)
KeepsFinished ==
  \A s \in Used :
    /\ s \in Used'
    /\ slots'[s] = [slots[s] EXCEPT !.status = slots'[s].status]
    /\ slots[s].status \in {"SETTLED", "REFUNDED"} => slots'[s] = slots[s]

(* The marker of a started room is not replaced by that of a second start. *)
KeepsMarkers == \A r \in Room : marker[r] # NoMarker => marker'[r] = marker[r]

(* The settlement of a room is atomic and final: no late refund,           *)
(* acceptance or settlement, no second paid START and no restart moves the *)
(* coins of a reservation again.                                           *)
SettlementIsFinal == [][SettlesTogether /\ KeepsFinished /\ KeepsMarkers]_vars

=============================================================================
