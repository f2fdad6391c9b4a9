------------------------------ MODULE Exchange ------------------------------
(***************************************************************************)
(* What the market and the direct trade promise: whatever orders, offers,  *)
(* escrows and reservations they keep, coins and goods change hands only   *)
(* in a sale, where a buyer pays a seller for goods and the house takes a  *)
(* fee, in a barter of two players, or as a fee.                           *)
(*                                                                         *)
(* `wealth' is everything a player owns in coins, reserved ones included,  *)
(* and `goods' everything it owns of an item, escrow included.             *)
(***************************************************************************)
EXTENDS FiniteSums

CONSTANTS Player, Item, InitialWealth, InitialGoods

VARIABLES wealth, goods, fees

vars == <<wealth, goods, fees>>

Init ==
  /\ wealth = InitialWealth
  /\ goods = InitialGoods
  /\ fees = 0

(* The house takes a fee.                                                  *)
Charge(p) ==
  /\ fees' \in (fees + 1)..(fees + wealth[p])
  /\ wealth' = [wealth EXCEPT ![p] = @ - (fees' - fees)]
  /\ UNCHANGED goods

(* A buyer pays at least a coin for at least one piece, and the fee comes  *)
(* out of what the seller receives.                                        *)
Sale(buyer, seller, item) ==
  /\ buyer # seller
  /\ \E quantity \in 1..goods[seller][item] :
       goods' = [goods EXCEPT ![seller][item] = @ - quantity, ![buyer][item] = @ + quantity]
  /\ \E paid \in 1..wealth[buyer] :
       /\ fees' \in fees..(fees + paid)
       /\ wealth' = [wealth EXCEPT ![buyer] = @ - paid, ![seller] = @ + paid - (fees' - fees)]

(* Two players swap goods and coins, free of charge.                       *)
Barter(p, q) ==
  /\ p # q
  /\ wealth' \in [Player -> Nat] /\ goods' \in [Player -> [Item -> Nat]]
  /\ wealth'[p] + wealth'[q] = wealth[p] + wealth[q]
  /\ \A i \in Item : goods'[p][i] + goods'[q][i] = goods[p][i] + goods[q][i]
  /\ \A r \in Player \ {p, q} : wealth'[r] = wealth[r] /\ goods'[r] = goods[r]
  /\ UNCHANGED fees

Next ==
  \/ \E p \in Player : Charge(p)
  \/ \E p, q \in Player : Barter(p, q) \/ \E i \in Item : Sale(p, q, i)

Spec == Init /\ [][Next]_vars

(* No coin and no piece is made or lost.                                   *)
Conserved ==
  /\ SumOver(wealth, Player) + fees = SumOver(InitialWealth, Player)
  /\ \A i \in Item :
       SumOver([p \in Player |-> goods[p][i]], Player)
         = SumOver([p \in Player |-> InitialGoods[p][i]], Player)

=============================================================================
