------------------------------ MODULE MCMarket ------------------------------
(***************************************************************************)
(* Model checking of Market: two players who may both buy and sell.        *)
(***************************************************************************)
EXTENDS Market, TLC

CONSTANTS MaxInstant, alice, bob, iron

MCInitialCoins == [p \in Player |-> 7]
MCInitialItems == [p \in Player |-> [i \in Item |-> 2]]

(* Bounds the BUY_NOW and SELL_NOW calls, which are explored for           *)
(* PostgreSQL, where they can fail, and the times of orders: ties are      *)
(* broken by the ids, which are placed in any order within one time, so    *)
(* two times give every order of precedence.                               *)
Bound ==
  /\ Cardinality({p \in Player : calls[p] # NoCall}) <= 1
  /\ Cardinality(instant) <= (IF repository = "postgres" THEN MaxInstant ELSE 0)
  /\ clock <= 1
  /\ \A o, p \in Used : orders[o].at < orders[p].at => o < p

Symmetry == Permutations(Player)

=============================================================================
