--------------------------- MODULE MCDirectTrade ---------------------------
(***************************************************************************)
(* Model checking of DirectTrade.                                          *)
(***************************************************************************)
EXTENDS DirectTrade, TLC

CONSTANTS MaxActivity, alice, bob, carol, e1, e2, e3, iron, sword

MCInitialCoins == [p \in Player |-> IF p = alice THEN 1 ELSE 0]

Holding(p, i, n) == [owner |-> p, item |-> i, quantity |-> n, place |-> "INVENTORY"]

(* Alice has a stack of two, and bob an item that does not stack.          *)
MCInitialEntries ==
  [e \in EntryId |-> IF e = e1 THEN Holding(alice, iron, 2)
                     ELSE IF e = e2 THEN Holding(bob, sword, 1)
                     ELSE NoEntry]

(* Bounds the changes of offers together with what is under way at once:   *)
(* fights, confirmations, transactions, steps of a disconnect.             *)
UnderWay ==
  Cardinality({p \in Player : presence[p] = "fighting"})
  + Cardinality({p \in Player : sent[p] # NoMessage})
  + Cardinality(open) + Cardinality(leaving)

Bound ==
  UnderWay + SumOver([t \in Used |-> trades[t].revision], Used) <= MaxActivity

Symmetry == Permutations(TradeId)

=============================================================================
