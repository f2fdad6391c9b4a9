----------------------------- MODULE FiniteSums -----------------------------
(***************************************************************************)
(* The sum of an integer-valued function over a finite set, used by every  *)
(* ledger of the project (coins, reservations, escrowed quantities).       *)
(*                                                                         *)
(* The community modules' folds compute the same sum; SumOver is written   *)
(* as a recursive function over the subsets of S, without operator         *)
(* parameters, so that its laws can be proved (FiniteSumsProofs) and used  *)
(* in the proofs about the ledgers.                                        *)
(***************************************************************************)
EXTENDS Integers, FiniteSets

Pick(T) == CHOOSE x \in T : TRUE

SumOver(f, S) ==
  LET sum[T \in SUBSET S] ==
        IF T = {} THEN 0 ELSE f[Pick(T)] + sum[T \ {Pick(T)}]
  IN  sum[S]

=============================================================================
