---------------------------- MODULE MCPartyRoom ----------------------------
(***************************************************************************)
(* Model checking of PartyRoom.                                            *)
(***************************************************************************)
EXTENDS PartyRoom, TLC

CONSTANTS alice, bob, carol,
  MaxTransactions,  \* bounds the repository transactions with a key
  MaxWaiting,       \* bounds the handlers that wait at a time
  MaxTrouble        \* bounds what is out of the ordinary at a time

MCInitialCoins == [p \in Player |-> 2]

(* alice has two sockets, as a player who reconnects has.                  *)
TwoSockets == (Player \X {1}) \cup {<<alice, 2>>}

ButUnready == MessageKinds \ {"UNSET_READY"}
Review == {"CREATE_PARTY", "APPLY_TO_PARTY", "CANCEL_APPLICATION",
           "ACCEPT_APPLICATION", "REJECT_APPLICATION"}

UpToStart == MessageKinds \ {"REJECT_APPLICATION", "UNSET_READY", "SELECT_RIFT_FLOOR", "finish", "restart"}

Symmetry == Permutations(SlotId) \cup Permutations(Player \ {alice})

Waiting == Cardinality({h \in Handler : calls[h] # Idle})
             + Cardinality(refunds) + Cardinality(expiring)

(* What is out of the ordinary: calls that failed, players without a peer, *)
(* rooms beside the first one, rooms not led by alice and floors being     *)
(* chosen.                                                                 *)
Trouble == Cardinality(failed) + Cardinality(Player \ online)
             + Cardinality({r \in Room \ {1} : rooms[r].phase # "UNUSED"})
             + Cardinality({r \in Room : rooms[r].leader \notin {alice, NoLeader}})
             + Cardinality({h \in Handler : calls[h].at = "floor.read"})

Bounds ==
  /\ Cardinality(operations) <= MaxTransactions
  /\ Waiting <= MaxWaiting
  /\ Trouble <= MaxTrouble

=============================================================================
