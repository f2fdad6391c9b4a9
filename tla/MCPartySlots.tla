---------------------------- MODULE MCPartySlots ----------------------------
(***************************************************************************)
(* Model checking of PartySlots.  Two rooms share one operation id space,  *)
(* as all rooms of a server do; the leader of a settlement is any player.  *)
(***************************************************************************)
EXTENDS PartySlots, TLC

CONSTANTS alice, bob, MaxOperations

MCInitialCoins == [p \in Player |-> IF p = bob THEN 2 ELSE 1]

(* Reservation and operation ids are only compared for equality.           *)
Ids == Permutations(SlotId) \cup Permutations(OpId) \cup Permutations(Room)

(* At most MaxOperations transactions commit under a key.                  *)
OperationBound == Cardinality(operations) <= MaxOperations

=============================================================================
