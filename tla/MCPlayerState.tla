--------------------------- MODULE MCPlayerState ---------------------------
(***************************************************************************)
(* Model checking of PlayerState.                                          *)
(***************************************************************************)
EXTENDS PlayerState, TLC

CONSTANTS e1, e2, e3, e4, iron, ring, potion, scroll, manual, ring1, ring2,
  forge, brew, cave, spire, mine, deep,
  MaxIds, MaxGoodsOperations, MaxTime

MCSlots == [i \in Item |-> IF i = ring THEN Slot ELSE {}]
MCRecipeItem == [r \in Recipe |-> IF r = forge THEN scroll ELSE manual]
MCRequirement == [r \in Recipe |-> Some(iron, 1)]
MCOutput == [r \in Recipe |-> IF r = forge THEN ring ELSE potion]
MCOutputQuantity == [r \in Recipe |-> IF r = forge THEN 1 ELSE 2]
MCLoot == {[resources |-> Some(iron, 3), recipes |-> <<brew, forge>>]}
MCGrants == {[item |-> ring, quantity |-> 2], [item |-> iron, quantity |-> 1]}
MCFloors == [r \in Rift |-> 2]
MCPrerequisite == [r \in Rift |-> IF r = cave THEN NoRift ELSE [rift |-> cave, floor |-> 2]]
MCResource == [a \in Activity |-> iron]
MCMastery == [a \in Activity |-> IF a = mine THEN 1 ELSE 2]
MCRiftNeeded == [a \in Activity |-> IF a = mine THEN NoRift ELSE [rift |-> spire, floor |-> 1]]
MCJobXP == [a \in Activity |-> IF a = mine THEN 2 ELSE 3]
MCXPRequired == [l \in 1..MaxMastery |-> l]
MCRewards == {[xp |-> 0, coins |-> 0], [xp |-> 3, coins |-> 2]}
MCLevelXP == [l \in Nat \ {0} |-> l + 1]
MCCharacter == [level |-> 1, xp |-> 0, coins |-> 0]
MCInventory == [e \in EntryId |->
  CASE e = e1 -> [item |-> ring, quantity |-> 1]
    [] e = e2 -> [item |-> iron, quantity |-> 2]
    [] OTHER -> NoEntry]

Keys(kinds) == {key \in DOMAIN journal : key[1] \in kinds}
Ids == {key[2] : key \in DOMAIN journal}

(* Items, rifts and jobs are explored one after the other: the jobs with   *)
(* the rifts they need open or not.                                        *)
GoodsFocus ==
  /\ jobs = <<>> /\ requests = {} /\ progress[cave].completed = 0
  /\ Cardinality(Ids) <= 2 /\ Cardinality(DOMAIN journal) <= MaxGoodsOperations
RiftFocus ==
  /\ jobs = <<>> /\ requests = {} /\ inventory = InitialInventory
  /\ Keys({"rift", "admin"}) = DOMAIN journal
JobFocus ==
  /\ Keys({"rift", "job"}) = DOMAIN journal
  /\ IF progress[spire] = NoProgress THEN Keys({"rift"}) = {}
     ELSE Cardinality(Keys({"rift"})) = 2 /\ Cardinality(requests) <= 1
  /\ \A a, b \in requests : a.kind = b.kind => a.at = b.at

(* Runs, with the rewards and corrections of a character.                  *)
Idle == jobs = <<>> /\ requests = {}
CareerFocus ==
  /\ Idle /\ inventory = InitialInventory
  /\ Keys({"encounter", "admin"}) = DOMAIN journal
  /\ Cardinality(Keys({"admin"})) <= 2
AtRest == character = InitialCharacter /\ fighter = NoFighter /\ ledger = <<>>

Bound ==
  /\ now <= MaxTime /\ Cardinality(Ids) <= MaxIds
  /\ \/ now = 0 /\ AtRest /\ (GoodsFocus \/ RiftFocus)
     \/ now = 0 /\ CareerFocus
     \/ AtRest /\ JobFocus

Symmetry == Permutations(OperationId) \cup Permutations({e3, e4}) \cup Permutations(Slot)

=============================================================================
