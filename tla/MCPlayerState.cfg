SPECIFICATION ProfileSpec
CONSTANTS
  e1 = e1
  e2 = e2
  e3 = e3
  e4 = e4
  iron = iron
  ring = ring
  potion = potion
  scroll = scroll
  manual = manual
  ring1 = ring1
  ring2 = ring2
  forge = forge
  brew = brew
  cave = cave
  spire = spire
  mine = mine
  deep = deep
  EntryId = {e1, e2, e3, e4}
  Item = {iron, ring, potion, scroll, manual}
  Stackable = {iron, potion, scroll, manual}
  Slot = {ring1, ring2}
  SlotsOf <- MCSlots
  Recipe = {forge, brew}
  RecipeItem <- MCRecipeItem
  Requirement <- MCRequirement
  Output <- MCOutput
  OutputQuantity <- MCOutputQuantity
  Loot <- MCLoot
  Retained = {50, 100}
  Grants <- MCGrants
  Rift = {cave, spire}
  FirstRift = cave
  Floors <- MCFloors
  Prerequisite <- MCPrerequisite
  Activity = {mine, deep}
  Resource <- MCResource
  Mastery <- MCMastery
  RiftNeeded <- MCRiftNeeded
  Duration = {1}
  Quantity = {1}
  JobXP <- MCJobXP
  XPRequired <- MCXPRequired
  MaxMastery = 3
  OperationId = {o1, o2, o3, o4}
  MaxRequests = 2
  Rewards <- MCRewards
  LevelXP <- MCLevelXP
  Levels = {1, 3}
  Amounts = {1}
  InitialInventory <- MCInventory
  InitialCharacter <- MCCharacter
  NoFighter = NoFighter
  NoEntry = NoEntry
  NoRift = NoRift
  NoProgress = NoProgress
  MaxIds = 4
  MaxGoodsOperations = 4
  MaxTime = 2
CONSTRAINT Bound
SYMMETRY Symmetry
INVARIANTS
  ProfileTypeOK
  GoodsReconcile
  RiftsOpenInOrder
PROPERTIES
  JobsEndOnce
