SPECIFICATION Spec
CONSTANTS
  alice = alice
  bob = bob
  iron = iron
  Player = {alice, bob}
  OrderId = {1, 2, 3}
  Item = {iron}
  Stackable = {iron}
  Price = {2, 3}
  Quantity = {1, 2}
  InitialCoins <- MCInitialCoins
  InitialItems <- MCInitialItems
  Repositories = {"memory", "postgres"}
  MaxInstant = 1
  NoOrder = NoOrder
  NoItem = NoItem
  NoCall = NoCall
CONSTRAINT Bound
SYMMETRY Symmetry
INVARIANTS
  TypeOK
  Backed
  BookSettles
PROPERTIES
  FillsAreFair
  RefinesExchange
