SPECIFICATION Spec
CONSTANTS
  alice = alice
  bob = bob
  Player = {alice, bob}
  Room = {r1, r2}
  SlotId = {s1, s2}
  OpId = {o1, o2}
  Offer = {1, 2}
  InitialCoins <- MCInitialCoins
  OneRowPerSeat = FALSE
  NoSlot = NoSlot
  NoMarker = NoMarker
  MaxOperations = 4
SYMMETRY Ids
CONSTRAINT OperationBound
INVARIANTS
  TypeOK
  ReservedMatchesSlots
  LedgerReconciles
  OneReservationPerSeat
PROPERTIES
  SettlementIsFinal
CHECK_DEADLOCK FALSE
