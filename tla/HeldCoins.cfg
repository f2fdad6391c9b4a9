SPECIFICATION Spec
CONSTANTS
  alice = alice
  bob = bob
  carol = carol
  Player = {alice, bob}
  SlotId = {s1}
  Offer = {1}
  InitialCoins <- MCInitialCoins
  OneRowPerSeat = TRUE
  NoSlot = NoSlot
  NoMarker = NoMarker
  NoLeader = NoLeader
  Handler <- TwoSockets
  MaxRooms = 1
  MaxPartySize = 2
  MinPartySize = 1
  SlotOffers = {0, 1}
  Messages <- Review
  MayFail = {}
  MaxTransactions = 4
  MaxWaiting = 1
  MaxTrouble = 1
CONSTRAINT Bounds
CHECK_DEADLOCK FALSE
INVARIANTS
  HeldCoinsHaveAnOwner
