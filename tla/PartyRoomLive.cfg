SPECIFICATION FairSpec
CONSTANTS
  alice = alice
  bob = bob
  carol = carol
  Player = {alice, bob}
  SlotId = {s1}
  Offer = {1}
  InitialCoins <- MCInitialCoins
  OneRowPerSeat = TRUE
  NoSlot = NoSlot
  NoMarker = NoMarker
  NoLeader = NoLeader
  Handler <- TwoSockets
  MaxRooms = 2
  MaxPartySize = 2
  MinPartySize = 1
  SlotOffers = {0}
  Messages <- UpToStart
  MayFail = {"disband", "expired"}
  MaxTransactions = 2
  MaxWaiting = 2
  MaxTrouble = 1
CONSTRAINT Bounds
CHECK_DEADLOCK FALSE
PROPERTIES
  HandlersReturn
  
