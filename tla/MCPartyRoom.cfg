SPECIFICATION Spec
CONSTANTS
  alice = alice
  bob = bob
  carol = carol
  Player = {alice, bob, carol}
  SlotId = {s1, s2}
  Offer = {1}
  InitialCoins <- MCInitialCoins
  OneRowPerSeat = TRUE
  NoSlot = NoSlot
  NoMarker = NoMarker
  NoLeader = NoLeader
  Handler <- TwoSockets
  MaxRooms = 1
  MaxPartySize = 2
  MinPartySize = 1
  SlotOffers = {1}
  Messages <- ButUnready
  MayFail <- ReasonKinds
  MaxTransactions = 3
  MaxWaiting = 2
  MaxTrouble = 1
CONSTRAINT Bounds
CHECK_DEADLOCK FALSE
SYMMETRY Symmetry
INVARIANTS
  TypeOK
  PartyIsSound
  StartIsMarked
  LobbyCoinsAreAnswered
