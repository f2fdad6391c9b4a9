SPECIFICATION Spec
CONSTANTS
  alice = alice
  bob = bob
  carol = carol
  e1 = e1
  e2 = e2
  e3 = e3
  iron = iron
  sword = sword
  Player = {alice, bob}
  TradeId = {t1, t2}
  EntryId = {e1, e2, e3}
  Item = {iron, sword}
  Stackable = {iron}
  Quantity = {1}
  CoinOffer = {0, 1}
  InitialCoins <- MCInitialCoins
  InitialEntries <- MCInitialEntries
  Repositories = {"memory", "postgres"}
  MaxActivity = 3
  MaxUpdates = 2
  NoEntry = NoEntry
  NoTrade = NoTrade
  NoMessage = NoMessage
  NoOffer = NoOffer
CONSTRAINT Bound
SYMMETRY Symmetry
INVARIANTS
  TypeOK
  EscrowMatchesOffers
  NothingIsMadeOrLost
  AbsenceIsHandled
PROPERTIES
  SwapIsAgreed
