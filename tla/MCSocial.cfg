SPECIFICATION Spec
CONSTANTS
  alice = alice
  bob = bob
  carol = carol
  e1 = e1
  e2 = e2
  e3 = e3
  g1 = g1
  g2 = g2
  op1 = op1
  s1 = s1
  s2 = s2
  iron = iron
  ring = ring
  Player = {alice, bob, carol}
  GuildId = {g1, g2}
  EntryId = {e1, e2, e3}
  Item = {iron, ring}
  Stackable = {iron}
  MaxMembers = 2
  CreationCost = 1
  Grants <- MCGrants
  InitialEntries <- MCEntries
  InitialPurse <- MCPurse
  NoPlayer = NoPlayer
  NoGuild = NoGuild
  NoEntry = NoEntry
  OperationId = {op1}
  Socket = {s1, s2}
  RateLimit <- MCRateLimit
  Retention = 1
  PageSize = 1
  MaxTime = 3
  MaxRequests = 2
CONSTRAINT Bound
SYMMETRY Symmetry
INVARIANTS
  TypeOK
  GuildsAreSound
  StorageIsConserved
  BlocksSever
  SentOnce
  ShownStaysRead
PROPERTIES
  LeadershipIsHandedOver
