SPECIFICATION FairSpec
CONSTANTS
  alice = alice
  bob = bob
  Player = {alice, bob}
  Leader = alice
  NoOne = NoOne
  AutoPlayer = {alice, bob}
  Encounters = 2
  MaxRounds <- Once
  Attempts = 2
  Failures <- TelemetryFailures
CHECK_DEADLOCK FALSE
PROPERTIES
  RoundsEnd
