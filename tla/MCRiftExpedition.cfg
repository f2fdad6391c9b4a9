SPECIFICATION FairSpec
CONSTANTS
  alice = alice
  bob = bob
  Player = {alice, bob}
  Leader = alice
  NoOne = NoOne
  AutoPlayer = {alice, bob}
  Encounters = 2
  MaxRounds <- TwoThenOne
  Attempts = 2
  Failures <- GameFailures
CHECK_DEADLOCK FALSE
INVARIANTS
  TypeOK
  RunEndsOneWay
PROPERTIES
  MarkerIsFinal
  RunsEnd
