CONSTANTS
  a = a
  b = b
  Nodes = {1, 2}
  Coordinators = {}
  Ops = {a}
  Author <- AuthorOf
  Topology <- Pair
  InitialLinks <- Pair
  Restarters = {}
  Leavers = {}
  MaxHeight = 1
  MaxChanges = 1
SPECIFICATION FairSpec
PROPERTIES
  SoloProgress
\* Nothing is left to do once every operation is committed and every link
\* change the bound allows has happened.
CHECK_DEADLOCK FALSE
