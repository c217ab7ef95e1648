CONSTANTS
  a = a
  b = b
  Nodes = {1, 2}
  Coordinators = {}
  Ops = {a}
  Author <- AuthorOf
  Topology <- Pair
  InitialLinks <- Pair
  Restarters = {}
  Leavers = {2}
  MaxHeight = 1
  MaxChanges = 0
SPECIFICATION FairSpec
PROPERTIES
  NoHostageSlot
\* Nothing is left to do once every operation is committed and every link
\* change the bound allows has happened.
CHECK_DEADLOCK FALSE
