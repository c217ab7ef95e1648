CONSTANTS
  a = a
  b = b
  Nodes = {1, 2}
  Coordinators = {2}
  Ops = {a, b}
  Author <- AuthorOf
  Topology <- Pair
  InitialLinks <- Pair
  Restarters = {2}
  Leavers = {2}
  MaxHeight = 1
  MaxChanges = 2
SPECIFICATION FairSpec
INVARIANTS
  ForksShareNoVoter
  ConflictsNeedSmallQuorums
PROPERTIES
  LaggardsCatchUp
\* Nothing is left to do once every operation is committed and every link
\* change the bound allows has happened.
CHECK_DEADLOCK FALSE
