CONSTANTS
  a = a
  b = b
  Nodes = {1, 2}
  Coordinators = {}
  Ops = {a, b}
  Author <- AuthorOf
  Topology <- Pair
  InitialLinks <- Pair
  Restarters = {}
  Leavers = {}
  MaxHeight = 2
  MaxChanges = 3
SPECIFICATION FairSpec
INVARIANTS
  OpsCommitOnce
  ForksShareNoVoter
  ConflictsNeedSmallQuorums
  ChainsAreCertified
PROPERTIES
  OnlyLongerChainsReplace
  LaggardsCatchUp
\* Nothing is left to do once every operation is committed and every link
\* change the bound allows has happened.
CHECK_DEADLOCK FALSE
