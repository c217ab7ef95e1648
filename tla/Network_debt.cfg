\* Two leases of one worker expire together.
SPECIFICATION Spec
CONSTANTS
  p1 = p1
  p2 = p2
  p3 = p3
  Participants = {p1, p2}
  Digests = {"d1"}
  BudgetDigests = {}
  Costs = {0}
  LeaseTimeoutTicks = 1
  ConsensusQuorum = 1
  MaxReportsPerTask = 5
  LeaseSlash = 1
  ReputationReward = 1
  ReputationPenalty = 1
  MaxU64 = 100
  InitialBalances = {1, 2}
  Amounts = {1, 2}
  TaskRewards = {1}
  TickSteps = {1}
  MaxProjects = 1
  MaxTasks = 2
  MaxTick = 1
SYMMETRY AccountSymmetry
PROPERTIES
  RewardIsCredited
