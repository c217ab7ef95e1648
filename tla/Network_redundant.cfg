\* Redundant execution with the default quorum of 2: a result and a
\* budget-exhausted report, two reports at most.
SPECIFICATION Spec
CONSTANTS
  p1 = p1
  p2 = p2
  p3 = p3
  Participants = {p1, p2, p3}
  Digests = {"d1"}
  BudgetDigests = {"spent"}
  Costs = {0}
  LeaseTimeoutTicks = 2
  ConsensusQuorum = 2
  MaxReportsPerTask = 2
  LeaseSlash = 1
  ReputationReward = 1
  ReputationPenalty = 1
  MaxU64 = 100
  InitialBalances = {2}
  Amounts = {2}
  TaskRewards = {1, 2}
  TickSteps = {1}
  MaxProjects = 1
  MaxTasks = 2
  MaxTick = 2
SYMMETRY AccountSymmetry
INVARIANTS
  TypeOK
  LeaseMatchesStatus
  QueueMatchesStatus
  NoExpiredLease
  OneReportPerWorker
  ReportsBelowLimit
  LockedIsOpenRewards
  EscrowCoversQuota
PROPERTIES
  FinalStatusIsFinal
  EscrowPaysRewards
  OnlyRegistrationMints
  AcceptedByQuorum
  WalletLossIsOwnAct
