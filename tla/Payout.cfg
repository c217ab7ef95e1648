\* Every reward up to 12 among up to three winners; products above 15 saturate.
\* The rates make the time a reward buys a quotient with and without remainder.
SPECIFICATION PaySpec
CONSTANTS
  MaxU64 = 15
  MaxWinners = 3
  MaxWeight = 4
  MaxReward = 12
  BaseFee = 1
  CpuRate = 3
  MemoryRate = 1
  OpsPerCpuSec = 2
  MaxOperations = 9
  MaxSpare = 1
INVARIANTS
  LoopIsShares
  NeverOverpaid
  FullyPaid
  Monotone
  CostFitsBudget
  ChainPaysShares
\* the task is settled
CHECK_DEADLOCK FALSE
