----------------------------- MODULE Estimator ------------------------------
(***************************************************************************)
(* The arithmetic that ties work to tokens (estimator.rs, and actual_cost  *)
(* of executor.rs): how long a reward buys the interpreter, and what the   *)
(* work it did is reported to cost.                                        *)
(*                                                                         *)
(* The code computes the cost of the processor in doubles and truncates.   *)
(* At the rate of 10 that the Default of CostConfig gives, the only one    *)
(* the program uses, the truncated product is the integer quotient below   *)
(* for every count up to the interpreter's cap of operations.  pre_estimate*)
(* and detect_unbounded_python serve runs without a budget, of which the   *)
(* program has none, and are left out.                                     *)
(***************************************************************************)
EXTENDS U64

CONSTANTS
  BaseFee,           \* the fields of CostConfig
  CpuRate,
  MemoryRate,
  OpsPerCpuSec       \* interpreter operations that count as one second

ASSUME RatesAssumption ==
  /\ BaseFee \in 0..MaxU64
  /\ CpuRate \in 0..MaxU64
  /\ MemoryRate \in 0..MaxU64
  /\ OpsPerCpuSec \in Nat \ {0}

AtLeastOne(n) == IF n < 1 THEN 1 ELSE n
AtMost(n, m) == IF n > m THEN m ELSE n

\* u64::div_ceil.
DivCeil(a, b) == (a + b - 1) \div b

DivCeil_Floor(a, b) == a \div b                                 \* mutant

TimeoutForBudget_Floor(reward) ==                               \* mutant
  AtLeastOne(DivCeil_Floor(SatSub(reward, BaseFee), AtLeastOne(CpuRate)))

\* The seconds a reward buys.
TimeoutForBudget(reward) ==
  AtLeastOne(DivCeil(SatSub(reward, BaseFee), AtLeastOne(CpuRate)))

\* What a run of so many operations and megabytes costs.
CpuCost(operations) == Saturated((operations * CpuRate) \div OpsPerCpuSec)
CalculateCost(operations, megabytes) ==
  SatAdd(SatAdd(BaseFee, CpuCost(operations)), SatMul(megabytes, MemoryRate))

ActualCost_Uncapped(operations, reward, exhausted) ==           \* mutant
  IF exhausted THEN reward ELSE CalculateCost(operations, 0)

\* What the worker reports: an exhausted budget costs all of it.  The sandbox
\* measures no memory, and a result that no interpreter made no operations.
ActualCost(operations, reward, exhausted) ==
  IF exhausted THEN reward ELSE AtMost(CalculateCost(operations, 0), reward)

=============================================================================
