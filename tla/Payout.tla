------------------------------- MODULE Payout -------------------------------
(***************************************************************************)
(* What becomes of the reward of one task, from the payload to the chain:  *)
(* the reward buys the interpreter time (module Estimator), the work gets  *)
(* a cost, the accepted result lets the reward be split among its winners   *)
(* (module RewardLoop) or burned, and a block of transactions moves it out  *)
(* of the project's escrow (module Blockchain).  Module Network keeps the   *)
(* sums of those transactions instead of the transactions.                 *)
(***************************************************************************)
EXTENDS RewardLoop, Estimator, Blockchain

CONSTANTS
  MaxOperations,     \* bound: what the interpreter counts of one run
  MaxSpare           \* bound: what the project holds beyond the reward

ASSUME PayBoundsAssumption == MaxOperations \in Nat /\ MaxSpare \in Nat

VARIABLES
  operations,        \* what the run of the payload counted
  exhausted,         \* the accepted digest says that the budget was
  chain,
  settled            \* the task is closed

payVars == <<vars, operations, exhausted, chain, settled>>

\* Addresses: the winners are 1, 2, ..., and one who is no winner is 0.
Outsider == 0
ProjectAddress == -1
Funders == {Outsider} \cup DOMAIN weights

\* register_participant, and donate_to_project, by winner or outsider alike.
Funded(funder, spare) ==
  CommitBlock(CommitBlock(Genesis, <<Mint(funder, MaxReward + MaxSpare)>>),
              <<Pay(funder, ProjectAddress, reward + spare)>>)

PayInit ==
  /\ Init
  /\ operations \in 0..MaxOperations
  /\ exhausted \in BOOLEAN
  /\ \E funder \in Funders, spare \in 0..MaxSpare : chain = Funded(funder, spare)
  /\ settled = FALSE

Distribute ==
  /\ ~settled /\ ~exhausted
  /\ PayOne
  /\ UNCHANGED <<operations, exhausted, chain, settled>>

RewardTxs_TooEarly ==                                           \* mutant
  [i \in {j \in DOMAIN weights : BaseShare(reward, weights, j) > 0} |->
     Pay(ProjectAddress, i, BaseShare(reward, weights, i))]

\* The transfers of finalize_task; nobody is sent nothing.
RewardTxs ==
  [i \in {j \in DOMAIN weights : shares[j] > 0} |-> Pay(ProjectAddress, i, shares[i])]

\* finalize_task, after distribute_reward.
PayWinners ==
  /\ ~settled /\ ~exhausted
  /\ Finished
  /\ chain' = IF DOMAIN RewardTxs = {} THEN chain ELSE CommitBlock(chain, RewardTxs)
  /\ settled' = TRUE
  /\ UNCHANGED <<vars, operations, exhausted>>

\* finalize_budget_exhausted_task.
BurnReward ==
  /\ ~settled /\ exhausted
  /\ chain' = IF reward = 0 THEN chain
              ELSE CommitBlock(chain, <<Burn(ProjectAddress, reward)>>)
  /\ settled' = TRUE
  /\ UNCHANGED <<vars, operations, exhausted>>

PayNext == Distribute \/ PayWinners \/ BurnReward

PaySpec == PayInit /\ [][PayNext]_payVars

-----------------------------------------------------------------------------
\* What the repository relies on.

\* No report claims more than the task's budget, however much the interpreter
\* counted.  The whole of it is claimed of every run that was given up, for
\* whatever reason, and of one that counted as many operations as make up the
\* seconds the reward bought: then time and cost, rounded apart, agree.
CostFitsBudget ==
  LET cost == ActualCost(operations, reward, exhausted)
  IN  /\ cost <= reward
      /\ exhausted => cost = reward
      /\ operations >= TimeoutForBudget(reward) * OpsPerCpuSec
           /\ CpuRate > 0 /\ reward <= MaxU64 => cost = reward

FundsOf(address) == BalanceOnChain(SubSeq(chain, 1, 3), address)

\* The balances folded out of the blocks are those the ledger module computes as
\* sums: each winner gained its share, also one who funded the project, and the
\* escrow lost what they gained, or the whole burned reward, and keeps the rest.
ChainPaysShares ==
  settled =>
    /\ \A i \in DOMAIN weights :
         BalanceOnChain(chain, i) = FundsOf(i) + IF exhausted THEN 0 ELSE shares[i]
    /\ BalanceOnChain(chain, ProjectAddress) =
         FundsOf(ProjectAddress)
           - IF exhausted THEN reward ELSE Sum(DOMAIN weights, shares)

=============================================================================
