----------------------------- MODULE RewardLoop -----------------------------
(***************************************************************************)
(* The loop of distribute_reward, one iteration a step, over every reward  *)
(* and every list of weights within the bounds.  It checks the closed form *)
(* Shares of module Rewards, which the ledger uses, against the loop.      *)
(***************************************************************************)
EXTENDS Rewards

CONSTANTS
  MaxWinners,        \* bound: how many workers share one reward
  MaxWeight,         \* bound: the largest reputation
  MaxReward          \* bound: the largest reward

ASSUME LoopBoundsAssumption ==
  MaxWinners \in Nat /\ MaxWeight \in Nat /\ MaxReward \in Nat

VARIABLES
  reward,            \* task_reward
  weights,           \* the winners' weights, in report order
  shares,            \* reward_txs, by winner
  remainder,         \* tokens still to hand out
  unvisited          \* winners the loop has not reached

vars == <<reward, weights, shares, remainder, unvisited>>

Init ==
  /\ reward \in 0..MaxReward
  /\ weights \in UNION {[1..n -> 1..MaxWeight] : n \in 1..MaxWinners}
  /\ shares = BaseShares(reward, weights)
  /\ remainder = Remainder(reward, weights)
  /\ unvisited = DOMAIN weights

\* One iteration: the next winner in sorted order gets one leftover token.
PayOne ==
  /\ remainder > 0
  /\ \E i \in unvisited :
       /\ \A j \in unvisited \ {i} : Before(weights, i, j)
       /\ shares' = [shares EXCEPT ![i] = @ + 1]
       /\ unvisited' = unvisited \ {i}
  /\ remainder' = remainder - 1
  /\ UNCHANGED <<reward, weights>>

Next == PayOne

Spec == Init /\ [][Next]_vars

Finished == remainder = 0 \/ unvisited = {}

\* The loop computes the closed form the ledger module uses.
LoopIsShares == Finished => shares = Shares(reward, weights)

\* distribute_reward never pays out more than the task's reward, not even when
\* a product saturates: the project's escrow holds no more than that for it.
NeverOverpaid == Sum(DOMAIN weights, shares) <= reward

\* Unless a product saturates, the winners together receive the whole reward:
\* no token stays behind in the project's escrow.
FullyPaid ==
  Finished /\ (\A i \in DOMAIN weights : reward * weights[i] <= MaxU64)
    => Sum(DOMAIN weights, shares) = reward

\* A winner of higher reputation never receives less than one of lower.
Monotone ==
  Finished => \A i, j \in DOMAIN weights :
                weights[i] > weights[j] => shares[i] >= shares[j]

=============================================================================
