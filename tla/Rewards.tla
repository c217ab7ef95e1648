------------------------------ MODULE Rewards -------------------------------
(***************************************************************************)
(* distribute_reward (network.rs): how the reward of an accepted task is   *)
(* split among its winners in proportion to their reputation.  A winner is *)
(* the position of its report; `w` maps the winners to their weights.      *)
(***************************************************************************)
EXTENDS TokenSums, U64

TotalWeight(w) == Sum(DOMAIN w, w)

BaseShare_RoundedUp(reward, w, i) ==                            \* mutant
  (SatMul(reward, w[i]) + TotalWeight(w) - 1) \div TotalWeight(w)

\* The proportional part of winner i, rounded down.
BaseShare(reward, w, i) == SatMul(reward, w[i]) \div TotalWeight(w)

BaseShares(reward, w) == [i \in DOMAIN w |-> BaseShare(reward, w, i)]

Remainder_Dropped(reward, w) == 0                               \* mutant

\* What the rounding leaves over.
Remainder(reward, w) ==
  SatSub(reward, Sum(DOMAIN w, BaseShares(reward, w)))

Before_Ascending(w, i, j) == w[i] < w[j] \/ (w[i] = w[j] /\ i < j)  \* mutant

\* The stable sort by descending weight puts i in front of j.
Before(w, i, j) == w[i] > w[j] \/ (w[i] = w[j] /\ i < j)

Rank_Positional(w, i) == Cardinality({j \in DOMAIN w : j < i})  \* mutant
Rank(w, i) == Cardinality({j \in DOMAIN w : Before(w, j, i)})

\* The leftover tokens go, one each, to the first winners of the sorted order.
Shares(reward, w) ==
  [i \in DOMAIN w |-> BaseShare(reward, w, i)
                        + IF Rank(w, i) < Remainder(reward, w) THEN 1 ELSE 0]

=============================================================================
