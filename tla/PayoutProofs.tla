--------------------------- MODULE PayoutProofs -----------------------------
(***************************************************************************)
(* What a reward buys and how it is split, for every rate, reward and list *)
(* of winners: the interpreter time is worth the reward, no report claims  *)
(* more than it, the loop of distribute_reward hands out the shares the    *)
(* ledger module computes in closed form, and the balances folded out of   *)
(* the blocks are the sums it keeps of them.                               *)
(***************************************************************************)
EXTENDS Payout, RewardsProofs

USE RatesAssumption

-----------------------------------------------------------------------------
\* Division.

\* Division rounded up is the least quotient that covers the dividend.
LEMMA DivCeilCovers ==
  ASSUME NEW a \in Nat, NEW b \in Nat \ {0}
  PROVE  /\ DivCeil(a, b) \in Nat
         /\ DivCeil(a, b) * b >= a
         /\ a > 0 => (DivCeil(a, b) - 1) * b < a
         /\ a = 0 => DivCeil(a, b) = 0
<1> DEFINE q == DivCeil(a, b)
           r == (a + b - 1) % b
<1>1. q \in Int /\ a + b - 1 = b * q + r /\ r \in 0..(b - 1)
  BY SMT DEF DivCeil
<1> HIDE DEF q, r
<1>2. b * q \in Int /\ b * q <= a + b - 1 /\ a <= b * q
  BY <1>1
<1>3. q >= 0
  <2> SUFFICES ASSUME q <= -1 PROVE FALSE
    BY <1>1
  <2>1. PICK k \in Nat : q = -1 - k
    <3>1. -1 - q \in Nat /\ q = -1 - (-1 - q)
      BY <1>1
    <3>. QED BY <3>1
  <2>2. b * q = -b - b * k /\ b * k \in Nat
    BY <2>1
  <2>. QED BY <1>2, <2>2
<1>4. q * b = b * q /\ (q - 1) * b = b * q - b
  BY <1>1
<1>5. a = 0 => q = 0
  <2> SUFFICES ASSUME a = 0, q >= 1 PROVE FALSE
    BY <1>1, <1>3
  <2>1. PICK k \in Nat : q = k + 1
    <3>1. q - 1 \in Nat /\ q = (q - 1) + 1
      BY <1>1
    <3>. QED BY <3>1
  <2>2. b * q = b * k + b /\ b * k \in Nat
    BY <2>1
  <2>. QED BY <1>2, <2>2
<1>6. a > 0 => (q - 1) * b < a
  BY <1>2, <1>4
<1>. QED BY <1>1, <1>2, <1>3, <1>4, <1>5, <1>6 DEF q

\* Division keeps the order.
LEMMA DivMonotone ==
  ASSUME NEW a \in Nat, NEW b \in Nat, a <= b, NEW t \in Nat \ {0}
  PROVE  a \div t \in Nat /\ b \div t \in Nat /\ a \div t <= b \div t
<1> DEFINE p == a \div t
           q == b \div t
<1>1. /\ p \in Nat /\ a = t * p + (a % t) /\ a % t \in 0..(t - 1)
      /\ q \in Nat /\ b = t * q + (b % t) /\ b % t \in 0..(t - 1)
  OBVIOUS
<1> HIDE DEF p, q
<1>2. SUFFICES ASSUME p >= q + 1 PROVE FALSE
  BY <1>1 DEF p, q
<1>3. PICK k \in Nat : p = q + 1 + k
  <2>1. p - q - 1 \in Nat /\ p = q + 1 + (p - q - 1)
    BY <1>1, <1>2
  <2>. QED BY <2>1
<1>4. t * p = t * q + t + t * k /\ t * k \in Nat /\ t * q \in Nat
  BY <1>1, <1>3
<1>. QED BY <1>1, <1>4

-----------------------------------------------------------------------------
\* Time and cost.

\* The seconds a reward buys, at a rate that is not zero, are at least one, are
\* worth the reward, and no more seconds than that.
LEMMA TimeCoversReward ==
  ASSUME NEW r \in Nat, CpuRate > 0
  PROVE  LET t == TimeoutForBudget(r)
         IN  /\ t \in Nat \ {0}
             /\ BaseFee + t * CpuRate >= r
             /\ t = 1 \/ BaseFee + (t - 1) * CpuRate < r
<1> DEFINE a == SatSub(r, BaseFee)
           d == DivCeil(a, CpuRate)
           t == TimeoutForBudget(r)
<1>1. a \in Nat /\ a >= r - BaseFee /\ (a > 0 => a = r - BaseFee)
  BY MaxU64Assumption DEF SatSub
<1>2. AtLeastOne(CpuRate) = CpuRate /\ CpuRate \in Nat \ {0} /\ BaseFee \in Nat
  BY MaxU64Assumption DEF AtLeastOne
<1>3. t = AtLeastOne(d)
  BY <1>2 DEF TimeoutForBudget
<1> HIDE DEF a, t
<1>4. /\ d \in Nat
      /\ d * CpuRate >= a
      /\ a > 0 => (d - 1) * CpuRate < a
      /\ a = 0 => d = 0
  BY <1>1, <1>2, DivCeilCovers
<1> HIDE DEF d
<1>5. CASE d = 0
  <2>1. t = 1
    BY <1>3, <1>5 DEF AtLeastOne
  <2>2. d * CpuRate = 0 /\ t * CpuRate = CpuRate
    BY <1>2, <1>5, <2>1
  <2>3. a = 0
    BY <1>1, <1>4, <2>2
  <2>. QED BY <1>1, <1>2, <2>1, <2>2, <2>3 DEF t
<1>6. CASE d > 0
  <2>1. t = d
    BY <1>3, <1>4, <1>6 DEF AtLeastOne
  <2>2. a > 0 /\ a = r - BaseFee
    BY <1>1, <1>4, <1>6
  <2>3. d * CpuRate \in Nat /\ (d - 1) * CpuRate \in Int
    BY <1>2, <1>4
  <2>. QED BY <1>1, <1>2, <1>4, <1>6, <2>1, <2>2, <2>3 DEF t
<1>. QED BY <1>4, <1>5, <1>6

\* The cost of a run is a natural number.
LEMMA CostType ==
  ASSUME NEW ops \in Nat
  PROVE  /\ CpuCost(ops) \in Nat
         /\ CalculateCost(ops, 0) \in Nat
         /\ CalculateCost(ops, 0) =
              Saturated(Saturated(BaseFee + CpuCost(ops)))
<1>1. CpuRate \in Nat /\ BaseFee \in Nat /\ MemoryRate \in Nat
  BY MaxU64Assumption
<1>2. ops * CpuRate \in Nat
  BY <1>1
<1>3. (ops * CpuRate) \div OpsPerCpuSec \in Nat
  BY <1>2, DivMonotone
<1>4. CpuCost(ops) \in Nat
  BY <1>3, MaxU64Assumption DEF CpuCost, Saturated
<1>5. SatMul(0, MemoryRate) = 0
  BY <1>1, MaxU64Assumption DEF SatMul, Saturated
<1>6. Saturated(BaseFee + CpuCost(ops)) \in Nat
  BY <1>1, <1>4, MaxU64Assumption DEF Saturated
<1>. QED BY <1>4, <1>5, <1>6, MaxU64Assumption DEF CalculateCost, SatAdd, Saturated

\* A run as long as the time that was bought costs the whole reward.
LEMMA FullTimeCostsReward ==
  ASSUME NEW r \in Nat, r <= MaxU64, CpuRate > 0, NEW ops \in Nat,
         ops >= TimeoutForBudget(r) * OpsPerCpuSec
  PROVE  CalculateCost(ops, 0) >= r
<1> DEFINE t == TimeoutForBudget(r)
           c == (ops * CpuRate) \div OpsPerCpuSec
<1>1. CpuRate \in Nat /\ BaseFee \in Nat /\ OpsPerCpuSec \in Nat \ {0}
  BY MaxU64Assumption
<1>2. t \in Nat /\ BaseFee + t * CpuRate >= r
  BY TimeCoversReward
<1> HIDE DEF t
<1>3. t * CpuRate \in Nat /\ t * OpsPerCpuSec \in Nat
  BY <1>1, <1>2
<1>4. PICK k \in Nat : ops = t * OpsPerCpuSec + k
  <2>1. ops >= t * OpsPerCpuSec
    BY DEF t
  <2>2. ops - t * OpsPerCpuSec \in Nat /\ ops = t * OpsPerCpuSec + (ops - t * OpsPerCpuSec)
    BY <1>3, <2>1
  <2>. QED BY <2>2
<1>5. ops * CpuRate = (t * CpuRate) * OpsPerCpuSec + k * CpuRate /\ k * CpuRate \in Nat
  BY <1>1, <1>2, <1>4
<1>6. (t * CpuRate) * OpsPerCpuSec \in Nat
  BY <1>1, <1>3
<1>7. c \in Nat /\ c >= t * CpuRate
  <2>1. ((t * CpuRate) * OpsPerCpuSec) \div OpsPerCpuSec = t * CpuRate
    <3>1. \A m \in Nat : (m * OpsPerCpuSec) \div OpsPerCpuSec = m
      BY <1>1
    <3>. QED BY <1>3, <3>1
  <2>2. (t * CpuRate) * OpsPerCpuSec <= ops * CpuRate /\ ops * CpuRate \in Nat
    BY <1>5, <1>6
  <2>. QED BY <1>1, <1>6, <2>1, <2>2, DivMonotone
<1>8. CpuCost(ops) = Saturated(c)
  BY DEF CpuCost
<1>9. CalculateCost(ops, 0) = Saturated(Saturated(BaseFee + CpuCost(ops)))
  BY CostType
<1> HIDE DEF c
<1>. QED BY <1>1, <1>2, <1>3, <1>7, <1>8, <1>9, MaxU64Assumption DEF Saturated

-----------------------------------------------------------------------------
\* The loop.

Visited == DOMAIN weights \ unvisited

LoopInv ==
  /\ reward \in Nat /\ Weights(weights)
  /\ unvisited \subseteq DOMAIN weights
  /\ remainder \in Nat
  /\ Cardinality(Visited) + remainder = Remainder(reward, weights)
  /\ shares = [i \in DOMAIN weights |->
                 BaseShare(reward, weights, i) + IF i \in unvisited THEN 0 ELSE 1]
  /\ \A i \in Visited, j \in unvisited : Before(weights, i, j)

LEMMA RemainderType ==
  ASSUME NEW w, Weights(w), NEW r \in Nat
  PROVE  Remainder(r, w) \in Nat
         /\ Sum(DOMAIN w, BaseShares(r, w)) + Remainder(r, w) = r
BY BaseSharesBound DEF Remainder, SatSub

LEMMA LoopInit ==
  ASSUME Init
  PROVE  LoopInv
<1>1. reward \in Nat
  BY LoopBoundsAssumption DEF Init
<1>2. PICK n \in 1..MaxWinners : weights \in [1..n -> 1..MaxWeight]
  BY DEF Init
<1>3. n \in Nat /\ n >= 1 /\ DOMAIN weights = 1..n
  BY <1>2, LoopBoundsAssumption
<1>4. IsFiniteSet(DOMAIN weights)
  BY <1>3, FS_Interval
<1>5. 1 \in DOMAIN weights /\ DOMAIN weights \subseteq Nat
  BY <1>3
<1>6. \A i \in DOMAIN weights : weights[i] \in Nat \ {0}
  BY <1>2, <1>3, LoopBoundsAssumption
<1>7. Weights(weights)
  BY <1>4, <1>5, <1>6 DEF Weights
<1>8. Visited = {} /\ Cardinality(Visited) = 0
  BY FS_EmptySet DEF Init, Visited
<1>9. remainder = Remainder(reward, weights) /\ remainder \in Nat
  BY <1>1, <1>7, RemainderType DEF Init
<1>10. shares = [i \in DOMAIN weights |->
                   BaseShare(reward, weights, i) + IF i \in unvisited THEN 0 ELSE 1]
  <2>1. \A i \in DOMAIN weights : BaseShare(reward, weights, i) \in Nat
    BY <1>1, <1>7, BaseShareBound
  <2>2. unvisited = DOMAIN weights
    BY DEF Init
  <2>3. \A i \in DOMAIN weights :
          BaseShare(reward, weights, i)
            = BaseShare(reward, weights, i) + IF i \in unvisited THEN 0 ELSE 1
    BY <2>1, <2>2
  <2>. QED BY <2>3, Zenon DEF Init, BaseShares
<1>. QED BY <1>1, <1>7, <1>8, <1>9, <1>10 DEF LoopInv, Init, Visited

LEMMA LoopStep ==
  ASSUME LoopInv, PayOne
  PROVE  LoopInv'
<1>1. PICK i \in unvisited :
        /\ \A j \in unvisited \ {i} : Before(weights, i, j)
        /\ shares' = [shares EXCEPT ![i] = @ + 1]
        /\ unvisited' = unvisited \ {i}
  BY DEF PayOne
<1>2. remainder > 0 /\ remainder' = remainder - 1 /\ reward' = reward /\ weights' = weights
  BY DEF PayOne
<1>3. i \in DOMAIN weights /\ i \notin Visited
  BY DEF LoopInv, Visited
<1>4. Visited' = Visited \cup {i}
  BY <1>1, <1>2, <1>3 DEF Visited, LoopInv
<1>5. IsFiniteSet(Visited) /\ Cardinality(Visited) \in Nat
  <2>1. Visited \in SUBSET DOMAIN weights
    BY DEF Visited
  <2>. QED BY <2>1, FS_Subset, FS_CardinalityType DEF LoopInv, Weights
<1>6. Cardinality(Visited') = Cardinality(Visited) + 1
  BY <1>3, <1>4, <1>5, FS_AddElement
<1>7. remainder' \in Nat /\ Cardinality(Visited') + remainder' = Remainder(reward, weights)
  BY <1>2, <1>5, <1>6 DEF LoopInv
<1>8. shares' = [k \in DOMAIN weights |->
                   BaseShare(reward, weights, k) + IF k \in unvisited' THEN 0 ELSE 1]
  <2>1. \A k \in DOMAIN weights : BaseShare(reward, weights, k) \in Nat
    BY BaseShareBound DEF LoopInv
  <2>2. shares = [k \in DOMAIN weights |->
                    BaseShare(reward, weights, k) + IF k \in unvisited THEN 0 ELSE 1]
    BY DEF LoopInv
  <2>. QED BY <1>1, <1>3, <2>1, <2>2
<1>9. \A k \in Visited', j \in unvisited' : Before(weights, k, j)
  BY <1>1, <1>4 DEF LoopInv
<1>10. reward' \in Nat /\ Weights(weights')
  BY <1>2, Zenon DEF LoopInv
<1>11. unvisited' \subseteq DOMAIN weights
  BY <1>1 DEF LoopInv
<1>. QED BY <1>2, <1>7, <1>8, <1>9, <1>10, <1>11, Zenon DEF LoopInv

PayInv == LoopInv /\ operations \in Nat /\ exhausted \in BOOLEAN

LEMMA PayInvariant == PaySpec => []PayInv
<1>1. PayInit => PayInv
  BY LoopInit, PayBoundsAssumption DEF PayInit, PayInv
<1>2. PayInv /\ [PayNext]_payVars => PayInv'
  <2> SUFFICES ASSUME PayInv, [PayNext]_payVars
               PROVE  PayInv'
    OBVIOUS
  <2>1. CASE Distribute
    BY <2>1, LoopStep DEF Distribute, PayInv
  <2>2. CASE UNCHANGED <<vars, operations, exhausted>>
    BY <2>2 DEF vars, LoopInv, Visited, PayInv
  <2>. QED BY <2>1, <2>2 DEF PayNext, PayWinners, BurnReward, payVars
<1>. QED BY <1>1, <1>2, PTL DEF PaySpec

-----------------------------------------------------------------------------
\* The loop computes the closed form.

\* The loop has visited a winner exactly when its rank is below the visits made.
LEMMA VisitedByRank ==
  ASSUME LoopInv, NEW i \in DOMAIN weights
  PROVE  /\ Cardinality(Visited) \in Nat
         /\ i \in Visited => Rank(weights, i) < Cardinality(Visited)
         /\ i \in unvisited => Rank(weights, i) >= Cardinality(Visited)
<1> DEFINE Ahead == {j \in DOMAIN weights : Before(weights, j, i)}
<1>1. /\ IsFiniteSet(DOMAIN weights) /\ DOMAIN weights \subseteq Nat
      /\ \A j \in DOMAIN weights : weights[j] \in Nat
  BY DEF LoopInv, Weights
<1>2. Ahead \in SUBSET DOMAIN weights /\ Visited \in SUBSET DOMAIN weights
  BY DEF Visited
<1>3. /\ IsFiniteSet(Ahead) /\ Cardinality(Ahead) \in Nat
      /\ IsFiniteSet(Visited) /\ Cardinality(Visited) \in Nat
  BY <1>1, <1>2, FS_Subset, FS_CardinalityType
<1>4. Rank(weights, i) = Cardinality(Ahead)
  BY DEF Rank
<1>5. \A j \in DOMAIN weights : ~(Before(weights, i, j) /\ Before(weights, j, i))
  BY <1>1 DEF Before
<1>6. ASSUME i \in Visited
      PROVE  Cardinality(Ahead) < Cardinality(Visited)
  <2>1. Ahead \in SUBSET Visited
    BY <1>5, <1>6 DEF LoopInv, Visited
  <2>2. i \notin Ahead
    BY <1>5
  <2> HIDE DEF Ahead
  <2>3. /\ Cardinality(Ahead) <= Cardinality(Visited)
        /\ Cardinality(Visited) = Cardinality(Ahead) => Visited = Ahead
    BY <1>3, <2>1, FS_Subset, Zenon
  <2>. QED BY <1>3, <1>6, <2>2, <2>3
<1>7. ASSUME i \in unvisited
      PROVE  Cardinality(Ahead) >= Cardinality(Visited)
  <2>1. Visited \in SUBSET Ahead
    BY <1>2, <1>7 DEF LoopInv
  <2> HIDE DEF Ahead
  <2>2. Cardinality(Visited) <= Cardinality(Ahead)
    BY <1>3, <2>1, FS_Subset, Zenon
  <2>. QED BY <1>3, <2>2
<1>. QED BY <1>3, <1>4, <1>6, <1>7

LEMMA LoopCloses ==
  ASSUME LoopInv
  PROVE  LoopIsShares
<1> SUFFICES ASSUME Finished PROVE shares = Shares(reward, weights)
  BY DEF LoopIsShares
<1> DEFINE rem == Remainder(reward, weights)
<1>1. /\ reward \in Nat /\ Weights(weights) /\ remainder \in Nat
      /\ Cardinality(Visited) + remainder = rem
      /\ unvisited \subseteq DOMAIN weights
  BY DEF LoopInv
<1>2. rem \in Nat
  BY <1>1, RemainderType
<1>3. ASSUME NEW i \in DOMAIN weights
      PROVE  (IF i \in unvisited THEN 0 ELSE 1) = (IF Rank(weights, i) < rem THEN 1 ELSE 0)
  <2>0. Rank(weights, i) \in 0..(Cardinality(DOMAIN weights) - 1)
    BY <1>1, RankInjective
  <2>1. /\ Cardinality(Visited) \in Nat
        /\ i \in Visited => Rank(weights, i) < Cardinality(Visited)
        /\ i \in unvisited => Rank(weights, i) >= Cardinality(Visited)
    BY VisitedByRank
  <2>2. Cardinality(DOMAIN weights) \in Nat
    BY <1>1, FS_CardinalityType DEF Weights
  <2>3. Rank(weights, i) \in Nat
    BY <2>0, <2>2
  <2> HIDE DEF rem
  <2>4. CASE i \in unvisited
    <3>1. remainder = 0
      BY <2>4 DEF Finished
    <3>. QED BY <1>1, <1>2, <2>1, <2>3, <2>4, <3>1
  <2>5. CASE i \notin unvisited
    <3>1. i \in Visited
      BY <2>5 DEF Visited
    <3>. QED BY <1>1, <1>2, <2>1, <2>3, <2>5, <3>1
  <2>. QED BY <2>4, <2>5
<1>4. shares = [i \in DOMAIN weights |->
                  BaseShare(reward, weights, i) + IF i \in unvisited THEN 0 ELSE 1]
  BY DEF LoopInv
<1> HIDE DEF rem
<1>5. shares = [i \in DOMAIN weights |->
                  BaseShare(reward, weights, i) + IF Rank(weights, i) < rem THEN 1 ELSE 0]
  BY <1>3, <1>4
<1>. QED BY <1>5 DEF Shares, rem

\* At every iteration the shares are the base shares and one token a visit.
LEMMA LoopPaysLess ==
  ASSUME LoopInv
  PROVE  NeverOverpaid
<1> DEFINE W == DOMAIN weights
           b == BaseShares(reward, weights)
           e == [i \in W |-> IF i \in unvisited THEN 0 ELSE 1]
<1>1. /\ reward \in Nat /\ Weights(weights) /\ remainder \in Nat
      /\ Cardinality(Visited) + remainder = Remainder(reward, weights)
  BY DEF LoopInv
<1>2. IsFiniteSet(W)
  BY <1>1 DEF Weights
<1>3. \A i \in W : BaseShare(reward, weights, i) \in Nat
  BY <1>1, BaseShareBound
<1>4. \A i \in W : b[i] \in Nat /\ e[i] \in Nat /\ e[i] \in {0, 1} /\ shares[i] = b[i] + e[i]
  BY <1>3 DEF BaseShares, LoopInv
<1>5. {i \in W : e[i] = 1} = Visited
  BY DEF Visited
<1>6. Sum(W, b) + Remainder(reward, weights) = reward /\ Sum(W, b) \in Nat
  BY <1>1, RemainderType, BaseSharesBound
<1> HIDE DEF b, e
<1>7. Sum(W, e) = Cardinality(Visited)
  <2>1. \A i \in W : e[i] \in {0, 1}
    BY <1>4
  <2>2. Sum(W, e) = Cardinality({i \in W : e[i] = 1})
    BY <1>2, <2>1, SumIndicator
  <2>. QED BY <1>5, <2>2, Zenon
<1>8. Sum(W, shares) = Sum(W, b) + Sum(W, e)
  BY <1>2, <1>4, SumPlus
<1>9. Cardinality(Visited) \in Nat
  <2>1. Visited \in SUBSET W
    BY DEF Visited
  <2>. QED BY <1>2, <2>1, FS_Subset, FS_CardinalityType
<1>10. Sum(W, shares) <= reward
  BY <1>1, <1>6, <1>7, <1>8, <1>9
<1>. QED BY <1>10 DEF NeverOverpaid

LEMMA LoopPaysAll ==
  ASSUME LoopInv
  PROVE  FullyPaid
BY LoopCloses, SharesExact DEF LoopInv, LoopIsShares, FullyPaid

\* A heavier winner has no smaller base share and no later rank.
LEMMA HeavierFirst ==
  ASSUME NEW w, Weights(w), NEW r \in Nat, NEW i \in DOMAIN w, NEW j \in DOMAIN w,
         w[i] > w[j]
  PROVE  /\ BaseShare(r, w, i) \in Nat /\ BaseShare(r, w, j) \in Nat
         /\ BaseShare(r, w, i) >= BaseShare(r, w, j)
         /\ Rank(w, i) \in Nat /\ Rank(w, j) \in Nat /\ Rank(w, i) <= Rank(w, j)
<1>1. /\ IsFiniteSet(DOMAIN w) /\ DOMAIN w \subseteq Nat
      /\ \A k \in DOMAIN w : w[k] \in Nat
  BY DEF Weights
<1>2. TotalWeight(w) \in Nat \ {0}
  BY TotalWeightPositive
<1>3. r * w[j] \in Nat /\ r * w[i] \in Nat /\ r * w[j] <= r * w[i]
  <2>1. PICK k \in Nat : w[i] = w[j] + k
    <3>1. w[i] - w[j] \in Nat /\ w[i] = w[j] + (w[i] - w[j])
      BY <1>1
    <3>. QED BY <3>1
  <2>2. r * w[i] = r * w[j] + r * k /\ r * k \in Nat /\ r * w[j] \in Nat
    BY <1>1, <2>1
  <2>. QED BY <2>2
<1>4. SatMul(r, w[j]) \in Nat /\ SatMul(r, w[i]) \in Nat /\ SatMul(r, w[j]) <= SatMul(r, w[i])
  BY <1>3, MaxU64Assumption DEF SatMul, Saturated
<1>5. /\ BaseShare(r, w, i) \in Nat /\ BaseShare(r, w, j) \in Nat
      /\ BaseShare(r, w, j) <= BaseShare(r, w, i)
  BY <1>2, <1>4, DivMonotone DEF BaseShare
<1> DEFINE A == {k \in DOMAIN w : Before(w, k, i)}
           B == {k \in DOMAIN w : Before(w, k, j)}
<1>6. A \in SUBSET B /\ B \in SUBSET DOMAIN w
  BY <1>1 DEF Before
<1> HIDE DEF A, B
<1>7. /\ IsFiniteSet(B) /\ IsFiniteSet(A)
      /\ Cardinality(A) <= Cardinality(B)
      /\ Cardinality(A) \in Nat /\ Cardinality(B) \in Nat
  <2>1. IsFiniteSet(B)
    BY <1>1, <1>6, FS_Subset
  <2>2. IsFiniteSet(A) /\ Cardinality(A) <= Cardinality(B)
    BY <1>6, <2>1, FS_Subset
  <2>. QED BY <2>1, <2>2, FS_CardinalityType
<1>8. Rank(w, i) = Cardinality(A) /\ Rank(w, j) = Cardinality(B)
  BY DEF Rank, A, B
<1>. QED BY <1>5, <1>7, <1>8

LEMMA LoopMonotone ==
  ASSUME LoopInv
  PROVE  Monotone
<1> SUFFICES ASSUME Finished, NEW i \in DOMAIN weights, NEW j \in DOMAIN weights,
                    weights[i] > weights[j]
             PROVE  shares[i] >= shares[j]
  BY DEF Monotone
<1> DEFINE rem == Remainder(reward, weights)
<1>1. reward \in Nat /\ Weights(weights)
  BY DEF LoopInv
<1>2. rem \in Nat
  BY <1>1, RemainderType
<1>3. /\ BaseShare(reward, weights, i) \in Nat /\ BaseShare(reward, weights, j) \in Nat
      /\ BaseShare(reward, weights, i) >= BaseShare(reward, weights, j)
      /\ Rank(weights, i) \in Nat /\ Rank(weights, j) \in Nat
      /\ Rank(weights, i) <= Rank(weights, j)
  BY <1>1, HeavierFirst
<1>4. shares = Shares(reward, weights)
  BY LoopCloses DEF LoopIsShares
<1>5. /\ shares[i] = BaseShare(reward, weights, i) + IF Rank(weights, i) < rem THEN 1 ELSE 0
      /\ shares[j] = BaseShare(reward, weights, j) + IF Rank(weights, j) < rem THEN 1 ELSE 0
  BY <1>4 DEF Shares
<1> HIDE DEF rem
<1>. QED BY <1>2, <1>3, <1>5

-----------------------------------------------------------------------------
\* What a report claims.

LEMMA CostIsCapped ==
  ASSUME reward \in Nat, operations \in Nat, exhausted \in BOOLEAN
  PROVE  CostFitsBudget
<1> DEFINE c == CalculateCost(operations, 0)
           cost == ActualCost(operations, reward, exhausted)
<1>1. c \in Nat
  BY CostType
<1>2. cost = IF exhausted THEN reward ELSE IF c > reward THEN reward ELSE c
  BY DEF ActualCost, AtMost
<1>3. ASSUME operations >= TimeoutForBudget(reward) * OpsPerCpuSec, CpuRate > 0,
             reward <= MaxU64
      PROVE  c >= reward
  BY <1>3, FullTimeCostsReward
<1> HIDE DEF c, cost
<1>4. cost <= reward
  BY <1>1, <1>2
<1>5. exhausted => cost = reward
  BY <1>2
<1>6. operations >= TimeoutForBudget(reward) * OpsPerCpuSec /\ CpuRate > 0
        /\ reward <= MaxU64 => cost = reward
  <2>1. c >= reward => cost = reward
    BY <1>1, <1>2
  <2>. QED BY <1>3, <2>1
<1>. QED BY <1>4, <1>5, <1>6 DEF CostFitsBudget, cost

-----------------------------------------------------------------------------
\* Sums over two sets.

LEMMA SumUnion ==
  ASSUME NEW S, IsFiniteSet(S), NEW T, IsFiniteSet(T), S \cap T = {},
         NEW f, \A s \in S \cup T : f[s] \in Nat
  PROVE  Sum(S \cup T, f) = Sum(S, f) + Sum(T, f)
<1>1. IsFiniteSet(Tokens(S, f)) /\ IsFiniteSet(Tokens(T, f))
  BY SumType
<1>2. Tokens(S \cup T, f) = Tokens(S, f) \cup Tokens(T, f)
  BY DEF Tokens
<1>3. Tokens(S, f) \cap Tokens(T, f) = {}
  BY DEF Tokens
<1>4. /\ Cardinality(Tokens(S, f) \cup Tokens(T, f))
           = Cardinality(Tokens(S, f)) + Cardinality(Tokens(T, f)) - Cardinality({})
      /\ Cardinality(Tokens(S, f)) \in Nat /\ Cardinality(Tokens(T, f)) \in Nat
  BY <1>1, <1>3, FS_Union, FS_CardinalityType
<1>5. Cardinality({}) = 0
  BY FS_EmptySet
<1>6. Sum(S \cup T, f) = Cardinality(Tokens(S, f) \cup Tokens(T, f))
  BY <1>2, Zenon DEF Sum
<1>7. /\ Sum(S, f) = Cardinality(Tokens(S, f)) /\ Sum(T, f) = Cardinality(Tokens(T, f))
  BY Zenon DEF Sum
<1>. QED BY <1>4, <1>5, <1>6, <1>7

LEMMA NetAgree ==
  ASSUME NEW S, NEW f, NEW g, \A s \in S : f[s] = g[s]
  PROVE  NetSum(S, f) = NetSum(S, g)
<1>1. /\ [s \in S |-> Positive(f[s])] = [s \in S |-> Positive(g[s])]
      /\ [s \in S |-> Positive(-f[s])] = [s \in S |-> Positive(-g[s])]
  OBVIOUS
<1>. QED BY <1>1, Zenon DEF NetSum

LEMMA NetUnion ==
  ASSUME NEW S, IsFiniteSet(S), NEW T, IsFiniteSet(T), S \cap T = {},
         NEW f, \A s \in S \cup T : f[s] \in Int
  PROVE  NetSum(S \cup T, f) = NetSum(S, f) + NetSum(T, f)
<1> DEFINE U == S \cup T
           p(R) == [s \in R |-> Positive(f[s])]
           d(R) == [s \in R |-> Positive(-f[s])]
<1>1. \A s \in U : p(U)[s] \in Nat /\ d(U)[s] \in Nat
  BY DEF Positive
<1>2. /\ Sum(U, p(U)) = Sum(S, p(U)) + Sum(T, p(U))
      /\ Sum(U, d(U)) = Sum(S, d(U)) + Sum(T, d(U))
  <2>1. PICK h, k : h = p(U) /\ k = d(U)
    OBVIOUS
  <2>2. \A s \in S \cup T : h[s] \in Nat /\ k[s] \in Nat
    BY <1>1, <2>1
  <2>3. Sum(S \cup T, h) = Sum(S, h) + Sum(T, h)
    BY <2>2, SumUnion
  <2>4. Sum(S \cup T, k) = Sum(S, k) + Sum(T, k)
    BY <2>2, SumUnion
  <2>. QED BY <2>1, <2>3, <2>4, Zenon
<1>3. /\ Sum(S, p(U)) = Sum(S, p(S)) /\ Sum(T, p(U)) = Sum(T, p(T))
      /\ Sum(S, d(U)) = Sum(S, d(S)) /\ Sum(T, d(U)) = Sum(T, d(T))
  <2>1. /\ \A s \in S : p(U)[s] = p(S)[s] /\ d(U)[s] = d(S)[s]
        /\ \A s \in T : p(U)[s] = p(T)[s] /\ d(U)[s] = d(T)[s]
    OBVIOUS
  <2>. QED BY <2>1, SumAgree, Zenon
<1>4. /\ Sum(S, p(S)) \in Nat /\ Sum(T, p(T)) \in Nat
      /\ Sum(S, d(S)) \in Nat /\ Sum(T, d(T)) \in Nat
  <2>1. /\ \A s \in S : p(S)[s] \in Nat /\ d(S)[s] \in Nat
        /\ \A s \in T : p(T)[s] \in Nat /\ d(T)[s] \in Nat
    BY DEF Positive
  <2>. QED BY <2>1, SumType, Zenon
<1>5. /\ NetSum(U, f) = Sum(U, p(U)) - Sum(U, d(U))
      /\ NetSum(S, f) = Sum(S, p(S)) - Sum(S, d(S))
      /\ NetSum(T, f) = Sum(T, p(T)) - Sum(T, d(T))
  BY DEF NetSum
<1> HIDE DEF p, d
<1>. QED BY <1>2, <1>3, <1>4, <1>5

LEMMA NetNone ==
  ASSUME NEW S, NEW f, \A s \in S : f[s] = 0
  PROVE  NetSum(S, f) = 0
<1> DEFINE z == [s \in S |-> 0]
<1>1. /\ [s \in S |-> Positive(f[s])] = z /\ [s \in S |-> Positive(-f[s])] = z
  BY DEF Positive
<1>2. Sum(S, z) = 0
  <2>1. {} \in SUBSET S /\ \A s \in S \ {} : z[s] = 0
    OBVIOUS
  <2> HIDE DEF z
  <2>2. Sum(S, z) = Sum({}, z)
    BY <2>1, SumSupport
  <2>. QED BY <2>2, SumEmpty
<1> HIDE DEF z
<1>3. NetSum(S, f) = Sum(S, z) - Sum(S, z)
  BY <1>1, Zenon DEF NetSum
<1>. QED BY <1>2, <1>3

\* Only x is owned or owed anything.
LEMMA NetOne ==
  ASSUME NEW S, IsFiniteSet(S), NEW x \in S, NEW f \in [S -> Int],
         \A s \in S \ {x} : f[s] = 0
  PROVE  NetSum(S, f) = f[x]
<1> DEFINE z == [s \in S |-> 0]
<1>1. z \in [S -> Int] /\ z[x] = 0 /\ (\A s \in S : z[s] = 0) /\ f[x] \in Int
      /\ \A s \in S \ {x} : f[s] = z[s]
  OBVIOUS
<1> HIDE DEF z
<1>2. NetSum(S, z) = 0
  BY <1>1, NetNone
<1>3. NetSum(S, f) = NetSum(S, z) - z[x] + f[x]
  BY <1>1, NetUpdate
<1>. QED BY <1>1, <1>2, <1>3

\* The sum is the same by other names.
LEMMA NetBijection ==
  ASSUME NEW S, IsFiniteSet(S), NEW T, NEW f, NEW g, NEW h,
         \A s \in S : f[s] \in Int /\ h[g[s]] = f[s] /\ g[s] \in T,
         \A s, u \in S : g[s] = g[u] => s = u,
         \A t \in T : \E s \in S : g[s] = t
  PROVE  NetSum(S, f) = NetSum(T, h)
<1>1. PICK fp, fd, hp, hd :
        /\ fp = [s \in S |-> Positive(f[s])] /\ fd = [s \in S |-> Positive(-f[s])]
        /\ hp = [t \in T |-> Positive(h[t])] /\ hd = [t \in T |-> Positive(-h[t])]
  OBVIOUS
<1>2. \A s \in S : /\ fp[s] \in Nat /\ hp[g[s]] = fp[s]
                   /\ fd[s] \in Nat /\ hd[g[s]] = fd[s]
  BY <1>1 DEF Positive
<1>3. Sum(S, fp) = Sum(T, hp)
  BY <1>2, SumBijection
<1>4. Sum(S, fd) = Sum(T, hd)
  BY <1>2, SumBijection
<1>. QED BY <1>1, <1>3, <1>4, Zenon DEF NetSum

-----------------------------------------------------------------------------
\* Balances.

\* What the chain, and what one block, moves to an address.
Amounts(c, address) == [at \in Places(c) |-> Moved(c[at[1]][at[2]], address)]
Folded(c, address) == NetSum(Places(c), Amounts(c, address))

BlockAmounts(block, address) == [i \in DOMAIN block |-> Moved(block[i], address)]
BlockFolded(block, address) == NetSum(DOMAIN block, BlockAmounts(block, address))

Proper(block) ==
  IsFiniteSet(DOMAIN block) /\ \A i \in DOMAIN block : block[i].amount \in Nat
ProperChain(c) ==
  IsFiniteSet(Places(c)) /\ \A at \in Places(c) : c[at[1]][at[2]].amount \in Nat

LEMMA MovedType ==
  ASSUME NEW tx, tx.amount \in Nat, NEW address
  PROVE  Moved(tx, address) \in Int
BY DEF Moved, Gained, Spent

LEMMA BalanceIsFold ==
  ASSUME NEW c, NEW address
  PROVE  BalanceOnChain(c, address) =
           IF Folded(c, address) < 0 THEN 0 ELSE Folded(c, address)
BY DEF BalanceOnChain, Folded, Amounts

\* A block adds what it moves to the fold over the blocks before it.
LEMMA CommitFolds ==
  ASSUME NEW Blocks, NEW c \in Seq(Blocks), NEW block \in Blocks,
         ProperChain(c), Proper(block)
  PROVE  /\ CommitBlock(c, block) \in Seq(Blocks) /\ ProperChain(CommitBlock(c, block))
         /\ \A address : Folded(CommitBlock(c, block), address)
                           = Folded(c, address) + BlockFolded(block, address)
<1>1. PICK d : d = CommitBlock(c, block)
  OBVIOUS
<1> DEFINE n   == Len(c) + 1
           New == {n} \X DOMAIN block
           g   == [i \in DOMAIN block |-> <<n, i>>]
<1>2. /\ d \in Seq(Blocks) /\ DOMAIN d = DOMAIN c \cup {n} /\ n \notin DOMAIN c
      /\ d[n] = block /\ \A b \in DOMAIN c : d[b] = c[b]
  BY <1>1 DEF CommitBlock
<1>3. Places(d) = Places(c) \cup New /\ Places(c) \cap New = {}
  BY <1>2 DEF Places
<1>4. /\ \A at \in Places(c) : d[at[1]][at[2]] = c[at[1]][at[2]]
      /\ \A at \in New : d[at[1]][at[2]] = block[at[2]]
  BY <1>2 DEF Places
<1>5. IsFiniteSet(New)
  <2>1. IsFiniteSet({n}) /\ IsFiniteSet(DOMAIN block)
    BY FS_Singleton DEF Proper
  <2>. QED BY <2>1, FS_Product
<1>6. ProperChain(d)
  <2>1. IsFiniteSet(Places(d))
    <3>1. IsFiniteSet(Places(c))
      BY DEF ProperChain
    <3> HIDE DEF New
    <3>. QED BY <1>3, <1>5, <3>1, FS_Union, Zenon
  <2>2. \A at \in Places(d) : d[at[1]][at[2]].amount \in Nat
    BY <1>3, <1>4 DEF ProperChain, Proper
  <2>. QED BY <2>1, <2>2 DEF ProperChain
<1>7. ASSUME NEW a
      PROVE  Folded(d, a) = Folded(c, a) + BlockFolded(block, a)
  <2>1. PICK f : f = Amounts(d, a)
    OBVIOUS
  <2>2. \A at \in Places(d) : f[at] \in Int
    BY <1>6, <2>1, MovedType DEF Amounts, ProperChain
  <2>3. NetSum(Places(c) \cup New, f) = NetSum(Places(c), f) + NetSum(New, f)
    <3>1. IsFiniteSet(Places(c))
      BY DEF ProperChain
    <3> HIDE DEF New
    <3>. QED BY <1>3, <1>5, <2>2, <3>1, NetUnion
  <2>4. NetSum(Places(c), f) = Folded(c, a)
    <3>1. \A at \in Places(c) : f[at] = Amounts(c, a)[at]
      BY <1>3, <1>4, <2>1 DEF Amounts
    <3>. QED BY <3>1, NetAgree DEF Folded
  <2>5. BlockFolded(block, a) = NetSum(New, f)
    <3>1. PICK k, h : k = BlockAmounts(block, a) /\ h = g
      OBVIOUS
    <3>2. \A i \in DOMAIN block : k[i] \in Int
      BY <3>1, MovedType DEF BlockAmounts, Proper
    <3>3. \A i \in DOMAIN block : f[h[i]] = k[i] /\ h[i] \in New
      BY <1>3, <1>4, <2>1, <3>1 DEF BlockAmounts, Amounts
    <3>4. \A i, j \in DOMAIN block : h[i] = h[j] => i = j
      BY <3>1
    <3>5. \A at \in New : \E i \in DOMAIN block : h[i] = at
      BY <3>1
    <3>6. IsFiniteSet(DOMAIN block)
      BY DEF Proper
    <3> HIDE DEF New
    <3>7. NetSum(DOMAIN block, k) = NetSum(New, f)
      BY <3>2, <3>3, <3>4, <3>5, <3>6, NetBijection
    <3>. QED BY <3>1, <3>7 DEF BlockFolded
  <2>. QED BY <1>3, <2>1, <2>3, <2>4, <2>5 DEF Folded
<1>. QED BY <1>1, <1>2, <1>6, <1>7

LEMMA BlockOfOne ==
  ASSUME NEW tx, tx.amount \in Nat
  PROVE  /\ Proper(<<tx>>)
         /\ \A address : BlockFolded(<<tx>>, address) = Moved(tx, address)
<1>1. DOMAIN <<tx>> = {1} /\ <<tx>>[1] = tx
  OBVIOUS
<1>2. Proper(<<tx>>)
  BY <1>1, FS_Singleton DEF Proper
<1>3. ASSUME NEW a
      PROVE  BlockFolded(<<tx>>, a) = Moved(tx, a)
  <2>1. PICK f : f = BlockAmounts(<<tx>>, a)
    OBVIOUS
  <2>2. f \in [{1} -> Int] /\ f[1] = Moved(tx, a)
    BY <1>1, <2>1, MovedType DEF BlockAmounts
  <2>3. NetSum({1}, f) = f[1]
    BY <2>2, NetOne, FS_Singleton
  <2>. QED BY <1>1, <2>1, <2>2, <2>3 DEF BlockFolded
<1>. QED BY <1>2, <1>3

\* What the funder and the project own before the reward is paid.
LEMMA FundedBalances ==
  ASSUME reward \in 0..MaxReward, NEW funder \in Int, funder # ProjectAddress,
         NEW spare \in 0..MaxSpare, NEW Blocks,
         <<>> \in Blocks,
         <<Mint(funder, MaxReward + MaxSpare)>> \in Blocks,
         <<Pay(funder, ProjectAddress, reward + spare)>> \in Blocks
  PROVE  LET c == Funded(funder, spare)
         IN  /\ c \in Seq(Blocks) /\ Len(c) = 3 /\ ProperChain(c)
             /\ Folded(c, ProjectAddress) = reward + spare
             /\ \A address : Folded(c, address) \in Int
             /\ \A address : address # ProjectAddress => Folded(c, address) >= 0
<1> DEFINE M  == Mint(funder, MaxReward + MaxSpare)
           P  == Pay(funder, ProjectAddress, reward + spare)
           c2 == CommitBlock(Genesis, <<M>>)
           c3 == CommitBlock(c2, <<P>>)
<1>0. MaxReward \in Nat /\ MaxSpare \in Nat
  BY LoopBoundsAssumption, PayBoundsAssumption
<1>1. /\ Genesis \in Seq(Blocks) /\ ProperChain(Genesis)
      /\ \A address : Folded(Genesis, address) = 0
  <2>1. Places(Genesis) = {}
    BY DEF Places, Genesis
  <2>2. \A address : Folded(Genesis, address) = 0
    BY <2>1, NetNone DEF Folded
  <2>3. ProperChain(Genesis)
    BY <2>1, FS_EmptySet DEF ProperChain
  <2>4. Genesis \in Seq(Blocks)
    BY DEF Genesis
  <2>. QED BY <2>2, <2>3, <2>4
<1>2. /\ M.amount \in Nat /\ P.amount \in Nat
      /\ \A a : Moved(M, a) = IF a = funder THEN MaxReward + MaxSpare ELSE 0
      /\ \A a : Moved(P, a) = (IF a = ProjectAddress THEN reward + spare ELSE 0)
                              - (IF a = funder THEN reward + spare ELSE 0)
  BY <1>0 DEF Mint, Pay, Moved, Gained, Spent
<1> HIDE DEF M, P
<1>3. /\ Proper(<<M>>) /\ \A a : BlockFolded(<<M>>, a) = Moved(M, a)
      /\ Proper(<<P>>) /\ \A a : BlockFolded(<<P>>, a) = Moved(P, a)
  BY <1>2, BlockOfOne
<1>4. <<M>> \in Blocks /\ <<P>> \in Blocks
  BY DEF M, P
<1>5. /\ c2 \in Seq(Blocks) /\ ProperChain(c2)
      /\ \A a : Folded(c2, a) = Folded(Genesis, a) + BlockFolded(<<M>>, a)
  BY <1>1, <1>3, <1>4, CommitFolds
<1>6. Len(c3) = 3
  BY DEF CommitBlock, Genesis
<1> HIDE DEF c2
<1>7. /\ c3 \in Seq(Blocks) /\ ProperChain(c3)
      /\ \A a : Folded(c3, a) = Folded(c2, a) + BlockFolded(<<P>>, a)
  BY <1>3, <1>4, <1>5, CommitFolds
<1>8. Funded(funder, spare) = c3
  BY DEF Funded, c2, M, P
<1> HIDE DEF c3
<1>9. /\ Folded(c3, ProjectAddress) = reward + spare
      /\ \A a : Folded(c3, a) \in Int
      /\ \A a : a # ProjectAddress => Folded(c3, a) >= 0
  <2>1. \A a : Folded(c3, a) = (0 + Moved(M, a)) + Moved(P, a)
    BY <1>1, <1>3, <1>5, <1>7
  <2>. QED BY <1>0, <1>2, <2>1
<1>. QED BY <1>6, <1>7, <1>8, <1>9

\* What the block of the rewards moves.
LEMMA RewardBlock ==
  ASSUME LoopInv
  PROVE  /\ Proper(RewardTxs)
         /\ \A i \in DOMAIN weights : shares[i] \in Nat
         /\ \A i \in DOMAIN weights : BlockFolded(RewardTxs, i) = shares[i]
         /\ BlockFolded(RewardTxs, ProjectAddress) = -Sum(DOMAIN weights, shares)
<1> DEFINE W == DOMAIN weights
           D == {j \in W : shares[j] > 0}
<1>1. /\ IsFiniteSet(W) /\ W \subseteq Nat /\ IsFiniteSet(D)
      /\ \A i \in W : shares[i] \in Nat
  <2>1. IsFiniteSet(W) /\ W \subseteq Nat
    BY DEF LoopInv, Weights
  <2>2. \A i \in W : BaseShare(reward, weights, i) \in Nat
    BY BaseShareBound DEF LoopInv
  <2>3. \A i \in W : shares[i] \in Nat
    BY <2>2 DEF LoopInv
  <2>4. D \in SUBSET W
    OBVIOUS
  <2>. QED BY <2>1, <2>3, <2>4, FS_Subset
<1>2. /\ DOMAIN RewardTxs = D
      /\ \A j \in D : RewardTxs[j] = Pay(ProjectAddress, j, shares[j])
  BY DEF RewardTxs
<1> HIDE DEF D
<1>3. \A j \in D : j \in W /\ shares[j] \in Nat
  BY <1>1 DEF D
<1>4. /\ \A j \in D : RewardTxs[j].amount \in Nat
      /\ \A j \in D : \A i \in W : Moved(RewardTxs[j], i) = IF j = i THEN shares[i] ELSE 0
      /\ \A j \in D : Moved(RewardTxs[j], ProjectAddress) = -shares[j]
  BY <1>1, <1>2, <1>3 DEF Pay, Moved, Gained, Spent, ProjectAddress
<1>5. Proper(RewardTxs)
  BY <1>1, <1>2, <1>4 DEF Proper
<1>6. ASSUME NEW i \in W
      PROVE  BlockFolded(RewardTxs, i) = shares[i]
  <2>1. PICK f : f = BlockAmounts(RewardTxs, i)
    OBVIOUS
  <2>2. f \in [D -> Int] /\ \A j \in D : f[j] = IF j = i THEN shares[i] ELSE 0
    BY <1>1, <1>2, <1>4, <2>1 DEF BlockAmounts
  <2>3. NetSum(D, f) = shares[i]
    <3>1. CASE i \in D
      BY <1>1, <2>2, <3>1, NetOne
    <3>2. CASE i \notin D
      <4>1. \A j \in D : f[j] = 0
        BY <2>2, <3>2
      <4>2. shares[i] = 0
        BY <1>1, <3>2 DEF D
      <4>. QED BY <4>1, <4>2, NetNone
    <3>. QED BY <3>1, <3>2
  <2>. QED BY <1>2, <2>1, <2>3 DEF BlockFolded
<1>7. BlockFolded(RewardTxs, ProjectAddress) = -Sum(W, shares)
  <2>1. PICK f, s, z : /\ f = BlockAmounts(RewardTxs, ProjectAddress)
                       /\ s = [j \in D |-> shares[j]] /\ z = [j \in D |-> 0]
    OBVIOUS
  <2>2. \A j \in D : f[j] = -shares[j]
    BY <1>2, <1>4, <2>1 DEF BlockAmounts
  <2>3. /\ [j \in D |-> Positive(f[j])] = z
        /\ [j \in D |-> Positive(-f[j])] = s
    <3>1. \A j \in D : Positive(f[j]) = 0 /\ Positive(-f[j]) = shares[j]
      BY <1>3, <2>2 DEF Positive
    <3>. QED BY <2>1, <3>1
  <2>4. NetSum(D, f) = Sum(D, z) - Sum(D, s)
    BY <2>3, Zenon DEF NetSum
  <2>5. Sum(D, z) = 0
    <3>1. {} \in SUBSET D /\ \A j \in D \ {} : z[j] = 0
      BY <2>1
    <3>2. Sum(D, z) = Sum({}, z)
      BY <3>1, SumSupport
    <3>. QED BY <3>2, SumEmpty
  <2>6. Sum(D, s) = Sum(W, shares)
    <3>1. Sum(D, s) = Sum(D, shares)
      BY <2>1, SumAgree
    <3>2. D \in SUBSET W /\ \A j \in W \ D : shares[j] = 0
      BY <1>1 DEF D
    <3>3. Sum(W, shares) = Sum(D, shares)
      BY <3>2, SumSupport
    <3>. QED BY <3>1, <3>3
  <2>7. Sum(W, shares) \in Nat
    BY <1>1, SumType
  <2>. QED BY <1>2, <2>1, <2>4, <2>5, <2>6, <2>7 DEF BlockFolded
<1>. QED BY <1>1, <1>5, <1>6, <1>7

\* The chain is the funded one, and the block that settles the task if it is one.
ChainInv ==
  /\ reward \in 0..MaxReward
  /\ \E funder \in Funders, spare \in 0..MaxSpare :
       \/ /\ chain = Funded(funder, spare)
          /\ settled => IF exhausted THEN reward = 0 ELSE DOMAIN RewardTxs = {}
       \/ /\ settled /\ exhausted
          /\ chain = CommitBlock(Funded(funder, spare), <<Burn(ProjectAddress, reward)>>)
       \/ /\ settled /\ ~exhausted
          /\ chain = CommitBlock(Funded(funder, spare), RewardTxs)

LEMMA ChainStep ==
  ASSUME ChainInv, [PayNext]_payVars
  PROVE  ChainInv'
<1>1. PICK funder \in Funders : \E spare \in 0..MaxSpare :
        \/ /\ chain = Funded(funder, spare)
           /\ settled => IF exhausted THEN reward = 0 ELSE DOMAIN RewardTxs = {}
        \/ /\ settled /\ exhausted
           /\ chain = CommitBlock(Funded(funder, spare), <<Burn(ProjectAddress, reward)>>)
        \/ /\ settled /\ ~exhausted
           /\ chain = CommitBlock(Funded(funder, spare), RewardTxs)
  BY DEF ChainInv
<1>2. PICK spare \in 0..MaxSpare :
        \/ /\ chain = Funded(funder, spare)
           /\ settled => IF exhausted THEN reward = 0 ELSE DOMAIN RewardTxs = {}
        \/ /\ settled /\ exhausted
           /\ chain = CommitBlock(Funded(funder, spare), <<Burn(ProjectAddress, reward)>>)
        \/ /\ settled /\ ~exhausted
           /\ chain = CommitBlock(Funded(funder, spare), RewardTxs)
  BY <1>1
<1>3. reward' = reward /\ weights' = weights
  BY DEF PayNext, Distribute, PayOne, PayWinners, BurnReward, vars, payVars
<1>4. /\ Funders' = Funders /\ Funded(funder, spare)' = Funded(funder, spare)
      /\ reward' \in 0..MaxReward
  BY <1>3 DEF Funders, Funded, ChainInv
<1>5. CASE Distribute
  <2>1. chain' = Funded(funder, spare) /\ ~settled'
    BY <1>2, <1>5 DEF Distribute
  <2>. QED BY <1>4, <2>1 DEF ChainInv
<1>6. CASE PayWinners
  <2>1. /\ RewardTxs' = RewardTxs /\ settled' /\ ~exhausted'
        /\ chain = Funded(funder, spare)
        /\ chain' = IF DOMAIN RewardTxs = {} THEN chain ELSE CommitBlock(chain, RewardTxs)
    BY <1>2, <1>6 DEF PayWinners, RewardTxs, vars
  <2>2. CASE DOMAIN RewardTxs = {}
    BY <1>4, <2>1, <2>2 DEF ChainInv
  <2>3. CASE DOMAIN RewardTxs # {}
    BY <1>4, <2>1, <2>3 DEF ChainInv
  <2>. QED BY <2>2, <2>3
<1>7. CASE BurnReward
  <2>1. /\ settled' /\ exhausted' /\ chain = Funded(funder, spare)
        /\ chain' = IF reward = 0 THEN chain
                    ELSE CommitBlock(chain, <<Burn(ProjectAddress, reward)>>)
    BY <1>2, <1>7 DEF BurnReward
  <2>2. CASE reward = 0
    BY <1>3, <1>4, <2>1, <2>2 DEF ChainInv
  <2>3. CASE reward # 0
    BY <1>3, <1>4, <2>1, <2>3 DEF ChainInv
  <2>. QED BY <2>2, <2>3
<1>8. CASE UNCHANGED payVars
  <2>1. RewardTxs' = RewardTxs /\ UNCHANGED <<chain, settled, exhausted>>
    BY <1>8 DEF RewardTxs, payVars, vars
  <2>. QED BY <1>2, <1>3, <1>4, <2>1 DEF ChainInv
<1>. QED BY <1>5, <1>6, <1>7, <1>8 DEF PayNext

\* The first blocks stay where they are.
LEMMA FirstBlocks ==
  ASSUME NEW Blocks, NEW c \in Seq(Blocks), NEW block \in Blocks
  PROVE  /\ SubSeq(c, 1, Len(c)) = c
         /\ SubSeq(CommitBlock(c, block), 1, Len(c)) = c
<1>1. /\ CommitBlock(c, block) \in Seq(Blocks) /\ Len(CommitBlock(c, block)) = Len(c) + 1
      /\ \A b \in 1..Len(c) : CommitBlock(c, block)[b] = c[b]
  BY DEF CommitBlock
<1>. QED BY <1>1

\* Balances after one more block are those before it and what the block moves.
LEMMA SettledBalance ==
  ASSUME NEW Blocks, NEW c \in Seq(Blocks), NEW block \in Blocks, Len(c) = 3,
         ProperChain(c), Proper(block), NEW address, NEW n \in Int,
         Folded(c, address) \in Int, Folded(c, address) >= 0,
         BlockFolded(block, address) = n, Folded(c, address) + n >= 0
  PROVE  BalanceOnChain(CommitBlock(c, block), address)
           = BalanceOnChain(SubSeq(CommitBlock(c, block), 1, 3), address) + n
<1>1. SubSeq(CommitBlock(c, block), 1, 3) = c
  BY FirstBlocks
<1>2. Folded(CommitBlock(c, block), address) = Folded(c, address) + n
  BY CommitFolds
<1>3. BalanceOnChain(CommitBlock(c, block), address) = Folded(c, address) + n
  <2>1. ~(Folded(c, address) + n < 0)
    OBVIOUS
  <2>. QED BY <1>2, <2>1, BalanceIsFold
<1>4. BalanceOnChain(c, address) = Folded(c, address)
  <2>1. ~(Folded(c, address) < 0)
    OBVIOUS
  <2>. QED BY <2>1, BalanceIsFold
<1>. QED BY <1>1, <1>3, <1>4

LEMMA ChainPays ==
  ASSUME LoopInv, ChainInv, exhausted \in BOOLEAN
  PROVE  ChainPaysShares
<1> SUFFICES ASSUME settled
             PROVE  /\ \A i \in DOMAIN weights :
                         BalanceOnChain(chain, i)
                           = FundsOf(i) + IF exhausted THEN 0 ELSE shares[i]
                    /\ BalanceOnChain(chain, ProjectAddress)
                         = FundsOf(ProjectAddress)
                           - IF exhausted THEN reward ELSE Sum(DOMAIN weights, shares)
  BY DEF ChainPaysShares
<1>1. PICK funder \in Funders : \E spare \in 0..MaxSpare :
        \/ /\ chain = Funded(funder, spare)
           /\ IF exhausted THEN reward = 0 ELSE DOMAIN RewardTxs = {}
        \/ /\ exhausted
           /\ chain = CommitBlock(Funded(funder, spare), <<Burn(ProjectAddress, reward)>>)
        \/ /\ ~exhausted
           /\ chain = CommitBlock(Funded(funder, spare), RewardTxs)
  BY DEF ChainInv
<1>2. PICK spare \in 0..MaxSpare :
        \/ /\ chain = Funded(funder, spare)
           /\ IF exhausted THEN reward = 0 ELSE DOMAIN RewardTxs = {}
        \/ /\ exhausted
           /\ chain = CommitBlock(Funded(funder, spare), <<Burn(ProjectAddress, reward)>>)
        \/ /\ ~exhausted
           /\ chain = CommitBlock(Funded(funder, spare), RewardTxs)
  BY <1>1
<1> DEFINE W      == DOMAIN weights
           burned == <<Burn(ProjectAddress, reward)>>
           Blocks == {<<>>, <<Mint(funder, MaxReward + MaxSpare)>>,
                      <<Pay(funder, ProjectAddress, reward + spare)>>, burned, RewardTxs}
<1>3. PICK c : c = Funded(funder, spare)
  OBVIOUS
<1>4. reward \in 0..MaxReward /\ reward \in Nat /\ W \subseteq Nat
      /\ MaxSpare \in Nat /\ spare \in Nat
  BY LoopBoundsAssumption, PayBoundsAssumption DEF ChainInv, LoopInv, Weights
<1>5. funder \in Int /\ funder # ProjectAddress /\ \A i \in W : i # ProjectAddress
  BY <1>4 DEF Funders, Outsider, ProjectAddress
<1>6. /\ c \in Seq(Blocks) /\ Len(c) = 3 /\ ProperChain(c)
      /\ Folded(c, ProjectAddress) = reward + spare
      /\ \A a : Folded(c, a) \in Int
      /\ \A a : a # ProjectAddress => Folded(c, a) >= 0
  <2>1. PICK B : B = Blocks
    OBVIOUS
  <2>2. /\ <<>> \in B
        /\ <<Mint(funder, MaxReward + MaxSpare)>> \in B
        /\ <<Pay(funder, ProjectAddress, reward + spare)>> \in B
    BY <2>1
  <2>3. /\ c \in Seq(B) /\ Len(c) = 3 /\ ProperChain(c)
        /\ Folded(c, ProjectAddress) = reward + spare
        /\ \A a : Folded(c, a) \in Int
        /\ \A a : a # ProjectAddress => Folded(c, a) >= 0
    BY <1>3, <1>4, <1>5, <2>2, FundedBalances
  <2>. QED BY <2>1, <2>3
<1>7. /\ Proper(RewardTxs)
      /\ \A i \in W : shares[i] \in Nat
      /\ \A i \in W : BlockFolded(RewardTxs, i) = shares[i]
      /\ BlockFolded(RewardTxs, ProjectAddress) = -Sum(W, shares)
  BY RewardBlock
<1>8. Sum(W, shares) \in Nat /\ Sum(W, shares) <= reward
  <2>1. IsFiniteSet(W)
    BY DEF LoopInv, Weights
  <2>. QED BY <1>7, <2>1, SumType, LoopPaysLess DEF NeverOverpaid
<1>9. /\ Proper(burned)
      /\ \A i \in W : BlockFolded(burned, i) = 0
      /\ BlockFolded(burned, ProjectAddress) = -reward
  <2>1. /\ Burn(ProjectAddress, reward).amount \in Nat
        /\ \A i \in W : Moved(Burn(ProjectAddress, reward), i) = 0
        /\ Moved(Burn(ProjectAddress, reward), ProjectAddress) = -reward
    BY <1>4, <1>5 DEF Burn, Moved, Gained, Spent
  <2>. QED BY <2>1, BlockOfOne
<1>10. burned \in Blocks /\ RewardTxs \in Blocks
  OBVIOUS
<1> HIDE DEF Blocks, burned, W
<1>11. \A a : BalanceOnChain(c, a) \in Int
  <2> SUFFICES ASSUME NEW a
               PROVE  BalanceOnChain(c, a) \in Int
    OBVIOUS
  <2>1. Folded(c, a) \in Int
    BY <1>6
  <2>. QED BY <2>1, BalanceIsFold
<1>12. CASE chain = c /\ IF exhausted THEN reward = 0 ELSE DOMAIN RewardTxs = {}
  <2>1. \A a : FundsOf(a) = BalanceOnChain(chain, a)
    <3>1. SubSeq(c, 1, 3) = c
      <4>1. c \in Seq(Blocks) /\ Len(c) = 3
        BY <1>6
      <4>. QED BY <1>10, <4>1, FirstBlocks
    <3>. QED BY <1>12, <3>1 DEF FundsOf
  <2>2. \A a : BalanceOnChain(chain, a) \in Int
    BY <1>6, <1>12, BalanceIsFold
  <2>3. exhausted \/ ((\A i \in W : shares[i] = 0) /\ Sum(W, shares) = 0)
    <3>1. ASSUME ~exhausted
          PROVE  (\A i \in W : shares[i] = 0) /\ Sum(W, shares) = 0
      <4>1. \A a : BlockFolded(RewardTxs, a) = 0
        <5>1. DOMAIN RewardTxs = {}
          BY <1>12, <3>1
        <5>. QED BY <5>1, NetNone DEF BlockFolded
      <4>. QED BY <1>7, <1>8, <4>1
    <3>. QED BY <3>1
  <2>. QED BY <1>4, <1>12, <2>1, <2>2, <2>3 DEF W
<1>13. CASE exhausted /\ chain = CommitBlock(c, burned)
  <2>1. ASSUME NEW i \in W
        PROVE  BalanceOnChain(chain, i) = FundsOf(i) + 0
    BY <1>5, <1>6, <1>9, <1>10, <1>13, SettledBalance DEF FundsOf
  <2>2. BalanceOnChain(chain, ProjectAddress) = FundsOf(ProjectAddress) + (-reward)
    BY <1>4, <1>6, <1>9, <1>10, <1>13, SettledBalance DEF FundsOf
  <2>3. \A a : FundsOf(a) \in Int
    <3>1. SubSeq(CommitBlock(c, burned), 1, Len(c)) = c
      <4>1. c \in Seq(Blocks) /\ Len(c) = 3
        BY <1>6
      <4>. QED BY <1>10, <4>1, FirstBlocks
    <3>2. \A a : FundsOf(a) = BalanceOnChain(c, a)
      BY <1>6, <1>13, <3>1 DEF FundsOf
    <3>. QED BY <1>11, <3>2
  <2>. QED BY <1>4, <1>13, <2>1, <2>2, <2>3 DEF W
<1>14. CASE ~exhausted /\ chain = CommitBlock(c, RewardTxs)
  <2>1. ASSUME NEW i \in W
        PROVE  BalanceOnChain(chain, i) = FundsOf(i) + shares[i]
    <3>1. /\ shares[i] \in Int /\ Folded(c, i) \in Int /\ Folded(c, i) >= 0
          /\ Folded(c, i) + shares[i] >= 0
      BY <1>5, <1>6, <1>7
    <3>. QED BY <1>6, <1>7, <1>10, <1>14, <3>1, SettledBalance DEF FundsOf
  <2>2. BalanceOnChain(chain, ProjectAddress)
          = FundsOf(ProjectAddress) + (-Sum(W, shares))
    <3>1. /\ -Sum(W, shares) \in Int /\ Folded(c, ProjectAddress) >= 0
          /\ Folded(c, ProjectAddress) + (-Sum(W, shares)) >= 0
      BY <1>4, <1>6, <1>8
    <3>. QED BY <1>6, <1>7, <1>10, <1>14, <3>1, SettledBalance DEF FundsOf
  <2>3. \A a : FundsOf(a) \in Int
    <3>1. SubSeq(CommitBlock(c, RewardTxs), 1, Len(c)) = c
      <4>1. c \in Seq(Blocks) /\ Len(c) = 3
        BY <1>6
      <4>. QED BY <1>10, <4>1, FirstBlocks
    <3>2. \A a : FundsOf(a) = BalanceOnChain(c, a)
      BY <1>6, <1>14, <3>1 DEF FundsOf
    <3>. QED BY <1>11, <3>2
  <2>. QED BY <1>8, <1>14, <2>1, <2>2, <2>3 DEF W
<1>. QED BY <1>2, <1>3, <1>12, <1>13, <1>14 DEF burned

-----------------------------------------------------------------------------
\* The results.

\* The loop of distribute_reward computes the closed form the ledger module uses.
THEOREM LoopComputesShares == PaySpec => []LoopIsShares
BY PayInvariant, LoopCloses, PTL DEF PayInv

\* No iteration hands out more than the task's reward, saturated products included.
THEOREM LoopNeverOverpays == PaySpec => []NeverOverpaid
BY PayInvariant, LoopPaysLess, PTL DEF PayInv

\* Without saturation no token of the reward stays in the escrow.
THEOREM LoopPaysInFull == PaySpec => []FullyPaid
BY PayInvariant, LoopPaysAll, PTL DEF PayInv

\* More reputation never earns less.
THEOREM LoopIsMonotone == PaySpec => []Monotone
BY PayInvariant, LoopMonotone, PTL DEF PayInv

\* No report claims more than the budget, and one that counts the operations of the
\* seconds that were bought claims the whole of it: the two roundings agree.
THEOREM ReportsFitTheBudget == PaySpec => []CostFitsBudget
<1>1. PayInv => CostFitsBudget
  BY CostIsCapped DEF PayInv, LoopInv
<1>. QED BY <1>1, PayInvariant, PTL

\* The balances folded out of the blocks are the sums the ledger module keeps: what
\* finalize_task commits pays every winner its share and takes from the escrow what
\* they gained, or the burned reward, whoever had funded the project.
THEOREM BalancesFollowShares == PaySpec => []ChainPaysShares
<1>1. PayInit => ChainInv
  BY DEF PayInit, Init, ChainInv
<1>2. ChainInv /\ [PayNext]_payVars => ChainInv'
  BY ChainStep
<1>3. PayInv /\ ChainInv => ChainPaysShares
  BY ChainPays DEF PayInv
<1>. QED BY <1>1, <1>2, <1>3, PayInvariant, PTL DEF PaySpec
=============================================================================
