----------------------------- MODULE TokenSums ------------------------------
(***************************************************************************)
(* Sums of natural amounts over finite sets, as the ledger takes them with *)
(* `.sum()` over rewards, weights and shares.  A sum is the number of unit *)
(* tokens in play: f[s] of them belong to s.  Counting tokens instead of   *)
(* recursing over the set makes every law of sums provable from the        *)
(* library's facts about cardinality (module RewardsProofs).               *)
(***************************************************************************)
EXTENDS Integers, FiniteSets

\* The unit tokens f gives to the members of S.
Tokens(S, f) == UNION {{s} \X (1..f[s]) : s \in S}

\* The sum of f over S, for f[s] \in Nat.
Sum(S, f) == Cardinality(Tokens(S, f))

\* The sum of f over S, for f[s] \in Int: what is owned less what is owed.
Positive(n) == IF n > 0 THEN n ELSE 0
NetSum(S, f) ==
  Sum(S, [s \in S |-> Positive(f[s])]) - Sum(S, [s \in S |-> Positive(-f[s])])

=============================================================================
