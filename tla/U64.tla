-------------------------------- MODULE U64 ---------------------------------
(***************************************************************************)
(* The saturating arithmetic of u64, in which rewards and costs are        *)
(* computed.                                                               *)
(***************************************************************************)
EXTENDS Integers

CONSTANT MaxU64      \* the largest u64; a small value lets products saturate

ASSUME MaxU64Assumption == MaxU64 \in Nat \ {0}

Saturated(n) == IF n > MaxU64 THEN MaxU64 ELSE n

SatAdd(a, b) == Saturated(a + b)
SatMul(a, b) == Saturated(a * b)
SatSub(a, b) == IF a >= b THEN a - b ELSE 0

=============================================================================
