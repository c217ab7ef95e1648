--------------------------- MODULE ReplicatedLog ----------------------------
(***************************************************************************)
(* What the block consensus promises its nodes while membership is stable  *)
(* (the header of consensus.rs): there is one log of blocks, every replica *)
(* holds a prefix of it, and an operation is in the log at most once.      *)
(***************************************************************************)
EXTENDS Naturals, Sequences

CONSTANTS Replicas, Bodies, OpsOf(_)

VARIABLES log, replica

vars == <<log, replica>>

Init ==
  /\ log = <<>>
  /\ replica = [n \in Replicas |-> <<>>]

\* A replica that holds the whole log seals the next block.
Seal(n, b) ==
  /\ replica[n] = log
  /\ OpsOf(b) # {}
  /\ \A i \in DOMAIN log : OpsOf(log[i]) \cap OpsOf(b) = {}
  /\ log' = Append(log, b)
  /\ replica' = [replica EXCEPT ![n] = log']

\* A replica that lags learns some of the blocks it misses.
CatchUp(n) ==
  /\ \E k \in Len(replica[n]) + 1 .. Len(log) :
       replica' = [replica EXCEPT ![n] = SubSeq(log, 1, k)]
  /\ UNCHANGED log

Next ==
  \E n \in Replicas : CatchUp(n) \/ \E b \in Bodies : Seal(n, b)

Spec == Init /\ [][Next]_vars

=============================================================================
