---------------------------- MODULE MCConsensus -----------------------------
(* The finite instances of Consensus that TLC checks. *)
EXTENDS Consensus

CONSTANTS a, b

\* Coordinator 2 relays for the workers 1 and 3; a worker and its coordinator.
Star == {{1, 2}, {2, 3}}
Pair == {{1, 2}}

AuthorOf == [o \in Ops |-> IF o = a THEN 1 ELSE 2]

\* While membership is stable a message about a block its receiver already holds
\* changes nothing when it arrives: states that differ in such messages only are
\* one state.
Stale(n, msg) ==
  msg.type \in {"Propose", "Vote", "Committed"} /\ Len(msg.hash) <= Len(chain[n])

StableView ==
  <<engine, seen, [n \in Nodes |-> {msg \in inbox[n] : ~Stale(n, msg)}]>>
=============================================================================
