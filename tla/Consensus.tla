----------------------------- MODULE Consensus ------------------------------
(***************************************************************************)
(* The block consensus (consensus.rs) as the mesh runs it (actor.rs): every *)
(* node owns an engine with a chain of operation blocks, a mempool and the *)
(* votes of the height it works on; engines gossip operations, proposals,  *)
(* votes and certificates, ask their neighbours for missing blocks, and    *)
(* choose between forks by length.                                         *)
(*                                                                         *)
(* Abstractions.  A block hash commits to the whole chain under it, so the *)
(* hash of a block is the sequence of bodies from the first block up to    *)
(* it: its length is the block's index, its front is prev_hash, and a      *)
(* chain is its head's hash.  Genesis is the empty sequence.  Certificates *)
(* are kept beside the chain because the hash does not cover them.  Nodes  *)
(* are honest: a signature is the name of its voter.  The order of the     *)
(* operations in a block is left out.                                      *)
(*   A gossiped message reaches every node of the sender's connected part  *)
(* of the mesh once (seen-set), in any order: what two nodes send overtakes *)
(* on the way, and a node floods after it has let go of its engine.  A     *)
(* message that a broken link loses is one that is never delivered.  A     *)
(* SyncRequest is answered from the neighbours' chains of that moment; its *)
(* answer then travels like any message.  A node's own key counts as seen: *)
(* relaying it would tell nobody anything new.                             *)
(***************************************************************************)
EXTENDS Integers, Sequences, FiniteSets, SequencesExt

CONSTANTS
  Nodes,          \* node keys; numbers, because rotation goes by key order
  Coordinators,   \* the nodes that persist and restore their chain
  Ops,            \* ledger operations
  Author,         \* Author[o]: the node that submits operation o
  Topology,       \* the configured links, sets of two nodes
  InitialLinks,   \* the links that are up, and known everywhere, at the start
  Restarters,     \* the nodes that may restart
  Leavers,        \* the nodes whose user may disconnect
  MaxHeight,      \* bound: block index
  MaxChanges      \* bound: connections, disconnections and restarts

ASSUME MeshAssumption ==
  /\ Nodes \subseteq Nat /\ IsFiniteSet(Nodes)
  /\ Coordinators \subseteq Nodes
  /\ Restarters \subseteq Nodes /\ Leavers \subseteq Nodes
  /\ Author \in [Ops -> Nodes]
  /\ Topology \subseteq SUBSET Nodes
  /\ \A l \in Topology : \E n, m \in Nodes : n # m /\ l = {n, m}
  /\ InitialLinks \subseteq Topology
  /\ MaxHeight \in Nat /\ MaxChanges \in Nat

VARIABLES
  chain,        \* chain[n]: bodies of n's blocks, also the hash of its head
  certs,        \* certs[n]: the voters of each of those blocks
  mempool,
  validators,   \* every validator ever learned of: verifies certificates
  active,       \* the validators quorum and rotation are computed over
  proposals,    \* hashes of the stored proposals
  votes,        \* <<hash, voter>> pairs
  voted,        \* the hashes n itself voted for
  seen,         \* operations and keys n has relayed (SeenSet)
  inbox,        \* messages on their way to n
  links,        \* the TCP links that are up
  saved,        \* the chain file of n
  stopped,      \* the nodes whose user has disconnected
  changes       \* connections, disconnections and restarts so far

engine == <<chain, certs, mempool, validators, active, proposals, votes, voted>>
vars == <<engine, seen, inbox, links, saved, stopped, changes>>

-----------------------------------------------------------------------------
\* Blocks, quorums and rotation.

Body(p, ops, q) == [proposer |-> p, ops |-> ops, quorum |-> q]
NextIndex(n) == Len(chain[n]) + 1
OpsOf(c) == UNION {c[i].ops : i \in DOMAIN c}
ProposersOf(c) == {c[i].proposer : i \in DOMAIN c}

QuorumFor(k) == (2 * k) \div 3 + 1

\* The validator at position height % n of the active set, by key.
ProposerFor(act, height) ==
  CHOOSE p \in act :
    Cardinality({q \in act : q < p}) = height % Cardinality(act)

Needed(body) == IF body.quorum < 1 THEN 1 ELSE body.quorum

Certified_Current(body, cert, known) ==                         \* mutant
  Cardinality(cert \cap known) >= QuorumFor(Cardinality(known))
\* verify_certificate, with `known` the validators of the verifier.
Certified(body, cert, known) == Cardinality(cert \cap known) >= Needed(body)

Tally(hash, vs) == {v \in Nodes : <<hash, v>> \in vs}

-----------------------------------------------------------------------------
\* The mesh.

Neighbors(n, ls) == {m \in Nodes : {n, m} \in ls /\ m # n}

\* The nodes a message of n reaches over the links ls when only the nodes of
\* `via` pass it on.
Reach(n, ls, via) ==
  LET after[i \in 0..Cardinality(Nodes)] ==
        IF i = 0 THEN Neighbors(n, ls)
        ELSE after[i - 1] \cup
               UNION {Neighbors(m, ls) : m \in after[i - 1] \cap via}
  IN  {m \in Nodes \ {n} : m \in after[Cardinality(Nodes)]}

Op(o)             == [type |-> "Op", op |-> o]
Validator(k)      == [type |-> "Validator", key |-> k]
Proposal(h)       == [type |-> "Propose", hash |-> h]
Vote(h, v)        == [type |-> "Vote", hash |-> h, voter |-> v]
Committed(h, c)   == [type |-> "Committed", hash |-> h, cert |-> c]
SyncResponse(full, p) ==
  [type |-> "SyncResponse", full |-> full, hash |-> chain[p], certs |-> certs[p]]

Flood(box, n, msgs) ==
  LET reached == Reach(n, links, Nodes)
  IN  [k \in Nodes |-> IF k \in reached THEN box[k] \cup msgs ELSE box[k]]

Unseen(x) == {k \in Nodes : x \notin seen[k]}

\* Flooding operations.  A node that has seen one ignores it, and does not pass
\* it on.
FloodOps(box, n, os) ==
  [k \in Nodes |->
     box[k] \cup {Op(o) : o \in {x \in os : k \in Reach(n, links, Unseen(x))
                                                    \cap Unseen(x)}}]

Consumed(n, msg) == [inbox EXCEPT ![n] = @ \ {msg}]

\* What the neighbours answer to SyncRequest{next_index} and SyncRequest{0}.
Blocks(n) ==
  {SyncResponse(FALSE, p) : p \in {q \in Neighbors(n, links) :
                                     Len(chain[q]) > Len(chain[n])}}
FullChains(n) ==
  {SyncResponse(TRUE, p) : p \in {q \in Neighbors(n, links) : chain[q] # <<>>}}

-----------------------------------------------------------------------------
Init ==
  /\ chain = [n \in Nodes |-> <<>>]
  /\ certs = [n \in Nodes |-> <<>>]
  /\ mempool = [n \in Nodes |-> {}]
  /\ active = [n \in Nodes |-> {n} \cup Reach(n, InitialLinks, Nodes)]
  /\ validators = active
  /\ proposals = [n \in Nodes |-> {}]
  /\ votes = [n \in Nodes |-> {}]
  /\ voted = [n \in Nodes |-> {}]
  /\ seen = active
  /\ inbox = [n \in Nodes |-> {}]
  /\ links = InitialLinks
  /\ saved = [n \in Nodes |-> [chain |-> <<>>, certs |-> <<>>]]
  /\ stopped = {}
  /\ changes = 0

-----------------------------------------------------------------------------
\* The engine.

KeptOps_All(n, ops) == mempool[n]                               \* mutant
KeptOps(n, ops) == mempool[n] \ ops

Sealing_Bare(old, new) == old                                   \* mutant
Sealing(old, new) == old \o new

\* append_and_apply of blocks certified by cs, up to the head hash h.
AppendBlocks(n, h, cs) ==
  /\ chain' = [chain EXCEPT ![n] = h]
  /\ certs' = [certs EXCEPT ![n] = Sealing(@, cs)]
  /\ mempool' = [mempool EXCEPT ![n] = KeptOps(n, OpsOf(h))]
  /\ proposals' = [proposals EXCEPT ![n] = {g \in @ : Len(g) > Len(h)}]
  /\ votes' = [votes EXCEPT ![n] = {v \in @ : Len(v[1]) > Len(h)}]
  /\ voted' = [voted EXCEPT ![n] = {g \in @ : Len(g) > Len(h)}]

KeepChain == UNCHANGED <<chain, certs, mempool>>

Sealed_AnyCount(h, ps, vs) == h \in ps                          \* mutant
Sealed(h, ps, vs) ==
  h \in ps /\ Cardinality(Tally(h, vs)) >= Needed(Last(h))

\* maybe_commit of h, at the next index, once n holds proposals ps, votes vs and
\* own votes vd; `out` is what n floods anyway.
MaybeCommit(n, h, ps, vs, vd, box, out) ==
  \/ /\ ~Sealed(h, ps, vs)
     /\ KeepChain
     /\ proposals' = [proposals EXCEPT ![n] = ps]
     /\ votes' = [votes EXCEPT ![n] = vs]
     /\ voted' = [voted EXCEPT ![n] = vd]
     /\ inbox' = Flood(box, n, out)
  \/ /\ Sealed(h, ps, vs)
     /\ AppendBlocks(n, h, <<Tally(h, vs)>>)
     /\ inbox' = Flood(box, n, out \cup {Committed(h, Tally(h, vs))})

HasVoted_Never(n, h) == FALSE                                   \* mutant
HasVoted(n, h) == \E g \in voted[n] : Len(g) = Len(h)

\* Store h, cast_vote unless n voted at this height before, maybe_commit.
VoteFor(n, h, box, out) ==
  IF HasVoted(n, h)
    THEN MaybeCommit(n, h, proposals[n] \cup {h}, votes[n], voted[n], box, out)
    ELSE MaybeCommit(n, h, proposals[n] \cup {h}, votes[n] \cup {<<h, n>>},
                     voted[n] \cup {h}, box, out \cup {Vote(h, n)})

\* add_validator of a set of keys.
Meet(n, ks) ==
  /\ validators' = [validators EXCEPT ![n] = @ \cup ks]
  /\ active' = [active EXCEPT ![n] = @ \cup ks]

FreshOp_Again(n, o) == o \notin mempool[n]                      \* mutant
\* add_to_mempool accepts an operation that is neither pending nor committed.
FreshOp(n, o) == o \notin mempool[n] /\ o \notin OpsOf(chain[n])

\* The validators that note_validator learns from a chain c with certificates cs.
Historical(c, cs) == ProposersOf(c) \cup UNION {cs[i] : i \in DOMAIN c}

\* mark_inactive: what is left of k's active set; never without k itself.
MarkInactive(k, key) == IF key = k THEN active[k] ELSE active[k] \ {key}

\* submit_local_op, and the flood of submit_and_flood.
SubmitOp(n, o) ==
  /\ n \notin stopped
  /\ Author[o] = n
  /\ FreshOp(n, o)
  /\ mempool' = [mempool EXCEPT ![n] = @ \cup {o}]
  /\ seen' = [seen EXCEPT ![n] = @ \cup {o}]
  /\ inbox' = FloodOps(inbox, n, {o})
  /\ UNCHANGED <<chain, certs, validators, active, proposals, votes, voted,
                 links, saved, stopped, changes>>

\* The round timer: try_propose.
Propose(n) ==
  LET height == NextIndex(n)
      h == Append(chain[n],
                  Body(n, mempool[n], QuorumFor(Cardinality(active[n]))))
  IN  /\ n \notin stopped
      /\ height <= MaxHeight
      /\ ProposerFor(active[n], height) = n
      /\ mempool[n] # {}
      /\ \A g \in proposals[n] : ~(Len(g) = height /\ Last(g).proposer = n)
      /\ VoteFor(n, h, inbox, {Proposal(h)})
      /\ UNCHANGED <<validators, active, seen, links, saved, stopped, changes>>

\* The round timer of a coordinator saves a chain whose length changed.
SaveDue(n) == n \in Coordinators /\ Len(chain[n]) # Len(saved[n].chain)

Persist(n) ==
  /\ n \notin stopped
  /\ SaveDue(n)
  /\ saved' = [saved EXCEPT ![n] = [chain |-> chain[n], certs |-> certs[n]]]
  /\ UNCHANGED <<engine, seen, inbox, links, stopped, changes>>

\* The sync timer: ask for the missing blocks and flood the mempool again.
SyncRound(n) ==
  LET box == [inbox EXCEPT ![n] = @ \cup Blocks(n)]
  IN  /\ n \notin stopped
      /\ inbox' = FloodOps(box, n, mempool[n])
      /\ inbox' # inbox
      /\ UNCHANGED <<engine, seen, links, saved, stopped, changes>>

-----------------------------------------------------------------------------
\* on_message.

ReceiveOp(n, msg) ==
  /\ msg.type = "Op"
  /\ seen' = [seen EXCEPT ![n] = @ \cup {msg.op}]
  /\ mempool' = [mempool EXCEPT ![n] =
                   @ \cup {o \in {msg.op} \ seen[n] : FreshOp(n, o)}]
  /\ inbox' = Consumed(n, msg)
  /\ UNCHANGED <<chain, certs, validators, active, proposals, votes, voted,
                 links, saved, stopped, changes>>

\* P2pMessage::Validator, membership gossip.
ReceiveValidator(n, msg) ==
  /\ msg.type = "Validator"
  /\ seen' = [seen EXCEPT ![n] = @ \cup {msg.key}]
  /\ Meet(n, {msg.key} \ seen[n])
  /\ inbox' = Consumed(n, msg)
  /\ UNCHANGED <<chain, certs, mempool, proposals, votes, voted, links, saved,
                 stopped, changes>>

\* The proposal extends n's head and comes from the proposer of its height.
Acceptable(n, h) ==
  /\ Len(h) = NextIndex(n)
  /\ Front(h) = chain[n]
  /\ ProposerFor(active[n] \cup {Last(h).proposer}, Len(h)) = Last(h).proposer

ReceivePropose(n, msg) ==
  /\ msg.type = "Propose"
  /\ Meet(n, {Last(msg.hash).proposer})
  /\ \/ /\ Acceptable(n, msg.hash)
        /\ VoteFor(n, msg.hash, Consumed(n, msg), {})
     \/ /\ ~Acceptable(n, msg.hash)
        /\ inbox' = [Consumed(n, msg) EXCEPT
                       ![n] = @ \cup IF Len(msg.hash) > NextIndex(n)
                                       THEN Blocks(n) ELSE {}]
        /\ KeepChain
        /\ UNCHANGED <<proposals, votes, voted>>
  /\ UNCHANGED <<seen, links, saved, stopped, changes>>

ReceiveVote(n, msg) ==
  LET h  == msg.hash
      vs == votes[n] \cup {<<h, msg.voter>>}
  IN  /\ msg.type = "Vote"
      /\ Meet(n, {msg.voter})
      /\ \/ /\ Len(h) < NextIndex(n)
            /\ inbox' = Consumed(n, msg)
            /\ KeepChain
            /\ UNCHANGED <<proposals, votes, voted>>
         \/ /\ Len(h) = NextIndex(n)
            /\ MaybeCommit(n, h, proposals[n], vs, voted[n],
                           Consumed(n, msg), {})
         \/ /\ Len(h) > NextIndex(n)
            /\ votes' = [votes EXCEPT ![n] = vs]
            /\ inbox' = Consumed(n, msg)
            /\ KeepChain
            /\ UNCHANGED <<proposals, voted>>
      /\ UNCHANGED <<seen, links, saved, stopped, changes>>

\* A certificate for the next block, for a block of another branch, or for one
\* further ahead.
ReceiveCommitted(n, msg) ==
  LET h == msg.hash
      known == validators[n] \cup {Last(h).proposer}
      next == Len(h) = NextIndex(n) /\ Front(h) = chain[n]
      fork == \/ Len(h) < NextIndex(n) /\ h # SubSeq(chain[n], 1, Len(h))
              \/ Len(h) = NextIndex(n) /\ Front(h) # chain[n]
      ahead == Len(h) > NextIndex(n)
      taken == next /\ Certified(Last(h), msg.cert, known)
  IN  /\ msg.type = "Committed"
      /\ Meet(n, {Last(h).proposer})
      /\ inbox' = [Consumed(n, msg) EXCEPT
                     ![n] = @ \cup IF fork THEN FullChains(n)
                                   ELSE IF ahead THEN Blocks(n) ELSE {}]
      /\ \/ taken /\ AppendBlocks(n, h, <<msg.cert>>)
         \/ ~taken /\ KeepChain /\ UNCHANGED <<proposals, votes, voted>>
      /\ UNCHANGED <<seen, links, saved, stopped, changes>>

\* The heights up to which a response continues n's chain with certified blocks.
Linked(n, msg) ==
  {k \in NextIndex(n)..Len(msg.hash) :
     /\ IsPrefix(chain[n], msg.hash)
     /\ \A i \in NextIndex(n)..k :
          Certified(msg.hash[i], msg.certs[i], validators[n])}

\* apply_sync_blocks of a partial response: the longest run of such blocks, and a
\* request for the whole chain if there is none.
ReceiveBlocks(n, msg) ==
  /\ msg.type = "SyncResponse" /\ ~msg.full
  /\ \/ \E k \in Linked(n, msg) :
          /\ \A j \in Linked(n, msg) : j <= k
          /\ AppendBlocks(n, SubSeq(msg.hash, 1, k),
                          SubSeq(msg.certs, NextIndex(n), k))
          /\ inbox' = Consumed(n, msg)
     \/ /\ Linked(n, msg) = {}
        /\ inbox' = [Consumed(n, msg) EXCEPT
                       ![n] = @ \cup IF Len(msg.hash) >= NextIndex(n)
                                       THEN FullChains(n) ELSE {}]
        /\ KeepChain
        /\ UNCHANGED <<proposals, votes, voted>>
  /\ UNCHANGED <<validators, active, seen, links, saved, stopped, changes>>

Better_AsLong(n, c) == Len(c) >= Len(chain[n])                  \* mutant
Better(n, c) == Len(c) > Len(chain[n])

\* try_adopt_chain: a strictly longer certified chain replaces n's own.
ReceiveFullChain(n, msg) ==
  LET c == msg.hash
      known == validators[n] \cup Historical(c, msg.certs)
      adopted == /\ \A i \in DOMAIN c : Certified(c[i], msg.certs[i], known)
                 /\ Better(n, c)
  IN  /\ msg.type = "SyncResponse" /\ msg.full
      /\ validators' = [validators EXCEPT ![n] = known]
      /\ inbox' = Consumed(n, msg)
      /\ \/ /\ adopted
            /\ chain' = [chain EXCEPT ![n] = c]
            /\ certs' = [certs EXCEPT ![n] = msg.certs]
            /\ mempool' = [mempool EXCEPT ![n] = KeptOps(n, OpsOf(c))]
            /\ proposals' = [proposals EXCEPT ![n] = {}]
            /\ votes' = [votes EXCEPT ![n] = {}]
            /\ voted' = [voted EXCEPT ![n] = {}]
         \/ ~adopted /\ KeepChain /\ UNCHANGED <<proposals, votes, voted>>
      /\ UNCHANGED <<active, seen, links, saved, stopped, changes>>

Receive(n, msg) ==
  \/ ReceiveOp(n, msg)
  \/ ReceiveValidator(n, msg)
  \/ ReceivePropose(n, msg)
  \/ ReceiveVote(n, msg)
  \/ ReceiveCommitted(n, msg)
  \/ ReceiveBlocks(n, msg)
  \/ ReceiveFullChain(n, msg)

Deliver(n) == \E msg \in inbox[n] : Receive(n, msg)

-----------------------------------------------------------------------------
\* Links and restarts.

\* The nodes that take x up when it is sent to b.
Takers(x, b) ==
  Unseen(x) \cap
    ({b} \cup IF x \in seen[b] THEN {} ELSE Reach(b, links, Unseen(x)))

\* What node k gets when a handles the Hello of b: a passes b the validators and
\* the operations it has, announces b to its own side, and asks b for blocks.
HelloTo(k, a, b) ==
  {Validator(x) : x \in {y \in active[a] \cup {b} : k \in Takers(y, b)}}
    \cup {Validator(x) : x \in {y \in {b} :
            k \in Unseen(b) \cap Reach(a, links, Unseen(b))}}
    \cup {Op(o) : o \in {x \in mempool[a] : k \in Takers(x, b)}}
    \cup {SyncResponse(FALSE, p) : p \in {q \in {b} :
            k = a /\ Len(chain[q]) > Len(chain[k])}}

\* A configured link comes up, for the first time or again.
Connect(n, m) ==
  /\ {n, m} \in Topology \ links
  /\ n \notin stopped /\ m \notin stopped
  /\ changes < MaxChanges
  /\ changes' = changes + 1
  /\ links' = links \cup {{n, m}}
  /\ validators' = [validators EXCEPT ![n] = @ \cup {m}, ![m] = @ \cup {n}]
  /\ active' = [active EXCEPT ![n] = @ \cup {m}, ![m] = @ \cup {n}]
  /\ inbox' = [k \in Nodes |->
                 inbox[k] \cup HelloTo(k, n, m) \cup HelloTo(k, m, n)]
  /\ UNCHANGED <<chain, certs, mempool, proposals, votes, voted, seen, saved,
                 stopped>>

\* A link goes down: mark_inactive at both ends.
Disconnect(n, m) ==
  /\ {n, m} \in links
  /\ changes < MaxChanges
  /\ changes' = changes + 1
  /\ links' = links \ {{n, m}}
  /\ active' = [active EXCEPT ![n] = MarkInactive(n, m), ![m] = MarkInactive(m, n)]
  /\ UNCHANGED <<chain, certs, mempool, validators, proposals, votes, voted,
                 seen, inbox, saved, stopped>>

\* The user disconnects: the node's loop ends after a last save.  Its connection
\* tasks run on, with the engine, until their links break.
Stop(n) ==
  /\ n \in Leavers \ stopped
  /\ stopped' = stopped \cup {n}
  /\ saved' = IF n \in Coordinators
                THEN [saved EXCEPT ![n] = [chain |-> chain[n], certs |-> certs[n]]]
                ELSE saved
  /\ UNCHANGED <<engine, seen, inbox, links, changes>>

\* A save may be under way: one that is due, or the one of a user who disconnects.
Saving(n) == n \notin stopped /\ (SaveDue(n) \/ n \in Coordinators \cap Leavers)

\* What restore_chain finds: the last chain file, or nothing when the restart
\* cut a save short and left a file load_chain cannot read.
Restorable(n) ==
  {saved[n]} \cup IF Saving(n) THEN {[chain |-> <<>>, certs |-> <<>>]} ELSE {}

\* restore_chain: the blocks of the file, and the validators they name.
RestoreChain(n, file) ==
  /\ chain' = [chain EXCEPT ![n] = file.chain]
  /\ certs' = [certs EXCEPT ![n] = file.certs]
  /\ validators' = [validators EXCEPT ![n] =
                      {n} \cup Historical(file.chain, file.certs)]

\* n stops and starts again with its identity and its chain file, nothing else.
Restart(n) ==
  /\ n \in Restarters
  /\ changes < MaxChanges
  /\ changes' = changes + 1
  /\ \E file \in Restorable(n) :
       /\ saved' = [saved EXCEPT ![n] = file]
       /\ RestoreChain(n, file)
  /\ active' = [k \in Nodes |-> IF k = n THEN {n}
                                ELSE IF {k, n} \in links THEN MarkInactive(k, n)
                                ELSE active[k]]
  /\ mempool' = [mempool EXCEPT ![n] = {}]
  /\ proposals' = [proposals EXCEPT ![n] = {}]
  /\ votes' = [votes EXCEPT ![n] = {}]
  /\ voted' = [voted EXCEPT ![n] = {}]
  /\ seen' = [seen EXCEPT ![n] = {n}]
  /\ inbox' = [inbox EXCEPT ![n] = {}]
  /\ links' = {l \in links : n \notin l}
  /\ stopped' = stopped \ {n}

Next ==
  \/ \E o \in Ops : SubmitOp(Author[o], o)
  \/ \E n \in Nodes : Propose(n)
  \/ \E n \in Nodes : Persist(n)
  \/ \E n \in Nodes : SyncRound(n)
  \/ \E n \in Nodes : Deliver(n)
  \/ \E n, m \in Nodes : Connect(n, m)
  \/ \E n, m \in Nodes : Disconnect(n, m)
  \/ \E n \in Nodes : Stop(n)
  \/ \E n \in Nodes : Restart(n)

Spec == Init /\ [][Next]_vars

\* The timers of a node fire and what reached it is handled; the answers that a
\* sync timer keeps asking for do not hold up a whole chain for ever.
Fairness ==
  \A n \in Nodes :
    /\ WF_vars(Propose(n))
    /\ WF_vars(SyncRound(n))
    /\ WF_vars(Deliver(n))
    /\ WF_vars(\E msg \in inbox[n] : ReceiveFullChain(n, msg))

FairSpec == Spec /\ Fairness

-----------------------------------------------------------------------------
\* What the consensus promises.

Bodies == [proposer : Nodes, ops : SUBSET Ops, quorum : Nat]
Chains == Seq(Bodies)
Hashes == Chains \ {<<>>}
Certs  == Seq(SUBSET Nodes)
Answers ==
  {m \in [type : {"SyncResponse"}, full : BOOLEAN, hash : Chains, certs : Certs] :
     Len(m.certs) = Len(m.hash)}
Messages ==
  [type : {"Op"}, op : Ops] \cup [type : {"Validator"}, key : Nodes]
    \cup [type : {"Propose"}, hash : Hashes]
    \cup [type : {"Vote"}, hash : Hashes, voter : Nodes]
    \cup [type : {"Committed"}, hash : Hashes, cert : SUBSET Nodes]
    \cup Answers

\* Every variable has the shape its Rust type gives it.
TypeOK ==
  /\ chain \in [Nodes -> Chains]
  /\ certs \in [Nodes -> Certs]
  /\ \A n \in Nodes : Len(certs[n]) = Len(chain[n])
  /\ mempool \in [Nodes -> SUBSET Ops]
  /\ validators \in [Nodes -> SUBSET Nodes]
  /\ active \in [Nodes -> SUBSET Nodes]
  /\ \A n \in Nodes : n \in active[n] /\ active[n] \subseteq validators[n]
  /\ proposals \in [Nodes -> SUBSET Hashes]
  /\ votes \in [Nodes -> SUBSET (Hashes \X Nodes)]
  /\ voted \in [Nodes -> SUBSET Hashes]
  /\ seen \in [Nodes -> SUBSET (Ops \cup Nodes)]
  /\ inbox \in [Nodes -> SUBSET Messages]
  /\ links \subseteq Topology
  /\ saved \in [Nodes -> [chain : Chains, certs : Certs]]
  /\ \A n \in Nodes : Len(saved[n].certs) = Len(saved[n].chain)
  /\ stopped \subseteq Leavers
  /\ changes \in 0..MaxChanges

\* Whatever joins, leaves, forks or restarts, a block is in a chain only with the
\* votes of as many distinct nodes as its proposer fixed.
ChainsAreCertified ==
  \A n \in Nodes : \A i \in DOMAIN chain[n] :
    Cardinality(certs[n][i]) >= Needed(chain[n][i])

\* An operation is applied at most once by a replica, and one that is applied
\* waits in its mempool no more, across gossip, catch-up, reorganisation and
\* restart.  A replica that applied one twice would pay twice.
OpsCommitOnce ==
  \A n \in Nodes :
    /\ mempool[n] \cap OpsOf(chain[n]) = {}
    /\ \A i, j \in DOMAIN chain[n] :
         i # j => chain[n][i].ops \cap chain[n][j].ops = {}

\* Nodes that join, leave and partition can seal different blocks at one height,
\* but no node signs both unless it restarts: forgetting its votes when it appends
\* a block or adopts a longer chain never lets a node vote again.
ForksShareNoVoter ==
  \A n, m \in Nodes : \A i \in DOMAIN chain[n] \cap DOMAIN chain[m] :
    SubSeq(chain[n], 1, i) # SubSeq(chain[m], 1, i) =>
      certs[n][i] \cap certs[m][i] \subseteq Restarters

\* So two blocks that conflict were proposed with quorums that together fit the
\* mesh, but for the nodes that restart: nodes that see more than half of it never
\* seal different blocks.
ConflictsNeedSmallQuorums ==
  \A n, m \in Nodes : \A i \in DOMAIN chain[n] \cap DOMAIN chain[m] :
    SubSeq(chain[n], 1, i) # SubSeq(chain[m], 1, i) =>
      Needed(chain[n][i]) + Needed(chain[m][i])
        <= Cardinality(Nodes) + Cardinality(Restarters)

\* A sealed block is given up only for a strictly longer chain, and only a
\* restart makes a chain shorter.
OnlyLongerChainsReplace ==
  [][\A n \in Nodes :
       \/ IsPrefix(chain[n], chain'[n])
       \/ Len(chain'[n]) > Len(chain[n])
       \/ seen'[n] = {n}]_vars

\* No node stays behind while the links are up and its user stays: whether it
\* missed messages, sits on a shorter fork or restarted from genesis, it reaches
\* every height another node has reached, also if that one's user has left.
LaggardsCatchUp ==
  \A n, m \in Nodes : \A k \in 1..MaxHeight :
    (links = Topology /\ n \notin stopped /\ Len(chain[m]) >= k)
      ~> (links # Topology \/ n \in stopped \/ Len(chain[n]) >= k)

-----------------------------------------------------------------------------
\* While membership is stable the engines implement one replicated log.

Longest == CHOOSE n \in Nodes : \A m \in Nodes : Len(chain[m]) <= Len(chain[n])

Log == INSTANCE ReplicatedLog WITH
  Replicas <- Nodes,
  Bodies   <- [proposer : Nodes, ops : SUBSET Ops,
               quorum : 1..QuorumFor(Cardinality(Nodes))],
  OpsOf    <- LAMBDA b : b.ops,
  log      <- chain[Longest],
  replica  <- chain

ImplementsLog == Log!Spec

-----------------------------------------------------------------------------
\* What the repository says of the consensus and the code does not do.

\* "A solo node keeps an active set of one and can still make progress": no node
\* stays alone for ever with operations to commit.
SoloProgress ==
  \A n \in Nodes :
    ~<>[](Neighbors(n, links) = {} /\ mempool[n] # {} /\ Len(chain[n]) < MaxHeight)

\* "an offline node neither inflates the quorum nor holds a proposer slot hostage":
\* no node waits for ever, with operations to commit, for the proposal of one whose
\* user has disconnected.
NoHostageSlot ==
  \A n, m \in Nodes :
    ~<>[](/\ m \in stopped /\ n \notin stopped
          /\ mempool[n] # {}
          /\ Len(chain[n]) < MaxHeight
          /\ ProposerFor(active[n], NextIndex(n)) = m)

=============================================================================
