--------------------------- MODULE ConsensusTypes ---------------------------
(***************************************************************************)
(* Type correctness of the block consensus, and what its actions do to the *)
(* sequences they handle.                                                  *)
(***************************************************************************)
EXTENDS Consensus, SequenceTheorems, FiniteSetTheorems, TLAPS

-----------------------------------------------------------------------------
\* Hashes and messages.

\* A hash is a non-empty chain: it has a last body, and a chain under it.
LEMMA HashParts ==
  ASSUME NEW h \in Hashes
  PROVE  /\ h \in Chains /\ Len(h) \in Nat \ {0}
         /\ Last(h) \in Bodies /\ Last(h).proposer \in Nodes
         /\ Front(h) \in Chains /\ Len(Front(h)) = Len(h) - 1
<1>1. h \in Chains /\ h # <<>>
  BY DEF Hashes
<1>2. Len(h) \in Nat \ {0}
  BY <1>1, EmptySeq DEF Chains
<1>3. \A i \in 1..Len(h) : h[i] \in Bodies
  BY <1>1, ElementOfSeq DEF Chains
<1>4. Last(h) \in Bodies
  BY <1>2, <1>3 DEF Last
<1>5. \A i \in 1..(Len(h) - 1) : h[i] \in Bodies
  BY <1>2, <1>3
<1>6. /\ SubSeq(h, 1, Len(h) - 1) \in Seq(Bodies)
      /\ Len(SubSeq(h, 1, Len(h) - 1)) =
           IF 1 <= Len(h) - 1 THEN Len(h) - 1 - 1 + 1 ELSE 0
  BY <1>2, <1>5, SubSeqProperties
<1>7. Front(h) \in Chains /\ Len(Front(h)) = Len(h) - 1
  <2> DEFINE f == SubSeq(h, 1, Len(h) - 1)
  <2>1. Front(h) = f
    BY DEF Front
  <2>2. f \in Chains /\ Len(f) = IF 1 <= Len(h) - 1 THEN Len(h) - 1 - 1 + 1 ELSE 0
    BY <1>6 DEF Chains
  <2> HIDE DEF f
  <2>. QED BY <1>2, <2>1, <2>2
<1>8. Last(h).proposer \in Nodes
  BY <1>4 DEF Bodies
<1>. QED BY <1>1, <1>2, <1>4, <1>7, <1>8

\* The blocks of a chain, its proposers and its operations.
LEMMA ChainParts ==
  ASSUME NEW c \in Chains
  PROVE  /\ Len(c) \in Nat /\ DOMAIN c = 1..Len(c)
         /\ \A i \in DOMAIN c : c[i] \in Bodies
         /\ ProposersOf(c) \subseteq Nodes
         /\ OpsOf(c) \subseteq Ops
<1>1. Len(c) \in Nat /\ DOMAIN c = 1..Len(c)
  BY LenProperties DEF Chains
<1>2. \A i \in DOMAIN c : c[i] \in Bodies
  BY <1>1, ElementOfSeq DEF Chains
<1>3. \A i \in DOMAIN c : c[i].proposer \in Nodes /\ c[i].ops \subseteq Ops
  BY <1>2 DEF Bodies
<1>. QED BY <1>1, <1>2, <1>3 DEF ProposersOf, OpsOf

LEMMA CertParts ==
  ASSUME NEW cs \in Certs
  PROVE  /\ Len(cs) \in Nat /\ DOMAIN cs = 1..Len(cs)
         /\ \A i \in 1..Len(cs) : cs[i] \subseteq Nodes
<1>1. Len(cs) \in Nat /\ DOMAIN cs = 1..Len(cs)
  BY LenProperties DEF Certs
<1>2. \A i \in 1..Len(cs) : cs[i] \in SUBSET Nodes
  BY ElementOfSeq DEF Certs
<1>. QED BY <1>1, <1>2

\* A beginning of a chain is a chain.
LEMMA PrefixIsChain ==
  ASSUME NEW c \in Chains, NEW k \in 0..Len(c)
  PROVE  SubSeq(c, 1, k) \in Chains /\ Len(SubSeq(c, 1, k)) = k
<1>1. k \in Int /\ 1 \in Int /\ \A i \in 1..k : c[i] \in Bodies
  BY ChainParts
<1>2. /\ SubSeq(c, 1, k) \in Seq(Bodies)
      /\ Len(SubSeq(c, 1, k)) = IF 1 <= k THEN k - 1 + 1 ELSE 0
  BY <1>1, SubSeqProperties
<1>. QED BY <1>2 DEF Chains

LEMMA MessageParts ==
  ASSUME NEW m \in Messages
  PROVE  /\ m.type = "Op" => m.op \in Ops
         /\ m.type = "Validator" => m.key \in Nodes
         /\ m.type = "Propose" => m.hash \in Hashes
         /\ m.type = "Vote" => m.hash \in Hashes /\ m.voter \in Nodes
         /\ m.type = "Committed" => m.hash \in Hashes /\ m.cert \subseteq Nodes
         /\ m.type = "SyncResponse" =>
              /\ m.full \in BOOLEAN
              /\ m.hash \in Chains /\ m.certs \in Certs
              /\ Len(m.certs) = Len(m.hash)
BY DEF Messages, Answers

LEMMA MessagesSent ==
  /\ \A o \in Ops : Op(o) \in Messages
  /\ \A k \in Nodes : Validator(k) \in Messages
  /\ \A h \in Hashes : Proposal(h) \in Messages
  /\ \A h \in Hashes, v \in Nodes : Vote(h, v) \in Messages
  /\ \A h \in Hashes, c \in SUBSET Nodes : Committed(h, c) \in Messages
BY DEF Messages, Op, Validator, Proposal, Vote, Committed

-----------------------------------------------------------------------------
\* Type correctness.

BlockTypes ==
  /\ chain \in [Nodes -> Chains]
  /\ certs \in [Nodes -> Certs]
  /\ \A n \in Nodes : Len(certs[n]) = Len(chain[n])
  /\ mempool \in [Nodes -> SUBSET Ops]
  /\ proposals \in [Nodes -> SUBSET Hashes]
  /\ votes \in [Nodes -> SUBSET (Hashes \X Nodes)]
  /\ voted \in [Nodes -> SUBSET Hashes]

MemberTypes ==
  /\ validators \in [Nodes -> SUBSET Nodes]
  /\ active \in [Nodes -> SUBSET Nodes]
  /\ \A n \in Nodes : n \in active[n] /\ active[n] \subseteq validators[n]

InboxType == inbox \in [Nodes -> SUBSET Messages]

RestTypes ==
  /\ seen \in [Nodes -> SUBSET (Ops \cup Nodes)]
  /\ links \subseteq Topology
  /\ saved \in [Nodes -> [chain : Chains, certs : Certs]]
  /\ \A n \in Nodes : Len(saved[n].certs) = Len(saved[n].chain)
  /\ stopped \subseteq Leavers
  /\ changes \in 0..MaxChanges

LEMMA TypeParts == TypeOK <=> BlockTypes /\ MemberTypes /\ InboxType /\ RestTypes
BY DEF TypeOK, BlockTypes, MemberTypes, InboxType, RestTypes

LEMMA TypePartsNext ==
  ASSUME BlockTypes', MemberTypes', InboxType', RestTypes'
  PROVE  TypeOK'
BY DEF TypeOK, BlockTypes, MemberTypes, InboxType, RestTypes

LEMMA BlocksSent ==
  ASSUME TypeOK, NEW n \in Nodes
  PROVE  Blocks(n) \subseteq Messages /\ FullChains(n) \subseteq Messages
<1>1. \A full \in BOOLEAN, p \in Nodes : SyncResponse(full, p) \in Messages
  <2> SUFFICES ASSUME NEW full \in BOOLEAN, NEW p \in Nodes
               PROVE  SyncResponse(full, p) \in Messages
    OBVIOUS
  <2>1. chain[p] \in Chains /\ certs[p] \in Certs /\ Len(certs[p]) = Len(chain[p])
    BY DEF TypeOK
  <2>. QED BY <2>1 DEF SyncResponse, Messages, Answers
<1>2. Neighbors(n, links) \subseteq Nodes
  BY DEF Neighbors
<1>. QED BY <1>1, <1>2 DEF Blocks, FullChains

LEMMA ReachType ==
  ASSUME NEW n, NEW ls, NEW via
  PROVE  Reach(n, ls, via) \subseteq Nodes \ {n}
BY DEF Reach

LEMMA FloodType ==
  ASSUME NEW n \in Nodes, NEW box \in [Nodes -> SUBSET Messages],
         NEW msgs \in SUBSET Messages
  PROVE  Flood(box, n, msgs) \in [Nodes -> SUBSET Messages]
BY DEF Flood

LEMMA FloodOpsType ==
  ASSUME NEW n \in Nodes, NEW box \in [Nodes -> SUBSET Messages],
         NEW os \in SUBSET Ops
  PROVE  FloodOps(box, n, os) \in [Nodes -> SUBSET Messages]
BY MessagesSent DEF FloodOps

LEMMA ConsumedType ==
  ASSUME TypeOK, NEW n \in Nodes, NEW msg
  PROVE  Consumed(n, msg) \in [Nodes -> SUBSET Messages]
BY DEF TypeOK, Consumed

LEMMA TallyType ==
  ASSUME NEW h, NEW vs
  PROVE  Tally(h, vs) \in SUBSET Nodes
BY DEF Tally

\* Appending certified blocks keeps chain and certificates equally long.
LEMMA AppendTypes ==
  ASSUME TypeOK, NEW n \in Nodes, NEW h \in Hashes, NEW cs \in Certs,
         Len(h) = Len(chain[n]) + Len(cs), AppendBlocks(n, h, cs)
  PROVE  BlockTypes'
<1>1. certs[n] \in Certs /\ Len(certs[n]) = Len(chain[n])
  BY DEF TypeOK
<1>2. certs[n] \o cs \in Certs /\ Len(certs[n] \o cs) = Len(h)
  <2>1. certs[n] \in Seq(SUBSET Nodes) /\ cs \in Seq(SUBSET Nodes)
    BY <1>1 DEF Certs
  <2>2. /\ certs[n] \o cs \in Seq(SUBSET Nodes)
        /\ Len(certs[n] \o cs) = Len(certs[n]) + Len(cs)
    BY <2>1, ConcatProperties
  <2>. QED BY <1>1, <2>2 DEF Certs
<1>3. h \in Chains
  BY HashParts
<1>4. chain' \in [Nodes -> Chains] /\ certs' \in [Nodes -> Certs]
  BY <1>2, <1>3 DEF AppendBlocks, Sealing, TypeOK
<1>5. \A m \in Nodes : Len(certs'[m]) = Len(chain'[m])
  BY <1>2 DEF AppendBlocks, Sealing, TypeOK
<1>6. mempool' \in [Nodes -> SUBSET Ops]
  BY DEF AppendBlocks, KeptOps, TypeOK
<1>7. proposals' \in [Nodes -> SUBSET Hashes] /\ voted' \in [Nodes -> SUBSET Hashes]
  BY DEF AppendBlocks, TypeOK
<1>8. votes' \in [Nodes -> SUBSET (Hashes \X Nodes)]
  BY DEF AppendBlocks, TypeOK
<1>. QED BY <1>4, <1>5, <1>6, <1>7, <1>8 DEF BlockTypes

LEMMA MaybeCommitTypes ==
  ASSUME TypeOK, NEW n \in Nodes, NEW h \in Hashes, Len(h) = NextIndex(n),
         NEW ps \in SUBSET Hashes, NEW vs \in SUBSET (Hashes \X Nodes),
         NEW vd \in SUBSET Hashes, NEW box \in [Nodes -> SUBSET Messages],
         NEW out \in SUBSET Messages, MaybeCommit(n, h, ps, vs, vd, box, out)
  PROVE  BlockTypes' /\ InboxType'
<1>1. CASE ~Sealed(h, ps, vs)
  <2>1. UNCHANGED <<chain, certs, mempool>>
    BY <1>1 DEF MaybeCommit, KeepChain
  <2>2. /\ proposals' = [proposals EXCEPT ![n] = ps]
        /\ votes' = [votes EXCEPT ![n] = vs]
        /\ voted' = [voted EXCEPT ![n] = vd]
        /\ inbox' = Flood(box, n, out)
    BY <1>1 DEF MaybeCommit
  <2>3. InboxType'
    BY <2>2, FloodType DEF InboxType
  <2>. QED BY <2>1, <2>2, <2>3 DEF BlockTypes, TypeOK
<1>2. CASE Sealed(h, ps, vs)
  <2> DEFINE t == Tally(h, vs)
  <2>1. /\ AppendBlocks(n, h, <<t>>)
        /\ inbox' = Flood(box, n, out \cup {Committed(h, t)})
    BY <1>2 DEF MaybeCommit
  <2>2. t \in SUBSET Nodes
    BY TallyType
  <2>3. <<t>> \in Certs /\ Len(<<t>>) = 1
    BY <2>2 DEF Certs
  <2>4. Len(h) = Len(chain[n]) + Len(<<t>>)
    BY <2>3 DEF NextIndex
  <2>5. BlockTypes'
    BY <2>1, <2>3, <2>4, AppendTypes
  <2>6. out \cup {Committed(h, t)} \in SUBSET Messages
    BY <2>2, MessagesSent
  <2>7. InboxType'
    BY <2>1, <2>6, FloodType DEF InboxType
  <2>. QED BY <2>5, <2>7
<1>. QED BY <1>1, <1>2

LEMMA VoteForTypes ==
  ASSUME TypeOK, NEW n \in Nodes, NEW h \in Hashes, Len(h) = NextIndex(n),
         NEW box \in [Nodes -> SUBSET Messages], NEW out \in SUBSET Messages,
         VoteFor(n, h, box, out)
  PROVE  BlockTypes' /\ InboxType'
<1>1. /\ proposals[n] \cup {h} \in SUBSET Hashes
      /\ votes[n] \in SUBSET (Hashes \X Nodes)
      /\ votes[n] \cup {<<h, n>>} \in SUBSET (Hashes \X Nodes)
      /\ voted[n] \in SUBSET Hashes /\ voted[n] \cup {h} \in SUBSET Hashes
  BY DEF TypeOK
<1>2. out \cup {Vote(h, n)} \in SUBSET Messages
  BY MessagesSent
<1>3. CASE HasVoted(n, h)
  BY <1>1, <1>3, MaybeCommitTypes DEF VoteFor
<1>4. CASE ~HasVoted(n, h)
  BY <1>1, <1>2, <1>4, MaybeCommitTypes DEF VoteFor
<1>. QED BY <1>3, <1>4

LEMMA MeetTypes ==
  ASSUME TypeOK, NEW n \in Nodes, NEW ks \in SUBSET Nodes, Meet(n, ks)
  PROVE  MemberTypes'
BY DEF TypeOK, Meet, MemberTypes

LEMMA SameBlockTypes ==
  ASSUME TypeOK, UNCHANGED <<chain, certs, mempool, proposals, votes, voted>>
  PROVE  BlockTypes'
BY DEF TypeOK, BlockTypes

\* One lemma per action: every variable keeps its type.
LEMMA InitTypes == Init => TypeOK
<1> SUFFICES ASSUME Init PROVE TypeOK
  OBVIOUS
<1> USE MeshAssumption DEF Init
<1>1. BlockTypes
  BY EmptySeq DEF BlockTypes, Chains, Certs
<1>2. MemberTypes /\ seen \in [Nodes -> SUBSET (Ops \cup Nodes)]
  BY ReachType DEF MemberTypes
<1>3. \A n \in Nodes : saved[n] = [chain |-> <<>>, certs |-> <<>>]
  OBVIOUS
<1>4. InboxType /\ RestTypes
  BY <1>2, EmptySeq DEF InboxType, RestTypes, Chains, Certs
<1>. QED BY <1>1, <1>2, <1>4, TypeParts

LEMMA SubmitOpTypes ==
  ASSUME TypeOK, NEW n \in Nodes, NEW o \in Ops, SubmitOp(n, o)
  PROVE  TypeOK'
<1>1. BlockTypes'
  BY DEF TypeOK, BlockTypes, SubmitOp
<1>2. MemberTypes'
  BY DEF TypeOK, MemberTypes, SubmitOp
<1>3. inbox' = FloodOps(inbox, n, {o}) /\ inbox \in [Nodes -> SUBSET Messages]
  BY DEF TypeOK, SubmitOp
<1>4. InboxType'
  BY <1>3, FloodOpsType DEF InboxType
<1>5. RestTypes'
  BY DEF TypeOK, RestTypes, SubmitOp
<1>. QED BY <1>1, <1>2, <1>4, <1>5, TypePartsNext

\* A quorum is a number.
LEMMA QuorumType ==
  ASSUME TypeOK, NEW n \in Nodes
  PROVE  QuorumFor(Cardinality(active[n])) \in Nat
<1>1. active[n] \in SUBSET Nodes
  BY DEF TypeOK
<1>2. Cardinality(active[n]) \in Nat
  BY <1>1, MeshAssumption, FS_Subset, FS_CardinalityType
<1>. QED BY <1>2 DEF QuorumFor

\* The block a node proposes continues its chain.
LEMMA ProposedBlock ==
  ASSUME TypeOK, NEW n \in Nodes,
         NEW h, h = Append(chain[n], Body(n, mempool[n], QuorumFor(Cardinality(active[n]))))
  PROVE  /\ h \in Hashes /\ Len(h) = NextIndex(n) /\ Front(h) = chain[n]
         /\ Last(h) = Body(n, mempool[n], QuorumFor(Cardinality(active[n])))
<1> DEFINE b == Body(n, mempool[n], QuorumFor(Cardinality(active[n])))
<1>1. b \in Bodies
  BY QuorumType DEF Body, Bodies, TypeOK
<1>2. chain[n] \in Seq(Bodies)
  BY DEF TypeOK, Chains
<1> HIDE DEF b
<1>3. /\ Append(chain[n], b) \in Seq(Bodies)
      /\ Append(chain[n], b) # <<>>
      /\ Len(Append(chain[n], b)) = Len(chain[n]) + 1
      /\ \A i \in 1..Len(chain[n]) : Append(chain[n], b)[i] = chain[n][i]
      /\ Append(chain[n], b)[Len(chain[n]) + 1] = b
  BY <1>1, <1>2, AppendProperties
<1>4. h = Append(chain[n], b)
  BY DEF b
<1>5. h \in Hashes /\ Len(h) = NextIndex(n) /\ Last(h) = b
  BY <1>3, <1>4 DEF Hashes, Chains, NextIndex, Last
<1>6. Front(h) \in Chains /\ Len(Front(h)) = Len(chain[n]) /\ Len(chain[n]) \in Nat
  <2>1. Len(chain[n]) \in Nat
    BY <1>2, LenProperties
  <2>2. Front(h) \in Chains /\ Len(Front(h)) = Len(h) - 1
    BY <1>5, HashParts
  <2>. QED BY <1>5, <2>1, <2>2 DEF NextIndex
<1>7. \A i \in 1..Len(Front(h)) : Front(h)[i] = chain[n][i]
  <2>1. Front(h) = SubSeq(h, 1, Len(chain[n]))
    BY <1>5, <1>6 DEF Front, NextIndex
  <2>2. \A i \in 1..Len(chain[n]) : h[i] \in Bodies
    BY <1>5, <1>6, ElementOfSeq DEF Hashes, Chains, NextIndex
  <2>3. \A i \in 1..(Len(chain[n]) - 1 + 1) : SubSeq(h, 1, Len(chain[n]))[i] = h[1 + i - 1]
    BY <1>6, <2>2, SubSeqProperties
  <2>. QED BY <1>3, <1>4, <1>6, <2>1, <2>3
<1>8. Front(h) = chain[n]
  BY <1>2, <1>6, <1>7, SeqEqual DEF Chains
<1>. QED BY <1>5, <1>8 DEF b

LEMMA ProposeTypes ==
  ASSUME TypeOK, NEW n \in Nodes, Propose(n)
  PROVE  TypeOK'
<1> DEFINE h == Append(chain[n], Body(n, mempool[n], QuorumFor(Cardinality(active[n]))))
<1>1. h \in Hashes /\ Len(h) = NextIndex(n)
  BY ProposedBlock
<1>2. /\ VoteFor(n, h, inbox, {Proposal(h)})
      /\ UNCHANGED <<validators, active, seen, links, saved, stopped, changes>>
  BY DEF Propose
<1> HIDE DEF h
<1>3. {Proposal(h)} \in SUBSET Messages /\ inbox \in [Nodes -> SUBSET Messages]
  BY <1>1, MessagesSent DEF TypeOK
<1>4. BlockTypes' /\ InboxType'
  BY <1>1, <1>2, <1>3, VoteForTypes
<1>5. MemberTypes' /\ RestTypes'
  BY <1>2 DEF TypeOK, MemberTypes, RestTypes
<1>. QED BY <1>4, <1>5, TypePartsNext

LEMMA PersistTypes ==
  ASSUME TypeOK, NEW n \in Nodes, Persist(n)
  PROVE  TypeOK'
<1>1. UNCHANGED <<chain, certs, mempool, proposals, votes, voted, validators, active,
                  seen, inbox, links, stopped, changes>>
  BY DEF Persist, engine
<1>2. BlockTypes' /\ MemberTypes' /\ InboxType'
  BY <1>1 DEF TypeOK, BlockTypes, MemberTypes, InboxType
<1>3. RestTypes'
  BY <1>1 DEF TypeOK, RestTypes, Persist
<1>. QED BY <1>2, <1>3, TypePartsNext

LEMMA SyncRoundTypes ==
  ASSUME TypeOK, NEW n \in Nodes, SyncRound(n)
  PROVE  TypeOK'
<1> DEFINE box == [inbox EXCEPT ![n] = @ \cup Blocks(n)]
<1>1. box \in [Nodes -> SUBSET Messages] /\ mempool[n] \in SUBSET Ops
  BY BlocksSent DEF TypeOK
<1>2. inbox' = FloodOps(box, n, mempool[n])
  BY DEF SyncRound
<1> HIDE DEF box
<1>3. InboxType'
  BY <1>1, <1>2, FloodOpsType DEF InboxType
<1>4. BlockTypes' /\ MemberTypes' /\ RestTypes'
  BY DEF TypeOK, BlockTypes, MemberTypes, RestTypes, SyncRound, engine
<1>. QED BY <1>3, <1>4, TypePartsNext

LEMMA ReceiveOpTypes ==
  ASSUME TypeOK, NEW n \in Nodes, NEW msg \in inbox[n], ReceiveOp(n, msg)
  PROVE  TypeOK'
<1>1. msg.op \in Ops
  BY MessageParts DEF TypeOK, ReceiveOp
<1>2. BlockTypes' /\ MemberTypes' /\ RestTypes'
  BY <1>1 DEF TypeOK, BlockTypes, MemberTypes, RestTypes, ReceiveOp
<1>3. InboxType'
  BY ConsumedType DEF ReceiveOp, InboxType
<1>. QED BY <1>2, <1>3, TypePartsNext

LEMMA ReceiveValidatorTypes ==
  ASSUME TypeOK, NEW n \in Nodes, NEW msg \in inbox[n], ReceiveValidator(n, msg)
  PROVE  TypeOK'
<1>1. msg.key \in Nodes
  BY MessageParts DEF TypeOK, ReceiveValidator
<1>2. MemberTypes'
  BY <1>1, MeetTypes DEF ReceiveValidator
<1>3. BlockTypes' /\ RestTypes'
  BY <1>1 DEF TypeOK, BlockTypes, RestTypes, ReceiveValidator
<1>4. InboxType'
  BY ConsumedType DEF ReceiveValidator, InboxType
<1>. QED BY <1>2, <1>3, <1>4, TypePartsNext

LEMMA ReceiveProposeTypes ==
  ASSUME TypeOK, NEW n \in Nodes, NEW msg \in inbox[n], ReceivePropose(n, msg)
  PROVE  TypeOK'
<1>1. msg.hash \in Hashes /\ Last(msg.hash).proposer \in Nodes
  BY MessageParts, HashParts DEF TypeOK, ReceivePropose
<1>2. MemberTypes'
  BY <1>1, MeetTypes DEF ReceivePropose
<1>3. RestTypes'
  BY DEF TypeOK, RestTypes, ReceivePropose
<1>4. BlockTypes' /\ InboxType'
  <2>1. CASE Acceptable(n, msg.hash)
    <3>1. VoteFor(n, msg.hash, Consumed(n, msg), {})
      BY <2>1 DEF ReceivePropose
    <3>2. Len(msg.hash) = NextIndex(n)
      BY <2>1 DEF Acceptable
    <3>. QED BY <1>1, <3>1, <3>2, ConsumedType, VoteForTypes
  <2>2. CASE ~Acceptable(n, msg.hash)
    <3>1. /\ UNCHANGED <<chain, certs, mempool, proposals, votes, voted>>
          /\ inbox' = [Consumed(n, msg) EXCEPT
                         ![n] = @ \cup IF Len(msg.hash) > NextIndex(n)
                                         THEN Blocks(n) ELSE {}]
      BY <2>2 DEF ReceivePropose, KeepChain
    <3>2. BlockTypes'
      BY <3>1, SameBlockTypes
    <3>3. InboxType'
      BY <3>1, ConsumedType, BlocksSent DEF InboxType
    <3>. QED BY <3>2, <3>3
  <2>. QED BY <2>1, <2>2
<1>. QED BY <1>2, <1>3, <1>4, TypePartsNext

LEMMA ReceiveVoteTypes ==
  ASSUME TypeOK, NEW n \in Nodes, NEW msg \in inbox[n], ReceiveVote(n, msg)
  PROVE  TypeOK'
<1> DEFINE h  == msg.hash
           vs == votes[n] \cup {<<h, msg.voter>>}
<1>1. h \in Hashes /\ msg.voter \in Nodes
  BY MessageParts DEF TypeOK, ReceiveVote
<1>2. MemberTypes'
  BY <1>1, MeetTypes DEF ReceiveVote
<1>3. RestTypes'
  BY DEF TypeOK, RestTypes, ReceiveVote
<1>4. vs \in SUBSET (Hashes \X Nodes)
  BY <1>1 DEF TypeOK
<1>5. BlockTypes' /\ InboxType'
  <2>1. CASE Len(h) < NextIndex(n) /\ inbox' = Consumed(n, msg)
               /\ KeepChain /\ UNCHANGED <<proposals, votes, voted>>
    BY <2>1, SameBlockTypes, ConsumedType DEF KeepChain, InboxType
  <2>2. CASE Len(h) = NextIndex(n)
               /\ MaybeCommit(n, h, proposals[n], vs, voted[n], Consumed(n, msg), {})
    <3>1. proposals[n] \in SUBSET Hashes /\ voted[n] \in SUBSET Hashes
      BY DEF TypeOK
    <3>. QED BY <1>1, <1>4, <2>2, <3>1, ConsumedType, MaybeCommitTypes
  <2>3. CASE Len(h) > NextIndex(n) /\ votes' = [votes EXCEPT ![n] = vs]
               /\ inbox' = Consumed(n, msg) /\ KeepChain
               /\ UNCHANGED <<proposals, voted>>
    <3>1. BlockTypes'
      BY <1>4, <2>3 DEF TypeOK, BlockTypes, KeepChain
    <3>. QED BY <2>3, <3>1, ConsumedType DEF InboxType
  <2>. QED BY <2>1, <2>2, <2>3 DEF ReceiveVote
<1>. QED BY <1>2, <1>3, <1>5, TypePartsNext

LEMMA ReceiveCommittedTypes ==
  ASSUME TypeOK, NEW n \in Nodes, NEW msg \in inbox[n], ReceiveCommitted(n, msg)
  PROVE  TypeOK'
<1>1. msg.hash \in Hashes /\ msg.cert \in SUBSET Nodes /\ Last(msg.hash).proposer \in Nodes
  BY MessageParts, HashParts DEF TypeOK, ReceiveCommitted
<1>2. MemberTypes'
  BY <1>1, MeetTypes DEF ReceiveCommitted
<1>3. RestTypes'
  BY DEF TypeOK, RestTypes, ReceiveCommitted
<1>4. PICK extra \in {FullChains(n), Blocks(n), {}} :
        inbox' = [Consumed(n, msg) EXCEPT ![n] = @ \cup extra]
  BY Zenon DEF ReceiveCommitted
<1>5. InboxType'
  BY <1>4, ConsumedType, BlocksSent DEF InboxType
<1>6. \/ Len(msg.hash) = NextIndex(n) /\ AppendBlocks(n, msg.hash, <<msg.cert>>)
      \/ UNCHANGED <<chain, certs, mempool, proposals, votes, voted>>
  BY Zenon DEF ReceiveCommitted, KeepChain
<1>7. <<msg.cert>> \in Certs /\ Len(<<msg.cert>>) = 1
  BY <1>1 DEF Certs
<1>8. BlockTypes'
  BY <1>1, <1>6, <1>7, AppendTypes, SameBlockTypes DEF NextIndex
<1>. QED BY <1>2, <1>3, <1>5, <1>8, TypePartsNext

\* The blocks a partial answer adds, and their certificates.
LEMMA LinkedBlocks ==
  ASSUME TypeOK, NEW n \in Nodes, NEW msg \in inbox[n], msg.type = "SyncResponse",
         NEW k \in Linked(n, msg)
  PROVE  /\ SubSeq(msg.hash, 1, k) \in Hashes
         /\ Len(SubSeq(msg.hash, 1, k)) = k
         /\ SubSeq(msg.certs, NextIndex(n), k) \in Certs
         /\ Len(SubSeq(msg.certs, NextIndex(n), k)) = k - Len(chain[n])
         /\ \A i \in 1..(k - Len(chain[n])) :
              SubSeq(msg.certs, NextIndex(n), k)[i] = msg.certs[Len(chain[n]) + i]
<1> DEFINE a == NextIndex(n)
           cs == SubSeq(msg.certs, a, k)
<1>1. msg.hash \in Chains /\ msg.certs \in Certs /\ Len(msg.certs) = Len(msg.hash)
  BY MessageParts DEF TypeOK
<1>2. Len(chain[n]) \in Nat /\ Len(msg.hash) \in Nat
  BY <1>1, ChainParts DEF TypeOK
<1>3. a \in Nat /\ a = Len(chain[n]) + 1 /\ k \in a..Len(msg.hash)
  BY <1>2 DEF NextIndex, Linked
<1>4. SubSeq(msg.hash, 1, k) \in Chains /\ Len(SubSeq(msg.hash, 1, k)) = k
  BY <1>1, <1>2, <1>3, PrefixIsChain
<1>5. SubSeq(msg.hash, 1, k) # <<>>
  BY <1>2, <1>3, <1>4, EmptySeq
<1>6. a \in Int /\ k \in Int /\ \A i \in a..k : msg.certs[i] \in SUBSET Nodes
  BY <1>1, <1>2, <1>3, CertParts
<1>7. /\ cs \in Seq(SUBSET Nodes)
      /\ Len(cs) = IF a <= k THEN k - a + 1 ELSE 0
      /\ \A i \in 1..(k - a + 1) : cs[i] = msg.certs[a + i - 1]
  BY <1>6, SubSeqProperties
<1> HIDE DEF a, cs
<1>8. cs \in Certs /\ Len(cs) = k - Len(chain[n])
  <2>1. a <= k /\ k - a + 1 = k - Len(chain[n])
    BY <1>2, <1>3
  <2>2. Len(cs) = k - Len(chain[n])
    BY <1>7, <2>1
  <2>. QED BY <1>7, <2>2 DEF Certs
<1>9. \A i \in 1..(k - Len(chain[n])) : cs[i] = msg.certs[Len(chain[n]) + i]
  <2> SUFFICES ASSUME NEW i \in 1..(k - Len(chain[n]))
               PROVE  cs[i] = msg.certs[Len(chain[n]) + i]
    OBVIOUS
  <2>1. i \in 1..(k - a + 1) /\ a + i - 1 = Len(chain[n]) + i
    BY <1>2, <1>3
  <2>. QED BY <1>7, <2>1
<1>. QED BY <1>4, <1>5, <1>8, <1>9 DEF Hashes, a, cs

LEMMA ReceiveBlocksTypes ==
  ASSUME TypeOK, NEW n \in Nodes, NEW msg \in inbox[n], ReceiveBlocks(n, msg)
  PROVE  TypeOK'
<1>1. MemberTypes' /\ RestTypes'
  BY DEF TypeOK, MemberTypes, RestTypes, ReceiveBlocks
<1>2. CASE \E k \in Linked(n, msg) :
             /\ AppendBlocks(n, SubSeq(msg.hash, 1, k),
                             SubSeq(msg.certs, NextIndex(n), k))
             /\ inbox' = Consumed(n, msg)
  <2>1. PICK k \in Linked(n, msg) :
               /\ AppendBlocks(n, SubSeq(msg.hash, 1, k),
                               SubSeq(msg.certs, NextIndex(n), k))
               /\ inbox' = Consumed(n, msg)
    BY <1>2
  <2> DEFINE h  == SubSeq(msg.hash, 1, k)
             cs == SubSeq(msg.certs, NextIndex(n), k)
  <2>2. h \in Hashes /\ Len(h) = k /\ cs \in Certs /\ Len(cs) = k - Len(chain[n])
    BY LinkedBlocks DEF ReceiveBlocks
  <2>3. AppendBlocks(n, h, cs)
    BY <2>1
  <2>4. Len(chain[n]) \in Nat /\ Len(h) \in Nat
    BY <2>2, HashParts, ChainParts DEF TypeOK
  <2> HIDE DEF h, cs
  <2>5. BlockTypes'
    <3>1. Len(h) = Len(chain[n]) + Len(cs)
      BY <2>2, <2>4
    <3>. QED BY <2>2, <2>3, <3>1, AppendTypes
  <2>6. InboxType'
    BY <2>1, ConsumedType DEF InboxType
  <2>. QED BY <1>1, <2>5, <2>6, TypePartsNext
<1>3. CASE /\ inbox' = [Consumed(n, msg) EXCEPT
                          ![n] = @ \cup IF Len(msg.hash) >= NextIndex(n)
                                          THEN FullChains(n) ELSE {}]
           /\ UNCHANGED <<chain, certs, mempool, proposals, votes, voted>>
  <2>1. BlockTypes'
    BY <1>3, SameBlockTypes
  <2>2. InboxType'
    BY <1>3, ConsumedType, BlocksSent DEF InboxType
  <2>. QED BY <1>1, <2>1, <2>2, TypePartsNext
<1>. QED BY <1>2, <1>3 DEF ReceiveBlocks, KeepChain

LEMMA ReceiveFullChainTypes ==
  ASSUME TypeOK, NEW n \in Nodes, NEW msg \in inbox[n], ReceiveFullChain(n, msg)
  PROVE  TypeOK'
<1> DEFINE c == msg.hash
           met == validators[n] \cup Historical(c, msg.certs)
<1>1. /\ msg.hash \in Chains /\ msg.certs \in Certs
      /\ Len(msg.certs) = Len(msg.hash)
  BY MessageParts DEF TypeOK, ReceiveFullChain
<1>2. met \in SUBSET Nodes /\ validators[n] \subseteq met
  <2>1. DOMAIN c = 1..Len(msg.certs) /\ ProposersOf(c) \subseteq Nodes
    BY <1>1, ChainParts
  <2>2. \A i \in DOMAIN c : msg.certs[i] \subseteq Nodes
    BY <1>1, <2>1, CertParts
  <2>. QED BY <2>1, <2>2 DEF TypeOK, Historical
<1>3. /\ validators' = [validators EXCEPT ![n] = met]
      /\ UNCHANGED <<active, seen, links, saved, stopped, changes>>
      /\ inbox' = Consumed(n, msg)
  BY DEF ReceiveFullChain
<1> HIDE DEF met
<1>4. MemberTypes' /\ RestTypes' /\ InboxType'
  BY <1>2, <1>3, ConsumedType DEF TypeOK, MemberTypes, RestTypes, InboxType
<1>5. \/ /\ chain' = [chain EXCEPT ![n] = c]
         /\ certs' = [certs EXCEPT ![n] = msg.certs]
         /\ mempool' = [mempool EXCEPT ![n] = KeptOps(n, OpsOf(c))]
         /\ proposals' = [proposals EXCEPT ![n] = {}]
         /\ votes' = [votes EXCEPT ![n] = {}]
         /\ voted' = [voted EXCEPT ![n] = {}]
      \/ UNCHANGED <<chain, certs, mempool, proposals, votes, voted>>
  BY DEF ReceiveFullChain, KeepChain
<1>6. BlockTypes'
  <2>1. CASE UNCHANGED <<chain, certs, mempool, proposals, votes, voted>>
    BY <2>1, SameBlockTypes
  <2>2. CASE /\ chain' = [chain EXCEPT ![n] = c]
             /\ certs' = [certs EXCEPT ![n] = msg.certs]
             /\ mempool' = [mempool EXCEPT ![n] = KeptOps(n, OpsOf(c))]
             /\ proposals' = [proposals EXCEPT ![n] = {}]
             /\ votes' = [votes EXCEPT ![n] = {}]
             /\ voted' = [voted EXCEPT ![n] = {}]
    <3>1. /\ chain' \in [Nodes -> Chains] /\ certs' \in [Nodes -> Certs]
          /\ \A m \in Nodes : Len(certs'[m]) = Len(chain'[m])
      BY <1>1, <2>2 DEF TypeOK
    <3>2. /\ mempool' \in [Nodes -> SUBSET Ops]
          /\ proposals' \in [Nodes -> SUBSET Hashes]
          /\ votes' \in [Nodes -> SUBSET (Hashes \X Nodes)]
          /\ voted' \in [Nodes -> SUBSET Hashes]
      BY <2>2 DEF TypeOK, KeptOps
    <3>. QED BY <3>1, <3>2 DEF BlockTypes
  <2>. QED BY <1>5, <2>1, <2>2
<1>. QED BY <1>4, <1>6, TypePartsNext

LEMMA HelloType ==
  ASSUME TypeOK, NEW k \in Nodes, NEW a \in Nodes, NEW b \in Nodes
  PROVE  HelloTo(k, a, b) \subseteq Messages
<1>1. active[a] \subseteq Nodes /\ mempool[a] \subseteq Ops
  BY DEF TypeOK
<1>2. SyncResponse(FALSE, b) \in Messages
  BY DEF TypeOK, SyncResponse, Messages, Answers
<1>. QED BY <1>1, <1>2, MessagesSent DEF HelloTo

LEMMA ConnectTypes ==
  ASSUME TypeOK, NEW n \in Nodes, NEW m \in Nodes, Connect(n, m)
  PROVE  TypeOK'
<1>1. BlockTypes'
  BY SameBlockTypes DEF Connect
<1>2. MemberTypes'
  BY DEF TypeOK, MemberTypes, Connect
<1>3. \A k \in Nodes : inbox[k] \cup HelloTo(k, n, m) \cup HelloTo(k, m, n) \in SUBSET Messages
  BY HelloType DEF TypeOK
<1>4. InboxType'
  BY <1>3 DEF InboxType, Connect
<1>5. RestTypes'
  <2>1. links' \subseteq Topology
    BY DEF TypeOK, Connect
  <2>2. changes' \in 0..MaxChanges
    BY MeshAssumption DEF TypeOK, Connect
  <2>3. UNCHANGED <<seen, saved, stopped>>
    BY DEF Connect
  <2>. QED BY <2>1, <2>2, <2>3 DEF TypeOK, RestTypes
<1>. QED BY <1>1, <1>2, <1>4, <1>5, TypePartsNext

LEMMA DisconnectTypes ==
  ASSUME TypeOK, NEW n \in Nodes, NEW m \in Nodes, Disconnect(n, m)
  PROVE  TypeOK'
<1>1. n # m
  <2>1. {n, m} \in Topology
    BY DEF Disconnect, TypeOK
  <2>2. PICK x \in Nodes, y \in Nodes : x # y /\ {n, m} = {x, y}
    BY <2>1, MeshAssumption
  <2>. QED BY <2>2
<1>2. BlockTypes'
  BY SameBlockTypes DEF Disconnect
<1>3. MemberTypes'
  BY <1>1 DEF TypeOK, MemberTypes, Disconnect, MarkInactive
<1>4. InboxType' /\ RestTypes'
  <2>1. links' \subseteq Topology
    BY DEF TypeOK, Disconnect
  <2>2. changes' \in 0..MaxChanges
    BY MeshAssumption DEF TypeOK, Disconnect
  <2>3. UNCHANGED <<inbox, seen, saved, stopped>>
    BY DEF Disconnect
  <2>. QED BY <2>1, <2>2, <2>3 DEF TypeOK, InboxType, RestTypes
<1>. QED BY <1>2, <1>3, <1>4, TypePartsNext

LEMMA StopTypes ==
  ASSUME TypeOK, NEW n \in Nodes, Stop(n)
  PROVE  TypeOK'
<1>1. BlockTypes' /\ MemberTypes' /\ InboxType'
  BY DEF TypeOK, BlockTypes, MemberTypes, InboxType, Stop, engine
<1>2. RestTypes'
  BY DEF TypeOK, RestTypes, Stop, engine
<1>. QED BY <1>1, <1>2, TypePartsNext

LEMMA RestartTypes ==
  ASSUME TypeOK, NEW n \in Nodes, Restart(n)
  PROVE  TypeOK'
<1>1. PICK file \in Restorable(n) :
        /\ saved' = [saved EXCEPT ![n] = file]
        /\ chain' = [chain EXCEPT ![n] = file.chain]
        /\ certs' = [certs EXCEPT ![n] = file.certs]
        /\ validators' = [validators EXCEPT ![n] =
                            {n} \cup Historical(file.chain, file.certs)]
  BY DEF Restart, RestoreChain
<1>2. /\ file \in [chain : Chains, certs : Certs]
      /\ Len(file.certs) = Len(file.chain)
  <2>1. saved[n] \in [chain : Chains, certs : Certs] /\ Len(saved[n].certs) = Len(saved[n].chain)
    BY DEF TypeOK
  <2>2. [chain |-> <<>>, certs |-> <<>>] \in [chain : Chains, certs : Certs]
    BY EmptySeq DEF Chains, Certs
  <2>. QED BY <2>1, <2>2 DEF Restorable
<1>3. Historical(file.chain, file.certs) \subseteq Nodes
  <2>1. DOMAIN file.chain = 1..Len(file.certs) /\ ProposersOf(file.chain) \subseteq Nodes
    BY <1>2, ChainParts
  <2>2. \A i \in DOMAIN file.chain : file.certs[i] \subseteq Nodes
    BY <1>2, <2>1, CertParts
  <2>. QED BY <2>1, <2>2 DEF Historical
<1>4. BlockTypes'
  BY <1>1, <1>2 DEF TypeOK, BlockTypes, Restart, RestoreChain
<1>5. validators'[n] \subseteq Nodes /\ n \in validators'[n]
  BY <1>1, <1>3 DEF TypeOK
<1>6. MemberTypes'
  BY <1>1, <1>3, <1>5 DEF TypeOK, MemberTypes, Restart, MarkInactive
<1>7. InboxType' /\ RestTypes'
  BY <1>1, <1>2, MeshAssumption DEF TypeOK, InboxType, RestTypes, Restart
<1>. QED BY <1>4, <1>6, <1>7, TypePartsNext

LEMMA NextTypes ==
  ASSUME TypeOK, [Next]_vars
  PROVE  TypeOK'
<1>1. CASE UNCHANGED vars
  BY <1>1 DEF TypeOK, vars, engine
<1>2. CASE \E o \in Ops : SubmitOp(Author[o], o)
  BY <1>2, SubmitOpTypes, MeshAssumption
<1>3. CASE \E n \in Nodes : Propose(n)
  BY <1>3, ProposeTypes
<1>4. CASE \E n \in Nodes : Persist(n)
  BY <1>4, PersistTypes
<1>5. CASE \E n \in Nodes : SyncRound(n)
  BY <1>5, SyncRoundTypes
<1>6. CASE \E n \in Nodes : Deliver(n)
  BY <1>6, ReceiveOpTypes, ReceiveValidatorTypes, ReceiveProposeTypes, ReceiveVoteTypes,
     ReceiveCommittedTypes, ReceiveBlocksTypes, ReceiveFullChainTypes DEF Deliver, Receive
<1>7. CASE \E n, m \in Nodes : Connect(n, m)
  BY <1>7, ConnectTypes
<1>8. CASE \E n, m \in Nodes : Disconnect(n, m)
  BY <1>8, DisconnectTypes
<1>9. CASE \E n \in Nodes : Stop(n)
  BY <1>9, StopTypes
<1>10. CASE \E n \in Nodes : Restart(n)
  BY <1>10, RestartTypes
<1>. QED BY <1>1, <1>2, <1>3, <1>4, <1>5, <1>6, <1>7, <1>8, <1>9, <1>10 DEF Next

\* Whatever joins, leaves, restarts or forks, every engine holds what its Rust
\* types and its own lookups rely on: a certificate for every block, in memory, on
\* disk and on the wire, and itself among the active validators it counts.
THEOREM TypeCorrectness == Spec => []TypeOK
BY InitTypes, NextTypes, PTL DEF Spec
=============================================================================
