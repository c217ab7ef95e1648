-------------------------- MODULE ConsensusProofs ---------------------------
(***************************************************************************)
(* The safety of the block consensus, for every mesh, every set of nodes   *)
(* that restart or leave, and every bound.                                 *)
(*                                                                         *)
(* The argument follows the signatures.  Safe(S) says that S holds every   *)
(* vote that is counted, stored, saved or on its way anywhere, and that    *)
(* every stored or travelling chain is certified and applies an operation  *)
(* once.  Once(S) says that a node that does not restart has signed one    *)
(* block of each height in S, and remembers those its chain has not yet    *)
(* reached.  The invariant is that such an S exists; a vote adds to it.     *)
(* The last part shows that a mesh of stable membership implements the     *)
(* abstract ReplicatedLog.                                                 *)
(***************************************************************************)
EXTENDS ConsensusTypes

Signatures == SUBSET (Hashes \X Nodes)

-----------------------------------------------------------------------------
\* The invariant.

AppliesOnce(c) ==
  \A i, j \in DOMAIN c : i # j => c[i].ops \cap c[j].ops = {}

CertifiedBy(c, cs) == \A i \in DOMAIN c : Cardinality(cs[i]) >= Needed(c[i])

SignedIn(c, cs, S) ==
  \A i \in DOMAIN c : \A v \in cs[i] : <<SubSeq(c, 1, i), v>> \in S

Stored(c, cs, S) == AppliesOnce(c) /\ CertifiedBy(c, cs) /\ SignedIn(c, cs, S)

MessageSafe(m, S) ==
  /\ m.type = "Propose" => AppliesOnce(m.hash)
  /\ m.type = "Vote" => <<m.hash, m.voter>> \in S
  /\ m.type = "Committed" =>
       AppliesOnce(m.hash) /\ \A v \in m.cert : <<m.hash, v>> \in S
  /\ m.type = "SyncResponse" => Stored(m.hash, m.certs, S)

MailSafe(box, S) == \A n \in Nodes : \A m \in box[n] : MessageSafe(m, S)

ChainsSafe(S) ==
  \A n \in Nodes : /\ Stored(chain[n], certs[n], S)
                   /\ mempool[n] \cap OpsOf(chain[n]) = {}

FilesSafe(S) == \A n \in Nodes : Stored(saved[n].chain, saved[n].certs, S)

\* A stored proposal continues the chain by one block.
Continues(n, h) == Len(h) = NextIndex(n) /\ Front(h) = chain[n] /\ AppliesOnce(h)

VotesSafe(S) ==
  \A n \in Nodes :
    /\ \A h \in proposals[n] : Continues(n, h)
    /\ votes[n] \subseteq S
    /\ \A h \in voted[n] : <<h, n>> \in S /\ Len(h) <= NextIndex(n)

Safe(S) == ChainsSafe(S) /\ FilesSafe(S) /\ VotesSafe(S) /\ MailSafe(inbox, S)

SignsOnce(S) ==
  \A v \in Nodes \ Restarters : \A g, h \in Hashes :
    <<g, v>> \in S /\ <<h, v>> \in S /\ Len(g) = Len(h) => g = h

Remembers(S) ==
  \A v \in Nodes \ Restarters : \A h \in Hashes :
    <<h, v>> \in S => Len(h) <= Len(chain[v]) \/ h \in voted[v]

Once(S) == SignsOnce(S) /\ Remembers(S)

SafetyInv == TypeOK /\ \E S \in Signatures : Safe(S) /\ Once(S)

-----------------------------------------------------------------------------
\* Prefixes.

LEMMA PrefixOfPrefix ==
  ASSUME NEW c \in Chains, NEW k \in 0..Len(c), NEW i \in 1..k
  PROVE  /\ SubSeq(SubSeq(c, 1, k), 1, i) = SubSeq(c, 1, i)
         /\ SubSeq(c, 1, k)[i] = c[i]
<1>1. Len(c) \in Nat /\ c \in Seq(Bodies) /\ \A j \in 1..Len(c) : c[j] \in Bodies
  BY ChainParts DEF Chains
<1>2. 1 \in 1..Len(c) /\ k \in 1..Len(c) /\ 1 \in 1..(k - 1 + 1) /\ i \in 1..(k - 1 + 1)
  BY <1>1
<1>3. SubSeq(SubSeq(c, 1, k), 1, i) = SubSeq(c, 1 + 1 - 1, 1 + i - 1)
  BY <1>1, <1>2, SubSeqOfSubSeq
<1>4. \A j \in 1..(k - 1 + 1) : SubSeq(c, 1, k)[j] = c[1 + j - 1]
  <2>1. 1 \in Int /\ k \in Int /\ \A j \in 1..k : c[j] \in Bodies
    BY <1>1
  <2>. QED BY <2>1, SubSeqProperties
<1>5. 1 + 1 - 1 = 1 /\ 1 + i - 1 = i
  BY <1>2
<1>6. SubSeq(c, 1, k)[i] = c[1 + i - 1]
  BY <1>2, <1>4
<1>. QED BY <1>3, <1>5, <1>6, Zenon

\* A beginning of a chain applies what it applies once.
LEMMA PrefixApplies ==
  ASSUME NEW c \in Chains, NEW k \in 0..Len(c), AppliesOnce(c)
  PROVE  AppliesOnce(SubSeq(c, 1, k))
<1>1. Len(c) \in Nat /\ DOMAIN c = 1..Len(c)
  BY ChainParts
<1>2. DOMAIN SubSeq(c, 1, k) = 1..k
  BY PrefixIsChain, ChainParts
<1>3. \A i \in 1..k : SubSeq(c, 1, k)[i] = c[i] /\ i \in DOMAIN c
  BY <1>1, PrefixOfPrefix
<1>. QED BY <1>2, <1>3 DEF AppliesOnce

\* The chain a block continues is the beginning of the block's.
LEMMA FrontIsPrefix ==
  ASSUME TypeOK, NEW n \in Nodes, NEW h \in Hashes,
         Len(h) = NextIndex(n), Front(h) = chain[n]
  PROVE  SubSeq(h, 1, Len(chain[n])) = chain[n] /\ h[Len(chain[n]) + 1] = Last(h)
<1>1. Len(chain[n]) \in Nat
  BY ChainParts DEF TypeOK
<1>2. Len(h) = Len(chain[n]) + 1 /\ Len(h) - 1 = Len(chain[n])
  BY <1>1 DEF NextIndex
<1>. QED BY <1>2 DEF Front, Last

\* A certificate its reader accepts has as many voters as the block needs.
LEMMA CertifiedIsEnough ==
  ASSUME NEW body, NEW cert \in SUBSET Nodes, NEW known,
         Certified(body, cert, known), Needed(body) \in Int
  PROVE  Cardinality(cert) >= Needed(body)
<1>1. IsFiniteSet(cert)
  BY MeshAssumption, FS_Subset
<1>2. cert \cap known \in SUBSET cert
  OBVIOUS
<1>3. /\ IsFiniteSet(cert \cap known)
      /\ Cardinality(cert \cap known) <= Cardinality(cert)
  BY <1>1, <1>2, FS_Subset
<1>4. Cardinality(cert \cap known) \in Nat /\ Cardinality(cert) \in Nat
  BY <1>1, <1>3, FS_CardinalityType
<1>5. Cardinality(cert \cap known) >= Needed(body)
  BY DEF Certified
<1>. QED BY <1>3, <1>4, <1>5

LEMMA NeededType ==
  ASSUME NEW b \in Bodies
  PROVE  Needed(b) \in Nat
BY DEF Bodies, Needed

-----------------------------------------------------------------------------
\* What a node knows stays safe when signatures are added.

LEMMA StoredGrows ==
  ASSUME NEW S, NEW T, S \subseteq T, NEW c, NEW cs, Stored(c, cs, S)
  PROVE  Stored(c, cs, T)
BY DEF Stored, SignedIn

LEMMA SafeGrows ==
  ASSUME NEW S, NEW T, S \subseteq T, Safe(S)
  PROVE  Safe(T)
<1>1. ChainsSafe(T) /\ FilesSafe(T)
  BY StoredGrows DEF Safe, ChainsSafe, FilesSafe
<1>2. VotesSafe(T)
  BY DEF Safe, VotesSafe
<1>3. MailSafe(inbox, T)
  <2> SUFFICES ASSUME NEW n \in Nodes, NEW m \in inbox[n]
               PROVE  MessageSafe(m, T)
    BY DEF MailSafe
  <2>1. MessageSafe(m, S)
    BY DEF Safe, MailSafe
  <2>. QED BY <2>1, StoredGrows DEF MessageSafe
<1>. QED BY <1>1, <1>2, <1>3 DEF Safe

-----------------------------------------------------------------------------
\* Mail.

LEMMA MadeSafe ==
  ASSUME NEW S
  PROVE  /\ \A o : MessageSafe(Op(o), S)
         /\ \A k : MessageSafe(Validator(k), S)
         /\ \A h : AppliesOnce(h) => MessageSafe(Proposal(h), S)
         /\ \A h, v : <<h, v>> \in S => MessageSafe(Vote(h, v), S)
         /\ \A h, c : AppliesOnce(h) /\ (\A v \in c : <<h, v>> \in S)
                        => MessageSafe(Committed(h, c), S)
BY DEF MessageSafe, Op, Validator, Proposal, Vote, Committed

LEMMA AnswersSafe ==
  ASSUME NEW S, ChainsSafe(S), NEW n \in Nodes
  PROVE  /\ \A full : MessageSafe(SyncResponse(full, n), S)
         /\ \A m \in Blocks(n) \cup FullChains(n) : MessageSafe(m, S)
<1>1. \A full : \A p \in Nodes : MessageSafe(SyncResponse(full, p), S)
  BY DEF ChainsSafe, MessageSafe, SyncResponse
<1>2. Neighbors(n, links) \subseteq Nodes
  BY DEF Neighbors
<1>. QED BY <1>1, <1>2 DEF Blocks, FullChains

LEMMA FloodSafe ==
  ASSUME NEW S, NEW n \in Nodes, NEW box, NEW msgs, MailSafe(box, S),
         \A m \in msgs : MessageSafe(m, S)
  PROVE  MailSafe(Flood(box, n, msgs), S)
BY DEF Flood, MailSafe

LEMMA FloodOpsSafe ==
  ASSUME NEW S, NEW n \in Nodes, NEW box, NEW os, MailSafe(box, S)
  PROVE  MailSafe(FloodOps(box, n, os), S)
BY MadeSafe DEF FloodOps, MailSafe

LEMMA ConsumedSafe ==
  ASSUME TypeOK, NEW S, Safe(S), NEW n \in Nodes, NEW msg
  PROVE  MailSafe(Consumed(n, msg), S)
BY DEF TypeOK, Consumed, MailSafe, Safe

LEMMA AnsweredSafe ==
  ASSUME TypeOK, NEW S, Safe(S), NEW n \in Nodes, NEW msg,
         NEW extra \in {FullChains(n), Blocks(n), {}}
  PROVE  MailSafe([Consumed(n, msg) EXCEPT ![n] = @ \cup extra], S)
<1>1. MailSafe(Consumed(n, msg), S) /\ Consumed(n, msg) \in [Nodes -> SUBSET Messages]
  BY ConsumedSafe, ConsumedType
<1>2. \A m \in extra : MessageSafe(m, S)
  BY AnswersSafe DEF Safe
<1>. QED BY <1>1, <1>2 DEF MailSafe

-----------------------------------------------------------------------------
\* Blocks.

\* Appending certified and signed blocks that continue the chain is safe.
LEMMA AppendSafe ==
  ASSUME TypeOK, NEW S, Safe(S), NEW n \in Nodes, NEW h \in Hashes,
         NEW cs \in Certs, AppendBlocks(n, h, cs),
         Len(h) = Len(chain[n]) + Len(cs), Len(cs) >= 1,
         SubSeq(h, 1, Len(chain[n])) = chain[n], AppliesOnce(h),
         \A i \in 1..Len(cs) :
           /\ Cardinality(cs[i]) >= Needed(h[Len(chain[n]) + i])
           /\ \A v \in cs[i] : <<SubSeq(h, 1, Len(chain[n]) + i), v>> \in S
  PROVE  ChainsSafe(S)' /\ VotesSafe(S)'
<1> DEFINE L == Len(chain[n])
           all == certs[n] \o cs
<1>1. /\ chain[n] \in Chains /\ certs[n] \in Certs /\ Len(certs[n]) = L /\ L \in Nat
      /\ DOMAIN chain[n] = 1..L
  BY ChainParts DEF TypeOK
<1>2. Len(cs) \in Nat /\ h \in Chains /\ Len(h) \in Nat /\ DOMAIN h = 1..Len(h)
  BY CertParts, HashParts, ChainParts
<1>3. /\ chain' = [chain EXCEPT ![n] = h]
      /\ certs' = [certs EXCEPT ![n] = all]
      /\ mempool' = [mempool EXCEPT ![n] = @ \ OpsOf(h)]
  BY DEF AppendBlocks, Sealing, KeptOps
<1>4. \A i \in 1..(L + Len(cs)) : all[i] = IF i <= L THEN certs[n][i] ELSE cs[i - L]
  <2>1. certs[n] \in Seq(SUBSET Nodes) /\ cs \in Seq(SUBSET Nodes)
    BY <1>1 DEF Certs
  <2>2. \A i \in 1..(Len(certs[n]) + Len(cs)) :
           all[i] = IF i <= Len(certs[n]) THEN certs[n][i] ELSE cs[i - Len(certs[n])]
    BY <2>1, ConcatProperties
  <2>. QED BY <1>1, <2>2
<1> HIDE DEF all
<1>5. ASSUME NEW i \in DOMAIN h
      PROVE  /\ Cardinality(all[i]) >= Needed(h[i])
             /\ \A v \in all[i] : <<SubSeq(h, 1, i), v>> \in S
  <2>1. i \in 1..(L + Len(cs)) /\ i \in Nat
    BY <1>2
  <2>2. CASE i <= L
    <3>1. all[i] = certs[n][i] /\ i \in DOMAIN chain[n]
      BY <1>1, <1>4, <2>1, <2>2
    <3>2. SubSeq(h, 1, i) = SubSeq(chain[n], 1, i) /\ h[i] = chain[n][i]
      <4>1. L \in 0..Len(h) /\ i \in 1..L
        BY <1>1, <1>2, <2>1, <2>2
      <4>2. SubSeq(SubSeq(h, 1, L), 1, i) = SubSeq(h, 1, i) /\ SubSeq(h, 1, L)[i] = h[i]
        BY <1>2, <4>1, PrefixOfPrefix
      <4>. QED BY <4>2, Zenon
    <3>3. Stored(chain[n], certs[n], S)
      BY DEF Safe, ChainsSafe
    <3>. QED BY <3>1, <3>2, <3>3 DEF Stored, CertifiedBy, SignedIn
  <2>3. CASE i > L
    <3>1. all[i] = cs[i - L] /\ i - L \in 1..Len(cs) /\ L + (i - L) = i
      <4>1. i - L \in 1..Len(cs) /\ L + (i - L) = i /\ ~(i <= L)
        BY <1>1, <1>2, <2>1, <2>3, SMTT(60)
      <4>2. all[i] = cs[i - L]
        BY <1>4, <2>1, <4>1
      <4>. QED BY <4>1, <4>2
    <3>. QED BY <3>1
  <2>. QED BY <1>1, <2>1, <2>2, <2>3
<1>6. Stored(h, all, S)
  BY <1>5 DEF Stored, CertifiedBy, SignedIn
<1>7. ChainsSafe(S)'
  BY <1>3, <1>6 DEF Safe, ChainsSafe, TypeOK
<1>8. VotesSafe(S)'
  <2> SUFFICES ASSUME NEW m \in Nodes
               PROVE  /\ \A g \in proposals'[m] : Continues(m, g)'
                      /\ votes'[m] \subseteq S
                      /\ \A g \in voted'[m] : <<g, m>> \in S /\ Len(g) <= NextIndex(m)'
    BY DEF VotesSafe
  <2>0. /\ \A g \in proposals[m] : Continues(m, g)
        /\ votes[m] \subseteq S
        /\ \A g \in voted[m] : <<g, m>> \in S /\ Len(g) <= NextIndex(m)
    BY DEF Safe, VotesSafe
  <2>1. CASE m # n
    <3>1. /\ chain'[m] = chain[m] /\ proposals'[m] = proposals[m]
          /\ votes'[m] = votes[m] /\ voted'[m] = voted[m]
      BY <2>1 DEF AppendBlocks, TypeOK
    <3>. QED BY <2>0, <3>1 DEF Continues, NextIndex
  <2>2. CASE m = n
    <3>1. /\ proposals'[n] = {g \in proposals[n] : Len(g) > Len(h)}
          /\ votes'[n] \subseteq votes[n]
          /\ voted'[n] = {g \in voted[n] : Len(g) > Len(h)}
      BY DEF AppendBlocks, TypeOK
    <3>2. \A g \in proposals[n] \cup voted[n] : Len(g) \in Nat /\ Len(g) <= L + 1
      <4>1. proposals[n] \cup voted[n] \subseteq Hashes
        BY DEF TypeOK
      <4>2. \A g \in proposals[n] \cup voted[n] : Len(g) \in Nat
        BY <4>1, HashParts
      <4>3. /\ \A g \in proposals[n] : Len(g) = L + 1
            /\ \A g \in voted[n] : Len(g) <= L + 1
        BY <2>0, <2>2 DEF Continues, NextIndex
      <4>. QED BY <1>1, <4>2, <4>3
    <3>3. Len(h) >= L + 1
      BY <1>1, <1>2
    <3>4. proposals'[n] = {} /\ voted'[n] = {}
      BY <1>1, <1>2, <3>1, <3>2, <3>3
    <3>. QED BY <2>0, <2>2, <3>1, <3>4
  <2>. QED BY <2>1, <2>2
<1>. QED BY <1>7, <1>8

\* Nothing that carries a chain or a vote has changed, but for the mail.
LEMMA KeptSafe ==
  ASSUME NEW S, Safe(S), UNCHANGED <<chain, certs, mempool, proposals, votes, voted>>
  PROVE  ChainsSafe(S)' /\ VotesSafe(S)'
BY DEF Safe, ChainsSafe, VotesSafe, Continues, NextIndex

LEMMA FilesKept ==
  ASSUME NEW S, Safe(S), UNCHANGED saved
  PROVE  FilesSafe(S)'
BY DEF Safe, FilesSafe

LEMMA MaybeCommitSafe ==
  ASSUME TypeOK, NEW S, Safe(S), NEW n \in Nodes, NEW h \in Hashes,
         Len(h) = NextIndex(n), NEW ps \in SUBSET Hashes,
         NEW vs \in SUBSET (Hashes \X Nodes), NEW vd \in SUBSET Hashes,
         NEW box, NEW out, MaybeCommit(n, h, ps, vs, vd, box, out),
         \A g \in ps : Continues(n, g),
         vs \subseteq S, \A g \in vd : <<g, n>> \in S /\ Len(g) <= NextIndex(n),
         MailSafe(box, S), \A m \in out : MessageSafe(m, S)
  PROVE  ChainsSafe(S)' /\ VotesSafe(S)' /\ MailSafe(inbox, S)'
<1>1. CASE ~Sealed(h, ps, vs)
  <2>1. UNCHANGED <<chain, certs, mempool>>
    BY <1>1 DEF MaybeCommit, KeepChain
  <2>2. /\ proposals' = [proposals EXCEPT ![n] = ps]
        /\ votes' = [votes EXCEPT ![n] = vs]
        /\ voted' = [voted EXCEPT ![n] = vd]
        /\ inbox' = Flood(box, n, out)
    BY <1>1 DEF MaybeCommit
  <2>3. ChainsSafe(S)'
    BY <2>1 DEF Safe, ChainsSafe
  <2>4. VotesSafe(S)'
    BY <2>1, <2>2 DEF Safe, VotesSafe, Continues, NextIndex, TypeOK
  <2>5. MailSafe(inbox', S)
    BY <2>2, FloodSafe
  <2>. QED BY <2>3, <2>4, <2>5 DEF MailSafe
<1>2. CASE Sealed(h, ps, vs)
  <2> DEFINE t  == Tally(h, vs)
             cs == <<t>>
             L  == Len(chain[n])
  <2>1. AppendBlocks(n, h, cs) /\ inbox' = Flood(box, n, out \cup {Committed(h, t)})
    BY <1>2 DEF MaybeCommit
  <2>2. t \in SUBSET Nodes /\ \A v \in t : <<h, v>> \in S
    BY DEF Tally
  <2>3. cs \in Certs /\ Len(cs) = 1 /\ cs[1] = t
    BY <2>2 DEF Certs
  <2>4. Cardinality(t) >= Needed(Last(h)) /\ Continues(n, h)
    BY <1>2 DEF Sealed
  <2>5. L \in Nat
    BY ChainParts DEF TypeOK
  <2>6. SubSeq(h, 1, L) = chain[n] /\ h[L + 1] = Last(h) /\ AppliesOnce(h)
    BY <2>4, FrontIsPrefix DEF Continues
  <2>7. SubSeq(h, 1, L + 1) = h
    <3>1. Len(h) = L + 1 /\ h \in Seq(Bodies)
      BY HashParts DEF NextIndex, Chains
    <3>. QED BY <3>1, SubSeqFull
  <2> HIDE DEF t
  <2>8. \A i \in 1..Len(cs) :
          /\ Cardinality(cs[i]) >= Needed(h[L + i])
          /\ \A v \in cs[i] : <<SubSeq(h, 1, L + i), v>> \in S
    <3>1. \A i \in 1..Len(cs) : i = 1
      BY <2>3
    <3>. QED BY <2>2, <2>3, <2>4, <2>6, <2>7, <3>1
  <2>9. Len(h) = L + Len(cs) /\ Len(cs) >= 1
    BY <2>3 DEF NextIndex
  <2> HIDE DEF cs
  <2>10. ChainsSafe(S)' /\ VotesSafe(S)'
    BY <2>1, <2>3, <2>6, <2>8, <2>9, AppendSafe
  <2>11. \A m \in out \cup {Committed(h, t)} : MessageSafe(m, S)
    BY <2>2, <2>6, MadeSafe
  <2>12. MailSafe(inbox', S)
    BY <2>1, <2>11, FloodSafe
  <2>. QED BY <2>10, <2>12 DEF MailSafe
<1>. QED BY <1>1, <1>2

\* A vote is safe once S holds it.
LEMMA VoteForSafe ==
  ASSUME TypeOK, NEW S, Safe(S), NEW n \in Nodes, NEW h \in Hashes, Continues(n, h),
         NEW box, NEW out, VoteFor(n, h, box, out),
         MailSafe(box, S), \A m \in out : MessageSafe(m, S),
         HasVoted(n, h) \/ <<h, n>> \in S
  PROVE  ChainsSafe(S)' /\ VotesSafe(S)' /\ MailSafe(inbox, S)'
<1>1. /\ proposals[n] \cup {h} \in SUBSET Hashes
      /\ votes[n] \in SUBSET (Hashes \X Nodes)
      /\ votes[n] \cup {<<h, n>>} \in SUBSET (Hashes \X Nodes)
      /\ voted[n] \in SUBSET Hashes /\ voted[n] \cup {h} \in SUBSET Hashes
  BY DEF TypeOK
<1>2. /\ \A g \in proposals[n] \cup {h} : Continues(n, g)
      /\ votes[n] \subseteq S
      /\ \A g \in voted[n] : <<g, n>> \in S /\ Len(g) <= NextIndex(n)
  BY DEF Safe, VotesSafe
<1>3. Len(h) = NextIndex(n) /\ NextIndex(n) \in Nat
  BY HashParts DEF Continues
<1>4. CASE HasVoted(n, h)
  BY <1>1, <1>2, <1>3, <1>4, MaybeCommitSafe DEF VoteFor
<1>5. CASE ~HasVoted(n, h)
  <2>1. <<h, n>> \in S
    BY <1>5
  <2>2. \A m \in out \cup {Vote(h, n)} : MessageSafe(m, S)
    BY <2>1, MadeSafe
  <2>3. \A g \in voted[n] \cup {h} : <<g, n>> \in S /\ Len(g) <= NextIndex(n)
    BY <1>2, <1>3, <2>1
  <2>4. votes[n] \cup {<<h, n>>} \subseteq S
    BY <1>2, <2>1
  <2>. QED BY <1>1, <1>2, <1>3, <1>5, <2>2, <2>3, <2>4, MaybeCommitSafe DEF VoteFor
<1>. QED BY <1>4, <1>5

-----------------------------------------------------------------------------
\* One lemma per action.

LEMMA InitSafe ==
  ASSUME Init
  PROVE  Safe({}) /\ Once({})
<1> USE DEF Init
<1>1. \A n \in Nodes : chain[n] = <<>> /\ certs[n] = <<>> /\ mempool[n] = {}
  OBVIOUS
<1>2. DOMAIN <<>> = {}
  OBVIOUS
<1>3. Stored(<<>>, <<>>, {})
  BY <1>2 DEF Stored, AppliesOnce, CertifiedBy, SignedIn
<1>4. ChainsSafe({}) /\ FilesSafe({})
  BY <1>1, <1>3 DEF ChainsSafe, FilesSafe
<1>5. VotesSafe({}) /\ MailSafe(inbox, {})
  BY DEF VotesSafe, MailSafe
<1>6. Once({})
  BY DEF Once, SignsOnce, Remembers
<1>. QED BY <1>4, <1>5, <1>6 DEF Safe

LEMMA SubmitOpSafe ==
  ASSUME TypeOK, NEW S, Safe(S), NEW n \in Nodes, NEW o, SubmitOp(n, o)
  PROVE  Safe(S)'
<1>1. ChainsSafe(S)'
  BY DEF Safe, ChainsSafe, SubmitOp, FreshOp, TypeOK
<1>2. VotesSafe(S)' /\ FilesSafe(S)'
  BY DEF Safe, VotesSafe, FilesSafe, Continues, NextIndex, SubmitOp
<1>3. MailSafe(inbox', S)
  BY FloodOpsSafe DEF Safe, SubmitOp
<1>. QED BY <1>1, <1>2, <1>3 DEF Safe, MailSafe

\* A node proposes what its chain does not hold.
LEMMA ProposalContinues ==
  ASSUME TypeOK, NEW S, Safe(S), NEW n \in Nodes,
         NEW h, h = Append(chain[n], Body(n, mempool[n], QuorumFor(Cardinality(active[n]))))
  PROVE  h \in Hashes /\ Continues(n, h)
<1> DEFINE L == Len(chain[n])
<1>1. /\ h \in Hashes /\ Len(h) = NextIndex(n) /\ Front(h) = chain[n]
      /\ Last(h) = Body(n, mempool[n], QuorumFor(Cardinality(active[n])))
  BY ProposedBlock
<1>2. Last(h).ops = mempool[n]
  BY <1>1 DEF Body
<1>3. L \in Nat /\ DOMAIN chain[n] = 1..L /\ DOMAIN h = 1..Len(h) /\ Len(h) = L + 1 /\ h \in Chains
  BY <1>1, ChainParts, HashParts DEF TypeOK, NextIndex
<1>4. SubSeq(h, 1, L) = chain[n] /\ h[L + 1] = Last(h)
  BY <1>1, FrontIsPrefix
<1>5. \A i \in 1..L : h[i] = chain[n][i]
  <2> SUFFICES ASSUME NEW i \in 1..L PROVE h[i] = chain[n][i]
    OBVIOUS
  <2>1. L \in 0..Len(h)
    BY <1>3
  <2>2. SubSeq(h, 1, L)[i] = h[i]
    BY <1>3, <2>1, PrefixOfPrefix
  <2>. QED BY <1>4, <2>2
<1>6. /\ \A i, j \in 1..L : i # j => chain[n][i].ops \cap chain[n][j].ops = {}
      /\ \A i \in 1..L : chain[n][i].ops \cap mempool[n] = {}
  BY <1>3 DEF Safe, ChainsSafe, Stored, AppliesOnce, OpsOf
<1>7. AppliesOnce(h)
  <2> SUFFICES ASSUME NEW i \in 1..(L + 1), NEW j \in 1..(L + 1), i # j
               PROVE  h[i].ops \cap h[j].ops = {}
    BY <1>3 DEF AppliesOnce
  <2>1. CASE i = L + 1
    <3>1. j \in 1..L
      BY <1>3, <2>1
    <3>. QED BY <1>2, <1>4, <1>5, <1>6, <2>1, <3>1
  <2>2. CASE j = L + 1
    <3>1. i \in 1..L
      BY <1>3, <2>2
    <3>. QED BY <1>2, <1>4, <1>5, <1>6, <2>2, <3>1
  <2>3. CASE i # L + 1 /\ j # L + 1
    <3>1. i \in 1..L /\ j \in 1..L
      BY <1>3, <2>3
    <3>. QED BY <1>5, <1>6, <3>1
  <2>. QED BY <2>1, <2>2, <2>3
<1>. QED BY <1>1, <1>7 DEF Continues

LEMMA ProposeSafe ==
  ASSUME TypeOK, NEW S, Safe(S), NEW n \in Nodes, Propose(n),
         NEW h, h = Append(chain[n], Body(n, mempool[n], QuorumFor(Cardinality(active[n])))),
         HasVoted(n, h) \/ <<h, n>> \in S
  PROVE  Safe(S)'
<1>1. h \in Hashes /\ Continues(n, h)
  BY ProposalContinues
<1>2. VoteFor(n, h, inbox, {Proposal(h)}) /\ UNCHANGED saved
  BY DEF Propose
<1>3. MailSafe(inbox, S) /\ \A m \in {Proposal(h)} : MessageSafe(m, S)
  BY <1>1, MadeSafe DEF Safe, Continues
<1>4. ChainsSafe(S)' /\ VotesSafe(S)' /\ MailSafe(inbox, S)'
  BY <1>1, <1>2, <1>3, VoteForSafe
<1>. QED BY <1>2, <1>4, FilesKept DEF Safe

LEMMA PersistSafe ==
  ASSUME TypeOK, NEW S, Safe(S), NEW n \in Nodes, Persist(n) \/ Stop(n)
  PROVE  Safe(S)'
<1>1. UNCHANGED <<chain, certs, mempool, proposals, votes, voted, inbox>>
  BY DEF Persist, Stop, engine
<1>2. \/ saved' = [saved EXCEPT ![n] = [chain |-> chain[n], certs |-> certs[n]]]
      \/ saved' = saved
  BY DEF Persist, Stop
<1>3. FilesSafe(S)'
  <2> SUFFICES ASSUME NEW m \in Nodes
               PROVE  Stored(saved'[m].chain, saved'[m].certs, S)
    BY DEF FilesSafe
  <2>1. saved'[m] = saved[m] \/ saved'[m] = [chain |-> chain[m], certs |-> certs[m]]
    BY <1>2 DEF TypeOK
  <2>2. Stored(saved[m].chain, saved[m].certs, S) /\ Stored(chain[m], certs[m], S)
    BY DEF Safe, FilesSafe, ChainsSafe
  <2>3. CASE saved'[m] = saved[m]
    BY <2>2, <2>3
  <2>4. CASE saved'[m] = [chain |-> chain[m], certs |-> certs[m]]
    <3>1. saved'[m].chain = chain[m] /\ saved'[m].certs = certs[m]
      BY <2>4
    <3>. QED BY <2>2, <3>1
  <2>. QED BY <2>1, <2>3, <2>4
<1>. QED BY <1>1, <1>3, KeptSafe DEF Safe, MailSafe

LEMMA SyncRoundSafe ==
  ASSUME TypeOK, NEW S, Safe(S), NEW n \in Nodes, SyncRound(n)
  PROVE  Safe(S)'
<1> DEFINE box == [inbox EXCEPT ![n] = @ \cup Blocks(n)]
<1>1. MailSafe(box, S)
  BY AnswersSafe DEF MailSafe, Safe, TypeOK
<1>2. inbox' = FloodOps(box, n, mempool[n])
  BY DEF SyncRound
<1> HIDE DEF box
<1>3. MailSafe(inbox', S)
  BY <1>1, <1>2, FloodOpsSafe
<1>4. UNCHANGED <<chain, certs, mempool, proposals, votes, voted>> /\ UNCHANGED saved
  BY DEF SyncRound, engine
<1>. QED BY <1>3, <1>4, KeptSafe, FilesKept DEF Safe, MailSafe

LEMMA ReceiveOpSafe ==
  ASSUME TypeOK, NEW S, Safe(S), NEW n \in Nodes, NEW msg, ReceiveOp(n, msg)
  PROVE  Safe(S)'
<1>1. ChainsSafe(S)'
  BY DEF Safe, ChainsSafe, ReceiveOp, FreshOp, TypeOK
<1>2. VotesSafe(S)' /\ FilesSafe(S)'
  BY DEF Safe, VotesSafe, FilesSafe, Continues, NextIndex, ReceiveOp
<1>3. MailSafe(inbox', S)
  BY ConsumedSafe DEF ReceiveOp
<1>. QED BY <1>1, <1>2, <1>3 DEF Safe, MailSafe

LEMMA ReceiveValidatorSafe ==
  ASSUME TypeOK, NEW S, Safe(S), NEW n \in Nodes, NEW msg, ReceiveValidator(n, msg)
  PROVE  Safe(S)'
<1>1. UNCHANGED <<chain, certs, mempool, proposals, votes, voted>> /\ UNCHANGED saved
  BY DEF ReceiveValidator
<1>2. MailSafe(inbox', S)
  BY ConsumedSafe DEF ReceiveValidator
<1>. QED BY <1>1, <1>2, KeptSafe, FilesKept DEF Safe, MailSafe

LEMMA ReceiveProposeSafe ==
  ASSUME TypeOK, NEW S, Safe(S), NEW n \in Nodes, NEW msg \in inbox[n],
         ReceivePropose(n, msg),
         Acceptable(n, msg.hash) => HasVoted(n, msg.hash) \/ <<msg.hash, n>> \in S
  PROVE  Safe(S)'
<1>1. FilesSafe(S)'
  BY FilesKept DEF ReceivePropose
<1>2. CASE Acceptable(n, msg.hash)
  <2>1. msg.hash \in Hashes
    BY MessageParts DEF TypeOK, ReceivePropose
  <2>2. Continues(n, msg.hash)
    BY <1>2 DEF Safe, MailSafe, MessageSafe, ReceivePropose, Acceptable, Continues
  <2>3. VoteFor(n, msg.hash, Consumed(n, msg), {})
    BY <1>2 DEF ReceivePropose
  <2>4. HasVoted(n, msg.hash) \/ <<msg.hash, n>> \in S
    BY <1>2
  <2>5. MailSafe(Consumed(n, msg), S) /\ \A m \in {} : MessageSafe(m, S)
    BY ConsumedSafe
  <2>6. ChainsSafe(S)' /\ VotesSafe(S)' /\ MailSafe(inbox, S)'
    BY <2>1, <2>2, <2>3, <2>4, <2>5, VoteForSafe
  <2>. QED BY <1>1, <2>6 DEF Safe
<1>3. CASE ~Acceptable(n, msg.hash)
  <2>1. UNCHANGED <<chain, certs, mempool, proposals, votes, voted>>
    BY <1>3 DEF ReceivePropose, KeepChain
  <2>2. PICK extra \in {FullChains(n), Blocks(n), {}} :
          inbox' = [Consumed(n, msg) EXCEPT ![n] = @ \cup extra]
    BY <1>3, Zenon DEF ReceivePropose
  <2>3. MailSafe(inbox', S)
    BY <2>2, AnsweredSafe
  <2>. QED BY <1>1, <2>1, <2>3, KeptSafe DEF Safe, MailSafe
<1>. QED BY <1>2, <1>3

LEMMA ReceiveVoteSafe ==
  ASSUME TypeOK, NEW S, Safe(S), NEW n \in Nodes, NEW msg \in inbox[n],
         ReceiveVote(n, msg)
  PROVE  Safe(S)'
<1> DEFINE h  == msg.hash
           vs == votes[n] \cup {<<h, msg.voter>>}
<1>1. h \in Hashes /\ msg.voter \in Nodes /\ <<h, msg.voter>> \in S
  BY MessageParts DEF TypeOK, ReceiveVote, Safe, MailSafe, MessageSafe
<1>2. vs \in SUBSET (Hashes \X Nodes) /\ vs \subseteq S
  <2>1. votes[n] \subseteq Hashes \X Nodes
    BY DEF TypeOK
  <2>2. votes[n] \subseteq S
    BY DEF Safe, VotesSafe
  <2>. QED BY <1>1, <2>1, <2>2
<1>3. FilesSafe(S)'
  BY FilesKept DEF ReceiveVote
<1>4. MailSafe(Consumed(n, msg), S)
  BY ConsumedSafe
<1>5. CASE inbox' = Consumed(n, msg) /\ KeepChain /\ UNCHANGED <<proposals, votes, voted>>
  BY <1>3, <1>4, <1>5, KeptSafe DEF KeepChain, Safe, MailSafe
<1>6. CASE Len(h) = NextIndex(n)
             /\ MaybeCommit(n, h, proposals[n], vs, voted[n], Consumed(n, msg), {})
  <2>1. proposals[n] \in SUBSET Hashes /\ voted[n] \in SUBSET Hashes
    BY DEF TypeOK
  <2>2. /\ \A g \in proposals[n] : Continues(n, g)
        /\ \A g \in voted[n] : <<g, n>> \in S /\ Len(g) <= NextIndex(n)
    BY DEF Safe, VotesSafe
  <2>3. \A m \in {} : MessageSafe(m, S)
    OBVIOUS
  <2>4. ChainsSafe(S)' /\ VotesSafe(S)' /\ MailSafe(inbox, S)'
    BY <1>1, <1>2, <1>4, <1>6, <2>1, <2>2, <2>3, MaybeCommitSafe
  <2>. QED BY <1>3, <2>4 DEF Safe
<1>7. CASE votes' = [votes EXCEPT ![n] = vs] /\ inbox' = Consumed(n, msg)
             /\ KeepChain /\ UNCHANGED <<proposals, voted>>
  <2>1. ChainsSafe(S)'
    BY <1>7 DEF Safe, ChainsSafe, KeepChain
  <2>2. VotesSafe(S)'
    BY <1>2, <1>7 DEF Safe, VotesSafe, KeepChain, Continues, NextIndex, TypeOK
  <2>. QED BY <1>3, <1>4, <1>7, <2>1, <2>2 DEF Safe, MailSafe
<1>. QED BY <1>5, <1>6, <1>7 DEF ReceiveVote

LEMMA ReceiveCommittedSafe ==
  ASSUME TypeOK, NEW S, Safe(S), NEW n \in Nodes, NEW msg \in inbox[n],
         ReceiveCommitted(n, msg)
  PROVE  Safe(S)'
<1> DEFINE h  == msg.hash
           cs == <<msg.cert>>
           L  == Len(chain[n])
<1>1. h \in Hashes /\ msg.cert \in SUBSET Nodes
  BY MessageParts DEF TypeOK, ReceiveCommitted
<1>2. AppliesOnce(h) /\ \A v \in msg.cert : <<h, v>> \in S
  BY DEF ReceiveCommitted, Safe, MailSafe, MessageSafe
<1>3. FilesSafe(S)'
  BY FilesKept DEF ReceiveCommitted
<1>4. PICK extra \in {FullChains(n), Blocks(n), {}} :
        inbox' = [Consumed(n, msg) EXCEPT ![n] = @ \cup extra]
  BY Zenon DEF ReceiveCommitted
<1>5. MailSafe(inbox', S)
  BY <1>4, AnsweredSafe
<1>6. CASE UNCHANGED <<chain, certs, mempool, proposals, votes, voted>>
  BY <1>3, <1>5, <1>6, KeptSafe DEF Safe, MailSafe
<1>7. CASE /\ Len(h) = NextIndex(n) /\ Front(h) = chain[n]
           /\ Certified(Last(h), msg.cert, validators[n] \cup {Last(h).proposer})
           /\ AppendBlocks(n, h, cs)
  <2>1. L \in Nat /\ Len(h) = L + 1 /\ h \in Seq(Bodies) /\ Last(h) \in Bodies
    BY <1>1, <1>7, ChainParts, HashParts DEF TypeOK, NextIndex, Chains
  <2>2. SubSeq(h, 1, L) = chain[n] /\ h[L + 1] = Last(h)
    BY <1>1, <1>7, FrontIsPrefix
  <2>3. SubSeq(h, 1, L + 1) = h
    BY <2>1, SubSeqFull
  <2>4. Needed(Last(h)) \in Int
    BY <2>1, NeededType
  <2>5. Cardinality(msg.cert) >= Needed(Last(h))
    BY <1>1, <1>7, <2>4, CertifiedIsEnough
  <2>6. cs \in Certs /\ Len(cs) = 1 /\ cs[1] = msg.cert
    BY <1>1 DEF Certs
  <2>7. \A i \in 1..Len(cs) :
          /\ Cardinality(cs[i]) >= Needed(h[L + i])
          /\ \A v \in cs[i] : <<SubSeq(h, 1, L + i), v>> \in S
    <3>1. \A i \in 1..Len(cs) : i = 1
      BY <2>6
    <3>. QED BY <1>2, <2>2, <2>3, <2>5, <2>6, <3>1
  <2>8. Len(h) = L + Len(cs) /\ Len(cs) >= 1
    BY <2>1, <2>6
  <2> HIDE DEF cs
  <2>9. AppendBlocks(n, h, cs)
    BY <1>7
  <2>10. ChainsSafe(S)' /\ VotesSafe(S)'
    BY <1>1, <1>2, <2>2, <2>6, <2>7, <2>8, <2>9, AppendSafe
  <2>. QED BY <1>3, <1>5, <2>10 DEF Safe, MailSafe
<1>. QED BY <1>6, <1>7, Zenon DEF ReceiveCommitted, KeepChain

LEMMA ReceiveBlocksSafe ==
  ASSUME TypeOK, NEW S, Safe(S), NEW n \in Nodes, NEW msg \in inbox[n],
         ReceiveBlocks(n, msg)
  PROVE  Safe(S)'
<1>1. FilesSafe(S)'
  BY FilesKept DEF ReceiveBlocks
<1>2. CASE Linked(n, msg) = {}
  <2>1. UNCHANGED <<chain, certs, mempool, proposals, votes, voted>>
    BY <1>2 DEF ReceiveBlocks, KeepChain
  <2>2. PICK extra \in {FullChains(n), Blocks(n), {}} :
          inbox' = [Consumed(n, msg) EXCEPT ![n] = @ \cup extra]
    BY <1>2, Zenon DEF ReceiveBlocks
  <2>3. MailSafe(inbox', S)
    BY <2>2, AnsweredSafe
  <2>. QED BY <1>1, <2>1, <2>3, KeptSafe DEF Safe, MailSafe
<1>3. CASE \E k \in Linked(n, msg) :
             /\ AppendBlocks(n, SubSeq(msg.hash, 1, k), SubSeq(msg.certs, NextIndex(n), k))
             /\ inbox' = Consumed(n, msg)
  <2>1. PICK k \in Linked(n, msg) :
             /\ AppendBlocks(n, SubSeq(msg.hash, 1, k), SubSeq(msg.certs, NextIndex(n), k))
             /\ inbox' = Consumed(n, msg)
    BY <1>3
  <2> DEFINE c  == msg.hash
             h  == SubSeq(c, 1, k)
             cs == SubSeq(msg.certs, NextIndex(n), k)
             L  == Len(chain[n])
  <2>2. /\ h \in Hashes /\ Len(h) = k /\ cs \in Certs /\ Len(cs) = k - L
        /\ \A i \in 1..(k - L) : cs[i] = msg.certs[L + i]
    BY LinkedBlocks DEF ReceiveBlocks
  <2>3. /\ c \in Chains /\ msg.certs \in Certs /\ Len(msg.certs) = Len(c)
        /\ Stored(c, msg.certs, S)
    BY MessageParts DEF TypeOK, ReceiveBlocks, Safe, MailSafe, MessageSafe
  <2>4. L \in Nat /\ Len(c) \in Nat /\ DOMAIN c = 1..Len(c)
    BY <2>3, ChainParts DEF TypeOK
  <2>5. k \in Nat /\ k >= L + 1 /\ k <= Len(c) /\ IsPrefix(chain[n], c)
    BY <2>4 DEF Linked, NextIndex
  <2>6. k \in 0..Len(c) /\ AppliesOnce(h)
    <3>1. k \in 0..Len(c)
      BY <2>4, <2>5
    <3>. QED BY <2>3, <3>1, PrefixApplies DEF Stored
  <2>7. SubSeq(h, 1, L) = chain[n]
    <3>1. SubSeq(c, 1, L) = chain[n]
      <4>1. SubSeq(chain[n], 1, L) = chain[n]
        BY SubSeqFull DEF TypeOK, Chains
      <4>. QED BY <2>5, <4>1 DEF IsPrefix
    <3>2. CASE L = 0
      <4>1. SubSeq(h, 1, L) = <<>> /\ SubSeq(c, 1, L) = <<>>
        BY <3>2, SubSeqEmpty
      <4>. QED BY <3>1, <4>1
    <3>3. CASE L # 0
      <4>1. L \in 1..k
        BY <2>4, <2>5, <3>3
      <4>. QED BY <2>3, <2>6, <3>1, <4>1, PrefixOfPrefix
    <3>. QED BY <3>2, <3>3
  <2>8. ASSUME NEW i \in 1..Len(cs)
        PROVE  /\ Cardinality(cs[i]) >= Needed(h[L + i])
               /\ \A v \in cs[i] : <<SubSeq(h, 1, L + i), v>> \in S
    <3>1. L + i \in 1..k /\ L + i \in DOMAIN c /\ i \in 1..(k - L)
      BY <2>2, <2>4, <2>5, SMTT(60)
    <3>2. cs[i] = msg.certs[L + i]
      BY <2>2, <3>1
    <3>3. SubSeq(h, 1, L + i) = SubSeq(c, 1, L + i) /\ h[L + i] = c[L + i]
      BY <2>3, <2>6, <3>1, PrefixOfPrefix
    <3>. QED BY <2>3, <3>1, <3>2, <3>3 DEF Stored, CertifiedBy, SignedIn
  <2>9. Len(h) = L + Len(cs) /\ Len(cs) >= 1
    BY <2>2, <2>4, <2>5
  <2>10. AppendBlocks(n, h, cs)
    BY <2>1
  <2> HIDE DEF h, cs
  <2>11. ChainsSafe(S)' /\ VotesSafe(S)'
    BY <2>2, <2>6, <2>7, <2>8, <2>9, <2>10, AppendSafe
  <2>12. MailSafe(inbox', S)
    BY <2>1, ConsumedSafe
  <2>. QED BY <1>1, <2>11, <2>12 DEF Safe, MailSafe
<1>. QED BY <1>2, <1>3 DEF ReceiveBlocks

LEMMA ReceiveFullChainSafe ==
  ASSUME TypeOK, NEW S, Safe(S), NEW n \in Nodes, NEW msg \in inbox[n],
         ReceiveFullChain(n, msg)
  PROVE  Safe(S)'
<1>1. FilesSafe(S)' /\ MailSafe(inbox', S)
  BY FilesKept, ConsumedSafe DEF ReceiveFullChain
<1>2. Stored(msg.hash, msg.certs, S)
  BY DEF ReceiveFullChain, Safe, MailSafe, MessageSafe
<1>3. CASE UNCHANGED <<chain, certs, mempool, proposals, votes, voted>>
  BY <1>1, <1>3, KeptSafe DEF Safe, MailSafe
<1>4. CASE /\ chain' = [chain EXCEPT ![n] = msg.hash]
           /\ certs' = [certs EXCEPT ![n] = msg.certs]
           /\ mempool' = [mempool EXCEPT ![n] = KeptOps(n, OpsOf(msg.hash))]
           /\ proposals' = [proposals EXCEPT ![n] = {}]
           /\ votes' = [votes EXCEPT ![n] = {}]
           /\ voted' = [voted EXCEPT ![n] = {}]
  <2>1. ChainsSafe(S)'
    BY <1>2, <1>4 DEF Safe, ChainsSafe, KeptOps, TypeOK
  <2>2. VotesSafe(S)'
    BY <1>4 DEF Safe, VotesSafe, Continues, NextIndex, TypeOK
  <2>. QED BY <1>1, <2>1, <2>2 DEF Safe, MailSafe
<1>. QED BY <1>3, <1>4 DEF ReceiveFullChain, KeepChain

LEMMA ConnectSafe ==
  ASSUME TypeOK, NEW S, Safe(S), NEW n \in Nodes, NEW m \in Nodes, Connect(n, m)
  PROVE  Safe(S)'
<1>1. \A k, a, b \in Nodes : \A x \in HelloTo(k, a, b) : MessageSafe(x, S)
  <2>1. \A b \in Nodes : MessageSafe(SyncResponse(FALSE, b), S)
    BY AnswersSafe DEF Safe
  <2>. QED BY <2>1, MadeSafe DEF HelloTo
<1>2. MailSafe(inbox', S)
  BY <1>1 DEF Safe, MailSafe, Connect
<1>3. UNCHANGED <<chain, certs, mempool, proposals, votes, voted>> /\ UNCHANGED saved
  BY DEF Connect
<1>. QED BY <1>2, <1>3, KeptSafe, FilesKept DEF Safe, MailSafe

LEMMA DisconnectSafe ==
  ASSUME TypeOK, NEW S, Safe(S), NEW n \in Nodes, NEW m \in Nodes, Disconnect(n, m)
  PROVE  Safe(S)'
<1>1. UNCHANGED <<chain, certs, mempool, proposals, votes, voted, inbox>> /\ UNCHANGED saved
  BY DEF Disconnect
<1>. QED BY <1>1, KeptSafe, FilesKept DEF Safe, MailSafe

\* A restart takes up a chain that was saved, or none.
LEMMA RestartSafe ==
  ASSUME TypeOK, NEW S, Safe(S), NEW n \in Nodes, Restart(n)
  PROVE  Safe(S)'
<1>1. PICK file \in Restorable(n) :
        /\ saved' = [saved EXCEPT ![n] = file]
        /\ chain' = [chain EXCEPT ![n] = file.chain]
        /\ certs' = [certs EXCEPT ![n] = file.certs]
  BY DEF Restart, RestoreChain
<1>2. Stored(file.chain, file.certs, S)
  <2>1. Stored(saved[n].chain, saved[n].certs, S)
    BY DEF Safe, FilesSafe
  <2>2. DOMAIN <<>> = {}
    OBVIOUS
  <2>3. Stored(<<>>, <<>>, S)
    BY <2>2 DEF Stored, AppliesOnce, CertifiedBy, SignedIn
  <2>. QED BY <2>1, <2>3 DEF Restorable
<1>3. ChainsSafe(S)' /\ FilesSafe(S)'
  BY <1>1, <1>2 DEF Safe, ChainsSafe, FilesSafe, TypeOK, Restart
<1>4. VotesSafe(S)'
  BY <1>1 DEF Safe, VotesSafe, Continues, NextIndex, TypeOK, Restart
<1>5. MailSafe(inbox', S)
  BY DEF Safe, MailSafe, TypeOK, Restart
<1>. QED BY <1>3, <1>4, <1>5 DEF Safe, MailSafe

-----------------------------------------------------------------------------
\* A node that does not restart forgets no vote its chain has not reached.

Forward(n) ==
  \/ chain'[n] = chain[n] /\ voted[n] \subseteq voted'[n]
  \/ Len(chain'[n]) > Len(chain[n])

LEMMA AppendForward ==
  ASSUME TypeOK, NEW n \in Nodes, NEW h, NEW cs, AppendBlocks(n, h, cs),
         Len(h) > Len(chain[n]), NEW m \in Nodes
  PROVE  Forward(m)
BY DEF AppendBlocks, Forward, TypeOK

LEMMA MaybeCommitForward ==
  ASSUME TypeOK, NEW n \in Nodes, NEW h, Len(h) = NextIndex(n),
         NEW ps, NEW vs, NEW vd, voted[n] \subseteq vd, NEW box, NEW out,
         MaybeCommit(n, h, ps, vs, vd, box, out), NEW m \in Nodes
  PROVE  Forward(m)
<1>1. Len(h) > Len(chain[n])
  BY ChainParts DEF NextIndex, TypeOK
<1>2. CASE Sealed(h, ps, vs)
  BY <1>1, <1>2, AppendForward DEF MaybeCommit
<1>3. CASE ~Sealed(h, ps, vs)
  BY <1>3 DEF MaybeCommit, KeepChain, Forward, TypeOK
<1>. QED BY <1>2, <1>3

LEMMA VoteForForward ==
  ASSUME TypeOK, NEW n \in Nodes, NEW h, Len(h) = NextIndex(n), NEW box, NEW out,
         VoteFor(n, h, box, out), NEW m \in Nodes
  PROVE  Forward(m)
<1>1. voted[n] \subseteq voted[n] /\ voted[n] \subseteq voted[n] \cup {h}
  OBVIOUS
<1>. QED BY <1>1, MaybeCommitForward DEF VoteFor

LEMMA ReceiveForward ==
  ASSUME TypeOK, NEW n \in Nodes, NEW msg \in inbox[n], Receive(n, msg), NEW m \in Nodes
  PROVE  Forward(m)
<1>1. CASE UNCHANGED <<chain, certs, mempool, proposals, votes, voted>>
  BY <1>1 DEF Forward
<1>2. CASE ReceiveOp(n, msg) \/ ReceiveValidator(n, msg)
  BY <1>2 DEF Forward, ReceiveOp, ReceiveValidator
<1>3. CASE ReceivePropose(n, msg)
  BY <1>1, <1>3, VoteForForward DEF ReceivePropose, Acceptable, KeepChain
<1>4. CASE ReceiveVote(n, msg)
  <2>1. voted[n] \subseteq voted[n]
    OBVIOUS
  <2>2. CASE UNCHANGED <<chain, voted>>
    BY <2>2 DEF Forward
  <2>. QED BY <1>4, <2>1, <2>2, MaybeCommitForward DEF ReceiveVote, KeepChain
<1>5. CASE ReceiveCommitted(n, msg)
  <2>1. Len(msg.hash) = NextIndex(n) => Len(msg.hash) > Len(chain[n])
    BY ChainParts DEF NextIndex, TypeOK
  <2>. QED BY <1>1, <1>5, <2>1, AppendForward, Zenon DEF ReceiveCommitted, KeepChain
<1>6. CASE ReceiveBlocks(n, msg)
  <2>1. ASSUME NEW k \in Linked(n, msg),
               AppendBlocks(n, SubSeq(msg.hash, 1, k), SubSeq(msg.certs, NextIndex(n), k))
        PROVE  Forward(m)
    <3>1. Len(SubSeq(msg.hash, 1, k)) = k
      BY <1>6, LinkedBlocks DEF ReceiveBlocks
    <3>2. k > Len(chain[n])
      BY ChainParts DEF Linked, NextIndex, TypeOK
    <3>. QED BY <2>1, <3>1, <3>2, AppendForward
  <2>. QED BY <1>1, <1>6, <2>1 DEF ReceiveBlocks, KeepChain
<1>7. CASE ReceiveFullChain(n, msg)
  BY <1>1, <1>7 DEF ReceiveFullChain, KeepChain, Better, Forward, TypeOK
<1>. QED BY <1>2, <1>3, <1>4, <1>5, <1>6, <1>7 DEF Receive

LEMMA NextForward ==
  ASSUME TypeOK, [Next]_vars, NEW m \in Nodes
  PROVE  Forward(m) \/ (m \in Restarters /\ seen'[m] = {m})
<1>1. CASE UNCHANGED <<chain, voted>>
  BY <1>1 DEF Forward
<1>2. CASE \E n \in Nodes : Propose(n)
  <2>1. PICK n \in Nodes : Propose(n)
    BY <1>2
  <2> DEFINE h == Append(chain[n], Body(n, mempool[n], QuorumFor(Cardinality(active[n]))))
  <2>2. VoteFor(n, h, inbox, {Proposal(h)}) /\ Len(h) = NextIndex(n)
    BY <2>1, ProposedBlock DEF Propose
  <2>. QED BY <2>2, VoteForForward
<1>3. CASE \E n \in Nodes : Deliver(n)
  BY <1>3, ReceiveForward DEF Deliver
<1>4. CASE \E n \in Nodes : Restart(n)
  <2>1. PICK n \in Nodes : Restart(n)
    BY <1>4
  <2>2. CASE m = n
    BY <2>1, <2>2 DEF Restart, TypeOK
  <2>3. CASE m # n
    BY <2>1, <2>3 DEF Restart, RestoreChain, TypeOK, Forward
  <2>. QED BY <2>2, <2>3
<1>5. CASE \E o \in Ops : SubmitOp(Author[o], o)
  BY <1>1, <1>5 DEF SubmitOp
<1>6. CASE \E n \in Nodes : Persist(n) \/ SyncRound(n) \/ Stop(n)
  BY <1>1, <1>6 DEF Persist, SyncRound, Stop, engine
<1>7. CASE \E n, k \in Nodes : Connect(n, k) \/ Disconnect(n, k)
  BY <1>1, <1>7 DEF Connect, Disconnect
<1>8. CASE UNCHANGED vars
  BY <1>1, <1>8 DEF vars, engine
<1>. QED BY <1>2, <1>3, <1>4, <1>5, <1>6, <1>7, <1>8 DEF Next

\* Every step but a vote keeps the promise.
LEMMA OnceKept ==
  ASSUME TypeOK, TypeOK', [Next]_vars, NEW S \in Signatures, Safe(S), Once(S)
  PROVE  Once(S)'
<1>1. SignsOnce(S)'
  BY DEF Once, SignsOnce
<1>2. Remembers(S)'
  <2> SUFFICES ASSUME NEW v \in Nodes \ Restarters, NEW h \in Hashes, <<h, v>> \in S
               PROVE  Len(h) <= Len(chain'[v]) \/ h \in voted'[v]
    BY DEF Remembers
  <2>1. Len(h) \in Nat /\ Len(chain[v]) \in Nat /\ Len(chain'[v]) \in Nat
    <3>1. chain[v] \in Chains /\ chain'[v] \in Chains
      BY DEF TypeOK
    <3>. QED BY <3>1, HashParts, ChainParts
  <2>2. Len(h) <= Len(chain[v]) \/ h \in voted[v]
    BY DEF Once, Remembers
  <2>3. h \in voted[v] => Len(h) <= Len(chain[v]) + 1
    BY DEF Safe, VotesSafe, NextIndex
  <2>4. Forward(v)
    BY NextForward
  <2>. QED BY <2>1, <2>2, <2>3, <2>4 DEF Forward
<1>. QED BY <1>1, <1>2 DEF Once

\* A node that votes has signed nothing else of that height, and remembers it.
LEMMA OnceVoted ==
  ASSUME TypeOK, TypeOK', [Next]_vars, NEW S \in Signatures, Safe(S), Once(S),
         NEW n \in Nodes, NEW h \in Hashes, Len(h) = NextIndex(n), ~HasVoted(n, h),
         NEW box, NEW out, VoteFor(n, h, box, out)
  PROVE  Once(S \cup {<<h, n>>})'
<1> DEFINE T == S \cup {<<h, n>>}
<1>1. Once(S)'
  BY OnceKept
<1>2. Len(h) \in Nat /\ Len(chain[n]) \in Nat /\ Len(h) = Len(chain[n]) + 1
  BY HashParts, ChainParts DEF TypeOK, NextIndex
<1>3. ASSUME NEW g \in Hashes, <<g, n>> \in S, n \notin Restarters
      PROVE  Len(g) # Len(h)
  <2>1. Len(g) <= Len(chain[n]) \/ g \in voted[n]
    BY <1>3 DEF Once, Remembers
  <2>2. g \in voted[n] => Len(g) # Len(h)
    BY DEF HasVoted
  <2>. QED BY <1>2, <2>1, <2>2
<1>4. SignsOnce(T)
  BY <1>3 DEF Once, SignsOnce
<1>5. Len(h) <= Len(chain'[n]) \/ h \in voted'[n]
  <2>1. MaybeCommit(n, h, proposals[n] \cup {h}, votes[n] \cup {<<h, n>>},
                    voted[n] \cup {h}, box, out \cup {Vote(h, n)})
    BY DEF VoteFor
  <2>2. chain' = [chain EXCEPT ![n] = h] \/ voted' = [voted EXCEPT ![n] = voted[n] \cup {h}]
    BY <2>1 DEF MaybeCommit, AppendBlocks
  <2>. QED BY <1>2, <2>2 DEF TypeOK
<1>6. Remembers(T)'
  BY <1>1, <1>5 DEF Once, Remembers
<1>. QED BY <1>4, <1>6 DEF Once, SignsOnce

LEMMA NextSafe ==
  ASSUME TypeOK, [Next]_vars, NEW S \in Signatures, Safe(S), Once(S)
  PROVE  \E T \in Signatures : Safe(T)' /\ Once(T)'
<1>0. TypeOK'
  BY NextTypes
<1>1. Once(S)'
  BY <1>0, OnceKept
<1>2. ASSUME Safe(S)' PROVE \E T \in Signatures : Safe(T)' /\ Once(T)'
  BY <1>1, <1>2
<1>3. CASE \E n \in Nodes : Propose(n)
  <2>1. PICK n \in Nodes : Propose(n)
    BY <1>3
  <2>2. PICK h \in Hashes :
          h = Append(chain[n], Body(n, mempool[n], QuorumFor(Cardinality(active[n]))))
    BY ProposedBlock
  <2> DEFINE T == S \cup {<<h, n>>}
  <2>3. Len(h) = NextIndex(n) /\ VoteFor(n, h, inbox, {Proposal(h)})
    BY <2>1, <2>2, ProposedBlock DEF Propose
  <2>4. CASE HasVoted(n, h)
    BY <1>2, <2>1, <2>2, <2>4, ProposeSafe
  <2>5. CASE ~HasVoted(n, h)
    <3>1. T \in Signatures /\ S \subseteq T /\ <<h, n>> \in T
      BY DEF Signatures
    <3>2. Once(T)'
      BY <1>0, <2>3, <2>5, OnceVoted
    <3> HIDE DEF T
    <3>3. Safe(T)
      BY <3>1, SafeGrows
    <3>4. Safe(T)'
      BY <2>1, <2>2, <3>1, <3>3, ProposeSafe
    <3>. QED BY <3>1, <3>2, <3>4
  <2>. QED BY <2>4, <2>5
<1>4. CASE \E n \in Nodes : \E msg \in inbox[n] : ReceivePropose(n, msg)
  <2>0. PICK n \in Nodes : \E msg \in inbox[n] : ReceivePropose(n, msg)
    BY <1>4
  <2>1. PICK msg \in inbox[n] : ReceivePropose(n, msg)
    BY <2>0
  <2> DEFINE h == msg.hash
             T == S \cup {<<h, n>>}
  <2>2. h \in Hashes
    BY <2>1, MessageParts DEF TypeOK, ReceivePropose
  <2>3. CASE HasVoted(n, h) \/ ~Acceptable(n, h)
    BY <1>2, <2>1, <2>3, ReceiveProposeSafe
  <2>4. CASE ~HasVoted(n, h) /\ Acceptable(n, h)
    <3>1. T \in Signatures /\ S \subseteq T /\ <<h, n>> \in T
      BY <2>2 DEF Signatures
    <3>2. VoteFor(n, h, Consumed(n, msg), {}) /\ Len(h) = NextIndex(n)
      BY <2>1, <2>4 DEF ReceivePropose, Acceptable
    <3>3. Once(T)'
      BY <1>0, <2>2, <2>4, <3>2, OnceVoted
    <3> HIDE DEF T
    <3>4. Safe(T)
      BY <3>1, SafeGrows
    <3>5. Safe(T)'
      BY <2>1, <3>1, <3>4, ReceiveProposeSafe
    <3>. QED BY <3>1, <3>3, <3>5
  <2>. QED BY <2>3, <2>4
<1>5. CASE \E n \in Nodes : \E msg \in inbox[n] : Receive(n, msg) /\ ~ReceivePropose(n, msg)
  BY <1>2, <1>5, ReceiveOpSafe, ReceiveValidatorSafe, ReceiveVoteSafe,
     ReceiveCommittedSafe, ReceiveBlocksSafe, ReceiveFullChainSafe DEF Receive
<1>6. CASE \E o \in Ops : SubmitOp(Author[o], o)
  BY <1>2, <1>6, SubmitOpSafe, MeshAssumption
<1>7. CASE \E n \in Nodes : Persist(n) \/ Stop(n) \/ SyncRound(n) \/ Restart(n)
  BY <1>2, <1>7, PersistSafe, SyncRoundSafe, RestartSafe
<1>8. CASE \E n, m \in Nodes : Connect(n, m) \/ Disconnect(n, m)
  BY <1>2, <1>8, ConnectSafe, DisconnectSafe
<1>9. CASE UNCHANGED vars
  <2>1. Safe(S)'
    BY <1>9 DEF vars, engine, Safe, ChainsSafe, FilesSafe, VotesSafe, MailSafe, Continues, NextIndex
  <2>. QED BY <1>2, <2>1
<1>. QED BY <1>3, <1>4, <1>5, <1>6, <1>7, <1>8, <1>9 DEF Next, Deliver

-----------------------------------------------------------------------------
\* What follows.

LEMMA SafetyInvariant == Spec => []SafetyInv
<1>1. Init => SafetyInv
  <2>1. {} \in Signatures
    BY DEF Signatures
  <2>. QED BY <2>1, InitTypes, InitSafe DEF SafetyInv
<1>2. SafetyInv /\ [Next]_vars => SafetyInv'
  BY NextTypes, NextSafe DEF SafetyInv
<1>. QED BY <1>1, <1>2, PTL DEF Spec

LEMMA SafeCertified ==
  ASSUME SafetyInv
  PROVE  ChainsAreCertified
BY DEF SafetyInv, Safe, ChainsSafe, Stored, CertifiedBy, ChainsAreCertified

LEMMA SafeApplied ==
  ASSUME SafetyInv
  PROVE  OpsCommitOnce
BY DEF SafetyInv, Safe, ChainsSafe, Stored, AppliesOnce, OpsCommitOnce

LEMMA SafeForks ==
  ASSUME SafetyInv
  PROVE  ForksShareNoVoter
<1> SUFFICES ASSUME NEW n \in Nodes, NEW m \in Nodes,
                    NEW i \in DOMAIN chain[n] \cap DOMAIN chain[m],
                    NEW v \in certs[n][i] \cap certs[m][i], v \notin Restarters
             PROVE  SubSeq(chain[n], 1, i) = SubSeq(chain[m], 1, i)
  BY DEF ForksShareNoVoter
<1>1. PICK S \in Signatures : Safe(S) /\ Once(S)
  BY DEF SafetyInv
<1> DEFINE g == SubSeq(chain[n], 1, i)
           h == SubSeq(chain[m], 1, i)
<1>2. <<g, v>> \in S /\ <<h, v>> \in S
  BY <1>1 DEF Safe, ChainsSafe, Stored, SignedIn
<1>3. g \in Hashes /\ h \in Hashes /\ v \in Nodes
  BY <1>2 DEF Signatures
<1>4. Len(g) = i /\ Len(h) = i
  <2>1. /\ chain[n] \in Chains /\ chain[m] \in Chains
        /\ DOMAIN chain[n] = 1..Len(chain[n]) /\ DOMAIN chain[m] = 1..Len(chain[m])
        /\ Len(chain[n]) \in Nat /\ Len(chain[m]) \in Nat
    BY ChainParts DEF SafetyInv, TypeOK
  <2>2. i \in 0..Len(chain[n]) /\ i \in 0..Len(chain[m])
    BY <2>1
  <2>. QED BY <2>1, <2>2, PrefixIsChain
<1> HIDE DEF g, h
<1>5. g = h
  BY <1>1, <1>2, <1>3, <1>4 DEF Once, SignsOnce
<1>. QED BY <1>5 DEF g, h

LEMMA SafeQuorums ==
  ASSUME SafetyInv
  PROVE  ConflictsNeedSmallQuorums
<1> SUFFICES ASSUME NEW n \in Nodes, NEW m \in Nodes,
                    NEW i \in DOMAIN chain[n] \cap DOMAIN chain[m],
                    SubSeq(chain[n], 1, i) # SubSeq(chain[m], 1, i)
             PROVE  Needed(chain[n][i]) + Needed(chain[m][i])
                      <= Cardinality(Nodes) + Cardinality(Restarters)
  BY DEF ConflictsNeedSmallQuorums
<1> DEFINE A == certs[n][i]
           B == certs[m][i]
<1>1. /\ Cardinality(A) >= Needed(chain[n][i]) /\ Cardinality(B) >= Needed(chain[m][i])
      /\ A \cap B \subseteq Restarters
  BY SafeCertified, SafeForks DEF ChainsAreCertified, ForksShareNoVoter
<1>2. A \subseteq Nodes /\ B \subseteq Nodes
  <2>1. /\ certs[n] \in Certs /\ certs[m] \in Certs
        /\ Len(certs[n]) = Len(chain[n]) /\ Len(certs[m]) = Len(chain[m])
        /\ chain[n] \in Chains /\ chain[m] \in Chains
    BY DEF SafetyInv, TypeOK
  <2>2. i \in 1..Len(certs[n]) /\ i \in 1..Len(certs[m])
    BY <2>1, ChainParts
  <2>. QED BY <2>1, <2>2, CertParts
<1>3. Needed(chain[n][i]) \in Nat /\ Needed(chain[m][i]) \in Nat
  BY ChainParts, NeededType DEF SafetyInv, TypeOK
<1> HIDE DEF A, B
<1>4. IsFiniteSet(A) /\ IsFiniteSet(B) /\ IsFiniteSet(A \cup B)
  BY <1>2, MeshAssumption, FS_Subset
<1>5. Cardinality(A \cup B) = Cardinality(A) + Cardinality(B) - Cardinality(A \cap B)
  BY <1>4, FS_Union
<1>6. Cardinality(A \cup B) <= Cardinality(Nodes) /\ Cardinality(Nodes) \in Nat
  BY <1>2, MeshAssumption, FS_Subset, FS_CardinalityType
<1>7. /\ IsFiniteSet(Restarters) /\ IsFiniteSet(A \cap B)
      /\ Cardinality(A \cap B) <= Cardinality(Restarters)
  <2>1. IsFiniteSet(Restarters)
    BY MeshAssumption, FS_Subset
  <2>2. A \cap B \in SUBSET Restarters
    BY <1>1 DEF A, B
  <2>. QED BY <2>1, <2>2, FS_Subset
<1>8. /\ Cardinality(A) \in Nat /\ Cardinality(B) \in Nat
      /\ Cardinality(A \cap B) \in Nat /\ Cardinality(Restarters) \in Nat
      /\ Cardinality(A \cup B) \in Nat
  BY <1>4, <1>7, FS_CardinalityType
<1>. QED BY <1>1, <1>3, <1>5, <1>6, <1>7, <1>8

\* Every block of every chain carries the votes its proposer asked for, however
\* the chain was reached: by counting votes (maybe_commit), by a certificate, by
\* catch-up, by adopting a longer chain or from the chain file.
THEOREM BlocksAreCertified == Spec => []ChainsAreCertified
BY SafetyInvariant, SafeCertified, PTL

\* No replica applies an operation twice or keeps one pending that it has applied:
\* gossip, proposals, catch-up and reorganisation together never double a payment.
THEOREM OperationsApplyOnce == Spec => []OpsCommitOnce
BY SafetyInvariant, SafeApplied, PTL

\* Only a node that restarts can have signed two blocks of one height: votes that
\* are forgotten on append and on adoption are never cast again.
THEOREM OneVotePerHeight == Spec => []ForksShareNoVoter
BY SafetyInvariant, SafeForks, PTL

\* Two different blocks of one height were sealed with quorums that together fit
\* the mesh, but for the nodes that restart.
THEOREM ConflictingQuorums == Spec => []ConflictsNeedSmallQuorums
BY SafetyInvariant, SafeQuorums, PTL

\* A replica gives its chain up for a strictly longer one only, but by a restart.
THEOREM ForkChoiceByLength == Spec => OnlyLongerChainsReplace
<1>1. TypeOK /\ [Next]_vars =>
        [\A n \in Nodes : \/ IsPrefix(chain[n], chain'[n])
                          \/ Len(chain'[n]) > Len(chain[n])
                          \/ seen'[n] = {n}]_vars
  <2> SUFFICES ASSUME TypeOK, [Next]_vars, NEW n \in Nodes
               PROVE  \/ IsPrefix(chain[n], chain'[n])
                      \/ Len(chain'[n]) > Len(chain[n])
                      \/ seen'[n] = {n}
    OBVIOUS
  <2>1. Len(chain[n]) \in Nat
    BY ChainParts DEF TypeOK
  <2>2. chain'[n] = chain[n] => IsPrefix(chain[n], chain'[n])
    BY <2>1 DEF IsPrefix
  <2>. QED BY <2>2, NextForward DEF Forward
<1>. QED BY <1>1, TypeCorrectness, PTL DEF Spec, OnlyLongerChainsReplace

-----------------------------------------------------------------------------
(***************************************************************************)
(* The refinement.  While membership is stable every block is made with    *)
(* the quorum of the whole mesh, two of which share a node: by             *)
(* ConflictsNeedSmallQuorums the chains are then the beginnings of one     *)
(* another.  StableInv says so of every block that is stored or travels,   *)
(* and that no answer is longer than some replica: a step makes one        *)
(* replica longer, either by blocks another one has, which is CatchUp, or  *)
(* by one block over the longest chain, which is Seal.                     *)
(***************************************************************************)

\* Membership is stable: the mesh is connected, every node knows it, and no link
\* and no node goes down or comes back.
StableMembership ==
  /\ Nodes # {}
  /\ \A n \in Nodes : Reach(n, InitialLinks, Nodes) = Nodes \ {n}
  /\ Restarters = {} /\ MaxChanges = 0

\* Every block has operations, and the quorum of the whole mesh.
Regular(c) ==
  \A i \in DOMAIN c : c[i].ops # {} /\ c[i].quorum = QuorumFor(Cardinality(Nodes))

\* Some replica is as long.
Held(c) == \E p \in Nodes : Len(c) <= Len(chain[p])

MessageRegular(m) ==
  /\ m.type \in {"Propose", "Committed"} => Regular(m.hash)
  /\ m.type = "SyncResponse" => Regular(m.hash) /\ Held(m.hash)

MailRegular(box) == \A n \in Nodes : \A m \in box[n] : MessageRegular(m)

EverybodyCounts == \A n \in Nodes : active[n] = Nodes

BlocksRegular ==
  \A n \in Nodes : Regular(chain[n]) /\ \A h \in proposals[n] : Regular(h)

StableInv == EverybodyCounts /\ BlocksRegular /\ MailRegular(inbox)

-----------------------------------------------------------------------------
LEMMA RegularPrefix ==
  ASSUME NEW c \in Chains, NEW k \in 0..Len(c), Regular(c)
  PROVE  Regular(SubSeq(c, 1, k))
<1>1. Len(c) \in Nat /\ DOMAIN c = 1..Len(c)
  BY ChainParts
<1>2. DOMAIN SubSeq(c, 1, k) = 1..k
  BY PrefixIsChain, ChainParts
<1>3. \A i \in 1..k : SubSeq(c, 1, k)[i] = c[i] /\ i \in DOMAIN c
  BY <1>1, PrefixOfPrefix
<1>. QED BY <1>2, <1>3 DEF Regular

LEMMA MadeRegular ==
  /\ \A o : MessageRegular(Op(o))
  /\ \A k : MessageRegular(Validator(k))
  /\ \A h : Regular(h) => MessageRegular(Proposal(h))
  /\ \A h, v : MessageRegular(Vote(h, v))
  /\ \A h, c : Regular(h) => MessageRegular(Committed(h, c))
BY DEF MessageRegular, Op, Validator, Proposal, Vote, Committed

LEMMA AnswersRegular ==
  ASSUME TypeOK, BlocksRegular, NEW n \in Nodes
  PROVE  /\ \A full : MessageRegular(SyncResponse(full, n))
         /\ \A m \in Blocks(n) \cup FullChains(n) : MessageRegular(m)
<1>1. \A p \in Nodes : Held(chain[p])
  BY ChainParts DEF Held, TypeOK
<1>2. \A full : \A p \in Nodes : MessageRegular(SyncResponse(full, p))
  BY <1>1 DEF BlocksRegular, MessageRegular, SyncResponse
<1>3. Neighbors(n, links) \subseteq Nodes
  BY DEF Neighbors
<1>. QED BY <1>2, <1>3 DEF Blocks, FullChains

LEMMA FloodRegular ==
  ASSUME NEW n \in Nodes, NEW box, NEW msgs, MailRegular(box),
         \A m \in msgs : MessageRegular(m)
  PROVE  MailRegular(Flood(box, n, msgs))
BY DEF Flood, MailRegular

LEMMA FloodOpsRegular ==
  ASSUME NEW n \in Nodes, NEW box, NEW os, MailRegular(box)
  PROVE  MailRegular(FloodOps(box, n, os))
BY MadeRegular DEF FloodOps, MailRegular

LEMMA ConsumedRegular ==
  ASSUME TypeOK, MailRegular(inbox), NEW n \in Nodes, NEW msg
  PROVE  MailRegular(Consumed(n, msg))
BY DEF TypeOK, Consumed, MailRegular

LEMMA AnsweredRegular ==
  ASSUME TypeOK, StableInv, NEW n \in Nodes, NEW msg,
         NEW extra \in {FullChains(n), Blocks(n), {}}
  PROVE  MailRegular([Consumed(n, msg) EXCEPT ![n] = @ \cup extra])
<1>1. MailRegular(Consumed(n, msg)) /\ Consumed(n, msg) \in [Nodes -> SUBSET Messages]
  BY ConsumedRegular, ConsumedType DEF StableInv
<1>2. \A m \in extra : MessageRegular(m)
  BY AnswersRegular DEF StableInv
<1>. QED BY <1>1, <1>2 DEF MailRegular

\* What a step does to the chains: one of them grows, by one block, or up to a
\* length another replica has reached.
Grows(n, c) ==
  /\ chain' = [chain EXCEPT ![n] = c]
  /\ c \in Hashes /\ Len(c) > Len(chain[n])
  /\ Held(c) \/ (Len(c) = NextIndex(n) /\ Front(c) = chain[n])

\* What it leaves of regular blocks and mail; the lengths are those before it.
StepRegular ==
  /\ BlocksRegular' /\ MailRegular(inbox')
  /\ chain' = chain \/ \E n \in Nodes, c \in Hashes : Grows(n, c)

LEMMA SameRegular ==
  ASSUME StableInv, UNCHANGED <<chain, proposals>>, MailRegular(inbox')
  PROVE  StepRegular
BY DEF StableInv, BlocksRegular, StepRegular

LEMMA AppendRegular ==
  ASSUME TypeOK, StableInv, NEW n \in Nodes, NEW h \in Hashes, NEW cs,
         AppendBlocks(n, h, cs), Regular(h), Len(h) > Len(chain[n]),
         Held(h) \/ (Len(h) = NextIndex(n) /\ Front(h) = chain[n])
  PROVE  BlocksRegular' /\ Grows(n, h)
<1>1. /\ chain' = [chain EXCEPT ![n] = h]
      /\ proposals' = [proposals EXCEPT ![n] = {g \in @ : Len(g) > Len(h)}]
  BY DEF AppendBlocks
<1>2. BlocksRegular'
  BY <1>1 DEF StableInv, BlocksRegular, TypeOK
<1>. QED BY <1>1, <1>2 DEF Grows

LEMMA MaybeCommitRegular ==
  ASSUME TypeOK, StableInv, NEW n \in Nodes, NEW h \in Hashes,
         Len(h) = NextIndex(n), NEW ps, NEW vs, NEW vd, NEW box, NEW out,
         MaybeCommit(n, h, ps, vs, vd, box, out),
         \A g \in ps : Regular(g) /\ Front(g) = chain[n],
         MailRegular(box), \A m \in out : MessageRegular(m)
  PROVE  StepRegular
<1>1. CASE ~Sealed(h, ps, vs)
  <2>1. chain' = chain /\ proposals' = [proposals EXCEPT ![n] = ps]
    BY <1>1 DEF MaybeCommit, KeepChain
  <2>2. MailRegular(inbox')
    BY <1>1, FloodRegular DEF MaybeCommit
  <2>3. BlocksRegular'
    BY <2>1 DEF StableInv, BlocksRegular, TypeOK
  <2>. QED BY <2>1, <2>2, <2>3 DEF StepRegular
<1>2. CASE Sealed(h, ps, vs)
  <2>1. h \in ps /\ Regular(h) /\ Front(h) = chain[n]
    BY <1>2 DEF Sealed
  <2>2. /\ AppendBlocks(n, h, <<Tally(h, vs)>>)
        /\ inbox' = Flood(box, n, out \cup {Committed(h, Tally(h, vs))})
    BY <1>2 DEF MaybeCommit
  <2>3. \A m \in out \cup {Committed(h, Tally(h, vs))} : MessageRegular(m)
    BY <2>1, MadeRegular
  <2>4. MailRegular(inbox')
    BY <2>2, <2>3, FloodRegular
  <2>5. Len(h) > Len(chain[n])
    BY ChainParts DEF NextIndex, TypeOK
  <2>6. BlocksRegular' /\ Grows(n, h)
    BY <2>1, <2>2, <2>5, AppendRegular
  <2>. QED BY <2>4, <2>6 DEF StepRegular
<1>. QED BY <1>1, <1>2

\* The proposals a node stores continue its chain.
LEMMA StoredContinue ==
  ASSUME SafetyInv, NEW n \in Nodes, NEW g \in proposals[n]
  PROVE  Front(g) = chain[n] /\ AppliesOnce(g)
BY DEF SafetyInv, Safe, VotesSafe, Continues

LEMMA VoteForRegular ==
  ASSUME SafetyInv, StableInv, NEW n \in Nodes, NEW h \in Hashes,
         Len(h) = NextIndex(n), Front(h) = chain[n], Regular(h),
         NEW box, NEW out, VoteFor(n, h, box, out),
         MailRegular(box), \A m \in out : MessageRegular(m)
  PROVE  StepRegular
<1>1. TypeOK
  BY DEF SafetyInv
<1>2. \A g \in proposals[n] \cup {h} : Regular(g) /\ Front(g) = chain[n]
  BY StoredContinue DEF StableInv, BlocksRegular
<1>3. \A m \in out \cup {Vote(h, n)} : MessageRegular(m)
  BY MadeRegular
<1>4. CASE HasVoted(n, h)
  BY <1>1, <1>2, <1>4, MaybeCommitRegular DEF VoteFor
<1>5. CASE ~HasVoted(n, h)
  BY <1>1, <1>2, <1>3, <1>5, MaybeCommitRegular DEF VoteFor
<1>. QED BY <1>4, <1>5

\* A block over a regular chain is regular when it is itself.
LEMMA RegularExtends ==
  ASSUME TypeOK, BlocksRegular, NEW n \in Nodes, NEW h \in Hashes,
         Len(h) = NextIndex(n), Front(h) = chain[n],
         Last(h).ops # {}, Last(h).quorum = QuorumFor(Cardinality(Nodes))
  PROVE  Regular(h)
<1> DEFINE L == Len(chain[n])
<1>1. L \in Nat /\ h \in Chains /\ DOMAIN h = 1..(L + 1) /\ DOMAIN chain[n] = 1..L
  BY ChainParts, HashParts DEF TypeOK, NextIndex
<1>2. SubSeq(h, 1, L) = chain[n] /\ h[L + 1] = Last(h)
  BY FrontIsPrefix
<1>3. L \in 0..Len(h)
  BY <1>1 DEF NextIndex
<1>4. \A i \in 1..L : h[i] = chain[n][i]
  BY <1>1, <1>2, <1>3, PrefixOfPrefix
<1>5. ASSUME NEW i \in DOMAIN h
      PROVE  h[i].ops # {} /\ h[i].quorum = QuorumFor(Cardinality(Nodes))
  <2>1. i = L + 1 \/ i \in 1..L
    BY <1>1
  <2>2. CASE i = L + 1
    BY <1>2, <2>2
  <2>3. CASE i \in 1..L
    BY <1>1, <1>4, <2>3 DEF BlocksRegular, Regular
  <2>. QED BY <2>1, <2>2, <2>3
<1>. QED BY <1>5 DEF Regular

-----------------------------------------------------------------------------
\* Every step of a stable mesh.

LEMMA SubmitOpRegular ==
  ASSUME StableInv, NEW n \in Nodes, NEW o, SubmitOp(n, o)
  PROVE  StepRegular
<1>1. MailRegular(inbox')
  BY FloodOpsRegular DEF StableInv, SubmitOp
<1>. QED BY <1>1, SameRegular DEF SubmitOp

LEMMA ProposeRegular ==
  ASSUME SafetyInv, StableInv, NEW n \in Nodes, Propose(n)
  PROVE  StepRegular
<1> DEFINE h == Append(chain[n], Body(n, mempool[n], QuorumFor(Cardinality(active[n]))))
<1>1. TypeOK /\ active[n] = Nodes
  BY DEF SafetyInv, StableInv, EverybodyCounts
<1>2. /\ h \in Hashes /\ Len(h) = NextIndex(n) /\ Front(h) = chain[n]
      /\ Last(h) = Body(n, mempool[n], QuorumFor(Cardinality(active[n])))
  BY <1>1, ProposedBlock
<1>3. VoteFor(n, h, inbox, {Proposal(h)}) /\ mempool[n] # {}
  BY DEF Propose
<1> HIDE DEF h
<1>4. Last(h).ops # {} /\ Last(h).quorum = QuorumFor(Cardinality(Nodes))
  BY <1>1, <1>2, <1>3 DEF Body
<1>5. Regular(h)
  BY <1>1, <1>2, <1>4, RegularExtends DEF StableInv
<1>6. \A m \in {Proposal(h)} : MessageRegular(m)
  BY <1>5, MadeRegular
<1>7. MailRegular(inbox)
  BY DEF StableInv
<1>. QED BY <1>2, <1>3, <1>5, <1>6, <1>7, VoteForRegular

LEMMA QuietRegular ==
  ASSUME TypeOK, StableInv, NEW n \in Nodes, Persist(n) \/ Stop(n) \/ SyncRound(n)
  PROVE  StepRegular
<1>1. UNCHANGED <<chain, proposals>>
  BY DEF Persist, Stop, SyncRound, engine
<1>2. CASE Persist(n) \/ Stop(n)
  <2>1. MailRegular(inbox')
    BY <1>2 DEF Persist, Stop, StableInv
  <2>. QED BY <1>1, <2>1, SameRegular
<1>3. CASE SyncRound(n)
  <2> DEFINE box == [inbox EXCEPT ![n] = @ \cup Blocks(n)]
  <2>1. MailRegular(box)
    BY AnswersRegular DEF MailRegular, StableInv, TypeOK
  <2>2. inbox' = FloodOps(box, n, mempool[n])
    BY <1>3 DEF SyncRound
  <2> HIDE DEF box
  <2>3. MailRegular(inbox')
    BY <2>1, <2>2, FloodOpsRegular
  <2>. QED BY <1>1, <2>3, SameRegular
<1>. QED BY <1>2, <1>3

LEMMA ReceiveNewsRegular ==
  ASSUME TypeOK, StableInv, NEW n \in Nodes, NEW msg,
         ReceiveOp(n, msg) \/ ReceiveValidator(n, msg)
  PROVE  StepRegular
<1>1. MailRegular(inbox')
  BY ConsumedRegular DEF StableInv, ReceiveOp, ReceiveValidator
<1>. QED BY <1>1, SameRegular DEF ReceiveOp, ReceiveValidator

LEMMA ReceiveProposeRegular ==
  ASSUME SafetyInv, StableInv, NEW n \in Nodes, NEW msg \in inbox[n],
         ReceivePropose(n, msg)
  PROVE  StepRegular
<1>1. TypeOK /\ MailRegular(inbox)
  BY DEF SafetyInv, StableInv
<1>2. msg.hash \in Hashes /\ Regular(msg.hash)
  BY <1>1, MessageParts DEF TypeOK, ReceivePropose, MailRegular, MessageRegular
<1>3. CASE Acceptable(n, msg.hash)
  <2>1. VoteFor(n, msg.hash, Consumed(n, msg), {})
    BY <1>3 DEF ReceivePropose
  <2>2. Len(msg.hash) = NextIndex(n) /\ Front(msg.hash) = chain[n]
    BY <1>3 DEF Acceptable
  <2>3. MailRegular(Consumed(n, msg)) /\ \A m \in {} : MessageRegular(m)
    BY <1>1, ConsumedRegular
  <2>. QED BY <1>2, <2>1, <2>2, <2>3, VoteForRegular
<1>4. CASE ~Acceptable(n, msg.hash)
  <2>1. UNCHANGED <<chain, proposals>>
    BY <1>4 DEF ReceivePropose, KeepChain
  <2>2. PICK extra \in {FullChains(n), Blocks(n), {}} :
          inbox' = [Consumed(n, msg) EXCEPT ![n] = @ \cup extra]
    BY <1>4, Zenon DEF ReceivePropose
  <2>3. MailRegular(inbox')
    BY <1>1, <2>2, AnsweredRegular
  <2>. QED BY <2>1, <2>3, SameRegular
<1>. QED BY <1>3, <1>4

LEMMA ReceiveVoteRegular ==
  ASSUME SafetyInv, StableInv, NEW n \in Nodes, NEW msg \in inbox[n],
         ReceiveVote(n, msg)
  PROVE  StepRegular
<1> DEFINE h  == msg.hash
           vs == votes[n] \cup {<<h, msg.voter>>}
<1>1. TypeOK /\ MailRegular(Consumed(n, msg))
  BY ConsumedRegular DEF SafetyInv, StableInv
<1>2. h \in Hashes
  BY <1>1, MessageParts DEF TypeOK, ReceiveVote
<1>3. CASE Len(h) = NextIndex(n)
           /\ MaybeCommit(n, h, proposals[n], vs, voted[n], Consumed(n, msg), {})
  <2>1. \A g \in proposals[n] : Regular(g) /\ Front(g) = chain[n]
    BY StoredContinue DEF StableInv, BlocksRegular
  <2>2. \A m \in {} : MessageRegular(m)
    OBVIOUS
  <2>. QED BY <1>1, <1>2, <1>3, <2>1, <2>2, MaybeCommitRegular
<1>4. CASE UNCHANGED <<chain, proposals>> /\ inbox' = Consumed(n, msg)
  BY <1>1, <1>4, SameRegular
<1>. QED BY <1>3, <1>4 DEF ReceiveVote, KeepChain

LEMMA ReceiveCommittedRegular ==
  ASSUME SafetyInv, StableInv, NEW n \in Nodes, NEW msg \in inbox[n],
         ReceiveCommitted(n, msg)
  PROVE  StepRegular
<1>1. TypeOK /\ MailRegular(inbox)
  BY DEF SafetyInv, StableInv
<1>2. msg.hash \in Hashes /\ Regular(msg.hash)
  BY <1>1, MessageParts DEF TypeOK, ReceiveCommitted, MailRegular, MessageRegular
<1>3. PICK extra \in {FullChains(n), Blocks(n), {}} :
        inbox' = [Consumed(n, msg) EXCEPT ![n] = @ \cup extra]
  BY Zenon DEF ReceiveCommitted
<1>4. MailRegular(inbox')
  BY <1>1, <1>3, AnsweredRegular
<1>5. CASE UNCHANGED <<chain, proposals>>
  BY <1>4, <1>5, SameRegular
<1>6. CASE Len(msg.hash) = NextIndex(n) /\ Front(msg.hash) = chain[n]
           /\ AppendBlocks(n, msg.hash, <<msg.cert>>)
  <2>1. Len(msg.hash) > Len(chain[n])
    BY <1>1, <1>6, ChainParts DEF NextIndex, TypeOK
  <2>2. BlocksRegular' /\ Grows(n, msg.hash)
    BY <1>1, <1>2, <1>6, <2>1, AppendRegular
  <2>. QED BY <1>2, <1>4, <2>2 DEF StepRegular
<1>. QED BY <1>5, <1>6, Zenon DEF ReceiveCommitted, KeepChain

LEMMA ReceiveBlocksRegular ==
  ASSUME SafetyInv, StableInv, NEW n \in Nodes, NEW msg \in inbox[n],
         ReceiveBlocks(n, msg)
  PROVE  StepRegular
<1>1. TypeOK /\ MailRegular(inbox)
  BY DEF SafetyInv, StableInv
<1>2. CASE Linked(n, msg) = {}
  <2>1. UNCHANGED <<chain, proposals>>
    BY <1>2 DEF ReceiveBlocks, KeepChain
  <2>2. PICK extra \in {FullChains(n), Blocks(n), {}} :
          inbox' = [Consumed(n, msg) EXCEPT ![n] = @ \cup extra]
    BY <1>2, Zenon DEF ReceiveBlocks
  <2>3. MailRegular(inbox')
    BY <1>1, <2>2, AnsweredRegular
  <2>. QED BY <2>1, <2>3, SameRegular
<1>3. CASE \E k \in Linked(n, msg) :
             /\ AppendBlocks(n, SubSeq(msg.hash, 1, k), SubSeq(msg.certs, NextIndex(n), k))
             /\ inbox' = Consumed(n, msg)
  <2>1. PICK k \in Linked(n, msg) :
             /\ AppendBlocks(n, SubSeq(msg.hash, 1, k), SubSeq(msg.certs, NextIndex(n), k))
             /\ inbox' = Consumed(n, msg)
    BY <1>3
  <2>2. SubSeq(msg.hash, 1, k) \in Hashes /\ Len(SubSeq(msg.hash, 1, k)) = k
    BY <1>1, LinkedBlocks DEF ReceiveBlocks
  <2>3. msg.hash \in Chains /\ Regular(msg.hash) /\ Held(msg.hash)
    BY <1>1, MessageParts DEF TypeOK, ReceiveBlocks, MailRegular, MessageRegular
  <2>4. Len(chain[n]) \in Nat /\ Len(msg.hash) \in Nat
    BY <1>1, <2>3, ChainParts DEF TypeOK
  <2>5. k \in Nat /\ k > Len(chain[n]) /\ k <= Len(msg.hash) /\ k \in 0..Len(msg.hash)
    BY <2>4 DEF Linked, NextIndex
  <2>6. Regular(SubSeq(msg.hash, 1, k))
    BY <2>3, <2>5, RegularPrefix
  <2>7. \A p \in Nodes : Len(chain[p]) \in Nat
    BY <1>1, ChainParts DEF TypeOK
  <2>8. Held(SubSeq(msg.hash, 1, k))
    BY <2>2, <2>3, <2>4, <2>5, <2>7 DEF Held
  <2>9. BlocksRegular' /\ Grows(n, SubSeq(msg.hash, 1, k))
    BY <1>1, <2>1, <2>2, <2>5, <2>6, <2>8, AppendRegular
  <2>10. MailRegular(inbox')
    BY <1>1, <2>1, ConsumedRegular
  <2>. QED BY <2>2, <2>9, <2>10 DEF StepRegular
<1>. QED BY <1>2, <1>3 DEF ReceiveBlocks

LEMMA ReceiveFullChainRegular ==
  ASSUME SafetyInv, StableInv, NEW n \in Nodes, NEW msg \in inbox[n],
         ReceiveFullChain(n, msg)
  PROVE  StepRegular
<1>1. TypeOK /\ MailRegular(inbox)
  BY DEF SafetyInv, StableInv
<1>2. msg.hash \in Chains /\ Regular(msg.hash) /\ Held(msg.hash)
  BY <1>1, MessageParts DEF TypeOK, ReceiveFullChain, MailRegular, MessageRegular
<1>3. MailRegular(inbox')
  BY <1>1, ConsumedRegular DEF ReceiveFullChain
<1>4. CASE UNCHANGED <<chain, proposals>>
  BY <1>3, <1>4, SameRegular
<1>5. CASE /\ Len(msg.hash) > Len(chain[n])
           /\ chain' = [chain EXCEPT ![n] = msg.hash]
           /\ proposals' = [proposals EXCEPT ![n] = {}]
  <2>1. msg.hash \in Hashes
    <3>1. Len(chain[n]) \in Nat /\ Len(msg.hash) \in Nat
      BY <1>1, <1>2, ChainParts DEF TypeOK
    <3>2. msg.hash # <<>>
      BY <1>5, <3>1, EmptySeq
    <3>. QED BY <1>2, <3>2 DEF Hashes
  <2>2. BlocksRegular'
    BY <1>1, <1>2, <1>5 DEF StableInv, BlocksRegular, TypeOK
  <2>. QED BY <1>2, <1>3, <1>5, <2>1, <2>2 DEF StepRegular, Grows
<1>. QED BY <1>4, <1>5 DEF ReceiveFullChain, KeepChain, Better

LEMMA NextRegular ==
  ASSUME StableMembership, SafetyInv, StableInv, [Next]_vars
  PROVE  StepRegular
<1>1. TypeOK /\ MailRegular(inbox)
  BY DEF SafetyInv, StableInv
<1>2. CASE \E o \in Ops : SubmitOp(Author[o], o)
  BY <1>2, SubmitOpRegular, MeshAssumption
<1>3. CASE \E n \in Nodes : Propose(n)
  BY <1>3, ProposeRegular
<1>4. CASE \E n \in Nodes : Persist(n) \/ SyncRound(n) \/ Stop(n)
  BY <1>1, <1>4, QuietRegular
<1>5. CASE \E n \in Nodes : Deliver(n)
  BY <1>1, <1>5, ReceiveNewsRegular, ReceiveProposeRegular, ReceiveVoteRegular,
     ReceiveCommittedRegular, ReceiveBlocksRegular, ReceiveFullChainRegular
     DEF Deliver, Receive
<1>6. CASE \/ \E n, m \in Nodes : Connect(n, m) \/ Disconnect(n, m)
           \/ \E n \in Nodes : Restart(n)
  <2>1. changes \in 0..0 /\ MaxChanges = 0
    BY <1>1 DEF TypeOK, StableMembership
  <2>2. ~(changes < MaxChanges)
    BY <2>1
  <2>. QED BY <1>6, <2>2 DEF Connect, Disconnect, Restart
<1>7. CASE UNCHANGED vars
  BY <1>1, <1>7, SameRegular DEF vars, engine
<1>. QED BY <1>2, <1>3, <1>4, <1>5, <1>6, <1>7 DEF Next

-----------------------------------------------------------------------------
\* The invariant of a stable mesh.

\* Nobody leaves the active set of a stable mesh.
LEMMA CountsKept ==
  ASSUME StableMembership, TypeOK, [Next]_vars, NEW n \in Nodes
  PROVE  active[n] \subseteq active'[n]
<1>1. CASE UNCHANGED active
  BY <1>1
<1>2. ASSUME NEW m, NEW ks, Meet(m, ks)
      PROVE  active[n] \subseteq active'[n]
  BY <1>2 DEF Meet, TypeOK
<1>3. CASE \E o \in Ops : SubmitOp(Author[o], o)
  BY <1>1, <1>3 DEF SubmitOp
<1>4. CASE \E m \in Nodes : Propose(m) \/ Persist(m) \/ SyncRound(m) \/ Stop(m)
  BY <1>1, <1>4 DEF Propose, Persist, SyncRound, Stop, engine
<1>5. CASE \E m \in Nodes : Deliver(m)
  <2>1. PICK m \in Nodes : \E msg \in inbox[m] : Receive(m, msg)
    BY <1>5 DEF Deliver
  <2>0. PICK msg \in inbox[m] : Receive(m, msg)
    BY <2>1
  <2>2. CASE ReceiveOp(m, msg) \/ ReceiveBlocks(m, msg) \/ ReceiveFullChain(m, msg)
    BY <1>1, <2>2 DEF ReceiveOp, ReceiveBlocks, ReceiveFullChain
  <2>3. CASE \/ ReceiveValidator(m, msg) \/ ReceivePropose(m, msg)
             \/ ReceiveVote(m, msg) \/ ReceiveCommitted(m, msg)
    BY <1>2, <2>3 DEF ReceiveValidator, ReceivePropose, ReceiveVote, ReceiveCommitted
  <2>. QED BY <2>0, <2>2, <2>3 DEF Receive
<1>6. CASE \/ \E m, k \in Nodes : Connect(m, k) \/ Disconnect(m, k)
           \/ \E m \in Nodes : Restart(m)
  <2>1. changes \in 0..0 /\ MaxChanges = 0
    BY DEF TypeOK, StableMembership
  <2>2. ~(changes < MaxChanges)
    BY <2>1
  <2>. QED BY <1>6, <2>2 DEF Connect, Disconnect, Restart
<1>7. CASE UNCHANGED vars
  BY <1>1, <1>7 DEF vars, engine
<1>. QED BY <1>3, <1>4, <1>5, <1>6, <1>7 DEF Next

LEMMA InitStable ==
  ASSUME StableMembership, Init
  PROVE  StableInv
<1>1. EverybodyCounts
  BY DEF Init, StableMembership, EverybodyCounts
<1>2. BlocksRegular
  BY DEF Init, BlocksRegular, Regular
<1>3. MailRegular(inbox)
  BY DEF Init, MailRegular
<1>. QED BY <1>1, <1>2, <1>3 DEF StableInv

LEMMA NextStable ==
  ASSUME StableMembership, SafetyInv, StableInv, [Next]_vars
  PROVE  StableInv'
<1>1. TypeOK /\ TypeOK' /\ StepRegular
  BY NextTypes, NextRegular DEF SafetyInv
<1>2. EverybodyCounts'
  <2>1. \A n \in Nodes : active'[n] \subseteq Nodes
    BY <1>1 DEF TypeOK
  <2>2. \A n \in Nodes : active[n] = Nodes
    BY DEF StableInv, EverybodyCounts
  <2>3. \A n \in Nodes : active[n] \subseteq active'[n]
    BY <1>1, CountsKept
  <2>. QED BY <2>1, <2>2, <2>3 DEF EverybodyCounts
<1>3. \A p \in Nodes : /\ Len(chain'[p]) >= Len(chain[p])
                       /\ Len(chain[p]) \in Nat /\ Len(chain'[p]) \in Nat
  <2> SUFFICES ASSUME NEW p \in Nodes
               PROVE  /\ Len(chain'[p]) >= Len(chain[p])
                      /\ Len(chain[p]) \in Nat /\ Len(chain'[p]) \in Nat
    OBVIOUS
  <2>1. chain[p] \in Chains /\ chain'[p] \in Chains
    BY <1>1 DEF TypeOK
  <2>2. Len(chain[p]) \in Nat /\ Len(chain'[p]) \in Nat
    BY <2>1, ChainParts
  <2>3. Forward(p)
    BY <1>1, NextForward DEF StableMembership
  <2>. QED BY <2>2, <2>3 DEF Forward
<1>4. MailRegular(inbox)'
  <2> SUFFICES ASSUME NEW n \in Nodes, NEW m \in inbox'[n]
               PROVE  MessageRegular(m)'
    BY DEF MailRegular
  <2>1. MessageRegular(m) /\ m \in Messages
    BY <1>1 DEF StepRegular, MailRegular, TypeOK
  <2>2. CASE m.type = "SyncResponse"
    <3>1. Len(m.hash) \in Nat
      BY <2>1, <2>2, MessageParts, ChainParts
    <3>2. PICK p \in Nodes : Len(m.hash) <= Len(chain[p])
      BY <2>1, <2>2 DEF MessageRegular, Held
    <3>3. Len(m.hash) <= Len(chain'[p])
      BY <1>3, <3>1, <3>2
    <3>. QED BY <2>1, <2>2, <3>3 DEF MessageRegular, Held, Regular
  <2>3. CASE m.type # "SyncResponse"
    BY <2>1, <2>3 DEF MessageRegular, Regular
  <2>. QED BY <2>2, <2>3
<1>. QED BY <1>1, <1>2, <1>4 DEF StableInv, StepRegular

-----------------------------------------------------------------------------
\* One log.

\* Of two chains the shorter is the beginning of the longer.
Agreement ==
  \A n, m \in Nodes :
    Len(chain[n]) <= Len(chain[m]) => chain[n] = SubSeq(chain[m], 1, Len(chain[n]))

LEMMA StableAgreement ==
  ASSUME StableMembership, SafetyInv, StableInv
  PROVE  Agreement
<1> SUFFICES ASSUME NEW n \in Nodes, NEW m \in Nodes, Len(chain[n]) <= Len(chain[m])
             PROVE  chain[n] = SubSeq(chain[m], 1, Len(chain[n]))
  BY DEF Agreement
<1> DEFINE L == Len(chain[n])
<1>1. /\ chain[n] \in Chains /\ chain[m] \in Chains
      /\ L \in Nat /\ Len(chain[m]) \in Nat
      /\ DOMAIN chain[n] = 1..L /\ DOMAIN chain[m] = 1..Len(chain[m])
  BY ChainParts DEF SafetyInv, TypeOK
<1>2. SubSeq(chain[n], 1, L) = chain[n]
  BY <1>1, SubSeqFull DEF Chains
<1>3. CASE L = 0
  <2>1. SubSeq(chain[n], 1, L) = <<>> /\ SubSeq(chain[m], 1, L) = <<>>
    BY <1>3, SubSeqEmpty
  <2>. QED BY <1>2, <2>1
<1>4. CASE L # 0
  <2> DEFINE K == Cardinality(Nodes)
             Q == QuorumFor(K)
  <2>1. K \in Nat
    BY MeshAssumption, FS_CardinalityType
  <2>2. Q \in Nat /\ Q >= 1 /\ Q + Q > K
    BY <2>1 DEF QuorumFor
  <2> HIDE DEF K, Q
  <2>3. L \in DOMAIN chain[n] /\ L \in DOMAIN chain[m]
    BY <1>1, <1>4
  <2>4. chain[n][L].quorum = Q /\ chain[m][L].quorum = Q
    BY <2>3 DEF StableInv, BlocksRegular, Regular, Q, K
  <2>5. Needed(chain[n][L]) = Q /\ Needed(chain[m][L]) = Q
    BY <2>2, <2>4 DEF Needed
  <2>6. Cardinality(Restarters) = 0
    BY FS_EmptySet DEF StableMembership
  <2>7. SubSeq(chain[n], 1, L) # SubSeq(chain[m], 1, L) => Q + Q <= K + 0
    BY <2>3, <2>5, <2>6, SafeQuorums DEF ConflictsNeedSmallQuorums, K
  <2>. QED BY <1>2, <2>1, <2>2, <2>7
<1>. QED BY <1>3, <1>4

\* Among finitely many chains there is a longest.
LEMMA LongestExists ==
  ASSUME Nodes # {}, NEW ch \in [Nodes -> Chains]
  PROVE  \E n \in Nodes : \A m \in Nodes : Len(ch[m]) <= Len(ch[n])
<1> DEFINE above(n) == {m \in Nodes : Len(ch[m]) > Len(ch[n])}
           Above == {above(n) : n \in Nodes}
<1>1. \A n \in Nodes : Len(ch[n]) \in Nat
  BY ChainParts
<1>2. Above \subseteq FiniteSubsetsOf(Nodes) /\ Above # {}
  <2>1. \A n \in Nodes : above(n) \in SUBSET Nodes
    OBVIOUS
  <2>2. FiniteSubsetsOf(Nodes) = SUBSET Nodes
    BY MeshAssumption, FS_FiniteSubsetsOfFinite
  <2> HIDE DEF above
  <2>. QED BY <2>1, <2>2
<1>3. IsWellFoundedOn(StrictSubsetOrdering(Nodes), FiniteSubsetsOf(Nodes))
  BY FS_StrictSubsetOrderingWellFounded
<1>4. PICK T \in Above : \A U \in Above : ~(<<U, T>> \in StrictSubsetOrdering(Nodes))
  <2> HIDE DEF Above
  <2>. QED BY <1>2, <1>3, WFMin
<1>5. PICK n \in Nodes : T = above(n)
  BY <1>4
<1>6. ASSUME NEW m \in Nodes, Len(ch[m]) > Len(ch[n])
      PROVE  FALSE
  <2>1. above(m) \subseteq T /\ m \in T /\ m \notin above(m)
    BY <1>1, <1>5, <1>6
  <2>2. <<above(m), T>> \in (SUBSET Nodes) \X (SUBSET Nodes)
    BY <1>5
  <2>3. above(m) \in Above
    OBVIOUS
  <2> HIDE DEF above, Above
  <2>4. <<above(m), T>> \in StrictSubsetOrdering(Nodes)
    BY <2>1, <2>2 DEF StrictSubsetOrdering
  <2>. QED BY <1>4, <2>3, <2>4
<1>. QED BY <1>1, <1>6

LEMMA LongestIs ==
  ASSUME Nodes # {}, TypeOK
  PROVE  Longest \in Nodes /\ \A m \in Nodes : Len(chain[m]) <= Len(chain[Longest])
<1>1. \E n \in Nodes : \A m \in Nodes : Len(chain[m]) <= Len(chain[n])
  BY LongestExists DEF TypeOK
<1>. QED BY <1>1 DEF Longest

LEMMA LongestIsNext ==
  ASSUME Nodes # {}, TypeOK'
  PROVE  Longest' \in Nodes /\ \A m \in Nodes : Len(chain'[m]) <= Len(chain'[Longest'])
<1>1. \E n \in Nodes : \A m \in Nodes : Len(chain'[m]) <= Len(chain'[n])
  BY LongestExists DEF TypeOK
<1>. QED BY <1>1 DEF Longest

\* A block is what it adds to the chain under it.
LEMMA LastAppended ==
  ASSUME NEW h \in Hashes
  PROVE  h = Append(Front(h), Last(h))
<1> DEFINE L == Len(h) - 1
           f == Front(h)
           b == Last(h)
<1>1. /\ h \in Seq(Bodies) /\ Len(h) \in Nat \ {0} /\ b \in Bodies
      /\ f \in Seq(Bodies) /\ Len(f) = L
  BY HashParts DEF Chains
<1>2. L \in Nat /\ Len(h) = L + 1 /\ L \in 0..Len(h) /\ h \in Chains
  BY <1>1 DEF Chains
<1>3. f = SubSeq(h, 1, L) /\ b = h[L + 1]
  BY <1>2 DEF Front, Last
<1> HIDE DEF L, f, b
<1>4. \A i \in 1..L : f[i] = h[i]
  BY <1>2, <1>3, PrefixOfPrefix
<1>5. /\ Append(f, b) \in Seq(Bodies) /\ Len(Append(f, b)) = L + 1
      /\ \A i \in 1..L : Append(f, b)[i] = f[i]
      /\ Append(f, b)[L + 1] = b
  BY <1>1, AppendProperties
<1>6. \A i \in 1..Len(h) : h[i] = Append(f, b)[i]
  <2> SUFFICES ASSUME NEW i \in 1..(L + 1)
               PROVE  h[i] = Append(f, b)[i]
    BY <1>2
  <2>1. i \in 1..L \/ i = L + 1
    BY <1>2
  <2>. QED BY <1>3, <1>4, <1>5, <2>1
<1>7. h = Append(f, b)
  BY <1>1, <1>2, <1>5, <1>6, SeqEqual
<1>. QED BY <1>7 DEF f, b

-----------------------------------------------------------------------------
\* Steps of the engines are steps of the log.

\* A replica reaches a length another one has reached: it learns blocks of the log.
LEMMA HeldIsCatchUp ==
  ASSUME Nodes # {}, TypeOK, TypeOK', Agreement, Agreement',
         NEW n \in Nodes, NEW c \in Hashes, Grows(n, c), Held(c)
  PROVE  Log!CatchUp(n)
<1> DEFINE l == chain[Longest]
           M == Longest'
<1>1. /\ Longest \in Nodes /\ M \in Nodes
      /\ \A m \in Nodes : Len(chain[m]) <= Len(l) /\ Len(chain'[m]) <= Len(chain'[M])
  BY LongestIs, LongestIsNext
<1> HIDE DEF M
<1>2. \A m \in Nodes : Len(chain[m]) \in Nat /\ chain'[m] \in Chains
  BY ChainParts DEF TypeOK
<1>3. chain' = [chain EXCEPT ![n] = c] /\ Len(c) > Len(chain[n]) /\ Len(c) \in Nat
  BY HashParts DEF Grows
<1>4. /\ chain'[n] = c
      /\ \A m \in Nodes \ {n} : chain'[m] = chain[m]
  BY <1>3 DEF TypeOK
<1>5. Len(c) <= Len(l)
  <2>1. PICK p \in Nodes : Len(c) <= Len(chain[p])
    BY DEF Held
  <2>2. Len(chain[p]) <= Len(l) /\ Len(chain[p]) \in Nat /\ Len(l) \in Nat
    BY <1>1, <1>2
  <2>. QED BY <1>3, <2>1, <2>2
<1>6. Longest # n
  <2>1. Len(l) \in Nat
    BY <1>1, <1>2
  <2>. QED BY <1>2, <1>3, <1>5, <2>1
<1>7. chain'[Longest] = l
  BY <1>1, <1>4, <1>6
<1>8. Len(l) <= Len(chain'[M]) /\ Len(chain'[M]) <= Len(l) /\ Len(l) \in Nat
      /\ Len(chain'[M]) \in Nat
  <2>1. Len(l) <= Len(chain'[M]) /\ Len(l) \in Nat
    BY <1>1, <1>2, <1>7
  <2>2. Len(chain'[M]) <= Len(l) /\ Len(chain'[M]) \in Nat
    <3>1. CASE M = n
      BY <1>3, <1>4, <1>5, <3>1
    <3>2. CASE M # n
      <4>1. chain'[M] = chain[M]
        BY <1>1, <1>4, <3>2
      <4>. QED BY <1>1, <1>2, <4>1
    <3>. QED BY <3>1, <3>2
  <2>. QED BY <2>1, <2>2
<1>9. \A p, q \in Nodes : Len(chain'[p]) <= Len(chain'[q]) =>
        chain'[p] = SubSeq(chain'[q], 1, Len(chain'[p]))
  BY DEF Agreement
<1>10. chain'[M] = l
  <2>1. l = SubSeq(chain'[M], 1, Len(l)) /\ Len(l) = Len(chain'[M])
    BY <1>1, <1>7, <1>8, <1>9
  <2>2. SubSeq(chain'[M], 1, Len(chain'[M])) = chain'[M]
    BY <1>1, <1>2, SubSeqFull DEF Chains
  <2>. QED BY <2>1, <2>2
<1>11. c = SubSeq(l, 1, Len(c))
  BY <1>1, <1>4, <1>5, <1>7, <1>9
<1>12. Len(c) \in Len(chain[n]) + 1 .. Len(l)
  BY <1>2, <1>3, <1>5, <1>8
<1>13. chain' = [chain EXCEPT ![n] = SubSeq(l, 1, Len(c))]
  BY <1>3, <1>11
<1>. QED BY <1>10, <1>12, <1>13 DEF Log!CatchUp, M

\* A replica exceeds every other: it held the log, and seals its next block.
LEMMA NewIsSeal ==
  ASSUME Nodes # {}, TypeOK, TypeOK', Agreement, OpsCommitOnce', BlocksRegular',
         NEW n \in Nodes, NEW c \in Hashes, Grows(n, c), ~Held(c)
  PROVE  \E b \in [proposer : Nodes, ops : SUBSET Ops,
                   quorum : 1..QuorumFor(Cardinality(Nodes))] : Log!Seal(n, b)
<1> DEFINE l == chain[Longest]
           M == Longest'
           b == Last(c)
           L == Len(chain[n])
<1>1. /\ Longest \in Nodes /\ M \in Nodes
      /\ \A m \in Nodes : Len(chain[m]) <= Len(l) /\ Len(chain'[m]) <= Len(chain'[M])
  BY LongestIs, LongestIsNext
<1> HIDE DEF M
<1>2. \A m \in Nodes : Len(chain[m]) \in Nat /\ chain[m] \in Chains
  BY ChainParts DEF TypeOK
<1>3. /\ chain' = [chain EXCEPT ![n] = c] /\ Len(c) = L + 1 /\ Front(c) = chain[n]
      /\ Len(c) \in Nat /\ c \in Chains /\ b \in Bodies
  BY HashParts DEF Grows, NextIndex
<1>4. chain'[n] = c /\ \A m \in Nodes \ {n} : chain'[m] = chain[m]
  BY <1>3 DEF TypeOK
<1>5. \A m \in Nodes : Len(chain[m]) < Len(c)
  BY <1>2, <1>3 DEF Held
<1>6. chain[n] = l
  <2>1. Len(l) = L /\ Len(l) \in Nat
    BY <1>1, <1>2, <1>3, <1>5
  <2>2. l = SubSeq(chain[n], 1, L)
    BY <1>1, <1>2, <2>1 DEF Agreement
  <2>3. SubSeq(chain[n], 1, L) = chain[n]
    BY <1>2, SubSeqFull DEF Chains
  <2>. QED BY <2>2, <2>3
<1>7. chain'[M] = c
  <2>1. Len(c) <= Len(chain'[M])
    BY <1>1, <1>4
  <2>2. M # n => Len(chain'[M]) < Len(c) /\ Len(chain'[M]) \in Nat
    BY <1>1, <1>2, <1>4, <1>5
  <2>3. M = n
    BY <1>3, <2>1, <2>2
  <2>. QED BY <1>4, <2>3
<1>8. c = Append(l, b)
  BY <1>3, <1>6, LastAppended
<1>9. /\ DOMAIN c = 1..(L + 1) /\ DOMAIN l = 1..L /\ L \in Nat /\ L \in 0..Len(c)
      /\ c[L + 1] = b
  BY <1>2, <1>3, <1>6, ChainParts DEF Last
<1>10. /\ b.ops # {} /\ b.quorum = QuorumFor(Cardinality(Nodes))
       /\ b \in [proposer : Nodes, ops : SUBSET Ops,
                 quorum : 1..QuorumFor(Cardinality(Nodes))]
  <2>1. b.ops # {} /\ b.quorum = QuorumFor(Cardinality(Nodes))
    BY <1>4, <1>9 DEF BlocksRegular, Regular
  <2>2. Cardinality(Nodes) \in Nat
    BY MeshAssumption, FS_CardinalityType
  <2>3. QuorumFor(Cardinality(Nodes)) \in 1..QuorumFor(Cardinality(Nodes))
    BY <2>2 DEF QuorumFor
  <2>. QED BY <1>3, <2>1, <2>3 DEF Bodies
<1>11. \A i \in DOMAIN l : l[i].ops \cap b.ops = {}
  <2> SUFFICES ASSUME NEW i \in 1..L
               PROVE  l[i].ops \cap b.ops = {}
    BY <1>9
  <2>1. i \in DOMAIN c /\ L + 1 \in DOMAIN c /\ i # L + 1
    BY <1>9
  <2>2. c[i].ops \cap c[L + 1].ops = {}
    BY <1>4, <2>1 DEF OpsCommitOnce
  <2>3. SubSeq(c, 1, L) = l
    BY <1>3, <1>6, <1>9 DEF Front
  <2>4. c[i] = l[i]
    BY <1>3, <1>9, <2>3, PrefixOfPrefix
  <2>. QED BY <1>9, <2>2, <2>4
<1>12. chain'[M] = Append(l, b) /\ chain' = [chain EXCEPT ![n] = chain'[M]]
  BY <1>3, <1>7, <1>8
<1> HIDE DEF b
<1>13. Log!Seal(n, b)
  BY <1>6, <1>10, <1>11, <1>12 DEF Log!Seal, M
<1>. QED BY <1>10, <1>13

LEMMA LogInit ==
  ASSUME Nodes # {}, Init
  PROVE  Log!Init
<1>1. TypeOK
  BY InitTypes
<1>2. chain = [n \in Nodes |-> <<>>]
  BY DEF Init
<1>. QED BY <1>1, <1>2, LongestIs DEF Log!Init

LEMMA LogStep ==
  ASSUME StableMembership, SafetyInv, StableInv, Agreement,
         StableInv', Agreement', OpsCommitOnce', [Next]_vars
  PROVE  [Log!Next]_(Log!vars)
<1>1. TypeOK /\ TypeOK' /\ Nodes # {} /\ BlocksRegular' /\ StepRegular
  BY NextTypes, NextRegular DEF SafetyInv, StableMembership, StableInv
<1>2. CASE chain' = chain
  <2>1. Longest' = Longest
    BY <1>2 DEF Longest
  <2>. QED BY <1>2, <2>1 DEF Log!vars
<1>3. ASSUME NEW n \in Nodes, NEW c \in Hashes, Grows(n, c)
      PROVE  Log!Next
  <2>1. CASE Held(c)
    BY <1>1, <1>3, <2>1, HeldIsCatchUp DEF Log!Next
  <2>2. CASE ~Held(c)
    <3>1. \E b \in [proposer : Nodes, ops : SUBSET Ops,
                    quorum : 1..QuorumFor(Cardinality(Nodes))] : Log!Seal(n, b)
      BY <1>1, <1>3, <2>2, NewIsSeal
    <3>. QED BY <3>1 DEF Log!Next
  <2>. QED BY <2>1, <2>2
<1>. QED BY <1>1, <1>2, <1>3 DEF StepRegular

\* While membership is stable the engines implement one replicated log.
THEOREM LogRefinement ==
  ASSUME StableMembership
  PROVE  Spec => ImplementsLog
<1>1. Init => StableInv /\ Log!Init
  BY InitStable, LogInit DEF StableMembership
<1>2. SafetyInv /\ StableInv /\ [Next]_vars => StableInv'
  BY NextStable
<1>3. SafetyInv /\ StableInv => Agreement /\ OpsCommitOnce
  BY StableAgreement, SafeApplied
<1>4. SafetyInv /\ StableInv /\ Agreement /\ StableInv' /\ Agreement'
        /\ OpsCommitOnce' /\ [Next]_vars => [Log!Next]_(Log!vars)
  BY LogStep
<1>. QED BY <1>1, <1>2, <1>3, <1>4, SafetyInvariant, PTL DEF Spec, ImplementsLog, Log!Spec
=============================================================================
